----------------------------- MODULE ClockGuard -----------------------------
(***************************************************************************)
(* The clock guard of hnc_httpd's day-file writers (clock_guard.go,        *)
(* clockhwm): a persisted high-water mark below which the wall clock is    *)
(* not believed, its two ways to heal, and a guard per writer that sees    *)
(* jumps against the monotonic clock.  The wall clock is set at will, the  *)
(* phone sleeps, and httpd restarts.  Every check holds one mutex.         *)
(***************************************************************************)
EXTENDS Integers, FiniteSets

CONSTANTS Writer,         \* day-file writers with a guard of their own
          MinWall,        \* clockhwm.MinUnix
          BackTolerance, JumpThreshold, PersistEvery, HealAfter, TrustAfterBoot,
          MaxWall, MaxBoot, \* bounds on the wall clock and on the uptime
          MaxSets, MaxRestarts

ASSUME ClockConstants ==
  /\ \A c \in {MinWall, BackTolerance, JumpThreshold, PersistEvery, HealAfter, TrustAfterBoot,
               MaxWall, MaxBoot, MaxSets, MaxRestarts} : c \in Nat
  /\ PersistEvery > 0 /\ MinWall > 0 /\ HealAfter > 0 /\ MinWall <= MaxWall

VARIABLES wall, boot, mono,  \* time.Now, /proc/uptime, CLOCK_MONOTONIC
          autoTime,          \* what settings say of auto_time: on, or not known to be on
          hwm, savedHWM,     \* clockDirState: the mark, and data/clock_hwm
          unwritten,         \* history: the last write of the mark has failed
          behindSince,       \* uptime at which the clock was first seen behind, -1
          clockGuard,             \* per writer: have, lastWall, lastMono, insane, insaneSince
          booked,            \* history: the latest time a writer booked at since the mark was reset or forgotten
          slip,              \* history: by how much a booking was earlier than that
          lagging,           \* history: uptime of the first of an unbroken run of checks behind the mark, -1
          waited,            \* history: how long that run had lasted at the latest refused check
          drift,             \* history: per writer, what the wall clock gained on the monotonic one since its last booking
          lumped,            \* history: a booking has covered more of it than JumpThreshold
          sets, restarts

clockVars == <<wall, boot, mono, autoTime, hwm, savedHWM, unwritten, behindSince, clockGuard, booked, slip, lagging, waited,
               drift, lumped, sets, restarts>>
clockEnv == <<wall, boot, mono, autoTime, sets, restarts>>

NewGuard == [have |-> FALSE, lastWall |-> 0, lastMono |-> 0, insane |-> FALSE, insaneSince |-> 0]
ClockTypeOK ==
  /\ {wall, hwm, savedHWM, booked, slip} \subseteq 0..MaxWall /\ {boot, mono, waited} \subseteq 0..MaxBoot
  /\ {behindSince, lagging} \subseteq -1..MaxBoot /\ autoTime \in BOOLEAN /\ unwritten \in BOOLEAN
  /\ drift \in [Writer -> -(MaxWall + MaxBoot)..MaxWall] /\ lumped \in BOOLEAN
  /\ clockGuard \in [Writer -> [have : BOOLEAN, lastWall : 0..MaxWall, lastMono : 0..MaxBoot,
                           insane : BOOLEAN, insaneSince : 0..MaxBoot]]

ClockInit == /\ wall \in {0, MinWall} /\ boot = 0 /\ mono = 0 /\ autoTime \in BOOLEAN
             /\ hwm = 0 /\ savedHWM = 0 /\ unwritten = FALSE /\ behindSince = -1 /\ clockGuard = [w \in Writer |-> NewGuard]
             /\ booked = 0 /\ slip = 0 /\ lagging = -1 /\ waited = 0 /\ lumped = FALSE
             /\ drift = [w \in Writer |-> 0] /\ sets = 0 /\ restarts = 0

\* Time passes; asleep, the monotonic clock stands still.
TimePasses == /\ wall < MaxWall /\ boot < MaxBoot /\ wall' = wall + 1 /\ boot' = boot + 1
              /\ \/ mono' = mono + 1 /\ UNCHANGED drift
                 \/ mono' = mono /\ drift' = [w \in Writer |-> drift[w] + 1]
              /\ UNCHANGED <<autoTime, hwm, savedHWM, unwritten, behindSince, clockGuard, booked, slip, lagging, waited, lumped,
                             sets, restarts>>
\* NTP, the carrier or the user sets the clock.
WallSet == /\ sets < MaxSets /\ sets' = sets + 1 /\ wall' \in 0..MaxWall \ {wall}
           /\ drift' = [w \in Writer |-> drift[w] + (wall' - wall)]
           /\ UNCHANGED <<boot, mono, autoTime, hwm, savedHWM, unwritten, behindSince, clockGuard, booked, slip, lagging, waited,
                          lumped, restarts>>
\* httpd starts again: the mark comes from its file, the rest is new.  After a failed
\* write that is an older mark, and what was booked beyond it is forgotten.
ClockRestart == /\ restarts < MaxRestarts /\ restarts' = restarts + 1 /\ hwm' = savedHWM
                /\ behindSince' = -1 /\ clockGuard' = [w \in Writer |-> NewGuard]
                /\ drift' = [w \in Writer |-> 0] /\ unwritten' = FALSE
                /\ booked' = (IF unwritten /\ booked > savedHWM THEN savedHWM ELSE booked)
                /\ UNCHANGED <<wall, boot, mono, autoTime, savedHWM, slip, lagging, waited, lumped, sets>>

\* clockhwm.Sane.
Sane(now, mark) == now >= MinWall /\ (mark > 0 => now >= mark - BackTolerance)
\* clockSaneMono's two resets of the mark.
Behind == ~Sane(wall, hwm) /\ wall >= MinWall /\ hwm > 0
TrustsSystem == Behind /\ autoTime /\ boot >= TrustAfterBoot
Heals == Behind /\ ~TrustsSystem /\ behindSince >= 0 /\ boot - behindSince >= HealAfter
Believed == Sane(wall, hwm) \/ TrustsSystem \/ Heals

\* The history of an unbroken lag, whatever httpd remembers of it.
NoteLag == lagging' = IF Believed \/ wall < MinWall THEN -1 ELSE IF lagging < 0 THEN boot ELSE lagging

\* clockGuard.check when the clock is not believed: the round is skipped.
CheckInsane(w) ==
  /\ ~Believed /\ NoteLag
  /\ behindSince' = (IF Behind /\ behindSince < 0 THEN boot ELSE behindSince)
  /\ clockGuard' = [clockGuard EXCEPT ![w] = IF @.insane THEN @ ELSE [@ EXCEPT !.insane = TRUE, !.insaneSince = mono]]
  /\ waited' = IF wall < MinWall THEN 0 ELSE boot - lagging'
  /\ UNCHANGED <<clockEnv, hwm, savedHWM, unwritten, booked, slip, drift, lumped>>

\* clockGuard.check otherwise: verdict, baseline, clockNote and persist.
Jumped(g) == \/ g.insane /\ mono - g.insaneSince > JumpThreshold
             \/ g.have /\ (wall - g.lastWall) - (mono - g.lastMono) \notin -JumpThreshold..JumpThreshold
Mark == IF Sane(wall, hwm) /\ hwm > wall THEN hwm ELSE wall
Persists == ~Sane(wall, hwm) \/ savedHWM = 0 \/ Mark - savedHWM >= PersistEvery
\* persist: a write that fails is not reported; the mark in memory counts.
Persist == IF ~Persists THEN UNCHANGED <<savedHWM, unwritten>>
           ELSE \/ savedHWM' = Mark /\ unwritten' = FALSE
                \/ savedHWM' = savedHWM /\ unwritten' = TRUE
CheckSane(w) ==
  /\ Believed /\ NoteLag /\ waited' = 0 /\ behindSince' = -1 /\ hwm' = Mark
  /\ Persist
  /\ clockGuard' = [clockGuard EXCEPT ![w] = [have |-> TRUE, lastWall |-> wall, lastMono |-> mono,
                                    insane |-> FALSE, insaneSince |-> @.insaneSince]]
  /\ LET from == IF Sane(wall, hwm) THEN booked ELSE wall IN
     /\ booked' = (IF wall > from THEN wall ELSE from)
     /\ slip' = (IF from > wall THEN from - wall ELSE 0)
  /\ drift' = [drift EXCEPT ![w] = 0]
  /\ lumped' = (lumped \/ (clockGuard[w].have /\ ~Jumped(clockGuard[w]) /\ drift[w] \notin -JumpThreshold..JumpThreshold))
  /\ UNCHANGED clockEnv

ClockNext == TimePasses \/ WallSet \/ ClockRestart \/ \E w \in Writer : CheckInsane(w) \/ CheckSane(w)
ClockSpec == ClockInit /\ [][ClockNext]_clockVars
-----------------------------------------------------------------------------
\* Nothing is booked far back in time: across restarts and a mark that is saved
\* only now and then, a booking is never earlier than the latest one by more than
\* the tolerance and the saving interval, unless the mark was reset (clock_guard.go:250).
\* After a restart that follows a failed write of the mark the bookings are held
\* against the mark in the file, not against what was booked beyond it.
BooksForward == slip <= BackTolerance + PersistEvery - 1

\* No writer books counters over a jump: what it books since its last booking, with
\* refused rounds and several small steps in between, never hides a drift beyond
\* the threshold (clock_guard.go:339); a restart begins with new baselines.
NoLump == ~lumped

\* A mark that is wrong is given up in time: as long as httpd does not restart, no
\* check is refused once the clock has lagged for clockHWMHealAfter (clock_guard.go:211).
HealsInTime == restarts = 0 => waited < HealAfter

\* "an httpd restart does not start the six hours again" (clock_guard.go:207).
HealsAcrossRestarts == waited < HealAfter
=============================================================================
