------------------------------ MODULE DpidGuard ------------------------------
(***************************************************************************)
(* cmd/hnc_watchdog/m5.go: once a round of its main loop the watchdog      *)
(* looks whether hnc_launcher (or, with choice=direct, hnc_dpid) is alive, *)
(* starts it through a spawnGate, and falls back to starting dpid itself   *)
(* when the launcher's log says that it aborts.  bin/dpi_rebind.sh, run by *)
(* a button of the UI, kills dpid and starts a launcher at the same time.  *)
(*                                                                         *)
(* Time is counted in units; a time stamp is kept as its age, up to the    *)
(* largest age the code tells apart.  A round looks first (Round) and acts *)
(* later (Launch, Direct, Rescue), so anything may happen in between.      *)
(***************************************************************************)
EXTENDS Integers, Sequences, FiniteSets

CONSTANTS SpawnBase,   \* m5SpawnBase, all times in the same unit
          SpawnMax,    \* m5SpawnMax
          QuickDeath,  \* m5QuickDeath
          MaxBackoff,  \* m5MaxBackoff
          LogFresh,    \* rescueLogFresh
          Gaps,        \* the watchdog's possible sleeps between two rounds
          Choices,     \* what service.sh may have written to dpid_launcher.choice
          Bins,        \* bin/hnc_launcher runs, aborts when started, is missing
          Rebinds,     \* bound: runs of dpi_rebind.sh
          FewDeaths,   \* there is a bound on deaths and failed starts:
          Deaths,      \*   this one
          Window,      \* length of the history of starts
          StartLimit   \* how many of them there may be

Least(a, b) == IF a < b THEN a ELSE b

ASSUME GuardAssumption ==
  /\ SpawnBase \in Nat \ {0} /\ SpawnMax \in Nat /\ SpawnBase <= SpawnMax
  /\ QuickDeath \in Nat /\ MaxBackoff \in Nat /\ LogFresh \in Nat
  /\ Gaps \subseteq Nat /\ Gaps # {} /\ IsFiniteSet(Gaps)
  /\ Choices \subseteq {"launcher", "direct", ""}
  /\ Bins \subseteq {"ok", "aborts", "missing"}
  /\ Rebinds \in Nat /\ FewDeaths \in BOOLEAN /\ Deaths \in Nat /\ Window \in Nat
  /\ StartLimit \in Nat

\* The pause after a first failure, and the least after a start before which
\* there was another failure or whose process lived for QuickDeath.
FirstPause == Least(2 * SpawnBase, SpawnMax)
LongPause == Least(QuickDeath, Least(4 * SpawnBase, SpawnMax))

\* What makes StartLimit the right number: a first failure can only come again
\* after a process that lived for QuickDeath, so that two starts in a row take
\* FirstPause + QuickDeath on the average.
ASSUME StormAssumption ==
  /\ MaxBackoff >= 2 /\ FirstPause <= QuickDeath
  /\ FirstPause + QuickDeath <= 2 * LongPause
  /\ Window > 0
  /\ StartLimit * (FirstPause + QuickDeath) > 2 * (Window - 1) + (QuickDeath - FirstPause)

\* The values of m5.go, in units of 30 s, allow seven starts in ten minutes.
ASSUME ValuesOfTheCode ==
  LET base == 1  max == 16  quick == 4  window == 20  limit == 7
      first == Least(2 * base, max)
      long == Least(quick, Least(4 * base, max))
  IN  /\ first <= quick /\ first + quick <= 2 * long
      /\ limit * (first + quick) > 2 * (window - 1) + (quick - first)

Name == {"launcher", "dpid"}
LogFile == {"launcher.log", "dpid_guard.log"}
Never == -1                                   \* time.Time's zero value

Old == (CHOOSE m \in {SpawnMax, QuickDeath, LogFresh, Window} :
          \A n \in {SpawnMax, QuickDeath, LogFresh, Window} : n <= m) + 1

VARIABLES
  bin,      \* the launcher's binary on this device
  choice,   \* run/dpid_launcher.choice
  alive,    \* is the process there: what m5Alive finds, by pid file or /proc
  gate,     \* m5Gates
  abort,    \* age of a log whose tail has an abort line, or Never
  wpc,      \* where superviseDpidM5 is
  rpc,      \* where dpi_rebind.sh is
  gap,      \* time since the last round
  rebinds,  \* runs of dpi_rebind.sh so far
  deaths,   \* deaths so far
  unsaved,  \* history: choice could not be written
  gone,     \* history: when, after the watchdog's start, the process died
  slept,    \* history: a sleep since that start took QuickDeath or longer
  starts    \* history: ages of the watchdog's starts inside Window

vars == <<bin, choice, alive, gate, abort, wpc, rpc, gap, rebinds, deaths, unsaved, gone, slept, starts>>

Gate == [last : Never .. Old, fails : 0 .. MaxBackoff, counted : BOOLEAN]

TypeOK ==
  /\ bin \in {"ok", "aborts", "missing"}
  /\ choice \in {"launcher", "direct", ""}
  /\ alive \in [Name -> BOOLEAN]
  /\ gate \in [Name -> Gate]
  /\ abort \in [LogFile -> Never .. Old]
  /\ wpc \in {"sleep", "launch", "direct", "rescue"}
  /\ rpc \in {"idle", "killed"}
  /\ gap \in Nat /\ \E g \in Gaps : gap <= g
  /\ rebinds \in 0 .. Rebinds /\ deaths \in Nat /\ unsaved \in BOOLEAN
  /\ gone \in [Name -> {"no", "at once", "quick", "late"}] /\ slept \in [Name -> BOOLEAN]
  /\ \A n \in Name : \A i \in DOMAIN starts[n] : starts[n][i] \in 0 .. Window

Init ==
  /\ bin \in Bins
  /\ choice \in Choices /\ (choice = "launcher" => bin # "missing")
  /\ alive = [n \in Name |-> FALSE]
  /\ gate = [n \in Name |-> [last |-> Never, fails |-> 0, counted |-> FALSE]]
  /\ abort = [f \in LogFile |-> Never]
  /\ wpc = "sleep" /\ rpc = "idle" /\ gap \in Gaps
  /\ rebinds = 0 /\ deaths = 0 /\ unsaved = FALSE
  /\ gone = [n \in Name |-> "no"] /\ slept = [n \in Name |-> FALSE]
  /\ starts = [n \in Name |-> <<>>]

-----------------------------------------------------------------------------
(* spawnGate *)

\* Mutant: the shift ignores the failures.
CooldownFlat(g) == SpawnBase

\* m5SpawnBase << n
Shifted[n \in 0 .. MaxBackoff] == IF n = 0 THEN SpawnBase ELSE 2 * Shifted[n - 1]

Cooldown(g) == Least(Shifted[g.fails], SpawnMax)

\* Mutant: a quick death is judged but not counted.
ObserveForgives(g, live) ==
  IF g.last = Never \/ g.counted THEN g
  ELSE IF live /\ g.last >= QuickDeath
    THEN [g EXCEPT !.fails = 0, !.counted = TRUE]
  ELSE [g EXCEPT !.counted = ~live]

\* A start is judged once: dead soon after it is a failure, alive long after
\* it clears the failures, dead later than that is neither.  More than
\* MaxBackoff failures are not told apart by Cooldown.
Observe(g, live) ==
  IF g.last = Never \/ g.counted THEN g
  ELSE IF ~live /\ g.last < QuickDeath
    THEN [g EXCEPT !.fails = Least(@ + 1, MaxBackoff), !.counted = TRUE]
  ELSE IF live /\ g.last >= QuickDeath
    THEN [g EXCEPT !.fails = 0, !.counted = TRUE]
  ELSE [g EXCEPT !.counted = ~live]

Allow(g) == g.last = Never \/ g.last >= Cooldown(g)

Spawned(g) == [g EXCEPT !.last = 0, !.counted = FALSE]

\* launcherBroken: an abort in the tail of a log written not long ago.
LauncherBroken == \E f \in LogFile : abort[f] # Never /\ abort[f] <= LogFresh

-----------------------------------------------------------------------------
(* Processes come and go. *)

Older(a) == IF a = Never THEN Never ELSE Least(a + 1, Old)

OneOlder(s) == [i \in DOMAIN s |-> s[i] + 1]
\* A history without its front that has left the window.
InWindow(s) == LET out == {i \in DOMAIN s : \A j \in 1 .. i : s[j] >= Window}
               IN  SubSeq(s, Cardinality(out) + 1, Len(s))

\* Mutant: the sleep has no end.
TickForever ==
  /\ wpc = "sleep"
  /\ gap' = gap + 1
  /\ gate' = [n \in Name |-> [gate[n] EXCEPT !.last = Older(@)]]
  /\ UNCHANGED <<bin, choice, alive, abort, wpc, rpc, rebinds, deaths, unsaved, gone, slept, starts>>

\* mainLoop's sleep between two rounds.
Tick ==
  /\ wpc = "sleep" /\ \E g \in Gaps : gap < g
  /\ gap' = gap + 1
  /\ gate' = [n \in Name |-> [gate[n] EXCEPT !.last = Older(@)]]
  /\ abort' = [f \in LogFile |-> Older(abort[f])]
  /\ starts' = [n \in Name |-> InWindow(OneOlder(starts[n]))]
  /\ UNCHANGED <<bin, choice, alive, wpc, rpc, rebinds, deaths, unsaved, gone, slept>>

MayDie == ~FewDeaths \/ deaths < Deaths
CountDeath == deaths' = IF FewDeaths THEN deaths + 1 ELSE deaths

DiedAt(n) == IF gate[n].last = Never THEN "no"
             ELSE IF gate[n].last = 0 THEN "at once"
             ELSE IF gate[n].last < QuickDeath THEN "quick" ELSE "late"

\* A crash, or the low-memory killer.
Die(n) ==
  /\ alive[n] /\ MayDie /\ CountDeath
  /\ alive' = [alive EXCEPT ![n] = FALSE]
  /\ gone' = [gone EXCEPT ![n] = DiedAt(n)]
  /\ UNCHANGED <<bin, choice, gate, abort, wpc, rpc, gap, rebinds, unsaved, slept, starts>>

\* The launcher's own loop: a dpid that is gone is forked again.
LauncherForks ==
  /\ alive["launcher"] /\ ~alive["dpid"]
  /\ alive' = [alive EXCEPT !["dpid"] = TRUE]
  /\ gone' = [gone EXCEPT !["dpid"] = "no"]
  /\ UNCHANGED <<bin, choice, gate, abort, wpc, rpc, gap, rebinds, deaths, unsaved, slept, starts>>

\* A start of dpid: it runs (beside one that is there already it gives way at
\* once: flock in dpid, check_singleton in the launcher), or it fails.
StartDpid(when) ==
  /\ \/ alive' = [alive EXCEPT !["dpid"] = TRUE]
        /\ gone' = [gone EXCEPT !["dpid"] = "no"]
        /\ UNCHANGED deaths
     \/ MayDie /\ CountDeath
        /\ UNCHANGED alive
        /\ gone' = [gone EXCEPT !["dpid"] = IF alive["dpid"] THEN "no" ELSE when]
  /\ UNCHANGED abort

\* What the launcher says, an abort too, goes to log f.  A start that the
\* system refuses leaves no line.
StartLauncher(f, when) ==
  \/ /\ bin = "ok"
     /\ alive' = [alive EXCEPT !["launcher"] = TRUE]
     /\ gone' = [gone EXCEPT !["launcher"] = "no"]
     /\ abort' = [abort EXCEPT ![f] = IF @ = Never THEN Never ELSE 0]
     /\ UNCHANGED deaths
  \/ /\ UNCHANGED alive
     /\ gone' = [gone EXCEPT !["launcher"] = IF alive["launcher"] THEN "no" ELSE when]
     /\ \/ bin = "aborts" /\ abort' = [abort EXCEPT ![f] = 0] /\ UNCHANGED deaths
        \/ MayDie /\ CountDeath /\ abort' \in {abort, [abort EXCEPT ![f] = 0]}

-----------------------------------------------------------------------------
(* superviseDpidM5 *)

DirectMode == choice = "direct" \/ (choice = "" /\ bin = "missing")

Overslept == [n \in Name |-> slept[n] \/ gap >= QuickDeath]

\* Mutant: the launcher's log is not read.
RoundNoRescue ==
  /\ wpc = "sleep" /\ gap \in Gaps
  /\ gap' = 0
  /\ \/ /\ DirectMode
        /\ gate' = [gate EXCEPT !["dpid"] = Observe(@, alive["dpid"])]
        /\ wpc' = IF alive["dpid"] \/ alive["launcher"] THEN "sleep" ELSE "direct"
     \/ /\ ~DirectMode
        /\ gate' = [gate EXCEPT !["launcher"] = Observe(@, alive["launcher"])]
        /\ wpc' = IF alive["launcher"] THEN "sleep" ELSE "launch"
  /\ slept' = Overslept
  /\ UNCHANGED <<bin, choice, alive, abort, rpc, rebinds, deaths, unsaved, gone, starts>>

\* Who is looked at, and what is to be done about it.
Round ==
  /\ wpc = "sleep" /\ gap \in Gaps
  /\ gap' = 0
  /\ \/ /\ DirectMode
        /\ gate' = [gate EXCEPT !["dpid"] = Observe(@, alive["dpid"])]
        /\ wpc' = IF alive["dpid"] \/ alive["launcher"] THEN "sleep" ELSE "direct"
     \/ /\ ~DirectMode
        /\ gate' = [gate EXCEPT !["launcher"] = Observe(@, alive["launcher"])]
        /\ wpc' = IF alive["launcher"] THEN "sleep"
                  ELSE IF LauncherBroken THEN "rescue" ELSE "launch"
  /\ slept' = Overslept
  /\ UNCHANGED <<bin, choice, alive, abort, rpc, rebinds, deaths, unsaved, gone, starts>>

Recorded(n) ==
  /\ gate' = [gate EXCEPT ![n] = Spawned(@)]
  /\ slept' = [slept EXCEPT ![n] = FALSE]
  /\ starts' = [starts EXCEPT ![n] = Append(@, 0)]

Launch ==
  /\ wpc = "launch" /\ wpc' = "sleep"
  /\ \/ /\ bin # "missing" /\ Allow(gate["launcher"])
        /\ StartLauncher("launcher.log", "at once")
        /\ Recorded("launcher")
     \/ /\ ~(bin # "missing" /\ Allow(gate["launcher"]))
        /\ UNCHANGED <<alive, gone, abort, deaths, gate, slept, starts>>
  /\ UNCHANGED <<bin, choice, rpc, gap, rebinds, unsaved>>

\* m5SpawnDpid
SpawnDpid ==
  \/ Allow(gate["dpid"]) /\ StartDpid("at once") /\ Recorded("dpid")
  \/ ~Allow(gate["dpid"]) /\ UNCHANGED <<alive, gone, abort, deaths, gate, slept, starts>>

Direct ==
  /\ wpc = "direct" /\ wpc' = "sleep"
  /\ SpawnDpid
  /\ UNCHANGED <<bin, choice, rpc, gap, rebinds, unsaved>>

\* m5Rescue: from now on the watchdog looks after dpid itself, unless the
\* choice cannot be written.
Rescue ==
  /\ wpc = "rescue" /\ wpc' = "sleep"
  /\ \/ ~alive["dpid"] /\ SpawnDpid
     \/ alive["dpid"] /\ UNCHANGED <<alive, gone, abort, deaths, gate, slept, starts>>
  /\ \/ choice' = "direct" /\ UNCHANGED unsaved
     \/ unsaved' = TRUE /\ UNCHANGED choice
  /\ UNCHANGED <<bin, rpc, gap, rebinds>>

-----------------------------------------------------------------------------
(* bin/dpi_rebind.sh *)

\* kill_pidfile and kill -9 of every hnc_dpid, then sleep 1.
RebindKill ==
  /\ rpc = "idle" /\ rebinds < Rebinds
  /\ rebinds' = rebinds + 1
  /\ alive' = [alive EXCEPT !["dpid"] = FALSE]
  /\ gone' = [gone EXCEPT !["dpid"] = IF alive["dpid"] THEN DiedAt("dpid") ELSE @]
  /\ rpc' = "killed"
  /\ UNCHANGED <<bin, choice, gate, abort, wpc, gap, deaths, unsaved, slept, starts>>

\* A launcher that lives will do the rest; otherwise start one, or dpid.
RebindStart ==
  /\ rpc = "killed" /\ rpc' = "idle"
  /\ \/ alive["launcher"] /\ UNCHANGED <<alive, gone, abort, deaths>>
     \/ ~alive["launcher"] /\ bin # "missing" /\ StartLauncher("dpid_guard.log", DiedAt("launcher"))
     \/ ~alive["launcher"] /\ bin = "missing" /\ StartDpid(DiedAt("dpid"))
  /\ UNCHANGED <<bin, choice, gate, wpc, gap, rebinds, unsaved, slept, starts>>

-----------------------------------------------------------------------------
Watchdog == Round \/ Launch \/ Direct \/ Rescue

Next ==
  \/ Tick \/ Watchdog \/ LauncherForks \/ RebindKill \/ RebindStart
  \/ \E n \in Name : Die(n)

Spec == Init /\ [][Next]_vars

\* Time passes, the watchdog's loop goes round (its sleep ends by the longest
\* gap), and a launcher that lives gets round to forking dpid.  Nothing else
\* is obliged to happen.
FairSpec ==
  Spec /\ WF_vars(Tick) /\ WF_vars(Round) /\ WF_vars(Launch \/ Direct \/ Rescue)
       /\ WF_vars(LauncherForks)

-----------------------------------------------------------------------------
(* Properties. *)

\* No process storm: within Window the watchdog starts neither process more
\* than StartLimit times, however quickly it dies, whatever the rhythm of the
\* rounds and whoever else starts one; unless the rescue could not write the
\* choice: then dpid is started again and again while nobody looks after its gate.
NoStorm == ~unsaved => \A n \in Name : Len(starts[n]) <= StartLimit

\* A start that died before a unit had passed is never taken for a success: once
\* judged, the gate has a failure on record, whoever else kills and starts
\* processes and wherever the guard changes its mode in between; unless the
\* watchdog overslept the judgement: after a sleep of QuickDeath or longer (the
\* idle probe and doze of main.go, a busy round) a stillborn process is judged
\* as one that lived long.
StillbornCounts ==
  ~unsaved => \A n \in Name : gate[n].counted /\ gone[n] = "at once" /\ ~slept[n]
                                => gate[n].fails > 0

\* When dpid is gone it comes back: by the launcher, by a new launcher, or by
\* the rescue path when the launcher cannot run at all.
Recovers == ~alive["dpid"] ~> alive["dpid"]

-----------------------------------------------------------------------------
(* Statements of the source that the code does not keep. *)

\* Header of m5.go: a death within m5QuickDeath of the start is a failure and
\* doubles the cool-down.
QuickDeathCounts ==
  \A n \in Name :
    gate[n].counted /\ gone[n] \in {"at once", "quick"} => gate[n].fails > 0
=============================================================================
