------------------------------ MODULE PowerPace -----------------------------
(* How the background loops slow down and are woken: in hnc_httpd (the first *)
(* half) and in hnc_watchdog (the second; no shared state).                  *)
EXTENDS Naturals, FiniteSetsExt
-----------------------------------------------------------------------------
(***************************************************************************)
(* The adaptive pace of hnc_httpd's background loops: one loop probes what *)
(* goes on and publishes it (power_activity.go ActivityLoop,               *)
(* activityPublish), a request to the web interface pokes it               *)
(* (powerNoteAPIHit), and every other loop waits with powerWait            *)
(* (power_sched.go) for an interval that depends on what was published.    *)
(*                                                                         *)
(* Data: the published Activity is whether the interface is in use, which  *)
(* stands for every level that has a shorter interval.  Time is a number;  *)
(* it does not pass while somebody has something to do at once.            *)
(***************************************************************************)
CONSTANTS WaitLoop,     \* loops that wait with powerWait
          ProbeEvery,   \* activityProbeEvery (15 s)
          UiWindow,     \* webuiActiveWindow (60 s)
          BaseEvery,    \* the interval while the interface is in use
          SlowEvery,    \* the interval while it is not
          MaxClk        \* bound

ASSUME WaitAssumption ==
    /\ {ProbeEvery, UiWindow, BaseEvery, SlowEvery, MaxClk} \subseteq Nat \ {0}
    /\ ProbeEvery < UiWindow /\ BaseEvery < SlowEvery

VARIABLES
    clk,
    lastHit,    \* webuiLastHit, 0 for never
    req,        \* the request in the middleware: [at, prev]
    poke,       \* actState.poke holds a signal
    nextProbe,  \* when the ticker fires
    prb,        \* the activity loop: [at, ui]
    cur,        \* actState.cur
    chNo,       \* which channel actState.ch is; the earlier ones are closed
    since,      \* history: when cur last changed
    wait        \* [WaitLoop -> [at, ch, until, last]]

waitVars == <<clk, lastHit, req, poke, nextProbe, prb, cur, chNo, since, wait>>

WaitInit ==
    /\ clk = 1 /\ lastHit = 0 /\ req = [at |-> "none", prev |-> 0] /\ poke = FALSE
    /\ nextProbe = 1 + ProbeEvery /\ prb = [at |-> "idle", ui |-> FALSE]
    /\ cur = FALSE /\ chNo = 1 /\ since = 1
    /\ wait = [w \in WaitLoop |-> [at |-> "take", ch |-> 0, until |-> 0, last |-> 1]]

Urgent == \/ req.at # "none" \/ prb.at # "idle" \/ poke \/ clk >= nextProbe
          \/ \E w \in WaitLoop : \/ wait[w].at # "wait" \/ wait[w].until <= clk
                                 \/ wait[w].ch # chNo
TimePasses ==
    /\ clk < MaxClk /\ ~Urgent /\ clk' = clk + 1
    /\ UNCHANGED <<lastHit, req, poke, nextProbe, prb, cur, chNo, since, wait>>

\* powerNoteAPIHit: the swap, and then the look at what is published.
HitArrives ==
    /\ req.at = "none" /\ lastHit # clk
    /\ req' = [at |-> "swapped", prev |-> lastHit] /\ lastHit' = clk
    /\ UNCHANGED <<clk, poke, nextProbe, prb, cur, chNo, since, wait>>
HitPokes ==
    /\ req.at = "swapped" /\ req' = [at |-> "none", prev |-> 0]
    /\ poke' = (poke \/ ((req.prev = 0 \/ clk - req.prev > UiWindow) /\ ~cur))
    /\ UNCHANGED <<clk, lastHit, nextProbe, prb, cur, chNo, since, wait>>

\* The activity loop wakes by its ticker or by a poke and probes
\* (webuiState); the value is published in a later step.
WebuiState(last) == last # 0 /\ clk - last < UiWindow
ProbeByTicker ==
    /\ prb.at = "idle" /\ clk >= nextProbe /\ nextProbe' = nextProbe + ProbeEvery
    /\ prb' = [at |-> "probed", ui |-> WebuiState(lastHit)]
    /\ UNCHANGED <<clk, lastHit, req, poke, cur, chNo, since, wait>>
ProbeByPoke ==
    /\ prb.at = "idle" /\ poke /\ poke' = FALSE
    /\ prb' = [at |-> "probed", ui |-> WebuiState(lastHit)]
    /\ UNCHANGED <<clk, lastHit, req, nextProbe, cur, chNo, since, wait>>

\* activityPublish: the value first, then the channel is closed and replaced.
Changed(new) == cur # new
PublishValue ==
    /\ prb.at = "probed" /\ cur' = prb.ui
    /\ prb' = IF Changed(prb.ui) THEN [prb EXCEPT !.at = "swapped"] ELSE [at |-> "idle", ui |-> FALSE]
    /\ since' = IF cur # prb.ui THEN clk ELSE since
    /\ UNCHANGED <<clk, lastHit, req, poke, nextProbe, chNo, wait>>
CloseChannel ==
    /\ prb.at = "swapped" /\ chNo' = chNo + 1 /\ prb' = [at |-> "idle", ui |-> FALSE]
    /\ UNCHANGED <<clk, lastHit, req, poke, nextProbe, cur, since, wait>>

\* powerWait: the channel is taken before the interval is computed.
Every == IF cur THEN BaseEvery ELSE SlowEvery
TakeCh(w) == wait[w].at = "take" /\ wait' = [wait EXCEPT ![w].at = "calc", ![w].ch = chNo]
Calc(w) == [wait[w] EXCEPT !.at = "wait", !.until = wait[w].last + Every]
CalcWait(w) == wait[w].at = "calc" /\ wait' = [wait EXCEPT ![w] = Calc(w)]
\* The timer (or an interval that is over already): the loop has its round.
RunRound(w) ==
    /\ wait[w].at = "wait" /\ wait[w].until <= clk
    /\ wait' = [wait EXCEPT ![w] = [at |-> "take", ch |-> 0, until |-> 0, last |-> clk]]
WokenByChange(w) ==
    /\ wait[w].at = "wait" /\ wait[w].ch # chNo
    /\ wait' = [wait EXCEPT ![w].at = "take"]
Waits(w) == /\ TakeCh(w) \/ CalcWait(w) \/ RunRound(w) \/ WokenByChange(w)
            /\ UNCHANGED <<clk, lastHit, req, poke, nextProbe, prb, cur, chNo, since>>

WaitNext == \/ TimePasses \/ HitArrives \/ HitPokes \/ ProbeByTicker \/ ProbeByPoke
            \/ PublishValue \/ CloseChannel \/ \E w \in WaitLoop : Waits(w)
WaitSpec == WaitInit /\ [][WaitNext]_waitVars

---------------------------------------------------------------------------
WaitTypeOK ==
    /\ clk \in 1 .. MaxClk /\ lastHit \in 0 .. clk /\ poke \in BOOLEAN /\ cur \in BOOLEAN
    /\ req \in [at : {"none", "swapped"}, prev : 0 .. MaxClk]
    /\ prb \in [at : {"idle", "probed", "swapped"}, ui : BOOLEAN]
    /\ wait \in [WaitLoop -> [at : {"take", "calc", "wait"}, ch : 0 .. chNo, until : Nat, last : 1 .. MaxClk]]

\* Being slow does not delay the first round after things get busy: when time
\* passes while the interface is published as in use, no loop is further from
\* its last round, or from the change, than the quick interval: no loop misses
\* the change between taking the channel and computing its interval.
QuickAfterChange ==
    ~Urgent /\ cur => \A w \in WaitLoop : clk <= Max({wait[w].last, since}) + BaseEvery

\* A request is seen by the loops at the latest with the next probe, even
\* when it came while the probe before it was on its way and poked nobody.
UiSeen == ~Urgent /\ lastHit # 0 /\ clk - lastHit \in ProbeEvery .. UiWindow - 1 => cur
-----------------------------------------------------------------------------
(***************************************************************************)
(* How hnc_watchdog sleeps while the hotspot is off and wakes when it      *)
(* comes up (cmd/hnc_watchdog/power.go, budget.go loopState.tick, main.go  *)
(* mainLoop): the pace follows run/activity.json, which hnc_httpd writes   *)
(* (package activity), a netlink event ends the sleep early, and the       *)
(* hotspot schedule shortens it to its next boundary.                      *)
(*                                                                         *)
(* Data: the hotspot is off and comes up once; other interfaces make       *)
(* events of their own; the schedule has one boundary, which is configured *)
(* at some time.  Time does not pass while the watchdog has something to   *)
(* do at once.                                                             *)
(***************************************************************************)
CONSTANTS ProbePace,    \* intervalProbe (10 s)
          IdlePace,     \* intervalIdleProbe (120 s)
          DozePace,     \* intervalDoze (180 s)
          EvSettle,     \* eventSettle (1.5 s)
          EvMinGap,     \* eventMinGap (5 s)
          ActWrite,     \* how often httpd writes activity.json
          ActMaxAge,    \* activity.MaxAge (120 s)
          ActCache,     \* activity.cacheTTL (5 s)
          Boundary,     \* when the schedule's window begins
          MaxTick, MaxNoise   \* bounds

ASSUME LinkAssumption ==
    /\ {ProbePace, IdlePace, DozePace, EvSettle, EvMinGap, ActWrite, ActMaxAge, ActCache,
        Boundary, MaxTick, MaxNoise} \subseteq Nat
    /\ ProbePace < IdlePace /\ IdlePace <= DozePace /\ ActWrite <= ActMaxAge /\ MaxTick > 0

VARIABLES
    tk,         \* time
    apUp,       \* when the hotspot came up, 0 while it is off
    probedUp,   \* the watchdog has probed it since
    linkSig,    \* linkWake holds a signal
    noise,      \* events of other interfaces so far
    wdg,        \* the main loop: [at, until, settle, doze]
    lastEv,     \* lastEventRound, 0 for never
    act,        \* activity.json: [off, ts], ts 0 when missing
    httpdDead,  \* when httpd died, 0 while it lives
    snapC,      \* the Reader's cache: [at, idle]
    cfgAt,      \* when the schedule was configured, 0 before
    lastSched   \* hotspotScheduler.lastRun, 0 for never

linkVars == <<tk, apUp, probedUp, linkSig, noise, wdg, lastEv, act, httpdDead, snapC, cfgAt, lastSched>>

LinkInit ==
    /\ tk = 1 /\ apUp = 0 /\ probedUp = FALSE /\ linkSig = FALSE /\ noise = 0
    /\ wdg = [at |-> "round", until |-> 0, settle |-> 0, doze |-> FALSE] /\ lastEv = 0
    /\ act = [off |-> FALSE, ts |-> 0] /\ httpdDead = 0
    /\ snapC = [at |-> 0, idle |-> FALSE] /\ cfgAt = 0 /\ lastSched = 0

HttpdDue == httpdDead = 0 /\ (act.ts = 0 \/ tk >= act.ts + ActWrite)
AtOnce == \/ HttpdDue \/ wdg.at = "round"
          \/ wdg.at = "sleep" /\ (linkSig \/ tk >= wdg.until)
          \/ wdg.at = "settle" /\ tk >= wdg.settle
TickPasses ==
    /\ tk < MaxTick /\ ~AtOnce /\ tk' = tk + 1
    /\ UNCHANGED <<apUp, probedUp, linkSig, noise, wdg, lastEv, act, httpdDead, snapC, cfgAt, lastSched>>

---------------------------------------------------------------------------
(* Around the watchdog                                                     *)

\* The hotspot's interface has its address; the kernel sends an event.
HotspotUp ==
    /\ apUp = 0 /\ apUp' = tk /\ linkSig' = TRUE
    /\ UNCHANGED <<tk, probedUp, noise, wdg, lastEv, act, httpdDead, snapC, cfgAt, lastSched>>
OtherEvent ==
    /\ noise < MaxNoise /\ noise' = noise + 1 /\ linkSig' = TRUE
    /\ UNCHANGED <<tk, apUp, probedUp, wdg, lastEv, act, httpdDead, snapC, cfgAt, lastSched>>
WriteActivity ==
    /\ HttpdDue /\ act' = [off |-> apUp = 0, ts |-> tk]
    /\ UNCHANGED <<tk, apUp, probedUp, linkSig, noise, wdg, lastEv, httpdDead, snapC, cfgAt, lastSched>>
HttpdGone ==
    /\ httpdDead = 0 /\ httpdDead' = tk
    /\ UNCHANGED <<tk, apUp, probedUp, linkSig, noise, wdg, lastEv, act, snapC, cfgAt, lastSched>>
Configure ==
    /\ cfgAt = 0 /\ tk < Boundary /\ cfgAt' = tk
    /\ UNCHANGED <<tk, apUp, probedUp, linkSig, noise, wdg, lastEv, act, httpdDead, snapC, lastSched>>

---------------------------------------------------------------------------
(* The watchdog                                                            *)

\* activity.Parse and Reader.Get: fresh, and clearly "the hotspot is off".
FreshAct == act.ts # 0 /\ tk - act.ts <= ActMaxAge
Snap == IF snapC.at # 0 /\ tk - snapC.at < ActCache THEN snapC
        ELSE [at |-> tk, idle |-> FreshAct /\ act.off]

\* runIfDue, crossedBoundary: at a first run, and when the boundary was crossed.
SchedDue == cfgAt # 0 /\ (lastSched = 0 \/ (lastSched < Boundary /\ Boundary <= tk))

\* maxSleep, nextBoundary: not past the next boundary.
SleepEnds(d) == IF cfgAt # 0 /\ tk < Boundary THEN Min({tk + d, Boundary}) ELSE tk + d

\* loopState.tick: the schedule, the probe of handlePending, and the pace.
\* Once the hotspot is found the watchdog is ACTIVE and paces differently.
\* mainLoop then asks isDoze, which the phone answers either way; it is not
\* asked while a fresh file says that the screen is on, one of the cases of "no".
Pace(doze) == IF doze THEN DozePace ELSE IF Snap.idle THEN IdlePace ELSE ProbePace
WdRound(doze) ==
    /\ wdg.at = "round"
    /\ lastSched' = IF SchedDue THEN tk ELSE lastSched
    /\ probedUp' = (apUp # 0)
    /\ snapC' = Snap
    /\ wdg' = [at |-> "sleep", settle |-> 0, until |-> SleepEnds(Pace(doze)), doze |-> doze]
    /\ UNCHANGED <<tk, apUp, linkSig, noise, lastEv, act, httpdDead, cfgAt>>

\* sleepOrWake: the timer; or a signal, which is dropped when the last event
\* round is not long ago, and otherwise leads to a round after a pause.
TimerEnds ==
    /\ wdg.at = "sleep" /\ tk >= wdg.until /\ wdg' = [wdg EXCEPT !.at = "round"]
    /\ UNCHANGED <<tk, apUp, probedUp, linkSig, noise, lastEv, act, httpdDead, snapC, cfgAt, lastSched>>
Dropped == wdg
SignalDropped ==
    /\ wdg.at = "sleep" /\ linkSig /\ lastEv # 0 /\ tk - lastEv < EvMinGap
    /\ linkSig' = FALSE /\ wdg' = Dropped
    /\ UNCHANGED <<tk, apUp, probedUp, noise, lastEv, act, httpdDead, snapC, cfgAt, lastSched>>
SignalTaken ==
    /\ wdg.at = "sleep" /\ linkSig /\ (lastEv = 0 \/ tk - lastEv >= EvMinGap)
    /\ linkSig' = FALSE /\ wdg' = [wdg EXCEPT !.at = "settle", !.settle = tk + EvSettle]
    /\ UNCHANGED <<tk, apUp, probedUp, noise, lastEv, act, httpdDead, snapC, cfgAt, lastSched>>
Settled ==
    /\ wdg.at = "settle" /\ tk >= wdg.settle
    /\ linkSig' = FALSE /\ lastEv' = tk /\ wdg' = [wdg EXCEPT !.at = "round"]
    /\ UNCHANGED <<tk, apUp, probedUp, noise, act, httpdDead, snapC, cfgAt, lastSched>>

LinkNext == \/ TickPasses \/ HotspotUp \/ OtherEvent \/ WriteActivity \/ HttpdGone \/ Configure
            \/ (\E doze \in BOOLEAN : WdRound(doze)) \/ TimerEnds \/ SignalDropped \/ SignalTaken \/ Settled
LinkSpec == LinkInit /\ [][LinkNext]_linkVars

---------------------------------------------------------------------------
\* The file run/activity.json.
ActFile == [off : BOOLEAN, ts : 0 .. MaxTick]
LinkTypeOK ==
    /\ tk \in 1 .. MaxTick /\ {apUp, httpdDead, cfgAt, lastSched, lastEv} \subseteq 0 .. MaxTick
    /\ probedUp \in BOOLEAN /\ linkSig \in BOOLEAN /\ noise \in 0 .. MaxNoise
    /\ wdg \in [at : {"round", "sleep", "settle"}, until : Nat, settle : Nat, doze : BOOLEAN]
    /\ act \in ActFile /\ snapC \in [at : 0 .. MaxTick, idle : BOOLEAN]

\* However many events come and are dropped, the watchdog finds the hotspot
\* within the interval it had chosen: the idle one (intervalIdleProbe is the
\* backstop), or the longer one when it fell asleep in doze.
Longest(doze) == IF doze THEN DozePace ELSE IdlePace
FoundInTime == apUp # 0 /\ ~probedUp => tk - apUp <= Longest(wdg.doze) + EvSettle

\* When httpd is dead its last word ("off") does not keep the watchdog slow:
\* once the file has aged and one idle interval is over, the hotspot is found
\* at the old pace, unless it came up in a sleep that began in doze.
OldPaceWithoutHttpd ==
    httpdDead # 0 /\ apUp # 0 /\ ~probedUp /\ ~wdg.doze
        => tk <= Max({apUp + ProbePace, httpdDead + ActMaxAge + ActCache + IdlePace}) + EvSettle

\* A schedule configured one doze interval before its boundary runs at the
\* boundary, not a sleep later: doze does not outsleep it (maxSleep).
BoundaryOnTime ==
    cfgAt # 0 /\ cfgAt + DozePace + EvSettle <= Boundary /\ tk > Boundary + EvSettle
        => lastSched >= Boundary

\* "The hotspot's start wakes at once by the interface event, the interval is
\* only for lost events" (power.go): not kept, a signal within eventMinGap of
\* the last event round is dropped and nothing looks again before the timer.
WokenAtOnce == apUp # 0 /\ ~probedUp => tk - apUp <= ProbePace + EvSettle
=============================================================================
