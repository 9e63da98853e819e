----------------------------- MODULE PhoneUsage -----------------------------
(***************************************************************************)
(* The phone's own traffic books of hnc_httpd (phone_usage.go): every      *)
(* minute the interface counters are read, the difference to the last      *)
(* reading goes to today's book, then the book and the readings are saved  *)
(* in two files, and every few minutes the plan alerts are decided.        *)
(*                                                                         *)
(* The process may die between any two of these steps, the phone may       *)
(* reboot, the interface may be rebuilt, the clock may jump and a write    *)
(* may fail.                                                               *)
(*                                                                         *)
(* Data: one interface with one counter (every interface, rx and tx are    *)
(* treated alike), one SIM, one billing cycle; bytes are small numbers.    *)
(***************************************************************************)
EXTENDS Naturals

CONSTANTS Plan, Warn,       \* the plan and its warning threshold
          PuDays,           \* days of the instance, 1 .. PuDays
          MaxBytes, MaxBad  \* bounds: traffic, and faults of every kind

ASSUME PhoneAssumption == /\ {Plan, Warn, PuDays, MaxBytes, MaxBad} \subseteq Nat
                          /\ Warn < Plan /\ PuDays > 0

VARIABLES
    kern,       \* [boot, idx, ctr]: boot id, ifindex and counter of the interface
    date,       \* today
    eng,        \* puEngine: [loaded, baseline, idx, ctr, day, val, dirty]
    puFired,    \* e.fired
    stateFile,  \* phone_usage_state.json: [has, boot, idx, ctr, fired]
    dayFile,    \* phone_usage.<date>.json
    pc,         \* where PhoneUsageLoop is
    raw,        \* the counter tick has read
    outs,       \* alerts decided and not yet emitted
    alertsOut,  \* [level -> times it was appended]
    bytes,      \* history: real traffic the books should show
    ahead,      \* history: bytes in dayFile that stateFile does not know of
    twice,      \* history: bytes that two named windows let count twice
    slips,      \* history: deaths with an alert emitted and not saved
    calm,       \* history: nothing happened that the code gives up on
    bad         \* faults so far

puMem == <<eng, puFired, pc, raw, outs>>
phoneVars == <<kern, date, eng, puFired, stateFile, dayFile, pc, raw, outs, alertsOut,
               bytes, ahead, twice, slips, calm, bad>>

Level == {"warn", "over"}
Blank == [loaded |-> FALSE, baseline |-> FALSE, idx |-> 0, ctr |-> 0, day |-> 0, val |-> 0, dirty |-> FALSE]

PhoneInit ==
    /\ kern = [boot |-> 1, idx |-> 1, ctr |-> 0] /\ date = 1
    /\ eng = Blank /\ puFired = {}
    /\ stateFile = [has |-> FALSE, boot |-> 0, idx |-> 0, ctr |-> 0, fired |-> {}]
    /\ dayFile = [d \in 1 .. PuDays |-> 0]
    /\ pc = "idle" /\ raw = 0 /\ outs = {} /\ alertsOut = [l \in Level |-> 0]
    /\ bytes = 0 /\ ahead = 0 /\ twice = 0 /\ slips = 0 /\ calm = TRUE /\ bad = 0

---------------------------------------------------------------------------
(* Around the program                                                      *)

Carry ==
    /\ bytes < MaxBytes /\ bytes' = bytes + 1 /\ kern' = [kern EXCEPT !.ctr = @ + 1]
    /\ UNCHANGED <<date, puMem, stateFile, dayFile, alertsOut, ahead, twice, slips, calm, bad>>

Midnight ==
    /\ date < PuDays /\ pc = "idle" /\ date' = date + 1
    /\ UNCHANGED <<kern, puMem, stateFile, dayFile, alertsOut, bytes, ahead, twice, slips, calm, bad>>

\* The interface is rebuilt, or its counter starts again under the same
\* index; what tick has not seen is lost.  When tick has read the counters
\* and not yet the ifindex, the old counter is taken for a new interface's.
Rebuild ==
    /\ bad < MaxBad /\ bad' = bad + 1
    /\ \E i \in {kern.idx, kern.idx + 1} : kern' = [kern EXCEPT !.idx = i, !.ctr = 0]
    /\ twice' = IF pc = "read" THEN twice + raw ELSE twice
    /\ calm' = FALSE
    /\ UNCHANGED <<date, puMem, stateFile, dayFile, alertsOut, bytes, ahead, slips>>

Dies == /\ eng' = Blank /\ puFired' = {} /\ pc' = "idle" /\ raw' = 0 /\ outs' = {}
        /\ twice' = twice + ahead /\ ahead' = 0
        /\ slips' = IF \E l \in puFired \ stateFile.fired : alertsOut[l] > 0 THEN slips + 1 ELSE slips

\* httpd dies and its supervisor starts it again.
ProcessDies ==
    /\ bad < MaxBad /\ bad' = bad + 1 /\ Dies
    /\ UNCHANGED <<kern, date, stateFile, dayFile, alertsOut, bytes, calm>>

Pending(seen) == IF kern.ctr >= seen THEN kern.ctr - seen ELSE 0

\* The phone reboots: what the last saved reading had not seen is lost.
Reboots ==
    /\ bad < MaxBad /\ bad' = bad + 1 /\ Dies
    /\ kern' = [boot |-> kern.boot + 1, idx |-> 1, ctr |-> 0]
    /\ calm' = FALSE
    /\ UNCHANGED <<date, stateFile, dayFile, alertsOut, bytes>>

---------------------------------------------------------------------------
(* tick                                                                    *)

ReadCounters ==
    /\ pc = "idle" /\ pc' = "read" /\ raw' = kern.ctr
    /\ UNCHANGED <<kern, date, eng, puFired, stateFile, dayFile, outs, alertsOut,
                   bytes, ahead, twice, slips, calm, bad>>

\* Mutant: the saved readings are not used.
LoadedAnew == IF stateFile.has THEN [Blank EXCEPT !.loaded = TRUE, !.baseline = TRUE]
              ELSE [Blank EXCEPT !.loaded = TRUE]

\* loadState: the readings count only for the same boot; without a file
\* there is no baseline.
LoadState == IF ~stateFile.has THEN [Blank EXCEPT !.loaded = TRUE]
             ELSE IF stateFile.boot # kern.boot THEN [Blank EXCEPT !.loaded = TRUE, !.baseline = TRUE]
             ELSE [Blank EXCEPT !.loaded = TRUE, !.baseline = TRUE,
                                !.idx = stateFile.idx, !.ctr = stateFile.ctr]

\* puStepCounters, puCounterDelta.
Delta(e, cur, i) == IF ~e.baseline THEN 0
                    ELSE IF e.idx # 0 /\ e.idx # i THEN cur
                    ELSE IF cur >= e.ctr THEN cur - e.ctr ELSE cur

\* e.days: today's book from memory, the others from their files.
Shown(e, files) == [d \in 1 .. PuDays |-> IF d = e.day THEN e.val ELSE files[d]]
SumOf(v) == LET sum[d \in 0 .. PuDays] == IF d = 0 THEN 0 ELSE sum[d - 1] + v[d] IN sum[PuDays]
Total == SumOf(Shown(eng, dayFile))

\* A clock jump takes the readings as a new baseline and books nothing.
ClockJump ==
    /\ pc = "read" /\ bad < MaxBad /\ bad' = bad + 1 /\ pc' = "flush" /\ raw' = 0
    /\ eng' = [(IF eng.loaded THEN eng ELSE LoadState) EXCEPT !.idx = kern.idx, !.ctr = raw, !.baseline = TRUE]
    /\ puFired' = IF eng.loaded THEN puFired ELSE stateFile.fired
    /\ calm' = FALSE
    /\ UNCHANGED <<kern, date, stateFile, dayFile, outs, alertsOut, bytes, ahead, twice, slips>>

\* puLoadDay
LoadedDay(d) == dayFile[d]

\* The difference goes to today's book; a book of another day is saved and
\* dropped, whether or not the write succeeds.
Booked(e, d, v) == [e EXCEPT !.idx = kern.idx, !.ctr = raw, !.baseline = TRUE,
                             !.day = d, !.val = v, !.dirty = TRUE]
BookDelta ==
    /\ pc = "read" /\ pc' = "flush" /\ raw' = 0
    /\ LET e == IF eng.loaded THEN eng ELSE LoadState
           d == Delta(e, raw, kern.idx)
           turns == d > 0 /\ e.day # date
           saves == turns /\ e.dirty
       IN  /\ \E ok \in BOOLEAN :
                /\ ok \/ (saves /\ bad < MaxBad)
                /\ bad' = IF ok THEN bad ELSE bad + 1
                /\ calm' = (calm /\ ok)
                /\ dayFile' = IF saves /\ ok THEN [dayFile EXCEPT ![e.day] = e.val] ELSE dayFile
                /\ ahead' = IF saves /\ ok THEN ahead + (e.val - dayFile[e.day]) ELSE ahead
           /\ eng' = IF d = 0 THEN [e EXCEPT !.idx = kern.idx, !.ctr = raw, !.baseline = TRUE]
                     ELSE Booked(e, date, d + (IF turns THEN LoadedDay(date) ELSE e.val))
           \* without a baseline the books go on from here
           /\ bytes' = IF e.baseline THEN bytes ELSE Total + Pending(raw)
    /\ puFired' = IF eng.loaded THEN puFired ELSE stateFile.fired
    /\ UNCHANGED <<kern, date, stateFile, outs, alertsOut, twice, slips>>

---------------------------------------------------------------------------
(* flush and checkAlerts                                                   *)

SaveDay ==
    /\ pc = "flush" /\ pc' = "state"
    /\ IF eng.day = 0 \/ ~eng.dirty THEN UNCHANGED <<dayFile, ahead, eng, calm, bad>>
       ELSE \/ /\ dayFile' = [dayFile EXCEPT ![eng.day] = eng.val]
               /\ ahead' = ahead + (eng.val - dayFile[eng.day])
               /\ eng' = [eng EXCEPT !.dirty = FALSE] /\ UNCHANGED <<calm, bad>>
            \/ /\ bad < MaxBad /\ bad' = bad + 1 /\ calm' = FALSE /\ UNCHANGED <<dayFile, ahead, eng>>
    /\ UNCHANGED <<kern, date, puFired, stateFile, raw, outs, alertsOut, bytes, twice, slips>>

StateOf == [has |-> TRUE, boot |-> kern.boot, idx |-> eng.idx, ctr |-> eng.ctr, fired |-> puFired]
SaveState ==
    /\ pc \in {"state", "saveFired"}
    /\ \/ stateFile' = StateOf /\ ahead' = 0 /\ UNCHANGED bad
       \/ bad < MaxBad /\ bad' = bad + 1 /\ UNCHANGED <<stateFile, ahead>>
    /\ pc' = IF pc = "state" THEN "alerts" ELSE "idle"
    /\ UNCHANGED <<kern, date, eng, puFired, dayFile, raw, outs, alertsOut, bytes, twice, slips, calm>>

\* puAlertDecision: a level once per cycle, and "over" silences "warn".
OverPlan == Total >= Plan
Decision ==
    IF OverPlan THEN {"over"} \ puFired ELSE IF Total >= Warn THEN {"warn"} \ puFired ELSE {}
CheckAlerts ==
    /\ pc = "alerts"
    /\ outs' = Decision
    /\ puFired' = puFired \union Decision \union (IF Decision = {"over"} THEN {"warn"} ELSE {})
    /\ pc' = IF Decision = {} THEN "idle" ELSE "emit"
    /\ UNCHANGED <<kern, date, eng, stateFile, dayFile, raw, alertsOut, bytes, ahead, twice, slips, calm, bad>>
SkipAlerts ==
    /\ pc = "alerts" /\ pc' = "idle"
    /\ UNCHANGED <<kern, date, eng, puFired, stateFile, dayFile, raw, outs, alertsOut,
                   bytes, ahead, twice, slips, calm, bad>>

EmitAlert == \E l \in outs :
    /\ pc = "emit" /\ outs' = outs \ {l} /\ pc' = "saveFired"
    /\ \/ alertsOut' = [alertsOut EXCEPT ![l] = @ + 1] /\ UNCHANGED bad
       \/ bad < MaxBad /\ bad' = bad + 1 /\ UNCHANGED alertsOut
    /\ UNCHANGED <<kern, date, eng, puFired, stateFile, dayFile, raw, bytes, ahead, twice, slips, calm>>

PhoneNext == \/ Carry \/ Midnight \/ Rebuild \/ ProcessDies \/ Reboots
             \/ ReadCounters \/ ClockJump \/ BookDelta \/ SaveDay \/ SaveState
             \/ CheckAlerts \/ SkipAlerts \/ EmitAlert
PhoneSpec == PhoneInit /\ [][PhoneNext]_phoneVars

---------------------------------------------------------------------------
\* puParseNetDev: the interface as the kernel shows it; and the files of puSaveDay.
NetDev == [boot : Nat, idx : Nat, ctr : Nat]
DayFiles == [1 .. PuDays -> Nat]
PhoneTypeOK ==
    /\ kern \in NetDev /\ date \in 1 .. PuDays
    /\ eng \in [loaded : BOOLEAN, baseline : BOOLEAN, idx : Nat, ctr : Nat,
                day : 0 .. PuDays, val : Nat, dirty : BOOLEAN]
    /\ stateFile \in [has : BOOLEAN, boot : Nat, idx : Nat, ctr : Nat, fired : SUBSET Level]
    /\ dayFile \in DayFiles /\ bytes \in Nat /\ ahead \in Nat
    /\ pc \in {"idle", "read", "flush", "state", "alerts", "emit", "saveFired"}
    /\ puFired \subseteq Level /\ outs \subseteq Level /\ alertsOut \in [Level -> Nat]

\* The books never show more than the phone really carried, over deaths,
\* reboots, rebuilt interfaces and failed writes, except for what a death
\* between the two saves of flush, or an interface rebuilt between the two
\* reads of tick, makes count again.
NothingInvented == Total <= bytes + twice

\* As long as no counter was reset, no clock jumped and no day's write
\* failed, nothing is missing either: a death at any step and the restart
\* that follows lose no byte.
PuMissing == IF ~eng.loaded THEN IF stateFile.has THEN Pending(stateFile.ctr) ELSE bytes
           ELSE IF eng.baseline THEN Pending(eng.ctr) ELSE bytes
NothingLost == calm => Total + PuMissing >= bytes

\* "once per SIM, level and billing cycle": an alert is repeated only after a
\* death between its append and the save of the ledger.
AlertedOnce == \A l \in Level : alertsOut[l] <= 1 + slips
=============================================================================
