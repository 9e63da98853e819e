----------------------------- MODULE ActionGate -----------------------------
(***************************************************************************)
(* POST /api/action of hnc_httpd (action.go), with the write limiter in    *)
(* front of it (writelimit.go) and the simulated devices behind it         *)
(* (sim.go).                                                               *)
(*                                                                         *)
(* A request passes the per-token window, waits for actionMu, is offered   *)
(* to the simulation store and, when that does not take it, runs a shell   *)
(* script with a deadline.  The deadline kills the shell only: its         *)
(* children go on as strays.  The store keeps the simulated devices in     *)
(* memory and in data/sim.json.  A death of the daemon loses the requests  *)
(* in flight and leaves their scripts running.                             *)
(***************************************************************************)
EXTENDS Naturals, Sequences, FiniteSets

CONSTANTS
  Caller,        \* tokens that post actions, one request at a time each
  SimMac,        \* addresses with the simulated prefix 02:5e:00
  RealMac,       \* other device addresses
  WriteWindow,   \* writeWindowSec
  WriteMax,      \* writeMaxPerWin
  WriteTTL,      \* writeEntryTTL
  PostKinds,     \* bound: the kinds of request each of them posts
  ActHorizon,    \* bound on the clock
  MaxActFaults   \* bound on failed saves and deaths

ASSUME ActionAssumption ==
  /\ SimMac \cap RealMac = {}
  /\ WriteWindow \in Nat \ {0} /\ WriteMax \in Nat \ {0}
  /\ WriteTTL \in Nat /\ WriteTTL >= WriteWindow
  /\ ActHorizon \in Nat /\ MaxActFaults \in Nat

VARIABLES
  actClk,     \* seconds
  entries,    \* WriteCounter.entries: token -> [stamps, lastSeen]
  writes,     \* stamps the limiter let through within a window (history)
  posted,     \* token -> its request
  strays,     \* addresses on which children of an ended script still run
  simMem,     \* simStore.f
  simFlag,    \* simStore.hasDev, what the readers look at
  simFile,    \* data/sim.json
  unsaved,    \* the last save of the store failed (history)
  actCnt      \* faults so far

actVars == <<actClk, entries, writes, posted, strays, simMem, simFlag,
             simFile, unsaved, actCnt>>
simVars == <<simMem, simFlag, simFile, unsaved>>
limiterVars == <<entries, writes>>

Kinds == {"device", "policy", "on", "off", "add", "update", "del", "clear",
          "preset"}

\* The sim_* actions that name no device carry "none".
Requests ==
  [kind : {"device", "policy"}, mac : SimMac \cup RealMac]
    \cup [kind : {"update", "del"}, mac : SimMac]
    \cup [kind : Kinds \ {"device", "policy", "update", "del"}, mac : {"none"}]

NoRequest == [kind |-> "none", mac |-> "none"]

\* A simulated device is absent, untouched or under some control.
SimStates == {"absent", "plain", "held"}

Registered(st) == {s \in SimMac : st.dev[s] # "absent"}

NoDevices == [s \in SimMac |-> "absent"]

ActTypeOK ==
  /\ actClk \in 0..ActHorizon
  /\ \A t \in Caller :
       /\ entries[t].stamps \in Seq(0..ActHorizon)
       /\ entries[t].lastSeen \in 0..ActHorizon
       /\ writes[t] \in Seq(0..ActHorizon)
       /\ posted[t].at \in {"idle", "queued", "script", "answer"}
       /\ posted[t].req \in Requests \cup {NoRequest}
  /\ strays \subseteq SimMac \cup RealMac
  /\ simMem \in [on : BOOLEAN, dev : [SimMac -> SimStates]]
  /\ simFile \in [on : BOOLEAN, dev : [SimMac -> SimStates]]
  /\ simFlag \in BOOLEAN /\ unsaved \in BOOLEAN
  /\ actCnt \in 0..MaxActFaults

FreshEntry == [stamps |-> <<>>, lastSeen |-> 0]

Idler == [at |-> "idle", req |-> NoRequest]

ActInit ==
  /\ actClk = 0
  /\ entries = [t \in Caller |-> FreshEntry]
  /\ writes = [t \in Caller |-> <<>>]
  /\ posted = [t \in Caller |-> Idler]
  /\ strays = {}
  /\ simFile = [on |-> FALSE, dev |-> NoDevices]
  /\ simMem = simFile /\ simFlag = FALSE
  /\ unsaved = FALSE /\ actCnt = 0

-----------------------------------------------------------------------------
(* The write limiter: a sliding window per token.                          *)

\* The stamps after the leading ones that have left the window.
Sliding(stamps, now) ==
  LET gone == {i \in 1..Len(stamps) :
                 \A j \in 1..i : stamps[j] + WriteWindow <= now}
  IN SubSeq(stamps, Cardinality(gone) + 1, Len(stamps))

CheckAndIncr(t, passed) ==
  LET kept == Sliding(entries[t].stamps, actClk)
  IN /\ passed <=> Len(kept) < WriteMax
     /\ entries' = [entries EXCEPT ![t] =
          [stamps |-> IF passed THEN Append(kept, actClk) ELSE kept,
           lastSeen |-> actClk]]
     /\ writes' = IF passed
                  THEN [writes EXCEPT ![t] = Append(@, actClk)] ELSE writes

CollectEntries ==
  /\ entries' = [t \in Caller |->
       IF actClk - entries[t].lastSeen > WriteTTL THEN FreshEntry
       ELSE entries[t]]
  /\ entries' # entries
  /\ UNCHANGED <<actClk, writes, posted, strays, simVars, actCnt>>

\* handleAction up to actionMu: a refused request is audited and answered.
Post(t, r) ==
  /\ posted[t].at = "idle" /\ r.kind \in PostKinds[t]
  /\ \E passed \in BOOLEAN :
       /\ CheckAndIncr(t, passed)
       /\ posted' = IF passed
                    THEN [posted EXCEPT ![t] = [at |-> "queued", req |-> r]]
                    ELSE posted
  /\ UNCHANGED <<actClk, strays, simVars, actCnt>>

-----------------------------------------------------------------------------
(* The simulation store.                                                   *)

HasDev(st) == st.on /\ Registered(st) # {}

\* saveLocked: the flags follow memory first, then the file is replaced.
SaveSim(st) ==
  /\ simMem' = st /\ simFlag' = HasDev(st)
  /\ \/ simFile' = st /\ unsaved' = FALSE /\ UNCHANGED actCnt
     \/ /\ actCnt < MaxActFaults
        /\ actCnt' = actCnt + 1
        /\ unsaved' = TRUE /\ UNCHANGED simFile

SimUnchanged == UNCHANGED <<simVars, actCnt>>

SimSet(on) == SaveSim([simMem EXCEPT !.on = on])

\* newMACLocked: an address of the prefix that no simulated device has.
NewMac == SimMac \ Registered(simMem)

\* A new device gets an address of its own; a full store refuses it.
SimAdd ==
  \/ NewMac = {} /\ SimUnchanged
  \/ \E s \in NewMac : SaveSim([simMem EXCEPT !.dev[s] = "plain"])

\* simApplyFields works on a copy: a bad field leaves the device as it was.
SimUpdate(s) ==
  \/ SimUnchanged
  \/ /\ s \in Registered(simMem)
     /\ \E v \in {"plain", "held"} : SaveSim([simMem EXCEPT !.dev[s] = v])

SimDel(s) ==
  IF s \in Registered(simMem) THEN SaveSim([simMem EXCEPT !.dev[s] = "absent"])
  ELSE SimUnchanged

SimClear == SaveSim([simMem EXCEPT !.dev = NoDevices])

\* simPresets: new devices in place of the old ones, some limited or blocked.
SimPreset ==
  \E d \in [SimMac -> SimStates] \ {NoDevices} : SaveSim([on |-> TRUE, dev |-> d])

SimAction(r) ==
  \/ r.kind \in {"on", "off"} /\ SimSet(r.kind = "on")
  \/ r.kind = "add" /\ SimAdd
  \/ r.kind = "update" /\ SimUpdate(r.mac)
  \/ r.kind = "del" /\ SimDel(r.mac)
  \/ r.kind = "clear" /\ SimClear
  \/ r.kind = "preset" /\ SimPreset

\* simInterceptAction: what becomes of an action on device r.mac.
Intercepted(r) ==
  IF r.mac \notin SimMac THEN "passed"
  ELSE IF r.mac \notin Registered(simMem)
       THEN IF simMem.on THEN "refused" ELSE "passed"
  ELSE IF r.kind = "policy" THEN "passed" ELSE "taken"

\* simDeviceAction: puts the device under a control, lifts it, or is refused.
SimControl(r) ==
  \E v \in {"plain", "held"} : SaveSim([simMem EXCEPT !.dev[r.mac] = v])
SimDeviceAction(r) == SimControl(r) \/ SimUnchanged

-----------------------------------------------------------------------------
(* dispatchAction under actionMu.                                          *)

Free == \A t \in Caller : posted[t].at # "script"

To(t, where) ==
  posted' = [posted EXCEPT ![t] =
    [at |-> where, req |-> IF where = "script" THEN @.req ELSE NoRequest]]

\* actionRuleSet, actionBLAdd and the like: bad parameters and protected
\* addresses are refused, the rest is a script's work.
RuleAction(t) == To(t, "answer") \/ To(t, "script")

\* What needs no script is done and answered while the lock is held.
Dispatch(t) ==
  /\ posted[t].at = "queued" /\ Free
  /\ LET r == posted[t].req
         way == IF r.kind \in {"device", "policy"} THEN Intercepted(r)
                ELSE "sim"
     IN \/ /\ way = "sim"
           /\ SimAction(r) /\ To(t, "answer")
        \/ /\ way = "taken"
           /\ SimDeviceAction(r) /\ To(t, "answer")
        \/ /\ way = "refused" \/ (way = "passed" /\ r.kind = "policy")
           /\ SimUnchanged /\ To(t, "answer")
        \/ /\ way = "passed" /\ r.kind = "device"
           /\ RuleAction(t) /\ SimUnchanged
  /\ UNCHANGED <<actClk, limiterVars, strays>>

\* runBin: the script ends by itself, with any result.
ActScriptEnds(t) ==
  /\ posted[t].at = "script" /\ To(t, "answer")
  /\ UNCHANGED <<actClk, limiterVars, strays, simVars, actCnt>>

\* Mutant: the wait goes on until the children have closed the pipe.
DeadlineWaits(t) ==
  /\ posted[t].at = "script"
  /\ strays' = strays \cup {posted[t].req.mac}
  /\ IF posted[t].req.mac \in strays THEN UNCHANGED posted ELSE To(t, "script")
  /\ UNCHANGED <<actClk, limiterVars, simVars, actCnt>>

\* runBin: the deadline kills the shell, WaitDelay closes the pipes; the
\* shell's children are left behind.
DeadlineEnds(t) ==
  /\ posted[t].at = "script" /\ To(t, "answer")
  /\ strays' = strays \cup {posted[t].req.mac}
  /\ UNCHANGED <<actClk, limiterVars, simVars, actCnt>>

StrayEnds(m) ==
  /\ m \in strays /\ strays' = strays \ {m}
  /\ UNCHANGED <<actClk, limiterVars, posted, simVars, actCnt>>

\* The answer, after the audit line and the wake-ups.
Answer(t) ==
  /\ posted[t].at = "answer"
  /\ posted' = [posted EXCEPT ![t] = Idler]
  /\ UNCHANGED <<actClk, limiterVars, strays, simVars, actCnt>>

\* The daemon dies and is started again: its scripts go on, the store is
\* read from the file.
ActCrash ==
  /\ actCnt < MaxActFaults /\ actCnt' = actCnt + 1
  /\ posted' = [t \in Caller |-> Idler]
  /\ strays' = strays \cup
       {posted[t].req.mac : t \in {u \in Caller : posted[u].at = "script"}}
  /\ entries' = [t \in Caller |-> FreshEntry]
  /\ writes' = [t \in Caller |-> <<>>]
  /\ simMem' = simFile /\ simFlag' = HasDev(simFile) /\ unsaved' = FALSE
  /\ UNCHANGED <<actClk, simFile>>

ActTick ==
  /\ actClk < ActHorizon /\ actClk' = actClk + 1
  /\ writes' = [t \in Caller |-> Sliding(writes[t], actClk')]
  /\ UNCHANGED <<entries, posted, strays, simVars, actCnt>>

ActNext ==
  \/ \E t \in Caller :
       \/ \E r \in Requests : Post(t, r)
       \/ Dispatch(t) \/ ActScriptEnds(t) \/ DeadlineEnds(t) \/ Answer(t)
  \/ \E m \in SimMac \cup RealMac : StrayEnds(m)
  \/ CollectEntries \/ ActTick \/ ActCrash

\* The deadline always comes, an answer is written, and a waiter gets a lock
\* that stays free (sync.Mutex promises more: it hands the lock to a waiter
\* that has been passed over; here the window bounds what the others post).
Serve(t) == DeadlineEnds(t) \/ Answer(t) \/ Dispatch(t)
ActFairness ==
  \A t \in Caller : WF_actVars(Serve(t))

ActSpec == ActInit /\ [][ActNext]_actVars /\ ActFairness

-----------------------------------------------------------------------------
(* No script runs on the address of a device that the simulation store     *)
(* knows: the look at the store and the script are one critical section of *)
(* actionMu, so the device cannot be registered in between (sim.go's       *)
(* safety gate).                                                           *)
SimUntouched ==
  \A t \in Caller :
    posted[t].at = "script" => posted[t].req.mac \notin Registered(simMem)

(* The limiter lets at most WriteMax requests of a token through in any    *)
(* window, whatever the collector of idle entries removes in between       *)
(* (CheckAndIncr and gc of writelimit.go).                                 *)
WriteBound ==
  \A t \in Caller : Len(writes[t]) <= WriteMax

(* Unless the last save failed, a restart finds the simulation as it is,   *)
(* and what the readers look at without the lock agrees with the store     *)
(* (saveLocked and syncFlagsLocked of sim.go).                             *)
SimSaved ==
  /\ ~unsaved => simFile = simMem
  /\ simFlag = HasDev(simMem)

(* A request that is posted is answered, also when the scripts of *)
(* others hang for ever: the deadline and WaitDelay of runBin give the     *)
(* lock back.                                                              *)
Answered == \A t \in Caller : []<>(posted[t].at = "idle")

(* The scripts of two actions never run at the same time (the reason given *)
(* for actionMu in handleAction); not kept: what a deadline leaves behind  *)
(* is still at work when the next script starts.                           *)
OneScript ==
  \A t \in Caller : posted[t].at = "script" => strays = {}
=============================================================================
