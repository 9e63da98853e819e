------------------------------- MODULE V6Sync -------------------------------
(* IPv6 filters of limited devices: hnc_httpd watches neighbour events and   *)
(* runs bin/v6_sync.sh for the devices with a new address (neigh_v6.go); the *)
(* watchdog runs it for everybody every 60 s, the rule scripts after a       *)
(* change.  Runs of the script exclude each other by a lock.  The limit of   *)
(* 16 addresses a device is not reached; the grace period of a vanished      *)
(* address may be over or not at any run.                                    *)
EXTENDS Naturals, Sequences, FiniteSets

CONSTANTS VMac, VAddr,
          MaxV6Events,      \* netlink receive queue
          MaxV6Moves,       \* bound: changes of addresses, rules and of the tc tree
          MaxV6Faults       \* bound: failures

ASSUME V6Constants == MaxV6Events \in Nat /\ MaxV6Moves \in Nat /\ MaxV6Faults \in Nat

Runner == {"queue", "watchdog", "rule"}     \* who runs v6_sync.sh

VARIABLES addrs,            \* usable entries of the neighbour table, pairs <<mac, addr>>
          marked,           \* devices with a mark in HNC_MARK
          filt,             \* pairs with a u32 filter
          snap6,            \* [VMac -> snapshot file: written, mark, addresses]
          markOf,           \* what the header of a snapshot records of the mark
          nlq, nlLost, sub6,          \* netlink socket: queue, ENOBUFS, subscribed
          known6,           \* filter.known
          pend6, full6, kick6,        \* the queue
          qloop,            \* its loop: "idle", "debounce", "run"
          sh6,              \* [Runner -> running script]
          fill6,            \* the device whose filters the holder of the lock is adding
          missed6,          \* ghost: pairs an event or a run was lost for
          torn6,            \* ghost: devices whose filters were refused or are half built
          v6Cnt

worldVars6 == <<addrs, marked, markOf>>
queueVars6 == <<pend6, full6, kick6, qloop>>
sockVars6 == <<nlq, nlLost, sub6>>
v6Vars == <<worldVars6, filt, snap6, sockVars6, known6, queueVars6, sh6, fill6, missed6, torn6, v6Cnt>>

Of(ps, m) == {p \in ps : p[1] = m}
NoSnap6 == [on |-> FALSE, mark |-> 0, has |-> {}]
NoRun6 == [at |-> "no", todo |-> {}, marks |-> {}]
NoFill == [on |-> FALSE, dev |-> "", want |-> {}, left |-> {}, mark |-> 0, ok |-> TRUE]

\* httpd starts: devices may have addresses, of which it is told nothing, and
\* limits set at boot.
V6Init ==
    /\ addrs \in SUBSET (VMac \X VAddr) /\ marked \in SUBSET VMac /\ markOf = 0
    /\ filt = {} /\ snap6 = [m \in VMac |-> NoSnap6]
    /\ nlq = <<>> /\ nlLost = FALSE /\ sub6 = TRUE
    /\ known6 = {} /\ pend6 = {} /\ full6 = FALSE /\ kick6 = FALSE /\ qloop = "idle"
    /\ sh6 = [r \in Runner |-> NoRun6] /\ fill6 = NoFill
    /\ missed6 = addrs /\ torn6 = {} /\ v6Cnt = [moves |-> 0, faults |-> 0]

Move6 == v6Cnt.moves < MaxV6Moves /\ v6Cnt' = [v6Cnt EXCEPT !.moves = @ + 1]
Fault6 == v6Cnt.faults < MaxV6Faults /\ v6Cnt' = [v6Cnt EXCEPT !.faults = @ + 1]

\* The kernel tells the socket: a full queue drops the message (ENOBUFS), a
\* closed socket hears nothing.
Told6(ev) ==
    LET lost == sub6 /\ Len(nlq) >= MaxV6Events IN
    /\ nlq' = IF sub6 /\ ~lost THEN Append(nlq, ev) ELSE nlq
    /\ nlLost' = (nlLost \/ lost)
    /\ missed6' = IF sub6 /\ ~lost THEN missed6 ELSE missed6 \cup {ev.pair}
    /\ UNCHANGED sub6

AddressAppears(p) ==
    /\ p \notin addrs /\ Move6 /\ addrs' = addrs \cup {p}
    /\ Told6([pair |-> p, del |-> FALSE])
    /\ UNCHANGED <<marked, markOf, filt, snap6, known6, queueVars6, sh6, fill6, torn6>>

AddressGoes(p) ==
    /\ p \in addrs /\ Move6 /\ addrs' = addrs \ {p}
    /\ Told6([pair |-> p, del |-> TRUE])
    /\ UNCHANGED <<marked, markOf, filt, snap6, known6, queueVars6, sh6, fill6, torn6>>

\* A script started for the devices ms looks for the lock.
Waiting6(ms) == [at |-> "waits", todo |-> ms, marks |-> {}]
Asked(r) == [sh6 EXCEPT ![r] = Waiting6(VMac)]

\* set_limit ends with a run of v6_sync.sh sync; a new mark changes the header.
SetLimit6(m) ==
    /\ sh6["rule"].at = "no" /\ Move6
    /\ marked' = marked \cup {m} /\ markOf' = IF m \in marked THEN 1 - markOf ELSE markOf
    /\ sh6' = Asked("rule")
    /\ UNCHANGED <<addrs, filt, snap6, sockVars6, known6, queueVars6, fill6, missed6, torn6>>

LockFree == \A r \in Runner : sh6[r].at # "runs"

\* unmark_device: v6_sync.sh clear, then the mark goes.  The clear may have
\* failed, or another run may have put the filters back in between: they are
\* then left to the periodic run.
Unmark(m) ==
    /\ m \in marked /\ Move6 /\ marked' = marked \ {m}
    /\ \/ UNCHANGED <<filt, snap6>>
       \/ /\ LockFree /\ filt' = filt \ Of(filt, m)
          /\ snap6' = [snap6 EXCEPT ![m] = NoSnap6]
    /\ UNCHANGED <<addrs, markOf, sockVars6, known6, queueVars6, sh6, fill6, missed6, torn6>>

\* The tc tree is built anew, without the lock of v6_sync.sh: all filters are
\* gone, those a script has just added too, and a sync follows.
TreeRebuilt ==
    LET half == fill6.on /\ fill6.left # {} /\ fill6.left # fill6.want IN
    /\ sh6["rule"].at = "no" /\ Move6 /\ filt' = {} /\ sh6' = Asked("rule")
    /\ fill6' = [fill6 EXCEPT !.ok = @ /\ ~half]
    /\ torn6' = IF half THEN torn6 \cup {fill6.dev} ELSE torn6
    /\ UNCHANGED <<worldVars6, snap6, sockVars6, known6, queueVars6, missed6>>
-----------------------------------------------------------------------------
Interested(m) == m \in marked \/ snap6[m].on

\* filter.Handle and the reader of V6NeighLoop: one message.  The list of
\* interesting devices is up to 2 s old, so the answer may be an old one.
\* A known pair may have passed its time to live.
HandleNeigh ==
    LET ev == Head(nlq)
        m == ev.pair[1]
    IN
    /\ sub6 /\ nlq # <<>> /\ ~nlLost
    /\ nlq' = Tail(nlq)
    /\ IF ev.del
       THEN known6' = known6 \ {ev.pair} /\ UNCHANGED <<pend6, kick6, missed6>>
       ELSE \E listed \in BOOLEAN, aged \in BOOLEAN :
              /\ (listed = Interested(m)) \/ v6Cnt.moves > 0
              /\ IF listed /\ (ev.pair \notin known6 \/ aged)
                 THEN /\ known6' = known6 \cup {ev.pair} /\ pend6' = pend6 \cup {m}
                      /\ kick6' = TRUE /\ UNCHANGED missed6
                 ELSE UNCHANGED <<known6, pend6, kick6, missed6>>
    /\ UNCHANGED <<worldVars6, filt, snap6, nlLost, sub6, full6, qloop, sh6, fill6, torn6, v6Cnt>>

\* ENOBUFS: a full sync is asked for.
HandleOverflow ==
    /\ sub6 /\ nlLost /\ nlLost' = FALSE
    /\ full6' = TRUE /\ kick6' = TRUE
    /\ UNCHANGED <<worldVars6, filt, snap6, nlq, sub6, known6, pend6, qloop, sh6, fill6, missed6, torn6, v6Cnt>>

\* Any other receive error closes the socket for 60 s.
SocketFails ==
    /\ sub6 /\ Fault6 /\ sub6' = FALSE /\ nlq' = <<>> /\ nlLost' = FALSE
    /\ missed6' = missed6 \cup {nlq[i].pair : i \in DOMAIN nlq}
    /\ UNCHANGED <<worldVars6, filt, snap6, known6, queueVars6, sh6, fill6, torn6>>

Resubscribe ==
    /\ ~sub6 /\ sub6' = TRUE
    /\ UNCHANGED <<worldVars6, filt, snap6, nlq, nlLost, known6, queueVars6, sh6, fill6, missed6, torn6, v6Cnt>>

\* v6SyncQueue.Loop: kick, debounce, take, run.
LoopKicked ==
    /\ kick6 /\ qloop \in {"idle", "debounce"} /\ kick6' = FALSE /\ qloop' = "debounce"
    /\ UNCHANGED <<worldVars6, filt, snap6, sockVars6, known6, pend6, full6, sh6, fill6, missed6, torn6, v6Cnt>>

LoopTakes ==
    LET todo == IF full6 THEN VMac ELSE pend6 IN
    /\ qloop = "debounce"
    /\ pend6' = {} /\ full6' = FALSE
    /\ IF todo = {} THEN qloop' = "idle" /\ UNCHANGED sh6
       ELSE qloop' = "run" /\ sh6' = [sh6 EXCEPT !["queue"] = Waiting6(todo)]
    /\ UNCHANGED <<worldVars6, filt, snap6, sockVars6, known6, kick6, fill6, missed6, torn6, v6Cnt>>

WatchdogRuns ==
    /\ sh6["watchdog"].at = "no" /\ sh6' = Asked("watchdog")
    /\ UNCHANGED <<worldVars6, filt, snap6, sockVars6, known6, queueVars6, fill6, missed6, torn6, v6Cnt>>
-----------------------------------------------------------------------------
\* Mutant: the batch is taken off the queue when its run ends.
EndedClears(r) == /\ sh6' = [sh6 EXCEPT ![r] = NoRun6]
                  /\ qloop' = IF r = "queue" THEN "idle" ELSE qloop
                  /\ pend6' = IF r = "queue" THEN {} ELSE pend6
                  /\ UNCHANGED <<full6, kick6>>
Ended(r) == /\ sh6' = [sh6 EXCEPT ![r] = NoRun6]
            /\ qloop' = IF r = "queue" THEN "idle" ELSE qloop
            /\ UNCHANGED <<pend6, full6, kick6>>

\* A run reads the marked devices once (marked_devices).
Locks(r) ==
    /\ sh6[r].at = "waits" /\ LockFree
    /\ sh6' = [sh6 EXCEPT ![r] = [at |-> "runs", todo |-> @.todo, marks |-> marked]]
    /\ UNCHANGED <<worldVars6, filt, snap6, sockVars6, known6, queueVars6, fill6, missed6, torn6, v6Cnt>>

\* v6_lock gives up after 10 s, or the script is killed (30 s), between two
\* devices or two tc commands: no snapshot is written then.
ScriptFails(r) ==
    /\ sh6[r].at # "no" /\ Fault6 /\ Ended(r)
    /\ fill6' = IF sh6[r].at = "runs" THEN NoFill ELSE fill6
    /\ missed6' = missed6 \cup {p \in addrs : p[1] \in sh6[r].todo}
    /\ UNCHANGED <<worldVars6, filt, snap6, sockVars6, known6, torn6>>

\* Mutant: unchanged addresses are never compared with what tc has.
FilterMissingUnseen(m) == FALSE
\* No filter of the device's priority is on tc (grep for its pref).
FilterMissing(m) == Of(filt, m) = {}

\* sync_one on a marked device, as far as the first tc filter add: the
\* addresses wanted are those in the table and those gone for less than the
\* grace period.  Unchanged: the snapshot is refreshed and that is all.  Only
\* new ones: they will be added; otherwise all filters are removed first.
Refreshed(r, m, snap) ==
    /\ snap6' = [snap6 EXCEPT ![m] = snap] /\ sh6' = [sh6 EXCEPT ![r].todo = @ \ {m}]
    /\ UNCHANGED <<filt, fill6, torn6>>

SyncMarked(r, m, keep) ==
    LET prev == snap6[m].has
        want == Of(addrs, m) \cup keep
        same == snap6[m].on /\ snap6[m].mark = markOf /\ prev \subseteq want
        quiet == same /\ want = prev /\ (want = {} \/ ~FilterMissing(m))
        adds == same /\ want # prev /\ (prev = {} \/ ~FilterMissing(m))
    IN
    \/ quiet /\ Refreshed(r, m, [on |-> TRUE, mark |-> markOf, has |-> want])
    \/ /\ ~quiet
       /\ filt' = IF adds THEN filt ELSE filt \ Of(filt, m)
       /\ torn6' = IF adds THEN torn6 ELSE torn6 \cup {m}
       /\ fill6' = [on |-> TRUE, dev |-> m, want |-> want, mark |-> markOf,
                    left |-> IF adds THEN want \ prev ELSE want, ok |-> adds => m \notin torn6]
       /\ UNCHANGED <<snap6, sh6>>

\* clear_one, for a device without a mark whose snapshot is there.  (Killed
\* between its two commands it has removed the filters only, and the next run
\* removes them once more.)
ClearUnmarked(r, m) ==
    /\ filt' = IF snap6[m].on THEN filt \ Of(filt, m) ELSE filt
    /\ snap6' = [snap6 EXCEPT ![m] = NoSnap6]
    /\ sh6' = [sh6 EXCEPT ![r].todo = @ \ {m}]
    /\ UNCHANGED <<fill6, torn6>>

SyncOne(r, m) ==
    /\ sh6[r].at = "runs" /\ m \in sh6[r].todo /\ ~fill6.on
    /\ IF m \in sh6[r].marks
       THEN \E keep \in SUBSET (snap6[m].has \ addrs) : SyncMarked(r, m, keep)
       ELSE ClearUnmarked(r, m)
    /\ UNCHANGED <<worldVars6, sockVars6, known6, queueVars6, missed6, v6Cnt>>

\* One tc filter add; tc may refuse it, which is only logged.
AddFilter(r) ==
    /\ sh6[r].at = "runs" /\ fill6.on
    /\ \E p \in fill6.left :
         \/ /\ filt' = filt \cup {p} /\ fill6' = [fill6 EXCEPT !.left = @ \ {p}]
            /\ UNCHANGED v6Cnt
         \/ /\ Fault6 /\ fill6' = [fill6 EXCEPT !.left = @ \ {p}, !.ok = FALSE]
            /\ UNCHANGED filt
    /\ UNCHANGED <<worldVars6, snap6, sockVars6, known6, queueVars6, sh6, missed6, torn6>>

\* The snapshot lists what was wanted whether or not tc took it.
WriteSnap(r) ==
    LET m == fill6.dev IN
    /\ sh6[r].at = "runs" /\ fill6.on /\ fill6.left = {}
    /\ snap6' = [snap6 EXCEPT ![m] = [on |-> TRUE, mark |-> fill6.mark, has |-> fill6.want]]
    /\ sh6' = [sh6 EXCEPT ![r].todo = @ \ {m}] /\ fill6' = NoFill
    /\ torn6' = IF fill6.ok THEN torn6 \ {m} ELSE torn6 \cup {m}
    /\ UNCHANGED <<worldVars6, filt, sockVars6, known6, queueVars6, missed6, v6Cnt>>

ScriptEnds(r) ==
    /\ sh6[r].at = "runs" /\ sh6[r].todo = {} /\ Ended(r)
    /\ UNCHANGED <<worldVars6, filt, snap6, sockVars6, known6, fill6, missed6, torn6, v6Cnt>>

ScriptStep(r) ==
    Locks(r) \/ ScriptEnds(r) \/ AddFilter(r) \/ WriteSnap(r) \/ \E m \in VMac : SyncOne(r, m)
HttpdStep == HandleNeigh \/ HandleOverflow \/ Resubscribe \/ LoopKicked \/ LoopTakes

V6Next ==
    \/ \E p \in VMac \X VAddr : AddressAppears(p) \/ AddressGoes(p)
    \/ \E m \in VMac : SetLimit6(m) \/ Unmark(m)
    \/ TreeRebuilt \/ HttpdStep \/ SocketFails \/ WatchdogRuns
    \/ \E r \in Runner : ScriptStep(r) \/ ScriptFails(r)

\* The watchdog's beat, and scripts that go on: the holder of the lock ends, and
\* one that waits looks again every 100 ms.
V6Fairness ==
    /\ WF_v6Vars(WatchdogRuns)
    /\ \A r \in Runner : WF_v6Vars(ScriptStep(r))

V6Spec == V6Init /\ [][V6Next]_v6Vars /\ V6Fairness
-----------------------------------------------------------------------------
\* Types; one script at most holds the lock.
V6TypeOK ==
    /\ addrs \subseteq VMac \X VAddr /\ filt \subseteq VMac \X VAddr
    /\ known6 \subseteq VMac \X VAddr /\ marked \subseteq VMac /\ pend6 \subseteq VMac
    /\ Len(nlq) <= MaxV6Events
    /\ Cardinality({r \in Runner : sh6[r].at = "runs"}) <= 1

Queued(p) == \E i \in DOMAIN nlq : nlq[i].pair = p
InHand(m) == \E r \in Runner : sh6[r].at # "no" /\ m \in sh6[r].todo

\* An address once accepted by the event filter, which suppresses it for 10
\* minutes from then on, is filtered or its device is still on the way through
\* queue, batch or script, however events, runs and rule changes interleave
\* (Handle, take, Loop) and whatever is done to the tree between two tc
\* commands of a run; lost messages, failed runs and devices excepted whose
\* last set of filters was refused in part, cut short by the end of its script
\* or overtaken by a rebuild of the tree.
KnownIsCovered ==
    \A p \in known6 \cap addrs :
        p[1] \in marked /\ p \notin missed6 /\ p[1] \notin torn6 =>
            p \in filt \/ Queued(p) \/ p[1] \in pend6 \/ full6 \/ InHand(p[1])

Reconciled(m) == IF m \in marked THEN Of(addrs, m) \subseteq filt ELSE Of(filt, m) = {}

\* The 60 s run is the safety net (neigh_v6.go:14): after lost messages, runs
\* that failed or a rebuilt tree, every limited device ends with a filter for
\* each of its addresses and every other one with none, unless tc refused one
\* of its filters or the script was stopped, or the tree rebuilt, half-way
\* through them and no run has filled them in from the start since.
ReconciledUnlessTorn == \A m \in VMac : m \in torn6 \/ Reconciled(m)
V6Reconciled == <>[]ReconciledUnlessTorn

\* The same with no exception: "周期同步不变, 作为兜底对账".  Does not hold: an
\* address whose tc filter add failed is in the snapshot, so no later run
\* tries it again while another filter of the device is there (v6_sync.sh:262);
\* the same after a run of 30 s was killed between two adds (neigh_v6.go:391).
V6AlwaysReconciled == <>[](\A m \in VMac : Reconciled(m))
=============================================================================
