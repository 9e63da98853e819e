------------------------------ MODULE AppUsage ------------------------------
(***************************************************************************)
(* Per-application traffic accounting of hnc_httpd (app_usage.go) and the  *)
(* conntrack DESTROY events it uses (ct_events.go).                        *)
(*                                                                         *)
(* Every ten seconds hnc_httpd reads the kernel's connection table and     *)
(* books the growth of each connection's counter since the reading before. *)
(* A connection that ends in between is booked from the final counter in   *)
(* its DESTROY event, which another goroutine receives and buffers.  The   *)
(* same five-tuple may be used again at once.                              *)
(*                                                                         *)
(* The bytes of a connection that is new and has no name wait for the next *)
(* tick, which may name it by what else began then (traffic_ident.go).     *)
(*                                                                         *)
(* Data: connections carry one byte count; `gen' tells two connections with*)
(* one five-tuple apart (the program cannot).  Which application the bytes *)
(* go to is not modelled; a day's file holds their sum, and which of the   *)
(* new connections wait is any choice.                                     *)
(***************************************************************************)
EXTENDS Integers, FiniteSets, Sequences, FiniteSetsExt, SequencesExt

CONSTANTS Tuple,        \* five-tuples, all of one device
          BufMax,       \* ctEventMaxBuffered
          MaxMoved, MaxGens, MaxUseDays, MaxUseFaults     \* bounds

ASSUME UsageAssumption == BufMax \in Nat \ {0} /\ MaxUseDays \in Nat \ {0}

VARIABLES
    ct,         \* the kernel's table: [Tuple -> [gen, b]], gen 0 when absent
    inflight,   \* DESTROY events not received yet: sequence of [k, gen, b]
    evBuf,      \* ctEvents.buf: sequence of [k, b, after], after = received
                \* since the snapshot under way began
    evOn,       \* ctEvents.active
    ctSnap,     \* the snapshot under way: [at, todo, got]
    prevB,      \* appUsage.prev: [Tuple -> counter, -1 for none]
    baseSet,    \* appUsage.init
    heldBack,   \* identSt.pending: the bytes held back for the next tick
    known,      \* the device is in the owner map
    useDay,     \* today
    dayMem,     \* appUsage.day: [date, b, dirty], date 0 for none
    dayDisk,    \* [day -> bytes in its file]
    moved,      \* history: all bytes moved
    born,       \* history: connections so far
    waived,       \* history: bytes the program may leave out: moved before a
                \* baseline, by a lost event or save, by an unknown device
    lapsed,     \* history: the device was unknown to a tick
    overtaken,  \* history: a snapshot showed the end of a connection and the
                \* tick was over before its event was received
    excused,    \* history: something was lost
    useFaults

kernVars0 == <<ct, inflight, moved, born>>
bookVars == <<prevB, baseSet, heldBack, dayMem, dayDisk, waived, lapsed, overtaken>>
usageVars == <<kernVars0, evBuf, evOn, ctSnap, known, useDay, bookVars, excused, useFaults>>

Gone0 == [gen |-> 0, b |-> 0]
NoSnap == [at |-> "idle", todo |-> {}, got |-> [k \in Tuple |-> Gone0]]
NoPrev == [k \in Tuple |-> -1]
UseFault == useFaults < MaxUseFaults /\ useFaults' = useFaults + 1
Beyond(a, b) == IF a >= b THEN a - b ELSE 0                    \* satSub
Booked0 == MapThenSumSet(LAMBDA d : IF d = dayMem.date THEN dayMem.b ELSE dayDisk[d], 1..MaxUseDays)

UsageInit ==
    /\ ct = [k \in Tuple |-> Gone0] /\ inflight = <<>> /\ evBuf = <<>> /\ evOn = TRUE
    /\ ctSnap = NoSnap /\ prevB = NoPrev /\ baseSet = FALSE /\ heldBack = 0 /\ known = TRUE
    /\ useDay = 1 /\ dayMem = [date |-> 0, b |-> 0, dirty |-> FALSE]
    /\ dayDisk = [d \in 1..MaxUseDays |-> 0]
    /\ moved = 0 /\ born = 0 /\ waived = 0 /\ lapsed = FALSE /\ overtaken = FALSE
    /\ excused = FALSE /\ useFaults = 0

----------------------------------------------------------------------------
(* The kernel.                                                             *)

\* A connection begins, moves a byte, or ends; its end is announced when
\* somebody listens.
ConnBegins == \E k \in Tuple :
    /\ ct[k].gen = 0 /\ born < MaxGens /\ born' = born + 1
    /\ ct' = [ct EXCEPT ![k] = [gen |-> born', b |-> 0]]
    /\ UNCHANGED <<inflight, moved, evBuf, evOn, ctSnap, known, useDay, bookVars,
                   excused, useFaults>>

ByteMoves == \E k \in Tuple :
    /\ ct[k].gen # 0 /\ moved < MaxMoved /\ moved' = moved + 1
    /\ ct' = [ct EXCEPT ![k].b = @ + 1]
    /\ UNCHANGED <<inflight, born, evBuf, evOn, ctSnap, known, useDay, bookVars,
                   excused, useFaults>>

ConnGone == \E k \in Tuple :
    /\ ct[k].gen # 0 /\ ct' = [ct EXCEPT ![k] = Gone0]
    /\ inflight' = IF evOn THEN Append(inflight, [k |-> k, gen |-> ct[k].gen, b |-> ct[k].b])
                   ELSE inflight
    /\ excused' = (excused \/ ~evOn)
    /\ UNCHANGED <<moved, born, evBuf, evOn, ctSnap, known, useDay, bookVars, useFaults>>

----------------------------------------------------------------------------
(* CtEventLoop.                                                            *)

\* ctEventsPush: an event is received, stamped and buffered; a full buffer
\* drops it.
EventReceived ==
    /\ inflight # <<>> /\ evOn /\ inflight' = Tail(inflight)
    /\ IF Len(evBuf) >= BufMax
       THEN excused' = TRUE /\ UNCHANGED evBuf
       ELSE /\ evBuf' = Append(evBuf, [k |-> Head(inflight).k, b |-> Head(inflight).b,
                                       after |-> ctSnap.at # "idle"])
            /\ UNCHANGED excused
    /\ UNCHANGED <<ct, moved, born, evOn, ctSnap, known, useDay, bookVars, useFaults>>

\* ENOBUFS: the kernel had no room for an event.
EventLost ==
    /\ inflight # <<>> /\ UseFault /\ inflight' = Tail(inflight) /\ excused' = TRUE
    /\ UNCHANGED <<ct, moved, born, evBuf, evOn, ctSnap, known, useDay, bookVars>>

\* Any other error ends the subscription and empties the buffer; it is taken
\* out again later.
Unsubscribed ==
    /\ evOn /\ UseFault /\ evOn' = FALSE /\ inflight' = <<>> /\ evBuf' = <<>>
    /\ excused' = TRUE
    /\ UNCHANGED <<ct, moved, born, ctSnap, known, useDay, bookVars>>

Resubscribed ==
    /\ ~evOn /\ evOn' = TRUE
    /\ UNCHANGED <<kernVars0, evBuf, ctSnap, known, useDay, bookVars, excused, useFaults>>

----------------------------------------------------------------------------
(* appUsageTick.                                                           *)

\* conntrackSnapshot: the table is read entry by entry.
SnapBegins ==
    /\ ctSnap.at = "idle"
    /\ ctSnap' = [NoSnap EXCEPT !.at = "read", !.todo = Tuple]
    /\ evBuf' = [i \in DOMAIN evBuf |-> [evBuf[i] EXCEPT !.after = FALSE]]
    /\ UNCHANGED <<kernVars0, evOn, known, useDay, bookVars, excused, useFaults>>

SnapReads == \E k \in ctSnap.todo :
    /\ ctSnap' = [ctSnap EXCEPT !.todo = @ \ {k}, !.got[k] = ct[k]]
    /\ UNCHANGED <<kernVars0, evBuf, evOn, known, useDay, bookVars, excused, useFaults>>

\* appUsageAcctStep, rule 1: an event books what is beyond the last reading,
\* or everything, and the reading is gone.
EventStep(a, e) ==
    [a EXCEPT !.sum[e.k] = @ + (IF a.prev[e.k] # -1 THEN Beyond(e.b, a.prev[e.k]) ELSE e.b),
              !.prev[e.k] = -1,
              !.dead = IF e.after THEN @ \cup {e.k} ELSE @]

\* Rule 2: the entry is one of a connection known to have ended since.
Alive(a, k) == ctSnap.got[k].gen # 0 /\ k \notin a.dead

\* Rules 1 to 3: the deltas of each connection, and the readings to keep.
AcctStep(evs) ==
    LET a == FoldLeft(EventStep, [sum |-> [k \in Tuple |-> 0], prev |-> prevB, dead |-> {}], evs)
        live == {k \in Tuple : Alive(a, k)}
        delta(k) == IF a.prev[k] # -1 THEN Beyond(ctSnap.got[k].b, a.prev[k])
                    ELSE ctSnap.got[k].b
    IN [sum |-> [k \in Tuple |-> a.sum[k] + (IF k \in live THEN delta(k) ELSE 0)],
        prev |-> [k \in Tuple |-> IF k \in live THEN ctSnap.got[k].b ELSE -1]]

Readings == [k \in Tuple |-> IF ctSnap.got[k].gen # 0 THEN ctSnap.got[k].b ELSE -1]

\* At a baseline: the bytes moved so far that are neither booked nor still to
\* be booked by an event or by the next reading; what was held back is dropped.
SinceRead(k, gen, b) == IF ctSnap.got[k].gen = gen THEN b - ctSnap.got[k].b ELSE b
LeftOut == moved - Booked0
           - MapThenSumSet(LAMBDA k : SinceRead(k, ct[k].gen, ct[k].b), Tuple)
           - FoldLeft(LAMBDA n, e : n + SinceRead(e.k, e.gen, e.b), 0, inflight)

\* A baseline drops the event of a connection it has a reading of.
BaseOnDead == \E e \in Range(evBuf) : e.after /\ ctSnap.got[e.k].gen # 0
Overtakes == \E e \in Range(inflight) : ctSnap.got[e.k].gen # e.gen

\* The day in memory, and the files, after the change of day: yesterday's is
\* saved when it has something new, today's is read.
DayNow == IF dayMem.date = useDay THEN dayMem
          ELSE [date |-> useDay, b |-> dayDisk[useDay], dirty |-> FALSE]

\* A day that changed without a mark is not saved when it ends.
Forgets == dayMem.date \notin {0, useDay} /\ ~dayMem.dirty /\ dayMem.b # dayDisk[dayMem.date]

\* observe, hold: of the connections without an earlier reading any may wait.
Waiting(sum) == SUBSET {k \in Tuple : prevB[k] = -1 /\ sum[k] > 0}
Total(sum, ks) == MapThenSumSet(LAMBDA k : sum[k], ks)
\* appUsageRecordIdent: what waited is booked now; by itself it does not mark the day.
BookStep(sum) ==
    \E later \in Waiting(sum) :
        /\ heldBack' = Total(sum, later)
        /\ dayMem' = [DayNow EXCEPT !.b = @ + heldBack + Total(sum, Tuple \ later),
                                    !.dirty = @ \/ Total(sum, Tuple) > 0]

\* The rest of the tick, when the clock is sound: the first one sets the
\* baseline, the others book.  An unknown device's connections are neither
\* booked nor remembered.
UsageTick ==
    /\ ctSnap.at = "read" /\ ctSnap.todo = {} /\ ctSnap' = NoSnap /\ evBuf' = <<>>
    /\ overtaken' = (overtaken \/ Overtakes)
    /\ baseSet' = TRUE
    /\ \/ /\ dayDisk' = IF dayMem.date \notin {0, useDay} /\ dayMem.dirty
                        THEN [dayDisk EXCEPT ![dayMem.date] = dayMem.b] ELSE dayDisk
          /\ UNCHANGED useFaults
          /\ excused' = (excused \/ Forgets \/ (~baseSet /\ BaseOnDead))
       \/ /\ dayMem.date \notin {0, useDay} /\ dayMem.dirty /\ UseFault
          /\ excused' = TRUE /\ UNCHANGED dayDisk
    /\ IF ~known
       THEN /\ lapsed' = TRUE
            /\ prevB' = NoPrev /\ BookStep([k \in Tuple |-> 0]) /\ UNCHANGED waived
       ELSE IF ~baseSet
       THEN /\ prevB' = Readings /\ BookStep([k \in Tuple |-> 0])
            /\ waived' = LeftOut
            /\ UNCHANGED lapsed
       ELSE /\ prevB' = AcctStep(evBuf).prev /\ BookStep(AcctStep(evBuf).sum)
            /\ UNCHANGED <<waived, lapsed>>
    /\ UNCHANGED <<kernVars0, evOn, known, useDay>>

\* The clock is not believed: the round is skipped.
UsageTickInsane ==
    /\ ctSnap.at = "read" /\ ctSnap.todo = {} /\ ctSnap' = NoSnap /\ UseFault
    /\ UNCHANGED <<kernVars0, evBuf, evOn, known, useDay, bookVars, excused>>

\* The clock jumped: events and what was held back are dropped (identReset) and
\* the baseline is set anew.
UsageTickJump ==
    /\ ctSnap.at = "read" /\ ctSnap.todo = {} /\ ctSnap' = NoSnap /\ evBuf' = <<>>
    /\ UseFault /\ baseSet' = TRUE /\ prevB' = (IF known THEN Readings ELSE NoPrev) /\ heldBack' = 0
    /\ waived' = LeftOut /\ overtaken' = (overtaken \/ Overtakes)
    /\ excused' = (excused \/ BaseOnDead)
    /\ UNCHANGED <<kernVars0, evOn, known, useDay, dayMem, dayDisk, lapsed>>

\* appUsageFlush; a failed save is tried again.
UsageFlush ==
    /\ ctSnap.at = "idle" /\ dayMem.dirty
    /\ \/ /\ dayDisk' = [dayDisk EXCEPT ![dayMem.date] = dayMem.b]
          /\ dayMem' = [dayMem EXCEPT !.dirty = FALSE] /\ UNCHANGED useFaults
       \/ UseFault /\ UNCHANGED <<dayDisk, dayMem>>
    /\ UNCHANGED <<kernVars0, evBuf, evOn, ctSnap, known, useDay, prevB, baseSet, heldBack, waived,
                   lapsed, overtaken, excused>>

\* hnc_httpd dies: what was not saved is lost, and a new baseline follows.
UsageCrash ==
    /\ UseFault /\ dayMem' = [date |-> 0, b |-> 0, dirty |-> FALSE]
    /\ baseSet' = FALSE /\ prevB' = NoPrev /\ heldBack' = 0 /\ evBuf' = <<>> /\ inflight' = <<>>
    /\ ctSnap' = NoSnap /\ excused' = TRUE /\ evOn' = TRUE
    /\ UNCHANGED <<ct, moved, born, known, useDay, dayDisk, waived, lapsed, overtaken>>

\* Midnight; the device is dropped from devices.json and dpi_state.json, or is
\* back.
UsageMidnight == /\ useDay < MaxUseDays /\ useDay' = useDay + 1
                 /\ UNCHANGED <<kernVars0, evBuf, evOn, ctSnap, known, bookVars, excused, useFaults>>
OwnerChanges == /\ known' = ~known /\ (known => UseFault) /\ (~known => UNCHANGED useFaults)
                /\ UNCHANGED <<kernVars0, evBuf, evOn, ctSnap, useDay, bookVars, excused>>

UsageNext ==
    \/ ConnBegins \/ ByteMoves \/ ConnGone \/ EventReceived \/ EventLost
    \/ Unsubscribed \/ Resubscribed \/ SnapBegins \/ SnapReads \/ UsageTick
    \/ UsageTickInsane \/ UsageTickJump \/ UsageFlush \/ UsageCrash \/ UsageMidnight \/ OwnerChanges

UsageSpec == UsageInit /\ [][UsageNext]_usageVars

----------------------------------------------------------------------------
\* ctDestroy as ctEvents buffers it.
DestroyEvent == [k : Tuple, b : 0..MaxMoved, after : BOOLEAN]
UsageTypeOK ==
    /\ moved \in 0..MaxMoved /\ useDay \in 1..MaxUseDays /\ Len(evBuf) <= BufMax
    /\ Range(evBuf) \subseteq DestroyEvent
    /\ \A k \in Tuple : prevB[k] \in -1..MaxMoved /\ ct[k].gen \in 0..MaxGens
    /\ ctSnap.at \in {"idle", "read"} /\ dayMem.date \in 0..MaxUseDays
    /\ useFaults \in 0..MaxUseFaults /\ heldBack \in 0..MaxMoved

\* No byte is booked twice, neither in the day files nor in memory, nor booked and
\* held back: through
\* events that arrive while the table is read, tuples used again, lost events,
\* resubscriptions, restarts, clock jumps and midnights; as long as the device
\* stays known and the event of a connection that a snapshot no longer shows
\* is received before the tick is over (app_usage.go appUsageAcctStep).
NoDoubleCount == (~lapsed /\ ~overtaken) => Booked0 + heldBack <= moved - waived

\* With every event received and every connection ended, every byte moved since
\* the baseline is booked, or held back for the next tick; unless a day ended whose
\* last change was such bytes alone, which does not mark it (app_usage.go rules 1 to
\* 3 and line 166; ct_events.go: the tail of a connection and connections between
\* two readings; traffic_ident.go:385-405).
NothingMissing ==
    ( /\ baseSet /\ ~lapsed /\ ~overtaken /\ ~excused /\ ctSnap.at = "idle"
      /\ inflight = <<>> /\ evBuf = <<>> /\ \A k \in Tuple : ct[k].gen = 0 /\ prevB[k] = -1 )
    => Booked0 + heldBack = moved - waived

\* Said by app_usage.go of its rules: "规则(保证不重复计数)"; whatever becomes of
\* the device meanwhile, no byte is booked twice.
NeverTwice == ~overtaken => Booked0 <= moved
=============================================================================
