---------------------------- MODULE CaptureProofs ----------------------------
(***************************************************************************)
(* What hnc_dpid holds, counts and reassembles (CaptureKept of MCSettles), *)
(* and that both reassemblers of ClientHello messages keep the promise of  *)
(* HelloBytes, for every number of interfaces, days, connections and bytes *)
(* and every limit of the tables.                                          *)
(*                                                                         *)
(* SelfCapture: a day's file stays within its cap because the writer       *)
(* counts the size of the very file it has open.  DpidCapture: what the    *)
(* loop reads is open because a rebind retires the old socket and never    *)
(* closes it under the reader; no storm of starts passes the crash flag    *)
(* because every recent start has a line of its own in the file.           *)
(* HelloReasm over TCP: an entry holds the first bytes of its stream, each *)
(* in its place, and waits for the number of the byte after them; numbers  *)
(* that wrap tell bytes apart that are less than half their space apart.   *)
(* Over QUIC: addFrag keeps the list in order and apart and covers what it *)
(* covered and the fragment, by induction over its pass.                   *)
(***************************************************************************)
EXTENDS MCSettles, FiniteSetTheorems, SequenceTheorems, WellFoundedInduction, NaturalsInduction, TLAPS

\* A set of numbers that is not empty has a least one.
LEMMA LeastOf ==
  ASSUME NEW T \in SUBSET Nat, T # {}
  PROVE  \E m \in T : \A n \in T : m <= n
<1> DEFINE R == OpToRel(<, Nat)
<1>1. IsWellFoundedOn(R, Nat)
  BY NatLessThanWellFounded
<1>2. \A x, y \in Nat : y < x => <<y, x>> \in R
  BY DEF OpToRel
<1> HIDE DEF R
<1>3. PICK m \in T : \A y \in T : ~ (<<y, m>> \in R)
  BY <1>1, WFMin
<1>4. ASSUME NEW n \in T PROVE m <= n
  <2>1. m \in Nat /\ n \in Nat
    OBVIOUS
  <2>2. ~ (n < m)
    BY <1>2, <1>3, <2>1
  <2> QED
    BY <2>1, <2>2
<1> QED
  BY <1>4

\* The rest of a sequence.
LEMMA SubSeqFrom ==
  ASSUME NEW S, NEW s \in Seq(S), NEW k \in 0..Len(s)
  PROVE  /\ SubSeq(s, k + 1, Len(s)) \in Seq(S) /\ Len(SubSeq(s, k + 1, Len(s))) = Len(s) - k
         /\ \A i \in 1..(Len(s) - k) : SubSeq(s, k + 1, Len(s))[i] = s[k + i]
<1>1. /\ SubSeq(s, k + 1, Len(s)) \in Seq(S) /\ Len(SubSeq(s, k + 1, Len(s))) = Len(s) - k
      /\ \A i \in 1..(Len(s) - (k + 1) + 1) : SubSeq(s, k + 1, Len(s))[i] = s[(k + 1) + i - 1]
  BY SubSeqProperties
<1>2. ASSUME NEW i \in 1..(Len(s) - k) PROVE SubSeq(s, k + 1, Len(s))[i] = s[k + i]
  <2>1. i \in 1..(Len(s) - (k + 1) + 1) /\ (k + 1) + i - 1 = k + i
    OBVIOUS
  <2> QED
    BY <1>1, <2>1
<1> QED
  BY <1>1, <1>2

-----------------------------------------------------------------------------
(* Capture of the phone's own traffic.                                     *)

SelfSwitches ==
  /\ selfFlag \in BOOLEAN /\ cands \subseteq SelfIf /\ sampler \in BOOLEAN
  /\ caps \in [SelfIf -> {"none", "run", "ended"}]
SelfQueue == today \in Days /\ chan \in Seq(Days) /\ Len(chan) <= ChanCap
\* The file the writer has open, unless it was removed, has the size it counts.
SelfWriter ==
  /\ wr \in WriterState /\ files \in [Days -> Nat \union {NoFile}]
  /\ DayCapKept
  /\ wr.open => wr.day \in Days
  /\ wr.linked => wr.open /\ files[wr.day] = wr.size
SelfInv == SelfSwitches /\ SelfQueue /\ SelfWriter

\* The invariant says what SelfCapture promises.
LEMMA SelfTyped == SelfInv => SelfTypeOK /\ DayCapKept
  BY DEF SelfInv, SelfSwitches, SelfQueue, SelfWriter, SelfTypeOK

\* Nothing is captured or written yet.
LEMMA SelfStart == SelfInit => SelfInv
<1> SUFFICES ASSUME SelfInit PROVE SelfInv
  OBVIOUS
<1>1. SelfSwitches
  BY DEF SelfInit, SelfSwitches
<1>2. SelfQueue
  BY SelfAssumption DEF SelfInit, SelfQueue, Days
<1>3. SelfWriter
  BY SelfAssumption DEF SelfInit, SelfWriter, WriterState, Fresh0, ClosedOn, NoFile, DayCapKept
<1> QED
  BY <1>1, <1>2, <1>3 DEF SelfInv

\* Flag, candidates and captures keep their types.
LEMMA SelfSwitchesStep == ASSUME SelfInv, [SelfNext]_selfVars PROVE SelfSwitches'
<1> USE DEF SelfInv, SelfSwitches
<1>1. CASE ReconcileOn
  BY <1>1 DEF ReconcileOn, Restarted
<1>2. CASE ReconcileOff
  BY <1>2 DEF ReconcileOff
<1>3. CASE CaptureDies
  BY <1>3 DEF CaptureDies
<1>4. CASE SampleSeen
  BY <1>4 DEF SampleSeen
<1>5. CASE HandleSample
  BY <1>5 DEF HandleSample
<1>6. CASE ReopenIfRemoved
  BY <1>6 DEF ReopenIfRemoved
<1>7. CASE RemoveFile
  BY <1>7 DEF RemoveFile
<1>8. CASE Flip
  BY <1>8 DEF Flip
<1>9. CASE NextDay
  BY <1>9 DEF NextDay
<1>10. CASE UNCHANGED selfVars
  BY <1>10 DEF selfVars
<1> HIDE DEF SelfInv, SelfSwitches
<1> QED
  BY <1>1, <1>2, <1>3, <1>4, <1>5, <1>6, <1>7, <1>8, <1>9, <1>10, Zenon DEF SelfNext

\* The channel holds days, and never more than it has room for.
LEMMA SelfQueueStep == ASSUME SelfInv, [SelfNext]_selfVars PROVE SelfQueue'
<1> USE SelfAssumption DEF SelfInv, SelfQueue, Days
<1>1. CASE ReconcileOn
  <2>1. (chan' = chan \/ chan' = <<>>) /\ today' = today
    BY <1>1, Zenon DEF ReconcileOn
  <2>2. CASE chan' = <<>>
    BY <2>1, <2>2
  <2> QED
    BY <2>1, <2>2
<1>2. CASE ReconcileOff
  BY <1>2 DEF ReconcileOff
<1>3. CASE CaptureDies
  BY <1>3 DEF CaptureDies
<1>4. CASE SampleSeen
  BY <1>4 DEF SampleSeen
<1>5. CASE HandleSample
  <2>1. chan' = Tail(chan) /\ chan # <<>> /\ today' = today
    BY <1>5, Zenon DEF HandleSample
  <2> QED
    BY <2>1
<1>6. CASE ReopenIfRemoved
  BY <1>6 DEF ReopenIfRemoved
<1>7. CASE RemoveFile
  BY <1>7 DEF RemoveFile
<1>8. CASE Flip
  BY <1>8 DEF Flip
<1>9. CASE NextDay
  BY <1>9 DEF NextDay
<1>10. CASE UNCHANGED selfVars
  BY <1>10 DEF selfVars
<1> HIDE DEF SelfInv, SelfQueue, Days
<1> QED
  BY <1>1, <1>2, <1>3, <1>4, <1>5, <1>6, <1>7, <1>8, <1>9, <1>10, Zenon DEF SelfNext

\* A sweep removes files and adds to none.
LEMMA SweptFiles ==
  ASSUME NEW f \in [Days -> Nat \union {NoFile}], NEW d \in Nat
  PROVE  /\ Swept(f, d) \in [Days -> Nat \union {NoFile}]
         /\ \A e \in Days : Swept(f, d)[e] \in {f[e], NoFile}
  BY DEF Swept

\* handle, openCurrent: the writer counts what the file has.
LEMMA HandleWrites == ASSUME SelfInv, HandleSample PROVE SelfWriter'
<1> DEFINE d == Head(chan)
           w == Turned(d)
           f == IF d = wr.day THEN files ELSE Swept(files, d)
           o == Opened(w, f)
           made == IF w.capped \/ ~o.linked THEN f ELSE [f EXCEPT ![d] = IF @ = NoFile THEN 0 ELSE @]
<1>1. /\ d \in Days /\ d \in Nat
      /\ wr \in WriterState /\ files \in [Days -> Nat \union {NoFile}] /\ DayCapKept
      /\ wr.open => wr.day \in Days
      /\ wr.linked => wr.open /\ files[wr.day] = wr.size
  <2>1. chan # <<>>
    BY Zenon DEF HandleSample
  <2>2. chan \in Seq(Days) /\ Days \subseteq Nat
    BY DEF SelfInv, SelfQueue, Days
  <2>3. d \in Days
    BY <2>1, <2>2
  <2> QED
    BY <2>2, <2>3, Zenon DEF SelfInv, SelfWriter
<1>2. IF w.capped THEN wr' = w /\ files' = f
      ELSE IF o.size + 1 > DailyCap THEN wr' = [o EXCEPT !.capped = TRUE] /\ files' = made
      ELSE wr' = [o EXCEPT !.size = @ + 1] /\ files' = IF o.linked THEN [made EXCEPT ![d] = @ + 1] ELSE made
  BY Zenon DEF HandleSample
<1> HIDE DEF d
<1>3. /\ f \in [Days -> Nat \union {NoFile}]
      /\ \A e \in Days : f[e] # NoFile => f[e] <= DailyCap
      /\ d = wr.day => f = files
  BY <1>1, SweptFiles DEF DayCapKept
<1>4. /\ w \in WriterState /\ w.day = d /\ (w.linked => w.open /\ f[d] = w.size)
  BY <1>1, SelfAssumption DEF WriterState, Turned, ClosedOn, Days
<1> HIDE DEF w, f
<1>5. /\ o \in WriterState /\ o.day = d /\ o.open
      /\ o.linked => f[d] = o.size \/ (f[d] = NoFile /\ o.size = 0)
  BY <1>1, <1>3, <1>4, SelfAssumption DEF WriterState, Opened, Days, NoFile
<1> HIDE DEF o
<1>6. CASE w.capped
  BY <1>1, <1>2, <1>3, <1>4, <1>6 DEF SelfWriter, DayCapKept
<1>7. /\ ~w.capped => made \in [Days -> Nat \union {NoFile}]
      /\ ~w.capped => \A e \in Days : made[e] # NoFile => made[e] <= DailyCap
      /\ ~w.capped /\ o.linked => made[d] = o.size
  BY <1>1, <1>3, <1>5, SelfAssumption DEF WriterState, NoFile
<1> HIDE DEF made
<1>8. CASE ~w.capped /\ o.size + 1 > DailyCap
  BY <1>1, <1>2, <1>5, <1>7, <1>8 DEF SelfWriter, DayCapKept, WriterState
<1>9. CASE ~w.capped /\ ~(o.size + 1 > DailyCap)
  <2>1. wr' = [o EXCEPT !.size = @ + 1] /\ files' = IF o.linked THEN [made EXCEPT ![d] = @ + 1] ELSE made
    BY <1>2, <1>9
  <2>2. wr' \in WriterState /\ wr'.day = d /\ wr'.size = o.size + 1 /\ wr'.linked = o.linked /\ wr'.open
    BY <1>5, <1>9, <2>1, SelfAssumption DEF WriterState
  <2>3. /\ files' \in [Days -> Nat \union {NoFile}]
        /\ \A e \in Days : files'[e] # NoFile => files'[e] <= DailyCap
        /\ o.linked => files'[d] = o.size + 1
    BY <1>1, <1>5, <1>7, <1>9, <2>1, SelfAssumption DEF WriterState, NoFile
  <2> QED
    BY <1>1, <2>2, <2>3 DEF SelfWriter, DayCapKept
<1> QED
  BY <1>6, <1>8, <1>9

\* Nobody else writes to a file, and who removes one unlinks it.
LEMMA SelfWriterStep == ASSUME SelfInv, [SelfNext]_selfVars PROVE SelfWriter'
<1> USE SelfAssumption DEF SelfInv, SelfWriter
<1>0. UNCHANGED <<wr, files>> => SelfWriter'
  BY DEF DayCapKept
<1>f. Fresh0 \in WriterState /\ ~Fresh0.open /\ ~Fresh0.linked
  BY DEF Fresh0, ClosedOn, WriterState
<1>1. CASE ReconcileOn
  <2>1. today \in Nat
    BY DEF SelfQueue, Days
  <2>2. UNCHANGED <<wr, files>> \/ (wr' = Fresh0 /\ files' = Swept(files, today))
    BY <1>1, Zenon DEF ReconcileOn
  <2> QED
    BY <1>0, <1>f, <2>1, <2>2, SweptFiles DEF DayCapKept
<1>2. CASE ReconcileOff
  BY <1>2, <1>f DEF ReconcileOff, DayCapKept
<1>3. CASE CaptureDies
  BY <1>0, <1>3 DEF CaptureDies
<1>4. CASE SampleSeen
  BY <1>0, <1>4 DEF SampleSeen
<1>5. CASE HandleSample
  BY <1>5, HandleWrites
<1>6. CASE ReopenIfRemoved
  BY <1>6 DEF ReopenIfRemoved, DayCapKept, WriterState, ClosedOn
<1>7. CASE RemoveFile
  <2> PICK d \in Days : /\ files' = [files EXCEPT ![d] = NoFile]
                        /\ wr' = IF wr.day = d THEN [wr EXCEPT !.linked = FALSE] ELSE wr
    BY <1>7, Zenon DEF RemoveFile
  <2> QED
    BY DEF DayCapKept, WriterState
<1>8. CASE Flip
  BY <1>0, <1>8 DEF Flip
<1>9. CASE NextDay
  BY <1>0, <1>9 DEF NextDay
<1>10. CASE UNCHANGED selfVars
  BY <1>0, <1>10 DEF selfVars
<1> HIDE DEF SelfInv, SelfWriter
<1> QED
  BY <1>1, <1>2, <1>3, <1>4, <1>5, <1>6, <1>7, <1>8, <1>9, <1>10, Zenon DEF SelfNext

\* Every step keeps the invariant.
LEMMA SelfStep == ASSUME SelfInv, [SelfNext]_selfVars PROVE SelfInv'
  BY SelfSwitchesStep, SelfQueueStep, SelfWriterStep DEF SelfInv

-----------------------------------------------------------------------------
(* The capture loop and the rebinders.                                     *)

SocketState == [name : Iface, index : 1 .. MaxNet + 1, open : BOOLEAN]
HandleState == [ifname : Iface, ifindex : 0 .. MaxNet + 1, fd : Nat, retired : SUBSET Nat,
                rebound : BOOLEAN, closed : BOOLEAN]

CapWorld ==
  /\ nic \in [Iface -> 0 .. MaxNet + 1] /\ hot \in Iface /\ ifc \in Iface
  /\ capCnt \in [net : 0 .. MaxNet, silent : Nat, fatal : Nat]
CapPlaces ==
  /\ main \in {"open", "backoff", "pause", "run", "blind", "done"}
  /\ att \in 0 .. MaxAttempts /\ (main = "run" => att \in Attempts)
  /\ rb \in [Attempts -> {"none", "tick", "check", "bind", "gone"}]
  /\ target \in [Attempts -> Iface]
CapSockets ==
  /\ fds \in Seq(SocketState) /\ hd \in [Attempts -> HandleState]
  /\ \A a \in Attempts : hd[a].fd <= Len(fds) /\ hd[a].retired \subseteq 1 .. Len(fds)
\* The socket that Run reads from is one of the process, and open.
CapHeld ==
  /\ held \in 0 .. Len(fds)
  /\ main = "run" => held \in 1 .. Len(fds) /\ fds[held].open
CapInv == CapWorld /\ CapPlaces /\ CapSockets /\ CapHeld

\* The invariant says what the loop promises.
LEMMA CapTyped == CapInv => CaptureTypeOK /\ HeldOpen
<1> SUFFICES ASSUME CapInv PROVE CaptureTypeOK /\ HeldOpen
  OBVIOUS
<1>1. \A s \in DOMAIN fds : fds[s] \in SocketState
  BY DEF CapInv, CapSockets
<1>2. \A a \in Attempts : hd[a] \in HandleState
  BY DEF CapInv, CapSockets
<1>3. \A s \in DOMAIN fds : fds[s].name \in Iface /\ fds[s].index \in 1 .. MaxNet + 1
  BY <1>1 DEF SocketState
<1>4. \A a \in Attempts : hd[a].fd \in 0 .. Len(fds) /\ hd[a].retired \subseteq DOMAIN fds
  <2> TAKE a \in Attempts
  <2>1. hd[a].fd \in Nat
    BY <1>2 DEF HandleState
  <2>2. Len(fds) \in Nat /\ DOMAIN fds = 1 .. Len(fds)
    BY DEF CapInv, CapSockets
  <2>3. hd[a].fd <= Len(fds) /\ hd[a].retired \subseteq 1 .. Len(fds)
    BY Zenon DEF CapInv, CapSockets
  <2> QED
    BY <2>1, <2>2, <2>3
<1>5. CaptureTypeOK
  <2>1. {hot, ifc} \subseteq Iface
    BY DEF CapInv, CapWorld
  <2> QED
    BY <1>3, <1>4, <2>1, Zenon DEF CapInv, CapWorld, CapPlaces, CapHeld, CaptureTypeOK
<1>6. HeldOpen
  BY Zenon DEF CapInv, CapHeld, HeldOpen
<1> QED
  BY <1>5, <1>6

\* A handle that was never opened.
LEMMA NoHandleTyped == ASSUME Iface # {} PROVE NoHandle \in HandleState /\ NoHandle.fd = 0 /\ NoHandle.retired = {}
<1>1. (CHOOSE i \in Iface : TRUE) \in Iface
  OBVIOUS
<1> QED
  BY <1>1, CaptureAssumption DEF NoHandle, HandleState, NoFd

\* dpid has just started.
LEMMA CapStart == CaptureInit => CapInv
<1> SUFFICES ASSUME CaptureInit PROVE CapInv
  OBVIOUS
<1> USE CaptureAssumption
<1>1. CapWorld
  BY DEF CaptureInit, CapWorld
<1>2. CapPlaces
  BY DEF CaptureInit, CapPlaces
<1>3. NoHandle \in HandleState /\ NoHandle.fd = 0 /\ NoHandle.retired = {}
  BY NoHandleTyped DEF CaptureInit
<1>4. CapSockets
  BY <1>3 DEF CaptureInit, CapSockets
<1>5. CapHeld
  BY DEF CaptureInit, CapHeld, NoFd
<1> QED
  BY <1>1, <1>2, <1>4, <1>5 DEF CapInv

\* Close keeps the sockets' number and opens none.
LEMMA ClosingTyped ==
  ASSUME CapSockets, NEW a \in Attempts
  PROVE  CloseSockets(a, fds) \in Seq(SocketState) /\ Len(CloseSockets(a, fds)) = Len(fds)
<1>1. PICK n \in Nat : n = Len(fds)
  BY DEF CapSockets
<1>2. DOMAIN fds = 1 .. n /\ \A s \in 1 .. n : fds[s] \in SocketState
  BY <1>1 DEF CapSockets
<1>3. \A s \in 1 .. n : [fds[s] EXCEPT !.open = @ /\ s # hd[a].fd /\ s \notin hd[a].retired] \in SocketState
  BY <1>2 DEF SocketState
<1>4. CloseSockets(a, fds) \in [1 .. n -> SocketState]
  BY <1>2, <1>3 DEF CloseSockets
<1> QED
  BY <1>1, <1>4

\* What closing the handle leaves.
LEMMA ClosedHandle ==
  ASSUME CapInv, att \in Attempts, CloseHandle
  PROVE  CapSockets' /\ held' = 0
<1>1. /\ fds' \in Seq(SocketState) /\ Len(fds') = Len(fds)
  BY ClosingTyped DEF CapInv, CloseHandle
<1>2. hd \in [Attempts -> HandleState] /\ \A a \in Attempts : hd[a].fd <= Len(fds) /\ hd[a].retired \subseteq 1 .. Len(fds)
  BY DEF CapInv, CapSockets
<1>3. hd' = [hd EXCEPT ![att] = [hd[att] EXCEPT !.fd = NoFd, !.retired = {}, !.closed = TRUE]]
  BY <1>2 DEF CloseHandle
<1>4. PICK h : h = [hd[att] EXCEPT !.fd = NoFd, !.retired = {}, !.closed = TRUE]
  OBVIOUS
<1>5. hd[att] \in HandleState
  BY <1>2
<1>6. h \in HandleState /\ h.fd = 0 /\ h.retired = {}
  BY <1>4, <1>5 DEF HandleState, NoFd
<1>7. hd' = [hd EXCEPT ![att] = h]
  BY <1>3, <1>4
<1>8. Len(fds) \in Nat
  BY DEF CapInv, CapSockets
<1>9. ASSUME NEW a \in Attempts
      PROVE  hd'[a] \in HandleState /\ hd'[a].fd <= Len(fds) /\ hd'[a].retired \subseteq 1 .. Len(fds)
  BY <1>2, <1>6, <1>7, <1>8
<1>10. hd' \in [Attempts -> HandleState]
  BY <1>2, <1>6, <1>7
<1> QED
  BY <1>1, <1>9, <1>10 DEF CapSockets, CloseHandle, NoFd

\* The world and the bounds.
LEMMA CapWorldStep == ASSUME CapInv, [CaptureNext]_captureVars PROVE CapWorld'
<1> USE CaptureAssumption DEF CapInv, CapWorld
<1>0. UNCHANGED <<nic, hot, ifc, capCnt>> => CapWorld'
  OBVIOUS
<1>1. CASE NetChange
  BY <1>1 DEF NetChange
<1>2. CASE OpenCapture
  BY <1>0, <1>2 DEF OpenCapture
<1>3. CASE OpenFails
  BY <1>0, <1>3 DEF OpenFails
<1>4. CASE OpenFatal
  BY <1>4 DEF OpenFatal
<1>5. CASE RetryOpen
  BY <1>0, <1>5 DEF RetryOpen
<1>6. CASE RunRebound
  <2>1. hd[att] \in HandleState
    BY <1>6 DEF RunRebound, CapPlaces, CapSockets
  <2>2. ifc' = hd[att].ifname /\ UNCHANGED <<nic, hot, capCnt>>
    BY <1>6, Zenon DEF RunRebound
  <2> QED
    BY <2>1, <2>2 DEF HandleState
<1>7. CASE RunFails
  BY <1>0, <1>7 DEF RunFails
<1>8. CASE StopCapture
  BY <1>0, <1>8 DEF StopCapture
<1>9. ASSUME NEW a \in Attempts, Rebinder(a) PROVE CapWorld'
  <2>1. CASE RebinderTick(a)
    BY <1>0, <2>1 DEF RebinderTick
  <2>2. CASE RebinderExit(a)
    BY <1>0, <2>2 DEF RebinderExit
  <2>3. CASE RebinderCheck(a)
    BY <2>3 DEF RebinderCheck
  <2>4. CASE RebinderBind(a)
    BY <1>0, <2>4 DEF RebinderBind
  <2>5. CASE RebinderFails(a)
    BY <1>0, <2>5 DEF RebinderFails
  <2> QED
    BY <1>9, <2>1, <2>2, <2>3, <2>4, <2>5 DEF Rebinder
<1>10. CASE UNCHANGED captureVars
  BY <1>0, <1>10 DEF captureVars
<1> HIDE DEF CapInv, CapWorld
<1> QED
  BY <1>1, <1>2, <1>3, <1>4, <1>5, <1>6, <1>7, <1>8, <1>9, <1>10, Zenon DEF CaptureNext, CaptureLoop

\* Where the loop and the rebinders are.
LEMMA CapPlacesStep == ASSUME CapInv, [CaptureNext]_captureVars PROVE CapPlaces'
<1> USE CaptureAssumption DEF CapInv, CapPlaces, Attempts
<1>0. UNCHANGED <<main, att, rb, target>> => CapPlaces'
  OBVIOUS
<1>1. CASE NetChange
  BY <1>0, <1>1 DEF NetChange
<1>2. CASE OpenCapture
  BY <1>2 DEF OpenCapture
<1>3. CASE OpenFails
  BY <1>3 DEF OpenFails
<1>4. CASE OpenFatal
  BY <1>4 DEF OpenFatal
<1>5. CASE RetryOpen
  BY <1>5 DEF RetryOpen
<1>6. CASE RunRebound
  BY <1>6 DEF RunRebound
<1>7. CASE RunFails
  BY <1>7 DEF RunFails
<1>8. CASE StopCapture
  BY <1>8 DEF StopCapture
<1>9. ASSUME NEW a \in Attempts, Rebinder(a) PROVE CapPlaces'
  <2>1. CASE RebinderTick(a)
    BY <2>1 DEF RebinderTick
  <2>2. CASE RebinderExit(a)
    BY <2>2 DEF RebinderExit
  <2>3. CASE RebinderCheck(a)
    BY <2>3 DEF RebinderCheck, CurrentIface, CapWorld
  <2>4. CASE RebinderBind(a)
    BY <2>4 DEF RebinderBind
  <2>5. CASE RebinderFails(a)
    BY <2>5 DEF RebinderFails
  <2> QED
    BY <1>9, <2>1, <2>2, <2>3, <2>4, <2>5 DEF Rebinder
<1>10. CASE UNCHANGED captureVars
  BY <1>0, <1>10 DEF captureVars
<1> HIDE DEF CapInv, CapPlaces, Attempts
<1> QED
  BY <1>1, <1>2, <1>3, <1>4, <1>5, <1>6, <1>7, <1>8, <1>9, <1>10, Zenon DEF CaptureNext, CaptureLoop

\* A new socket comes at the end of the list and changes no other.
LEMMA SocketAdded ==
  ASSUME CapInv, NEW n \in Iface, nic[n] # 0
  PROVE  /\ NewSocket(n) \in Seq(SocketState) /\ Len(NewSocket(n)) = Len(fds) + 1
         /\ \A s \in 1 .. Len(fds) : NewSocket(n)[s] = fds[s]
         /\ NewSocket(n)[Len(fds) + 1].open
<1>1. nic[n] \in 1 .. MaxNet + 1
  BY CaptureAssumption DEF CapInv, CapWorld
<1>2. [name |-> n, index |-> nic[n], open |-> TRUE] \in SocketState
  BY <1>1 DEF SocketState
<1>3. fds \in Seq(SocketState)
  BY DEF CapInv, CapSockets
<1> QED
  BY <1>2, <1>3 DEF NewSocket

\* Open gives the handle its first socket.
LEMMA OpenStep == ASSUME CapInv, OpenCapture PROVE CapSockets' /\ CapHeld'
<1> USE CaptureAssumption
<1>1. /\ nic[ifc] # 0 /\ ifc \in Iface /\ att + 1 \in Attempts /\ att' = att + 1
      /\ fds' = NewSocket(ifc) /\ held' = Len(fds') /\ main' = "run"
      /\ hd' = [hd EXCEPT ![att'] = [ifname |-> ifc, ifindex |-> nic[ifc], fd |-> Len(fds'),
                                     retired |-> {}, rebound |-> FALSE, closed |-> FALSE]]
  BY DEF OpenCapture, CapInv, CapWorld, CapPlaces, Attempts
<1>2. /\ fds' \in Seq(SocketState) /\ Len(fds') = Len(fds) + 1 /\ fds'[Len(fds) + 1].open
      /\ fds \in Seq(SocketState) /\ hd \in [Attempts -> HandleState]
      /\ \A a \in Attempts : hd[a].fd <= Len(fds) /\ hd[a].retired \subseteq 1 .. Len(fds)
  BY <1>1, SocketAdded DEF CapInv, CapSockets
<1>3. PICK h : h = [ifname |-> ifc, ifindex |-> nic[ifc], fd |-> Len(fds'),
                     retired |-> {}, rebound |-> FALSE, closed |-> FALSE]
  OBVIOUS
<1>4. nic[ifc] \in 0 .. MaxNet + 1
  BY <1>1 DEF CapInv, CapWorld
<1>5. h \in HandleState /\ h.fd = Len(fds) + 1 /\ h.retired = {}
  BY <1>1, <1>2, <1>3, <1>4 DEF HandleState
<1>6. hd' = [hd EXCEPT ![att + 1] = h]
  BY <1>1, <1>3
<1>7. PICK n \in Nat : n = Len(fds)
  BY <1>2
<1>8. ASSUME NEW a \in Attempts
      PROVE  hd'[a] \in HandleState /\ hd'[a].fd <= n + 1 /\ hd'[a].retired \subseteq 1 .. n + 1
  <2>1. CASE a = att + 1
    BY <1>2, <1>5, <1>6, <1>7, <2>1
  <2>2. CASE a # att + 1
    <3>1. hd'[a] = hd[a] /\ hd[a] \in HandleState /\ hd[a].fd <= n /\ hd[a].retired \subseteq 1 .. n
      BY <1>2, <1>6, <1>7, <2>2
    <3> QED
      BY <3>1, <1>7 DEF HandleState
  <2> QED
    BY <2>1, <2>2
<1>9. hd' \in [Attempts -> HandleState]
  BY <1>2, <1>5, <1>6
<1> QED
  BY <1>1, <1>2, <1>7, <1>8, <1>9 DEF CapSockets, CapHeld

\* Rebind adds a socket and retires the old one, open as it is.
LEMMA BindStep == ASSUME CapInv, NEW a \in Attempts, RebinderBind(a) PROVE CapSockets' /\ CapHeld'
<1> USE CaptureAssumption
<1>1. /\ nic[target[a]] # 0 /\ target[a] \in Iface /\ fds' = NewSocket(target[a])
      /\ UNCHANGED <<held, main>>
      /\ hd' = [hd EXCEPT ![a] = [ifname |-> target[a], ifindex |-> nic[target[a]], fd |-> Len(fds'),
                 retired |-> hd[a].retired \union ({hd[a].fd} \ {NoFd}),
                 rebound |-> TRUE, closed |-> hd[a].closed]]
  BY DEF RebinderBind, Swap, CapInv, CapPlaces, CapSockets
<1>2. /\ fds' \in Seq(SocketState) /\ Len(fds') = Len(fds) + 1
      /\ \A s \in 1 .. Len(fds) : fds'[s] = fds[s]
      /\ fds \in Seq(SocketState) /\ hd \in [Attempts -> HandleState]
      /\ \A b \in Attempts : hd[b].fd <= Len(fds) /\ hd[b].retired \subseteq 1 .. Len(fds)
  BY <1>1, SocketAdded DEF CapInv, CapSockets
<1>3. PICK old : old = hd[a].retired \union ({hd[a].fd} \ {NoFd})
  OBVIOUS
<1>4. hd[a] \in HandleState /\ nic[target[a]] \in 0 .. MaxNet + 1
  BY <1>1, <1>2 DEF CapInv, CapWorld
<1>5. old \subseteq 1 .. Len(fds)
  BY <1>2, <1>3, <1>4 DEF HandleState, NoFd
<1>6. PICK h : h = [ifname |-> target[a], ifindex |-> nic[target[a]], fd |-> Len(fds'),
                     retired |-> old, rebound |-> TRUE, closed |-> hd[a].closed]
  OBVIOUS
<1>7. h \in HandleState /\ h.fd = Len(fds) + 1 /\ h.retired = old
  BY <1>1, <1>2, <1>4, <1>5, <1>6 DEF HandleState
<1>8. hd' = [hd EXCEPT ![a] = h]
  BY <1>1, <1>3, <1>6
<1>9. PICK n \in Nat : n = Len(fds)
  BY <1>2
<1>10. ASSUME NEW b \in Attempts
       PROVE  hd'[b] \in HandleState /\ hd'[b].fd <= n + 1 /\ hd'[b].retired \subseteq 1 .. n + 1
  <2>1. CASE b = a
    <3>1. hd'[b] = h
      BY <1>2, <1>8, <2>1
    <3>2. old \subseteq 1 .. n + 1
      BY <1>5, <1>9
    <3>3. hd'[b] \in HandleState /\ hd'[b].retired = old
      BY <1>7, <3>1, Zenon
    <3>4. hd'[b].fd = n + 1
      BY <1>7, <1>9, <3>1, Zenon
    <3> QED
      BY <1>9, <3>2, <3>3, <3>4
  <2>2. CASE b # a
    <3>1. hd'[b] = hd[b] /\ hd[b] \in HandleState /\ hd[b].fd <= n /\ hd[b].retired \subseteq 1 .. n
      BY <1>2, <1>8, <1>9, <2>2
    <3> QED
      BY <3>1, <1>9 DEF HandleState
  <2> QED
    BY <2>1, <2>2
<1>12. hd' \in [Attempts -> HandleState]
  BY <1>2, <1>7, <1>8
<1>13. CapSockets'
  BY <1>2, <1>9, <1>10, <1>12 DEF CapSockets
<1>11. CapHeld'
  BY <1>1, <1>2, <1>9 DEF CapInv, CapHeld
<1> QED
  BY <1>11, <1>13

\* The socket Run reads from stays open until Run has ended.
LEMMA CapSocketsStep == ASSUME CapInv, [CaptureNext]_captureVars PROVE CapSockets' /\ CapHeld'
<1>0. ASSUME UNCHANGED <<hd, fds, held>>, main' = "run" => main = "run" PROVE CapSockets' /\ CapHeld'
  BY <1>0 DEF CapInv, CapSockets, CapHeld
<1>c. ASSUME CloseHandle, main = "run", main' # "run" PROVE CapSockets' /\ CapHeld'
  <2>1. att \in Attempts
    BY <1>c DEF CapInv, CapPlaces
  <2>2. CapSockets' /\ held' = 0
    BY <1>c, <2>1, ClosedHandle
  <2> QED
    BY <1>c, <2>2 DEF CapHeld, CapSockets
<1>1. CASE NetChange
  BY <1>0, <1>1 DEF NetChange
<1>2. CASE OpenCapture
  BY <1>2, OpenStep
<1>3. CASE OpenFails
  BY <1>0, <1>3 DEF OpenFails
<1>4. CASE OpenFatal
  BY <1>0, <1>4 DEF OpenFatal
<1>5. CASE RetryOpen
  BY <1>0, <1>5 DEF RetryOpen
<1>6. CASE RunRebound
  BY <1>c, <1>6 DEF RunRebound
<1>7. CASE RunFails
  BY <1>c, <1>7 DEF RunFails
<1>8. CASE StopCapture
  <2>1. CASE main = "run"
    BY <1>c, <1>8, <2>1 DEF StopCapture
  <2>2. CASE main # "run"
    BY <1>0, <1>8, <2>2 DEF StopCapture
  <2> QED
    BY <2>1, <2>2
<1>9. ASSUME NEW a \in Attempts, Rebinder(a) PROVE CapSockets' /\ CapHeld'
  <2>1. CASE RebinderTick(a)
    BY <1>0, <2>1 DEF RebinderTick
  <2>2. CASE RebinderExit(a)
    BY <1>0, <2>2 DEF RebinderExit
  <2>3. CASE RebinderCheck(a)
    BY <1>0, <2>3 DEF RebinderCheck
  <2>4. CASE RebinderBind(a)
    BY <2>4, BindStep
  <2>5. CASE RebinderFails(a)
    BY <1>0, <2>5 DEF RebinderFails
  <2> QED
    BY <1>9, <2>1, <2>2, <2>3, <2>4, <2>5 DEF Rebinder
<1>10. CASE UNCHANGED captureVars
  BY <1>0, <1>10 DEF captureVars
<1> QED
  BY <1>1, <1>2, <1>3, <1>4, <1>5, <1>6, <1>7, <1>8, <1>9, <1>10, Zenon DEF CaptureNext, CaptureLoop

\* Every step keeps the invariant.
LEMMA CapStep == ASSUME CapInv, [CaptureNext]_captureVars PROVE CapInv'
  BY CapWorldStep, CapPlacesStep, CapSocketsStep DEF CapInv

-----------------------------------------------------------------------------
(* The guard against crash loops.                                          *)

StartPlaces ==
  /\ dmode \in {"down", "probing", "capture", "blind", "crash_loop"} /\ backs \in 0 .. MaxStepsBack
  /\ elapsed \in 0 .. HealthyAfter + IdleFor
\* The starts are in the order of time.
StartOrder ==
  /\ starts \in Seq(0 .. CrashWindow)
  /\ \A i, j \in 1 .. Len(starts) : i < j => starts[j] <= starts[i]
\* The last starts are the last lines of the file, and no line is older than its
\* start: a clock that is set back makes it younger.
StartLines ==
  /\ crashflag \in Seq(Int) /\ Len(starts) <= Len(crashflag)
  /\ \A i \in 1 .. Len(starts) : crashflag[Len(crashflag) - Len(starts) + i] <= starts[i]
\* A start that passed the look at the file still finds room for its line.
StartChecked == dmode = "probing" => Len(starts) < CrashesAllowed
StartInv == StartPlaces /\ StartOrder /\ StartLines /\ CrashBound /\ StartChecked

\* The invariant says what the guard promises.
LEMMA StartTyped == StartInv => StartTypeOK /\ CrashBound
  BY DEF StartInv, StartPlaces, StartOrder, StartLines, StartTypeOK

\* No file yet.
LEMMA StartStart == StartInit => StartInv
<1> SUFFICES ASSUME StartInit PROVE StartInv
  OBVIOUS
<1> USE StartAssumption
<1>1. StartPlaces
  BY DEF StartInit, StartPlaces
<1>2. StartOrder
  BY DEF StartInit, StartOrder
<1>3. StartLines
  BY DEF StartInit, StartLines
<1>4. CrashBound
  BY DEF StartInit, CrashBound
<1>5. StartChecked
  BY DEF StartInit, StartChecked
<1> QED
  BY <1>1, <1>2, <1>3, <1>4, <1>5 DEF StartInv

\* What ageing out leaves is the list from some place on.
LEMMA AgedOutFrom ==
  ASSUME NEW s \in Seq(Int), NEW top \in Int
  PROVE  \E k \in 0 .. Len(s) :
           /\ \A j \in 1 .. k : s[j] > top
           /\ k < Len(s) => s[k + 1] <= top
           /\ AgedOut(s, top) \in Seq(Int) /\ Len(AgedOut(s, top)) = Len(s) - k
           /\ \A i \in 1 .. Len(s) - k : AgedOut(s, top)[i] = s[k + i]
<1>0. PICK n \in Nat : n = Len(s)
  OBVIOUS
<1>d. DOMAIN s = 1 .. n /\ \A i \in 1 .. n : s[i] \in Int
  BY <1>0
<1> DEFINE Young == {i \in 1 .. n : s[i] <= top}
<1>1. \E k \in 0 .. n : (\A j \in 1 .. k : s[j] > top) /\ (k < n => s[k + 1] <= top)
  <2>1. CASE Young = {}
    <3>1. \A j \in 1 .. n : s[j] > top
      BY <1>d, <2>1
    <3> QED
      BY <3>1
  <2>2. CASE Young # {}
    <3>0. Young \in SUBSET Nat
      OBVIOUS
    <3>1. PICK f \in Young : \A y \in Young : f <= y
      BY <2>2, <3>0, LeastOf
    <3>2. f \in 1 .. n /\ s[f] <= top
      OBVIOUS
    <3> HIDE DEF Young
    <3>3. \A j \in 1 .. f - 1 : s[j] > top
      BY <1>d, <3>1, <3>2 DEF Young
    <3>4. f - 1 \in 0 .. n /\ (f - 1) + 1 = f
      BY <3>2
    <3> QED
      BY <3>2, <3>3, <3>4
  <2> QED
    BY <2>1, <2>2
<1> HIDE DEF Young
<1>2. PICK k \in 0 .. n : (\A j \in 1 .. k : s[j] > top) /\ (k < n => s[k + 1] <= top)
  BY <1>1
<1>3. {i \in DOMAIN s : \A j \in 1 .. i : s[j] > top} = 1 .. k
  <2>1. ASSUME NEW i \in 1 .. n, \A j \in 1 .. i : s[j] > top PROVE i \in 1 .. k
    BY <1>2, <1>d, <2>1
  <2>2. ASSUME NEW i \in 1 .. k PROVE i \in 1 .. n /\ \A j \in 1 .. i : s[j] > top
    BY <1>2, <2>2
  <2> QED
    BY <1>d, <2>1, <2>2
<1>4. Cardinality(1 .. k) = k
  BY FS_Interval
<1>5. AgedOut(s, top) = SubSeq(s, k + 1, Len(s))
  BY <1>3, <1>4, Zenon DEF AgedOut
<1>6. k \in 0 .. Len(s)
  BY <1>0
<1> QED
  BY <1>0, <1>2, <1>5, <1>6, SubSeqFrom

\* Ageing adds one to each.
LEMMA OlderEach ==
  ASSUME NEW s \in Seq(Int)
  PROVE  /\ Older(s) \in Seq(Int) /\ Len(Older(s)) = Len(s)
         /\ \A i \in 1 .. Len(s) : Older(s)[i] = s[i] + 1
<1>0. PICK n \in Nat : n = Len(s)
  OBVIOUS
<1>1. DOMAIN s = 1 .. n /\ \A i \in 1 .. n : s[i] \in Int
  BY <1>0
<1>2. Older(s) \in [1 .. n -> Int]
  BY <1>1 DEF Older
<1> QED
  BY <1>0, <1>1, <1>2 DEF Older

\* The invariant, with the lengths named.
LEMMA StartFacts ==
  ASSUME StartInv, NEW m, NEW n, m = Len(crashflag), n = Len(starts)
  PROVE  /\ m \in Nat /\ n \in Nat /\ n <= m /\ n <= CrashesAllowed
         /\ crashflag \in Seq(Int) /\ starts \in Seq(0 .. CrashWindow) /\ starts \in Seq(Int)
         /\ DOMAIN crashflag = 1 .. m /\ \A i \in 1 .. m : crashflag[i] \in Int
         /\ \A i \in 1 .. n : starts[i] \in 0 .. CrashWindow
         /\ \A i \in 1 .. n : starts[i] \in Int /\ starts[i] <= CrashWindow
         /\ \A i \in 1 .. n : m - n + i \in 1 .. m
         /\ \A i \in 1 .. n : crashflag[m - n + i] <= starts[i]
         /\ \A i, j \in 1 .. n : i < j => starts[j] <= starts[i]
<1>1. crashflag \in Seq(Int) /\ starts \in Seq(0 .. CrashWindow) /\ n <= m /\ n <= CrashesAllowed
  BY DEF StartInv, StartOrder, StartLines, CrashBound
<1>2. m \in Nat /\ n \in Nat /\ DOMAIN crashflag = 1 .. m
  BY <1>1
<1>3. \A i \in 1 .. m : crashflag[i] \in Int
  BY <1>1, ElementOfSeq
<1>4. \A i \in 1 .. n : starts[i] \in 0 .. CrashWindow
  BY <1>1, ElementOfSeq
<1>5. \A i \in 1 .. n : starts[i] \in Int /\ starts[i] <= CrashWindow
  BY <1>4, StartAssumption
<1>6. starts \in Seq(Int)
  BY <1>1, StartAssumption, SeqMonotonic, 0 .. CrashWindow \subseteq Int
<1>7. \A i \in 1 .. n : m - n + i \in 1 .. m
  BY <1>1, <1>2
<1>8. \A i \in 1 .. n : crashflag[m - n + i] <= starts[i]
  BY DEF StartInv, StartLines
<1>9. \A i, j \in 1 .. n : i < j => starts[j] <= starts[i]
  BY DEF StartInv, StartOrder
<1> QED
  BY <1>1, <1>2, <1>3, <1>4, <1>5, <1>6, <1>7, <1>8, <1>9, Zenon

\* The starts in the window all have a line that counts.
LEMMA LinesCount == ASSUME StartInv PROVE Len(starts) <= Cardinality({i \in DOMAIN crashflag : RecentLine(crashflag[i])})
<1> DEFINE recent == {i \in DOMAIN crashflag : RecentLine(crashflag[i])}
<1>1. PICK m \in Nat, n \in Nat : m = Len(crashflag) /\ n = Len(starts)
  BY DEF StartInv, StartOrder, StartLines
<1>2. n <= m /\ DOMAIN crashflag = 1 .. m /\ \A i \in 1 .. m : crashflag[i] \in Int
  BY <1>1, StartFacts
<1>3. \A i \in 1 .. n : starts[i] \in Int /\ starts[i] <= CrashWindow /\ crashflag[m - n + i] <= starts[i]
  BY <1>1, StartFacts
<1>4. ASSUME NEW l \in (m - n + 1) .. m PROVE l \in recent
  <2>1. l - (m - n) \in 1 .. n /\ m - n + (l - (m - n)) = l /\ l \in 1 .. m
    BY <1>2
  <2>2. PICK i \in 1 .. n : m - n + i = l
    BY <2>1
  <2>3. crashflag[l] <= starts[i] /\ starts[i] <= CrashWindow /\ starts[i] \in Int /\ crashflag[l] \in Int
    BY <1>2, <1>3, <2>1, <2>2
  <2>4. crashflag[l] <= CrashWindow
    BY <2>3, StartAssumption
  <2> QED
    BY <1>2, <2>1, <2>4 DEF RecentLine
<1>5. IsFiniteSet(recent)
  <2>1. IsFiniteSet(1 .. m)
    BY FS_Interval
  <2> QED
    BY <1>2, <2>1, FS_Subset
<1>6. Cardinality((m - n + 1) .. m) = n
  BY <1>2, FS_Interval
<1>7. Cardinality((m - n + 1) .. m) <= Cardinality(recent)
  BY <1>4, <1>5, FS_Subset
<1> QED
  BY <1>1, <1>6, <1>7

\* Time passes: a start that stays has a line that stays.
LEMMA LaterKeeps == ASSUME StartInv, Later PROVE StartOrder' /\ StartLines' /\ CrashBound' /\ StartChecked'
<1> USE StartAssumption
<1>1. PICK m \in Nat, n \in Nat : m = Len(crashflag) /\ n = Len(starts)
  BY DEF StartInv, StartOrder, StartLines
<1>2. /\ crashflag \in Seq(Int) /\ starts \in Seq(Int) /\ n <= m /\ n <= CrashesAllowed
      /\ \A i \in 1 .. m : crashflag[i] \in Int
      /\ \A i \in 1 .. n : starts[i] \in 0 .. CrashWindow
      /\ \A i \in 1 .. n : starts[i] \in Int /\ starts[i] <= CrashWindow
      /\ \A i \in 1 .. n : m - n + i \in 1 .. m
      /\ \A i \in 1 .. n : crashflag[m - n + i] <= starts[i]
      /\ \A i, j \in 1 .. n : i < j => starts[j] <= starts[i]
  BY <1>1, StartFacts
<1>3. LastCounts \in Int /\ CrashWindow <= LastCounts /\ CrashWindow \in Int
  <2>1. MaxStepsBack - backs \in Nat /\ StepBack \in Nat
    BY DEF StartInv, StartPlaces
  <2>2. (MaxStepsBack - backs) * StepBack \in Nat
    BY <2>1
  <2> QED
    BY <2>2 DEF LastCounts
<1>4. /\ Older(crashflag) \in Seq(Int) /\ Len(Older(crashflag)) = m
      /\ \A i \in 1 .. m : Older(crashflag)[i] = crashflag[i] + 1
      /\ Older(starts) \in Seq(Int) /\ Len(Older(starts)) = n
      /\ \A i \in 1 .. n : Older(starts)[i] = starts[i] + 1
  BY <1>1, <1>2, OlderEach
<1>5. PICK c : c = crashflag'
  OBVIOUS
<1>6. PICK t : t = starts'
  OBVIOUS
<1>7. c = AgedOut(Older(crashflag), LastCounts) /\ t = AgedOut(Older(starts), CrashWindow)
  BY <1>5, <1>6 DEF Later
<1>8. PICK k \in 0 .. m : /\ \A j \in 1 .. k : Older(crashflag)[j] > LastCounts
                          /\ c \in Seq(Int) /\ Len(c) = m - k
                          /\ \A i \in 1 .. m - k : c[i] = Older(crashflag)[k + i]
  BY <1>3, <1>4, <1>7, AgedOutFrom
<1>9. PICK l \in 0 .. n : /\ \A j \in 1 .. l : Older(starts)[j] > CrashWindow
                          /\ l < n => Older(starts)[l + 1] <= CrashWindow
                          /\ t \in Seq(Int) /\ Len(t) = n - l
                          /\ \A i \in 1 .. n - l : t[i] = Older(starts)[l + i]
  BY <1>3, <1>4, <1>7, AgedOutFrom
<1>10. ASSUME NEW i \in 1 .. n - l PROVE t[i] = starts[l + i] + 1 /\ l + i \in 1 .. n
  <2>1. l + i \in 1 .. n
    OBVIOUS
  <2> QED
    BY <1>4, <1>9, <2>1
<1>11. \A i \in 1 .. n - l : t[i] \in 0 .. CrashWindow
  <2> TAKE i \in 1 .. n - l
  <2>1. starts[l + 1] + 1 <= CrashWindow /\ l + 1 \in 1 .. n
    BY <1>4, <1>9
  <2>2. t[i] = starts[l + i] + 1 /\ l + i \in 1 .. n
    BY <1>10
  <2>3. starts[l + i] \in 0 .. CrashWindow /\ starts[l + 1] \in 0 .. CrashWindow
    BY <1>2, <2>1, <2>2
  <2>4. starts[l + i] <= starts[l + 1]
    BY <1>2, <2>1, <2>2, <2>3
  <2> QED
    BY <2>1, <2>2, <2>3, <2>4
<1>12. \A i, j \in 1 .. n - l : i < j => t[j] <= t[i]
  <2> SUFFICES ASSUME NEW i \in 1 .. n - l, NEW j \in 1 .. n - l, i < j PROVE t[j] <= t[i]
    OBVIOUS
  <2>1. l + i < l + j /\ l + i \in 1 .. n /\ l + j \in 1 .. n
    OBVIOUS
  <2>2. PICK a \in 1 .. n, b \in 1 .. n : a = l + i /\ b = l + j
    BY <2>1
  <2>3. starts[b] <= starts[a] /\ starts[b] \in Int /\ starts[a] \in Int
    BY <1>2, <2>1, <2>2
  <2>4. t[i] = starts[a] + 1 /\ t[j] = starts[b] + 1
    BY <1>10, <2>2
  <2> QED
    BY <2>3, <2>4
<1>13. t \in Seq(0 .. CrashWindow)
  <2>1. t \in [1 .. n - l -> 0 .. CrashWindow]
    BY <1>9, <1>11
  <2> QED
    BY <2>1
<1>14. n - l <= m - k
  <2>1. CASE l = n
    BY <2>1
  <2>2. CASE l < n
    <3>1. l + 1 \in 1 .. n /\ m - n + (l + 1) \in 1 .. m
      BY <1>2, <2>2
    <3>2. PICK a \in 1 .. n, p \in 1 .. m : a = l + 1 /\ p = m - n + a
      BY <3>1
    <3>3. crashflag[p] <= starts[a] /\ crashflag[p] \in Int /\ starts[a] \in Int
      BY <1>2, <3>2
    <3>4. Older(starts)[a] <= CrashWindow /\ Older(starts)[a] = starts[a] + 1
      BY <1>4, <1>9, <2>2, <3>2
    <3>5. Older(crashflag)[p] = crashflag[p] + 1
      BY <1>4
    <3>6. Older(crashflag)[p] <= LastCounts /\ Older(crashflag)[p] \in Int
      BY <1>3, <3>3, <3>4, <3>5
    <3>7. ~(p <= k)
      BY <1>3, <1>8, <3>6
    <3> QED
      BY <3>2, <3>7
  <2> QED
    BY <2>1, <2>2
<1>15. \A i \in 1 .. n - l : c[(m - k) - (n - l) + i] <= t[i]
  <2> TAKE i \in 1 .. n - l
  <2>1. (m - k) - (n - l) + i \in 1 .. m - k /\ k + ((m - k) - (n - l) + i) = m - n + (l + i)
    BY <1>14
  <2>2. m - n + (l + i) \in 1 .. m /\ l + i \in 1 .. n
    BY <1>2
  <2>3. c[(m - k) - (n - l) + i] = crashflag[m - n + (l + i)] + 1
    BY <1>4, <1>8, <2>1, <2>2
  <2>4. PICK a \in 1 .. n, p \in 1 .. m : a = l + i /\ p = m - n + a
    BY <2>2
  <2>5. crashflag[p] <= starts[a] /\ starts[a] \in Int /\ crashflag[p] \in Int
    BY <1>2, <2>4
  <2>6. t[i] = starts[a] + 1 /\ c[(m - k) - (n - l) + i] = crashflag[p] + 1
    BY <1>10, <2>3, <2>4
  <2> QED
    BY <2>5, <2>6
<1>16. StartOrder'
  BY <1>6, <1>9, <1>12, <1>13 DEF StartOrder
<1>17. StartLines'
  BY <1>5, <1>6, <1>8, <1>9, <1>14, <1>15 DEF StartLines
<1>18. CrashBound'
  BY <1>2, <1>6, <1>9 DEF CrashBound
<1>19. StartChecked'
  <2>1. dmode' = dmode /\ (dmode = "probing" => n < CrashesAllowed)
    BY <1>1 DEF Later, StartInv, StartChecked
  <2>2. n - l <= n /\ Len(starts') = n - l
    BY <1>6, <1>9
  <2> QED
    BY <2>1, <2>2 DEF StartChecked
<1> QED
  BY <1>16, <1>17, <1>18, <1>19

\* checkCrashLoop: a start that may go on finds room for its line.
LEMMA CheckCounts == ASSUME StartInv, NoLoop PROVE Len(starts) < CrashesAllowed
<1>1. PICK m \in Nat : m = Len(crashflag)
  BY DEF StartInv, StartLines
<1>2. DOMAIN crashflag = 1 .. m
  BY <1>1 DEF StartInv, StartLines
<1>3. IsFiniteSet(1 .. m)
  BY FS_Interval
<1>4. IsFiniteSet({i \in DOMAIN crashflag : RecentLine(crashflag[i])})
  BY <1>2, <1>3, FS_Subset
<1>5. Cardinality({i \in DOMAIN crashflag : RecentLine(crashflag[i])}) \in Nat
  BY <1>4, FS_CardinalityType
<1>6. Len(starts) \in Nat
  BY DEF StartInv, StartOrder
<1> QED
  BY <1>5, <1>6, LinesCount, StartAssumption DEF NoLoop

\* armCrashFlag: one start, one line.
LEMMA ArmKeeps == ASSUME StartInv, dmode = "probing", Arm PROVE StartOrder' /\ StartLines' /\ CrashBound'
<1> USE StartAssumption
<1>1. PICK m \in Nat, n \in Nat : m = Len(crashflag) /\ n = Len(starts)
  BY DEF StartInv, StartOrder, StartLines
<1>2. /\ crashflag \in Seq(Int) /\ starts \in Seq(0 .. CrashWindow) /\ n <= m
      /\ \A i \in 1 .. n : starts[i] \in 0 .. CrashWindow
      /\ \A i \in 1 .. n : crashflag[m - n + i] <= starts[i]
      /\ \A i, j \in 1 .. n : i < j => starts[j] <= starts[i]
  BY <1>1, StartFacts
<1>3. n + 1 <= CrashesAllowed
  BY <1>1 DEF StartInv, StartChecked
<1>4. PICK c : c = crashflag' /\ c = Append(crashflag, 0)
  BY DEF Arm
<1>5. PICK t : t = starts' /\ t = Append(starts, 0)
  BY DEF Arm
<1>6. c \in Seq(Int) /\ Len(c) = m + 1 /\ c[m + 1] = 0 /\ \A i \in 1 .. m : c[i] = crashflag[i]
  BY <1>1, <1>2, <1>4
<1>7. t \in Seq(0 .. CrashWindow) /\ Len(t) = n + 1 /\ t[n + 1] = 0 /\ \A i \in 1 .. n : t[i] = starts[i]
  BY <1>1, <1>2, <1>5
<1>8. ASSUME NEW i \in 1 .. n + 1, NEW j \in 1 .. n + 1, i < j PROVE t[j] <= t[i]
  <2>1. i \in 1 .. n
    BY <1>8
  <2>2. t[i] = starts[i] /\ starts[i] \in 0 .. CrashWindow
    BY <1>2, <1>7, <2>1
  <2>3. CASE j = n + 1
    BY <1>7, <2>2, <2>3
  <2>4. CASE j \in 1 .. n
    BY <1>2, <1>7, <1>8, <2>1, <2>2, <2>4
  <2> QED
    BY <2>3, <2>4
<1>9. \A i \in 1 .. n + 1 : c[(m + 1) - (n + 1) + i] <= t[i]
  <2> TAKE i \in 1 .. n + 1
  <2>1. CASE i = n + 1
    <3>1. (m + 1) - (n + 1) + i = m + 1
      BY <2>1
    <3> QED
      BY <1>6, <1>7, <2>1, <3>1
  <2>2. CASE i # n + 1
    <3>0. i \in 1 .. n
      BY <2>2
    <3>1. (m + 1) - (n + 1) + i = m - n + i /\ m - n + i \in 1 .. m /\ i \in 1 .. n
      <4>1. n <= m
        BY <1>2
      <4> QED
        BY <3>0, <4>1
    <3> QED
      BY <1>2, <1>6, <1>7, <3>1
  <2> QED
    BY <2>1, <2>2
<1>10. StartOrder'
  BY <1>5, <1>7, <1>8 DEF StartOrder
<1>11. StartLines'
  <2>1. n + 1 <= m + 1
    BY <1>2
  <2> QED
    BY <1>4, <1>5, <1>6, <1>7, <1>9, <2>1 DEF StartLines
<1>12. CrashBound'
  BY <1>3, <1>5, <1>7 DEF CrashBound
<1> QED
  BY <1>10, <1>11, <1>12

\* A removed file forgets starts and lines together.
LEMMA ClearKeeps == ASSUME ClearFlag PROVE StartOrder' /\ StartLines' /\ CrashBound'
  BY StartAssumption DEF ClearFlag, StartOrder, StartLines, CrashBound

\* A clock that is set back makes lines younger.
LEMMA BackKeeps == ASSUME StartInv, ClockBack PROVE StartOrder' /\ StartLines' /\ CrashBound' /\ StartChecked'
<1>1. PICK m \in Nat : m = Len(crashflag)
  BY DEF StartInv, StartLines
<1>2. DOMAIN crashflag = 1 .. m /\ \A i \in 1 .. m : crashflag[i] \in Int
  BY <1>1 DEF StartInv, StartLines
<1>3. crashflag' = [i \in 1 .. m |-> crashflag[i] - StepBack] /\ starts' = starts
  BY <1>2 DEF ClockBack
<1>4. crashflag' \in [1 .. m -> Int]
  BY <1>2, <1>3, StartAssumption
<1>5. crashflag' \in Seq(Int) /\ Len(crashflag') = m
  BY <1>4
<1>6. PICK n \in Nat : n = Len(starts)
  BY DEF StartInv, StartOrder
<1>7. /\ n <= m /\ \A i \in 1 .. n : starts[i] \in Int /\ m - n + i \in 1 .. m
      /\ \A i \in 1 .. n : crashflag[m - n + i] <= starts[i]
  BY <1>1, <1>6, StartFacts
<1>9. ASSUME NEW i \in 1 .. n PROVE crashflag'[m - n + i] <= starts[i]
  <2>1. PICK p \in 1 .. m : p = m - n + i
    BY <1>7
  <2>2. crashflag[p] <= starts[i] /\ crashflag[p] \in Int /\ starts[i] \in Int
    BY <1>2, <1>7, <2>1
  <2> QED
    BY <1>3, <2>1, <2>2, StartAssumption
<1>10. StartChecked'
  BY <1>3 DEF ClockBack, StartInv, StartChecked
<1> QED
  BY <1>3, <1>5, <1>6, <1>7, <1>9, <1>10 DEF StartInv, StartOrder, StartLines, CrashBound

\* Modes, clock steps and timers keep their ranges.
LEMMA StartPlacesStep == ASSUME StartInv, [StartNext]_startVars PROVE StartPlaces'
<1> USE StartAssumption DEF StartInv, StartPlaces
<1>1. CASE StartDpid
  BY <1>1 DEF StartDpid
<1>2. CASE DpidCrash
  BY <1>2 DEF DpidCrash
<1>3. CASE Healthy
  BY <1>3 DEF Healthy
<1>4. CASE NewAttempt
  BY <1>4 DEF NewAttempt
<1>5. CASE CaptureFails
  BY <1>5 DEF CaptureFails
<1>6. CASE SignalExit
  BY <1>6 DEF SignalExit
<1>7. CASE IdleEnds
  BY <1>7 DEF IdleEnds
<1>8. CASE Later
  BY <1>8 DEF Later
<1>9. CASE ClockBack
  BY <1>9 DEF ClockBack
<1>10. CASE UNCHANGED startVars
  BY <1>10 DEF startVars
<1>11. CASE ArmDpid
  BY <1>11 DEF ArmDpid
<1> HIDE DEF StartInv, StartPlaces
<1> QED
  BY <1>1, <1>2, <1>3, <1>4, <1>5, <1>6, <1>7, <1>8, <1>9, <1>10, <1>11, Zenon DEF StartNext

\* Every step keeps the invariant.
LEMMA StartStep == ASSUME StartInv, [StartNext]_startVars PROVE StartInv'
<1> SUFFICES StartOrder' /\ StartLines' /\ CrashBound' /\ StartChecked'
  BY StartPlacesStep DEF StartInv
<1>0. UNCHANGED <<crashflag, starts>> => StartOrder' /\ StartLines' /\ CrashBound'
  BY DEF StartInv, StartOrder, StartLines, CrashBound
<1>c. dmode' # "probing" => StartChecked'
  BY DEF StartChecked
<1>1. CASE StartDpid
  <2>1. UNCHANGED <<crashflag, starts>> /\ (dmode' = "probing" => NoLoop)
    BY <1>1 DEF StartDpid
  <2>2. StartChecked'
    BY <2>1, CheckCounts DEF StartChecked
  <2> QED
    BY <1>0, <2>1, <2>2
<1>2. CASE DpidCrash
  BY <1>0, <1>c, <1>2 DEF DpidCrash
<1>3. CASE Healthy
  BY <1>3, <1>c, ClearKeeps DEF Healthy
<1>4. CASE NewAttempt
  BY <1>0, <1>c, <1>4 DEF NewAttempt
<1>5. CASE CaptureFails
  BY <1>5, <1>c, ClearKeeps DEF CaptureFails
<1>6. CASE SignalExit
  BY <1>0, <1>c, <1>6, ClearKeeps DEF SignalExit
<1>7. CASE IdleEnds
  BY <1>0, <1>c, <1>7 DEF IdleEnds
<1>8. CASE Later
  BY <1>8, LaterKeeps
<1>9. CASE ClockBack
  BY <1>9, BackKeeps
<1>10. CASE UNCHANGED startVars
  BY <1>0, <1>10 DEF startVars, StartInv, StartChecked
<1>11. CASE ArmDpid
  BY <1>0, <1>c, <1>11, ArmKeeps DEF ArmDpid
<1> QED
  BY <1>1, <1>2, <1>3, <1>4, <1>5, <1>6, <1>7, <1>8, <1>9, <1>10, <1>11, Zenon DEF StartNext

-----------------------------------------------------------------------------
(* Sequence numbers that wrap.                                             *)

\* What % is.
LEMMA ModIs ==
  ASSUME NEW M \in Nat \ {0}, NEW q \in Nat, NEW r \in 0 .. M - 1
  PROVE  (q * M + r) % M = r
<1>1. PICK x \in Nat : x = q * M + r
  OBVIOUS
<1>2. x % M = r
  BY <1>1
<1> QED
  BY <1>1, <1>2

\* Every number is a multiple and a rest.
LEMMA ModSplits ==
  ASSUME NEW M \in Nat \ {0}, NEW x \in Nat
  PROVE  \E q \in Nat : x = q * M + (x % M) /\ x % M \in 0 .. M - 1
<1> DEFINE T == {r \in Nat : \E q \in Nat : x = q * M + r}
<1>1. x \in T
  <2>1. x = 0 * M + x
    OBVIOUS
  <2> QED
    BY <2>1
<1>2. PICK r \in T : \A t \in T : r <= t
  BY <1>1, LeastOf
<1>3. PICK q \in Nat : x = q * M + r
  BY <1>2
<1>4. r \in Nat
  BY <1>2
<1>5. r < M
  <2> SUFFICES ASSUME r >= M PROVE FALSE
    BY <1>4
  <2>1. r - M \in Nat /\ x = (q + 1) * M + (r - M) /\ q + 1 \in Nat
    BY <1>3, <1>4
  <2>2. r - M \in T
    BY <2>1
  <2>3. r <= r - M
    BY <1>2, <2>2
  <2> QED
    BY <1>4, <2>3
<1>6. r \in 0 .. M - 1
  BY <1>4, <1>5
<1>7. x % M = r
  BY <1>3, <1>6, ModIs
<1> QED
  BY <1>3, <1>6, <1>7

\* Two numbers less than M apart: their rests differ, and tell how far.
LEMMA ModApart ==
  ASSUME NEW M \in Nat \ {0}, NEW x \in Nat, NEW y \in Nat, x < y, y - x < M
  PROVE  x % M # y % M /\ ((y % M) + M - (x % M)) % M = y - x
<1>1. PICK q \in Nat, r \in 0 .. M - 1 : x = q * M + r /\ r = x % M
  BY ModSplits
<1>2. PICK p \in Nat, t \in 0 .. M - 1 : y = p * M + t /\ t = y % M
  BY ModSplits
<1>3. (p - q) * M = (y - x) - (t - r)
  <2>1. (p - q) * M = p * M - q * M
    OBVIOUS
  <2>2. p * M \in Int /\ q * M \in Int
    OBVIOUS
  <2>3. x = q * M + r /\ y = p * M + t
    BY <1>1, <1>2
  <2> QED
    BY <2>1, <2>2, <2>3
<1>4. p - q < 2
  <2> SUFFICES ASSUME p - q >= 2 PROVE FALSE
    OBVIOUS
  <2>1. (p - q) * M >= 2 * M
    OBVIOUS
  <2> QED
    BY <1>3, <2>1
<1>5. p - q > -1
  <2> SUFFICES ASSUME p - q <= -1 PROVE FALSE
    OBVIOUS
  <2>1. (p - q) * M <= -M
    OBVIOUS
  <2> QED
    BY <1>3, <2>1
<1>6. CASE p - q = 0
  <2>1. y - x = t - r
    BY <1>3, <1>6
  <2>2. t + M - r = 1 * M + (y - x) /\ y - x \in 0 .. M - 1
    BY <2>1
  <2>3. (t + M - r) % M = y - x
    BY <2>2, ModIs
  <2>4. t # r
    BY <2>1
  <2> QED
    BY <1>1, <1>2, <2>3, <2>4, Zenon
<1>7. CASE p - q = 1
  <2>1. y - x = t + M - r
    BY <1>3, <1>7
  <2>2. t + M - r = 0 * M + (y - x) /\ y - x \in 0 .. M - 1
    BY <2>1
  <2>3. (t + M - r) % M = y - x
    BY <2>2, ModIs
  <2>4. t # r
    BY <2>1
  <2> QED
    BY <1>1, <1>2, <2>3, <2>4, Zenon
<1> QED
  BY <1>4, <1>5, <1>6, <1>7

\* Adding to the rest is adding to the number.
LEMMA ModAdds ==
  ASSUME NEW M \in Nat \ {0}, NEW x \in Nat, NEW k \in Nat
  PROVE  ((x % M) + k) % M = (x + k) % M
<1>1. PICK q \in Nat, r \in 0 .. M - 1 : x = q * M + r /\ r = x % M
  BY ModSplits
<1>2. PICK p \in Nat, t \in 0 .. M - 1 : r + k = p * M + t /\ t = (r + k) % M
  BY <1>1, ModSplits, r + k \in Nat
<1>3. x + k = (q + p) * M + t /\ q + p \in Nat
  <2>1. (q + p) * M = q * M + p * M
    OBVIOUS
  <2>2. p * M \in Int /\ q * M \in Int
    OBVIOUS
  <2>3. x = q * M + r /\ r + k = p * M + t
    BY <1>1, <1>2
  <2> QED
    BY <2>1, <2>2, <2>3
<1>4. (x + k) % M = t
  BY <1>3, ModIs
<1> QED
  BY <1>1, <1>2, <1>4

-----------------------------------------------------------------------------
(* ClientHello over TCP.                                                   *)

AsmState == [next : 0 .. SeqSpace - 1, data : Seq(Nat), first : 0 .. MaxTlsTime]
\* An entry holds the first bytes of its stream, each in its place, and the
\* sequence number it waits for is that of the byte after them.
TlsHeld(e, c) ==
  /\ e \in AsmState /\ e.data = Part(0, Len(e.data))
  /\ Len(e.data) < TLen[c]
  /\ e.data # <<>> => e.next = (Isn[c] + Len(e.data)) % SeqSpace /\ TLen[c] <= TlsMaxBytes
TlsTable == asm \in [TConn -> AsmState] /\ \A c \in TConn : TlsHeld(asm[c], c)
TlsLimit == IsFiniteSet(Holding(asm)) /\ Cardinality(Holding(asm)) <= TlsMaxEntries
TlsGhost == order \in [TConn -> Nat] /\ \A c \in TConn : order[c] > 0 => Len(asm[c].data) = order[c]
TlsRest ==
  /\ tlsClk \in 0 .. MaxTlsTime /\ tlsSweep \in 0 .. MaxTlsTime
  /\ tlsTold \in [TConn -> [n : 0 .. MaxTold, bytes : SUBSET Nat]]
TlsInv == TlsTable /\ TlsLimit /\ TlsGhost /\ TlsRest

\* Bytes of the stream from some place on.
LEMMA PartFacts ==
  ASSUME NEW b \in Nat, NEW n \in Nat
  PROVE  /\ Part(b, n) \in Seq(Nat) /\ Len(Part(b, n)) = n
         /\ \A i \in 1 .. n : Part(b, n)[i] = b + i - 1
<1>1. Part(b, n) \in [1 .. n -> Nat]
  BY DEF Part
<1> QED
  BY <1>1 DEF Part

\* Nothing is no bytes.
LEMMA PartNone == Part(0, 0) = <<>> /\ \A n \in Nat \ {0} : Part(0, n) # <<>>
<1>1. Len(Part(0, 0)) = 0 /\ Part(0, 0) \in Seq(Nat)
  BY PartFacts
<1>2. Part(0, 0) = <<>>
  BY <1>1
<1>3. ASSUME NEW n \in Nat \ {0} PROVE Part(0, n) # <<>>
  <2>1. Len(Part(0, n)) = n
    BY PartFacts
  <2>2. Len(<<>>) = 0
    OBVIOUS
  <2> QED
    BY <2>1, <2>2
<1> QED
  BY <1>2, <1>3

\* What follows continues.
LEMMA PartJoins ==
  ASSUME NEW n \in Nat, NEW k \in Nat
  PROVE  Part(0, n) \o Part(n, k) = Part(0, n + k)
<1>1. /\ Part(0, n) \in Seq(Nat) /\ Len(Part(0, n)) = n /\ \A i \in 1 .. n : Part(0, n)[i] = 0 + i - 1
      /\ Part(n, k) \in Seq(Nat) /\ Len(Part(n, k)) = k /\ \A i \in 1 .. k : Part(n, k)[i] = n + i - 1
  BY PartFacts
<1>2. /\ Part(0, n + k) \in Seq(Nat) /\ Len(Part(0, n + k)) = n + k
      /\ \A i \in 1 .. n + k : Part(0, n + k)[i] = 0 + i - 1
  BY PartFacts, n + k \in Nat
<1>3. PICK s : s = Part(0, n) \o Part(n, k)
  OBVIOUS
<1>4. s \in Seq(Nat) /\ Len(s) = n + k
  <2>1. PICK u \in Seq(Nat) : u = Part(0, n)
    BY <1>1
  <2>2. PICK v \in Seq(Nat) : v = Part(n, k)
    BY <1>1
  <2>3. u \o v \in Seq(Nat) /\ Len(u \o v) = Len(u) + Len(v)
    BY ConcatProperties
  <2> QED
    BY <1>1, <1>3, <2>1, <2>2, <2>3
<1>5. ASSUME NEW i \in 1 .. n + k PROVE s[i] = Part(0, n + k)[i]
  <2>1. CASE i <= n
    <3>1. s[i] = Part(0, n)[i]
      BY <1>1, <1>3, <2>1
    <3> QED
      BY <1>1, <1>2, <2>1, <3>1
  <2>2. CASE i > n
    <3>1. s[i] = Part(n, k)[i - n] /\ i - n \in 1 .. k
      BY <1>1, <1>3, <2>2
    <3> QED
      BY <1>1, <1>2, <2>2, <3>1
  <2> QED
    BY <2>1, <2>2
<1>6. s = Part(0, n + k)
  BY <1>2, <1>4, <1>5, SeqEqual
<1> QED
  BY <1>3, <1>6

\* The first n bytes are in their place.
LEMMA PartInPlace == ASSUME NEW n \in Nat PROVE InPlace(Part(0, n)) = 0 .. n - 1
<1>1. Len(Part(0, n)) = n /\ \A i \in 1 .. n : Part(0, n)[i] = 0 + i - 1
  BY PartFacts
<1>2. \A o \in 0 .. n - 1 : Part(0, n)[o + 1] = o
  BY <1>1
<1> QED
  BY <1>1, <1>2 DEF InPlace

\* What a connection holds.
LEMMA HeldBytes ==
  ASSUME TlsTable, NEW c \in TConn
  PROVE  /\ asm[c] \in AsmState /\ Len(asm[c].data) \in Nat
         /\ asm[c].data = Part(0, Len(asm[c].data)) /\ InPlace(asm[c].data) = 0 .. Len(asm[c].data) - 1
         /\ Len(asm[c].data) < TLen[c] /\ Len(asm[c].data) <= TlsMaxBytes
         /\ asm[c].data # <<>> <=> Len(asm[c].data) > 0
         /\ asm[c].data # <<>> => asm[c].next = (Isn[c] + Len(asm[c].data)) % SeqSpace /\ TLen[c] <= TlsMaxBytes
<1>1. TlsHeld(asm[c], c)
  BY DEF TlsTable
<1>2. asm[c] \in AsmState /\ asm[c].data \in Seq(Nat)
  BY <1>1 DEF TlsHeld, AsmState
<1>3. Len(asm[c].data) \in Nat
  BY <1>2
<1>4. InPlace(asm[c].data) = 0 .. Len(asm[c].data) - 1
  BY <1>1, <1>3, PartInPlace, Zenon DEF TlsHeld
<1>5. asm[c].data # <<>> <=> Len(asm[c].data) > 0
  BY <1>2
<1>6. TLen[c] \in Nat /\ TlsMaxBytes \in Nat
  BY TlsAssumption
<1>7. Len(asm[c].data) <= TlsMaxBytes
  BY <1>1, <1>3, <1>5, <1>6 DEF TlsHeld
<1> QED
  BY <1>1, <1>2, <1>3, <1>4, <1>5, <1>7 DEF TlsHeld

\* No entry.
LEMMA NoneHeld ==
  ASSUME NEW c \in TConn
  PROVE  TlsHeld(NoAsm, c) /\ NoAsm \in AsmState /\ NoAsm.data = <<>> /\ Len(NoAsm.data) = 0
<1>1. NoAsm.data = <<>> /\ Len(NoAsm.data) = 0 /\ NoAsm.data \in Seq(Nat)
  BY DEF NoAsm
<1>2. SeqSpace \in Nat /\ SeqSpace > 0 /\ TLen[c] > 0 /\ TlsMaxBytes \in Nat /\ MaxTlsTime \in Nat
  BY TlsAssumption
<1>3. NoAsm \in AsmState
  BY <1>1, <1>2 DEF NoAsm, AsmState
<1> QED
  BY <1>1, <1>2, <1>3, PartNone DEF TlsHeld

\* Removing entries.
LEMMA WithoutFacts ==
  ASSUME NEW t \in [TConn -> AsmState], NEW gone
  PROVE  /\ AsmWithout(t, gone) \in [TConn -> AsmState]
         /\ \A c \in TConn : AsmWithout(t, gone)[c] = IF c \in gone THEN NoAsm ELSE t[c]
         /\ Holding(AsmWithout(t, gone)) = Holding(t) \ gone
<1>1. \A c \in TConn : NoAsm \in AsmState /\ NoAsm.data = <<>>
  BY NoneHeld
<1> QED
  BY <1>1 DEF AsmWithout, Holding

\* MakeRoom removes entries until one more fits.
LEMMA RoomFacts ==
  ASSUME TlsInv, NEW c \in TConn, NEW r \in MakeRoom(c)
  PROVE  /\ r.rows \in [TConn -> AsmState] /\ \A d \in TConn : r.rows[d] \in {asm[d], NoAsm}
         /\ r.at \in {tlsClk, tlsSweep}
         /\ IsFiniteSet(Holding(r.rows) \cup {c}) /\ Cardinality(Holding(r.rows) \cup {c}) <= TlsMaxEntries
<1> DEFINE swept == tlsClk - tlsSweep > TlsTTL
           t1 == AsmWithout(asm, IF swept THEN Stale ELSE {})
           full == c \notin Holding(t1) /\ Cardinality(Holding(t1)) >= TlsMaxEntries
           t2 == AsmWithout(t1, IF full THEN Stale ELSE {})
           over == full /\ Cardinality(Holding(t2)) >= TlsMaxEntries
           oldest == {d \in Holding(t2) : \A o \in Holding(t2) : t2[d].first <= t2[o].first}
<1>1. PICK v \in (IF over THEN oldest ELSE {c}) :
        r = [rows |-> AsmWithout(t2, IF over THEN {v} ELSE {}), at |-> IF swept \/ full THEN tlsClk ELSE tlsSweep]
  BY Zenon DEF MakeRoom
<1>2. asm \in [TConn -> AsmState] /\ IsFiniteSet(Holding(asm)) /\ Cardinality(Holding(asm)) <= TlsMaxEntries
  BY DEF TlsInv, TlsTable, TlsLimit
<1>3. PICK g1 : g1 = IF swept THEN Stale ELSE {}
  OBVIOUS
<1>4. /\ t1 \in [TConn -> AsmState] /\ Holding(t1) = Holding(asm) \ g1
      /\ \A d \in TConn : t1[d] \in {asm[d], NoAsm}
  BY <1>2, <1>3, WithoutFacts
<1> HIDE DEF swept, t1
<1>5. PICK g2 : g2 = IF full THEN Stale ELSE {}
  OBVIOUS
<1>6. /\ t2 \in [TConn -> AsmState] /\ Holding(t2) = Holding(t1) \ g2
      /\ \A d \in TConn : t2[d] \in {t1[d], NoAsm}
  BY <1>4, <1>5, WithoutFacts
<1>6a. ~full => Holding(t2) = Holding(t1)
  <2>1. ~full => g2 = {}
    BY <1>5
  <2> HIDE DEF t2, full
  <2> QED
    BY <1>6, <2>1
<1>7. v \in oldest => v \in Holding(t2)
  OBVIOUS
<1> HIDE DEF t2, oldest
<1>8. PICK g3 : g3 = IF over THEN {v} ELSE {}
  OBVIOUS
<1>9. r.rows = AsmWithout(t2, g3) /\ r.at \in {tlsClk, tlsSweep}
  BY <1>1, <1>8
<1>10. /\ r.rows \in [TConn -> AsmState] /\ Holding(r.rows) = Holding(t2) \ g3
       /\ \A d \in TConn : r.rows[d] \in {t2[d], NoAsm}
  BY <1>6, <1>9, WithoutFacts
<1>11. \A d \in TConn : r.rows[d] \in {asm[d], NoAsm}
  BY <1>4, <1>6, <1>10
<1>12. /\ IsFiniteSet(Holding(t1)) /\ Cardinality(Holding(t1)) <= TlsMaxEntries
       /\ IsFiniteSet(Holding(t2)) /\ Cardinality(Holding(t2)) <= TlsMaxEntries
       /\ Cardinality(Holding(t1)) \in Nat /\ Cardinality(Holding(t2)) \in Nat
  <2>1. IsFiniteSet(Holding(t1)) /\ Cardinality(Holding(t1)) <= Cardinality(Holding(asm))
    BY <1>2, <1>4, FS_Subset, Holding(t1) \in SUBSET Holding(asm)
  <2>2. IsFiniteSet(Holding(t2)) /\ Cardinality(Holding(t2)) <= Cardinality(Holding(t1))
    BY <2>1, <1>6, FS_Subset, Holding(t2) \in SUBSET Holding(t1)
  <2>3. Cardinality(Holding(asm)) \in Nat /\ Cardinality(Holding(t1)) \in Nat /\ Cardinality(Holding(t2)) \in Nat
    BY <1>2, <2>1, <2>2, FS_CardinalityType
  <2>4. TlsMaxEntries \in Nat
    BY TlsAssumption
  <2> QED
    BY <1>2, <2>1, <2>2, <2>3, <2>4
<1>13. TlsMaxEntries \in Nat
  BY TlsAssumption
<1>14. IsFiniteSet(Holding(r.rows) \cup {c}) /\ Cardinality(Holding(r.rows) \cup {c}) <= TlsMaxEntries
  <2>1. CASE c \in Holding(t1)
    <3>1. ~full /\ ~over
      BY <2>1
    <3>2. Holding(r.rows) \cup {c} = Holding(t1)
      BY <1>6, <1>6a, <1>8, <1>10, <2>1, <3>1
    <3> QED
      BY <1>12, <3>2
  <2>2. CASE c \notin Holding(t1) /\ ~over
    <3>1. Holding(r.rows) = Holding(t2) /\ c \notin Holding(t2)
      BY <1>6, <1>6a, <1>8, <1>10, <2>2
    <3>2. Cardinality(Holding(t2)) < TlsMaxEntries
      BY <1>6, <1>6a, <1>12, <1>13, <2>2
    <3>3. IsFiniteSet(Holding(t2) \cup {c}) /\ Cardinality(Holding(t2) \cup {c}) = Cardinality(Holding(t2)) + 1
      BY <1>12, <3>1, FS_AddElement
    <3> QED
      BY <1>12, <1>13, <3>1, <3>2, <3>3
  <2>3. CASE c \notin Holding(t1) /\ over
    <3>1. v \in Holding(t2) /\ Holding(r.rows) = Holding(t2) \ {v}
      BY <1>1, <1>7, <1>8, <1>10, <2>3
    <3>2. c \notin Holding(t2) \ {v}
      BY <1>6, <2>3
    <3>3. IsFiniteSet(Holding(t2) \ {v}) /\ Cardinality(Holding(t2) \ {v}) = Cardinality(Holding(t2)) - 1
      BY <1>12, <3>1, FS_RemoveElement
    <3>4. /\ IsFiniteSet((Holding(t2) \ {v}) \cup {c})
          /\ Cardinality((Holding(t2) \ {v}) \cup {c}) = Cardinality(Holding(t2) \ {v}) + 1
      BY <3>2, <3>3, FS_AddElement
    <3> QED
      BY <1>12, <1>13, <3>1, <3>3, <3>4
  <2> QED
    BY <2>1, <2>2, <2>3
<1> QED
  BY <1>9, <1>10, <1>11, <1>14

\* What a segment of c can do: nothing new, a whole hello, a first part, more.
TlsLets(c) ==
  /\ UNCHANGED <<tlsSweep, tlsTold>>
  /\ \/ asm' = asm /\ (order' = order \/ order' = [order EXCEPT ![c] = 0])
     \/ asm' = AsmWithout(asm, {c}) /\ order' = [order EXCEPT ![c] = 0]
TlsGives(c) ==
  /\ asm' = AsmWithout(asm, {c}) /\ order' = [order EXCEPT ![c] = 0] /\ UNCHANGED tlsSweep
  /\ tlsTold[c].n < MaxTold
  /\ tlsTold' = [tlsTold EXCEPT ![c] = [n |-> tlsTold[c].n + 1, bytes |-> 0 .. TLen[c] - 1]]
TlsEnters(c, len) ==
  /\ len < SniEnd /\ TLen[c] <= TlsMaxBytes /\ UNCHANGED tlsTold
  /\ \E r \in MakeRoom(c) :
       /\ asm' = [r.rows EXCEPT ![c] =
             [next |-> (Isn[c] + len) % SeqSpace, data |-> Part(0, len), first |-> tlsClk]]
       /\ tlsSweep' = r.at /\ order' = Expect(c, r.rows, len)
TlsGrows(c, len) ==
  /\ Len(asm[c].data) > 0 /\ Len(asm[c].data) + len < TLen[c] /\ UNCHANGED <<tlsSweep, tlsTold>>
  /\ asm' = [asm EXCEPT ![c] = [next |-> (Isn[c] + (Len(asm[c].data) + len)) % SeqSpace,
                                data |-> Part(0, Len(asm[c].data) + len), first |-> asm[c].first]]
  /\ \/ order' = [order EXCEPT ![c] = 0]
     \/ order[c] > 0 /\ order' = [order EXCEPT ![c] = order[c] + len]

\* handleFirst is one of these.
LEMMA FirstCases ==
  ASSUME TlsInv, NEW c \in TConn, NEW b \in Nat, NEW len \in Nat, NEW trunc \in BOOLEAN,
         tlsTold[c].n < MaxTold, HandleFirst(c, b, len, trunc)
  PROVE  TlsLets(c) \/ TlsGives(c) \/ TlsEnters(c, len)
<1>1. CASE b # 0 /\ order' = [order EXCEPT ![c] = 0] /\ UNCHANGED <<asm, tlsSweep, tlsTold>>
  BY <1>1, Zenon DEF TlsLets
<1>2. CASE /\ b = 0 /\ len >= TLen[c]
           /\ asm' = AsmWithout(asm, {c}) /\ order' = [order EXCEPT ![c] = 0]
           /\ tlsTold' = [tlsTold EXCEPT ![c] = [n |-> @.n + 1, bytes |-> 0 .. TLen[c] - 1]]
           /\ UNCHANGED tlsSweep
  BY <1>2 DEF TlsGives, TlsInv, TlsRest
<1>3. CASE Drops(c)
  BY <1>3, Zenon DEF Drops, TlsLets
<1>4. CASE order' = [order EXCEPT ![c] = 0] /\ UNCHANGED <<asm, tlsSweep, tlsTold>>
  BY <1>4, Zenon DEF TlsLets
<1>5. CASE TlsEnters(c, len)
  BY <1>5
<1> QED
  BY <1>1, <1>2, <1>3, <1>4, <1>5, Zenon DEF HandleFirst, TlsEnters

\* A segment at the expected number starts at the expected byte, and one wholly
\* before it is known to be.
LEMMA NumberTells ==
  ASSUME NEW c \in TConn, NEW b \in Nat, NEW n \in Nat, b <= TLen[c] + 1, n < TLen[c]
  PROVE  /\ (Isn[c] + b) % SeqSpace = (Isn[c] + n) % SeqSpace => b = n
         /\ \A len \in Nat \ {0} : b + len <= n => Before((Isn[c] + b) % SeqSpace, (Isn[c] + n) % SeqSpace, len)
<1>1. SeqSpace \in Nat \ {0} /\ Isn[c] \in Nat /\ TLen[c] \in Nat /\ TLen[c] + 1 < SeqSpace \div 2
  BY TlsAssumption
<1>2. SeqSpace \div 2 <= SeqSpace /\ SeqSpace \div 2 \in Nat
  BY <1>1
<1>3. Isn[c] + b \in Nat /\ Isn[c] + n \in Nat
  BY <1>1
<1>4. b < n => /\ (Isn[c] + b) % SeqSpace # (Isn[c] + n) % SeqSpace
               /\ (((Isn[c] + n) % SeqSpace) + SeqSpace - ((Isn[c] + b) % SeqSpace)) % SeqSpace = n - b
  <2> SUFFICES ASSUME b < n
               PROVE /\ (Isn[c] + b) % SeqSpace # (Isn[c] + n) % SeqSpace
                     /\ (((Isn[c] + n) % SeqSpace) + SeqSpace - ((Isn[c] + b) % SeqSpace)) % SeqSpace = n - b
    OBVIOUS
  <2>1. PICK x \in Nat, y \in Nat : x = Isn[c] + b /\ y = Isn[c] + n
    BY <1>3
  <2>2. x < y /\ y - x < SeqSpace /\ y - x = n - b
    BY <1>1, <1>2, <2>1
  <2>3. x % SeqSpace # y % SeqSpace /\ ((y % SeqSpace) + SeqSpace - (x % SeqSpace)) % SeqSpace = y - x
    BY <1>1, <2>2, ModApart
  <2> QED
    BY <2>1, <2>2, <2>3, Zenon
<1>5. n < b => (Isn[c] + b) % SeqSpace # (Isn[c] + n) % SeqSpace
  <2> SUFFICES ASSUME n < b PROVE (Isn[c] + b) % SeqSpace # (Isn[c] + n) % SeqSpace
    OBVIOUS
  <2>1. PICK x \in Nat, y \in Nat : x = Isn[c] + n /\ y = Isn[c] + b
    BY <1>3
  <2>2. x < y /\ y - x < SeqSpace
    BY <1>1, <1>2, <2>1
  <2>3. x % SeqSpace # y % SeqSpace
    BY <1>1, <2>2, ModApart
  <2> QED
    BY <2>1, <2>3, Zenon
<1>6. ASSUME NEW len \in Nat \ {0}, b + len <= n
      PROVE  Before((Isn[c] + b) % SeqSpace, (Isn[c] + n) % SeqSpace, len)
  <2>1. b < n /\ n - b # 0 /\ len <= n - b /\ n - b < SeqSpace \div 2
    BY <1>1, <1>2, <1>6
  <2> QED
    BY <1>4, <2>1, Zenon DEF Before
<1> QED
  BY <1>4, <1>5, <1>6

\* handleCont is one of these.
LEMMA ContCases ==
  ASSUME TlsInv, NEW c \in TConn, NEW b \in Nat, NEW len \in Nat \ {0}, NEW trunc \in BOOLEAN,
         b + len <= TLen[c] + 1, tlsTold[c].n < MaxTold, HandleCont(c, b, len, trunc)
  PROVE  TlsLets(c) \/ TlsGives(c) \/ TlsGrows(c, len)
<1> DEFINE seq == (Isn[c] + b) % SeqSpace
           more == Room(c, len)
           e == asm[c]
<1>a. PICK n \in Nat : n = Len(asm[c].data)
  BY HeldBytes DEF TlsInv
<1>b. /\ e \in AsmState /\ e.data = Part(0, n) /\ n < TLen[c] /\ n <= TlsMaxBytes
      /\ Pends(c) => n > 0 /\ e.next = (Isn[c] + n) % SeqSpace
      /\ asm \in [TConn -> AsmState]
  BY <1>a, HeldBytes DEF TlsInv, TlsTable, Pends
<1>c. order \in [TConn -> Nat] /\ (order[c] > 0 => n = order[c])
  BY <1>a DEF TlsInv, TlsGhost
<1>d. SeqSpace \in Nat \ {0} /\ Isn[c] \in Nat /\ TLen[c] \in Nat /\ b <= TLen[c] + 1
  BY TlsAssumption
<1>1. CASE ~Pends(c) /\ UNCHANGED <<asm, tlsTold, order, tlsSweep>>
  BY <1>1, Zenon DEF TlsLets
<1>2. CASE Drops(c)
  BY <1>2, Zenon DEF Drops, TlsLets
<1>3. CASE /\ Pends(c) /\ ~Follows(seq, e.next)
           /\ asm' = IF Before(seq, e.next, len) THEN asm ELSE AsmWithout(asm, {c})
           /\ order' = [order EXCEPT ![c] = OrderAfter(c, b, len, trunc)]
           /\ UNCHANGED <<tlsTold, tlsSweep>>
  <2>1. b # n
    BY <1>3, <1>b DEF Follows
  <2>2. CASE order[c] > 0 /\ b + len <= order[c]
    <3>1. Before(seq, e.next, len)
      BY <1>3, <1>b, <1>c, <1>d, <2>2, NumberTells
    <3>2. OrderAfter(c, b, len, trunc) = order[c]
      BY <1>c, <2>1, <2>2 DEF OrderAfter
    <3>3. asm' = asm /\ order' = order
      BY <1>3, <1>c, <3>1, <3>2
    <3> QED
      BY <1>3, <3>3, Zenon DEF TlsLets
  <2>3. CASE ~(order[c] > 0 /\ b + len <= order[c])
    <3>1. OrderAfter(c, b, len, trunc) = 0
      BY <1>c, <2>1, <2>3 DEF OrderAfter
    <3>2. order' = [order EXCEPT ![c] = 0] /\ (asm' = asm \/ asm' = AsmWithout(asm, {c}))
      BY <1>3, <3>1, Zenon
    <3> QED
      BY <1>3, <3>2, Zenon DEF TlsLets
  <2> QED
    BY <2>2, <2>3
<1>4. CASE /\ Pends(c) /\ Follows(seq, e.next) /\ ~trunc /\ UNCHANGED tlsSweep
           /\ asm' = [asm EXCEPT ![c] = IF Len(e.data) + more >= TLen[c] THEN NoAsm ELSE
                   [next |-> (e.next + more) % SeqSpace, data |-> e.data \o Part(b, more), first |-> e.first]]
           /\ tlsTold' = [tlsTold EXCEPT ![c] = IF ~(Len(e.data) + more >= TLen[c]) THEN @ ELSE
                   [n |-> @.n + 1, bytes |-> InPlace(e.data \o Part(b, more))]]
           /\ order' = [order EXCEPT ![c] = OrderAfter(c, b, len, trunc)]
  <2>1. b = n /\ n > 0
    BY <1>4, <1>b, <1>d, NumberTells DEF Follows
  <2>2. tlsTold \in [TConn -> [n : 0 .. MaxTold, bytes : SUBSET Nat]]
    BY DEF TlsInv, TlsRest
  <2>3. CASE n + len < TLen[c]
    <3>1. more = len /\ ~(n + more >= TLen[c])
      BY <1>a, <1>d, <2>3 DEF Room
    <3>2. e.data \o Part(b, more) = Part(0, n + len)
      BY <1>b, <2>1, <3>1, PartJoins
    <3>3. (e.next + more) % SeqSpace = (Isn[c] + (n + len)) % SeqSpace
      <4>1. PICK x \in Nat : x = Isn[c] + n
        BY <1>d
      <4>2. ((x % SeqSpace) + len) % SeqSpace = (x + len) % SeqSpace
        BY <1>d, ModAdds
      <4>3. x + len = Isn[c] + (n + len)
        BY <1>d, <4>1
      <4> QED
        BY <1>4, <1>b, <3>1, <4>1, <4>2, <4>3, Zenon
    <3>4. asm' = [asm EXCEPT ![c] = [next |-> (Isn[c] + (n + len)) % SeqSpace,
                                     data |-> Part(0, n + len), first |-> e.first]]
      BY <1>4, <1>a, <3>1, <3>2, <3>3, Zenon
    <3>5. tlsTold' = tlsTold
      <4>1. tlsTold' = [tlsTold EXCEPT ![c] = tlsTold[c]]
        BY <1>4, <1>a, <2>2, <3>1
      <4> QED
        BY <2>2, <4>1
    <3>6. OrderAfter(c, b, len, trunc) = 0 \/ (order[c] > 0 /\ OrderAfter(c, b, len, trunc) = order[c] + len)
      BY <1>4, <1>c, <2>1, <2>3 DEF OrderAfter
    <3>7. order' = [order EXCEPT ![c] = 0] \/ (order[c] > 0 /\ order' = [order EXCEPT ![c] = order[c] + len])
      BY <1>4, <3>6, Zenon
    <3> HIDE DEF e, more, seq
    <3>8. TlsGrows(c, len)
      BY <1>4, <1>a, <2>1, <2>3, <3>4, <3>5, <3>7 DEF TlsGrows, e
    <3> QED
      BY <3>8
  <2>4. CASE ~(n + len < TLen[c])
    <3>1. more \in Nat /\ n + more = TLen[c]
      BY <1>a, <1>b, <1>d, <2>4 DEF Room
    <3>2. e.data \o Part(b, more) = Part(0, TLen[c])
      BY <1>b, <2>1, <3>1, PartJoins
    <3>3. InPlace(e.data \o Part(b, more)) = 0 .. TLen[c] - 1
      BY <1>d, <3>2, PartInPlace, Zenon
    <3>4. Len(e.data) + more >= TLen[c]
      BY <1>a, <1>d, <3>1
    <3>5. asm' = [asm EXCEPT ![c] = NoAsm]
      BY <1>4, <3>4, Zenon
    <3>6. asm' = AsmWithout(asm, {c})
      BY <1>b, <3>5 DEF AsmWithout
    <3>7. tlsTold' = [tlsTold EXCEPT ![c] = [n |-> tlsTold[c].n + 1, bytes |-> 0 .. TLen[c] - 1]]
      BY <1>4, <2>2, <3>3, <3>4
    <3>8. OrderAfter(c, b, len, trunc) = 0
      BY <1>c, <1>d, <2>1, <2>4 DEF OrderAfter
    <3>9. order' = [order EXCEPT ![c] = 0]
      BY <1>4, <3>8, Zenon
    <3>10. TlsGives(c)
      BY <1>4, <3>6, <3>7, <3>9, Zenon DEF TlsGives
    <3> QED
      BY <3>10
  <2> QED
    BY <2>3, <2>4
<1> QED
  BY <1>1, <1>2, <1>3, <1>4, Zenon DEF HandleCont

\* A step of the table is a tick, or one of the four things a segment does.
TlsDoes ==
  \/ TlsTick
  \/ \E c \in TConn, len \in Nat \ {0} :
       /\ tlsTold[c].n < MaxTold /\ UNCHANGED tlsClk
       /\ TlsLets(c) \/ TlsGives(c) \/ TlsEnters(c, len) \/ TlsGrows(c, len)

\* What a step of the TCP reassembler comes to.
LEMMA TlsCases == ASSUME TlsInv, TlsNext PROVE TlsDoes
<1>1. CASE TlsTick
  BY <1>1 DEF TlsDoes
<1>2. CASE \E c \in TConn : \E p \in Segments(c), trunc \in BOOLEAN : HandleSegment(c, p[1], p[2], trunc)
  <2>0. PICK c \in TConn : \E p \in Segments(c), trunc \in BOOLEAN : HandleSegment(c, p[1], p[2], trunc)
    BY <1>2
  <2>1. PICK p \in Segments(c), trunc \in BOOLEAN : HandleSegment(c, p[1], p[2], trunc)
    BY <2>0
  <2>2. TLen[c] \in Nat
    BY TlsAssumption
  <2>3. p \in (0 .. TLen[c]) \X (1 .. TLen[c] + 1) /\ p[1] + p[2] <= TLen[c] + 1
    BY DEF Segments
  <2>4. PICK b \in Nat, len \in Nat \ {0} : b = p[1] /\ len = p[2]
    BY <2>2, <2>3
  <2>5. b + len <= TLen[c] + 1 /\ HandleSegment(c, b, len, trunc)
    BY <2>1, <2>3, <2>4
  <2>6. /\ tlsTold[c].n < MaxTold /\ UNCHANGED tlsClk
        /\ HandleFirst(c, b, len, trunc) \/ HandleCont(c, b, len, trunc)
    BY <2>5, Zenon DEF HandleSegment
  <2>7. TlsLets(c) \/ TlsGives(c) \/ TlsEnters(c, len) \/ TlsGrows(c, len)
    BY <2>5, <2>6, FirstCases, ContCases
  <2> QED
    BY <2>6, <2>7, Zenon DEF TlsDoes
<1> QED
  BY <1>1, <1>2 DEF TlsNext

\* The table once an entry is gone, or another is put in its place.
LEMMA TlsTableKept ==
  ASSUME TlsInv, NEW c \in TConn, NEW t \in [TConn -> AsmState], NEW e, TlsHeld(e, c),
         \A d \in TConn : t[d] \in {asm[d], NoAsm},
         IsFiniteSet(Holding(t) \cup {c}), Cardinality(Holding(t) \cup {c}) <= TlsMaxEntries,
         asm' = [t EXCEPT ![c] = e]
  PROVE  TlsTable' /\ TlsLimit'
<1>1. e \in AsmState
  BY DEF TlsHeld
<1>2. asm' \in [TConn -> AsmState]
  BY <1>1
<1>3. ASSUME NEW d \in TConn PROVE TlsHeld(asm'[d], d)
  <2>1. CASE d = c
    BY <2>1
  <2>2. CASE d # c
    <3>1. asm'[d] = asm[d] \/ asm'[d] = NoAsm
      BY <2>2
    <3>2. TlsHeld(asm[d], d) /\ TlsHeld(NoAsm, d)
      BY NoneHeld DEF TlsInv, TlsTable
    <3> QED
      BY <3>1, <3>2, Zenon
  <2> QED
    BY <2>1, <2>2
<1>4. TlsTable'
  BY <1>2, <1>3 DEF TlsTable, TlsHeld
<1>5. Holding(asm') \in SUBSET (Holding(t) \cup {c})
  BY DEF Holding
<1>6. IsFiniteSet(Holding(asm')) /\ Cardinality(Holding(asm')) <= Cardinality(Holding(t) \cup {c})
  BY <1>5, FS_Subset
<1>7. Cardinality(Holding(asm')) \in Nat /\ Cardinality(Holding(t) \cup {c}) \in Nat /\ TlsMaxEntries \in Nat
  BY <1>6, FS_CardinalityType, TlsAssumption
<1>8. TlsLimit'
  BY <1>6, <1>7 DEF TlsLimit
<1> QED
  BY <1>4, <1>8

\* The table without c.
LEMMA TlsTableWithout ==
  ASSUME TlsInv, NEW c \in TConn, asm' = AsmWithout(asm, {c})
  PROVE  /\ TlsTable' /\ TlsLimit'
         /\ \A d \in TConn : asm'[d] = IF d = c THEN NoAsm ELSE asm[d]
<1>1. asm \in [TConn -> AsmState] /\ \A d \in TConn : TlsHeld(asm[d], d)
  BY DEF TlsInv, TlsTable
<1>2. /\ asm' \in [TConn -> AsmState] /\ Holding(asm') = Holding(asm) \ {c}
      /\ \A d \in TConn : asm'[d] = IF d = c THEN NoAsm ELSE asm[d]
  BY <1>1, WithoutFacts
<1>3. ASSUME NEW d \in TConn PROVE TlsHeld(asm'[d], d)
  BY <1>1, <1>2, NoneHeld
<1>4. TlsTable'
  BY <1>2, <1>3 DEF TlsTable, TlsHeld
<1>5. Holding(asm') \in SUBSET Holding(asm) /\ IsFiniteSet(Holding(asm))
  BY <1>2 DEF TlsInv, TlsLimit
<1>6. IsFiniteSet(Holding(asm')) /\ Cardinality(Holding(asm')) <= Cardinality(Holding(asm))
  BY <1>5, FS_Subset
<1>7. Cardinality(Holding(asm')) \in Nat /\ Cardinality(Holding(asm)) \in Nat /\ TlsMaxEntries \in Nat
  BY <1>5, <1>6, FS_CardinalityType, TlsAssumption
<1>8. TlsLimit'
  BY <1>6, <1>7 DEF TlsLimit, TlsInv
<1> QED
  BY <1>2, <1>4, <1>8

\* The entry of a first segment.
LEMMA EnteredFacts ==
  ASSUME TlsInv, NEW c \in TConn, NEW len \in Nat \ {0}, TlsEnters(c, len)
  PROVE  /\ TlsTable' /\ TlsLimit' /\ tlsSweep' \in {tlsClk, tlsSweep} /\ UNCHANGED tlsTold
         /\ asm'[c].data = Part(0, len) /\ Len(asm'[c].data) = len /\ len < TLen[c] /\ TLen[c] <= TlsMaxBytes
         /\ \A d \in TConn \ {c} : asm'[d] \in {asm[d], NoAsm}
         /\ order' \in [TConn -> Nat] /\ order'[c] = len
         /\ \A d \in TConn \ {c} : order'[d] = IF asm'[d].data = <<>> THEN 0 ELSE order[d]
<1> DEFINE e == [next |-> (Isn[c] + len) % SeqSpace, data |-> Part(0, len), first |-> tlsClk]
<1>1. len < SniEnd /\ TLen[c] <= TlsMaxBytes /\ UNCHANGED tlsTold
  BY DEF TlsEnters
<1>2. PICK r \in MakeRoom(c) : /\ asm' = [r.rows EXCEPT ![c] = e]
                               /\ tlsSweep' = r.at /\ order' = Expect(c, r.rows, len)
  BY Zenon DEF TlsEnters
<1>3. /\ r.rows \in [TConn -> AsmState] /\ \A d \in TConn : r.rows[d] \in {asm[d], NoAsm}
      /\ r.at \in {tlsClk, tlsSweep}
      /\ IsFiniteSet(Holding(r.rows) \cup {c}) /\ Cardinality(Holding(r.rows) \cup {c}) <= TlsMaxEntries
  BY RoomFacts
<1>4. /\ SeqSpace \in Nat \ {0} /\ Isn[c] \in Nat /\ TLen[c] \in Nat /\ SniEnd \in Nat /\ SniEnd < TLen[c]
  BY TlsAssumption
<1>5. Part(0, len) \in Seq(Nat) /\ Len(Part(0, len)) = len
  BY PartFacts
<1>6. tlsClk \in 0 .. MaxTlsTime
  BY DEF TlsInv, TlsRest
<1>7. (Isn[c] + len) % SeqSpace \in 0 .. SeqSpace - 1
  <2>1. PICK x \in Nat : x = Isn[c] + len
    BY <1>4
  <2>2. x % SeqSpace \in 0 .. SeqSpace - 1
    BY <1>4, ModSplits
  <2> QED
    BY <2>1, <2>2, Zenon
<1>8. e.data = Part(0, len) /\ e.next = (Isn[c] + len) % SeqSpace /\ e \in AsmState
  BY <1>5, <1>6, <1>7 DEF AsmState
<1>9. len < TLen[c]
  BY <1>1, <1>4
<1>10. PICK f : f = e
  OBVIOUS
<1> HIDE DEF e
<1>11. TlsHeld(f, c) /\ asm' = [r.rows EXCEPT ![c] = f]
  BY <1>1, <1>2, <1>5, <1>8, <1>9, <1>10 DEF TlsHeld
<1>12. PICK t \in [TConn -> AsmState] : t = r.rows
  BY <1>3
<1>13. TlsTable' /\ TlsLimit'
  BY <1>3, <1>11, <1>12, TlsTableKept
<1>14. asm'[c] = f /\ \A d \in TConn \ {c} : asm'[d] = r.rows[d]
  BY <1>3, <1>11
<1>15. order' = [d \in TConn |-> IF d = c THEN len ELSE IF r.rows[d].data = <<>> THEN 0 ELSE order[d]]
  BY <1>2 DEF Expect
<1>16. order \in [TConn -> Nat]
  BY DEF TlsInv, TlsGhost
<1> QED
  BY <1>1, <1>2, <1>3, <1>5, <1>8, <1>9, <1>10, <1>13, <1>14, <1>15, <1>16

\* The entry that a continuation extends.
LEMMA GrownFacts ==
  ASSUME TlsInv, NEW c \in TConn, NEW len \in Nat \ {0}, TlsGrows(c, len)
  PROVE  /\ TlsTable' /\ TlsLimit' /\ UNCHANGED <<tlsSweep, tlsTold>>
         /\ asm'[c].data = Part(0, Len(asm[c].data) + len) /\ Len(asm'[c].data) = Len(asm[c].data) + len
         /\ Len(asm[c].data) + len < TLen[c] /\ TLen[c] <= TlsMaxBytes
         /\ \A d \in TConn \ {c} : asm'[d] = asm[d] /\ order'[d] = order[d]
         /\ order' \in [TConn -> Nat] /\ (order'[c] > 0 => order'[c] = Len(asm'[c].data))
<1>1. PICK n \in Nat : n = Len(asm[c].data)
  BY HeldBytes DEF TlsInv
<1>2. PICK m \in Nat : m = n + len
  OBVIOUS
<1> DEFINE e == [next |-> (Isn[c] + m) % SeqSpace, data |-> Part(0, m), first |-> asm[c].first]
<1>3. /\ n > 0 /\ m < TLen[c] /\ UNCHANGED <<tlsSweep, tlsTold>> /\ asm' = [asm EXCEPT ![c] = e]
      /\ \/ order' = [order EXCEPT ![c] = 0]
         \/ order[c] > 0 /\ order' = [order EXCEPT ![c] = order[c] + len]
  BY <1>1, <1>2, Zenon DEF TlsGrows
<1>4. SeqSpace \in Nat \ {0} /\ Isn[c] \in Nat /\ TLen[c] \in Nat
  BY TlsAssumption
<1>5. /\ asm[c] \in AsmState /\ TLen[c] <= TlsMaxBytes /\ asm[c].data # <<>>
      /\ asm \in [TConn -> AsmState] /\ IsFiniteSet(Holding(asm)) /\ Cardinality(Holding(asm)) <= TlsMaxEntries
  BY <1>1, <1>3, HeldBytes DEF TlsInv, TlsTable, TlsLimit
<1>6. Part(0, m) \in Seq(Nat) /\ Len(Part(0, m)) = m
  BY PartFacts
<1>7. (Isn[c] + m) % SeqSpace \in 0 .. SeqSpace - 1
  <2>1. PICK x \in Nat : x = Isn[c] + m
    BY <1>4
  <2>2. x % SeqSpace \in 0 .. SeqSpace - 1
    BY <1>4, ModSplits
  <2> QED
    BY <2>1, <2>2, Zenon
<1>8. e.data = Part(0, m) /\ e.next = (Isn[c] + m) % SeqSpace /\ e \in AsmState
  BY <1>5, <1>6, <1>7 DEF AsmState
<1>9. PICK f : f = e
  OBVIOUS
<1> HIDE DEF e
<1>10. TlsHeld(f, c) /\ asm' = [asm EXCEPT ![c] = f]
  BY <1>3, <1>5, <1>6, <1>8, <1>9 DEF TlsHeld
<1>11. Holding(asm) \cup {c} = Holding(asm)
  BY <1>5 DEF Holding
<1>12. TlsTable' /\ TlsLimit'
  BY <1>5, <1>10, <1>11, TlsTableKept
<1>13. asm'[c] = f /\ \A d \in TConn \ {c} : asm'[d] = asm[d]
  BY <1>5, <1>10
<1>14. order \in [TConn -> Nat] /\ (order[c] > 0 => n = order[c])
  BY <1>1 DEF TlsInv, TlsGhost
<1>15. /\ order' \in [TConn -> Nat] /\ \A d \in TConn \ {c} : order'[d] = order[d]
       /\ order'[c] > 0 => order'[c] = m
  BY <1>2, <1>3, <1>14
<1> QED
  BY <1>1, <1>2, <1>3, <1>5, <1>6, <1>8, <1>9, <1>12, <1>13, <1>15

\* What is true of the table at the start.
LEMMA TlsStart == TlsInit => TlsInv
<1> SUFFICES ASSUME TlsInit PROVE TlsInv
  OBVIOUS
<1>1. /\ tlsClk = 0 /\ tlsSweep = 0 /\ asm = [c \in TConn |-> NoAsm]
      /\ tlsTold = [c \in TConn |-> [n |-> 0, bytes |-> {}]] /\ order = [c \in TConn |-> 0]
  BY DEF TlsInit
<1>2. MaxTlsTime \in Nat /\ MaxTold \in Nat /\ TlsMaxEntries \in Nat
  BY TlsAssumption
<1>3. ASSUME NEW c \in TConn PROVE TlsHeld(asm[c], c) /\ asm[c] \in AsmState /\ asm[c].data = <<>>
  BY <1>1, NoneHeld
<1>4. TlsTable
  BY <1>1, <1>3 DEF TlsTable
<1>5. Holding(asm) = {}
  BY <1>3 DEF Holding
<1>6. IsFiniteSet({}) /\ Cardinality({}) = 0
  BY FS_EmptySet
<1>7. TlsLimit
  BY <1>2, <1>5, <1>6 DEF TlsLimit
<1>8. TlsGhost
  BY <1>1 DEF TlsGhost
<1>9. TlsRest
  BY <1>1, <1>2 DEF TlsRest
<1> QED
  BY <1>4, <1>7, <1>8, <1>9 DEF TlsInv

\* Every step keeps it.
LEMMA TlsStep == TlsInv /\ [TlsNext]_tlsVars => TlsInv'
<1> SUFFICES ASSUME TlsInv, [TlsNext]_tlsVars PROVE TlsInv'
  OBVIOUS
<1>0. /\ order \in [TConn -> Nat] /\ \A c \in TConn : order[c] > 0 => Len(asm[c].data) = order[c]
      /\ tlsClk \in 0 .. MaxTlsTime /\ tlsSweep \in 0 .. MaxTlsTime
      /\ tlsTold \in [TConn -> [n : 0 .. MaxTold, bytes : SUBSET Nat]]
      /\ MaxTlsTime \in Nat /\ MaxTold \in Nat
  BY TlsAssumption DEF TlsInv, TlsGhost, TlsRest
<1>1. CASE UNCHANGED tlsVars
  BY <1>1 DEF TlsInv, TlsTable, TlsLimit, TlsGhost, TlsRest, tlsVars, TlsHeld
<1>2. CASE TlsTick
  <2>1. TlsTable' /\ TlsLimit' /\ TlsGhost'
    BY <1>2 DEF TlsTick, TlsInv, TlsTable, TlsLimit, TlsGhost, TlsHeld
  <2>2. TlsRest'
    BY <1>0, <1>2 DEF TlsTick, TlsRest
  <2> QED
    BY <2>1, <2>2 DEF TlsInv
<1>3. ASSUME NEW c \in TConn, NEW len \in Nat \ {0}, tlsTold[c].n < MaxTold, UNCHANGED tlsClk,
             TlsLets(c) \/ TlsGives(c) \/ TlsEnters(c, len) \/ TlsGrows(c, len)
      PROVE  TlsInv'
  <2>1. CASE TlsLets(c)
    <3>1. TlsTable' /\ TlsLimit'
      <4>1. CASE asm' = asm
        BY <4>1 DEF TlsInv, TlsTable, TlsLimit, TlsHeld
      <4>2. CASE asm' = AsmWithout(asm, {c})
        BY <4>2, TlsTableWithout
      <4> QED
        BY <2>1, <4>1, <4>2 DEF TlsLets
    <3>2. TlsGhost'
      <4>1. CASE asm' = asm /\ (order' = order \/ order' = [order EXCEPT ![c] = 0])
        BY <1>0, <4>1 DEF TlsGhost
      <4>2. CASE asm' = AsmWithout(asm, {c}) /\ order' = [order EXCEPT ![c] = 0]
        <5>1. \A d \in TConn : asm'[d] = IF d = c THEN NoAsm ELSE asm[d]
          BY <4>2, TlsTableWithout
        <5>2. \A d \in TConn : order'[d] > 0 => d # c /\ order'[d] = order[d]
          BY <1>0, <4>2
        <5>3. \A d \in TConn : order'[d] > 0 => Len(asm'[d].data) = order'[d]
          BY <1>0, <5>1, <5>2
        <5> QED
          BY <1>0, <4>2, <5>3 DEF TlsGhost
      <4> QED
        BY <2>1, <4>1, <4>2, Zenon DEF TlsLets
    <3>3. TlsRest'
      BY <1>0, <1>3, <2>1, Zenon DEF TlsLets, TlsRest
    <3> QED
      BY <3>1, <3>2, <3>3 DEF TlsInv
  <2>2. CASE TlsGives(c)
    <3>1. /\ asm' = AsmWithout(asm, {c}) /\ order' = [order EXCEPT ![c] = 0] /\ UNCHANGED tlsSweep
          /\ tlsTold' = [tlsTold EXCEPT ![c] = [n |-> tlsTold[c].n + 1, bytes |-> 0 .. TLen[c] - 1]]
      BY <2>2 DEF TlsGives
    <3>2. TlsTable' /\ TlsLimit' /\ \A d \in TConn : asm'[d] = IF d = c THEN NoAsm ELSE asm[d]
      BY <3>1, TlsTableWithout
    <3>3. TlsGhost'
      <4>1. \A d \in TConn : order'[d] > 0 => d # c /\ order'[d] = order[d]
        BY <1>0, <3>1
      <4>2. \A d \in TConn : order'[d] > 0 => Len(asm'[d].data) = order'[d]
        BY <1>0, <3>2, <4>1
      <4> QED
        BY <1>0, <3>1, <4>2 DEF TlsGhost
    <3>4. [n |-> tlsTold[c].n + 1, bytes |-> 0 .. TLen[c] - 1] \in [n : 0 .. MaxTold, bytes : SUBSET Nat]
      BY <1>0, <1>3
    <3>5. TlsRest'
      BY <1>0, <1>3, <3>1, <3>4 DEF TlsRest
    <3> QED
      BY <3>2, <3>3, <3>5 DEF TlsInv
  <2>3. CASE TlsEnters(c, len)
    <3>1. /\ TlsTable' /\ TlsLimit' /\ tlsSweep' \in {tlsClk, tlsSweep} /\ UNCHANGED tlsTold
          /\ Len(asm'[c].data) = len
          /\ \A d \in TConn \ {c} : asm'[d] \in {asm[d], NoAsm}
          /\ order' \in [TConn -> Nat] /\ order'[c] = len
          /\ \A d \in TConn \ {c} : order'[d] = IF asm'[d].data = <<>> THEN 0 ELSE order[d]
      BY <2>3, EnteredFacts
    <3>2. ASSUME NEW d \in TConn, order'[d] > 0 PROVE Len(asm'[d].data) = order'[d]
      <4>1. CASE d = c
        BY <3>1, <4>1
      <4>2. CASE d # c
        <5>1. asm'[d].data # <<>> /\ order'[d] = order[d]
          BY <3>1, <3>2, <4>2
        <5>2. asm'[d] = asm[d]
          BY <3>1, <4>2, <5>1, NoneHeld
        <5> QED
          BY <1>0, <3>2, <5>1, <5>2
      <4> QED
        BY <4>1, <4>2
    <3>3. TlsGhost'
      BY <3>1, <3>2 DEF TlsGhost
    <3>4. TlsRest'
      BY <1>0, <1>3, <3>1 DEF TlsRest
    <3> QED
      BY <3>1, <3>3, <3>4 DEF TlsInv
  <2>4. CASE TlsGrows(c, len)
    <3>1. /\ TlsTable' /\ TlsLimit' /\ UNCHANGED <<tlsSweep, tlsTold>>
          /\ \A d \in TConn \ {c} : asm'[d] = asm[d] /\ order'[d] = order[d]
          /\ order' \in [TConn -> Nat] /\ (order'[c] > 0 => order'[c] = Len(asm'[c].data))
      BY <2>4, GrownFacts
    <3>2. TlsGhost'
      BY <1>0, <3>1 DEF TlsGhost
    <3>3. TlsRest'
      BY <1>0, <1>3, <3>1 DEF TlsRest
    <3> QED
      BY <3>1, <3>2, <3>3 DEF TlsInv
  <2> QED
    BY <1>3, <2>1, <2>2, <2>3, <2>4
<1>4. CASE TlsNext
  <2>1. TlsDoes
    BY <1>4, TlsCases
  <2> QED
    BY <1>2, <1>3, <2>1, Zenon DEF TlsDoes
<1> QED
  BY <1>1, <1>4

\* It is what the run checks of the table.
LEMMA TlsTyped == TlsInv => TlsTypeOK /\ InOrderHeld
<1> SUFFICES ASSUME TlsInv PROVE TlsTypeOK /\ InOrderHeld
  OBVIOUS
<1>1. /\ tlsClk \in 0 .. MaxTlsTime /\ tlsSweep \in 0 .. MaxTlsTime
      /\ \A c \in TConn : tlsTold[c].n \in 0 .. MaxTold
  BY DEF TlsInv, TlsRest
<1>2. ASSUME NEW c \in TConn
      PROVE  /\ Len(asm[c].data) < TLen[c] /\ asm[c].next \in 0 .. SeqSpace - 1
             /\ asm[c].first \in 0 .. MaxTlsTime
  BY HeldBytes DEF TlsInv, AsmState
<1>3. TlsTypeOK
  BY <1>1, <1>2 DEF TlsTypeOK, TlsInv, TlsLimit
<1>4. ASSUME NEW c \in TConn, order[c] > 0
      PROVE  asm[c].data = Part(0, order[c]) /\ asm[c].next = (Isn[c] + order[c]) % SeqSpace
  <2>1. Len(asm[c].data) = order[c]
    BY <1>4 DEF TlsInv, TlsGhost
  <2>2. asm[c].data = Part(0, Len(asm[c].data)) /\ asm[c].next = (Isn[c] + Len(asm[c].data)) % SeqSpace
    BY <1>4, <2>1, HeldBytes DEF TlsInv
  <2> QED
    BY <2>1, <2>2, Zenon
<1>5. InOrderHeld
  BY <1>4 DEF InOrderHeld
<1> QED
  BY <1>3, <1>5

-----------------------------------------------------------------------------
(* The table of segments keeps the promise of HelloBytes.                  *)

\* An entry holds the first bytes of its stream, as many as its data is long.
LEMMA HeldPrefix ==
  ASSUME NEW c \in TConn, NEW e, TlsHeld(e, c)
  PROVE  /\ InPlace(e.data) = 0 .. Len(e.data) - 1 /\ Len(e.data) \in Nat
         /\ InPlace(e.data) \in SUBSET (0 .. TlsMaxBytes + 1)
<1>1. e.data = Part(0, Len(e.data)) /\ Len(e.data) < TLen[c] /\ (e.data # <<>> => TLen[c] <= TlsMaxBytes)
  BY DEF TlsHeld
<1>2. e.data \in Seq(Nat)
  BY DEF TlsHeld, AsmState
<1>3. PICK n \in Nat : n = Len(e.data)
  BY <1>2
<1>4. InPlace(e.data) = 0 .. n - 1
  BY <1>1, <1>3, PartInPlace, Zenon
<1>5. TlsMaxBytes \in Nat /\ TLen[c] \in Nat
  BY TlsAssumption
<1>6. n = 0 \/ n < TlsMaxBytes
  BY <1>1, <1>2, <1>3, <1>5
<1> QED
  BY <1>3, <1>4, <1>5, <1>6

\* No entry, no bytes in place.
LEMMA NonePlaced == InPlace(NoAsm.data) = {}
<1>1. NoAsm.data = <<>> /\ Len(<<>>) = 0
  BY DEF NoAsm
<1> QED
  BY <1>1 DEF InPlace

\* Each step hands over, takes in or forgets what the promise allows.
LEMMA TlsRefines ==
  ASSUME TlsInv, TlsInv', [TlsNext]_tlsVars
  PROVE  [Promise!Next]_<<[c \in TConn |-> InPlace(asm[c].data)], tlsTold>>
<1> DEFINE g == [c \in TConn |-> InPlace(asm[c].data)]
           h == [c \in TConn |-> InPlace(asm'[c].data)]
<1>0. /\ TlsMaxBytes \in Nat /\ TLen \in [TConn -> Nat] /\ \A c \in TConn : TLen[c] > 0
      /\ tlsTold \in [TConn -> [n : 0 .. MaxTold, bytes : SUBSET Nat]] /\ MaxTold \in Nat
  BY TlsAssumption DEF TlsInv, TlsRest
<1>a. \A c \in TConn : g[c] = 0 .. Len(asm[c].data) - 1
  BY HeldPrefix DEF TlsInv, TlsTable
<1>a1. \A c \in TConn : TlsHeld(asm'[c], c)
  BY DEF TlsInv, TlsTable, TlsHeld
<1>a2. \A c \in TConn : h[c] = 0 .. Len(asm'[c].data) - 1
  BY <1>a1, HeldPrefix
<1>b. h \in [TConn -> SUBSET (0 .. TlsMaxBytes + 1)]
  <2>1. \A c \in TConn : InPlace(asm'[c].data) \in SUBSET (0 .. TlsMaxBytes + 1)
    BY <1>a1, HeldPrefix
  <2> QED
    BY <2>1
<1>1. CASE UNCHANGED tlsVars
  BY <1>1 DEF tlsVars
<1>2. CASE TlsTick
  BY <1>2 DEF TlsTick
<1>3. ASSUME NEW c \in TConn, NEW len \in Nat \ {0}, tlsTold[c].n < MaxTold,
             TlsLets(c) \/ TlsGives(c) \/ TlsEnters(c, len) \/ TlsGrows(c, len)
      PROVE  Promise!Next
  <2>1. CASE TlsLets(c)
    <3>1. tlsTold' = tlsTold
      BY <2>1 DEF TlsLets
    <3>2. \A d \in TConn : asm'[d] = asm[d] \/ asm'[d] = NoAsm
      BY <2>1, TlsTableWithout DEF TlsLets
    <3>3. \A d \in TConn : h[d] \in {g[d], {}}
      BY <3>2, NonePlaced
    <3> QED
      BY <3>1, <3>3 DEF Promise!Next, Promise!Forget
  <2>2. CASE TlsGives(c)
    <3>1. /\ asm' = AsmWithout(asm, {c})
          /\ tlsTold' = [tlsTold EXCEPT ![c] = [n |-> tlsTold[c].n + 1, bytes |-> 0 .. TLen[c] - 1]]
      BY <2>2 DEF TlsGives
    <3>2. \A d \in TConn : asm'[d] = IF d = c THEN NoAsm ELSE asm[d]
      BY <3>1, TlsTableWithout
    <3>3. h[c] = {} /\ \A d \in TConn \ {c} : h[d] \in {g[d], {}}
      BY <3>2, NonePlaced
    <3>4. Promise!OthersMayGo(c)
      BY <3>3 DEF Promise!OthersMayGo
    <3>5. Promise!Arrives(c, 0, TLen[c], g[c])
      <4>1. Promise!Complete(c, g[c] \cup (0 .. TLen[c] - 1))
        BY <1>0 DEF Promise!Complete, Promise!Whole
      <4>2. tlsTold' = [tlsTold EXCEPT ![c] = [n |-> @.n + 1, bytes |-> 0 .. TLen[c] - 1]]
        BY <1>0, <3>1
      <4> QED
        BY <3>3, <4>1, <4>2, Zenon DEF Promise!Arrives, Promise!Whole
    <3>6. 0 \in 0 .. Promise!Farthest(c) /\ TLen[c] \in 0 .. Promise!Farthest(c) /\ 0 < TLen[c]
      BY <1>0 DEF Promise!Farthest
    <3>7. Promise!Receive(c)
      BY <1>b, <3>4, <3>5, <3>6, Zenon DEF Promise!Receive
    <3> QED
      BY <3>7, Zenon DEF Promise!Next
  <2>3. CASE TlsEnters(c, len)
    <3>1. /\ TlsTable' /\ UNCHANGED tlsTold
          /\ Len(asm'[c].data) = len /\ len < TLen[c] /\ TLen[c] <= TlsMaxBytes
          /\ \A d \in TConn \ {c} : asm'[d] \in {asm[d], NoAsm}
      BY <2>3, EnteredFacts
    <3>2. h[c] = 0 .. len - 1
      BY <1>a2, <3>1
    <3>3. \A d \in TConn \ {c} : h[d] \in {g[d], {}}
      BY <3>1, NonePlaced
    <3>4. Promise!OthersMayGo(c)
      BY <3>3 DEF Promise!OthersMayGo
    <3>5. Promise!Arrives(c, 0, len, {})
      <4>1. ~Promise!Complete(c, {} \cup (0 .. len - 1))
        <5>1. TLen[c] - 1 \in 0 .. TLen[c] - 1 /\ TLen[c] - 1 \notin {} \cup (0 .. len - 1)
          BY <1>0, <3>1
        <5> QED
          BY <5>1, Zenon DEF Promise!Complete, Promise!Whole
      <4>2. h[c] = {} \cup (0 .. len - 1)
        BY <3>2
      <4> QED
        BY <3>1, <4>1, <4>2, Zenon DEF Promise!Arrives
    <3>6. 0 \in 0 .. Promise!Farthest(c) /\ len \in 0 .. Promise!Farthest(c) /\ 0 < len
      BY <1>0, <3>1 DEF Promise!Farthest
    <3>7. Promise!Receive(c)
      BY <1>b, <3>4, <3>5, <3>6, Zenon DEF Promise!Receive
    <3> QED
      BY <3>7, Zenon DEF Promise!Next
  <2>4. CASE TlsGrows(c, len)
    <3>0. PICK n \in Nat : n = Len(asm[c].data)
      BY HeldBytes DEF TlsInv
    <3>1. /\ TlsTable' /\ UNCHANGED tlsTold /\ Len(asm'[c].data) = n + len
          /\ n + len < TLen[c] /\ TLen[c] <= TlsMaxBytes
          /\ \A d \in TConn \ {c} : asm'[d] = asm[d]
      BY <2>4, <3>0, GrownFacts
    <3>2. h[c] = 0 .. (n + len) - 1 /\ g[c] = 0 .. n - 1
      <4>1. h[c] = 0 .. Len(asm'[c].data) - 1 /\ g[c] = 0 .. Len(asm[c].data) - 1
        BY <1>a, <1>a2, Zenon
      <4> QED
        BY <3>0, <3>1, <4>1, Zenon
    <3>2a. PICK had : had = g[c]
      OBVIOUS
    <3>3. \A d \in TConn \ {c} : h[d] \in {g[d], {}}
      BY <3>1
    <3>4. Promise!OthersMayGo(c)
      BY <3>3 DEF Promise!OthersMayGo
    <3>5. Promise!Arrives(c, n, n + len, had)
      <4>1. had \cup (n .. (n + len) - 1) = h[c]
        BY <3>2, <3>2a
      <4>2. ~Promise!Complete(c, h[c])
        <5>1. TLen[c] - 1 \in 0 .. TLen[c] - 1 /\ TLen[c] - 1 \notin h[c]
          BY <1>0, <3>1, <3>2
        <5> HIDE DEF h
        <5> QED
          BY <5>1 DEF Promise!Complete, Promise!Whole
      <4>3. ~Promise!Complete(c, had \cup (n .. (n + len) - 1))
        BY <4>1, <4>2, Zenon
      <4>4. h[c] = had \cup (n .. (n + len) - 1)
        BY <4>1, Zenon
      <4> QED
        BY <3>1, <4>3, <4>4, Zenon DEF Promise!Arrives
    <3>6. n \in 0 .. Promise!Farthest(c) /\ n + len \in 0 .. Promise!Farthest(c) /\ n < n + len
      BY <1>0, <3>1 DEF Promise!Farthest
    <3>6a. had \in {g[c], {}}
      BY <3>2a
    <3>7. Promise!Receive(c)
      BY <1>b, <3>4, <3>5, <3>6, <3>6a, Zenon DEF Promise!Receive
    <3> QED
      BY <3>7, Zenon DEF Promise!Next
  <2> QED
    BY <1>3, <2>1, <2>2, <2>3, <2>4
<1>4. CASE TlsNext
  <2>1. TlsDoes
    BY <1>4, TlsCases
  <2>2. CASE TlsTick
    BY <1>2, <2>2
  <2>3. CASE ~TlsTick
    <3>1. Promise!Next
      BY <1>3, <2>1, <2>3, Zenon DEF TlsDoes
    <3> QED
      BY <3>1
  <2> QED
    BY <2>2, <2>3
<1> QED
  BY <1>1, <1>4

\* Nothing held and nothing handed over: HelloBytes' initial state.
LEMMA TlsPromised == TlsInit => Promise!Init
<1> SUFFICES ASSUME TlsInit PROVE Promise!Init
  OBVIOUS
<1>1. \A c \in TConn : InPlace(asm[c].data) = {}
  BY NonePlaced DEF TlsInit
<1>2. tlsTold = [c \in TConn |-> [n |-> 0, bytes |-> {}]]
  BY DEF TlsInit
<1> QED
  BY <1>1, <1>2 DEF Promise!Init

-----------------------------------------------------------------------------
(* The list of the intervals a QUIC hello has received.                    *)

\* An interval is not empty; x is in one of the first n.
Span == {iv \in Nat \X Nat : iv[1] < iv[2]}
CoversUpTo(q, n, x) == \E j \in 1 .. n : q[j][1] <= x /\ x < q[j][2]
\* In order and apart.
Spaced(q) == q \in Seq(Span) /\ \A i, j \in 1 .. Len(q) : i < j => q[i][2] < q[j][1]

\* The pass over a list is defined: the state after each interval follows from
\* the one before.
LEMMA PassDefined ==
  ASSUME NEW q, Len(q) \in Nat, NEW s, NEW t
  PROVE  \E f : /\ f = [i \in 0 .. Len(q) |->
                          IF i = 0 THEN [out |-> <<>>, s |-> s, t |-> t, in |-> FALSE]
                          ELSE MergeStep(f[i - 1], q[i])]
                /\ MergePass(q, s, t) = f[Len(q)]
<1> DEFINE b == [out |-> <<>>, s |-> s, t |-> t, in |-> FALSE]
           Is(f, n) == f = [i \in 0 .. n |-> IF i = 0 THEN b ELSE MergeStep(f[i - 1], q[i])]
           T == {n \in Nat : ~\E f : Is(f, n)}
<1>1. MergePass(q, s, t) = (CHOOSE f : Is(f, Len(q)))[Len(q)]
  BY Zenon DEF MergePass
<1>b. PICK base : base = b
  OBVIOUS
<1>2. T = {}
  <2> SUFFICES ASSUME T # {} PROVE FALSE
    OBVIOUS
  <2>1. PICK n \in T : \A m \in T : n <= m
    BY LeastOf
  <2>2. n \in Nat /\ ~\E f : Is(f, n)
    BY <2>1
  <2>3. n # 0
    <3> SUFFICES ASSUME n = 0 PROVE FALSE
      OBVIOUS
    <3>1. PICK f : f = [i \in 0 .. 0 |-> base]
      OBVIOUS
    <3>2. f = [i \in 0 .. 0 |-> IF i = 0 THEN base ELSE MergeStep(f[i - 1], q[i])]
      BY <3>1
    <3> QED
      BY <2>2, <3>2, <1>b
  <2>4. n - 1 \in Nat /\ ~(n <= n - 1)
    BY <2>2, <2>3
  <2>5. \E f : Is(f, n - 1)
    BY <2>1, <2>4
  <2>6. PICK f : f = [i \in 0 .. n - 1 |-> IF i = 0 THEN base ELSE MergeStep(f[i - 1], q[i])]
    BY <2>5, <1>b
  <2>7. PICK g : g = [i \in 0 .. n |-> IF i = n THEN MergeStep(f[n - 1], q[n]) ELSE f[i]]
    OBVIOUS
  <2>8. \A i \in 0 .. n - 1 : g[i] = f[i]
    BY <2>2, <2>7
  <2>9. ASSUME NEW i \in 0 .. n PROVE g[i] = IF i = 0 THEN base ELSE MergeStep(g[i - 1], q[i])
    <3>1. CASE i = 0
      BY <2>2, <2>3, <2>6, <2>8, <3>1
    <3>2. CASE i # 0 /\ i # n
      <4>1. i \in 0 .. n - 1 /\ i - 1 \in 0 .. n - 1
        BY <2>2, <3>2
      <4>2. g[i] = f[i] /\ g[i - 1] = f[i - 1]
        BY <2>8, <4>1
      <4>3. f[i] = MergeStep(f[i - 1], q[i])
        BY <2>6, <3>2, <4>1
      <4> QED
        BY <3>2, <4>2, <4>3, Zenon
    <3>3. CASE i = n
      <4>1. g[n - 1] = f[n - 1] /\ g[n] = MergeStep(f[n - 1], q[n])
        BY <2>2, <2>3, <2>4, <2>7, <2>8
      <4> QED
        BY <2>3, <3>3, <4>1, Zenon
    <3> QED
      BY <3>1, <3>2, <3>3
  <2>10. g = [i \in 0 .. n |-> IF i = 0 THEN base ELSE MergeStep(g[i - 1], q[i])]
    BY <2>7, <2>9
  <2> QED
    BY <2>2, <2>10, <1>b
<1>3. \E f : Is(f, Len(q))
  BY <1>2
<1>4. Is(CHOOSE f : Is(f, Len(q)), Len(q))
  <2> HIDE DEF Is
  <2> QED
    BY <1>3, Zenon
<1> QED
  BY <1>1, <1>4, Zenon

\* What the pass has made of the first i intervals of a list and of [s, t).
Passing(a, q, i, s, t) ==
  /\ a.out \in Seq(Span) /\ a.s \in Nat /\ a.t \in Nat /\ a.in \in BOOLEAN
  /\ a.s < a.t
  /\ Spaced(a.out)
  /\ \A j \in 1 .. Len(a.out), l \in i + 1 .. Len(q) : a.out[j][2] < q[l][1]
  /\ ~a.in => \A j \in 1 .. Len(a.out) : a.out[j][2] < a.s
  /\ a.in => \A l \in i + 1 .. Len(q) : a.t < q[l][1]
  /\ \A x \in Nat : (CoversUpTo(a.out, Len(a.out), x) \/ (~a.in /\ a.s <= x /\ x < a.t))
                      <=> (CoversUpTo(q, i, x) \/ (s <= x /\ x < t))

\* One more interval at the end.
LEMMA AppendSpan ==
  ASSUME NEW o, Spaced(o), NEW iv \in Span, \A j \in 1 .. Len(o) : o[j][2] < iv[1]
  PROVE  /\ Spaced(Append(o, iv)) /\ Append(o, iv) \in Seq(Span) /\ Len(Append(o, iv)) = Len(o) + 1
         /\ \A j \in 1 .. Len(o) : Append(o, iv)[j] = o[j]
         /\ Append(o, iv)[Len(o) + 1] = iv
         /\ \A x \in Nat : CoversUpTo(Append(o, iv), Len(o) + 1, x)
              <=> CoversUpTo(o, Len(o), x) \/ (iv[1] <= x /\ x < iv[2])
<1>1. o \in Seq(Span) /\ \A i, j \in 1 .. Len(o) : i < j => o[i][2] < o[j][1]
  BY DEF Spaced
<1>2. PICK n \in Nat : n = Len(o)
  BY <1>1
<1>3. PICK p : p = Append(o, iv)
  OBVIOUS
<1>4. /\ p \in Seq(Span) /\ Len(p) = n + 1 /\ p[n + 1] = iv
      /\ \A j \in 1 .. n : p[j] = o[j]
  BY <1>1, <1>2, <1>3
<1>5. ASSUME NEW i \in 1 .. n + 1, NEW j \in 1 .. n + 1, i < j PROVE p[i][2] < p[j][1]
  <2>1. CASE j = n + 1
    BY <1>2, <1>4, <1>5, <2>1
  <2>2. CASE j # n + 1
    BY <1>1, <1>2, <1>4, <1>5, <2>2
  <2> QED
    BY <2>1, <2>2
<1>6. Spaced(p)
  BY <1>4, <1>5 DEF Spaced
<1>7. ASSUME NEW x \in Nat
      PROVE  CoversUpTo(p, n + 1, x) <=> CoversUpTo(o, n, x) \/ (iv[1] <= x /\ x < iv[2])
  <2>1. ASSUME CoversUpTo(p, n + 1, x) PROVE CoversUpTo(o, n, x) \/ (iv[1] <= x /\ x < iv[2])
    <3>1. PICK j \in 1 .. n + 1 : p[j][1] <= x /\ x < p[j][2]
      BY <2>1 DEF CoversUpTo
    <3>2. CASE j = n + 1
      BY <1>4, <3>1, <3>2
    <3>3. CASE j \in 1 .. n
      BY <1>4, <3>1, <3>3 DEF CoversUpTo
    <3> QED
      BY <3>2, <3>3
  <2>2. ASSUME CoversUpTo(o, n, x) PROVE CoversUpTo(p, n + 1, x)
    <3>1. PICK j \in 1 .. n : o[j][1] <= x /\ x < o[j][2]
      BY <2>2 DEF CoversUpTo
    <3>2. j \in 1 .. n + 1 /\ p[j] = o[j]
      BY <1>4
    <3> QED
      BY <3>1, <3>2 DEF CoversUpTo
  <2>3. ASSUME iv[1] <= x, x < iv[2] PROVE CoversUpTo(p, n + 1, x)
    <3>1. n + 1 \in 1 .. n + 1 /\ p[n + 1] = iv
      BY <1>4
    <3> QED
      BY <2>3, <3>1 DEF CoversUpTo
  <2> QED
    BY <2>1, <2>2, <2>3
<1> QED
  BY <1>2, <1>3, <1>4, <1>6, <1>7

\* The intervals of a list up to the next.
LEMMA CoversNext ==
  ASSUME NEW q, NEW i \in Nat, NEW x \in Nat, q[i + 1] \in Span
  PROVE  CoversUpTo(q, i + 1, x) <=> CoversUpTo(q, i, x) \/ (q[i + 1][1] <= x /\ x < q[i + 1][2])
<1>1. 1 .. i + 1 = (1 .. i) \cup {i + 1}
  OBVIOUS
<1> QED
  BY <1>1, Zenon DEF CoversUpTo

\* The loop body of addFrag keeps it.
LEMMA PassStep ==
  ASSUME NEW q, Spaced(q), NEW i \in Nat, i < Len(q), NEW s \in Nat, NEW t \in Nat,
         NEW a, Passing(a, q, i, s, t)
  PROVE  Passing(MergeStep(a, q[i + 1]), q, i + 1, s, t)
<1> DEFINE iv == q[i + 1]
           w == MergeStep(a, iv)
<1>1. PICK n \in Nat : n = Len(q)
  BY DEF Spaced
<1>2. PICK m \in Nat : m = Len(a.out)
  BY DEF Passing
<1>3. /\ i + 1 \in 1 .. n /\ q \in Seq(Span) /\ iv \in Span
      /\ \A l \in i + 2 .. n : iv[2] < q[l][1]
  <2>1. i + 1 \in 1 .. n /\ q \in Seq(Span)
    BY <1>1 DEF Spaced
  <2>2. iv \in Span
    BY <1>1, <2>1, ElementOfSeq
  <2>3. \A l \in i + 2 .. n : l \in 1 .. n /\ i + 1 < l
    BY <2>1
  <2> QED
    BY <1>1, <2>1, <2>2, <2>3 DEF Spaced
<1>4. iv[1] \in Nat /\ iv[2] \in Nat /\ iv[1] < iv[2]
  BY <1>3 DEF Span
<1>5. /\ a.out \in Seq(Span) /\ a.s \in Nat /\ a.t \in Nat /\ a.in \in BOOLEAN
      /\ a.s < a.t /\ Spaced(a.out)
      /\ ~a.in => \A j \in 1 .. m : a.out[j][2] < a.s
  BY <1>2 DEF Passing
<1>6. \A j \in 1 .. m : a.out[j] \in Span /\ a.out[j][2] \in Nat
  BY <1>2, <1>5, ElementOfSeq DEF Span
<1>7. \A j \in 1 .. m, l \in i + 1 .. n : a.out[j][2] < q[l][1]
  BY <1>1, <1>2 DEF Passing
<1>8. \A j \in 1 .. m : a.out[j][2] < iv[1]
  BY <1>3, <1>7
<1>9. a.in => \A l \in i + 1 .. n : a.t < q[l][1]
  BY <1>1 DEF Passing
<1>10. a.in => a.t < iv[1]
  BY <1>3, <1>9
<1>11. \A x \in Nat : (CoversUpTo(a.out, m, x) \/ (~a.in /\ a.s <= x /\ x < a.t))
                        <=> (CoversUpTo(q, i, x) \/ (s <= x /\ x < t))
  BY <1>2 DEF Passing
<1>12. \A x \in Nat : CoversUpTo(q, i + 1, x) <=> CoversUpTo(q, i, x) \/ (iv[1] <= x /\ x < iv[2])
  BY <1>3, CoversNext
<1>13. \A l \in i + 2 .. n : q[l] \in Span /\ q[l][1] \in Nat
  <2>1. \A l \in i + 2 .. n : l \in 1 .. Len(q)
    BY <1>1, <1>3
  <2>2. ASSUME NEW l \in i + 2 .. n PROVE q[l] \in Span
    BY <1>3, <2>1, ElementOfSeq
  <2> QED
    BY <2>2 DEF Span
<1>14. \A j \in 1 .. m, l \in i + 2 .. n : a.out[j][2] < q[l][1]
  BY <1>7
<1>g. Spaced(Append(a.out, iv)) /\ Append(a.out, iv) \in Seq(Span) /\ Len(Append(a.out, iv)) = m + 1
      /\ (\A j \in 1 .. m : Append(a.out, iv)[j] = a.out[j]) /\ Append(a.out, iv)[m + 1] = iv
      /\ \A x \in Nat : CoversUpTo(Append(a.out, iv), m + 1, x)
              <=> CoversUpTo(a.out, m, x) \/ (iv[1] <= x /\ x < iv[2])
  <2>1. \A j \in 1 .. Len(a.out) : a.out[j][2] < iv[1]
    BY <1>2, <1>8
  <2> QED
    BY <1>2, <1>3, <1>5, <2>1, AppendSpan
<1>p. (i + 1) + 1 = i + 2
  OBVIOUS
<1> HIDE DEF iv
<1>15. CASE iv[2] < a.s
  <2>1. ~a.in
    BY <1>4, <1>5, <1>10, <1>15
  <2>2. w = [out |-> Append(a.out, iv), s |-> a.s, t |-> a.t, in |-> a.in]
    BY <1>15 DEF MergeStep
  <2>3. w.out = Append(a.out, iv) /\ w.s = a.s /\ w.t = a.t /\ w.in = FALSE
    BY <1>5, <2>1, <2>2
  <2> HIDE DEF w
  <2>4. \A j \in 1 .. m + 1 : w.out[j][2] < w.s
    BY <1>5, <1>g, <1>15, <2>1, <2>3
  <2>5. \A j \in 1 .. m + 1, l \in i + 2 .. n : w.out[j][2] < q[l][1]
    BY <1>3, <1>14, <1>g, <2>3
  <2>6. ASSUME NEW x \in Nat
        PROVE  (CoversUpTo(w.out, m + 1, x) \/ (~w.in /\ w.s <= x /\ x < w.t))
                 <=> (CoversUpTo(q, i + 1, x) \/ (s <= x /\ x < t))
    BY <1>11, <1>12, <1>g, <2>1, <2>3, Zenon
  <2>7. Passing(w, q, i + 1, s, t)
    <3>1. Len(w.out) = m + 1 /\ w.out \in Seq(Span) /\ Spaced(w.out)
      BY <1>g, <2>3, Zenon
    <3>2. w.s \in Nat /\ w.t \in Nat /\ w.in \in BOOLEAN /\ w.s < w.t
      BY <1>5, <2>3, Zenon
    <3> QED
      BY <1>1, <1>p, <2>3, <2>4, <2>5, <2>6, <3>1, <3>2, Zenon DEF Passing
  <2> QED
    BY <2>7 DEF w, iv
<1>16. CASE ~(iv[2] < a.s) /\ iv[1] > a.t
  <2>1. CASE a.in
    <3>2. w = [out |-> Append(a.out, iv), s |-> a.s, t |-> a.t, in |-> TRUE]
      BY <1>16, <2>1 DEF MergeStep
    <3>3. w.out = Append(a.out, iv) /\ w.s = a.s /\ w.t = a.t /\ w.in = TRUE
      BY <3>2
    <3> HIDE DEF w
    <3>5. \A j \in 1 .. m + 1, l \in i + 2 .. n : w.out[j][2] < q[l][1]
      BY <1>3, <1>14, <1>g, <3>3
    <3>6. ASSUME NEW x \in Nat
          PROVE  (CoversUpTo(w.out, m + 1, x) \/ (~w.in /\ w.s <= x /\ x < w.t))
                   <=> (CoversUpTo(q, i + 1, x) \/ (s <= x /\ x < t))
      BY <1>11, <1>12, <1>g, <2>1, <3>3, Zenon
    <3>6a. \A l \in i + 2 .. n : w.t < q[l][1]
      BY <1>9, <2>1, <3>3
    <3>7. Passing(w, q, i + 1, s, t)
      <4>1. Len(w.out) = m + 1 /\ w.out \in Seq(Span) /\ Spaced(w.out)
        BY <1>g, <3>3, Zenon
      <4>2. w.s \in Nat /\ w.t \in Nat /\ w.in \in BOOLEAN /\ w.s < w.t
        BY <1>5, <3>3, Zenon
      <4> QED
        BY <1>1, <1>p, <3>3, <3>5, <3>6, <3>6a, <4>1, <4>2, Zenon DEF Passing
    <3> QED
      BY <3>7 DEF w, iv
  <2>2. CASE ~a.in
    <3>1. PICK mid \in Span : mid = <<a.s, a.t>>
      BY <1>5 DEF Span
    <3>1a. mid[1] = a.s /\ mid[2] = a.t
      BY <3>1
    <3>2. PICK o : o = Append(a.out, mid)
      OBVIOUS
    <3>3. /\ Spaced(o) /\ o \in Seq(Span) /\ Len(o) = m + 1
          /\ (\A j \in 1 .. m : o[j] = a.out[j]) /\ o[m + 1] = mid
          /\ \A x \in Nat : CoversUpTo(o, m + 1, x) <=> CoversUpTo(a.out, m, x) \/ (a.s <= x /\ x < a.t)
      <4>1. \A j \in 1 .. Len(a.out) : a.out[j][2] < mid[1]
        BY <1>2, <1>5, <2>2, <3>1a
      <4>2. /\ Spaced(o) /\ o \in Seq(Span) /\ Len(o) = Len(a.out) + 1
            /\ (\A j \in 1 .. Len(a.out) : o[j] = a.out[j]) /\ o[Len(a.out) + 1] = mid
            /\ \A x \in Nat : CoversUpTo(o, Len(a.out) + 1, x)
                 <=> CoversUpTo(a.out, Len(a.out), x) \/ (mid[1] <= x /\ x < mid[2])
        BY <1>5, <3>2, <4>1, AppendSpan
      <4> QED
        BY <1>2, <3>1a, <4>2, Zenon
    <3>4. \A j \in 1 .. Len(o) : o[j][2] < iv[1]
      <4>1. ASSUME NEW j \in 1 .. m + 1 PROVE o[j][2] < iv[1]
        <5>1. CASE j = m + 1
          BY <1>4, <1>5, <1>16, <3>1a, <3>3, <5>1
        <5>2. CASE j \in 1 .. m
          BY <1>8, <3>3, <5>2
        <5> QED
          BY <5>1, <5>2
      <4> QED
        BY <3>3, <4>1
    <3>5. PICK p : p = Append(o, iv)
      OBVIOUS
    <3>6. /\ Spaced(p) /\ p \in Seq(Span) /\ Len(p) = m + 2
          /\ (\A j \in 1 .. m + 1 : p[j] = o[j]) /\ p[m + 2] = iv
          /\ \A x \in Nat : CoversUpTo(p, m + 2, x) <=> CoversUpTo(o, m + 1, x) \/ (iv[1] <= x /\ x < iv[2])
      <4>1. /\ Spaced(p) /\ p \in Seq(Span) /\ Len(p) = Len(o) + 1
            /\ (\A j \in 1 .. Len(o) : p[j] = o[j]) /\ p[Len(o) + 1] = iv
            /\ \A x \in Nat : CoversUpTo(p, Len(o) + 1, x) <=> CoversUpTo(o, Len(o), x) \/ (iv[1] <= x /\ x < iv[2])
        BY <1>3, <3>3, <3>4, <3>5, AppendSpan
      <4>2. Len(o) + 1 = m + 2
        BY <3>3
      <4> QED
        BY <3>3, <4>1, <4>2
    <3>7. w = [out |-> p, s |-> a.s, t |-> a.t, in |-> TRUE]
      BY <1>16, <2>2, <3>1, <3>2, <3>5 DEF MergeStep
    <3>8. w.out = p /\ w.s = a.s /\ w.t = a.t /\ w.in = TRUE
      BY <3>7
    <3> HIDE DEF w
    <3>9. \A l \in i + 2 .. n : w.t < q[l][1] /\ iv[2] < q[l][1]
      BY <1>3, <1>4, <1>5, <1>13, <1>16, <3>8
    <3>10. ASSUME NEW j \in 1 .. m + 2, NEW l \in i + 2 .. n PROVE p[j][2] < q[l][1]
      <4>1. CASE j = m + 2
        BY <3>6, <3>9, <4>1
      <4>2. CASE j = m + 1
        <5>1. p[j] = mid
          BY <3>3, <3>6, <4>2
        <5> QED
          BY <3>1a, <3>8, <3>9, <5>1
      <4>3. CASE j \in 1 .. m
        <5>1. p[j] = a.out[j]
          BY <3>3, <3>6, <4>3
        <5> QED
          BY <1>14, <4>3, <5>1
      <4> QED
        BY <4>1, <4>2, <4>3
    <3>11. ASSUME NEW x \in Nat
           PROVE  (CoversUpTo(w.out, m + 2, x) \/ (~w.in /\ w.s <= x /\ x < w.t))
                    <=> (CoversUpTo(q, i + 1, x) \/ (s <= x /\ x < t))
      BY <1>11, <1>12, <2>2, <3>3, <3>6, <3>8, Zenon
    <3>12. Passing(w, q, i + 1, s, t)
      <4>1. Len(w.out) = m + 2 /\ w.out \in Seq(Span) /\ Spaced(w.out)
        BY <3>6, <3>8, Zenon
      <4>2. w.s \in Nat /\ w.t \in Nat /\ w.in \in BOOLEAN /\ w.s < w.t
        BY <1>5, <3>8, Zenon
      <4>3. \A j \in 1 .. m + 2, l \in i + 2 .. n : w.out[j][2] < q[l][1]
        BY <3>8, <3>10, Zenon
      <4> QED
        BY <1>1, <1>p, <3>8, <3>9, <3>11, <4>1, <4>2, <4>3, Zenon DEF Passing
    <3> QED
      BY <3>12 DEF w, iv
  <2> QED
    BY <1>5, <2>1, <2>2
<1>17. CASE ~(iv[2] < a.s) /\ ~(iv[1] > a.t)
  <2>1. ~a.in
    BY <1>10, <1>17, <1>4, <1>5
  <2>2. w = [out |-> a.out, s |-> IF iv[1] < a.s THEN iv[1] ELSE a.s,
             t |-> IF iv[2] > a.t THEN iv[2] ELSE a.t, in |-> a.in]
    BY <1>17 DEF MergeStep
  <2>3. /\ w.out = a.out /\ w.in = FALSE /\ w.s = (IF iv[1] < a.s THEN iv[1] ELSE a.s)
        /\ w.t = (IF iv[2] > a.t THEN iv[2] ELSE a.t)
    BY <1>5, <2>1, <2>2
  <2> HIDE DEF w
  <2>4. w.s \in Nat /\ w.t \in Nat /\ w.s < w.t
    BY <1>4, <1>5, <2>3
  <2>5. \A j \in 1 .. m : w.out[j][2] < w.s
    BY <1>5, <1>8, <2>1, <2>3
  <2>6. ASSUME NEW x \in Nat
        PROVE  (w.s <= x /\ x < w.t) <=> (a.s <= x /\ x < a.t) \/ (iv[1] <= x /\ x < iv[2])
    BY <1>4, <1>5, <1>17, <2>3
  <2>7. ASSUME NEW x \in Nat
        PROVE  (CoversUpTo(w.out, m, x) \/ (~w.in /\ w.s <= x /\ x < w.t))
                 <=> (CoversUpTo(q, i + 1, x) \/ (s <= x /\ x < t))
    BY <1>11, <1>12, <2>1, <2>3, <2>6, Zenon
  <2>8. Passing(w, q, i + 1, s, t)
    <3>1. Len(w.out) = m /\ w.out \in Seq(Span) /\ Spaced(w.out) /\ w.in \in BOOLEAN
      BY <1>2, <1>5, <2>3, Zenon
    <3>2. \A j \in 1 .. m, l \in i + 2 .. n : w.out[j][2] < q[l][1]
      BY <1>14, <2>3, Zenon
    <3> QED
      BY <1>1, <1>p, <2>3, <2>4, <2>5, <2>7, <3>1, <3>2, Zenon DEF Passing
  <2> QED
    BY <2>8 DEF w, iv
<1> QED
  BY <1>15, <1>16, <1>17 DEF iv

\* The whole pass.
LEMMA PassResult ==
  ASSUME NEW q, Spaced(q), NEW s \in Nat, NEW t \in Nat, s < t
  PROVE  Passing(MergePass(q, s, t), q, Len(q), s, t)
<1>1. PICK n \in Nat : n = Len(q)
  BY DEF Spaced
<1>2. PICK f : /\ f = [i \in 0 .. n |-> IF i = 0 THEN [out |-> <<>>, s |-> s, t |-> t, in |-> FALSE]
                                         ELSE MergeStep(f[i - 1], q[i])]
               /\ MergePass(q, s, t) = f[n]
  <2>1. Len(q) \in Nat
    BY <1>1
  <2>2. \E f : /\ f = [i \in 0 .. Len(q) |->
                          IF i = 0 THEN [out |-> <<>>, s |-> s, t |-> t, in |-> FALSE]
                          ELSE MergeStep(f[i - 1], q[i])]
               /\ MergePass(q, s, t) = f[Len(q)]
    BY <2>1, PassDefined
  <2> QED
    BY <1>1, <2>2, Zenon
<1> DEFINE T == {i \in 0 .. n : ~Passing(f[i], q, i, s, t)}
<1>3. T = {}
  <2> SUFFICES ASSUME T # {} PROVE FALSE
    OBVIOUS
  <2>1. PICK i \in T : \A m \in T : i <= m
    BY LeastOf, T \in SUBSET Nat
  <2>2. i \in 0 .. n /\ ~Passing(f[i], q, i, s, t)
    BY <2>1
  <2>3. CASE i = 0
    <3>1. f[0] = [out |-> <<>>, s |-> s, t |-> t, in |-> FALSE]
      BY <1>2
    <3>2. f[0].out = <<>> /\ f[0].s = s /\ f[0].t = t /\ f[0].in = FALSE
      BY <3>1
    <3>3. Len(<<>>) = 0 /\ <<>> \in Seq(Span)
      OBVIOUS
    <3>4. Spaced(<<>>)
      BY <3>3 DEF Spaced
    <3>5. \A x \in Nat : ~CoversUpTo(<<>>, 0, x) /\ ~CoversUpTo(q, 0, x)
      BY DEF CoversUpTo
    <3>6. /\ \A j \in 1 .. 0, l \in 0 + 1 .. Len(q) : f[0].out[j][2] < q[l][1]
          /\ \A j \in 1 .. 0 : f[0].out[j][2] < f[0].s
      OBVIOUS
    <3>7. FALSE \in BOOLEAN
      OBVIOUS
    <3>8. Passing(f[0], q, 0, s, t)
      BY <3>2, <3>3, <3>4, <3>5, <3>6, <3>7, Zenon DEF Passing
    <3> QED
      BY <2>2, <2>3, <3>8
  <2>4. CASE i # 0
    <3>1. PICK k \in Nat : i = k + 1
      BY <2>2, <2>4, i - 1 \in Nat
    <3>2. k \in 0 .. n /\ k < n /\ ~(i <= k)
      BY <2>2, <3>1
    <3>3. Passing(f[k], q, k, s, t)
      BY <2>1, <3>2
    <3>4. f[i] = MergeStep(f[k], q[k + 1])
      <4>1. f[i] = MergeStep(f[i - 1], q[i])
        BY <1>2, <2>2, <2>4
      <4>2. i - 1 = k
        BY <3>1
      <4> QED
        BY <3>1, <4>1, <4>2, Zenon
    <3>5. Passing(f[i], q, k + 1, s, t)
      BY <1>1, <3>2, <3>3, <3>4, PassStep
    <3> QED
      BY <2>2, <3>1, <3>5
  <2> QED
    BY <2>3, <2>4
<1>4. Passing(f[n], q, n, s, t)
  BY <1>3
<1> QED
  BY <1>1, <1>2, <1>4

\* addFrag: the list stays in order and apart, and covers what it covered and
\* the fragment, nothing else.
LEMMA AddFragExact ==
  ASSUME NEW q, Spaced(q), NEW s \in Nat, NEW t \in Nat, s < t
  PROVE  /\ Spaced(AddFrag(q, s, t))
         /\ \A x \in Nat : CoversUpTo(AddFrag(q, s, t), Len(AddFrag(q, s, t)), x)
              <=> CoversUpTo(q, Len(q), x) \/ (s <= x /\ x < t)
<1>1. PICK a : a = MergePass(q, s, t)
  OBVIOUS
<1>2. Passing(a, q, Len(q), s, t)
  BY <1>1, PassResult
<1>3. AddFrag(q, s, t) = IF a.in THEN a.out ELSE Append(a.out, <<a.s, a.t>>)
  BY <1>1 DEF AddFrag
<1>4. /\ Spaced(a.out) /\ a.s \in Nat /\ a.t \in Nat /\ a.s < a.t /\ a.in \in BOOLEAN
      /\ \A x \in Nat : (CoversUpTo(a.out, Len(a.out), x) \/ (~a.in /\ a.s <= x /\ x < a.t))
                      <=> (CoversUpTo(q, Len(q), x) \/ (s <= x /\ x < t))
      /\ ~a.in => \A j \in 1 .. Len(a.out) : a.out[j][2] < a.s
  BY <1>2 DEF Passing
<1>5. CASE a.in
  <2>1. AddFrag(q, s, t) = a.out
    BY <1>3, <1>5
  <2> QED
    BY <1>4, <1>5, <2>1, Zenon
<1>6. CASE ~a.in
  <2>1. PICK mid \in Span : mid = <<a.s, a.t>>
    BY <1>4 DEF Span
  <2>2. mid[1] = a.s /\ mid[2] = a.t
    BY <2>1
  <2>3. \A j \in 1 .. Len(a.out) : a.out[j][2] < mid[1]
    BY <1>4, <1>6, <2>2, Zenon
  <2>4. PICK p : p = Append(a.out, mid)
    OBVIOUS
  <2>5. /\ Spaced(p) /\ Len(p) = Len(a.out) + 1
        /\ \A x \in Nat : CoversUpTo(p, Len(a.out) + 1, x)
              <=> CoversUpTo(a.out, Len(a.out), x) \/ (mid[1] <= x /\ x < mid[2])
    BY <1>4, <2>3, <2>4, AppendSpan
  <2>6. AddFrag(q, s, t) = p
    BY <1>3, <1>6, <2>1, <2>4
  <2>7. \A x \in Nat : CoversUpTo(p, Len(p), x) <=> CoversUpTo(a.out, Len(a.out), x) \/ (a.s <= x /\ x < a.t)
    BY <2>2, <2>5, Zenon
  <2> QED
    BY <1>4, <1>6, <2>5, <2>6, <2>7, Zenon
<1> QED
  BY <1>4, <1>5, <1>6

-----------------------------------------------------------------------------
(* ClientHello over QUIC.                                                  *)

RowOK(q) == Spaced(q.ivs) /\ q.first \in 0 .. NotYet /\ q.last \in 0 .. MaxQTime
IsTab(t) == t = [k \in QKey |-> t[k]]
\* Rows that stand for the table's: each keeps its intervals or has none.
RowsFrom(rows) ==
  /\ IsTab(rows) /\ \A k \in QKey : RowOK(rows[k]) /\ rows[k].ivs \in {qtab[k].ivs, <<>>}
  /\ IsFiniteSet(Opened0(rows)) /\ Cardinality(Opened0(rows)) <= QMaxEntries
Marks(fin) == {u \in QTuple : fin[u] # NotYet}
FinOK(fin) ==
  /\ fin \in [QTuple -> 0 .. NotYet]
  /\ IsFiniteSet(Marks(fin)) /\ Cardinality(Marks(fin)) <= QMaxEntries

\* The list of each entry covers exactly what was put into its data.
QuicTable ==
  /\ IsTab(qtab) /\ recv = [k \in QKey |-> recv[k]]
  /\ \A k \in QKey : RowOK(qtab[k]) /\ Bytes(qtab[k].ivs) = recv[k] /\ recv[k] \in SUBSET (0 .. QMaxBytes - 1)
QuicLimit == IsFiniteSet(Opened0(qtab)) /\ Cardinality(Opened0(qtab)) <= QMaxEntries
QuicRest ==
  /\ qclk \in 0 .. MaxQTime /\ qsweep \in 0 .. MaxQTime
  /\ qtold \in [QTuple -> [n : 0 .. MaxQTold, bytes : SUBSET Nat]]
QuicInv == QuicTable /\ QuicLimit /\ FinOK(qfin) /\ QuicRest

\* The bytes of a list.
LEMMA BytesAre ==
  ASSUME NEW q, Spaced(q)
  PROVE  /\ Bytes(q) \in SUBSET Nat
         /\ \A x \in Nat : x \in Bytes(q) <=> CoversUpTo(q, Len(q), x)
<1>1. q \in Seq(Span) /\ DOMAIN q = 1 .. Len(q)
  BY DEF Spaced
<1>2. \A j \in 1 .. Len(q) : q[j] \in Span
  BY <1>1, ElementOfSeq
<1>3. \A j \in 1 .. Len(q) : q[j][1] \in Nat /\ q[j][2] \in Nat
  BY <1>2 DEF Span
<1>4. ASSUME NEW x PROVE x \in Bytes(q) <=> \E j \in 1 .. Len(q) : x \in q[j][1] .. q[j][2] - 1
  BY <1>1, Zenon DEF Bytes
<1>5. ASSUME NEW x \in Bytes(q) PROVE x \in Nat
  <2>1. PICK j \in 1 .. Len(q) : x \in q[j][1] .. q[j][2] - 1
    BY <1>4
  <2> QED
    BY <1>3, <2>1
<1>6. ASSUME NEW x \in Nat PROVE x \in Bytes(q) <=> CoversUpTo(q, Len(q), x)
  <2>1. \A j \in 1 .. Len(q) : x \in q[j][1] .. q[j][2] - 1 <=> q[j][1] <= x /\ x < q[j][2]
    BY <1>3
  <2> QED
    BY <1>4, <2>1, Zenon DEF CoversUpTo
<1> QED
  BY <1>5, <1>6

\* No interval, no byte.
LEMMA NoSpan == Spaced(<<>>) /\ Bytes(<<>>) = {}
<1>1. Len(<<>>) = 0 /\ <<>> \in Seq(Span)
  OBVIOUS
<1>2. Spaced(<<>>)
  BY <1>1 DEF Spaced
<1>3. \A x \in Nat : ~CoversUpTo(<<>>, Len(<<>>), x)
  BY <1>1 DEF CoversUpTo
<1> QED
  BY <1>2, <1>3, BytesAre

\* A fragment adds its bytes.
LEMMA FragBytes ==
  ASSUME NEW q, Spaced(q), NEW s \in Nat, NEW t \in Nat, s < t
  PROVE  Spaced(AddFrag(q, s, t)) /\ Bytes(AddFrag(q, s, t)) = Bytes(q) \cup (s .. t - 1)
<1>1. PICK p : p = AddFrag(q, s, t)
  OBVIOUS
<1>2. Spaced(p) /\ \A x \in Nat : CoversUpTo(p, Len(p), x) <=> CoversUpTo(q, Len(q), x) \/ (s <= x /\ x < t)
  BY <1>1, AddFragExact
<1>3. Bytes(p) \in SUBSET Nat /\ Bytes(q) \in SUBSET Nat
  BY <1>2, BytesAre
<1>4. \A x \in Nat : x \in Bytes(p) <=> x \in Bytes(q) \/ (s <= x /\ x < t)
  BY <1>2, BytesAre
<1>5. \A x \in Nat : x \in s .. t - 1 <=> s <= x /\ x < t
  OBVIOUS
<1>6. s .. t - 1 \in SUBSET Nat
  OBVIOUS
<1>7. Bytes(p) = Bytes(q) \cup (s .. t - 1)
  BY <1>3, <1>4, <1>5, <1>6, Zenon
<1> QED
  BY <1>1, <1>2, <1>7

\* The prefix is as long as the bytes from 0 on go.
LEMMA PrefixIs ==
  ASSUME NEW q, Spaced(q)
  PROVE  Prefix(q) \in Nat /\ 0 .. Prefix(q) - 1 \subseteq Bytes(q) /\ Prefix(q) \notin Bytes(q)
<1>1. q \in Seq(Span) /\ \A i, j \in 1 .. Len(q) : i < j => q[i][2] < q[j][1]
  BY DEF Spaced
<1>2. PICK n \in Nat : n = Len(q)
  BY <1>1
<1>3. \A j \in 1 .. n : q[j] \in Span
  BY <1>1, <1>2, ElementOfSeq
<1>4. \A j \in 1 .. n : q[j][1] \in Nat /\ q[j][2] \in Nat /\ q[j][1] < q[j][2]
  BY <1>3 DEF Span
<1>5. CASE q = <<>>
  BY <1>5, NoSpan DEF Prefix
<1>6. CASE q # <<>>
  <2>1. n >= 1
    BY <1>1, <1>2, <1>6
  <2>2. \A j \in 1 .. n : j = 1 \/ q[1][2] < q[j][1]
    BY <1>1, <1>2, <2>1
  <2>3. PICK lo \in Nat, hi \in Nat : lo = q[1][1] /\ hi = q[1][2] /\ lo < hi
    BY <1>4, <2>1
  <2>4. CASE lo # 0
    <3>1. Prefix(q) = 0
      BY <1>6, <2>3, <2>4 DEF Prefix
    <3>2. ASSUME NEW j \in 1 .. n PROVE ~(q[j][1] <= 0)
      BY <1>4, <2>2, <2>3, <2>4
    <3>3. ~CoversUpTo(q, n, 0)
      BY <3>2 DEF CoversUpTo
    <3>4. 0 \notin Bytes(q)
      BY <1>2, <3>3, BytesAre
    <3> QED
      BY <3>1, <3>4
  <2>5. CASE lo = 0
    <3>1. Prefix(q) = hi
      BY <1>6, <2>3, <2>5 DEF Prefix
    <3>2. ASSUME NEW x \in 0 .. hi - 1 PROVE x \in Bytes(q)
      <4>1. 1 \in 1 .. n /\ q[1][1] <= x /\ x < q[1][2]
        BY <2>1, <2>3, <2>5
      <4>2. CoversUpTo(q, n, x)
        BY <4>1 DEF CoversUpTo
      <4> QED
        BY <1>2, <4>2, BytesAre
    <3>3. ASSUME NEW j \in 1 .. n PROVE ~(q[j][1] <= hi /\ hi < q[j][2])
      <4>1. CASE j = 1
        BY <2>3, <4>1
      <4>2. CASE j # 1
        BY <1>4, <2>2, <2>3, <4>2
      <4> QED
        BY <4>1, <4>2
    <3>4. ~CoversUpTo(q, n, hi)
      BY <3>3 DEF CoversUpTo
    <3>5. hi \notin Bytes(q)
      BY <1>2, <3>4, BytesAre
    <3> QED
      BY <3>1, <3>2, <3>5
  <2> QED
    BY <2>4, <2>5
<1> QED
  BY <1>5, <1>6

\* No entry, and a new one.
LEMMA EmptyRows ==
  ASSUME qclk \in 0 .. MaxQTime
  PROVE  /\ RowOK(NoQ) /\ NoQ.ivs = <<>> /\ NoQ.first = NotYet
         /\ RowOK(NewQ) /\ NewQ.ivs = <<>> /\ NewQ.first = qclk /\ qclk # NotYet /\ NotYet \in Nat
<1>1. MaxQTime \in Nat
  BY QuicAssumption
<1>2. NoQ.ivs = <<>> /\ NoQ.first = NotYet /\ NoQ.last = 0 /\ NewQ.ivs = <<>> /\ NewQ.first = qclk /\ NewQ.last = qclk
  BY DEF NoQ, NewQ
<1>3. NotYet = MaxQTime + 1
  BY DEF NotYet
<1>4. qclk \in 0 .. NotYet /\ NotYet \in 0 .. NotYet /\ 0 \in 0 .. MaxQTime /\ qclk # NotYet /\ NotYet \in Nat
  BY <1>1, <1>3
<1> QED
  BY <1>2, <1>4, NoSpan, Zenon DEF RowOK

\* What is kept of the data is what the lists cover.
LEMMA KeepsBytes ==
  ASSUME QuicTable, NEW rows, IsTab(rows), \A k \in QKey : rows[k].ivs \in {qtab[k].ivs, <<>>}
  PROVE  /\ Keeps(rows) = [k \in QKey |-> Keeps(rows)[k]]
         /\ \A k \in QKey : /\ Keeps(rows)[k] = Bytes(rows[k].ivs)
                            /\ Keeps(rows)[k] \in SUBSET (0 .. QMaxBytes - 1)
<1>1. DOMAIN recv = QKey /\ \A k \in QKey : Bytes(qtab[k].ivs) = recv[k] /\ recv[k] \in SUBSET (0 .. QMaxBytes - 1)
  BY DEF QuicTable
<1>2. Keeps(rows) = [k \in QKey |-> IF rows[k].ivs = <<>> THEN {} ELSE recv[k]]
  BY <1>1 DEF Keeps
<1>3. ASSUME NEW k \in QKey
      PROVE  Keeps(rows)[k] = Bytes(rows[k].ivs) /\ Keeps(rows)[k] \in SUBSET (0 .. QMaxBytes - 1)
  <2>1. CASE rows[k].ivs = <<>>
    BY <1>2, <2>1, NoSpan
  <2>2. CASE rows[k].ivs # <<>>
    <3>1. rows[k].ivs = qtab[k].ivs /\ Keeps(rows)[k] = recv[k]
      BY <1>2, <2>2
    <3> QED
      BY <1>1, <3>1
  <2> QED
    BY <2>1, <2>2
<1> QED
  BY <1>2, <1>3

\* A part of the table: every row is there as it was, or not at all.
Thinned(t) == IsTab(t) /\ \A k \in QKey : t[k] \in {qtab[k], NoQ}

\* Rows removed by a sweep or an eviction leave a table that stands for the old one.
LEMMA ThinnedFacts ==
  ASSUME QuicInv, NEW t, Thinned(t)
  PROVE  /\ RowsFrom(t) /\ Opened0(t) \in SUBSET Opened0(qtab)
         /\ Cardinality(Opened0(t)) \in Nat /\ QMaxEntries \in Nat
<1>1. \A k \in QKey : RowOK(qtab[k]) /\ RowOK(NoQ) /\ NoQ.ivs = <<>> /\ NoQ.first = NotYet
  BY EmptyRows DEF QuicInv, QuicTable, QuicRest
<1>2. \A k \in QKey : RowOK(t[k]) /\ t[k].ivs \in {qtab[k].ivs, <<>>}
  BY <1>1 DEF Thinned
<1>3. Opened0(t) \in SUBSET Opened0(qtab)
  BY <1>1 DEF Thinned, Opened0
<1>4. IsFiniteSet(Opened0(t)) /\ Cardinality(Opened0(t)) <= Cardinality(Opened0(qtab))
  BY <1>3, FS_Subset DEF QuicInv, QuicLimit
<1>5. Cardinality(Opened0(t)) \in Nat /\ Cardinality(Opened0(qtab)) \in Nat /\ QMaxEntries \in Nat
  BY <1>4, FS_CardinalityType, QuicAssumption DEF QuicInv, QuicLimit
<1>6. Cardinality(Opened0(t)) <= QMaxEntries
  BY <1>4, <1>5 DEF QuicInv, QuicLimit
<1> QED
  BY <1>2, <1>3, <1>4, <1>5, <1>6 DEF RowsFrom, Thinned

\* The sweep, and the removal of one entry.
LEMMA SweepThins ==
  ASSUME QuicTable, NEW t, Thinned(t)
  PROVE  Thinned(SweptTab(t)) /\ \A k \in QKey : Thinned([t EXCEPT ![k] = NoQ])
<1>1. DOMAIN qtab = QKey /\ DOMAIN t = QKey /\ \A k \in QKey : t[k] \in {qtab[k], NoQ}
  BY DEF QuicTable, IsTab, Thinned
<1>2. SweptTab(t) = [k \in QKey |-> IF Older0(t[k].first) THEN NoQ ELSE t[k]]
  BY <1>1, Zenon DEF SweptTab
<1>3. Thinned(SweptTab(t))
  BY <1>1, <1>2 DEF Thinned, IsTab
<1>4. ASSUME NEW k \in QKey PROVE Thinned([t EXCEPT ![k] = NoQ])
  BY <1>1 DEF Thinned, IsTab
<1> QED
  BY <1>3, <1>4

\* A table without one entry more.
LEMMA EnterFits ==
  ASSUME QuicInv, NEW t, Thinned(t), NEW k \in QKey, NEW t2 \in EnterInto(t)
  PROVE  Thinned(t2) /\ RowsFrom([t2 EXCEPT ![k] = NewQ])
<1> DEFINE swept == SweptTab(t)
           open == Opened0(swept)
           lru == {d \in open : \A o \in open : swept[d].last <= swept[o].last}
           rows == [t2 EXCEPT ![k] = NewQ]
<1>1. \/ Cardinality(Opened0(t)) < QMaxEntries /\ t2 = t
      \/ Cardinality(open) < QMaxEntries /\ t2 = swept
      \/ \E d \in lru : t2 = [swept EXCEPT ![d] = NoQ]
  BY Zenon DEF EnterInto
<1>2. Thinned(swept) /\ QuicTable
  BY SweepThins DEF QuicInv
<1>3. Thinned(t2) /\ IsFiniteSet(Opened0(t2)) /\ Cardinality(Opened0(t2)) \in Nat /\ Cardinality(Opened0(t2)) < QMaxEntries
  <2>1. CASE Cardinality(Opened0(t)) < QMaxEntries /\ t2 = t
    BY <2>1, ThinnedFacts DEF RowsFrom
  <2>2. CASE Cardinality(open) < QMaxEntries /\ t2 = swept
    BY <1>2, <2>2, ThinnedFacts DEF RowsFrom
  <2>3. CASE \E d \in lru : t2 = [swept EXCEPT ![d] = NoQ]
    <3>1. PICK d \in open : t2 = [swept EXCEPT ![d] = NoQ]
      BY <2>3
    <3>2. d \in QKey /\ DOMAIN swept = QKey /\ NoQ.first = NotYet
      BY <1>2, EmptyRows DEF Opened0, Thinned, IsTab, QuicInv, QuicRest
    <3>3. /\ IsFiniteSet(open) /\ Cardinality(open) \in Nat /\ Cardinality(open) <= QMaxEntries
          /\ QMaxEntries \in Nat
      BY <1>2, ThinnedFacts DEF RowsFrom
    <3> HIDE DEF swept
    <3>4. Opened0(t2) = open \ {d}
      BY <3>1, <3>2 DEF Opened0
    <3>5. Thinned(t2)
      BY <1>2, <3>1, <3>2, SweepThins
    <3>6. IsFiniteSet(open \ {d}) /\ Cardinality(open \ {d}) = Cardinality(open) - 1
      BY <3>1, <3>3, FS_RemoveElement
    <3> HIDE DEF open
    <3>7. IsFiniteSet(Opened0(t2)) /\ Cardinality(Opened0(t2)) = Cardinality(open) - 1
      BY <3>4, <3>6, Zenon
    <3>8. Cardinality(Opened0(t2)) \in Nat
      BY <3>7, FS_CardinalityType
    <3> QED
      BY <3>3, <3>5, <3>7, <3>8
  <2> QED
    BY <1>1, <2>1, <2>2, <2>3
<1>4. RowsFrom(t2) /\ DOMAIN t2 = QKey /\ QMaxEntries \in Nat
  BY <1>3, ThinnedFacts DEF Thinned, IsTab
<1>5. RowOK(NewQ) /\ NewQ.ivs = <<>>
  BY EmptyRows DEF QuicInv, QuicRest
<1>6. IsTab(rows) /\ \A d \in QKey : RowOK(rows[d]) /\ rows[d].ivs \in {qtab[d].ivs, <<>>}
  BY <1>4, <1>5 DEF RowsFrom, IsTab
<1>7. Opened0(rows) \in SUBSET (Opened0(t2) \cup {k})
  BY <1>4 DEF Opened0
<1>8. IsFiniteSet(Opened0(t2) \cup {k}) /\ Cardinality(Opened0(t2) \cup {k}) <= Cardinality(Opened0(t2)) + 1
  <2>1. CASE k \in Opened0(t2)
    <3>1. Opened0(t2) \cup {k} = Opened0(t2)
      BY <2>1
    <3>2. Cardinality(Opened0(t2)) <= Cardinality(Opened0(t2)) + 1
      BY <1>3
    <3> QED
      BY <1>3, <3>1, <3>2, Zenon
  <2>2. CASE k \notin Opened0(t2)
    <3>1. IsFiniteSet(Opened0(t2) \cup {k}) /\ Cardinality(Opened0(t2) \cup {k}) = Cardinality(Opened0(t2)) + 1
      BY <1>3, <2>2, FS_AddElement
    <3> QED
      BY <1>3, <3>1
  <2> QED
    BY <2>1, <2>2
<1>9. IsFiniteSet(Opened0(rows)) /\ Cardinality(Opened0(rows)) <= Cardinality(Opened0(t2) \cup {k})
  BY <1>7, <1>8, FS_Subset
<1>10. Cardinality(Opened0(rows)) \in Nat /\ Cardinality(Opened0(t2) \cup {k}) \in Nat
  BY <1>8, <1>9, FS_CardinalityType
<1> HIDE DEF rows
<1>11. Cardinality(Opened0(rows)) <= QMaxEntries
  BY <1>3, <1>4, <1>8, <1>9, <1>10
<1>12. RowsFrom(rows)
  BY <1>6, <1>9, <1>11, Zenon DEF RowsFrom
<1> QED
  BY <1>3, <1>12 DEF rows

\* Marks that stay are marks that were.
LEMMA MarksShrink ==
  ASSUME FinOK(qfin), NEW fin \in [QTuple -> 0 .. NotYet], \A u \in QTuple : fin[u] \in {qfin[u], NotYet}
  PROVE  FinOK(fin)
<1>1. Marks(fin) \in SUBSET Marks(qfin)
  BY DEF Marks
<1>2. IsFiniteSet(Marks(fin)) /\ Cardinality(Marks(fin)) <= Cardinality(Marks(qfin))
  BY <1>1, FS_Subset DEF FinOK
<1>3. Cardinality(Marks(fin)) \in Nat /\ Cardinality(Marks(qfin)) \in Nat /\ QMaxEntries \in Nat
  BY <1>2, FS_CardinalityType, QuicAssumption DEF FinOK
<1> QED
  BY <1>2, <1>3 DEF FinOK

\* markFinishedLocked stays within the limit.
LEMMA MarkFits ==
  ASSUME qclk \in 0 .. MaxQTime, NEW u \in QTuple, NEW fin, FinOK(fin), NEW f \in MarkFinished(u, fin)
  PROVE  FinOK(f)
<1> DEFINE marks == {v \in QTuple : fin[v] # NotYet}
           old == {v \in marks : \A o \in marks : fin[v] <= fin[o]}
<1>0. marks = Marks(fin)
  BY DEF Marks
<1>1. \/ u \notin marks /\ \E v \in old : f = [fin EXCEPT ![v] = NotYet, ![u] = qclk]
      \/ ~(u \notin marks /\ Cardinality(marks) >= QMaxEntries) /\ f = [fin EXCEPT ![u] = qclk]
  BY Zenon DEF MarkFinished
<1>2. qclk \in 0 .. NotYet /\ NotYet \in 0 .. NotYet /\ qclk # NotYet
  <2>1. MaxQTime \in Nat /\ NotYet = MaxQTime + 1
    BY QuicAssumption DEF NotYet
  <2> QED
    BY <2>1
<1>3. /\ fin \in [QTuple -> 0 .. NotYet] /\ IsFiniteSet(marks) /\ Cardinality(marks) <= QMaxEntries
      /\ Cardinality(marks) \in Nat /\ QMaxEntries \in Nat
  BY <1>0, FS_CardinalityType, QuicAssumption DEF FinOK
<1>4. CASE u \notin marks /\ \E v \in old : f = [fin EXCEPT ![v] = NotYet, ![u] = qclk]
  <2>1. PICK v \in marks : f = [fin EXCEPT ![v] = NotYet, ![u] = qclk]
    BY <1>4
  <2>2. v \in QTuple /\ v # u
    BY <1>4, <2>1
  <2>3. f \in [QTuple -> 0 .. NotYet] /\ Marks(f) = (marks \ {v}) \cup {u}
    BY <1>2, <1>3, <2>1, <2>2 DEF Marks
  <2> HIDE DEF marks, old
  <2>4. IsFiniteSet(marks \ {v}) /\ Cardinality(marks \ {v}) = Cardinality(marks) - 1
    BY <1>3, <2>1, FS_RemoveElement
  <2>5. u \notin marks \ {v}
    BY <1>4
  <2>6. /\ IsFiniteSet((marks \ {v}) \cup {u})
        /\ Cardinality((marks \ {v}) \cup {u}) = Cardinality(marks \ {v}) + 1
    BY <2>4, <2>5, FS_AddElement
  <2> QED
    BY <1>3, <2>3, <2>4, <2>6 DEF FinOK
<1>5. CASE ~(u \notin marks /\ Cardinality(marks) >= QMaxEntries) /\ f = [fin EXCEPT ![u] = qclk]
  <2>1. f \in [QTuple -> 0 .. NotYet] /\ Marks(f) = marks \cup {u}
    BY <1>2, <1>3, <1>5 DEF Marks
  <2> HIDE DEF marks, old
  <2>2. CASE u \in marks
    <3>1. marks \cup {u} = marks
      BY <2>2
    <3> QED
      BY <1>3, <2>1, <3>1 DEF FinOK
  <2>3. CASE u \notin marks
    <3>1. IsFiniteSet(marks \cup {u}) /\ Cardinality(marks \cup {u}) = Cardinality(marks) + 1
      BY <1>3, <2>3, FS_AddElement
    <3>2. Cardinality(marks) < QMaxEntries
      BY <1>3, <1>5, <2>3
    <3> QED
      BY <1>3, <2>1, <3>1, <3>2 DEF FinOK
  <2> QED
    BY <2>2, <2>3
<1> QED
  BY <1>1, <1>4, <1>5

\* What an Initial packet of key k does: nothing but forgetting, or a fragment.
QuicDoes(k, s, t) ==
  /\ UNCHANGED qclk /\ qsweep' \in {qclk, qsweep} /\ qtold[k.tuple].n < MaxQTold
  /\ \E rows, fin : /\ RowsFrom(rows) /\ FinOK(fin)
                    /\ \/ Ignored(rows, fin)
                       \/ k.dcid = "orig" /\ Took(k, rows, fin, s, t)

\* handleInitial ends in an ignored packet or in one that was taken, on rows
\* that stand for the table's.
LEMMA InitialCases ==
  ASSUME QuicInv, NEW u \in QTuple, NEW d \in Dcid, NEW s \in Nat, NEW t \in Nat, HandleInitial(u, d, s, t)
  PROVE  QuicDoes([tuple |-> u, dcid |-> d], s, t)
<1> DEFINE k == [tuple |-> u, dcid |-> d]
           sweeps == qclk - qsweep > QTTL
           tab0 == IF sweeps THEN SweptTab(qtab) ELSE qtab
           fin0 == IF sweeps THEN SweptFin ELSE qfin
           tab1 == IF Older0(tab0[k].first) THEN [tab0 EXCEPT ![k] = NoQ] ELSE tab0
           known == tab1[k].first # NotYet
<1>1. /\ UNCHANGED qclk /\ qtold[u].n < MaxQTold
      /\ \/ Ignored(tab1, fin0) /\ qsweep' \in {qclk, qsweep}
         \/ \E tab2 \in IF known THEN {tab1} ELSE EnterInto(tab1) :
              /\ qsweep' \in {qclk, qsweep}
              /\ \/ d # "orig" /\ Ignored(tab2, fin0)
                 \/ d = "orig" /\ Took(k, IF known THEN tab2 ELSE [tab2 EXCEPT ![k] = NewQ], fin0, s, t)
  <2>1. \A c : (IF c THEN qclk ELSE qsweep) \in {qclk, qsweep}
    OBVIOUS
  <2> QED
    BY <2>1, Zenon DEF HandleInitial
<1>2. k \in QKey /\ k.tuple = u /\ k.dcid = d
  BY DEF QKey
<1> HIDE DEF k
<1>3. Thinned(qtab) /\ QuicTable
  BY DEF QuicInv, QuicTable, Thinned
<1>4. Thinned(tab0)
  BY <1>3, SweepThins
<1>5. Thinned(tab1)
  BY <1>2, <1>3, <1>4, SweepThins
<1>6. FinOK(fin0)
  <2>1. CASE sweeps
    <3>1. qfin \in [QTuple -> 0 .. NotYet] /\ NotYet \in 0 .. NotYet
      BY QuicAssumption DEF QuicInv, FinOK, NotYet
    <3>2. SweptFin \in [QTuple -> 0 .. NotYet] /\ \A v \in QTuple : SweptFin[v] \in {qfin[v], NotYet}
      BY <3>1 DEF SweptFin
    <3>3. FinOK(SweptFin)
      BY <3>2, MarksShrink DEF QuicInv
    <3> QED
      BY <2>1, <3>3
  <2>2. CASE ~sweeps
    BY <2>2 DEF QuicInv
  <2> QED
    BY <2>1, <2>2
<1> HIDE DEF sweeps, tab0, fin0, tab1
<1>7. CASE Ignored(tab1, fin0) /\ qsweep' \in {qclk, qsweep}
  <2>1. RowsFrom(tab1)
    BY <1>5, ThinnedFacts
  <2> QED
    BY <1>1, <1>2, <1>6, <1>7, <2>1, Zenon DEF QuicDoes, k
<1>8. CASE \E tab2 \in IF known THEN {tab1} ELSE EnterInto(tab1) :
              /\ qsweep' \in {qclk, qsweep}
              /\ \/ d # "orig" /\ Ignored(tab2, fin0)
                 \/ d = "orig" /\ Took(k, IF known THEN tab2 ELSE [tab2 EXCEPT ![k] = NewQ], fin0, s, t)
  <2>1. PICK tab2 \in IF known THEN {tab1} ELSE EnterInto(tab1) :
              /\ qsweep' \in {qclk, qsweep}
              /\ \/ d # "orig" /\ Ignored(tab2, fin0)
                 \/ d = "orig" /\ Took(k, IF known THEN tab2 ELSE [tab2 EXCEPT ![k] = NewQ], fin0, s, t)
    BY <1>8, Zenon
  <2>2. PICK rows : rows = IF known THEN tab2 ELSE [tab2 EXCEPT ![k] = NewQ]
    OBVIOUS
  <2>3. RowsFrom(tab2) /\ RowsFrom(rows)
    <3>1. CASE known
      <4>1. tab2 = tab1 /\ rows = tab1
        BY <2>1, <2>2, <3>1
      <4> QED
        BY <1>5, <4>1, ThinnedFacts
    <3>2. CASE ~known
      <4>1. tab2 \in EnterInto(tab1) /\ rows = [tab2 EXCEPT ![k] = NewQ]
        BY <2>1, <2>2, <3>2
      <4>2. Thinned(tab2) /\ RowsFrom(rows)
        BY <1>2, <1>5, <4>1, EnterFits
      <4> QED
        BY <4>2, ThinnedFacts
    <3> QED
      BY <3>1, <3>2
  <2>4. CASE d # "orig" /\ Ignored(tab2, fin0)
    BY <1>1, <1>2, <1>6, <2>1, <2>3, <2>4, Zenon DEF QuicDoes, k
  <2>5. CASE d = "orig" /\ Took(k, rows, fin0, s, t)
    BY <1>1, <1>2, <1>6, <2>1, <2>3, <2>5, Zenon DEF QuicDoes, k
  <2> QED
    BY <2>1, <2>2, <2>4, <2>5
<1> QED
  BY <1>1, <1>7, <1>8

\* The three things a fragment does: too far or no hello, more of it, the whole.
TookSome(k, rows, s, t) ==
  LET ivs == AddFrag(rows[k].ivs, s, t) IN
  /\ ~(t > QMaxBytes) /\ ~Hopeless(k.tuple, Prefix(ivs)) /\ ~Whole0(k.tuple, Prefix(ivs))
  /\ qtab' = [rows EXCEPT ![k] = Touched(rows[k], ivs, rows[k].done)]
  /\ recv' = [Keeps(rows) EXCEPT ![k] = Keeps(rows)[k] \cup s .. t - 1] /\ UNCHANGED qtold
TookAll(k, rows, s, t) ==
  LET ivs == AddFrag(rows[k].ivs, s, t) IN
  /\ ~(t > QMaxBytes) /\ ~Hopeless(k.tuple, Prefix(ivs)) /\ Whole0(k.tuple, Prefix(ivs))
  /\ qtab' = [rows EXCEPT ![k] = NoQ] /\ recv' = [Keeps(rows) EXCEPT ![k] = {}]
  /\ qtold' = [qtold EXCEPT ![k.tuple] =
         [n |-> @.n + 1, bytes |-> (Keeps(rows)[k] \cup s .. t - 1) \cap (0 .. QHello[k.tuple] - 1)]]
TookNone(k, rows) ==
  /\ qtab' = [rows EXCEPT ![k] = Touched(rows[k], <<>>, TRUE)]
  /\ recv' = [Keeps(rows) EXCEPT ![k] = {}] /\ UNCHANGED qtold

\* The three outcomes of a packet that was decrypted.
LEMMA TookCases ==
  ASSUME NEW k, NEW rows, NEW fin, NEW s, NEW t, Took(k, rows, fin, s, t)
  PROVE  /\ qfin' = fin \/ qfin' \in MarkFinished(k.tuple, fin)
         /\ TookNone(k, rows) \/ TookSome(k, rows, s, t) \/ TookAll(k, rows, s, t)
<1> DEFINE hopeless == t > QMaxBytes \/ Hopeless(k.tuple, Prefix(AddFrag(rows[k].ivs, s, t)))
           whole == Whole0(k.tuple, Prefix(AddFrag(rows[k].ivs, s, t)))
<1>1. CASE hopeless
  BY <1>1, Zenon DEF Took, TookNone
<1>2. CASE ~hopeless /\ ~whole
  BY <1>2, Zenon DEF Took, TookSome
<1>3. CASE ~hopeless /\ whole
  BY <1>3, Zenon DEF Took, TookAll
<1> QED
  BY <1>1, <1>2, <1>3

\* A row is put in the place of that of k.
LEMMA RowPut ==
  ASSUME QuicInv, NEW rows, RowsFrom(rows), NEW k \in QKey, NEW q, RowOK(q),
         q.first \in {rows[k].first, NotYet}, Bytes(q.ivs) \in SUBSET (0 .. QMaxBytes - 1),
         qtab' = [rows EXCEPT ![k] = q], recv' = [Keeps(rows) EXCEPT ![k] = Bytes(q.ivs)]
  PROVE  /\ QuicTable' /\ QuicLimit' /\ qtab'[k] = q
         /\ \A d \in QKey \ {k} : qtab'[d] = rows[d]
<1>1. IsTab(rows) /\ \A d \in QKey : RowOK(rows[d]) /\ rows[d].ivs \in {qtab[d].ivs, <<>>}
  BY DEF RowsFrom
<1>2. /\ Keeps(rows) = [d \in QKey |-> Keeps(rows)[d]]
      /\ \A d \in QKey : /\ Keeps(rows)[d] = Bytes(rows[d].ivs)
                         /\ Keeps(rows)[d] \in SUBSET (0 .. QMaxBytes - 1)
  BY <1>1, KeepsBytes DEF QuicInv
<1>3. DOMAIN rows = QKey /\ DOMAIN Keeps(rows) = QKey
  BY <1>1, <1>2 DEF IsTab
<1>4. qtab' = [d \in QKey |-> qtab'[d]] /\ qtab'[k] = q /\ \A d \in QKey \ {k} : qtab'[d] = rows[d]
  BY <1>3
<1>5. /\ recv' = [d \in QKey |-> recv'[d]] /\ recv'[k] = Bytes(q.ivs)
      /\ \A d \in QKey \ {k} : recv'[d] = Keeps(rows)[d]
  BY <1>3
<1>6. ASSUME NEW d \in QKey
      PROVE  RowOK(qtab'[d]) /\ Bytes(qtab'[d].ivs) = recv'[d] /\ recv'[d] \in SUBSET (0 .. QMaxBytes - 1)
  <2>1. CASE d = k
    BY <1>4, <1>5, <2>1
  <2>2. CASE d # k
    <3>1. qtab'[d] = rows[d] /\ recv'[d] = Keeps(rows)[d]
      BY <1>4, <1>5, <2>2
    <3> QED
      BY <1>1, <1>2, <3>1
  <2> QED
    BY <2>1, <2>2
<1>7. QuicTable'
  BY <1>4, <1>5, <1>6 DEF QuicTable, IsTab, RowOK
<1>8. Opened0(qtab') \in SUBSET Opened0(rows)
  BY <1>4 DEF Opened0
<1>9. IsFiniteSet(Opened0(qtab')) /\ Cardinality(Opened0(qtab')) <= Cardinality(Opened0(rows))
  BY <1>8, FS_Subset DEF RowsFrom
<1>10. Cardinality(Opened0(qtab')) \in Nat /\ Cardinality(Opened0(rows)) \in Nat /\ QMaxEntries \in Nat
  BY <1>9, FS_CardinalityType, QuicAssumption DEF RowsFrom
<1>11. QuicLimit'
  BY <1>9, <1>10 DEF QuicLimit, RowsFrom
<1> QED
  BY <1>4, <1>7, <1>11

\* A row whose intervals change.
LEMMA TouchedFacts ==
  ASSUME QuicInv, NEW q, RowOK(q), NEW ivs, Spaced(ivs), NEW done
  PROVE  /\ RowOK(Touched(q, ivs, done)) /\ Touched(q, ivs, done).ivs = ivs
         /\ Touched(q, ivs, done).first = q.first
<1>1. /\ Touched(q, ivs, done).ivs = ivs /\ Touched(q, ivs, done).first = q.first
      /\ Touched(q, ivs, done).last = qclk
  BY DEF Touched
<1>2. qclk \in 0 .. MaxQTime
  BY DEF QuicInv, QuicRest
<1> QED
  BY <1>1, <1>2, Zenon DEF RowOK

\* After the three, and after a packet that is ignored.
LEMMA NoneFacts ==
  ASSUME QuicInv, NEW rows, RowsFrom(rows), NEW k \in QKey, TookNone(k, rows)
  PROVE  /\ QuicTable' /\ QuicLimit' /\ UNCHANGED qtold
         /\ \A d \in QKey : qtab'[d].ivs \in {qtab[d].ivs, <<>>}
<1>1. PICK q : q = Touched(rows[k], <<>>, TRUE)
  OBVIOUS
<1>2. RowOK(rows[k]) /\ \A d \in QKey : rows[d].ivs \in {qtab[d].ivs, <<>>}
  BY DEF RowsFrom
<1>3. RowOK(q) /\ q.ivs = <<>> /\ q.first = rows[k].first
  <2>1. Spaced(<<>>)
    BY NoSpan
  <2>2. q.ivs = <<>> /\ q.first = rows[k].first /\ q.last = qclk
    BY <1>1 DEF Touched
  <2>3. qclk \in 0 .. MaxQTime
    BY DEF QuicInv, QuicRest
  <2> QED
    BY <1>2, <2>1, <2>2, <2>3, Zenon DEF RowOK
<1>4. Bytes(q.ivs) = {}
  BY <1>3, NoSpan
<1>5. qtab' = [rows EXCEPT ![k] = q] /\ recv' = [Keeps(rows) EXCEPT ![k] = Bytes(q.ivs)] /\ UNCHANGED qtold
  BY <1>1, <1>4, Zenon DEF TookNone
<1>6. QuicTable' /\ QuicLimit' /\ qtab'[k] = q /\ \A d \in QKey \ {k} : qtab'[d] = rows[d]
  BY <1>3, <1>4, <1>5, RowPut
<1> QED
  BY <1>2, <1>3, <1>5, <1>6

\* A fragment that does not complete the hello: the list covers what it covered
\* and the fragment.
LEMMA SomeFacts ==
  ASSUME QuicInv, NEW rows, RowsFrom(rows), NEW k \in QKey, NEW s \in Nat, NEW t \in Nat, s < t,
         TookSome(k, rows, s, t)
  PROVE  /\ QuicTable' /\ QuicLimit' /\ UNCHANGED qtold /\ t <= QMaxBytes
         /\ \A d \in QKey \ {k} : qtab'[d].ivs \in {qtab[d].ivs, <<>>}
         /\ rows[k].ivs \in {qtab[k].ivs, <<>>} /\ Spaced(qtab'[k].ivs)
         /\ Bytes(qtab'[k].ivs) = Bytes(rows[k].ivs) \cup (s .. t - 1)
         /\ ~Hopeless(k.tuple, Prefix(qtab'[k].ivs)) /\ ~Whole0(k.tuple, Prefix(qtab'[k].ivs))
<1>1. PICK ivs : ivs = AddFrag(rows[k].ivs, s, t)
  OBVIOUS
<1>2. PICK q : q = Touched(rows[k], ivs, rows[k].done)
  OBVIOUS
<1>3. IsTab(rows) /\ RowOK(rows[k]) /\ \A d \in QKey : rows[d].ivs \in {qtab[d].ivs, <<>>}
  BY DEF RowsFrom
<1>4. Spaced(ivs) /\ Bytes(ivs) = Bytes(rows[k].ivs) \cup (s .. t - 1)
  BY <1>1, <1>3, FragBytes DEF RowOK
<1>5. RowOK(q) /\ q.ivs = ivs /\ q.first = rows[k].first
  BY <1>2, <1>3, <1>4, TouchedFacts
<1>6. Keeps(rows)[k] = Bytes(rows[k].ivs) /\ Keeps(rows)[k] \in SUBSET (0 .. QMaxBytes - 1)
  BY <1>3, KeepsBytes DEF QuicInv
<1>7. /\ ~(t > QMaxBytes) /\ ~Hopeless(k.tuple, Prefix(ivs)) /\ ~Whole0(k.tuple, Prefix(ivs))
      /\ qtab' = [rows EXCEPT ![k] = q] /\ UNCHANGED qtold
      /\ recv' = [Keeps(rows) EXCEPT ![k] = Keeps(rows)[k] \cup s .. t - 1]
  BY <1>1, <1>2, Zenon DEF TookSome
<1>8. QMaxBytes \in Nat
  BY QuicAssumption
<1>9. t <= QMaxBytes
  BY <1>7, <1>8
<1>10. s .. t - 1 \in SUBSET (0 .. QMaxBytes - 1)
  BY <1>8, <1>9
<1>11. Bytes(q.ivs) = Keeps(rows)[k] \cup (s .. t - 1) /\ Bytes(q.ivs) \in SUBSET (0 .. QMaxBytes - 1)
  BY <1>4, <1>5, <1>6, <1>10
<1>12. recv' = [Keeps(rows) EXCEPT ![k] = Bytes(q.ivs)]
  BY <1>7, <1>11
<1>13. QuicTable' /\ QuicLimit' /\ qtab'[k] = q /\ \A d \in QKey \ {k} : qtab'[d] = rows[d]
  BY <1>5, <1>7, <1>11, <1>12, RowPut
<1> QED
  BY <1>3, <1>4, <1>5, <1>7, <1>9, <1>13

\* A fragment that completes the hello: every byte of it is among those received.
LEMMA AllFacts ==
  ASSUME QuicInv, NEW rows, RowsFrom(rows), NEW k \in QKey, k.tuple \in QTuple,
         NEW s \in Nat, NEW t \in Nat, s < t, TookAll(k, rows, s, t)
  PROVE  /\ QuicTable' /\ QuicLimit' /\ t <= QMaxBytes
         /\ \A d \in QKey \ {k} : qtab'[d].ivs \in {qtab[d].ivs, <<>>}
         /\ qtab'[k].ivs = <<>> /\ rows[k].ivs \in {qtab[k].ivs, <<>>}
         /\ 0 < QHello[k.tuple] /\ QHello[k.tuple] <= QMaxBytes
         /\ 0 .. QHello[k.tuple] - 1 \subseteq Bytes(rows[k].ivs) \cup (s .. t - 1)
         /\ qtold' = [qtold EXCEPT ![k.tuple] =
                        [n |-> qtold[k.tuple].n + 1, bytes |-> 0 .. QHello[k.tuple] - 1]]
<1>1. PICK ivs : ivs = AddFrag(rows[k].ivs, s, t)
  OBVIOUS
<1>2. IsTab(rows) /\ RowOK(rows[k]) /\ \A d \in QKey : rows[d].ivs \in {qtab[d].ivs, <<>>}
  BY DEF RowsFrom
<1>3. Spaced(ivs) /\ Bytes(ivs) = Bytes(rows[k].ivs) \cup (s .. t - 1)
  BY <1>1, <1>2, FragBytes DEF RowOK
<1>4. Keeps(rows)[k] = Bytes(rows[k].ivs)
  BY <1>2, KeepsBytes DEF QuicInv
<1>5. /\ ~(t > QMaxBytes) /\ ~Hopeless(k.tuple, Prefix(ivs)) /\ Whole0(k.tuple, Prefix(ivs))
      /\ qtab' = [rows EXCEPT ![k] = NoQ] /\ recv' = [Keeps(rows) EXCEPT ![k] = {}]
      /\ qtold' = [qtold EXCEPT ![k.tuple] =
           [n |-> qtold[k.tuple].n + 1,
            bytes |-> (Keeps(rows)[k] \cup s .. t - 1) \cap (0 .. QHello[k.tuple] - 1)]]
  BY <1>1, Zenon DEF TookAll
<1>6. QMaxBytes \in Nat /\ QHeader \in Nat \ {0} /\ QHello[k.tuple] \in Nat
  BY QuicAssumption
<1>7. PICK n \in Nat : n = Prefix(ivs) /\ 0 .. n - 1 \subseteq Bytes(ivs)
  BY <1>3, PrefixIs
<1>8. n >= QHeader /\ n >= QHello[k.tuple]
  BY <1>5, <1>7 DEF Whole0
<1>9. 0 < QHello[k.tuple] /\ QHello[k.tuple] <= QMaxBytes
  BY <1>5, <1>6, <1>7, <1>8 DEF Hopeless
<1>10. 0 .. QHello[k.tuple] - 1 \subseteq Bytes(rows[k].ivs) \cup (s .. t - 1)
  <2>1. 0 .. QHello[k.tuple] - 1 \subseteq 0 .. n - 1
    BY <1>6, <1>8
  <2> QED
    BY <1>3, <1>7, <2>1, Zenon
<1>11. (Keeps(rows)[k] \cup s .. t - 1) \cap (0 .. QHello[k.tuple] - 1) = 0 .. QHello[k.tuple] - 1
  BY <1>4, <1>10, Zenon
<1>12. qtold' = [qtold EXCEPT ![k.tuple] =
                    [n |-> qtold[k.tuple].n + 1, bytes |-> 0 .. QHello[k.tuple] - 1]]
  BY <1>5, <1>11, Zenon
<1>13. RowOK(NoQ) /\ NoQ.ivs = <<>> /\ NoQ.first = NotYet /\ Bytes(NoQ.ivs) = {}
  BY EmptyRows, NoSpan DEF QuicInv, QuicRest
<1>14. PICK q : q = NoQ
  OBVIOUS
<1>15. QuicTable' /\ QuicLimit' /\ qtab'[k] = q /\ \A d \in QKey \ {k} : qtab'[d] = rows[d]
  BY <1>5, <1>13, <1>14, RowPut
<1>16. t <= QMaxBytes
  BY <1>5, <1>6
<1>17. qtab'[k].ivs = <<>> /\ \A d \in QKey \ {k} : qtab'[d].ivs \in {qtab[d].ivs, <<>>}
  BY <1>2, <1>13, <1>14, <1>15
<1> QED
  BY <1>2, <1>9, <1>10, <1>12, <1>15, <1>16, <1>17, Zenon

\* A packet that is ignored may sweep and evict, no more.
LEMMA IgnoredFacts ==
  ASSUME QuicInv, NEW rows, RowsFrom(rows), NEW fin, Ignored(rows, fin)
  PROVE  /\ QuicTable' /\ QuicLimit' /\ UNCHANGED qtold /\ qfin' = fin
         /\ \A d \in QKey : qtab'[d].ivs \in {qtab[d].ivs, <<>>}
<1>1. qtab' = rows /\ recv' = Keeps(rows) /\ qfin' = fin /\ UNCHANGED qtold
  BY DEF Ignored
<1>2. IsTab(rows) /\ \A d \in QKey : RowOK(rows[d]) /\ rows[d].ivs \in {qtab[d].ivs, <<>>}
  BY DEF RowsFrom
<1>3. /\ Keeps(rows) = [d \in QKey |-> Keeps(rows)[d]]
      /\ \A d \in QKey : /\ Keeps(rows)[d] = Bytes(rows[d].ivs)
                         /\ Keeps(rows)[d] \in SUBSET (0 .. QMaxBytes - 1)
  BY <1>2, KeepsBytes DEF QuicInv
<1>4. QuicTable'
  BY <1>1, <1>2, <1>3 DEF QuicTable, RowOK, IsTab
<1>5. QuicLimit'
  BY <1>1 DEF QuicLimit, RowsFrom
<1> QED
  BY <1>1, <1>2, <1>4, <1>5

\* A step is a tick or the packet of some key.
LEMMA QuicCases ==
  ASSUME QuicInv, QuicNext
  PROVE  \/ QuicTick
         \/ \E k \in QKey, s \in Nat, t \in Nat : s < t /\ k.tuple \in QTuple /\ QuicDoes(k, s, t)
<1>1. CASE QuicTick
  BY <1>1
<1>2. CASE \E u \in QTuple, d \in Dcid, s \in 0 .. QMaxBytes, t \in 0 .. QMaxBytes + 1 :
             s < t /\ HandleInitial(u, d, s, t)
  <2>1. PICK u \in QTuple, d \in Dcid, s \in 0 .. QMaxBytes, t \in 0 .. QMaxBytes + 1 :
             s < t /\ HandleInitial(u, d, s, t)
    BY <1>2
  <2>2. s \in Nat /\ t \in Nat
    OBVIOUS
  <2>3. QuicDoes([tuple |-> u, dcid |-> d], s, t)
    BY <2>1, <2>2, InitialCases
  <2>4. PICK k : k = [tuple |-> u, dcid |-> d]
    OBVIOUS
  <2>5. k \in QKey /\ k.tuple \in QTuple /\ QuicDoes(k, s, t)
    BY <2>3, <2>4 DEF QKey
  <2> QED
    BY <2>1, <2>2, <2>5, Zenon
<1> QED
  BY <1>1, <1>2, Zenon DEF QuicNext, Frame

\* Every step of the QUIC reassembler keeps the invariant.
LEMMA QuicStep == QuicInv /\ [QuicNext]_quicVars => QuicInv'
<1> SUFFICES ASSUME QuicInv, [QuicNext]_quicVars PROVE QuicInv'
  OBVIOUS
<1>0. /\ qclk \in 0 .. MaxQTime /\ qsweep \in 0 .. MaxQTime
      /\ qtold \in [QTuple -> [n : 0 .. MaxQTold, bytes : SUBSET Nat]]
      /\ MaxQTime \in Nat /\ MaxQTold \in Nat
  BY QuicAssumption DEF QuicInv, QuicRest
<1>1. CASE UNCHANGED quicVars
  BY <1>1 DEF QuicInv, QuicTable, QuicLimit, FinOK, QuicRest, quicVars
<1>2. CASE QuicTick
  <2>1. QuicTable' /\ QuicLimit' /\ FinOK(qfin)'
    BY <1>2 DEF QuicTick, QuicInv, QuicTable, QuicLimit, FinOK
  <2>2. QuicRest'
    BY <1>0, <1>2 DEF QuicTick, QuicRest
  <2> QED
    BY <2>1, <2>2 DEF QuicInv
<1>3. ASSUME NEW k \in QKey, NEW s \in Nat, NEW t \in Nat, s < t, k.tuple \in QTuple, QuicDoes(k, s, t)
      PROVE  QuicInv'
  <2>1. /\ UNCHANGED qclk /\ qsweep' \in {qclk, qsweep} /\ qtold[k.tuple].n < MaxQTold
        /\ \E rows, fin : /\ RowsFrom(rows) /\ FinOK(fin)
                          /\ Ignored(rows, fin) \/ Took(k, rows, fin, s, t)
    BY <1>3, Zenon DEF QuicDoes
  <2>2. PICK rows, fin : RowsFrom(rows) /\ FinOK(fin) /\ (Ignored(rows, fin) \/ Took(k, rows, fin, s, t))
    BY <2>1
  <2>3. qclk' \in 0 .. MaxQTime /\ qsweep' \in 0 .. MaxQTime
    BY <1>0, <2>1
  <2>4. FinOK(qfin')
    <3>1. CASE qfin' = fin
      BY <2>2, <3>1
    <3>2. CASE qfin' \in MarkFinished(k.tuple, fin)
      BY <1>0, <1>3, <2>2, <3>2, MarkFits
    <3>3. Ignored(rows, fin) => qfin' = fin
      BY DEF Ignored
    <3> QED
      BY <2>2, <3>1, <3>2, <3>3, TookCases
  <2>5. CASE Ignored(rows, fin) \/ TookNone(k, rows) \/ TookSome(k, rows, s, t)
    <3>1. QuicTable' /\ QuicLimit' /\ UNCHANGED qtold
      <4>1. CASE Ignored(rows, fin)
        BY <2>2, <4>1, IgnoredFacts
      <4>2. CASE TookNone(k, rows)
        BY <2>2, <4>2, NoneFacts
      <4>3. CASE TookSome(k, rows, s, t)
        BY <1>3, <2>2, <4>3, SomeFacts
      <4> QED
        BY <2>5, <4>1, <4>2, <4>3
    <3>2. QuicRest'
      BY <1>0, <2>3, <3>1 DEF QuicRest
    <3> QED
      BY <2>4, <3>1, <3>2 DEF QuicInv, FinOK
  <2>6. CASE TookAll(k, rows, s, t)
    <3>1. /\ QuicTable' /\ QuicLimit'
          /\ qtold' = [qtold EXCEPT ![k.tuple] =
                        [n |-> qtold[k.tuple].n + 1, bytes |-> 0 .. QHello[k.tuple] - 1]]
      BY <1>3, <2>2, <2>6, AllFacts
    <3>2. [n |-> qtold[k.tuple].n + 1, bytes |-> 0 .. QHello[k.tuple] - 1] \in [n : 0 .. MaxQTold, bytes : SUBSET Nat]
      <4>1. qtold[k.tuple].n \in 0 .. MaxQTold
        BY <1>0, <1>3
      <4>2. 0 .. QHello[k.tuple] - 1 \in SUBSET Nat
        OBVIOUS
      <4> QED
        BY <1>0, <2>1, <4>1, <4>2
    <3>3. QuicRest'
      BY <1>0, <1>3, <2>3, <3>1, <3>2 DEF QuicRest
    <3> QED
      BY <2>4, <3>1, <3>3 DEF QuicInv, FinOK
  <2> QED
    BY <2>2, <2>5, <2>6, TookCases
<1>4. CASE QuicNext
  BY <1>2, <1>3, <1>4, QuicCases
<1> QED
  BY <1>1, <1>4

\* No entries, no marks.
LEMMA QuicStart == QuicInit => QuicInv
<1> SUFFICES ASSUME QuicInit PROVE QuicInv
  OBVIOUS
<1>1. /\ qclk = 0 /\ qsweep = 0 /\ qtab = [k \in QKey |-> NoQ] /\ qfin = [u \in QTuple |-> NotYet]
      /\ qtold = [u \in QTuple |-> [n |-> 0, bytes |-> {}]] /\ recv = [k \in QKey |-> {}]
  BY DEF QuicInit
<1>2. MaxQTime \in Nat /\ MaxQTold \in Nat /\ QMaxEntries \in Nat /\ NotYet = MaxQTime + 1
  BY QuicAssumption DEF NotYet
<1>3. qclk \in 0 .. MaxQTime
  BY <1>1, <1>2
<1>4. RowOK(NoQ) /\ NoQ.ivs = <<>> /\ NoQ.first = NotYet /\ Bytes(NoQ.ivs) = {}
  BY <1>3, EmptyRows, NoSpan
<1>5. QuicTable
  BY <1>1, <1>4 DEF QuicTable, IsTab
<1>6. Opened0(qtab) = {} /\ Marks(qfin) = {}
  BY <1>1, <1>4 DEF Opened0, Marks
<1>7. IsFiniteSet({}) /\ Cardinality({}) = 0
  BY FS_EmptySet
<1>8. QuicLimit
  BY <1>2, <1>6, <1>7 DEF QuicLimit
<1>9. FinOK(qfin)
  BY <1>1, <1>2, <1>6, <1>7 DEF FinOK
<1>10. QuicRest
  BY <1>1, <1>2 DEF QuicRest
<1> QED
  BY <1>5, <1>8, <1>9, <1>10 DEF QuicInv

\* The invariant says what the QUIC reassembler promises.
LEMMA QuicTyped == QuicInv => QuicTypeOK /\ CoveredExact
<1> SUFFICES ASSUME QuicInv PROVE QuicTypeOK /\ CoveredExact
  OBVIOUS
<1>1. /\ qclk \in 0 .. MaxQTime /\ qsweep \in 0 .. MaxQTime /\ \A u \in QTuple : qtold[u].n \in 0 .. MaxQTold
      /\ \A k \in QKey : qtab[k].first \in 0 .. NotYet /\ qtab[k].last \in 0 .. MaxQTime
      /\ qfin \in [QTuple -> 0 .. NotYet] /\ Cardinality(Opened0(qtab)) <= QMaxEntries
  BY DEF QuicInv, QuicRest, QuicTable, RowOK, FinOK, QuicLimit
<1>2. Cardinality({u \in QTuple : qfin[u] # NotYet}) <= QMaxEntries
  BY DEF QuicInv, FinOK, Marks
<1>3. QuicTypeOK
  BY <1>1, <1>2 DEF QuicTypeOK
<1>4. ASSUME NEW k \in QKey
      PROVE  /\ \A i \in DOMAIN qtab[k].ivs : qtab[k].ivs[i][1] < qtab[k].ivs[i][2]
             /\ \A i \in DOMAIN qtab[k].ivs : i > 1 => qtab[k].ivs[i - 1][2] < qtab[k].ivs[i][1]
             /\ Bytes(qtab[k].ivs) = recv[k]
  <2>1. PICK q : q = qtab[k].ivs
    OBVIOUS
  <2>2. Spaced(q) /\ Bytes(q) = recv[k]
    BY <2>1 DEF QuicInv, QuicTable, RowOK
  <2>3. q \in Seq(Span) /\ DOMAIN q = 1 .. Len(q) /\ \A i, j \in 1 .. Len(q) : i < j => q[i][2] < q[j][1]
    BY <2>2 DEF Spaced
  <2>4. ASSUME NEW i \in 1 .. Len(q) PROVE q[i][1] < q[i][2] /\ (i > 1 => q[i - 1][2] < q[i][1])
    <3>1. q[i] \in Span
      BY <2>3, ElementOfSeq
    <3>2. i > 1 => i - 1 \in 1 .. Len(q) /\ i - 1 < i
      BY <2>3
    <3> QED
      BY <2>3, <3>1, <3>2 DEF Span
  <2> QED
    BY <2>1, <2>2, <2>3, <2>4
<1>5. CoveredExact
  BY <1>4, Zenon DEF CoveredExact
<1> QED
  BY <1>3, <1>5

-----------------------------------------------------------------------------
(* The table of intervals keeps the promise of HelloBytes.                 *)

\* The key under which a tuple's packets decrypt.
First0(u) == [tuple |-> u, dcid |-> "orig"]

\* Each tuple has one key with the client's first DCID.
LEMMA FirstKey ==
  /\ \A u \in QTuple : First0(u) \in QKey
  /\ \A k \in QKey : k.tuple \in QTuple /\ (k.dcid = "orig" => k = First0(k.tuple))
  /\ \A u, v \in QTuple : First0(u) = First0(v) => u = v
<1>1. \A u \in QTuple : First0(u) \in QKey /\ First0(u).tuple = u
  BY DEF QKey, Dcid, First0
<1>2. ASSUME NEW k \in QKey PROVE k.tuple \in QTuple /\ (k.dcid = "orig" => k = First0(k.tuple))
  BY DEF QKey, First0
<1> QED
  BY <1>1, <1>2

\* Every step of the QUIC reassembler is a step of HelloBytes or leaves it alone.
LEMMA QuicRefines ==
  ASSUME QuicInv, QuicInv', [QuicNext]_quicVars
  PROVE  [QPromise!Next]_<<[u \in QTuple |-> Bytes(qtab[[tuple |-> u, dcid |-> "orig"]].ivs)], qtold>>
<1> DEFINE g == [u \in QTuple |-> Bytes(qtab[First0(u)].ivs)]
           h == [u \in QTuple |-> Bytes(qtab'[First0(u)].ivs)]
<1>0. /\ QMaxBytes \in Nat /\ QHello \in [QTuple -> Nat] /\ QHeader \in Nat \ {0}
      /\ \A u \in QTuple : QHello[u] = 0 \/ QHello[u] >= QHeader
      /\ qtold \in [QTuple -> [n : 0 .. MaxQTold, bytes : SUBSET Nat]]
  BY QuicAssumption DEF QuicInv, QuicRest
<1>b. h \in [QTuple -> SUBSET (0 .. QMaxBytes)]
  <2>1. \A k \in QKey : Bytes(qtab'[k].ivs) \in SUBSET (0 .. QMaxBytes - 1)
    BY DEF QuicInv, QuicTable
  <2>2. \A u \in QTuple : Bytes(qtab'[First0(u)].ivs) \in SUBSET (0 .. QMaxBytes)
    <3>1. 0 .. QMaxBytes - 1 \subseteq 0 .. QMaxBytes
      BY <1>0
    <3>2. \A u \in QTuple : Bytes(qtab'[First0(u)].ivs) \in SUBSET (0 .. QMaxBytes - 1)
      BY <2>1, FirstKey, Zenon
    <3> QED
      BY <3>1, <3>2, Zenon
  <2> QED
    BY <2>2
<1>c. ASSUME NEW d \in QKey, qtab'[d].ivs \in {qtab[d].ivs, <<>>} PROVE Bytes(qtab'[d].ivs) \in {Bytes(qtab[d].ivs), {}}
  BY <1>c, NoSpan
<1>1. CASE UNCHANGED quicVars
  BY <1>1 DEF quicVars
<1>2. CASE QuicTick
  BY <1>2 DEF QuicTick
<1>3. ASSUME NEW k \in QKey, NEW s \in Nat, NEW t \in Nat, s < t, k.tuple \in QTuple, QuicDoes(k, s, t)
      PROVE  QPromise!Next
  <2>1. PICK rows, fin : /\ RowsFrom(rows) /\ FinOK(fin)
                         /\ Ignored(rows, fin) \/ (k.dcid = "orig" /\ Took(k, rows, fin, s, t))
    BY <1>3, Zenon DEF QuicDoes
  <2>2. CASE Ignored(rows, fin) \/ TookNone(k, rows)
    <3>1. UNCHANGED qtold /\ \A d \in QKey : qtab'[d].ivs \in {qtab[d].ivs, <<>>}
      BY <2>1, <2>2, IgnoredFacts, NoneFacts
    <3>2. \A u \in QTuple : h[u] \in {g[u], {}}
      BY <1>c, <3>1, FirstKey
    <3> QED
      BY <3>1, <3>2 DEF QPromise!Next, QPromise!Forget, First0
  <2>3. PICK u \in QTuple : u = k.tuple
    BY <1>3
  <2>4. PICK had : had = Bytes(rows[k].ivs)
    OBVIOUS
  <2>5. QPromise!Farthest(u) = QMaxBytes
    BY <1>0 DEF QPromise!Farthest
  <2>6. CASE k.dcid = "orig" /\ TookSome(k, rows, s, t)
    <3>1. k = First0(u)
      BY <2>3, <2>6, FirstKey
    <3>2. /\ UNCHANGED qtold /\ t <= QMaxBytes
          /\ \A d \in QKey \ {k} : qtab'[d].ivs \in {qtab[d].ivs, <<>>}
          /\ rows[k].ivs \in {qtab[k].ivs, <<>>} /\ Spaced(qtab'[k].ivs)
          /\ Bytes(qtab'[k].ivs) = had \cup (s .. t - 1)
          /\ ~Hopeless(u, Prefix(qtab'[k].ivs)) /\ ~Whole0(u, Prefix(qtab'[k].ivs))
      BY <1>3, <2>1, <2>3, <2>4, <2>6, SomeFacts
    <3>3. had \in {g[u], {}}
      BY <2>4, <3>1, <3>2, NoSpan
    <3>4. \A v \in QTuple \ {u} : h[v] \in {g[v], {}}
      BY <1>c, <3>1, <3>2, FirstKey
    <3>5. QPromise!OthersMayGo(u)
      BY <3>4 DEF QPromise!OthersMayGo, First0
    <3>6. h[u] = had \cup (s .. t - 1)
      BY <3>1, <3>2
    <3>7. ~QPromise!Complete(u, had \cup (s .. t - 1))
      <4>1. PICK n \in Nat : n = Prefix(qtab'[k].ivs) /\ n \notin Bytes(qtab'[k].ivs)
        BY <3>2, PrefixIs
      <4>2. n < QHeader \/ n < QHello[u]
        BY <1>0, <3>2, <4>1 DEF Whole0
      <4>3. CASE QHello[u] > QMaxBytes \/ QHello[u] = 0
        BY <1>0, <4>3 DEF QPromise!Complete
      <4>4. CASE ~(QHello[u] > QMaxBytes) /\ QHello[u] # 0
        <5>1. n \in 0 .. QHello[u] - 1
          BY <1>0, <4>2, <4>4
        <5>2. QPromise!Whole(u) = 0 .. QHello[u] - 1
          BY <1>0, <4>4 DEF QPromise!Whole
        <5> QED
          BY <3>2, <4>1, <5>1, <5>2 DEF QPromise!Complete
      <4> QED
        BY <4>3, <4>4
    <3>8. QPromise!Arrives(u, s, t, had)
      BY <3>2, <3>6, <3>7, Zenon DEF QPromise!Arrives, First0
    <3>9. s \in 0 .. QPromise!Farthest(u) /\ t \in 0 .. QPromise!Farthest(u)
      BY <1>0, <1>3, <2>5, <3>2
    <3>10. QPromise!Receive(u)
      BY <1>3, <1>b, <3>3, <3>5, <3>8, <3>9, Zenon DEF QPromise!Receive, First0
    <3> QED
      BY <3>10, Zenon DEF QPromise!Next
  <2>7. CASE k.dcid = "orig" /\ TookAll(k, rows, s, t)
    <3>1. k = First0(u)
      BY <2>3, <2>7, FirstKey
    <3>2. /\ t <= QMaxBytes
          /\ \A d \in QKey \ {k} : qtab'[d].ivs \in {qtab[d].ivs, <<>>}
          /\ qtab'[k].ivs = <<>> /\ rows[k].ivs \in {qtab[k].ivs, <<>>}
          /\ 0 < QHello[u] /\ QHello[u] <= QMaxBytes
          /\ 0 .. QHello[u] - 1 \subseteq had \cup (s .. t - 1)
          /\ qtold' = [qtold EXCEPT ![u] = [n |-> qtold[u].n + 1, bytes |-> 0 .. QHello[u] - 1]]
      BY <1>3, <2>1, <2>3, <2>4, <2>7, AllFacts
    <3>3. had \in {g[u], {}}
      BY <2>4, <3>1, <3>2, NoSpan
    <3>4. \A v \in QTuple \ {u} : h[v] \in {g[v], {}}
      BY <1>c, <3>1, <3>2, FirstKey
    <3>5. QPromise!OthersMayGo(u)
      BY <3>4 DEF QPromise!OthersMayGo, First0
    <3>6. h[u] = {}
      BY <3>1, <3>2, NoSpan
    <3>7. QPromise!Whole(u) = 0 .. QHello[u] - 1 /\ QPromise!Complete(u, had \cup (s .. t - 1))
      <4>1. QPromise!Whole(u) = 0 .. QHello[u] - 1
        BY <1>0, <3>2 DEF QPromise!Whole
      <4> QED
        BY <1>0, <3>2, <4>1 DEF QPromise!Complete
    <3>8. qtold' = [qtold EXCEPT ![u] = [n |-> @.n + 1, bytes |-> QPromise!Whole(u)]]
      BY <3>2, <3>7
    <3>9. QPromise!Arrives(u, s, t, had)
      BY <3>6, <3>7, <3>8, Zenon DEF QPromise!Arrives, First0
    <3>10. s \in 0 .. QPromise!Farthest(u) /\ t \in 0 .. QPromise!Farthest(u)
      BY <1>0, <1>3, <2>5, <3>2
    <3>11. QPromise!Receive(u)
      BY <1>3, <1>b, <3>3, <3>5, <3>9, <3>10, Zenon DEF QPromise!Receive, First0
    <3> QED
      BY <3>11, Zenon DEF QPromise!Next
  <2> QED
    BY <2>1, <2>2, <2>6, <2>7, TookCases
<1>4. CASE QuicNext
  <2>1. CASE QuicTick
    BY <1>2, <2>1
  <2>2. CASE ~QuicTick
    <3>1. QPromise!Next
      BY <1>3, <1>4, <2>2, QuicCases, Zenon
    <3> QED
      BY <3>1
  <2> QED
    BY <2>1, <2>2
<1> QED
  BY <1>1, <1>4

\* Nothing received and nothing handed over: HelloBytes' initial state.
LEMMA QuicPromised == QuicInit => QPromise!Init
<1> SUFFICES ASSUME QuicInit PROVE QPromise!Init
  OBVIOUS
<1>1. \A u \in QTuple : Bytes(qtab[First0(u)].ivs) = {}
  <2>1. NoQ.ivs = <<>>
    BY DEF NoQ
  <2> QED
    BY <2>1, FirstKey, NoSpan DEF QuicInit
<1>2. qtold = [u \in QTuple |-> [n |-> 0, bytes |-> {}]]
  BY DEF QuicInit
<1> QED
  BY <1>1, <1>2 DEF QPromise!Init, First0

-----------------------------------------------------------------------------
(* The suite.                                                              *)

CaptureInv == /\ part = "start" => StartInv
              /\ part = "capture" => CapInv
              /\ part = "self" => SelfInv
              /\ TlsInv
              /\ QuicInv

\* A step of one component leaves the others alone.
LEMMA CaptureStep == ASSUME CaptureInv, [Next]_vars PROVE CaptureInv'
<1>a. UNCHANGED tlsVars => TlsInv'
  BY TlsStep DEF CaptureInv
<1>b. UNCHANGED quicVars => QuicInv'
  BY QuicStep DEF CaptureInv
<1>1. CASE UNCHANGED vars
  <2>1. UNCHANGED <<part, startVars, captureVars, selfVars, tlsVars, quicVars>>
    BY <1>1, Zenon DEF vars
  <2> QED
    BY <1>a, <1>b, <2>1, StartStep, CapStep, SelfStep DEF CaptureInv
<1>2. ASSUME NEW p \in Parts, Only(p), p \notin {"start", "capture", "self", "tls", "quic"} PROVE CaptureInv'
  BY <1>a, <1>b, <1>2 DEF Only, CaptureInv
<1>3. CASE Only("start") /\ StartNext
  BY <1>a, <1>b, <1>3, StartStep DEF Only, CaptureInv
<1>4. CASE Only("capture") /\ CaptureNext
  BY <1>a, <1>b, <1>4, CapStep DEF Only, CaptureInv
<1>5. CASE Only("self") /\ SelfNext
  BY <1>a, <1>b, <1>5, SelfStep DEF Only, CaptureInv
<1>6. CASE Only("tls") /\ TlsNext
  BY <1>b, <1>6, TlsStep DEF Only, CaptureInv
<1>7. CASE Only("quic") /\ QuicNext
  BY <1>a, <1>7, QuicStep DEF Only, CaptureInv
<1> QED
  BY <1>1, <1>2, <1>3, <1>4, <1>5, <1>6, <1>7 DEF Next, Parts

\* Every component starts in its invariant.
LEMMA CaptureStart == Init => CaptureInv
  BY StartStart, CapStart, SelfStart, TlsStart, QuicStart, Zenon DEF Init, CaptureInv

\* No more starts that wrote their line than allowed fall into a crash window; dpid
\* reads from no socket that was closed, writes no day's file
\* past its cap, and holds of a hello exactly what came, for every value of the
\* constants: cmd/dpid, rawsocket.go, label_samples.go, tls_reasm.go, quic.go.
THEOREM CapturesKept == Spec => []CaptureKept
<1>1. CaptureInv /\ [Next]_vars => CaptureInv'
  BY CaptureStep
<1>2. CaptureInv => CaptureKept
  BY StartTyped, CapTyped, SelfTyped, TlsTyped, QuicTyped, Zenon DEF CaptureInv, CaptureKept
<1> QED
  BY <1>1, <1>2, CaptureStart, PTL DEF Spec

\* A step of the suite is a step of the table of segments, or leaves it alone.
LEMMA TlsPart == ASSUME [Next]_vars PROVE [TlsNext]_tlsVars
<1>1. CASE UNCHANGED vars
  BY <1>1, Zenon DEF vars
<1>2. ASSUME NEW p \in Parts, Only(p), p # "tls" PROVE UNCHANGED tlsVars
  BY <1>2 DEF Only
<1> QED
  BY <1>1, <1>2 DEF Next, Parts

\* And of the table of intervals.
LEMMA QuicPart == ASSUME [Next]_vars PROVE [QuicNext]_quicVars
<1>1. CASE UNCHANGED vars
  BY <1>1, Zenon DEF vars
<1>2. ASSUME NEW p \in Parts, Only(p), p # "quic" PROVE UNCHANGED quicVars
  BY <1>2 DEF Only
<1> QED
  BY <1>1, <1>2 DEF Next, Parts

\* The table of segments implements HelloBytes, for any number of connections,
\* lengths of their hellos, space of sequence numbers and limits of the table: a
\* hello is handed over by the segment that completes it, whole, and never from a
\* hole (tls_reasm.go handleFirst, handleCont).
THEOREM SegmentsKeepPromise == Spec => TlsKeepsPromise
<1>1. CaptureInv /\ [Next]_vars => CaptureInv'
  BY CaptureStep
<1>2. CaptureInv /\ CaptureInv' /\ [Next]_vars
        => [Promise!Next]_<<[c \in TConn |-> InPlace(asm[c].data)], tlsTold>>
  BY TlsPart, TlsRefines DEF CaptureInv
<1>3. Init => Promise!Init
  BY TlsPromised DEF Init
<1> QED
  BY <1>1, <1>2, <1>3, CaptureStart, PTL DEF Spec, TlsKeepsPromise, Promise!Spec

\* So does the table of intervals, whatever the order, overlap and repetition of
\* the fragments (quic.go handleInitial, addFrag, clientHello).
THEOREM FragmentsKeepPromise == Spec => QuicKeepsPromise
<1>1. CaptureInv /\ [Next]_vars => CaptureInv'
  BY CaptureStep
<1>2. CaptureInv /\ CaptureInv' /\ [Next]_vars
        => [QPromise!Next]_<<[u \in QTuple |-> Bytes(qtab[[tuple |-> u, dcid |-> "orig"]].ivs)], qtold>>
  BY QuicPart, QuicRefines DEF CaptureInv
<1>3. Init => QPromise!Init
  BY QuicPromised DEF Init
<1> QED
  BY <1>1, <1>2, <1>3, CaptureStart, PTL DEF Spec, QuicKeepsPromise, QPromise!Spec

\* No day's file of samples grows past its cap, whatever is removed under the
\* writer and however often it is switched (label_samples.go).
THEOREM SamplesCapped == SelfSpec => []DayCapKept
<1>1. SelfInv => DayCapKept
  BY SelfTyped, Zenon
<1>2. SelfInv /\ [SelfNext]_selfVars => SelfInv'
  BY SelfStep
<1> QED
  BY <1>1, <1>2, SelfStart, PTL DEF SelfSpec

\* The capture loop reads from an open socket, whatever rebinds do meanwhile
\* (rawsocket.go).
THEOREM ReadsOpen == CaptureSpec => []HeldOpen
<1>1. CapInv => HeldOpen
  BY CapTyped, Zenon
<1>2. CapInv /\ [CaptureNext]_captureVars => CapInv'
  BY CapStep
<1> QED
  BY <1>1, <1>2, CapStart, PTL DEF CaptureSpec

\* Within a window only so many starts of dpid write their line into the crash flag
\* and go on to capture, even when the clock is set back and although the look at the
\* flag and the line are steps apart (checkCrashLoop, armCrashFlag).
THEOREM StartsCounted == StartSpec => []CrashBound
<1>1. StartInv => CrashBound
  BY StartTyped, Zenon
<1>2. StartInv /\ [StartNext]_startVars => StartInv'
  BY StartStep
<1> QED
  BY <1>1, <1>2, StartStart, PTL DEF StartSpec
=============================================================================
