----------------------------- MODULE HelloReasm -----------------------------
(* Reassembly of ClientHello messages in hnc_dpid, over TCP and over QUIC (no *)
(* shared state); both implement HelloBytes.                                 *)
EXTENDS Naturals, SequencesExt, FiniteSets
-----------------------------------------------------------------------------
(* Reassembly of a ClientHello from TCP segments (capture/tls_reasm.go): a   *)
(* first segment without the server name is put in a table, continuations    *)
(* must start at exactly the expected 32-bit sequence number.  Offsets into  *)
(* the stream are real, sequence numbers wrap at SeqSpace.                     *)
CONSTANTS TConn,       \* connections (the 5-tuple key)
          TLen,        \* [TConn -> Nat]: need, the record's bytes
          SniEnd,      \* the server name lies in the first SniEnd bytes
          Isn,         \* [TConn -> Nat]: sequence number of stream byte 0
          SeqSpace,      \* 2^32
          Marked,      \* stream offsets whose byte is 0x16
          TlsMaxBytes, TlsMaxEntries, TlsTTL,
          MaxTlsTime, MaxTold      \* bounds of the model

ASSUME TlsAssumption ==
    /\ {SniEnd, SeqSpace, TlsMaxBytes, TlsMaxEntries, TlsTTL, MaxTlsTime, MaxTold} \subseteq Nat
    /\ TLen \in [TConn -> Nat] /\ Isn \in [TConn -> Nat] /\ 0 \in Marked
    /\ \A c \in TConn : TLen[c] + 1 < SeqSpace \div 2 /\ SniEnd < TLen[c]

VARIABLES tlsClk,
          asm,         \* asm[c]: the pending entry; its data as stream offsets
          tlsSweep,    \* lastSweep
          tlsTold,     \* hellos handed over, and the bytes the last one has in place
          order        \* ghost: bytes delivered in order since the first segment

tlsVars == <<tlsClk, asm, tlsSweep, tlsTold, order>>

NoAsm == [next |-> 0, data |-> <<>>, first |-> 0]
Pends(c) == asm[c].data # <<>>

\* The bytes of the stream that data holds, and those it has in their place.
Part(start, len) == [i \in 1 .. len |-> start + i - 1]
InPlace(data) == {o \in 0 .. Len(data) - 1 : data[o + 1] = o}

TlsInit ==
    /\ tlsClk = 0 /\ tlsSweep = 0
    /\ asm = [c \in TConn |-> NoAsm]
    /\ tlsTold = [c \in TConn |-> [n |-> 0, bytes |-> {}]]
    /\ order = [c \in TConn |-> 0]

AsmExpired(e) == tlsClk - e.first > TlsTTL

\* The table without the entries in gone; what the ghost expected of them ends.
AsmWithout(t, gone) == [c \in TConn |-> IF c \in gone THEN NoAsm ELSE t[c]]

Stale == {c \in TConn : Pends(c) /\ AsmExpired(asm[c])}
Holding(t) == {c \in TConn : t[c].data # <<>>}

\* A segment that lies wholly before the expected byte: a retransmission.
Before(seq, next, len) ==
    LET d == (next + SeqSpace - seq) % SeqSpace IN
    d # 0 /\ d < SeqSpace \div 2 /\ len <= d

\* Mutant: a segment past the expected byte is appended as well.
FollowsLoosely(seq, next) == (seq + SeqSpace - next) % SeqSpace < SeqSpace \div 2

\* The segment starts at exactly the expected byte.
Follows(seq, next) == seq = next

\* The part of a continuation that belongs to the hello.
Room(c, len) == IF len > TLen[c] - Len(asm[c].data) THEN TLen[c] - Len(asm[c].data) ELSE len

\* The tables after the first segment of c is put in: swept when the last
\* sweep is old, swept and the oldest evicted when there is no place.
MakeRoom(c) ==
    LET swept == tlsClk - tlsSweep > TlsTTL
        t1 == AsmWithout(asm, IF swept THEN Stale ELSE {})
        full == c \notin Holding(t1) /\ Cardinality(Holding(t1)) >= TlsMaxEntries
        t2 == AsmWithout(t1, IF full THEN Stale ELSE {})
        over == full /\ Cardinality(Holding(t2)) >= TlsMaxEntries
        oldest == {d \in Holding(t2) : \A o \in Holding(t2) : t2[d].first <= t2[o].first}
    IN  {[rows |-> AsmWithout(t2, IF over THEN {v} ELSE {}),
          at |-> IF swept \/ full THEN tlsClk ELSE tlsSweep] :
            v \in IF over THEN oldest ELSE {c}}

Expect(c, rows, n) == [d \in TConn |->
    IF d = c THEN n ELSE IF rows[d].data = <<>> THEN 0 ELSE order[d]]

Drops(c) ==
    /\ asm' = AsmWithout(asm, {c})
    /\ order' = [order EXCEPT ![c] = 0]
    /\ UNCHANGED <<tlsSweep, tlsTold>>

\* handleFirst: a segment whose first byte is 0x16.
HandleFirst(c, start, len, trunc) ==
    \/ /\ start # 0                                \* not a ClientHello
       /\ order' = [order EXCEPT ![c] = 0] /\ UNCHANGED <<asm, tlsSweep, tlsTold>>
    \/ /\ start = 0 /\ len >= TLen[c]              \* complete
       /\ asm' = AsmWithout(asm, {c}) /\ order' = [order EXCEPT ![c] = 0]
       /\ tlsTold' = [tlsTold EXCEPT ![c] = [n |-> @.n + 1, bytes |-> 0 .. TLen[c] - 1]]
       /\ UNCHANGED tlsSweep
    \/ start = 0 /\ len \in SniEnd .. TLen[c] - 1 /\ Drops(c)     \* partial: name only
    \/ /\ start = 0 /\ len < SniEnd /\ (trunc \/ TLen[c] > TlsMaxBytes)
       /\ order' = [order EXCEPT ![c] = 0] /\ UNCHANGED <<asm, tlsSweep, tlsTold>>
    \/ /\ start = 0 /\ len < SniEnd /\ ~trunc /\ TLen[c] <= TlsMaxBytes
       /\ \E r \in MakeRoom(c) :
             /\ asm' = [r.rows EXCEPT ![c] =
                   [next |-> (Isn[c] + len) % SeqSpace, data |-> Part(0, len), first |-> tlsClk]]
             /\ tlsSweep' = r.at
             /\ order' = Expect(c, r.rows, len)
       /\ UNCHANGED tlsTold

\* What an observer of the stream expects of the table after this segment.
OrderAfter(c, start, len, trunc) ==
    IF order[c] > 0 /\ start = order[c] /\ ~trunc /\ start + len < TLen[c]
    THEN order[c] + len
    ELSE IF order[c] > 0 /\ start + len <= order[c] THEN order[c] ELSE 0

\* handleCont: any other segment.
HandleCont(c, start, len, trunc) ==
    LET seq == (Isn[c] + start) % SeqSpace
        e == asm[c]
        more == Room(c, len)
    IN
    /\ UNCHANGED tlsSweep
    /\ \/ ~Pends(c) /\ UNCHANGED <<asm, tlsTold, order>>
       \/ Pends(c) /\ AsmExpired(e) /\ Drops(c)
       \/ /\ Pends(c) /\ ~AsmExpired(e) /\ ~Follows(seq, e.next)
          /\ asm' = IF Before(seq, e.next, len) THEN asm ELSE AsmWithout(asm, {c})
          /\ order' = [order EXCEPT ![c] = OrderAfter(c, start, len, trunc)]
          /\ UNCHANGED tlsTold
       \/ Pends(c) /\ ~AsmExpired(e) /\ Follows(seq, e.next) /\ trunc /\ Drops(c)
       \/ /\ Pends(c) /\ ~AsmExpired(e) /\ Follows(seq, e.next) /\ ~trunc
          /\ LET done == Len(e.data) + more >= TLen[c] IN
             /\ asm' = [asm EXCEPT ![c] = IF done THEN NoAsm ELSE
                   [next |-> (e.next + more) % SeqSpace, data |-> e.data \o Part(start, more),
                    first |-> e.first]]
             /\ tlsTold' = [tlsTold EXCEPT ![c] = IF ~done THEN @ ELSE
                   [n |-> @.n + 1, bytes |-> InPlace(e.data \o Part(start, more))]]
          /\ order' = [order EXCEPT ![c] = OrderAfter(c, start, len, trunc)]

\* A segment of the stream is captured: any cut, any order, any number of
\* times; the capture may have cut it short (capTrunc).
HandleSegment(c, start, len, trunc) ==
    /\ tlsTold[c].n < MaxTold
    /\ IF start \in Marked THEN HandleFirst(c, start, len, trunc)
       ELSE HandleCont(c, start, len, trunc)
    /\ UNCHANGED tlsClk

TlsTick == tlsClk < MaxTlsTime /\ tlsClk' = tlsClk + 1
           /\ UNCHANGED <<asm, tlsSweep, tlsTold, order>>

Segments(c) == {p \in (0 .. TLen[c]) \X (1 .. TLen[c] + 1) : p[1] + p[2] <= TLen[c] + 1}

TlsNext ==
    \/ TlsTick
    \/ \E c \in TConn : \E p \in Segments(c), trunc \in BOOLEAN :
          HandleSegment(c, p[1], p[2], trunc)

TlsSpec == TlsInit /\ [][TlsNext]_tlsVars
-----------------------------------------------------------------------------
\* Types; the table is within its limit and an entry is never whole.
TlsTypeOK ==
    /\ tlsClk \in 0 .. MaxTlsTime /\ tlsSweep \in 0 .. MaxTlsTime
    /\ \A c \in TConn : Len(asm[c].data) < TLen[c]
                     /\ asm[c].next \in 0 .. SeqSpace - 1
                     /\ asm[c].first \in 0 .. MaxTlsTime
    /\ Cardinality(Holding(asm)) <= TlsMaxEntries
    /\ \A c \in TConn : tlsTold[c].n \in 0 .. MaxTold

\* A hello whose segments came in order, with nothing but retransmissions of
\* known bytes between them, is in the table byte for byte: no comparison of
\* wrapping sequence numbers (handleCont) throws it away or shifts it.
InOrderHeld ==
    \A c \in TConn : order[c] > 0 =>
        asm[c].data = Part(0, order[c]) /\ asm[c].next = (Isn[c] + order[c]) % SeqSpace

Promise == INSTANCE HelloBytes WITH
    Conn <- TConn, HelloLen <- TLen, Reach <- TlsMaxBytes + 1,
    got <- [c \in TConn |-> InPlace(asm[c].data)], told <- tlsTold

\* The table implements HelloBytes: a hello is handed over exactly when the
\* last of its bytes arrives, from that connection's own bytes, and never from
\* a hole (handleFirst, handleCont).
TlsKeepsPromise == Promise!Spec
-----------------------------------------------------------------------------
(* Reassembly of a ClientHello from the CRYPTO fragments of QUIC Initial     *)
(* packets (capture/quic.go): fragments arrive in any order, the covered     *)
(* bytes of a connection are a sorted list of disjoint intervals [s, t).     *)
CONSTANTS QTuple,        \* (client address, port)
          QHello,        \* [QTuple -> Nat]: bytes of the hello, 0: not a ClientHello
          QHeader,       \* the length field ends here (4)
          QMaxBytes, QMaxEntries, QTTL,
          MaxQTime, MaxQTold      \* bounds of the model

\* The length of a hello counts its header (total := 4 + ...).
ASSUME QuicAssumption ==
    /\ {QHeader, QMaxBytes, QMaxEntries, QTTL, MaxQTime, MaxQTold} \subseteq Nat
    /\ QHello \in [QTuple -> Nat] /\ QHeader > 0
    /\ \A u \in QTuple : QHello[u] = 0 \/ QHello[u] >= QHeader

\* The key is the tuple and the DCID.  Keys derive from the DCID of the first
\* packet ("orig"): with the one the server chose a packet does not decrypt.
Dcid == {"orig", "later"}
QKey == [tuple : QTuple, dcid : Dcid]

VARIABLES qclk, qtab, qfin, qsweep,
          qtold,         \* hellos handed over, and the bytes the last one really has
          recv           \* e.data: the offsets at which a packet's byte was put

quicVars == <<qclk, qtab, qfin, qsweep, qtold, recv>>

NotYet == MaxQTime + 1        \* no entry, no finished mark
NoQ == [ivs |-> <<>>, first |-> NotYet, last |-> 0, done |-> FALSE]
NewQ == [ivs |-> <<>>, first |-> qclk, last |-> qclk, done |-> FALSE]

Opened0(t) == {k \in QKey : t[k].first # NotYet}
Bytes(ivs) == UNION {iv[1] .. iv[2] - 1 : iv \in {ivs[i] : i \in DOMAIN ivs}}

QuicInit ==
    /\ qclk = 0 /\ qsweep = 0
    /\ qtab = [k \in QKey |-> NoQ]
    /\ qfin = [u \in QTuple |-> NotYet]
    /\ qtold = [u \in QTuple |-> [n |-> 0, bytes |-> {}]]
    /\ recv = [k \in QKey |-> {}]

Older0(at) == at # NotYet /\ qclk - at > QTTL

SweptTab(t) == [k \in DOMAIN qtab |-> IF Older0(t[k].first) THEN NoQ ELSE t[k]]
SweptFin == [u \in QTuple |-> IF Older0(qfin[u]) THEN NotYet ELSE qfin[u]]

\* addFrag's loop body: an interval before [s, t) or after it stays, one that
\* meets it, or only touches it, is merged into it.
MergeStep(a, iv) ==
    IF iv[2] < a.s THEN [out |-> Append(a.out, iv), s |-> a.s, t |-> a.t, in |-> a.in]
    ELSE IF iv[1] > a.t
    THEN [out |-> Append(IF a.in THEN a.out ELSE Append(a.out, <<a.s, a.t>>), iv),
          s |-> a.s, t |-> a.t, in |-> TRUE]
    ELSE [out |-> a.out, s |-> IF iv[1] < a.s THEN iv[1] ELSE a.s,
          t |-> IF iv[2] > a.t THEN iv[2] ELSE a.t, in |-> a.in]

\* One pass over the list, [s, t) growing as it merges.
MergePass(ivs, s, t) ==
    LET upTo[i \in 0 .. Len(ivs)] ==
          IF i = 0 THEN [out |-> <<>>, s |-> s, t |-> t, in |-> FALSE]
          ELSE MergeStep(upTo[i - 1], ivs[i])
    IN  upTo[Len(ivs)]

AddFrag(ivs, s, t) ==
    LET a == MergePass(ivs, s, t)
    IN  IF s = t THEN ivs ELSE IF a.in THEN a.out ELSE Append(a.out, <<a.s, a.t>>)

\* Mutant: the first interval's end is taken for the prefix wherever it starts.
PrefixAnywhere(ivs) == IF ivs = <<>> THEN 0 ELSE ivs[1][2]
\* clientHello: the bytes held from offset 0 on.
Prefix(ivs) == IF ivs = <<>> \/ ivs[1][1] # 0 THEN 0 ELSE ivs[1][2]

\* Not a ClientHello, or one that says it is longer than the table keeps.
Hopeless(u, n) ==
    (n >= 1 /\ QHello[u] = 0) \/ (n >= QHeader /\ QHello[u] > QMaxBytes)
Whole0(u, n) == n >= QHeader /\ n >= QHello[u]

\* markFinishedLocked: the oldest mark makes room for a new one.
MarkFinished(u, fin) ==
    LET marks == {v \in QTuple : fin[v] # NotYet}
        old == {v \in marks : \A o \in marks : fin[v] <= fin[o]}
    IN  IF u \notin marks /\ Cardinality(marks) >= QMaxEntries
        THEN {[fin EXCEPT ![v] = NotYet, ![u] = qclk] : v \in old}
        ELSE {[fin EXCEPT ![u] = qclk]}

\* The tables in which key k can be entered: swept and the least recently
\* used evicted when full.
EnterInto(t) ==
    LET swept == SweptTab(t)
        open == Opened0(swept)
        lru == {k \in open : \A o \in open : swept[k].last <= swept[o].last}
    IN  IF Cardinality(Opened0(t)) < QMaxEntries THEN {t}
        ELSE IF Cardinality(open) < QMaxEntries THEN {swept}
        ELSE {[swept EXCEPT ![k] = NoQ] : k \in lru}

Keeps(t) == [k \in DOMAIN recv |-> IF t[k].ivs = <<>> THEN {} ELSE recv[k]]

\* Entry q after a packet: its intervals, and whether it is done with.
Touched(q, ivs, done) == [ivs |-> ivs, first |-> q.first, last |-> qclk, done |-> done]

\* The packet of key k carries the fragment [s, t) (several fragments of one
\* packet are several packets here); rows has an entry for k.
Took(k, rows, fin, s, t) ==
    LET u == k.tuple
        ivs == AddFrag(rows[k].ivs, s, t)
        all == Keeps(rows)[k] \cup s .. t - 1
    IN
    IF t > QMaxBytes \/ Hopeless(u, Prefix(ivs))
    THEN /\ qtab' = [rows EXCEPT ![k] = Touched(rows[k], <<>>, TRUE)]
         /\ recv' = [Keeps(rows) EXCEPT ![k] = {}]
         /\ qfin' = fin /\ UNCHANGED qtold
    ELSE IF ~Whole0(u, Prefix(ivs))
    THEN /\ qtab' = [rows EXCEPT ![k] = Touched(rows[k], ivs, rows[k].done)]
         /\ recv' = [Keeps(rows) EXCEPT ![k] = all]
         /\ qfin' = fin /\ UNCHANGED qtold
    ELSE /\ qtab' = [rows EXCEPT ![k] = NoQ]
         /\ recv' = [Keeps(rows) EXCEPT ![k] = {}]
         /\ qfin' \in MarkFinished(u, fin)
         /\ qtold' = [qtold EXCEPT ![u] =
                [n |-> @.n + 1, bytes |-> all \cap (0 .. QHello[u] - 1)]]

Ignored(rows, fin) == qtab' = rows /\ recv' = Keeps(rows) /\ qfin' = fin /\ UNCHANGED qtold

\* handleInitial: an Initial packet of a client.
HandleInitial(u, dcid, s, t) ==
    LET k == [tuple |-> u, dcid |-> dcid]
        sweeps == qclk - qsweep > QTTL
        tab0 == IF sweeps THEN SweptTab(qtab) ELSE qtab
        fin0 == IF sweeps THEN SweptFin ELSE qfin
        tab1 == IF Older0(tab0[k].first) THEN [tab0 EXCEPT ![k] = NoQ] ELSE tab0
        known == tab1[k].first # NotYet
        finished == fin0[u] # NotYet /\ qclk - fin0[u] <= QTTL
    IN
    /\ qtold[u].n < MaxQTold
    /\ IF (~known /\ finished) \/ (known /\ tab1[k].done)
       THEN Ignored(tab1, fin0) /\ qsweep' = IF sweeps THEN qclk ELSE qsweep
       ELSE \E tab2 \in IF known THEN {tab1} ELSE EnterInto(tab1) :
              /\ qsweep' = IF sweeps \/ tab2 # tab1
                              \/ (~known /\ Cardinality(Opened0(tab1)) >= QMaxEntries)
                           THEN qclk ELSE qsweep
              /\ IF dcid # "orig" THEN Ignored(tab2, fin0)         \* does not decrypt
                 ELSE Took(k, IF known THEN tab2 ELSE [tab2 EXCEPT ![k] = NewQ], fin0, s, t)
    /\ UNCHANGED qclk

QuicTick == qclk < MaxQTime /\ qclk' = qclk + 1
            /\ UNCHANGED <<qtab, qfin, qsweep, qtold, recv>>

\* quicOpenInitial, parseQUICFrames: the bytes of the CRYPTO frame of a packet.
\* They are never looked at when the keys of its DCID do not open it.
Frame(d, s, t) == s < t /\ (d # "orig" => <<s, t>> = <<0, 1>>)

QuicNext ==
    \/ QuicTick
    \/ \E u \in QTuple, d \in Dcid, s \in 0 .. QMaxBytes, t \in 0 .. QMaxBytes + 1 :
          Frame(d, s, t) /\ HandleInitial(u, d, s, t)

QuicSpec == QuicInit /\ [][QuicNext]_quicVars
-----------------------------------------------------------------------------
\* Types, and both tables within their limit.
QuicTypeOK ==
    /\ qclk \in 0 .. MaxQTime /\ qsweep \in 0 .. MaxQTime
    /\ \A k \in QKey : qtab[k].first \in 0 .. NotYet /\ qtab[k].last \in 0 .. MaxQTime
    /\ qfin \in [QTuple -> 0 .. NotYet] /\ \A u \in QTuple : qtold[u].n \in 0 .. MaxQTold
    /\ Cardinality(Opened0(qtab)) <= QMaxEntries
    /\ Cardinality({u \in QTuple : qfin[u] # NotYet}) <= QMaxEntries

\* The interval list is what its comment says ("有序且不相交"), no two of its
\* intervals touch, and it covers exactly the bytes received (addFrag).
CoveredExact ==
    \A k \in QKey : LET ivs == qtab[k].ivs IN
        /\ \A i \in DOMAIN ivs : ivs[i][1] < ivs[i][2]
        /\ \A i \in DOMAIN ivs : i > 1 => ivs[i - 1][2] < ivs[i][1]
        /\ Bytes(ivs) = recv[k]

QPromise == INSTANCE HelloBytes WITH
    Conn <- QTuple, HelloLen <- [u \in QTuple |-> IF QHello[u] > QMaxBytes THEN 0 ELSE QHello[u]],
    Reach <- QMaxBytes, got <- [u \in QTuple |-> Bytes(qtab[[tuple |-> u, dcid |-> "orig"]].ivs)],
    told <- qtold

\* The interval table implements HelloBytes: whatever the order, overlap and
\* repetition of fragments, a hello is handed over by the packet that
\* completes it, never from a hole and never later (handleInitial).
QuicKeepsPromise == QPromise!Spec
=============================================================================
