----------------------------- MODULE DnsForward -----------------------------
(***************************************************************************)
(* The DNS forwarder behind the takeover (dns_forwarder.go): a goroutine   *)
(* per UDP query that goes through the rate limiter, the block list, the   *)
(* cache and the upstream, and TCP connections that Close must all end.    *)
(*                                                                         *)
(* Every query carries the time t0 at which it was read; limiter and cache *)
(* use it after they took their mutex, so they may meet the times out of   *)
(* order.  The upstream's record of a name changes; an answer holds the    *)
(* version that was current when the upstream answered.  Messages, record  *)
(* types and truncation are left out, and so is a client whose MAC is not  *)
(* found, to whom no block of a single device applies.                     *)
(***************************************************************************)
EXTENDS Integers, Sequences, FiniteSets, SequencesExt

CONSTANTS Handler, Client, Name,
          TTL,                 \* seconds an answer may be kept
          CacheMax, Burst, RatePerSec, MaxClients, IdleDrop,
          TcpConn, MaxTcp,
          MaxSec, MaxQueries, MaxVersions, MaxBlockEdits

ASSUME ForwardAssumption ==
    /\ {TTL, CacheMax, Burst, RatePerSec, MaxClients, IdleDrop, MaxTcp, MaxSec, MaxQueries,
        MaxVersions, MaxBlockEdits} \subseteq Nat
    /\ Burst > 0 /\ TTL > 0

VARIABLES
    sec,        \* the clock
    version,    \* upstream: current version of every name
    replaced,   \* history: <<name, version>> -> time it stopped being current
    lruCache,   \* the cache, most recently used first
    bucket,     \* client -> tokens, last; last = -1 without a bucket
    allowed,    \* history: client -> queries allowed by its bucket, and when it was made
    blockSet,   \* t.blk: pairs <<client, name>>
    query,      \* per handler
    conns,      \* per TCP connection: "none", "accepted", "open", "shut"
    closing,    \* f.closed
    fwCnt

forwardVars == <<sec, version, replaced, lruCache, bucket, allowed, blockSet, query, conns, closing, fwCnt>>

NoQuery == [pc |-> "idle"]
NoBucket == [tok |-> 0, last |-> -1]
ForwardInit ==
    /\ sec = 0 /\ version = [n \in Name |-> 0]
    /\ replaced = [x \in Name \X (0..MaxVersions) |-> -1]
    /\ lruCache = <<>> /\ bucket = [c \in Client |-> NoBucket]
    /\ allowed = [c \in Client |-> [n |-> 0, since |-> 0]] /\ blockSet = {}
    /\ query = [h \in Handler |-> NoQuery] /\ conns = [c \in TcpConn |-> "none"] /\ closing = FALSE
    /\ fwCnt = [queries |-> 0, edits |-> 0]

\* dnsBlockSet.match.
Blocks(c, n) == <<c, n>> \in blockSet

\* serveUDP: a slot of f.sem (a handler) and the time of the query.
Receive(h) ==
    \E c \in Client, n \in Name :
        /\ query[h].pc = "idle" /\ ~closing /\ fwCnt.queries < MaxQueries
        /\ query' = [query EXCEPT ![h] = [pc |-> "limit", c |-> c, n |-> n, t0 |-> sec,
                                          cut |-> Blocks(c, n)]]
        /\ fwCnt' = [fwCnt EXCEPT !.queries = @ + 1]
        /\ UNCHANGED <<sec, version, replaced, lruCache, bucket, allowed, blockSet, conns, closing>>

\* dnsRateLimiter.allow(c, t): idle buckets are dropped when the table is
\* full; a client that still finds no room is let through.
Idle60(t) == {c \in Client : bucket[c].last >= 0 /\ t - bucket[c].last > IdleDrop}
Buckets == {c \in Client : bucket[c].last >= 0}
Refill(b, t) ==
    LET gained == b.tok + (t - b.last) * RatePerSec
    IN  [tok |-> IF gained > Burst THEN Burst ELSE gained, last |-> t]
Allow(h) ==
    LET c == query[h].c
        t == query[h].t0
        full == bucket[c].last < 0 /\ Cardinality(Buckets) >= MaxClients
        drop == IF full THEN Idle60(t) ELSE {}
        kept == [d \in Client |-> IF d \in drop THEN NoBucket ELSE bucket[d]]
        room == Cardinality(Buckets \ drop) < MaxClients
        new  == bucket[c].last < 0
        b    == Refill(IF new THEN [tok |-> Burst, last |-> t] ELSE bucket[c], t)
        pass == b.tok >= 1
        next(ok) == query' = [query EXCEPT ![h] = IF ok THEN [@ EXCEPT !.pc = "look"] ELSE NoQuery]
    IN  /\ query[h].pc = "limit"
        /\ IF new /\ ~room
           THEN next(TRUE) /\ bucket' = kept /\ UNCHANGED allowed
           ELSE /\ next(pass)
                /\ bucket' = [kept EXCEPT ![c] = IF pass THEN [b EXCEPT !.tok = @ - 1] ELSE b]
                /\ allowed' = [allowed EXCEPT ![c] = [n |-> (IF new THEN 0 ELSE @.n) + (IF pass THEN 1 ELSE 0),
                                                      since |-> IF new THEN t ELSE @.since]]
        /\ UNCHANGED <<sec, version, replaced, lruCache, blockSet, conns, closing, fwCnt>>

\* The block list, and then the cache: an expired entry is removed, a hit
\* moves to the front and goes out with what is left of its TTL (uint32 of a
\* negative age is huge: nothing is left).
Cached(n) == {i \in DOMAIN lruCache : lruCache[i].n = n}
CachedAt(n) == CHOOSE i \in Cached(n) : TRUE
OthersThan(n) == IF Cached(n) = {} THEN lruCache ELSE RemoveAt(lruCache, CachedAt(n))
Left(e, t) == IF t < e.stored THEN 0 ELSE TTL - (t - e.stored)
Refuses(h) == Blocks(query[h].c, query[h].n)
Look(h) ==
    LET q == query[h]
    IN  /\ q.pc = "look"
        /\ IF Refuses(h)
           THEN query' = [query EXCEPT ![h] = NoQuery] /\ UNCHANGED lruCache
           ELSE IF Cached(q.n) = {} THEN query' = [query EXCEPT ![h].pc = "ask"] /\ UNCHANGED lruCache
           ELSE LET e == lruCache[CachedAt(q.n)]
                    others == OthersThan(q.n)
                IN  IF q.t0 >= e.stored + TTL
                    THEN query' = [query EXCEPT ![h].pc = "ask"] /\ lruCache' = others
                    ELSE /\ lruCache' = <<e>> \o others
                         /\ query' = [query EXCEPT ![h] = [pc |-> "hit", n |-> q.n, v |-> e.v, t0 |-> q.t0,
                                                           left |-> Left(e, q.t0), cut |-> q.cut]]
        /\ UNCHANGED <<sec, version, replaced, bucket, allowed, blockSet, conns, closing, fwCnt>>

\* exchange: the upstream answers with its current version, or not in time.
Exchange(h) ==
    /\ query[h].pc = "ask"
    /\ \/ query' = [query EXCEPT ![h] = [pc |-> "put", n |-> @.n, t0 |-> @.t0, v |-> version[@.n], cut |-> @.cut]]
       \/ query' = [query EXCEPT ![h] = NoQuery]
    /\ UNCHANGED <<sec, version, replaced, lruCache, bucket, allowed, blockSet, conns, closing, fwCnt>>

\* dnsCache.put with the time of the query, and the reply.
Stored(q) == [n |-> q.n, v |-> q.v, stored |-> q.t0]
PutAndReply(h) ==
    LET q == query[h]
    IN  /\ q.pc = "put" /\ query' = [query EXCEPT ![h] = NoQuery]
        /\ lruCache' = LET c == <<Stored(q)>> \o OthersThan(q.n)
                       IN  SubSeq(c, 1, IF Len(c) > CacheMax THEN CacheMax ELSE Len(c))
        /\ UNCHANGED <<sec, version, replaced, bucket, allowed, blockSet, conns, closing, fwCnt>>

ReplyHit(h) ==
    /\ query[h].pc = "hit" /\ query' = [query EXCEPT ![h] = NoQuery]
    /\ UNCHANGED <<sec, version, replaced, lruCache, bucket, allowed, blockSet, conns, closing, fwCnt>>

\* serveTCP: Accept and the slot of tcpSem; then the registration under mu.
Accept(c) ==
    /\ conns[c] = "none" /\ ~closing
    /\ conns' = [conns EXCEPT ![c] = IF Cardinality({d \in TcpConn : conns[d] # "none"}) < MaxTcp
                                     THEN "accepted" ELSE "none"]
    /\ UNCHANGED <<sec, version, replaced, lruCache, bucket, allowed, blockSet, query, closing, fwCnt>>
Register(c) == [conns EXCEPT ![c] = IF closing THEN "none" ELSE "open"]
Registers(c) ==
    /\ conns[c] = "accepted" /\ conns' = Register(c)
    /\ UNCHANGED <<sec, version, replaced, lruCache, bucket, allowed, blockSet, query, closing, fwCnt>>
\* The client leaves, the read times out or the socket was shut.
ConnEnds(c) ==
    /\ conns[c] \in {"open", "shut"} /\ conns' = [conns EXCEPT ![c] = "none"]
    /\ UNCHANGED <<sec, version, replaced, lruCache, bucket, allowed, blockSet, query, closing, fwCnt>>

\* Close: closed is set and every registered connection is shut.
CloseForwarder ==
    /\ ~closing /\ closing' = TRUE
    /\ conns' = [c \in TcpConn |-> IF conns[c] = "open" THEN "shut" ELSE conns[c]]
    /\ UNCHANGED <<sec, version, replaced, lruCache, bucket, allowed, blockSet, query, fwCnt>>

\* A second passes; the upstream's record changes; refreshBlocklist.
SecondPasses == /\ sec < MaxSec /\ sec' = sec + 1
                /\ UNCHANGED <<version, replaced, lruCache, bucket, allowed, blockSet, query, conns, closing, fwCnt>>
RecordChanges ==
    \E n \in Name : /\ version[n] < MaxVersions /\ version' = [version EXCEPT ![n] = @ + 1]
                    /\ replaced' = [replaced EXCEPT ![<<n, version[n]>>] = sec]
                    /\ UNCHANGED <<sec, lruCache, bucket, allowed, blockSet, query, conns, closing, fwCnt>>
BlockEdit ==
    \E c \in Client, n \in Name :
        /\ fwCnt.edits < MaxBlockEdits /\ fwCnt' = [fwCnt EXCEPT !.edits = @ + 1]
        /\ blockSet' = IF <<c, n>> \in blockSet THEN blockSet \ {<<c, n>>} ELSE blockSet \union {<<c, n>>}
        /\ query' = [h \in Handler |-> IF query[h].pc = "limit" \/ query[h].pc = "look"
                                       THEN [query[h] EXCEPT !.cut = @ /\ <<query[h].c, query[h].n>> \in blockSet']
                                       ELSE query[h]]
        /\ UNCHANGED <<sec, version, replaced, lruCache, bucket, allowed, conns, closing>>

ForwardStep(h) == Receive(h) \/ Allow(h) \/ Look(h) \/ Exchange(h) \/ PutAndReply(h) \/ ReplyHit(h)
ForwardUdp == (\E h \in Handler : ForwardStep(h)) \/ SecondPasses \/ RecordChanges \/ BlockEdit
ForwardTcp == \E c \in TcpConn : Accept(c) \/ Registers(c) \/ ConnEnds(c)
ForwardNext == ForwardUdp \/ ForwardTcp \/ CloseForwarder
ForwardSpec == ForwardInit /\ [][ForwardNext]_forwardVars

-----------------------------------------------------------------------------
\* dnsCacheEnt, without the bytes of the answer.
CacheEnt == [n : Name, v : 0..MaxVersions, stored : 0..MaxSec]
ForwardTypeOK ==
    /\ sec \in 0..MaxSec /\ Len(lruCache) <= CacheMax /\ Range(lruCache) \subseteq CacheEnt
    /\ \A i, j \in DOMAIN lruCache : i # j => lruCache[i].n # lruCache[j].n
    /\ \A h \in Handler : query[h].pc \in {"idle", "limit", "look", "ask", "put", "hit"}
    /\ conns \in [TcpConn -> {"none", "accepted", "open", "shut"}]

(* What goes out of the cache, with the lifetime it is given, never        *)
(* outlives the record at the upstream by more than the TTL, although the  *)
(* answer may take long and the handlers meet in any order.                *)
StaleBound ==
    \A h \in Handler : query[h].pc = "hit" =>
        LET gone == replaced[<<query[h].n, query[h].v>>]
        IN  query[h].left \in 0..TTL /\ (gone >= 0 => query[h].t0 + query[h].left <= gone + TTL)

(* A client is allowed no more than the burst and the refill of its        *)
(* bucket's lifetime, whatever order the handlers reach the limiter in.    *)
RateBound ==
    \A c \in Client : bucket[c].last >= 0 =>
        allowed[c].n <= Burst + RatePerSec * (sec - allowed[c].since)

(* A name that was blocked when the query came, and still is, is neither   *)
(* served from the cache nor asked for.                                    *)
BlockedRefused == \A h \in Handler : query[h].pc \in {"hit", "ask", "put"} => ~query[h].cut

(* Close leaves no connection open, not even one that was accepted before  *)
(* and registers itself after.                                             *)
CloseEndsAll == closing => \A c \in TcpConn : conns[c] # "open"
=============================================================================
