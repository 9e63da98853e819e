---------------------------- MODULE ClientTable ----------------------------
(***************************************************************************)
(* The client table of hnc_dpid (output/state.go Writer) and the flow      *)
(* trackers in it (output/flow.go).                                        *)
(*                                                                         *)
(* Every operation runs under Writer.mu and is one step.  A client is kept *)
(* under its MAC, or under its IP when it was first met without a MAC;     *)
(* macIndex finds it by MAC.  totalActiveFlows counts the flows of all     *)
(* clients incrementally.  An event carries a MAC, an IP or both.          *)
(*                                                                         *)
(* Data: names, labels, fingerprints, byte counters and remote addresses   *)
(* are bounded maps that nothing here reads back; they are left out.  The  *)
(* score bytes + packets that picks the flow to drop is left out: any flow *)
(* may be the least active one.                                            *)
(***************************************************************************)
EXTENDS Naturals, FiniteSets, FiniteSetsExt

CONSTANTS Mac, Ip, Flow,
          NoAddr,           \* the empty MAC or IP
          MaxClients,       \* maxClients (128)
          MaxFlows,         \* maxFlowsPerClient (64)
          MaxGlobalFlows,   \* maxGlobalFlows (512)
          MaxIdle,          \* flowMaxIdleSeconds
          MaxUnix           \* bound: the clock

ASSUME TableAssumption ==
    /\ Mac \cap Ip = {} /\ NoAddr \notin Mac \union Ip
    /\ {MaxGlobalFlows, MaxIdle, MaxUnix} \subseteq Nat
    /\ {MaxClients, MaxFlows} \subseteq Nat \ {0}

VARIABLES clients, macIndex, totalFlows, unix

tableVars == <<clients, macIndex, totalFlows, unix>>

Keys == Mac \union Ip
Events == {e \in [mac : Mac \union {NoAddr}, ip : Ip \union {NoAddr}] :
              e.mac # NoAddr \/ e.ip # NoAddr}

Without(f, k) == [x \in DOMAIN f \ {k} |-> f[x]]
With(f, k, v) == [x \in DOMAIN f \union {k} |-> IF x = k THEN v ELSE f[x]]

TableInit == /\ clients = <<>> /\ macIndex = <<>> /\ totalFlows = 0 /\ unix = 0

\* Mutant: the flows of the client are not taken off the total.
EvictForgets(c, i, n) ==
    {[cl |-> Without(c, k), ix |-> Without(i, c[k].mac), tot |-> n] :
        k \in {k \in DOMAIN c : \A j \in DOMAIN c : c[k].seen <= c[j].seen}}

\* evictOldestClientLocked: every way to drop one of the clients seen least
\* recently, with its index entry and its flows.
EvictOldestClient(c, i, n) ==
    {[cl |-> Without(c, k), ix |-> Without(i, c[k].mac),
      tot |-> n - Cardinality(DOMAIN c[k].flows)] :
        k \in {k \in DOMAIN c : \A j \in DOMAIN c : c[k].seen <= c[j].seen}}

\* clientLocked: macIndex[mac], else clients[ip] (which takes the MAC when it
\* has none), else a new client under the MAC or, without one, the IP.
ClientLocked(e) ==
    LET byMac == e.mac \in DOMAIN macIndex /\ macIndex[e.mac] \in DOMAIN clients
        index == IF byMac THEN macIndex ELSE Without(macIndex, e.mac)
        key == IF e.mac # NoAddr THEN e.mac ELSE e.ip
        fresh == [mac |-> e.mac, seen |-> unix, flows |-> <<>>]
        full == Cardinality(DOMAIN clients) >= MaxClients /\ key \notin DOMAIN clients
        room == IF full THEN EvictOldestClient(clients, index, totalFlows)
                ELSE {[cl |-> clients, ix |-> index, tot |-> totalFlows]}
    IN  CASE byMac ->
                {[cl |-> [clients EXCEPT ![macIndex[e.mac]].seen = unix],
                  ix |-> index, tot |-> totalFlows]}
          [] ~byMac /\ e.ip \in DOMAIN clients ->
                LET binds == e.mac # NoAddr /\ clients[e.ip].mac = NoAddr
                IN  {[cl |-> [clients EXCEPT ![e.ip].seen = unix,
                                             ![e.ip].mac = IF binds THEN e.mac ELSE @],
                      ix |-> IF binds THEN With(index, e.mac, e.ip) ELSE index,
                      tot |-> totalFlows]}
          [] OTHER ->
                {[cl |-> With(r.cl, key, IF key \in DOMAIN r.cl THEN [r.cl[key] EXCEPT !.seen = unix]
                                         ELSE fresh),
                  ix |-> IF e.mac # NoAddr THEN With(r.ix, e.mac, key) ELSE r.ix,
                  tot |-> r.tot] : r \in room}

\* RecordDNS, RecordTLS: an event with a name makes or touches the client.
RecordName ==
    \E e \in Events : \E r \in ClientLocked(e) :
        /\ clients' = r.cl /\ macIndex' = r.ix /\ totalFlows' = r.tot
        /\ UNCHANGED unix

\* clientLookupLocked: like clientLocked, but nothing is created.
ClientLookup(e) ==
    CASE e.mac \in DOMAIN macIndex /\ macIndex[e.mac] \in DOMAIN clients -> {macIndex[e.mac]}
      [] ~(e.mac \in DOMAIN macIndex /\ macIndex[e.mac] \in DOMAIN clients)
            /\ e.ip \in DOMAIN clients -> {e.ip}
      [] OTHER -> {k \in DOMAIN clients : e.mac # NoAddr /\ clients[k].mac = e.mac}

Fresh(f) == {x \in DOMAIN f : unix - f[x] <= MaxIdle}

\* What may stay when at most n of f's flows may: the idle ones go, then the
\* least active ones.
Trimmed(f, n) ==
    IF Cardinality(Fresh(f)) <= n THEN {[x \in Fresh(f) |-> f[x]]}
    ELSE {[x \in s |-> f[x]] : s \in kSubset(n, Fresh(f))}

\* flowTracker.observe, with evictOldest before a new flow of a full tracker.
ObserveClient(f, x) ==
    IF x \in DOMAIN f \/ Cardinality(DOMAIN f) < MaxFlows THEN {With(f, x, unix)}
    ELSE {With(g, x, unix) : g \in Trimmed(f, MaxFlows - 1)}

\* enforceGlobalFlowLimitLocked: globalEvict on the clients with the most
\* flows first, until the total is within bounds or all have been visited.
Flows(c) == Cardinality(UNION {{k} \X DOMAIN c[k].flows : k \in DOMAIN c})
Budget == MaxFlows
EnforceGlobalLimit(c, n) ==
    LET size(k) == Cardinality(DOMAIN c[k].flows)
        visited == {s \in SUBSET {k \in DOMAIN c : size(k) > 0} :
                       \A k \in s, j \in DOMAIN c \ s : size(j) <= size(k)}
        evicted(s) == {d \in [DOMAIN c -> UNION {Trimmed(c[k].flows, Budget) : k \in s}
                                           \union {c[k].flows : k \in DOMAIN c}] :
                          \A k \in DOMAIN c : IF k \in s THEN d[k] \in Trimmed(c[k].flows, Budget)
                                              ELSE d[k] = c[k].flows}
        after(d) == [k \in DOMAIN c |-> [c[k] EXCEPT !.flows = d[k]]]
        left(d) == n - (Flows(c) - Flows(after(d)))
        stops(s, d) ==
            /\ left(d) <= MaxGlobalFlows \/ s = {k \in DOMAIN c : size(k) > 0}
            /\ \E last \in s : /\ \A k \in s : size(last) <= size(k)
                               /\ left([d EXCEPT ![last] = c[last].flows]) > MaxGlobalFlows
    IN  IF n <= MaxGlobalFlows THEN {[cl |-> c, tot |-> n]}
        ELSE UNION {{[cl |-> after(d), tot |-> left(d)] : d \in {d \in evicted(s) : stops(s, d)}} :
                       s \in visited}

\* RecordFlow: a packet of a known client.
RecordFlow ==
    \E e \in Events, x \in Flow : \E k \in ClientLookup(e) : \E f \in ObserveClient(clients[k].flows, x) :
        LET made == IF x \in DOMAIN clients[k].flows THEN 0 ELSE 1
            gone == Cardinality(DOMAIN clients[k].flows) + made - Cardinality(DOMAIN f)
        IN  \E r \in EnforceGlobalLimit([clients EXCEPT ![k].seen = unix, ![k].flows = f],
                                        totalFlows + made - gone) :
                /\ clients' = r.cl /\ totalFlows' = r.tot
                /\ UNCHANGED <<macIndex, unix>>

UnixTick == /\ unix < MaxUnix /\ unix' = unix + 1
            /\ UNCHANGED <<clients, macIndex, totalFlows>>

TableNext == RecordName \/ RecordFlow \/ UnixTick
TableSpec == TableInit /\ [][TableNext]_tableVars

---------------------------------------------------------------------------
Client == [mac : Mac \union {NoAddr}, seen : 0 .. MaxUnix,
           flows : UNION {[s -> 0 .. MaxUnix] : s \in SUBSET Flow}]
TableTypeOK ==
    /\ DOMAIN clients \subseteq Keys /\ \A k \in DOMAIN clients : clients[k] \in Client
    /\ DOMAIN macIndex \subseteq Mac /\ \A m \in DOMAIN macIndex : macIndex[m] \in Keys
    /\ totalFlows \in Nat /\ unix \in 0 .. MaxUnix

\* macIndex names exactly the clients that carry a MAC, so that a MAC seen
\* under several addresses is one client and never a phantom duplicate
\* (clientLocked): no entry is left behind by an eviction or a late MAC.
IndexExact ==
    \A m \in Mac, k \in Keys :
        (m \in DOMAIN macIndex /\ macIndex[m] = k) <=> (k \in DOMAIN clients /\ clients[k].mac = m)

\* The incremental totalActiveFlows is the number of flows in the table, at
\* the end of every operation: evicting a client, a flow of a full tracker or
\* the idle flows of many clients gives back exactly what it removes.
FlowCount == totalFlows = Flows(clients)

\* NOT kept: "keeps total flows across all clients under maxGlobalFlows"
\* (enforceGlobalFlowLimitLocked): its budget per client is maxFlowsPerClient,
\* which every tracker keeps anyway.
GlobalFlowLimit == totalFlows <= MaxGlobalFlows
=============================================================================
