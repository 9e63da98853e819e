---------------------------- MODULE TrafficProofs ----------------------------
(***************************************************************************)
(* Proofs about what is held of the traffic and how the loops pace         *)
(* themselves: the client table of hnc_dpid, the table of address owners,  *)
(* the cache of the rule files, the rules learned, the loops of httpd and  *)
(* the watchdog's sleep.                                                   *)
(*                                                                         *)
(* Each component has an inductive invariant (TableInv, OwnerInv, RuleInv, *)
(* FlyInv, WaitInv, LinkInv) with three lemmas: it holds at the start,     *)
(* every step keeps it, and it implies what the suite MCTraffic checks.    *)
(***************************************************************************)
EXTENDS MCTraffic, FiniteSetTheorems, WellFoundedInduction, NaturalsInduction, TLAPS

-----------------------------------------------------------------------------
(* The client table.                                                       *)

Entries(c) ==
  /\ c = [k \in DOMAIN c |-> c[k]] /\ IsFiniteSet(DOMAIN c) /\ DOMAIN c \subseteq Keys
  /\ \A k \in DOMAIN c : c[k] \in Client /\ IsFiniteSet(DOMAIN c[k].flows)

\* The index is exact, and a client kept under a MAC has that MAC: only a client met
\* without one is kept under its IP.
Indexed(c, i) ==
  /\ i = [m \in DOMAIN i |-> i[m]] /\ DOMAIN i \subseteq Mac
  /\ \A m \in DOMAIN i : i[m] \in DOMAIN c /\ c[i[m]].mac = m
  /\ \A k \in DOMAIN c : c[k].mac \in Mac => c[k].mac \in DOMAIN i /\ i[c[k].mac] = k
  /\ \A k \in DOMAIN c : k \in Mac => c[k].mac = k

Exact(c, i, n) == Entries(c) /\ Indexed(c, i) /\ n = Flows(c)
TableInv == Exact(clients, macIndex, totalFlows) /\ unix \in 0 .. MaxUnix

\* The flows of all clients, each with its client.
Held(c) == UNION {{k} \X DOMAIN c[k].flows : k \in DOMAIN c}

LEMMA InHeld ==
  ASSUME NEW c, NEW p
  PROVE  p \in Held(c) <=> \E k \in DOMAIN c : \E x \in DOMAIN c[k].flows : p = <<k, x>>
<1>1. ASSUME p \in Held(c) PROVE \E k \in DOMAIN c : \E x \in DOMAIN c[k].flows : p = <<k, x>>
  <2>1. PICK k \in DOMAIN c : p \in {k} \X DOMAIN c[k].flows
    BY <1>1 DEF Held
  <2> QED
    BY <2>1
<1>2. ASSUME NEW k \in DOMAIN c, NEW x \in DOMAIN c[k].flows, p = <<k, x>> PROVE p \in Held(c)
  <2>1. p \in {k} \X DOMAIN c[k].flows
    BY <1>2
  <2> QED
    BY <2>1 DEF Held
<1> QED
  BY <1>1, <1>2

LEMMA HeldFinite ==
  ASSUME NEW c, IsFiniteSet(DOMAIN c), \A k \in DOMAIN c : IsFiniteSet(DOMAIN c[k].flows)
  PROVE  IsFiniteSet(Held(c)) /\ Flows(c) = Cardinality(Held(c)) /\ Flows(c) \in Nat
<1> DEFINE S == {{k} \X DOMAIN c[k].flows : k \in DOMAIN c}
           f == [k \in DOMAIN c |-> {k} \X DOMAIN c[k].flows]
<1>1. f \in Surjection(DOMAIN c, S)
  BY DEF Surjection
<1>2. IsFiniteSet(S)
  BY <1>1, FS_Surjection
<1>3. ASSUME NEW T \in S PROVE IsFiniteSet(T)
  <2>1. PICK k \in DOMAIN c : T = {k} \X DOMAIN c[k].flows
    OBVIOUS
  <2>2. IsFiniteSet({k}) /\ IsFiniteSet(DOMAIN c[k].flows)
    BY FS_Singleton
  <2> QED
    BY <2>1, <2>2, FS_Product
<1>4. IsFiniteSet(UNION S)
  BY <1>2, <1>3, FS_UNION
<1>5. IsFiniteSet(Held(c))
  BY <1>4 DEF Held
<1> QED
  BY <1>5, FS_CardinalityType DEF Flows, Held

\* One client's flows, next to those of the others.
NoneOf(H, k, S) == \A p \in H : p \notin {k} \X S
AddedUp(H, k, S) == Cardinality(H \union ({k} \X S)) = Cardinality(H) + Cardinality(S)

LEMMA HeldSplit ==
  ASSUME NEW H, IsFiniteSet(H), NEW k, NEW S, IsFiniteSet(S), NoneOf(H, k, S)
  PROVE  AddedUp(H, k, S)
<1>1. IsFiniteSet({k}) /\ Cardinality({k}) = 1
  BY FS_Singleton
<1>2. Cardinality(S) \in Nat
  BY FS_CardinalityType
<1>3. IsFiniteSet({k} \X S) /\ Cardinality({k} \X S) = Cardinality(S)
  BY <1>1, <1>2, FS_Product
<1>4. PICK P : P = {k} \X S
  OBVIOUS
<1>5. H \cap P = {}
  BY <1>4 DEF NoneOf
<1>6. Cardinality(H \cap P) = 0
  BY <1>5, FS_EmptySet
<1>7. Cardinality(H) \in Nat
  BY FS_CardinalityType
<1>8. Cardinality(H \union P) = Cardinality(H) + Cardinality(P) - Cardinality(H \cap P)
  BY <1>3, <1>4, FS_Union
<1>9. Cardinality(H \union P) = Cardinality(H) + Cardinality(S)
  BY <1>2, <1>3, <1>4, <1>6, <1>7, <1>8
<1> QED
  BY <1>4, <1>9 DEF AddedUp

\* What the others hold.
Rest(c, k) == {p \in Held(c) : p[1] # k}

LEMMA FlowsOf ==
  ASSUME NEW c, Entries(c), NEW k \in DOMAIN c
  PROVE  /\ IsFiniteSet(Rest(c, k)) /\ Cardinality(Rest(c, k)) \in Nat
         /\ Cardinality(DOMAIN c[k].flows) \in Nat /\ Flows(c) \in Nat
         /\ Flows(c) = Cardinality(Rest(c, k)) + Cardinality(DOMAIN c[k].flows)
<1>0. IsFiniteSet(DOMAIN c) /\ (\A j \in DOMAIN c : IsFiniteSet(DOMAIN c[j].flows))
  BY DEF Entries
<1>1. IsFiniteSet(Held(c)) /\ Flows(c) = Cardinality(Held(c)) /\ Flows(c) \in Nat
  BY <1>0, HeldFinite
<1>2. IsFiniteSet(Rest(c, k))
  BY <1>1, FS_Subset DEF Rest
<1>3. Held(c) = Rest(c, k) \union ({k} \X DOMAIN c[k].flows)
  <2>1. ASSUME NEW p \in Held(c) PROVE p \in Rest(c, k) \union ({k} \X DOMAIN c[k].flows)
    <3>1. PICK j \in DOMAIN c : \E x \in DOMAIN c[j].flows : p = <<j, x>>
      BY <2>1, InHeld
    <3> QED
      BY <3>1 DEF Rest
  <2>2. ASSUME NEW p \in {k} \X DOMAIN c[k].flows PROVE p \in Held(c)
    <3>1. PICK x \in DOMAIN c[k].flows : p = <<k, x>>
      OBVIOUS
    <3> QED
      BY <3>1, InHeld
  <2>3. Rest(c, k) \subseteq Held(c)
    BY DEF Rest
  <2> QED
    BY <2>1, <2>2, <2>3
<1>4. \A p \in Rest(c, k) : p \notin {k} \X DOMAIN c[k].flows
  BY DEF Rest
<1>5. Cardinality(Held(c)) = Cardinality(Rest(c, k)) + Cardinality(DOMAIN c[k].flows)
  <2>1. PICK H : H = Rest(c, k)
    OBVIOUS
  <2>2. PICK S : S = DOMAIN c[k].flows
    OBVIOUS
  <2>3. IsFiniteSet(H) /\ IsFiniteSet(S) /\ NoneOf(H, k, S)
    BY <1>0, <1>2, <1>4, <2>1, <2>2 DEF NoneOf
  <2>4. AddedUp(H, k, S)
    BY <2>3, HeldSplit
  <2> QED
    BY <1>3, <2>1, <2>2, <2>4 DEF AddedUp
<1> QED
  BY <1>0, <1>1, <1>2, <1>5, FS_CardinalityType

\* The others hold the same when only k is changed, added or dropped.
LEMMA RestSame ==
  ASSUME NEW c, NEW d, NEW k, DOMAIN c \ {k} = DOMAIN d \ {k},
         \A j \in DOMAIN c \ {k} : c[j].flows = d[j].flows
  PROVE  Rest(c, k) = Rest(d, k)
<1>1. ASSUME NEW p \in Rest(c, k) PROVE p \in Rest(d, k)
  <2>1. p \in Held(c) /\ p[1] # k
    BY DEF Rest
  <2>2. PICK j \in DOMAIN c : \E x \in DOMAIN c[j].flows : p = <<j, x>>
    BY <2>1, InHeld
  <2>3. j # k
    BY <2>1, <2>2
  <2>4. j \in DOMAIN d /\ \E x \in DOMAIN d[j].flows : p = <<j, x>>
    BY <2>2, <2>3
  <2> QED
    BY <2>1, <2>4, InHeld DEF Rest
<1>2. ASSUME NEW p \in Rest(d, k) PROVE p \in Rest(c, k)
  <2>1. p \in Held(d) /\ p[1] # k
    BY DEF Rest
  <2>2. PICK j \in DOMAIN d : \E x \in DOMAIN d[j].flows : p = <<j, x>>
    BY <2>1, InHeld
  <2>3. j # k
    BY <2>1, <2>2
  <2>4. j \in DOMAIN c /\ \E x \in DOMAIN c[j].flows : p = <<j, x>>
    BY <2>2, <2>3
  <2> QED
    BY <2>1, <2>4, InHeld DEF Rest
<1> QED
  BY <1>1, <1>2
LEMMA RestAll ==
  ASSUME NEW c, NEW k, k \notin DOMAIN c PROVE Rest(c, k) = Held(c)
<1>1. ASSUME NEW p \in Held(c) PROVE p[1] # k
  <2>1. PICK j \in DOMAIN c : \E x \in DOMAIN c[j].flows : p = <<j, x>>
    BY <1>1, InHeld
  <2> QED
    BY <2>1
<1> QED
  BY <1>1 DEF Rest

\* A client's entry is replaced.
Swapped(c, k, v, d) ==
  /\ Entries(d) /\ DOMAIN d = DOMAIN c /\ \A j \in DOMAIN c : d[j] = IF j = k THEN v ELSE c[j]
  /\ Flows(c) \in Nat /\ Cardinality(DOMAIN c[k].flows) \in Nat /\ Cardinality(DOMAIN v.flows) \in Nat
  /\ Flows(d) = Flows(c) - Cardinality(DOMAIN c[k].flows) + Cardinality(DOMAIN v.flows)
LEMMA Replace ==
  ASSUME NEW c, Entries(c), NEW k, k \in DOMAIN c, NEW v, v \in Client, IsFiniteSet(DOMAIN v.flows)
  PROVE  Swapped(c, k, v, [c EXCEPT ![k] = v])
<1>d. PICK d : d = [c EXCEPT ![k] = v]
  OBVIOUS
<1>0. c = [j \in DOMAIN c |-> c[j]] /\ IsFiniteSet(DOMAIN c) /\ DOMAIN c \subseteq Keys
      /\ \A j \in DOMAIN c : c[j] \in Client /\ IsFiniteSet(DOMAIN c[j].flows)
  BY Zenon DEF Entries
<1>1. DOMAIN d = DOMAIN c /\ (\A j \in DOMAIN c : d[j] = IF j = k THEN v ELSE c[j]) /\ d = [j \in DOMAIN d |-> d[j]]
  BY <1>0, <1>d
<1>2. Entries(d)
  BY <1>0, <1>1 DEF Entries
<1>3. Rest(c, k) = Rest(d, k)
  BY <1>1, RestSame
<1>4. d[k] = v /\ k \in DOMAIN d
  BY <1>1
<1>5. /\ Cardinality(Rest(c, k)) \in Nat /\ Cardinality(DOMAIN c[k].flows) \in Nat /\ Flows(c) \in Nat
      /\ Flows(c) = Cardinality(Rest(c, k)) + Cardinality(DOMAIN c[k].flows)
  BY FlowsOf
<1>6. /\ Cardinality(DOMAIN d[k].flows) \in Nat
      /\ Flows(d) = Cardinality(Rest(d, k)) + Cardinality(DOMAIN d[k].flows)
  BY <1>2, <1>4, FlowsOf
<1> QED
  BY <1>d, <1>1, <1>2, <1>3, <1>4, <1>5, <1>6 DEF Swapped

\* A client is dropped.
LEMMA Drop ==
  ASSUME NEW c, Entries(c), NEW k \in DOMAIN c
  PROVE  /\ Entries(Without(c, k)) /\ DOMAIN Without(c, k) = DOMAIN c \ {k}
         /\ \A j \in DOMAIN c \ {k} : Without(c, k)[j] = c[j]
         /\ Flows(Without(c, k)) = Flows(c) - Cardinality(DOMAIN c[k].flows)
<1> DEFINE d == Without(c, k)
<1>0. c = [j \in DOMAIN c |-> c[j]] /\ IsFiniteSet(DOMAIN c) /\ DOMAIN c \subseteq Keys
      /\ \A j \in DOMAIN c : c[j] \in Client /\ IsFiniteSet(DOMAIN c[j].flows)
  BY Zenon DEF Entries
<1>1. DOMAIN d = DOMAIN c \ {k} /\ (\A j \in DOMAIN c \ {k} : d[j] = c[j]) /\ d = [j \in DOMAIN d |-> d[j]]
  BY DEF Without
<1>2. IsFiniteSet(DOMAIN c \ {k})
  BY <1>0, FS_RemoveElement
<1> HIDE DEF d
<1>3. Entries(d)
  BY <1>0, <1>1, <1>2 DEF Entries
<1>4. Rest(c, k) = Rest(d, k)
  BY <1>1, RestSame
<1>5. Rest(d, k) = Held(d)
  BY <1>1, RestAll
<1>6. Flows(d) = Cardinality(Held(d))
  BY DEF Flows, Held
<1>7. /\ Cardinality(Rest(c, k)) \in Nat /\ Cardinality(DOMAIN c[k].flows) \in Nat /\ Flows(c) \in Nat
      /\ Flows(c) = Cardinality(Rest(c, k)) + Cardinality(DOMAIN c[k].flows)
  BY FlowsOf
<1>8. Flows(d) = Flows(c) - Cardinality(DOMAIN c[k].flows)
  BY <1>4, <1>5, <1>6, <1>7
<1> QED
  BY <1>1, <1>3, <1>8 DEF d

\* A client without flows is added.
Added(c, k, v, d) ==
  /\ Entries(d) /\ DOMAIN d = DOMAIN c \union {k} /\ d[k] = v /\ \A j \in DOMAIN c : d[j] = c[j]
  /\ Flows(d) = Flows(c)
LEMMA Put ==
  ASSUME NEW c, Entries(c), NEW k, k \in Keys, k \notin DOMAIN c, NEW v, v \in Client, DOMAIN v.flows = {}
  PROVE  Added(c, k, v, With(c, k, v))
<1> DEFINE d == With(c, k, v)
<1>0. c = [j \in DOMAIN c |-> c[j]] /\ IsFiniteSet(DOMAIN c) /\ DOMAIN c \subseteq Keys
      /\ \A j \in DOMAIN c : c[j] \in Client /\ IsFiniteSet(DOMAIN c[j].flows)
  BY Zenon DEF Entries
<1>1. DOMAIN d = DOMAIN c \union {k} /\ d[k] = v /\ (\A j \in DOMAIN c : d[j] = c[j]) /\ d = [j \in DOMAIN d |-> d[j]]
  BY DEF With
<1>2. IsFiniteSet(DOMAIN c \union {k}) /\ IsFiniteSet(DOMAIN v.flows)
  BY <1>0, FS_AddElement, FS_EmptySet
<1> HIDE DEF d
<1>3. Entries(d)
  BY <1>0, <1>1, <1>2 DEF Entries
<1>4. Rest(d, k) = Rest(c, k)
  BY <1>1, RestSame
<1>5. Rest(c, k) = Held(c)
  BY RestAll
<1>6. Held(d) = Held(c)
  <2>1. ASSUME NEW p \in Held(d) PROVE p \in Rest(d, k)
    <3>1. PICK j \in DOMAIN d : \E x \in DOMAIN d[j].flows : p = <<j, x>>
      BY <2>1, InHeld
    <3>2. j # k
      BY <1>1, <3>1
    <3> QED
      BY <3>1, <3>2 DEF Rest
  <2> QED
    BY <1>4, <1>5, <2>1 DEF Rest
<1>7. Flows(d) = Flows(c)
  BY <1>6 DEF Flows, Held
<1> QED
  BY <1>1, <1>3, <1>7 DEF d, Added

\* A client seen least recently goes, with its index entry and its flows.
LEMMA EvictExact ==
  ASSUME NEW c, NEW i, NEW n, Exact(c, i, n), NEW r \in EvictOldestClient(c, i, n)
  PROVE  Exact(r.cl, r.ix, r.tot) /\ DOMAIN r.cl \subseteq DOMAIN c /\ DOMAIN r.ix \subseteq DOMAIN i
<1>1. PICK k \in DOMAIN c :
        r = [cl |-> Without(c, k), ix |-> Without(i, c[k].mac), tot |-> n - Cardinality(DOMAIN c[k].flows)]
  BY DEF EvictOldestClient
<1>2. PICK d : d = Without(c, k)
  OBVIOUS
<1>3. PICK x : x = Without(i, c[k].mac)
  OBVIOUS
<1>4. r.cl = d /\ r.ix = x /\ r.tot = n - Cardinality(DOMAIN c[k].flows)
  BY <1>1, <1>2, <1>3
<1>5. Entries(c) /\ Indexed(c, i) /\ n = Flows(c)
  BY DEF Exact
<1>6. /\ Entries(d) /\ DOMAIN d = DOMAIN c \ {k} /\ \A j \in DOMAIN c \ {k} : d[j] = c[j]
      /\ Flows(d) = Flows(c) - Cardinality(DOMAIN c[k].flows)
  BY <1>2, <1>5, Drop
<1>7. /\ DOMAIN x = DOMAIN i \ {c[k].mac} /\ (\A m \in DOMAIN i \ {c[k].mac} : x[m] = i[m])
      /\ x = [m \in DOMAIN x |-> x[m]]
  BY <1>3 DEF Without
<1>8. Indexed(d, x)
  BY <1>5, <1>6, <1>7 DEF Indexed
<1> QED
  BY <1>4, <1>5, <1>6, <1>7, <1>8 DEF Exact

\* A client's entry is replaced by one with the same MAC.
LEMMA Touch ==
  ASSUME NEW c, NEW i, Entries(c), Indexed(c, i), NEW d, Entries(d), DOMAIN d = DOMAIN c,
         \A j \in DOMAIN c : d[j].mac = c[j].mac
  PROVE  Indexed(d, i)
BY DEF Indexed

\* A client takes the MAC m, which no client has.
LEMMA TakeMac ==
  ASSUME NEW c, NEW i, Indexed(c, i), NEW m \in Mac, m \notin DOMAIN i, NEW k, k = m \/ k \notin Mac,
         k \in DOMAIN c => c[k].mac \notin Mac,
         NEW d, DOMAIN d = DOMAIN c \union {k}, d[k].mac = m, \A j \in DOMAIN c : j # k => d[j].mac = c[j].mac
  PROVE  Indexed(d, With(i, m, k))
<1>1. PICK x : x = With(i, m, k)
  OBVIOUS
<1>2. /\ DOMAIN x = DOMAIN i \union {m} /\ x[m] = k /\ (\A l \in DOMAIN i : x[l] = i[l])
      /\ x = [l \in DOMAIN x |-> x[l]]
  BY <1>1 DEF With
<1>3. Indexed(d, x)
  <2>1. DOMAIN x \subseteq Mac
    BY <1>2 DEF Indexed
  <2>2. ASSUME NEW l \in DOMAIN x PROVE x[l] \in DOMAIN d /\ d[x[l]].mac = l
    BY <1>2 DEF Indexed
  <2>3. ASSUME NEW j \in DOMAIN d, d[j].mac \in Mac PROVE d[j].mac \in DOMAIN x /\ x[d[j].mac] = j
    BY <1>2, <2>3 DEF Indexed
  <2>4. ASSUME NEW j \in DOMAIN d, j \in Mac PROVE d[j].mac = j
    BY <2>4 DEF Indexed
  <2> QED
    BY <1>2, <2>1, <2>2, <2>3, <2>4 DEF Indexed
<1> QED
  BY <1>1, <1>3

\* What was not there is not missed.
LEMMA NotThere ==
  ASSUME NEW f, f = [x \in DOMAIN f |-> f[x]], NEW k, k \notin DOMAIN f PROVE Without(f, k) = f
BY DEF Without

\* RecordDNS, RecordTLS.
LEMMA NameExact ==
  ASSUME TableInv, NEW e \in Events, NEW r \in ClientLocked(e)
  PROVE  Exact(r.cl, r.ix, r.tot)
<1> USE TableAssumption
<1> DEFINE byMac == e.mac \in DOMAIN macIndex /\ macIndex[e.mac] \in DOMAIN clients
           ix == IF byMac THEN macIndex ELSE Without(macIndex, e.mac)
           key == IF e.mac # NoAddr THEN e.mac ELSE e.ip
           fresh == [mac |-> e.mac, seen |-> unix, flows |-> <<>>]
           full == Cardinality(DOMAIN clients) >= MaxClients /\ key \notin DOMAIN clients
           room == IF full THEN EvictOldestClient(clients, ix, totalFlows)
                   ELSE {[cl |-> clients, ix |-> ix, tot |-> totalFlows]}
<1>0. Entries(clients) /\ Indexed(clients, macIndex) /\ totalFlows = Flows(clients) /\ unix \in 0 .. MaxUnix
  BY DEF TableInv, Exact
<1>e. /\ e.mac \in Mac \union {NoAddr} /\ e.ip \in Ip \union {NoAddr} /\ (e.mac # NoAddr \/ e.ip # NoAddr)
  BY DEF Events
<1>x. ix = macIndex
  <2>1. CASE byMac
    BY <2>1
  <2>2. CASE ~byMac
    <3>1. e.mac \notin DOMAIN macIndex
      BY <1>0, <2>2 DEF Indexed
    <3>2. macIndex = [m \in DOMAIN macIndex |-> macIndex[m]]
      BY <1>0 DEF Indexed
    <3> QED
      BY <2>2, <3>1, <3>2, NotThere
  <2> QED
    BY <2>1, <2>2
<1>d. NoAddr \notin DOMAIN clients
  BY <1>0 DEF Entries, Keys
<1>1. CASE byMac
  <2>1. r = [cl |-> [clients EXCEPT ![macIndex[e.mac]].seen = unix], ix |-> ix, tot |-> totalFlows]
    BY <1>1 DEF ClientLocked
  <2>2. PICK k \in DOMAIN clients : k = macIndex[e.mac]
    BY <1>1
  <2>3. PICK v : v = [mac |-> clients[k].mac, seen |-> unix, flows |-> clients[k].flows]
    OBVIOUS
  <2>4. clients[k] \in Client /\ IsFiniteSet(DOMAIN clients[k].flows)
    BY <1>0 DEF Entries
  <2>5. v \in Client /\ v.mac = clients[k].mac /\ v.flows = clients[k].flows
    BY <1>0, <2>3, <2>4 DEF Client
  <2>6. PICK d : d = [clients EXCEPT ![k] = v]
    OBVIOUS
  <2>7. r.cl = d /\ r.ix = macIndex /\ r.tot = totalFlows
    <3>1. v = [clients[k] EXCEPT !.seen = unix]
      BY <2>3, <2>4 DEF Client
    <3> QED
      BY <1>x, <2>1, <2>2, <2>6, <3>1
  <2>8. /\ Entries(d) /\ DOMAIN d = DOMAIN clients /\ \A j \in DOMAIN clients : d[j] = IF j = k THEN v ELSE clients[j]
        /\ Flows(clients) \in Nat /\ Cardinality(DOMAIN clients[k].flows) \in Nat
        /\ Flows(d) = Flows(clients) - Cardinality(DOMAIN clients[k].flows) + Cardinality(DOMAIN v.flows)
    <3>1. PICK c : c = clients
      OBVIOUS
    <3>2. Entries(c) /\ k \in DOMAIN c /\ IsFiniteSet(DOMAIN v.flows) /\ d = [c EXCEPT ![k] = v]
      BY <1>0, <2>4, <2>5, <2>6, <3>1, Zenon
    <3>3. Swapped(c, k, v, d)
      BY <2>5, <3>2, Replace, Zenon
    <3> QED
      BY <3>1, <3>3, Zenon DEF Swapped
  <2>9. Flows(d) = totalFlows
    BY <1>0, <2>5, <2>8
  <2>10. Indexed(d, macIndex)
    BY <1>0, <2>5, <2>8, Touch
  <2> QED
    BY <2>7, <2>8, <2>9, <2>10 DEF Exact
<1>2. CASE ~byMac /\ e.ip \in DOMAIN clients
  <2> DEFINE takes == e.mac # NoAddr /\ clients[e.ip].mac = NoAddr
  <2>1. r = [cl |-> [clients EXCEPT ![e.ip].seen = unix, ![e.ip].mac = IF takes THEN e.mac ELSE @],
             ix |-> IF takes THEN With(ix, e.mac, e.ip) ELSE ix, tot |-> totalFlows]
    BY <1>2 DEF ClientLocked
  <2>2. PICK k \in DOMAIN clients : k = e.ip
    BY <1>2
  <2>3. PICK v : v = [mac |-> IF takes THEN e.mac ELSE clients[k].mac, seen |-> unix, flows |-> clients[k].flows]
    OBVIOUS
  <2>4. clients[k] \in Client /\ IsFiniteSet(DOMAIN clients[k].flows)
    BY <1>0 DEF Entries
  <2>5. v \in Client /\ v.mac = (IF takes THEN e.mac ELSE clients[k].mac) /\ v.flows = clients[k].flows
    BY <1>0, <1>e, <2>3, <2>4 DEF Client
  <2>6. PICK d : d = [clients EXCEPT ![k] = v]
    OBVIOUS
  <2>7. r.cl = d /\ r.ix = (IF takes THEN With(macIndex, e.mac, e.ip) ELSE macIndex) /\ r.tot = totalFlows
    <3>1. v = [clients[k] EXCEPT !.seen = unix, !.mac = IF takes THEN e.mac ELSE clients[k].mac]
      <4>1. PICK a, b, y : a = clients[k] /\ y = [a EXCEPT !.seen = unix]
                           /\ b = IF takes THEN e.mac ELSE clients[k].mac
        OBVIOUS
      <4>2. a \in Client
        BY <2>4, <4>1, Zenon
      <4>3. y = [mac |-> a.mac, seen |-> unix, flows |-> a.flows]
        BY <4>1, <4>2 DEF Client
      <4>4. [y EXCEPT !.mac = b] = [mac |-> b, seen |-> unix, flows |-> a.flows]
        BY <4>3
      <4>5. v = [y EXCEPT !.mac = b]
        BY <2>3, <4>1, <4>4, Zenon
      <4> QED
        BY <4>1, <4>5, Zenon
    <3>2. r.cl = [clients EXCEPT ![e.ip].seen = unix, ![e.ip].mac = IF takes THEN e.mac ELSE @]
      BY <2>1
    <3>3. r.cl = [clients EXCEPT ![k] = v]
      BY <1>0, <2>2, <2>4, <3>1, <3>2 DEF Entries, Client
    <3> QED
      BY <1>x, <2>1, <2>6, <3>3
  <2>8. /\ Entries(d) /\ DOMAIN d = DOMAIN clients /\ \A j \in DOMAIN clients : d[j] = IF j = k THEN v ELSE clients[j]
        /\ Flows(clients) \in Nat /\ Cardinality(DOMAIN clients[k].flows) \in Nat
        /\ Flows(d) = Flows(clients) - Cardinality(DOMAIN clients[k].flows) + Cardinality(DOMAIN v.flows)
    <3>1. PICK c : c = clients
      OBVIOUS
    <3>2. Entries(c) /\ k \in DOMAIN c /\ IsFiniteSet(DOMAIN v.flows) /\ d = [c EXCEPT ![k] = v]
      BY <1>0, <2>4, <2>5, <2>6, <3>1, Zenon
    <3>3. Swapped(c, k, v, d)
      BY <2>5, <3>2, Replace, Zenon
    <3> QED
      BY <3>1, <3>3, Zenon DEF Swapped
  <2>9. Flows(d) = totalFlows
    BY <1>0, <2>5, <2>8
  <2>10. Indexed(d, r.ix)
    <3>1. CASE ~takes
      BY <1>0, <2>5, <2>7, <2>8, <3>1, Touch
    <3>2. CASE takes
      <4>1. e.mac \in Mac /\ e.mac \notin DOMAIN macIndex /\ k \notin Mac /\ clients[k].mac \notin Mac
        BY <1>0, <1>2, <1>d, <1>e, <2>2, <3>2 DEF Indexed
      <4>2. DOMAIN d = DOMAIN clients \union {k} /\ d[k].mac = e.mac /\ \A j \in DOMAIN clients : j # k => d[j].mac = clients[j].mac
        BY <2>5, <2>8, <3>2
      <4>3. PICK m \in Mac : m = e.mac
        BY <4>1
      <4>4. Indexed(d, With(macIndex, m, k))
        BY <1>0, <4>1, <4>2, <4>3, TakeMac
      <4> QED
        BY <2>2, <2>7, <3>2, <4>3, <4>4
    <3> QED
      BY <3>1, <3>2
  <2> QED
    BY <2>7, <2>8, <2>9, <2>10 DEF Exact
<1>3. CASE ~byMac /\ e.ip \notin DOMAIN clients
  <2>1. PICK q \in room :
          r = [cl |-> With(q.cl, key, IF key \in DOMAIN q.cl THEN [q.cl[key] EXCEPT !.seen = unix] ELSE fresh),
               ix |-> IF e.mac # NoAddr THEN With(q.ix, e.mac, key) ELSE q.ix, tot |-> q.tot]
    BY <1>3 DEF ClientLocked
  <2>2. Exact(q.cl, q.ix, q.tot) /\ DOMAIN q.cl \subseteq DOMAIN clients /\ DOMAIN q.ix \subseteq DOMAIN macIndex
    <3>1. CASE full
      <4>1. q \in EvictOldestClient(clients, macIndex, totalFlows)
        BY <1>x, <2>1, <3>1
      <4> QED
        BY <1>0, <4>1, EvictExact DEF TableInv
    <3>2. CASE ~full
      <4>1. q = [cl |-> clients, ix |-> macIndex, tot |-> totalFlows]
        BY <1>x, <2>1, <3>2
      <4> QED
        BY <1>0, <4>1 DEF TableInv
    <3> QED
      BY <3>1, <3>2
  <2>k. PICK k \in Keys : k = key /\ k \notin DOMAIN clients /\ (k \in Mac => k = e.mac)
    BY <1>0, <1>3, <1>e DEF Indexed, Keys
  <2>3. PICK v : v = fresh
    OBVIOUS
  <2>4. v \in Client /\ v.mac = e.mac /\ DOMAIN v.flows = {}
    <3>1. <<>> \in [{} -> 0 .. MaxUnix] /\ DOMAIN <<>> = {}
      OBVIOUS
    <3>2. [{} -> 0 .. MaxUnix] \in {[s -> 0 .. MaxUnix] : s \in SUBSET Flow}
      OBVIOUS
    <3>3. <<>> \in UNION {[s -> 0 .. MaxUnix] : s \in SUBSET Flow}
      BY <3>1, <3>2
    <3> QED
      BY <1>0, <1>e, <2>3, <3>1, <3>3 DEF Client
  <2>5. PICK d : d = With(q.cl, k, v)
    OBVIOUS
  <2>6. r.cl = d /\ r.tot = q.tot /\ r.ix = IF e.mac # NoAddr THEN With(q.ix, e.mac, k) ELSE q.ix
    BY <2>1, <2>2, <2>k, <2>3, <2>5
  <2>7. PICK c : c = q.cl
    OBVIOUS
  <2>8. /\ Entries(d) /\ DOMAIN d = DOMAIN c \union {k} /\ d[k] = v /\ (\A j \in DOMAIN c : d[j] = c[j])
        /\ Flows(d) = Flows(c)
    <3>1. Entries(c) /\ k \notin DOMAIN c /\ d = With(c, k, v)
      <4>1. Entries(c) /\ DOMAIN c \subseteq DOMAIN clients
        BY <2>2, <2>7 DEF Exact
      <4> QED
        BY <2>k, <2>5, <2>7, <4>1, Zenon
    <3>2. Added(c, k, v, d)
      BY <2>k, <2>4, <3>1, Put, Zenon
    <3> QED
      BY <3>2, Zenon DEF Added
  <2>9. Entries(c) /\ Indexed(c, q.ix) /\ q.tot = Flows(c)
    BY <2>2, <2>7 DEF Exact
  <2>10. Indexed(d, r.ix)
    <3>1. CASE e.mac # NoAddr
      <4>1. PICK m \in Mac : m = e.mac
        BY <1>e, <3>1
      <4>2. m \notin DOMAIN macIndex
        BY <1>0, <1>3, <4>1 DEF Indexed
      <4>3. Indexed(d, With(q.ix, m, k))
        BY <2>2, <2>k, <2>4, <2>7, <2>8, <2>9, <3>1, <4>1, <4>2, TakeMac
      <4> QED
        BY <2>6, <3>1, <4>1, <4>3
    <3>2. CASE e.mac = NoAddr
      <4>1. v.mac \notin Mac /\ k \notin Mac /\ r.ix = q.ix
        BY <2>k, <2>4, <2>6, <3>2
      <4> QED
        BY <2>8, <2>9, <4>1 DEF Indexed
    <3> QED
      BY <3>1, <3>2
  <2> QED
    BY <2>6, <2>8, <2>9, <2>10 DEF Exact
<1> QED
  BY <1>1, <1>2, <1>3

-----------------------------------------------------------------------------
FlowTable == UNION {[s -> 0 .. MaxUnix] : s \in SUBSET Flow}

\* What is left of a tracker is some of its flows.
LEMMA TrimmedPart ==
  ASSUME NEW f \in FlowTable, IsFiniteSet(DOMAIN f), NEW n, NEW g \in Trimmed(f, n)
  PROVE  g \in FlowTable /\ IsFiniteSet(DOMAIN g) /\ DOMAIN g \subseteq DOMAIN f
<1>1. PICK s \in SUBSET DOMAIN f : g = [x \in s |-> f[x]]
  <2>1. Fresh(f) \subseteq DOMAIN f
    BY DEF Fresh
  <2>2. CASE Cardinality(Fresh(f)) <= n
    BY <2>1, <2>2 DEF Trimmed
  <2>3. CASE ~(Cardinality(Fresh(f)) <= n)
    <3>1. PICK s \in kSubset(n, Fresh(f)) : g = [x \in s |-> f[x]]
      BY <2>3 DEF Trimmed
    <3> QED
      BY <2>1, <3>1 DEF kSubset
  <2> QED
    BY <2>2, <2>3
<1>2. PICK t \in SUBSET Flow : f \in [t -> 0 .. MaxUnix]
  BY DEF FlowTable
<1>3. s \in SUBSET Flow /\ g \in [s -> 0 .. MaxUnix] /\ DOMAIN g = s
  BY <1>1, <1>2
<1> QED
  BY <1>1, <1>3, FS_Subset DEF FlowTable

\* observe puts the flow into the tracker.
LEMMA RowObserved ==
  ASSUME NEW f \in FlowTable, IsFiniteSet(DOMAIN f), NEW x \in Flow, unix \in 0 .. MaxUnix,
         NEW g \in ObserveClient(f, x)
  PROVE  g \in FlowTable /\ IsFiniteSet(DOMAIN g)
<1>1. PICK h \in FlowTable : IsFiniteSet(DOMAIN h) /\ g = With(h, x, unix)
  BY TrimmedPart DEF ObserveClient
<1>2. PICK t \in SUBSET Flow : h \in [t -> 0 .. MaxUnix]
  BY DEF FlowTable
<1>3. t \union {x} \in SUBSET Flow /\ g \in [t \union {x} -> 0 .. MaxUnix] /\ DOMAIN g = DOMAIN h \union {x}
  BY <1>1, <1>2 DEF With
<1>4. IsFiniteSet(DOMAIN h \union {x})
  BY <1>1, FS_AddElement
<1> QED
  BY <1>3, <1>4 DEF FlowTable

\* enforceGlobalFlowLimitLocked: clients and MACs stay, and what is taken off the
\* total is what went.
Limited(c, r) ==
  /\ Entries(r.cl) /\ r.tot = Flows(r.cl) /\ DOMAIN r.cl = DOMAIN c
  /\ \A k \in DOMAIN c : r.cl[k].mac = c[k].mac
LEMMA LimitExact ==
  ASSUME NEW c, Entries(c), NEW n, n = Flows(c), NEW r, r \in EnforceGlobalLimit(c, n)
  PROVE  Limited(c, r)
<1> DEFINE After(d) == [k \in DOMAIN c |-> [c[k] EXCEPT !.flows = d[k]]]
<1>0. c = [k \in DOMAIN c |-> c[k]] /\ IsFiniteSet(DOMAIN c) /\ DOMAIN c \subseteq Keys
      /\ \A k \in DOMAIN c : c[k] \in Client /\ IsFiniteSet(DOMAIN c[k].flows)
  BY Zenon DEF Entries
<1>1. CASE n <= MaxGlobalFlows
  <2>1. r = [cl |-> c, tot |-> n]
    BY <1>1 DEF EnforceGlobalLimit
  <2> QED
    BY <2>1 DEF Limited
<1>2. CASE ~(n <= MaxGlobalFlows)
  <2> DEFINE size(k) == Cardinality(DOMAIN c[k].flows)
             visited == {s \in SUBSET {k \in DOMAIN c : size(k) > 0} :
                            \A k \in s, j \in DOMAIN c \ s : size(j) <= size(k)}
             evicted(s) == {d \in [DOMAIN c -> UNION {Trimmed(c[k].flows, Budget) : k \in s}
                                                \union {c[k].flows : k \in DOMAIN c}] :
                               \A k \in DOMAIN c : IF k \in s THEN d[k] \in Trimmed(c[k].flows, Budget)
                                                   ELSE d[k] = c[k].flows}
             left(d) == n - (Flows(c) - Flows(After(d)))
             stops(s, d) ==
                 /\ left(d) <= MaxGlobalFlows \/ s = {k \in DOMAIN c : size(k) > 0}
                 /\ \E last \in s : /\ \A k \in s : size(last) <= size(k)
                                    /\ left([d EXCEPT ![last] = c[last].flows]) > MaxGlobalFlows
  <2>a. r \in UNION {{[cl |-> After(d), tot |-> left(d)] : d \in {d \in evicted(s) : stops(s, d)}} : s \in visited}
    BY <1>2, Zenon DEF EnforceGlobalLimit
  <2> HIDE DEF stops, visited, left
  <2>b. PICK s \in visited : r \in {[cl |-> After(d), tot |-> left(d)] : d \in {d \in evicted(s) : stops(s, d)}}
    BY <2>a, Zenon
  <2>c. PICK d \in evicted(s) : r = [cl |-> After(d), tot |-> left(d)]
    BY <2>b, Zenon
  <2>1. /\ \A k \in DOMAIN c : IF k \in s THEN d[k] \in Trimmed(c[k].flows, Budget) ELSE d[k] = c[k].flows
        /\ r = [cl |-> After(d), tot |-> n - (Flows(c) - Flows(After(d)))]
    BY <2>c, Zenon DEF left
  <2>2. PICK a : a = After(d)
    OBVIOUS
  <2>3. DOMAIN a = DOMAIN c /\ a = [k \in DOMAIN a |-> a[k]] /\ \A k \in DOMAIN c : a[k] = [c[k] EXCEPT !.flows = d[k]]
    BY <2>2
  <2>4. ASSUME NEW k \in DOMAIN c
        PROVE  a[k] \in Client /\ a[k].mac = c[k].mac /\ IsFiniteSet(DOMAIN a[k].flows)
    <3>a. PICK y \in Client : y = c[k]
      BY <1>0
    <3>b. PICK g : g = d[k]
      OBVIOUS
    <3>1. y = c[k] /\ g = d[k]
      BY <3>a, <3>b
    <3>2. y.flows \in FlowTable /\ IsFiniteSet(DOMAIN y.flows)
      BY <1>0, <3>1 DEF Client, FlowTable
    <3>3. g \in FlowTable /\ IsFiniteSet(DOMAIN g)
      <4>1. CASE k \in s
        BY <2>1, <3>1, <3>2, <4>1, TrimmedPart
      <4>2. CASE k \notin s
        BY <2>1, <3>1, <3>2, <4>2
      <4> QED
        BY <4>1, <4>2
    <3>4. [y EXCEPT !.flows = g] = [mac |-> y.mac, seen |-> y.seen, flows |-> g]
      BY DEF Client
    <3>5. a[k] = [mac |-> y.mac, seen |-> y.seen, flows |-> g]
      BY <2>3, <3>1, <3>4, Zenon
    <3> QED
      BY <3>1, <3>3, <3>5 DEF Client, FlowTable
  <2>5. Entries(a)
    BY <1>0, <2>3, <2>4 DEF Entries
  <2>6. Flows(c) \in Nat /\ Flows(a) \in Nat
    BY <1>0, <2>5, HeldFinite DEF Entries
  <2>7. r.cl = a /\ r.tot = Flows(c) - (Flows(c) - Flows(a))
    BY <2>1, <2>2
  <2> QED
    BY <2>3, <2>4, <2>5, <2>6, <2>7 DEF Limited
<1> QED
  BY <1>1, <1>2

\* RecordFlow.
LEMMA FlowExact == ASSUME TableInv, RecordFlow PROVE TableInv'
<1>0. Entries(clients) /\ Indexed(clients, macIndex) /\ totalFlows = Flows(clients) /\ unix \in 0 .. MaxUnix
  BY DEF TableInv, Exact
<1>1. PICK e \in Events, x \in Flow : \E k \in ClientLookup(e) : \E f \in ObserveClient(clients[k].flows, x) :
        LET made == IF x \in DOMAIN clients[k].flows THEN 0 ELSE 1
            gone == Cardinality(DOMAIN clients[k].flows) + made - Cardinality(DOMAIN f)
        IN  \E r \in EnforceGlobalLimit([clients EXCEPT ![k].seen = unix, ![k].flows = f],
                                        totalFlows + made - gone) :
                /\ clients' = r.cl /\ totalFlows' = r.tot
                /\ UNCHANGED <<macIndex, unix>>
  BY Zenon DEF RecordFlow
<1>2. PICK k \in ClientLookup(e) : \E f \in ObserveClient(clients[k].flows, x) :
        LET made == IF x \in DOMAIN clients[k].flows THEN 0 ELSE 1
            gone == Cardinality(DOMAIN clients[k].flows) + made - Cardinality(DOMAIN f)
        IN  \E r \in EnforceGlobalLimit([clients EXCEPT ![k].seen = unix, ![k].flows = f],
                                        totalFlows + made - gone) :
                /\ clients' = r.cl /\ totalFlows' = r.tot
                /\ UNCHANGED <<macIndex, unix>>
  BY <1>1, Zenon
<1>3. PICK f \in ObserveClient(clients[k].flows, x) :
        LET made == IF x \in DOMAIN clients[k].flows THEN 0 ELSE 1
            gone == Cardinality(DOMAIN clients[k].flows) + made - Cardinality(DOMAIN f)
        IN  \E r \in EnforceGlobalLimit([clients EXCEPT ![k].seen = unix, ![k].flows = f],
                                        totalFlows + made - gone) :
                /\ clients' = r.cl /\ totalFlows' = r.tot
                /\ UNCHANGED <<macIndex, unix>>
  BY <1>2, Zenon
<1>a. PICK made \in {0, 1} : \E gone :
        /\ gone = Cardinality(DOMAIN clients[k].flows) + made - Cardinality(DOMAIN f)
        /\ \E r \in EnforceGlobalLimit([clients EXCEPT ![k].seen = unix, ![k].flows = f],
                                        totalFlows + made - gone) :
             clients' = r.cl /\ totalFlows' = r.tot /\ macIndex' = macIndex /\ unix' = unix
  BY <1>3, Zenon
<1>4. PICK gone :
        /\ gone = Cardinality(DOMAIN clients[k].flows) + made - Cardinality(DOMAIN f)
        /\ \E r \in EnforceGlobalLimit([clients EXCEPT ![k].seen = unix, ![k].flows = f],
                                        totalFlows + made - gone) :
             clients' = r.cl /\ totalFlows' = r.tot /\ macIndex' = macIndex /\ unix' = unix
  BY <1>a, Zenon
<1>5. PICK c : c = clients
  OBVIOUS
<1>6. k \in DOMAIN c
  <2>1. ClientLookup(e) \subseteq DOMAIN clients
    BY DEF ClientLookup
  <2> QED
    BY <1>5, <2>1
<1>7. PICK y \in Client : y = c[k] /\ IsFiniteSet(DOMAIN y.flows) /\ y.flows \in FlowTable
  BY <1>0, <1>5, <1>6 DEF Entries, Client, FlowTable
<1>8. f \in FlowTable /\ IsFiniteSet(DOMAIN f)
  BY <1>0, <1>3, <1>5, <1>7, RowObserved
<1>9. PICK v : v = [mac |-> y.mac, seen |-> unix, flows |-> f]
  OBVIOUS
<1>10. v \in Client /\ v.mac = y.mac /\ v.flows = f
  BY <1>0, <1>8, <1>9 DEF Client, FlowTable
<1>11. [clients EXCEPT ![k].seen = unix, ![k].flows = f] = [c EXCEPT ![k] = v]
  <2>1. PICK z : z = [y EXCEPT !.seen = unix]
    OBVIOUS
  <2>2. z = [mac |-> y.mac, seen |-> unix, flows |-> y.flows]
    BY <2>1 DEF Client
  <2>3. [z EXCEPT !.flows = f] = v
    BY <1>9, <2>2
  <2>4. c = [j \in DOMAIN c |-> c[j]]
    BY <1>0, <1>5 DEF Entries
  <2> QED
    BY <1>5, <1>6, <1>7, <2>1, <2>3, <2>4
<1>12. PICK d : d = [c EXCEPT ![k] = v]
  OBVIOUS
<1>13. Entries(c) /\ IsFiniteSet(DOMAIN v.flows)
  BY <1>0, <1>5, <1>8, <1>10, Zenon
<1>14. /\ Entries(d) /\ DOMAIN d = DOMAIN c /\ \A j \in DOMAIN c : d[j] = IF j = k THEN v ELSE c[j]
       /\ Flows(c) \in Nat /\ Cardinality(DOMAIN c[k].flows) \in Nat /\ Cardinality(DOMAIN v.flows) \in Nat
       /\ Flows(d) = Flows(c) - Cardinality(DOMAIN c[k].flows) + Cardinality(DOMAIN v.flows)
  <2>1. Swapped(c, k, v, d)
    BY <1>6, <1>10, <1>12, <1>13, Replace, Zenon
  <2> QED
    BY <2>1, Zenon DEF Swapped
<1>15. PICK n : n = totalFlows + made - gone
  OBVIOUS
<1>16. n = Flows(d)
  BY <1>0, <1>4, <1>5, <1>10, <1>14, <1>15
<1>17. PICK r \in EnforceGlobalLimit(d, n) :
         clients' = r.cl /\ totalFlows' = r.tot /\ macIndex' = macIndex /\ unix' = unix
  BY <1>4, <1>11, <1>12, <1>15, Zenon
<1>18. /\ Entries(r.cl) /\ r.tot = Flows(r.cl) /\ DOMAIN r.cl = DOMAIN d
       /\ \A j \in DOMAIN d : r.cl[j].mac = d[j].mac
  <2>1. Limited(d, r)
    BY <1>14, <1>16, <1>17, LimitExact, Zenon
  <2> QED
    BY <2>1, Zenon DEF Limited
<1>19. PICK g : g = r.cl
  OBVIOUS
<1>20. DOMAIN g = DOMAIN c /\ \A j \in DOMAIN c : g[j].mac = c[j].mac
  BY <1>7, <1>10, <1>14, <1>18, <1>19
<1>21. Indexed(g, macIndex)
  BY <1>0, <1>5, <1>18, <1>19, <1>20, Touch
<1>22. clients' = g /\ Entries(g) /\ totalFlows' = Flows(g)
  BY <1>17, <1>18, <1>19
<1> QED
  BY <1>0, <1>17, <1>21, <1>22 DEF TableInv, Exact

LEMMA TableStep == TableInv /\ [TableNext]_tableVars => TableInv'
<1> SUFFICES ASSUME TableInv, [TableNext]_tableVars PROVE TableInv'
  OBVIOUS
<1> USE TableAssumption
<1>1. CASE RecordName
  <2>a. PICK e \in Events : \E r \in ClientLocked(e) :
           clients' = r.cl /\ macIndex' = r.ix /\ totalFlows' = r.tot /\ unix' = unix
    BY <1>1, Zenon DEF RecordName
  <2>1. PICK r \in ClientLocked(e) :
           clients' = r.cl /\ macIndex' = r.ix /\ totalFlows' = r.tot /\ unix' = unix
    BY <2>a, Zenon
  <2>2. Exact(r.cl, r.ix, r.tot)
    BY <2>1, NameExact
  <2> QED
    BY <2>1, <2>2 DEF TableInv
<1>2. CASE RecordFlow
  BY <1>2, FlowExact
<1>3. CASE UnixTick
  <2>1. unix' \in 0 .. MaxUnix /\ UNCHANGED <<clients, macIndex, totalFlows>>
    BY <1>3 DEF UnixTick, TableInv
  <2> QED
    BY <2>1 DEF TableInv
<1>4. CASE UNCHANGED tableVars
  BY <1>4 DEF tableVars, TableInv
<1> QED
  BY <1>1, <1>2, <1>3, <1>4 DEF TableNext

LEMMA TableStart == TableInit => TableInv
<1> SUFFICES ASSUME TableInit PROVE TableInv
  OBVIOUS
<1> USE TableAssumption
<1>1. clients = <<>> /\ macIndex = <<>> /\ totalFlows = 0 /\ unix \in 0 .. MaxUnix
  BY DEF TableInit
<1>2. DOMAIN clients = {} /\ clients = [k \in DOMAIN clients |-> clients[k]]
      /\ DOMAIN macIndex = {} /\ macIndex = [k \in DOMAIN macIndex |-> macIndex[k]]
  BY <1>1
<1>3. Entries(clients)
  BY <1>2, FS_EmptySet DEF Entries
<1>4. Held(clients) = {}
  BY <1>2 DEF Held
<1>5. Flows(clients) = 0
  BY <1>4, FS_EmptySet DEF Flows, Held
<1>6. Indexed(clients, macIndex)
  BY <1>2 DEF Indexed
<1> QED
  BY <1>1, <1>3, <1>5, <1>6 DEF TableInv, Exact

LEMMA TableTyped == ASSUME TableInv PROVE TableTypeOK /\ IndexExact /\ FlowCount
<1>0. Entries(clients) /\ Indexed(clients, macIndex) /\ totalFlows = Flows(clients) /\ unix \in 0 .. MaxUnix
  BY DEF TableInv, Exact
<1>1. Flows(clients) \in Nat
  BY <1>0, HeldFinite DEF Entries
<1>2. IndexExact
  <2> SUFFICES ASSUME NEW m \in Mac, NEW k \in Keys
               PROVE  (m \in DOMAIN macIndex /\ macIndex[m] = k) <=> (k \in DOMAIN clients /\ clients[k].mac = m)
    BY DEF IndexExact
  <2> QED
    BY <1>0 DEF Indexed
<1>3. TableTypeOK
  BY <1>0, <1>1 DEF TableTypeOK, Entries, Indexed
<1> QED
  BY <1>0, <1>2, <1>3 DEF FlowCount

-----------------------------------------------------------------------------
(* The owners of addresses.                                                *)

\* A table as it is accepted.
Sorted(rs) == rs \in Seq(Range0) /\ \A i \in DOMAIN rs : rs[i].e >= rs[i].s /\ Ordered(rs, i)
OwnerDir == {Cand[i] : i \in DOMAIN Cand}
OwnerFiles ==
  /\ owFile = [c \in OwnerDir |-> owFile[c]]
  /\ \A c \in OwnerDir : /\ owFile[c] = [stamp |-> owFile[c].stamp, here |-> owFile[c].here, ranges |-> owFile[c].ranges]
                         /\ owFile[c].stamp \in Nat /\ owFile[c].ranges \in Seq(Range0)

\* The key that was noted is of the past, and as long as the file has it, the table is the
\* file's, unless it could not be read.
OwnerNoted ==
  /\ owKey = [path |-> owKey.path, stamp |-> owKey.stamp]
  /\ owKey.path \in 0 .. Len(Cand) /\ owKey.stamp \in Nat
  /\ owKey.path # 0 =>
       /\ owKey.stamp <= owFile[Cand[owKey.path]].stamp
       /\ owKey.stamp = owFile[Cand[owKey.path]].stamp /\ owFaulty = 0 => owDb = Parsed(owFile[Cand[owKey.path]].ranges)
OwnerInv ==
  /\ OwnerFiles /\ OwnerNoted /\ Sorted(owDb.rs) /\ OwnerCurrent
  /\ owClk \in Nat /\ owChecked \in Unchecked .. owClk /\ owFaulty \in 0 .. Len(Cand)

LEMMA LeastOf ==
  ASSUME NEW T \in SUBSET Nat, T # {}
  PROVE  \E m \in T : \A n \in T : m <= n
<1> DEFINE R == OpToRel(<, Nat)
<1>1. IsWellFoundedOn(R, Nat)
  BY NatLessThanWellFounded
<1>2. \A x, y \in Nat : y < x => <<y, x>> \in R
  BY DEF OpToRel
<1> HIDE DEF R
<1>3. PICK m \in T : \A y \in T : ~ (<<y, m>> \in R)
  BY <1>1, WFMin
<1>4. ASSUME NEW n \in T PROVE m <= n
  <2>1. m \in Nat /\ n \in Nat
    OBVIOUS
  <2>2. ~ (n < m)
    BY <1>2, <1>3, <2>1
  <2> QED
    BY <2>1, <2>2
<1> QED
  BY <1>4

LEMMA OwnerParams ==
  /\ Len(Cand) \in Nat /\ DOMAIN Cand = 1 .. Len(Cand)
  /\ TopAddr \in Nat /\ OwnerRecheck \in Nat /\ MaxOwnerTime \in Nat
  /\ OwnerTables \subseteq Seq(Range0)
BY OwnerAssumption

\* parseIPOwner accepts only what is in order.
LEMMA ParsedSorted == ASSUME NEW rs \in Seq(Range0) PROVE Sorted(Parsed(rs).rs)
<1>1. CASE ~(\A i \in DOMAIN rs : rs[i].e >= rs[i].s /\ rs[i].o \in Owners /\ Ordered(rs, i))
  <2>1. Parsed(rs).rs = <<>>
    BY <1>1 DEF Parsed, NoDb
  <2> QED
    BY <2>1 DEF Sorted
<1>2. CASE \A i \in DOMAIN rs : rs[i].e >= rs[i].s /\ rs[i].o \in Owners /\ Ordered(rs, i)
  <2>1. Parsed(rs).rs = rs
    BY <1>2 DEF Parsed
  <2> QED
    BY <1>2, <2>1 DEF Sorted
<1> QED
  BY <1>1, <1>2

\* A range of an accepted table, and the next one.
LEMMA SortedAt ==
  ASSUME NEW rs, Sorted(rs)
  PROVE  /\ Len(rs) \in Nat /\ DOMAIN rs = 1 .. Len(rs)
         /\ \A i \in 1 .. Len(rs) : rs[i].s \in Nat /\ rs[i].e \in Nat /\ rs[i].s <= rs[i].e
         /\ \A i \in 1 .. Len(rs) : i > 1 => rs[i - 1].e < rs[i].s
<1>1. rs \in Seq(Range0)
  BY DEF Sorted
<1>2. Len(rs) \in Nat /\ DOMAIN rs = 1 .. Len(rs)
  BY <1>1
<1>3. \A i \in 1 .. Len(rs) : rs[i] \in Range0
  BY <1>1, <1>2
<1>4. \A i \in 1 .. Len(rs) : rs[i].s \in Nat /\ rs[i].e \in Nat
  BY <1>3, OwnerParams DEF Range0
<1>5. \A i \in 1 .. Len(rs) : rs[i].s <= rs[i].e
  BY <1>2, <1>4 DEF Sorted
<1>6. ASSUME NEW i \in 1 .. Len(rs), i > 1 PROVE rs[i - 1].e < rs[i].s
  <2>1. rs[i].s > rs[i - 1].e
    BY <1>2, <1>6 DEF Sorted, Ordered
  <2>2. i - 1 \in 1 .. Len(rs)
    BY <1>2, <1>6
  <2> QED
    BY <1>4, <2>1, <2>2
<1> QED
  BY <1>2, <1>4, <1>5, <1>6

\* parseIPOwner compares neighbours only; every range ends before all later ones start.
LEMMA Ascending ==
  ASSUME NEW rs, Sorted(rs), NEW i \in 1 .. Len(rs), NEW j \in i + 1 .. Len(rs)
  PROVE  rs[i].e < rs[j].s
<1> DEFINE T == {k \in i + 1 .. Len(rs) : ~(rs[i].e < rs[k].s)}
<1>0. /\ Len(rs) \in Nat
      /\ \A k \in 1 .. Len(rs) : rs[k].s \in Nat /\ rs[k].e \in Nat /\ rs[k].s <= rs[k].e
      /\ \A k \in 1 .. Len(rs) : k > 1 => rs[k - 1].e < rs[k].s
  BY SortedAt
<1>1. SUFFICES ASSUME T # {} PROVE FALSE
  OBVIOUS
<1>2. T \in SUBSET Nat
  BY <1>0
<1>3. PICK m \in T : \A n \in T : m <= n
  BY <1>1, <1>2, LeastOf
<1>4. m \in i + 1 .. Len(rs) /\ ~(rs[i].e < rs[m].s)
  BY <1>3
<1>5. CASE m = i + 1
  <2>1. m \in 1 .. Len(rs) /\ m > 1 /\ m - 1 = i
    BY <1>0, <1>4, <1>5
  <2>2. rs[m - 1].e < rs[m].s
    BY <1>0, <2>1
  <2> QED
    BY <1>4, <2>1, <2>2
<1>6. CASE m # i + 1
  <2>1. m - 1 \in i + 1 .. Len(rs) /\ m - 1 \in 1 .. Len(rs) /\ m \in 1 .. Len(rs) /\ m > 1 /\ ~(m <= m - 1)
    BY <1>0, <1>4, <1>6
  <2>2. rs[i].e < rs[m - 1].s
    BY <1>3, <2>1
  <2>3. rs[m - 1].s <= rs[m - 1].e /\ rs[m - 1].e < rs[m].s
    BY <1>0, <2>1
  <2>4. /\ rs[i].e \in Nat /\ rs[m - 1].s \in Nat /\ rs[m - 1].e \in Nat /\ rs[m].s \in Nat
    BY <1>0, <2>1
  <2> QED
    BY <1>4, <2>2, <2>3, <2>4
<1> QED
  BY <1>5, <1>6

\* What the search finds: k is the first range that starts after x.
Starts(rs, x, k) == (k = Len(rs) + 1 \/ rs[k].s > x) /\ \A j \in 1 .. k - 1 : rs[j].s <= x
OwnerAt(rs, x, k) == IF k > 1 /\ x <= rs[k - 1].e THEN rs[k - 1].o ELSE "none"

LEMMA Found ==
  ASSUME NEW db, NEW x, \E k \in 1 .. Len(db.rs) + 1 : Starts(db.rs, x, k)
  PROVE  \E k \in 1 .. Len(db.rs) + 1 : Starts(db.rs, x, k) /\ Lookup0(db, x) = OwnerAt(db.rs, x, k)
<1>1. Lookup0(db, x) = OwnerAt(db.rs, x, CHOOSE k \in 1 .. Len(db.rs) + 1 :
                        (k = Len(db.rs) + 1 \/ db.rs[k].s > x) /\ \A j \in 1 .. k - 1 : db.rs[j].s <= x)
  BY DEF Lookup0, OwnerAt
<1>2. Lookup0(db, x) = OwnerAt(db.rs, x, CHOOSE k \in 1 .. Len(db.rs) + 1 : Starts(db.rs, x, k))
  BY <1>1, Zenon DEF Starts
<1> QED
  BY <1>2, Zenon

LEMMA SearchEnds ==
  ASSUME NEW rs, Sorted(rs), NEW x \in Nat
  PROVE  \E k \in 1 .. Len(rs) + 1 : Starts(rs, x, k)
<1> DEFINE T == {k \in 1 .. Len(rs) + 1 : k = Len(rs) + 1 \/ rs[k].s > x}
<1>0. Len(rs) \in Nat /\ \A k \in 1 .. Len(rs) : rs[k].s \in Nat
  BY SortedAt
<1>1. T \in SUBSET Nat /\ Len(rs) + 1 \in T
  BY <1>0
<1>2. PICK k \in T : \A n \in T : k <= n
  BY <1>1, LeastOf
<1>3. k \in 1 .. Len(rs) + 1 /\ (k = Len(rs) + 1 \/ rs[k].s > x)
  BY <1>2
<1>4. ASSUME NEW j \in 1 .. k - 1 PROVE rs[j].s <= x
  <2>1. j \in 1 .. Len(rs) /\ j \in 1 .. Len(rs) + 1 /\ ~(k <= j)
    BY <1>0, <1>3, <1>4
  <2>2. j \notin T
    BY <1>2, <2>1
  <2>3. ~(rs[j].s > x) /\ rs[j].s \in Nat
    BY <1>0, <2>1, <2>2
  <2> QED
    BY <2>3
<1> QED
  BY <1>3, <1>4, Zenon DEF Starts

\* The search gives an address the owner of the range that holds it.
LEMMA SortedExact ==
  ASSUME NEW db, Sorted(db.rs), NEW x \in 0 .. TopAddr
  PROVE  /\ (\A i \in DOMAIN db.rs : x \notin db.rs[i].s .. db.rs[i].e) => Lookup0(db, x) = "none"
         /\ \A i \in DOMAIN db.rs : x \in db.rs[i].s .. db.rs[i].e => Lookup0(db, x) = db.rs[i].o
<1>0. x \in Nat
  BY OwnerParams
<1>1. PICK rs : rs = db.rs
  OBVIOUS
<1>2. /\ Len(rs) \in Nat /\ DOMAIN rs = 1 .. Len(rs)
      /\ \A i \in 1 .. Len(rs) : rs[i].s \in Nat /\ rs[i].e \in Nat /\ rs[i].s <= rs[i].e
      /\ \A i \in 1 .. Len(rs) : i > 1 => rs[i - 1].e < rs[i].s
  BY <1>1, SortedAt
<1>3. PICK k \in 1 .. Len(rs) + 1 : Starts(rs, x, k) /\ Lookup0(db, x) = OwnerAt(rs, x, k)
  <2>1. \E k \in 1 .. Len(db.rs) + 1 : Starts(db.rs, x, k)
    BY <1>0, SearchEnds
  <2> QED
    BY <1>1, <2>1, Found, Zenon
<1>4. (k = Len(rs) + 1 \/ rs[k].s > x) /\ \A j \in 1 .. k - 1 : rs[j].s <= x
  BY <1>3, Zenon DEF Starts
<1>5. ASSUME NEW i \in 1 .. Len(rs), x \in rs[i].s .. rs[i].e PROVE Lookup0(db, x) = rs[i].o
  <2>1. rs[i].s \in Nat /\ rs[i].e \in Nat /\ rs[i].s <= x /\ x <= rs[i].e
    BY <1>0, <1>2, <1>5
  <2>2. ~(k <= i)
    <3> SUFFICES ASSUME k <= i PROVE FALSE
      OBVIOUS
    <3>1. k \in 1 .. Len(rs) /\ rs[k].s > x /\ rs[k].s \in Nat /\ rs[k].e \in Nat /\ rs[k].s <= rs[k].e
      BY <1>2, <1>4
    <3>2. k # i
      BY <1>0, <2>1, <3>1
    <3>3. i \in k + 1 .. Len(rs)
      BY <1>2, <3>1, <3>2
    <3>4. rs[k].e < rs[i].s
      BY <1>1, <3>1, <3>3, Ascending
    <3> QED
      BY <1>0, <2>1, <3>1, <3>4
  <2>3. ~(k > i + 1)
    <3> SUFFICES ASSUME k > i + 1 PROVE FALSE
      OBVIOUS
    <3>1. i + 1 \in 1 .. k - 1 /\ i + 1 \in 1 .. Len(rs) /\ i + 1 > 1 /\ (i + 1) - 1 = i
      BY <1>2
    <3>2. rs[i].e < rs[i + 1].s /\ rs[i + 1].s <= x /\ rs[i + 1].s \in Nat
      BY <1>2, <1>4, <3>1
    <3> QED
      BY <1>0, <2>1, <3>2
  <2>4. k > 1 /\ k - 1 = i
    BY <1>2, <2>2, <2>3
  <2> QED
    BY <1>3, <2>1, <2>4 DEF OwnerAt
<1>6. ASSUME \A i \in 1 .. Len(rs) : x \notin rs[i].s .. rs[i].e PROVE Lookup0(db, x) = "none"
  <2>1. ~(k > 1 /\ x <= rs[k - 1].e)
    <3> SUFFICES ASSUME k > 1, x <= rs[k - 1].e PROVE FALSE
      OBVIOUS
    <3>1. k - 1 \in 1 .. k - 1 /\ k - 1 \in 1 .. Len(rs)
      BY <1>2
    <3>2. rs[k - 1].s <= x /\ rs[k - 1].s \in Nat /\ rs[k - 1].e \in Nat
      BY <1>2, <1>4, <3>1
    <3> QED
      BY <1>0, <1>6, <3>1, <3>2
  <2> QED
    BY <1>3, <2>1 DEF OwnerAt
<1> QED
  BY <1>1, <1>2, <1>5, <1>6

LEMMA OwnerSays == ASSUME OwnerInv PROVE OwnerTypeOK /\ OwnerExact /\ OwnerCurrent
<1>0. Sorted(owDb.rs)
  BY DEF OwnerInv
<1>1. OwnerExact
  <2> SUFFICES ASSUME NEW x \in 0 .. TopAddr
               PROVE  LET held == {i \in DOMAIN owDb.rs : x \in owDb.rs[i].s .. owDb.rs[i].e}
                      IN  IF held = {} THEN Lookup0(owDb, x) = "none"
                          ELSE \A i \in held : Lookup0(owDb, x) = owDb.rs[i].o
    BY Zenon DEF OwnerExact
  <2>1. PICK db : db = owDb
    OBVIOUS
  <2>2. /\ (\A i \in DOMAIN db.rs : x \notin db.rs[i].s .. db.rs[i].e) => Lookup0(db, x) = "none"
        /\ \A i \in DOMAIN db.rs : x \in db.rs[i].s .. db.rs[i].e => Lookup0(db, x) = db.rs[i].o
    BY <1>0, <2>1, SortedExact
  <2> QED
    BY <2>1, <2>2
<1>2. OwnerTypeOK
  BY DEF OwnerTypeOK, OwnerInv, OwnerNoted
<1> QED
  BY <1>1, <1>2 DEF OwnerInv

LEMMA OwnerStart == OwnerInit => OwnerInv
<1> SUFFICES ASSUME OwnerInit PROVE OwnerInv
  OBVIOUS
<1> USE OwnerParams
<1>1. OwnerFiles
  <2>2. <<>> \in Seq(Range0)
    OBVIOUS
  <2> QED
    BY <2>2 DEF OwnerInit, OwnerFiles, OwnerDir, NoFile0
<1>2. OwnerNoted
  BY DEF OwnerInit, OwnerNoted, NoKey0
<1>3. Sorted(owDb.rs) /\ OwnerCurrent
  BY DEF OwnerInit, Sorted, NoDb, OwnerCurrent
<1> QED
  BY <1>1, <1>2, <1>3 DEF OwnerInv, OwnerInit, Unchecked

\* What becomes of a file: another time stamp with other ranges, or it is gone.
OwnerPut(c, v) ==
  /\ owFile' = [owFile EXCEPT ![c] = v]
  /\ v = [stamp |-> v.stamp, here |-> v.here, ranges |-> v.ranges]
  /\ v.stamp \in Nat /\ v.ranges \in Seq(Range0)
  /\ v.stamp >= owFile[c].stamp
  /\ v.stamp = owFile[c].stamp => v.ranges = owFile[c].ranges

LEMMA OwnerStep == OwnerInv /\ [OwnerNext]_ownerVars => OwnerInv'
<1> SUFFICES ASSUME OwnerInv, [OwnerNext]_ownerVars PROVE OwnerInv'
  OBVIOUS
<1> USE OwnerParams
<1>0. /\ OwnerFiles /\ OwnerNoted /\ Sorted(owDb.rs) /\ OwnerCurrent
      /\ owClk \in Nat /\ owChecked \in Unchecked .. owClk /\ owFaulty \in 0 .. Len(Cand)
  BY Zenon DEF OwnerInv
<1>1. CASE OwnerGet
  <2>1. owChecked' = owClk /\ UNCHANGED <<owFile, owClk>>
    BY <1>1 DEF OwnerGet
  <2>2. owChecked' \in Unchecked .. owClk'
    BY <1>0, <2>1 DEF Unchecked
  <2>3. OwnerFiles'
    BY <1>0, <2>1 DEF OwnerFiles, OwnerDir
  <2>4. CASE Here = {}
    <3>1. owDb' = NoDb /\ owKey' = [owKey EXCEPT !.path = 0] /\ owBest' = NoDb /\ owFaulty' = owFaulty
      BY <1>1, <2>4 DEF OwnerGet
    <3>2. owKey' = [path |-> 0, stamp |-> owKey.stamp]
      BY <1>0, <3>1 DEF OwnerNoted
    <3>3. OwnerNoted'
      BY <1>0, <3>2 DEF OwnerNoted
    <3>4. Sorted(owDb.rs)' /\ OwnerCurrent'
      BY <3>1 DEF Sorted, NoDb, OwnerCurrent
    <3> QED
      BY <1>0, <2>1, <2>2, <2>3, <3>1, <3>3, <3>4 DEF OwnerInv
  <2>5. CASE Here # {}
    <3>1. PICK i : i = FirstHere
      OBVIOUS
    <3>2. i \in 1 .. Len(Cand)
      <4>1. Here \in SUBSET (1 .. Len(Cand))
        BY DEF Here
      <4>0. Here \in SUBSET Nat
        BY <4>1
      <4>2. \E l \in Here : \A j \in Here : l <= j
        BY <2>5, <4>0, LeastOf
      <4>3. i \in Here
        BY <3>1, <4>2, Zenon DEF FirstHere
      <4> QED
        BY <4>1, <4>3
    <3>3. PICK rs : rs = owFile[Cand[i]].ranges
      OBVIOUS
    <3>4. rs \in Seq(Range0) /\ owFile[Cand[i]].stamp \in Nat
      BY <1>0, <3>2, <3>3 DEF OwnerFiles, OwnerDir
    <3>5. PICK t : t = Parsed(rs)
      OBVIOUS
    <3>6. owBest' = t /\ Sorted(t.rs)
      BY <1>1, <2>5, <3>1, <3>3, <3>4, <3>5, ParsedSorted, Zenon DEF OwnerGet
    <3>7. CASE SameFile(i)
      <4>1. UNCHANGED <<owDb, owKey, owFaulty>>
        BY <1>1, <2>5, <3>1, <3>7, Zenon DEF OwnerGet
      <4>2. OwnerNoted'
        BY <1>0, <2>1, <4>1 DEF OwnerNoted
      <4>3. owFaulty = 0 => owDb = t
        BY <1>0, <3>2, <3>3, <3>5, <3>7 DEF OwnerNoted, SameFile
      <4>4. OwnerCurrent'
        BY <3>6, <4>1, <4>3 DEF OwnerCurrent
      <4> QED
        BY <1>0, <2>1, <2>2, <2>3, <4>1, <4>2, <4>4 DEF OwnerInv
    <3>8. CASE ~SameFile(i)
      <4>1. /\ owKey' = [path |-> i, stamp |-> owFile[Cand[i]].stamp]
            /\ (owDb' = t /\ owFaulty' = 0) \/ (owDb' = NoDb /\ owFaulty' = i)
        BY <1>1, <2>5, <3>1, <3>3, <3>5, <3>8, Zenon DEF OwnerGet
      <4>2. owFaulty' \in 0 .. Len(Cand) /\ (owFaulty' = 0 => owDb' = t) /\ Sorted(owDb'.rs)
        <5>1. Sorted(NoDb.rs)
          BY DEF NoDb, Sorted
        <5>2. owFaulty' \in 0 .. Len(Cand)
          BY <3>2, <4>1
        <5>3. owFaulty' = 0 => owDb' = t
          BY <3>2, <4>1
        <5> QED
          BY <3>6, <4>1, <5>1, <5>2, <5>3, Zenon
      <4>3. OwnerNoted'
        BY <2>1, <3>2, <3>3, <3>4, <3>5, <4>1, <4>2 DEF OwnerNoted
      <4>4. OwnerCurrent'
        BY <3>6, <4>2 DEF OwnerCurrent
      <4> QED
        BY <1>0, <2>1, <2>2, <2>3, <4>2, <4>3, <4>4 DEF OwnerInv
    <3> QED
      BY <3>7, <3>8
  <2> QED
    BY <2>4, <2>5
<1>2. CASE OwnerTick
  <2>1. owClk' = owClk + 1 /\ UNCHANGED <<owFile, owDb, owKey, owChecked, owBest, owFaulty>>
    BY <1>2 DEF OwnerTick
  <2>2. OwnerFiles' /\ OwnerNoted' /\ OwnerCurrent'
    BY <1>0, <2>1 DEF OwnerFiles, OwnerDir, OwnerNoted, OwnerCurrent
  <2>3. owClk' \in Nat /\ owChecked' \in Unchecked .. owClk'
    BY <1>0, <2>1 DEF Unchecked
  <2> QED
    BY <1>0, <2>1, <2>2, <2>3 DEF OwnerInv
<1>3. ASSUME NEW c \in OwnerDir, OwnerEdit(c) PROVE OwnerInv'
  <2>1. UNCHANGED <<owDb, owKey, owChecked, owClk, owBest, owFaulty>>
    BY <1>3 DEF OwnerEdit
  <2>a. PICK v : OwnerPut(c, v)
    <3>0. PICK y : y = owFile[c]
      OBVIOUS
    <3>1. y = [stamp |-> y.stamp, here |-> y.here, ranges |-> y.ranges] /\ y.stamp \in Nat /\ y.ranges \in Seq(Range0)
      BY <1>0, <3>0 DEF OwnerFiles
    <3>2. ASSUME NEW rs \in OwnerTables,
                 owFile' = [owFile EXCEPT ![c] = [stamp |-> owFile[c].stamp + 1, here |-> TRUE, ranges |-> rs]]
          PROVE  \E v : OwnerPut(c, v)
      <4>1. PICK v : v = [stamp |-> y.stamp + 1, here |-> TRUE, ranges |-> rs]
        OBVIOUS
      <4>2. owFile' = [owFile EXCEPT ![c] = v]
        BY <1>0, <3>0, <3>2, <4>1 DEF OwnerFiles
      <4>3. rs \in Seq(Range0)
        OBVIOUS
      <4>4. v.stamp = y.stamp + 1 /\ v.here = TRUE /\ v.ranges = rs /\ v.stamp \in Nat
        BY <3>1, <4>1
      <4>5. v = [stamp |-> v.stamp, here |-> v.here, ranges |-> v.ranges]
        BY <4>1, <4>4
      <4>6. v.stamp >= owFile[c].stamp /\ v.stamp # owFile[c].stamp
        BY <3>0, <3>1, <4>4
      <4>7. v.ranges \in Seq(Range0)
        BY <4>3, <4>4
      <4> QED
        BY <4>2, <4>4, <4>5, <4>6, <4>7, Zenon DEF OwnerPut
    <3>3. ASSUME owFile' = [owFile EXCEPT ![c].here = FALSE]
          PROVE  \E v : OwnerPut(c, v)
      <4>1. PICK v : v = [y EXCEPT !.here = FALSE]
        OBVIOUS
      <4>2. v = [stamp |-> y.stamp, here |-> FALSE, ranges |-> y.ranges]
        BY <3>1, <4>1
      <4>3. owFile' = [owFile EXCEPT ![c] = v]
        BY <1>0, <3>0, <3>3, <4>1 DEF OwnerFiles
      <4>4. v.stamp = y.stamp /\ v.here = FALSE /\ v.ranges = y.ranges /\ v.stamp \in Nat
        BY <3>1, <4>2
      <4>5. v = [stamp |-> v.stamp, here |-> v.here, ranges |-> v.ranges]
        BY <4>2, <4>4
      <4>6. v.stamp >= owFile[c].stamp /\ v.ranges = owFile[c].ranges
        BY <3>0, <3>1, <4>4
      <4>7. v.ranges \in Seq(Range0)
        BY <3>1, <4>4
      <4> QED
        BY <4>3, <4>4, <4>5, <4>6, <4>7, Zenon DEF OwnerPut
    <3>4. \/ \E rs \in OwnerTables :
               owFile' = [owFile EXCEPT ![c] = [stamp |-> owFile[c].stamp + 1, here |-> TRUE, ranges |-> rs]]
          \/ owFile' = [owFile EXCEPT ![c].here = FALSE]
      BY <1>3, Zenon DEF OwnerEdit
    <3> QED
      BY <3>2, <3>3, <3>4, Zenon
  <2>2. /\ owFile' = [owFile EXCEPT ![c] = v]
        /\ v = [stamp |-> v.stamp, here |-> v.here, ranges |-> v.ranges]
        /\ v.stamp \in Nat /\ v.ranges \in Seq(Range0)
        /\ v.stamp >= owFile[c].stamp
        /\ v.stamp = owFile[c].stamp => v.ranges = owFile[c].ranges
    BY <2>a, Zenon DEF OwnerPut
  <2>3. /\ owFile' = [d \in OwnerDir |-> owFile'[d]]
        /\ \A d \in OwnerDir : owFile'[d] = IF d = c THEN v ELSE owFile[d]
    BY <1>0, <2>2 DEF OwnerFiles
  <2>4. OwnerFiles'
    BY <1>0, <2>2, <2>3 DEF OwnerFiles, OwnerDir
  <2>5. OwnerNoted'
    <3>1. CASE owKey.path = 0
      BY <1>0, <2>1, <3>1 DEF OwnerNoted
    <3>2. CASE owKey.path # 0
      <4>1. PICK d \in OwnerDir : d = Cand[owKey.path]
        BY <1>0, <3>2 DEF OwnerNoted, OwnerDir
      <4>2. /\ owKey.stamp \in Nat /\ owFile[d].stamp \in Nat /\ owKey.stamp <= owFile[d].stamp
            /\ owKey.stamp = owFile[d].stamp /\ owFaulty = 0 => owDb = Parsed(owFile[d].ranges)
        BY <1>0, <3>2, <4>1 DEF OwnerNoted, OwnerFiles
      <4>3. /\ owKey.stamp <= owFile'[d].stamp
            /\ owKey.stamp = owFile'[d].stamp /\ owFaulty = 0 => owDb = Parsed(owFile'[d].ranges)
        <5>1. CASE d # c
          BY <2>3, <4>2, <5>1
        <5>2. CASE d = c
          BY <2>2, <2>3, <4>2, <5>2
        <5> QED
          BY <5>1, <5>2
      <4> QED
        BY <1>0, <2>1, <4>1, <4>3 DEF OwnerNoted
    <3> QED
      BY <3>1, <3>2
  <2> QED
    BY <1>0, <2>1, <2>4, <2>5 DEF OwnerInv, OwnerCurrent
<1>4. CASE UNCHANGED ownerVars
  BY <1>0, <1>4 DEF OwnerInv, OwnerFiles, OwnerNoted, OwnerDir, OwnerCurrent, ownerVars
<1> QED
  BY <1>1, <1>2, <1>3, <1>4 DEF OwnerNext, OwnerDir

-----------------------------------------------------------------------------
(* How httpd's loops slow down.                                            *)

Waiter == [at : {"take", "calc", "wait"}, ch : Nat, until : Nat, last : 1 .. MaxClk]
WaitPlaced ==
  /\ clk \in 1 .. MaxClk /\ lastHit \in 0 .. clk /\ poke \in BOOLEAN /\ cur \in BOOLEAN
  /\ req \in [at : {"none", "swapped"}, prev : 0 .. MaxClk]
  /\ prb \in [at : {"idle", "probed", "swapped"}, ui : BOOLEAN]
  /\ nextProbe \in Nat /\ chNo \in Nat /\ since \in 1 .. clk
  /\ wait \in [WaitLoop -> Waiter]
  /\ \A w \in WaitLoop : wait[w].ch <= chNo

\* A loop that waits on the open channel has computed its interval from what is
\* published now: a change is published before the channel is closed, and the channel
\* is taken before the interval is computed.
Paced(x) == x.at = "wait" /\ x.ch = chNo /\ prb.at # "swapped" => x.until = x.last + Every

\* The ticker has not been missed, and a hit that lies before its last probe is, as
\* long as it counts, published or about to be.
Ticking == clk <= nextProbe /\ nextProbe <= clk + ProbeEvery
HitKnown ==
  lastHit # 0 /\ lastHit + ProbeEvery < nextProbe /\ clk - lastHit < UiWindow
    => IF prb.at = "probed" THEN prb.ui = TRUE ELSE cur = TRUE

WaitInv == WaitPlaced /\ (\A w \in WaitLoop : Paced(wait[w])) /\ Ticking /\ HitKnown

\* The constants, one by one.
LEMMA WaitParams ==
  /\ ProbeEvery \in Nat /\ ProbeEvery > 0 /\ UiWindow \in Nat /\ UiWindow > 0 /\ BaseEvery \in Nat
  /\ SlowEvery \in Nat /\ MaxClk \in Nat /\ MaxClk > 0 /\ ProbeEvery < UiWindow /\ BaseEvery < SlowEvery
BY WaitAssumption

\* The larger and the smaller of two numbers.
LEMMA MaxOfTwo ==
  ASSUME NEW a \in Int, NEW b \in Int
  PROVE  Max({a, b}) = IF a >= b THEN a ELSE b
BY DEF Max
LEMMA MinOfTwo ==
  ASSUME NEW a \in Int, NEW b \in Int
  PROVE  Min({a, b}) = IF a <= b THEN a ELSE b
BY DEF Min

\* The invariant says what the runs check.
LEMMA WaitTyped == ASSUME WaitInv PROVE WaitTypeOK /\ QuickAfterChange /\ UiSeen
<1>0. WaitPlaced /\ (\A w \in WaitLoop : Paced(wait[w])) /\ Ticking /\ HitKnown
  BY Zenon DEF WaitInv
<1>1. WaitTypeOK
  <2>1. ASSUME NEW w \in WaitLoop
        PROVE  wait[w] \in [at : {"take", "calc", "wait"}, ch : 0 .. chNo, until : Nat, last : 1 .. MaxClk]
    BY <1>0 DEF WaitPlaced, Waiter
  <2>2. wait \in [WaitLoop -> [at : {"take", "calc", "wait"}, ch : 0 .. chNo, until : Nat, last : 1 .. MaxClk]]
    BY <1>0, <2>1 DEF WaitPlaced
  <2> QED
    BY <1>0, <2>2 DEF WaitPlaced, WaitTypeOK
<1>2. QuickAfterChange
  <2> SUFFICES ASSUME ~Urgent, cur, NEW w \in WaitLoop PROVE clk <= Max({wait[w].last, since}) + BaseEvery
    BY DEF QuickAfterChange
  <2>1. prb.at = "idle" /\ wait[w].at = "wait" /\ ~(wait[w].until <= clk) /\ wait[w].ch = chNo
    BY DEF Urgent
  <2>2. wait[w].until = wait[w].last + BaseEvery
    BY <1>0, <2>1 DEF Paced, Every
  <2>3. wait[w].last \in Int /\ since \in Int /\ clk \in Int /\ BaseEvery \in Int
    BY <1>0, WaitParams DEF WaitPlaced, Waiter
  <2>4. Max({wait[w].last, since}) \in Int /\ Max({wait[w].last, since}) >= wait[w].last
    BY <2>3, MaxOfTwo
  <2> QED
    BY <2>1, <2>2, <2>3, <2>4
<1>3. UiSeen
  <2> SUFFICES ASSUME ~Urgent, lastHit # 0, clk - lastHit \in ProbeEvery .. UiWindow - 1 PROVE cur
    BY DEF UiSeen
  <2>1. prb.at = "idle" /\ ~(clk >= nextProbe)
    BY DEF Urgent
  <2>2. clk \in Nat /\ lastHit \in Nat /\ lastHit <= clk /\ nextProbe \in Nat
    BY <1>0, WaitParams DEF WaitPlaced, Waiter
  <2>3. lastHit + ProbeEvery < nextProbe /\ clk - lastHit < UiWindow
    BY <2>1, <2>2, WaitParams
  <2> QED
    BY <1>0, <2>1, <2>3 DEF HitKnown
<1> QED
  BY <1>1, <1>2, <1>3

LEMMA WaitStart == WaitInit => WaitInv
<1> SUFFICES ASSUME WaitInit PROVE WaitInv
  OBVIOUS
<1>1. WaitPlaced
  <2>1. poke \in BOOLEAN /\ cur \in BOOLEAN
    BY Zenon DEF WaitInit
  <2>2. wait \in [WaitLoop -> Waiter] /\ \A w \in WaitLoop : wait[w].ch <= chNo
    BY WaitParams DEF WaitInit, Waiter
  <2>3. prb \in [at : {"idle", "probed", "swapped"}, ui : BOOLEAN]
    BY DEF WaitInit
  <2>4. req \in [at : {"none", "swapped"}, prev : 0 .. MaxClk]
    BY WaitParams DEF WaitInit
  <2>5. clk \in 1 .. MaxClk /\ lastHit \in 0 .. clk /\ nextProbe \in Nat /\ chNo \in Nat /\ since \in 1 .. clk
    BY WaitParams DEF WaitInit
  <2> QED
    BY <2>1, <2>2, <2>3, <2>4, <2>5, Zenon DEF WaitPlaced
<1>2. \A w \in WaitLoop : Paced(wait[w])
  BY DEF WaitInit, Paced
<1>3. Ticking /\ HitKnown
  BY WaitParams DEF WaitInit, Ticking, HitKnown
<1> QED
  BY <1>1, <1>2, <1>3 DEF WaitInv

LEMMA WaitStep == WaitInv /\ [WaitNext]_waitVars => WaitInv'
<1> SUFFICES ASSUME WaitInv, [WaitNext]_waitVars PROVE WaitInv'
  OBVIOUS
<1>0. WaitPlaced /\ (\A w \in WaitLoop : Paced(wait[w])) /\ Ticking /\ HitKnown
  BY Zenon DEF WaitInv
<1>n. clk \in Nat /\ lastHit \in Nat /\ lastHit <= clk /\ nextProbe \in Nat /\ chNo \in Nat
  BY <1>0, WaitParams DEF WaitPlaced, Waiter
<1> USE WaitParams
<1>1. CASE TimePasses
  <2>1. /\ clk' = clk + 1 /\ ~(clk >= nextProbe) /\ clk < MaxClk
        /\ UNCHANGED <<lastHit, req, poke, nextProbe, prb, cur, chNo, since, wait>>
    BY <1>1 DEF TimePasses, Urgent
  <2>2. WaitPlaced'
    BY <1>0, <2>1 DEF WaitPlaced
  <2>3. (\A w \in WaitLoop : Paced(wait[w]))'
    BY <1>0, <2>1 DEF Paced, Every
  <2>4. Ticking' /\ HitKnown'
    BY <1>0, <1>n, <2>1 DEF Ticking, HitKnown
  <2> QED
    BY <2>2, <2>3, <2>4 DEF WaitInv
<1>2. CASE HitArrives
  <2>1. /\ req' = [at |-> "swapped", prev |-> lastHit] /\ lastHit' = clk
        /\ UNCHANGED <<clk, poke, nextProbe, prb, cur, chNo, since, wait>>
    BY <1>2 DEF HitArrives
  <2>2. WaitPlaced'
    BY <1>0, <2>1 DEF WaitPlaced
  <2>3. (\A w \in WaitLoop : Paced(wait[w]))'
    BY <1>0, <2>1 DEF Paced, Every
  <2>4. Ticking' /\ HitKnown'
    BY <1>0, <1>n, <2>1 DEF Ticking, HitKnown
  <2> QED
    BY <2>2, <2>3, <2>4 DEF WaitInv
<1>3. CASE HitPokes
  <2>1. /\ req' = [at |-> "none", prev |-> 0] /\ poke' \in BOOLEAN
        /\ UNCHANGED <<clk, lastHit, nextProbe, prb, cur, chNo, since, wait>>
    BY <1>3, Zenon DEF HitPokes
  <2>2. WaitPlaced'
    BY <1>0, <2>1 DEF WaitPlaced
  <2>3. (\A w \in WaitLoop : Paced(wait[w]))'
    BY <1>0, <2>1 DEF Paced, Every
  <2>4. Ticking' /\ HitKnown'
    BY <1>0, <1>n, <2>1 DEF Ticking, HitKnown
  <2> QED
    BY <2>2, <2>3, <2>4 DEF WaitInv
<1>4. CASE ProbeByTicker \/ ProbeByPoke
  <2>0. PICK u \in BOOLEAN : u = WebuiState(lastHit)
    BY Zenon DEF WebuiState
  <2>1. /\ prb.at = "idle" /\ prb' = [at |-> "probed", ui |-> u] /\ poke' \in BOOLEAN
        /\ nextProbe' = nextProbe \/ (clk >= nextProbe /\ nextProbe' = nextProbe + ProbeEvery)
        /\ UNCHANGED <<clk, lastHit, req, cur, chNo, since, wait>>
    BY <1>0, <1>4, <2>0, Zenon DEF ProbeByTicker, ProbeByPoke, WaitPlaced
  <2>2. WaitPlaced'
    BY <1>0, <2>1 DEF WaitPlaced
  <2>3. (\A w \in WaitLoop : Paced(wait[w]))'
    BY <1>0, <2>1 DEF Paced, Every
  <2>4. Ticking'
    BY <1>0, <1>n, <2>1 DEF Ticking
  <2>5. prb'.at = "probed" /\ prb'.ui = u
    BY <2>1
  <2>6. lastHit # 0 /\ clk - lastHit < UiWindow => u = TRUE
    BY <2>0, Zenon DEF WebuiState
  <2>7. HitKnown'
    BY <2>1, <2>5, <2>6 DEF HitKnown
  <2> QED
    BY <2>2, <2>3, <2>4, <2>7 DEF WaitInv
<1>5. CASE PublishValue
  <2>1. PICK u \in BOOLEAN : u = prb.ui
    BY <1>0 DEF WaitPlaced, Waiter
  <2>2. /\ prb.at = "probed" /\ cur' = u
        /\ UNCHANGED <<clk, lastHit, req, poke, nextProbe, chNo, wait>>
    BY <1>5, <2>1, Zenon DEF PublishValue
  <2>3. since' \in 1 .. clk
    <3>1. since' = clk \/ since' = since
      BY <1>5, Zenon DEF PublishValue
    <3> QED
      BY <1>0, <3>1 DEF WaitPlaced
  <2>4. \/ cur' # cur /\ prb' = [prb EXCEPT !.at = "swapped"]
        \/ cur' = cur /\ prb' = [at |-> "idle", ui |-> FALSE]
    BY <1>5, <2>1, <2>2, Zenon DEF PublishValue, Changed
  <2>5. prb' \in [at : {"idle", "probed", "swapped"}, ui : BOOLEAN] /\ prb'.at # "probed"
        /\ (prb'.at = "swapped" \/ cur' = cur)
    <3>1. CASE cur' # cur /\ prb' = [prb EXCEPT !.at = "swapped"]
      BY <1>0, <3>1 DEF WaitPlaced
    <3>2. CASE cur' = cur /\ prb' = [at |-> "idle", ui |-> FALSE]
      BY <3>2
    <3> QED
      BY <2>4, <3>1, <3>2, Zenon
  <2>6. WaitPlaced'
    BY <1>0, <2>2, <2>3, <2>5, Zenon DEF WaitPlaced
  <2>7. (\A w \in WaitLoop : Paced(wait[w]))'
    <3>1. CASE prb'.at = "swapped"
      BY <3>1, Zenon DEF Paced
    <3>2. CASE cur' = cur
      <4>1. prb.at # "swapped"
        BY <2>2
      <4>2. Every' = Every
        BY <3>2, Zenon DEF Every
      <4> QED
        BY <1>0, <2>2, <4>1, <4>2, Zenon DEF Paced
    <3> QED
      BY <2>5, <3>1, <3>2, Zenon
  <2>8. Ticking'
    BY <1>0, <2>2 DEF Ticking
  <2>9. HitKnown'
    BY <1>0, <2>1, <2>2, <2>5, Zenon DEF HitKnown
  <2> QED
    BY <2>6, <2>7, <2>8, <2>9 DEF WaitInv
<1>6. CASE CloseChannel
  <2>1. /\ prb.at = "swapped" /\ chNo' = chNo + 1 /\ prb' = [at |-> "idle", ui |-> FALSE]
        /\ UNCHANGED <<clk, lastHit, req, poke, nextProbe, cur, since, wait>>
    BY <1>6 DEF CloseChannel
  <2>2. WaitPlaced'
    BY <1>0, <1>n, <2>1 DEF WaitPlaced, Waiter
  <2>3. ASSUME NEW w \in WaitLoop PROVE wait'[w].ch # chNo'
    BY <1>0, <1>n, <2>1 DEF WaitPlaced, Waiter
  <2>4. (\A w \in WaitLoop : Paced(wait[w]))'
    BY <2>3 DEF Paced
  <2>5. Ticking' /\ HitKnown'
    BY <1>0, <2>1 DEF Ticking, HitKnown
  <2> QED
    BY <2>2, <2>4, <2>5 DEF WaitInv
<1>7. ASSUME NEW w \in WaitLoop, Waits(w) PROVE WaitInv'
  <2>1. UNCHANGED <<clk, lastHit, req, poke, nextProbe, prb, cur, chNo, since>>
    BY <1>7 DEF Waits
  <2>2. PICK x \in Waiter :
          wait' = [wait EXCEPT ![w] = x] /\ x.ch <= chNo /\ Paced(x)
    <3>0. wait[w] \in Waiter
          /\ wait[w].ch <= chNo /\ Paced(wait[w]) /\ wait \in [WaitLoop -> Waiter]
      BY <1>0 DEF WaitPlaced, Waiter
    <3>1. CASE TakeCh(w)
      <4>1. wait' = [wait EXCEPT ![w] = [wait[w] EXCEPT !.at = "calc", !.ch = chNo]]
        BY <3>1, <3>0 DEF TakeCh
      <4>2. PICK y \in Waiter, c \in Nat : y = wait[w] /\ c = chNo
        BY <1>n, <3>0
      <4>3. PICK x : x = [y EXCEPT !.at = "calc", !.ch = c]
        OBVIOUS
      <4>4. x \in Waiter /\ x.at = "calc" /\ x.ch <= c
        <5>1. x = [at |-> "calc", ch |-> c, until |-> y.until, last |-> y.last]
          BY <4>3 DEF Waiter
        <5>2. y.until \in Nat /\ y.last \in 1 .. MaxClk
          BY DEF Waiter
        <5> QED
          BY <5>1, <5>2 DEF Waiter
      <4>5. wait' = [wait EXCEPT ![w] = x]
        BY <4>1, <4>2, <4>3, Zenon
      <4>6. Paced(x)
        BY <4>4 DEF Paced
      <4> QED
        BY <4>2, <4>4, <4>5, <4>6, Zenon
    <3>2. CASE CalcWait(w)
      <4>1. wait' = [wait EXCEPT ![w] = Calc(w)]
        BY <3>2 DEF CalcWait
      <4>2. Every \in Nat
        BY DEF Every
      <4>3. PICK y \in Waiter, n \in Nat : y = wait[w] /\ n = Every
        BY <3>0, <4>2
      <4>4. PICK x : x = [y EXCEPT !.at = "wait", !.until = y.last + n]
        OBVIOUS
      <4>5. x \in Waiter /\ x.ch = y.ch /\ x.until = x.last + n
        <5>1. x = [at |-> "wait", ch |-> y.ch, until |-> y.last + n, last |-> y.last]
          BY <4>4 DEF Waiter
        <5>2. y.ch \in Nat /\ y.last \in 1 .. MaxClk
          BY DEF Waiter
        <5> QED
          BY <5>1, <5>2 DEF Waiter
      <4>6. wait' = [wait EXCEPT ![w] = x] /\ x.ch <= chNo
        BY <3>0, <4>1, <4>3, <4>4, <4>5, Zenon DEF Calc
      <4>7. Paced(x)
        BY <4>3, <4>5, Zenon DEF Paced
      <4> QED
        BY <4>5, <4>6, <4>7, Zenon
    <3>3. CASE RunRound(w)
      <4>1. wait' = [wait EXCEPT ![w] = [at |-> "take", ch |-> 0, until |-> 0, last |-> clk]]
        BY <3>3 DEF RunRound
      <4>2. clk \in 1 .. MaxClk
        BY <1>0 DEF WaitPlaced, Waiter
      <4>3. PICK x : x = [at |-> "take", ch |-> 0, until |-> 0, last |-> clk]
        OBVIOUS
      <4>4. x \in Waiter /\ x.at = "take" /\ x.ch <= chNo
        BY <1>n, <4>2, <4>3 DEF Waiter
      <4> QED
        BY <4>1, <4>3, <4>4, Zenon DEF Paced
    <3>4. CASE WokenByChange(w)
      <4>1. wait' = [wait EXCEPT ![w] = [wait[w] EXCEPT !.at = "take"]]
        BY <3>0, <3>4 DEF WokenByChange
      <4>2. PICK x : x = [wait[w] EXCEPT !.at = "take"]
        OBVIOUS
      <4>3. x \in Waiter /\ x.at = "take" /\ x.ch <= chNo
        BY <3>0, <4>2 DEF Waiter
      <4> QED
        BY <4>1, <4>2, <4>3, Zenon DEF Paced
    <3> QED
      BY <1>7, <3>1, <3>2, <3>3, <3>4 DEF Waits
  <2>3. ASSUME NEW v \in WaitLoop PROVE wait'[v] = IF v = w THEN x ELSE wait[v]
    BY <1>0, <2>2 DEF WaitPlaced
  <2>4. WaitPlaced'
    <3>1. wait' \in [WaitLoop -> Waiter]
      BY <1>0, <2>2 DEF WaitPlaced
    <3>2. \A v \in WaitLoop : wait'[v].ch <= chNo
      BY <1>0, <2>2, <2>3 DEF WaitPlaced
    <3> QED
      BY <1>0, <2>1, <3>1, <3>2 DEF WaitPlaced
  <2>5. (\A v \in WaitLoop : Paced(wait[v]))'
    BY <1>0, <2>1, <2>2, <2>3 DEF Paced, Every
  <2>6. Ticking' /\ HitKnown'
    BY <1>0, <2>1 DEF Ticking, HitKnown
  <2> QED
    BY <2>4, <2>5, <2>6 DEF WaitInv
<1>8. CASE UNCHANGED waitVars
  <2>1. UNCHANGED <<clk, lastHit, req, poke, nextProbe, prb, cur, chNo, since, wait>>
    BY <1>8 DEF waitVars
  <2> QED
    BY <1>0, <2>1 DEF WaitInv, WaitPlaced, Paced, Every, Ticking, HitKnown
<1> QED
  BY <1>1, <1>2, <1>3, <1>4, <1>5, <1>6, <1>7, <1>8 DEF WaitNext

-----------------------------------------------------------------------------
(* How the watchdog sleeps.                                                *)

\* The sleep and the pause end in the future and not far from now; what happened is
\* in the past.
LinkPlaced ==
  /\ tk \in 1 .. MaxTick
  /\ apUp \in 0 .. tk /\ httpdDead \in 0 .. tk /\ cfgAt \in 0 .. tk /\ lastSched \in 0 .. tk
  /\ lastEv \in 0 .. tk /\ probedUp \in BOOLEAN /\ linkSig \in BOOLEAN /\ noise \in 0 .. MaxNoise
  /\ wdg \in [at : {"round", "sleep", "settle"}, until : Nat, settle : Nat, doze : BOOLEAN]
  /\ act \in ActFile /\ act.ts <= tk
  /\ snapC \in [at : 0 .. MaxTick, idle : BOOLEAN] /\ snapC.at <= tk
Span == IF wdg.doze = TRUE THEN DozePace ELSE IdlePace
SleepNear ==
  /\ wdg.at = "sleep" => tk <= wdg.until /\ wdg.until <= tk + Span
  /\ wdg.at = "settle" => tk <= wdg.settle /\ wdg.settle <= tk + EvSettle

\* A limit on the end of the sleep limits the rest of the way to the next round too.
RoundBy(n) ==
  /\ wdg.at = "sleep" => wdg.until <= n
  /\ wdg.at = "settle" => wdg.settle <= n + EvSettle
  /\ wdg.at = "round" => tk <= n + EvSettle

\* When what a dead httpd said last is believed no longer.
AgedOut == httpdDead + ActMaxAge + ActCache
Believed ==
  httpdDead # 0 => /\ act.ts <= httpdDead
                   /\ snapC.at # 0 /\ snapC.idle = TRUE => snapC.at <= httpdDead + ActMaxAge
                   /\ wdg.at = "sleep" /\ wdg.doze # TRUE => wdg.until <= AgedOut + IdlePace \/ wdg.until <= tk + ProbePace

Sought == apUp # 0 /\ probedUp # TRUE
SoughtIdle == Sought => RoundBy(apUp + Span)
SoughtOld == Sought /\ httpdDead # 0 /\ wdg.doze # TRUE => RoundBy(AgedOut + IdlePace) \/ RoundBy(apUp + ProbePace)
Scheduled ==
  cfgAt # 0 /\ cfgAt + DozePace + EvSettle <= Boundary /\ lastSched < Boundary => RoundBy(Boundary)

LinkInv == LinkPlaced /\ SleepNear /\ Believed /\ SoughtIdle /\ SoughtOld /\ Scheduled

LEMMA LinkParams ==
  /\ ProbePace \in Nat /\ IdlePace \in Nat /\ DozePace \in Nat /\ IdlePace <= DozePace /\ EvSettle \in Nat /\ EvMinGap \in Nat /\ ActWrite \in Nat
  /\ ActMaxAge \in Nat /\ ActCache \in Nat /\ Boundary \in Nat /\ MaxTick \in Nat /\ MaxNoise \in Nat
  /\ ProbePace < IdlePace /\ MaxTick > 0
BY LinkAssumption

\* How long a sleep may be is a number, and the one the bound of the model names.
LEMMA SpanIs == ASSUME LinkPlaced PROVE Span \in Nat /\ Span <= DozePace /\ Longest(wdg.doze) = Span
<1>1. wdg.doze \in BOOLEAN
  BY DEF LinkPlaced
<1>2. Longest(wdg.doze) = Span
  BY <1>1, Zenon DEF Longest, Span
<1> QED
  BY <1>2, LinkParams DEF Span

\* The numbers, as SMT wants them.
LEMMA LinkNumbers ==
  ASSUME LinkPlaced
  PROVE  /\ tk \in Nat /\ tk > 0 /\ apUp \in Nat /\ apUp <= tk /\ httpdDead \in Nat /\ httpdDead <= tk
         /\ cfgAt \in Nat /\ cfgAt <= tk /\ lastSched \in Nat /\ lastSched <= tk
         /\ wdg.until \in Nat /\ wdg.settle \in Nat /\ act.ts \in Nat /\ act.ts <= tk
         /\ snapC.at \in Nat /\ snapC.at <= tk /\ wdg.at \in {"round", "sleep", "settle"}
         /\ lastEv \in Nat /\ lastEv <= tk
BY DEF LinkPlaced, ActFile

\* The invariant says what the runs check.
LEMMA LinkSays ==
  ASSUME LinkInv PROVE LinkTypeOK /\ FoundInTime /\ OldPaceWithoutHttpd /\ BoundaryOnTime
<1>0. LinkPlaced /\ SleepNear /\ Believed /\ SoughtIdle /\ SoughtOld /\ Scheduled
  BY Zenon DEF LinkInv
<1> USE LinkParams
<1>n. /\ tk \in Nat /\ tk > 0 /\ apUp \in Nat /\ apUp <= tk /\ httpdDead \in Nat /\ httpdDead <= tk
      /\ cfgAt \in Nat /\ cfgAt <= tk /\ lastSched \in Nat /\ lastSched <= tk
      /\ wdg.until \in Nat /\ wdg.settle \in Nat /\ wdg.at \in {"round", "sleep", "settle"}
  BY <1>0, LinkNumbers
<1>r. ASSUME NEW n \in Nat, RoundBy(n) PROVE tk <= n + EvSettle
  BY <1>0, <1>n, <1>r DEF RoundBy, SleepNear
<1>1. LinkTypeOK
  BY <1>0 DEF LinkPlaced, LinkTypeOK
<1>2. FoundInTime
  <2> SUFFICES ASSUME apUp # 0, ~probedUp PROVE tk - apUp <= Span + EvSettle
    BY <1>0, SpanIs DEF FoundInTime
  <2>1. RoundBy(apUp + Span)
    BY <1>0, Zenon DEF Sought, SoughtIdle
  <2>2. tk <= (apUp + Span) + EvSettle
    BY <1>0, <1>n, <1>r, <2>1, SpanIs
  <2> QED
    BY <1>0, <1>n, <2>2, SpanIs
<1>3. OldPaceWithoutHttpd
  <2> SUFFICES ASSUME httpdDead # 0, apUp # 0, ~probedUp, ~wdg.doze
               PROVE  tk <= Max({apUp + ProbePace, httpdDead + ActMaxAge + ActCache + IdlePace}) + EvSettle
    BY DEF OldPaceWithoutHttpd
  <2>1. RoundBy(AgedOut + IdlePace) \/ RoundBy(apUp + ProbePace)
    BY <1>0, Zenon DEF Sought, SoughtOld
  <2>2. PICK b \in Nat : b = httpdDead + ActMaxAge + ActCache + IdlePace
    BY <1>n
  <2>3. PICK a \in Nat : a = apUp + ProbePace
    BY <1>n
  <2>4. tk <= b + EvSettle \/ tk <= a + EvSettle
    <3>1. CASE RoundBy(AgedOut + IdlePace)
      BY <1>n, <1>r, <2>2, <3>1 DEF AgedOut
    <3>2. CASE RoundBy(apUp + ProbePace)
      BY <1>n, <1>r, <2>3, <3>2
    <3> QED
      BY <2>1, <3>1, <3>2
  <2>5. Max({a, b}) = IF a >= b THEN a ELSE b
    BY MaxOfTwo
  <2>6. tk <= Max({a, b}) + EvSettle
    BY <1>n, <2>4, <2>5
  <2> QED
    BY <2>2, <2>3, <2>6
<1>4. BoundaryOnTime
  <2> SUFFICES ASSUME cfgAt # 0, cfgAt + DozePace + EvSettle <= Boundary, tk > Boundary + EvSettle
               PROVE  lastSched >= Boundary
    BY DEF BoundaryOnTime
  <2>1. CASE lastSched < Boundary
    <3>1. RoundBy(Boundary)
      BY <1>0, <2>1, Zenon DEF Scheduled
    <3> QED
      BY <1>n, <1>r, <3>1
  <2> QED
    BY <1>n, <2>1
<1> QED
  BY <1>1, <1>2, <1>3, <1>4

LEMMA LinkStart == LinkInit => LinkInv
<1> SUFFICES ASSUME LinkInit PROVE LinkInv
  OBVIOUS
<1> USE LinkParams
<1>1. LinkPlaced
  <2>1. probedUp \in BOOLEAN /\ linkSig \in BOOLEAN
    BY Zenon DEF LinkInit
  <2>2. act \in ActFile /\ act.ts <= tk
    BY DEF LinkInit, ActFile
  <2>3. snapC \in [at : 0 .. MaxTick, idle : BOOLEAN] /\ snapC.at <= tk
    BY DEF LinkInit
  <2>4. wdg \in [at : {"round", "sleep", "settle"}, until : Nat, settle : Nat, doze : BOOLEAN]
    BY DEF LinkInit
  <2>5. /\ tk \in 1 .. MaxTick /\ apUp \in 0 .. tk /\ httpdDead \in 0 .. tk /\ cfgAt \in 0 .. tk
        /\ lastSched \in 0 .. tk /\ lastEv \in 0 .. tk /\ noise \in 0 .. MaxNoise
    BY DEF LinkInit
  <2> QED
    BY <2>1, <2>2, <2>3, <2>4, <2>5, Zenon DEF LinkPlaced
<1>2. SleepNear /\ Believed /\ SoughtIdle /\ SoughtOld /\ Scheduled
  BY DEF LinkInit, SleepNear, Believed, SoughtIdle, SoughtOld, Sought, Scheduled
<1> QED
  BY <1>1, <1>2 DEF LinkInv

LEMMA LinkStep == LinkInv /\ [LinkNext]_linkVars => LinkInv'
<1> SUFFICES ASSUME LinkInv, [LinkNext]_linkVars PROVE LinkInv'
  OBVIOUS
<1>0. LinkPlaced /\ SleepNear /\ Believed /\ SoughtIdle /\ SoughtOld /\ Scheduled
  BY Zenon DEF LinkInv
<1> USE LinkParams
<1>n. /\ tk \in Nat /\ tk > 0 /\ apUp \in Nat /\ apUp <= tk /\ httpdDead \in Nat /\ httpdDead <= tk
      /\ cfgAt \in Nat /\ cfgAt <= tk /\ lastSched \in Nat /\ lastSched <= tk
      /\ wdg.until \in Nat /\ wdg.settle \in Nat /\ act.ts \in Nat /\ act.ts <= tk
      /\ snapC.at \in Nat /\ snapC.at <= tk /\ wdg.at \in {"round", "sleep", "settle"}
      /\ lastEv \in Nat /\ lastEv <= tk
  BY <1>0, LinkNumbers
<1>s. Span \in Nat /\ Span <= DozePace /\ (wdg.doze # TRUE => Span = IdlePace)
  BY <1>0, SpanIs DEF Span
<1>1. CASE TickPasses
  <2>1. /\ tk' = tk + 1 /\ tk < MaxTick
        /\ UNCHANGED <<apUp, probedUp, linkSig, noise, wdg, lastEv, act, httpdDead, snapC, cfgAt, lastSched>>
        /\ wdg.at # "round" /\ (wdg.at = "sleep" => ~(tk >= wdg.until)) /\ (wdg.at = "settle" => ~(tk >= wdg.settle))
    BY <1>1 DEF TickPasses, AtOnce
  <2>2. LinkPlaced'
    BY <1>0, <1>n, <2>1 DEF LinkPlaced
  <2>s. Span' = Span
    BY <2>1 DEF Span
  <2>3. SleepNear' /\ Believed'
    <3>1. SleepNear'
      BY <1>0, <1>n, <1>s, <2>1, <2>s DEF SleepNear
    <3>2. Believed'
      <4>1. AgedOut' = AgedOut
        BY <2>1 DEF AgedOut
      <4>2. wdg.until <= tk + ProbePace => wdg.until <= tk' + ProbePace
        BY <1>n, <2>1
      <4> QED
        BY <1>0, <2>1, <4>1, <4>2, Zenon DEF Believed
    <3> QED
      BY <3>1, <3>2
  <2>4. SoughtIdle' /\ SoughtOld' /\ Scheduled'
    BY <1>0, <1>n, <2>1 DEF SoughtIdle, Span, SoughtOld, Sought, Scheduled, RoundBy, AgedOut
  <2> QED
    BY <2>2, <2>3, <2>4 DEF LinkInv
<1>2. CASE HotspotUp
  <2>1. /\ apUp = 0 /\ apUp' = tk /\ linkSig' = TRUE
        /\ UNCHANGED <<tk, probedUp, noise, wdg, lastEv, act, httpdDead, snapC, cfgAt, lastSched>>
    BY <1>2 DEF HotspotUp
  <2>2. LinkPlaced'
    BY <1>0, <1>n, <2>1 DEF LinkPlaced
  <2>3. SleepNear' /\ Believed' /\ Scheduled'
    BY <1>0, <2>1 DEF SleepNear, Span, Believed, AgedOut, Scheduled, RoundBy
  <2>s. Span' = Span /\ AgedOut' = AgedOut
    BY <2>1 DEF Span, AgedOut
  <2>a. SoughtIdle'
    BY <1>0, <1>n, <1>s, <2>1, <2>s DEF SoughtIdle, RoundBy, SleepNear
  <2>b. SoughtOld'
    <3> SUFFICES ASSUME httpdDead # 0, wdg.doze # TRUE
                 PROVE  (RoundBy(AgedOut + IdlePace) \/ RoundBy(apUp + ProbePace))'
      BY <2>1 DEF SoughtOld
    <3>1. CASE wdg.at = "sleep"
      BY <1>0, <1>n, <2>1, <2>s, <3>1 DEF RoundBy, Believed
    <3>2. CASE wdg.at # "sleep"
      BY <1>0, <1>n, <2>1, <2>s, <3>2 DEF RoundBy, SleepNear
    <3> QED
      BY <3>1, <3>2
  <2>4. SoughtIdle' /\ SoughtOld'
    BY <2>a, <2>b
  <2> QED
    BY <2>2, <2>3, <2>4 DEF LinkInv
<1>3. CASE OtherEvent
  <2>1. /\ noise < MaxNoise /\ noise' = noise + 1 /\ linkSig' = TRUE
        /\ UNCHANGED <<tk, apUp, probedUp, wdg, lastEv, act, httpdDead, snapC, cfgAt, lastSched>>
    BY <1>3 DEF OtherEvent
  <2>2. LinkPlaced'
    BY <1>0, <2>1 DEF LinkPlaced
  <2>a. SleepNear' /\ Believed'
    BY <1>0, <2>1 DEF SleepNear, Span, Believed, AgedOut
  <2>b. Scheduled'
    BY <1>0, <2>1 DEF Scheduled, RoundBy
  <2>c. SoughtIdle'
    BY <1>0, <2>1 DEF AgedOut, RoundBy, Span, SoughtIdle, Sought
  <2>d. SoughtOld'
    BY <1>0, <2>1 DEF AgedOut, RoundBy, SoughtOld, Sought
  <2>3. SleepNear' /\ Believed' /\ Scheduled' /\ SoughtIdle' /\ SoughtOld'
    BY <2>a, <2>b, <2>c, <2>d
  <2> QED
    BY <2>2, <2>3 DEF LinkInv
<1>4. CASE WriteActivity
  <2>1. /\ httpdDead = 0
        /\ UNCHANGED <<tk, apUp, probedUp, linkSig, noise, wdg, lastEv, httpdDead, snapC, cfgAt, lastSched>>
    BY <1>4 DEF WriteActivity, HttpdDue
  <2>a. PICK o \in BOOLEAN : act' = [off |-> o, ts |-> tk]
    BY <1>4, Zenon DEF WriteActivity
  <2>2. act' \in ActFile /\ act'.ts <= tk
    BY <1>0, <1>n, <2>a DEF LinkPlaced, ActFile
  <2>3. LinkPlaced'
    BY <1>0, <2>1, <2>2 DEF LinkPlaced
  <2>4. SleepNear' /\ Believed' /\ Scheduled' /\ SoughtIdle' /\ SoughtOld'
    BY <1>0, <2>1 DEF SleepNear, Believed, Scheduled, RoundBy, Span, SoughtIdle, SoughtOld, Sought
  <2> QED
    BY <2>3, <2>4 DEF LinkInv
<1>5. CASE HttpdGone
  <2>1. /\ httpdDead = 0 /\ httpdDead' = tk
        /\ UNCHANGED <<tk, apUp, probedUp, linkSig, noise, wdg, lastEv, act, snapC, cfgAt, lastSched>>
    BY <1>5 DEF HttpdGone
  <2>2. LinkPlaced'
    BY <1>0, <1>n, <2>1 DEF LinkPlaced
  <2>3. SleepNear' /\ Scheduled' /\ SoughtIdle'
    BY <1>0, <2>1 DEF SleepNear, Span, Scheduled, RoundBy, Span, SoughtIdle, Sought
  <2>a. PICK b \in Nat : b = AgedOut' /\ b >= tk
    BY <1>n, <2>1 DEF AgedOut
  <2>b. Believed'
    <3>1. act.ts <= tk /\ (snapC.at # 0 /\ snapC.idle = TRUE => snapC.at <= tk + ActMaxAge)
      BY <1>n
    <3>2. wdg.at = "sleep" /\ wdg.doze # TRUE => wdg.until <= b + IdlePace
      BY <1>0, <1>n, <1>s, <2>a DEF SleepNear
    <3> QED
      BY <2>1, <2>a, <3>1, <3>2 DEF Believed
  <2>c. wdg.doze # TRUE => RoundBy(b + IdlePace)
    <3> SUFFICES ASSUME wdg.doze # TRUE PROVE RoundBy(b + IdlePace)
      OBVIOUS
    <3>1. b >= tk
      BY <2>a, Zenon
    <3>2. wdg.at = "sleep" => wdg.until <= b + IdlePace
      BY <1>0, <1>n, <1>s, <3>1 DEF SleepNear
    <3>3. wdg.at = "settle" => wdg.settle <= b + IdlePace + EvSettle
      BY <1>0, <1>n, <3>1 DEF SleepNear
    <3>4. tk <= b + IdlePace + EvSettle
      BY <1>n, <3>1
    <3> QED
      BY <3>2, <3>3, <3>4, Zenon DEF RoundBy
  <2>4. Believed' /\ SoughtOld'
    BY <2>1, <2>a, <2>b, <2>c DEF SoughtOld, RoundBy
  <2> QED
    BY <2>2, <2>3, <2>4 DEF LinkInv
<1>6. CASE Configure
  <2>1. /\ cfgAt = 0 /\ tk < Boundary /\ cfgAt' = tk
        /\ UNCHANGED <<tk, apUp, probedUp, linkSig, noise, wdg, lastEv, act, httpdDead, snapC, lastSched>>
    BY <1>6 DEF Configure
  <2>2. LinkPlaced'
    BY <1>0, <1>n, <2>1 DEF LinkPlaced
  <2>3. SleepNear' /\ SoughtIdle' /\ Believed' /\ SoughtOld'
    BY <1>0, <2>1 DEF SleepNear, Span, RoundBy, Span, SoughtIdle, Sought, Believed, AgedOut, SoughtOld
  <2>4. Scheduled'
    BY <1>0, <1>n, <1>s, <2>1 DEF Scheduled, SleepNear, RoundBy
  <2> QED
    BY <2>2, <2>3, <2>4 DEF LinkInv
<1>7. ASSUME NEW doze \in BOOLEAN, WdRound(doze) PROVE LinkInv'
  <2>0. Snap \in [at : 0 .. MaxTick, idle : BOOLEAN] /\ Snap.at <= tk
    <3>1. PICK o \in BOOLEAN : o = (FreshAct /\ act.off)
      BY Zenon
    <3>2. [at |-> tk, idle |-> o] \in [at : 0 .. MaxTick, idle : BOOLEAN] /\ [at |-> tk, idle |-> o].at <= tk
      BY <1>0, <1>n DEF LinkPlaced
    <3>3. Snap = snapC \/ Snap = [at |-> tk, idle |-> o]
      BY <3>1, Zenon DEF Snap
    <3> QED
      BY <1>0, <3>2, <3>3, Zenon DEF LinkPlaced
  <2>1. PICK s \in [at : 0 .. MaxTick, idle : BOOLEAN] : s = Snap
    BY <2>0
  <2>2. /\ lastSched' = IF SchedDue THEN tk ELSE lastSched
        /\ snapC' = s /\ wdg' = [at |-> "sleep", settle |-> 0, until |-> SleepEnds(Pace(doze)), doze |-> doze]
        /\ UNCHANGED <<tk, apUp, linkSig, noise, lastEv, act, httpdDead, cfgAt>>
    BY <1>7, <2>1 DEF WdRound
  <2>p. probedUp' \in BOOLEAN /\ (apUp # 0 => probedUp' = TRUE)
    BY <1>7, Zenon DEF WdRound
  <2>3. s.at <= tk /\ s.at \in Nat /\ s.idle \in BOOLEAN
    BY <2>0, <2>1
  <2>4. httpdDead # 0 /\ s.idle = TRUE => tk <= AgedOut /\ (s.at # 0 => s.at <= httpdDead + ActMaxAge)
    <3> SUFFICES ASSUME httpdDead # 0, s.idle = TRUE PROVE tk <= AgedOut /\ (s.at # 0 => s.at <= httpdDead + ActMaxAge)
      OBVIOUS
    <3>1. CASE snapC.at # 0 /\ tk - snapC.at < ActCache
      <4>1. s = snapC
        BY <2>1, <3>1, Zenon DEF Snap
      <4>2. snapC.at <= httpdDead + ActMaxAge
        BY <1>0, <3>1, <4>1, Zenon DEF Believed
      <4> QED
        BY <1>n, <3>1, <4>1, <4>2 DEF AgedOut
    <3>2. CASE ~(snapC.at # 0 /\ tk - snapC.at < ActCache)
      <4>1. s = [at |-> tk, idle |-> FreshAct /\ act.off]
        BY <2>1, <3>2, Zenon DEF Snap
      <4>2. s.at = tk /\ s.idle = (FreshAct /\ act.off)
        BY <4>1, Zenon
      <4>3. tk - act.ts <= ActMaxAge
        BY <4>2, Zenon DEF FreshAct
      <4>4. act.ts <= httpdDead
        BY <1>0, Zenon DEF Believed
      <4> QED
        BY <1>n, <4>2, <4>3, <4>4 DEF AgedOut
    <3> QED
      BY <3>1, <3>2
  <2>5. PICK p \in Nat : /\ p = Pace(doze) /\ p <= (IF doze = TRUE THEN DozePace ELSE IdlePace)
                         /\ s.idle # TRUE /\ doze # TRUE => p = ProbePace
    <3>1. CASE doze = TRUE
      <4>1. Pace(doze) = DozePace
        BY <3>1, Zenon DEF Pace
      <4> QED
        BY <3>1, <4>1
    <3>2. CASE doze # TRUE /\ s.idle = TRUE
      <4>1. Pace(doze) = IdlePace
        BY <2>1, <3>2, Zenon DEF Pace
      <4>2. IdlePace \in Nat /\ IdlePace <= IdlePace
        OBVIOUS
      <4> QED
        BY <3>2, <4>1, <4>2, Zenon
    <3>3. CASE doze # TRUE /\ s.idle # TRUE
      <4>1. Pace(doze) = ProbePace
        BY <2>1, <2>3, <3>3, Zenon DEF Pace
      <4> QED
        BY <3>3, <4>1
    <3> QED
      BY <3>1, <3>2, <3>3, Zenon
  <2>6. PICK u \in Nat : /\ u = SleepEnds(Pace(doze)) /\ tk <= u /\ u <= tk + p
                         /\ cfgAt # 0 /\ tk < Boundary => u <= Boundary
    <3>1. CASE cfgAt # 0 /\ tk < Boundary
      <4>1. SleepEnds(Pace(doze)) = Min({tk + p, Boundary})
        BY <2>5, <3>1 DEF SleepEnds
      <4>2. PICK q \in Nat : q = tk + p
        BY <1>n
      <4>3. Min({q, Boundary}) = IF q <= Boundary THEN q ELSE Boundary
        BY MinOfTwo
      <4> QED
        BY <1>n, <3>1, <4>1, <4>2, <4>3
    <3>2. CASE ~(cfgAt # 0 /\ tk < Boundary)
      <4>1. SleepEnds(Pace(doze)) = tk + p
        BY <2>5, <3>2 DEF SleepEnds
      <4> QED
        BY <1>n, <3>2, <4>1
    <3> QED
      BY <3>1, <3>2
  <2>7. wdg'.at = "sleep" /\ wdg'.until = u /\ wdg'.doze = doze
        /\ wdg' \in [at : {"round", "sleep", "settle"}, until : Nat, settle : Nat, doze : BOOLEAN]
    BY <2>2, <2>6
  <2>8. lastSched' \in 0 .. tk /\ (cfgAt # 0 /\ ~(tk < Boundary) => lastSched' >= Boundary)
    BY <1>n, <2>2 DEF SchedDue
  <2>9. LinkPlaced'
    BY <1>0, <2>2, <2>3, <2>p, <2>7, <2>8 DEF LinkPlaced
  <2>10. SleepNear'
    BY <1>n, <2>2, <2>5, <2>6, <2>7 DEF SleepNear, Span
  <2>11. Believed'
    <3> SUFFICES ASSUME httpdDead # 0 PROVE Believed'
      BY <2>2 DEF Believed
    <3>1. act'.ts <= httpdDead'
      BY <1>0, <2>2 DEF Believed
    <3>2. snapC'.at # 0 /\ snapC'.idle = TRUE => snapC'.at <= httpdDead + ActMaxAge
      BY <2>2, <2>4
    <3>3. doze # TRUE => u <= AgedOut + IdlePace \/ u <= tk + ProbePace
      <4> SUFFICES ASSUME doze # TRUE PROVE u <= AgedOut + IdlePace \/ u <= tk + ProbePace
        OBVIOUS
      <4>1. CASE s.idle = TRUE
        <5>1. tk <= AgedOut
          BY <2>4, <4>1
        <5>2. p <= IdlePace
          BY <2>5
        <5> QED
          BY <1>n, <2>6, <5>1, <5>2 DEF AgedOut
      <4>2. CASE s.idle # TRUE
        <5>1. p = ProbePace
          BY <2>5, <4>2, Zenon
        <5> QED
          BY <2>6, <5>1, Zenon
      <4> QED
        BY <4>1, <4>2, Zenon
    <3> QED
      BY <2>2, <2>7, <3>1, <3>2, <3>3 DEF Believed, AgedOut
  <2>12. SoughtIdle' /\ SoughtOld'
    BY <2>2, <2>p DEF SoughtIdle, SoughtOld, Sought
  <2>13. Scheduled'
    BY <1>n, <2>2, <2>6, <2>7, <2>8 DEF Scheduled, RoundBy
  <2> QED
    BY <2>9, <2>10, <2>11, <2>12, <2>13 DEF LinkInv
<1>8. CASE TimerEnds
  <2>1. /\ wdg.at = "sleep" /\ tk >= wdg.until /\ wdg' = [wdg EXCEPT !.at = "round"]
        /\ UNCHANGED <<tk, apUp, probedUp, linkSig, noise, lastEv, act, httpdDead, snapC, cfgAt, lastSched>>
    BY <1>8 DEF TimerEnds
  <2>2. wdg' \in [at : {"round", "sleep", "settle"}, until : Nat, settle : Nat, doze : BOOLEAN] /\ wdg'.at = "round"
    BY <1>0, <2>1 DEF LinkPlaced
  <2>3. LinkPlaced'
    BY <1>0, <2>1, <2>2 DEF LinkPlaced
  <2>4. tk = wdg.until
    BY <1>0, <1>n, <2>1 DEF SleepNear
  <2>5. SleepNear' /\ Believed'
    BY <1>0, <2>1, <2>2 DEF SleepNear, Believed
  <2>6. ASSUME NEW n \in Nat, RoundBy(n) PROVE wdg'.at = "round" /\ tk <= n + EvSettle
    BY <1>n, <2>1, <2>2, <2>4, <2>6 DEF RoundBy
  <2>s. wdg'.doze = wdg.doze
    BY <1>0, <2>1 DEF LinkPlaced
  <2>7. apUp + Span \in Nat /\ Span' = Span /\ AgedOut + IdlePace \in Nat /\ apUp + ProbePace \in Nat /\ AgedOut' = AgedOut
    BY <1>n, <1>s, <2>1, <2>s DEF AgedOut, Span
  <2>8. SoughtIdle' /\ SoughtOld' /\ Scheduled'
    BY <1>0, <2>1, <2>2, <2>6, <2>7, <2>s DEF SoughtIdle, SoughtOld, Sought, Scheduled, RoundBy
  <2> QED
    BY <2>3, <2>5, <2>8 DEF LinkInv
<1>9. CASE SignalDropped
  <2>1. linkSig' = FALSE /\ UNCHANGED <<tk, apUp, probedUp, noise, wdg, lastEv, act, httpdDead, snapC, cfgAt, lastSched>>
    BY <1>9 DEF SignalDropped, Dropped
  <2>2. LinkPlaced'
    BY <1>0, <2>1 DEF LinkPlaced
  <2>a. SleepNear' /\ Believed'
    BY <1>0, <2>1 DEF SleepNear, Span, Believed, AgedOut
  <2>b. Scheduled'
    BY <1>0, <2>1 DEF Scheduled, RoundBy
  <2>c. SoughtIdle'
    BY <1>0, <2>1 DEF AgedOut, RoundBy, Span, SoughtIdle, Sought
  <2>d. SoughtOld'
    BY <1>0, <2>1 DEF AgedOut, RoundBy, SoughtOld, Sought
  <2>3. SleepNear' /\ Believed' /\ Scheduled' /\ SoughtIdle' /\ SoughtOld'
    BY <2>a, <2>b, <2>c, <2>d
  <2> QED
    BY <2>2, <2>3 DEF LinkInv
<1>10. CASE SignalTaken
  <2>1. /\ wdg.at = "sleep" /\ linkSig' = FALSE /\ wdg' = [wdg EXCEPT !.at = "settle", !.settle = tk + EvSettle]
        /\ UNCHANGED <<tk, apUp, probedUp, noise, lastEv, act, httpdDead, snapC, cfgAt, lastSched>>
    BY <1>10 DEF SignalTaken
  <2>a. wdg' = [at |-> "settle", until |-> wdg.until, settle |-> tk + EvSettle, doze |-> wdg.doze]
    BY <1>0, <2>1 DEF LinkPlaced
  <2>2. /\ wdg' \in [at : {"round", "sleep", "settle"}, until : Nat, settle : Nat, doze : BOOLEAN]
        /\ wdg'.at = "settle" /\ wdg'.settle = tk + EvSettle
    <3>1. wdg.doze \in BOOLEAN
      BY <1>0 DEF LinkPlaced
    <3> QED
      BY <1>n, <2>a, <3>1
  <2>3. LinkPlaced'
    BY <1>0, <2>1, <2>2 DEF LinkPlaced
  <2>5. SleepNear' /\ Believed'
    <3>1. SleepNear'
      BY <1>n, <2>1, <2>2 DEF SleepNear
    <3>2. Believed'
      BY <1>0, <2>1, <2>2 DEF Believed
    <3> QED
      BY <3>1, <3>2
  <2>6. ASSUME NEW n \in Nat, RoundBy(n) PROVE wdg'.at = "settle" /\ wdg'.settle <= n + EvSettle
    BY <1>0, <1>n, <2>1, <2>2, <2>6 DEF RoundBy, SleepNear
  <2>s. wdg'.doze = wdg.doze
    BY <1>0, <2>1 DEF LinkPlaced
  <2>7. apUp + Span \in Nat /\ Span' = Span /\ AgedOut + IdlePace \in Nat /\ apUp + ProbePace \in Nat /\ AgedOut' = AgedOut
    BY <1>n, <1>s, <2>1, <2>s DEF AgedOut, Span
  <2>8. SoughtIdle' /\ SoughtOld' /\ Scheduled'
    BY <1>0, <2>1, <2>2, <2>6, <2>7, <2>s DEF SoughtIdle, SoughtOld, Sought, Scheduled, RoundBy
  <2> QED
    BY <2>3, <2>5, <2>8 DEF LinkInv
<1>11. CASE Settled
  <2>1. /\ wdg.at = "settle" /\ tk >= wdg.settle /\ wdg' = [wdg EXCEPT !.at = "round"]
        /\ linkSig' = FALSE /\ lastEv' = tk
        /\ UNCHANGED <<tk, apUp, probedUp, noise, act, httpdDead, snapC, cfgAt, lastSched>>
    BY <1>11 DEF Settled
  <2>2. wdg' \in [at : {"round", "sleep", "settle"}, until : Nat, settle : Nat, doze : BOOLEAN] /\ wdg'.at = "round"
    BY <1>0, <2>1 DEF LinkPlaced
  <2>a. lastEv' \in 0 .. tk /\ linkSig' \in BOOLEAN
    <3>1. lastEv' \in 0 .. tk
      BY <1>n, <2>1
    <3> QED
      BY <2>1, <3>1, Zenon
  <2>3. LinkPlaced'
    BY <1>0, <2>1, <2>2, <2>a DEF LinkPlaced
  <2>4. tk = wdg.settle
    BY <1>0, <1>n, <2>1 DEF SleepNear
  <2>5. SleepNear' /\ Believed'
    BY <1>0, <2>1, <2>2 DEF SleepNear, Believed
  <2>6. ASSUME NEW n \in Nat, RoundBy(n) PROVE wdg'.at = "round" /\ tk <= n + EvSettle
    BY <1>n, <2>1, <2>2, <2>4, <2>6 DEF RoundBy
  <2>s. wdg'.doze = wdg.doze
    BY <1>0, <2>1 DEF LinkPlaced
  <2>7. apUp + Span \in Nat /\ Span' = Span /\ AgedOut + IdlePace \in Nat /\ apUp + ProbePace \in Nat /\ AgedOut' = AgedOut
    BY <1>n, <1>s, <2>1, <2>s DEF AgedOut, Span
  <2>8. SoughtIdle' /\ SoughtOld' /\ Scheduled'
    BY <1>0, <2>1, <2>2, <2>6, <2>7, <2>s DEF SoughtIdle, SoughtOld, Sought, Scheduled, RoundBy
  <2> QED
    BY <2>3, <2>5, <2>8 DEF LinkInv
<1>12. CASE UNCHANGED linkVars
  <2>1. UNCHANGED <<tk, apUp, probedUp, linkSig, noise, wdg, lastEv, act, httpdDead, snapC, cfgAt, lastSched>>
    BY <1>12 DEF linkVars
  <2>2. LinkPlaced'
    BY <1>0, <2>1 DEF LinkPlaced
  <2>3. SleepNear' /\ Believed'
    BY <1>0, <2>1 DEF SleepNear, Span, Believed, AgedOut
  <2>4. Scheduled'
    BY <1>0, <2>1 DEF Scheduled, RoundBy
  <2>5. SoughtIdle'
    BY <1>0, <2>1 DEF AgedOut, RoundBy, Span, SoughtIdle, Sought
  <2>6. SoughtOld'
    BY <1>0, <2>1 DEF AgedOut, RoundBy, SoughtOld, Sought
  <2> QED
    BY <2>2, <2>3, <2>4, <2>5, <2>6 DEF LinkInv
<1> QED
  BY <1>1, <1>2, <1>3, <1>4, <1>5, <1>6, <1>7, <1>8, <1>9, <1>10, <1>11, <1>12 DEF LinkNext

-----------------------------------------------------------------------------
(* The cache of the rule files.                                            *)

\* Rules kept under a key: of a file that is there, or was when a lookup in progress
\* began, they are none, at least as new, or their key is older than that file.
NotOlder(key, val) == \A f \in RFile :
  /\ val[f] = 0 \/ val[f] >= dir[f].rules \/ key[1] < dir[f].rules
  /\ \A m \in Loader : val[f] = 0 \/ val[f] >= begun[m][f] \/ key[1] < begun[m][f]

\* The edit number is the clock of the mtimes, and content is as old as its file.
DirInv ==
  /\ edits \in 0 .. MaxRuleEdits
  /\ dir \in [RFile -> [mtime : Nat, size : Nat, rules : Nat]]
  /\ \A f \in RFile : dir[f].rules <= dir[f].mtime /\ dir[f].mtime <= edits

\* What a lookup may be doing.
LoadState == [at : {"idle", "stat", "read", "use"}, todo : SUBSET RFile, seen : SUBSET RFile,
              key : Nat \X Nat, got : [RFile -> 0 .. MaxRuleEdits]]

\* A lookup has been through every file it found at its start, or has it still before it.
LoadsInv ==
  /\ ld \in [Loader -> LoadState]
  /\ begun \in [Loader -> [RFile -> Nat]]
  /\ \A l \in Loader :
       /\ ld[l].key[1] <= edits /\ (ld[l].at = "stat" => ld[l].got = Nothing0)
       /\ \A f \in RFile :
            /\ begun[l][f] <= dir[f].mtime
            /\ dir[f].rules = 0 \/ dir[f].rules >= begun[l][f]
            /\ \/ ld[l].at = "idle" \/ begun[l][f] <= ld[l].key[1]
               \/ ld[l].at = "stat" /\ f \in ld[l].todo

CacheTyped == /\ cache \in [key : Nat \X Nat, val : [RFile -> 0 .. MaxRuleEdits]]
              /\ cache.key[1] <= edits
RuleInv == /\ DirInv /\ LoadsInv /\ CacheTyped /\ NotOlder(cache.key, cache.val)
           /\ \A l \in Loader : NotOlder(ld[l].key, ld[l].got)

LEMMA RuleParams == MaxRuleEdits \in Nat
BY CacheAssumption

\* The invariant says what the runs check.
LEMMA RuleSays == ASSUME RuleInv PROVE RuleTypeOK /\ FreshRules
<1>1. RuleTypeOK
  BY DEF RuleInv, DirInv, LoadsInv, LoadState, CacheTyped, RuleTypeOK
<1>2. ASSUME NEW l \in Loader, ld[l].at = "use", NEW f \in RFile
      PROVE  ld[l].got[f] >= begun[l][f] \/ ld[l].got[f] = 0
  <2>1. begun[l][f] <= ld[l].key[1] /\ begun[l][f] \in Nat /\ ld[l].key[1] \in Nat
    BY <1>2 DEF RuleInv, LoadsInv, LoadState
  <2>2. ld[l].got[f] = 0 \/ ld[l].got[f] >= begun[l][f] \/ ld[l].key[1] < begun[l][f]
    BY DEF RuleInv, NotOlder
  <2> QED
    BY <2>1, <2>2
<1> QED
  BY <1>1, <1>2 DEF FreshRules, Newer

LEMMA RuleStart == RuleInit => RuleInv
<1> SUFFICES ASSUME RuleInit PROVE RuleInv
  OBVIOUS
<1>1. Nothing0 \in [RFile -> 0 .. MaxRuleEdits] /\ \A f \in RFile : Nothing0[f] = 0
  BY RuleParams DEF Nothing0
<1>2. DirInv
  BY RuleParams DEF RuleInit, DirInv
<1>3. LoadsInv
  BY <1>1, RuleParams DEF RuleInit, LoadsInv, LoadState, IdleLoader, NoKey
<1>4. CacheTyped /\ NotOlder(cache.key, cache.val)
  BY <1>1, RuleParams DEF RuleInit, CacheTyped, NotOlder, NoKey
<1>5. \A l \in Loader : NotOlder(ld[l].key, ld[l].got)
  BY <1>1 DEF RuleInit, NotOlder, IdleLoader
<1> QED
  BY <1>2, <1>3, <1>4, <1>5 DEF RuleInv

\* What a lookup is doing, one component at a time.
LEMMA LoadTyped ==
  ASSUME LoadsInv, NEW l \in Loader
  PROVE  /\ ld[l] \in LoadState
         /\ ld[l].at \in {"idle", "stat", "read", "use"} /\ ld[l].todo \subseteq RFile
         /\ ld[l].seen \subseteq RFile /\ ld[l].key \in Nat \X Nat
         /\ ld[l].got \in [RFile -> 0 .. MaxRuleEdits]
         /\ ld[l] = [at |-> ld[l].at, todo |-> ld[l].todo, seen |-> ld[l].seen,
                     key |-> ld[l].key, got |-> ld[l].got]
         /\ ld[l].key[1] \in Nat /\ ld[l].key[2] \in Nat /\ begun[l] \in [RFile -> Nat]
         /\ \A f \in RFile : ld[l].got[f] \in Nat /\ begun[l][f] \in Nat
BY RuleParams DEF LoadsInv, LoadState

\* What is kept under a key stays good when a file is replaced by a newer one.
LEMMA KeptByEdit ==
  ASSUME RuleInv, EditFile, NEW key \in Nat \X Nat, key[1] <= edits,
         NEW val \in [RFile -> 0 .. MaxRuleEdits], NotOlder(key, val)
  PROVE  NotOlder(key, val)'
<1>1. PICK g \in RFile, bad \in BOOLEAN :
        dir' = [dir EXCEPT ![g] = [mtime |-> edits', size |-> 1, rules |-> IF bad THEN 0 ELSE edits']]
  BY DEF EditFile
<1>2. edits' = edits + 1 /\ begun' = begun /\ edits \in Nat /\ key[1] \in Nat
  BY DEF EditFile, RuleInv, DirInv
<1>3. \A f \in RFile : dir'[f].rules \in {0, edits + 1, dir[f].rules} /\ val[f] \in Nat
  BY <1>1, <1>2, RuleParams DEF RuleInv, DirInv
<1> QED
  BY <1>2, <1>3 DEF NotOlder

\* It stays good when a file goes: a file that is not there is owed nothing.
LEMMA KeptByRemoval ==
  ASSUME RuleInv, RemoveRules, NEW key \in Nat \X Nat,
         NEW val \in [RFile -> 0 .. MaxRuleEdits], NotOlder(key, val)
  PROVE  NotOlder(key, val)'
<1>1. PICK g \in RFile : /\ dir' = [dir EXCEPT ![g] = [mtime |-> 0, size |-> 0, rules |-> 0]]
                         /\ begun' = [l \in Loader |-> [begun[l] EXCEPT ![g] = 0]]
  BY DEF RemoveRules
<1>2. \A f \in RFile : dir'[f].rules \in {0, dir[f].rules} /\ val[f] \in Nat
  BY <1>1, RuleParams DEF RuleInv, DirInv
<1>3. \A m \in Loader, f \in RFile : begun'[m][f] \in {0, begun[m][f]}
  BY <1>1, LoadTyped DEF RuleInv
<1> QED
  BY <1>2, <1>3 DEF NotOlder

\* It stays good when a lookup begins with what is there, or ends.
LEMMA KeptByHistory ==
  ASSUME RuleInv, NEW l \in Loader, NEW key \in Nat \X Nat,
         NEW val \in [RFile -> 0 .. MaxRuleEdits], NotOlder(key, val),
         dir' = dir, begun' = [begun EXCEPT ![l] = begun'[l]],
         begun'[l] = Content \/ begun'[l] = Nothing0
  PROVE  NotOlder(key, val)'
<1>1. \A f \in RFile : begun'[l][f] \in {0, dir[f].rules} /\ val[f] \in Nat
  BY RuleParams DEF Content, Nothing0
<1>2. \A m \in Loader : m # l => begun'[m] = begun[m]
  BY DEF RuleInv, LoadsInv
<1> QED
  BY <1>1, <1>2 DEF NotOlder

LEMMA RuleStep == RuleInv /\ [RuleNext]_ruleVars => RuleInv'
<1> SUFFICES ASSUME RuleInv, [RuleNext]_ruleVars PROVE RuleInv'
  OBVIOUS
<1> USE RuleParams
<1>0. DirInv /\ LoadsInv /\ CacheTyped
  BY DEF RuleInv
<1>1. CASE EditFile
  <2>1. PICK g \in RFile, bad \in BOOLEAN :
          dir' = [dir EXCEPT ![g] = [mtime |-> edits', size |-> 1, rules |-> IF bad THEN 0 ELSE edits']]
    BY <1>1 DEF EditFile
  <2>2. edits' = edits + 1 /\ edits < MaxRuleEdits /\ UNCHANGED <<cache, ld, begun>> /\ edits \in Nat
    BY <1>0, <1>1 DEF EditFile, DirInv
  <2>3. DirInv'
    BY <1>0, <2>1, <2>2 DEF DirInv
  <2>4. \A f \in RFile : /\ dir'[f].mtime >= dir[f].mtime
                         /\ dir'[f].rules \in {0, edits + 1, dir[f].rules}
    BY <1>0, <2>1, <2>2 DEF DirInv
  <2>5. \A l \in Loader, f \in RFile :
          /\ begun[l][f] <= edits /\ begun[l][f] <= dir'[f].mtime
          /\ dir'[f].rules = 0 \/ dir'[f].rules >= begun[l][f]
    <3> SUFFICES ASSUME NEW l \in Loader, NEW f \in RFile
                 PROVE  /\ begun[l][f] <= edits /\ begun[l][f] <= dir'[f].mtime
                        /\ dir'[f].rules = 0 \/ dir'[f].rules >= begun[l][f]
      OBVIOUS
    <3>1. begun[l][f] \in Nat /\ begun[l][f] <= dir[f].mtime /\ dir[f].mtime <= edits
          /\ dir[f].mtime \in Nat /\ dir'[f].mtime \in Nat
          /\ (dir[f].rules = 0 \/ dir[f].rules >= begun[l][f])
      BY <1>0, <2>3, LoadTyped DEF LoadsInv, DirInv
    <3> QED
      BY <3>1, <2>2, <2>4
  <2>6. LoadsInv'
    <3>1. \A l \in Loader : ld[l].key[1] \in Nat /\ ld[l].key[1] <= edits + 1
      BY <1>0, <2>2, LoadTyped DEF LoadsInv
    <3> QED
      BY <1>0, <2>2, <2>5, <3>1 DEF LoadsInv, Nothing0
  <2>7. CacheTyped'
    BY <1>0, <2>2 DEF CacheTyped
  <2>8. NotOlder(cache.key, cache.val)'
    <3>1. NotOlder(cache.key, cache.val) /\ cache.key \in Nat \X Nat /\ cache.key[1] <= edits
          /\ cache.val \in [RFile -> 0 .. MaxRuleEdits] /\ cache' = cache
      BY <1>0, <2>2 DEF CacheTyped, RuleInv
    <3> QED
      BY <1>1, <3>1, KeptByEdit DEF NotOlder
  <2>9. ASSUME NEW l \in Loader PROVE NotOlder(ld[l].key, ld[l].got)'
    <3>1. NotOlder(ld[l].key, ld[l].got) /\ ld[l].key \in Nat \X Nat /\ ld[l].key[1] <= edits
          /\ ld[l].got \in [RFile -> 0 .. MaxRuleEdits] /\ ld' = ld
      BY <1>0, <2>2, LoadTyped DEF LoadsInv, RuleInv
    <3> QED
      BY <1>1, <3>1, KeptByEdit DEF NotOlder
  <2> QED
    BY <2>3, <2>6, <2>7, <2>8, <2>9 DEF RuleInv
<1>2. CASE RemoveRules
  <2>1. PICK g \in RFile : /\ dir' = [dir EXCEPT ![g] = [mtime |-> 0, size |-> 0, rules |-> 0]]
                           /\ begun' = [l \in Loader |-> [begun[l] EXCEPT ![g] = 0]]
    BY <1>2 DEF RemoveRules
  <2>2. edits' = edits + 1 /\ edits < MaxRuleEdits /\ UNCHANGED <<cache, ld>> /\ edits \in Nat
    BY <1>0, <1>2 DEF RemoveRules, DirInv
  <2>3. DirInv'
    BY <1>0, <2>1, <2>2 DEF DirInv
  <2>4. begun' \in [Loader -> [RFile -> Nat]]
    BY <1>0, <2>1, LoadTyped
  <2>5. \A l \in Loader, f \in RFile :
          /\ begun'[l][f] <= dir'[f].mtime
          /\ dir'[f].rules = 0 \/ dir'[f].rules >= begun'[l][f]
          /\ begun'[l][f] \in {0, begun[l][f]}
    <3> SUFFICES ASSUME NEW l \in Loader, NEW f \in RFile
                 PROVE  /\ begun'[l][f] <= dir'[f].mtime
                        /\ dir'[f].rules = 0 \/ dir'[f].rules >= begun'[l][f]
                        /\ begun'[l][f] \in {0, begun[l][f]}
      OBVIOUS
    <3>1. begun[l] \in [RFile -> Nat] /\ begun'[l] = [begun[l] EXCEPT ![g] = 0]
      BY <1>0, <2>1, LoadTyped
    <3>2. CASE f = g
      BY <1>0, <3>1, <3>2, <2>1 DEF DirInv
    <3>3. CASE f # g
      BY <1>0, <3>1, <3>3, <2>1 DEF DirInv, LoadsInv
    <3> QED
      BY <3>2, <3>3
  <2>6. LoadsInv'
    <3>1. \A l \in Loader : ld[l].key[1] \in Nat /\ ld[l].key[1] <= edits + 1
      BY <1>0, <2>2, LoadTyped DEF LoadsInv
    <3>2. ASSUME NEW l \in Loader, NEW f \in RFile
          PROVE  \/ ld[l].at = "idle" \/ begun'[l][f] <= ld[l].key[1]
                 \/ ld[l].at = "stat" /\ f \in ld[l].todo
      BY <1>0, <2>5, <3>1 DEF LoadsInv
    <3> QED
      BY <1>0, <2>2, <2>4, <2>5, <3>1, <3>2 DEF LoadsInv, Nothing0
  <2>7. CacheTyped'
    BY <1>0, <2>2 DEF CacheTyped
  <2>8. NotOlder(cache.key, cache.val)'
    <3>1. NotOlder(cache.key, cache.val) /\ cache.key \in Nat \X Nat
          /\ cache.val \in [RFile -> 0 .. MaxRuleEdits] /\ cache' = cache
      BY <1>0, <2>2 DEF CacheTyped, RuleInv
    <3> QED
      BY <1>2, <3>1, KeptByRemoval DEF NotOlder
  <2>9. ASSUME NEW l \in Loader PROVE NotOlder(ld[l].key, ld[l].got)'
    <3>1. NotOlder(ld[l].key, ld[l].got) /\ ld[l].key \in Nat \X Nat
          /\ ld[l].got \in [RFile -> 0 .. MaxRuleEdits] /\ ld' = ld
      BY <1>0, <2>2, LoadTyped DEF RuleInv
    <3> QED
      BY <1>2, <3>1, KeptByRemoval DEF NotOlder
  <2> QED
    BY <2>3, <2>6, <2>7, <2>8, <2>9 DEF RuleInv
<1>3. ASSUME NEW l \in Loader, BeginLoad(l) PROVE RuleInv'
  <2>1. /\ ld' = [ld EXCEPT ![l] = [IdleLoader EXCEPT !.at = "stat", !.todo = Present]]
        /\ begun' = [begun EXCEPT ![l] = Content] /\ UNCHANGED <<dir, edits, cache>>
    BY <1>3 DEF BeginLoad
  <2>2. ld'[l] = [at |-> "stat", todo |-> Present, seen |-> {}, key |-> NoKey, got |-> Nothing0]
    BY <1>0, <2>1 DEF IdleLoader, LoadsInv
  <2>3. /\ Content \in [RFile -> Nat] /\ begun'[l] = Content
        /\ \A f \in RFile : Content[f] = dir[f].rules
    BY <1>0, <2>1 DEF Content, DirInv, LoadsInv
  <2>4. \A m \in Loader : m # l => ld'[m] = ld[m] /\ begun'[m] = begun[m]
    BY <1>0, <2>1 DEF LoadsInv
  <2>5. DirInv' /\ CacheTyped'
    BY <1>0, <2>1 DEF DirInv, CacheTyped
  <2>6. \A f \in RFile : f \notin Present => dir[f].rules = 0
    BY <1>0 DEF DirInv, Present
  <2>7. LoadsInv'
    <3>1. begun' \in [Loader -> [RFile -> Nat]]
      BY <1>0, <2>1, <2>3 DEF LoadsInv
    <3>2. ld' \in [Loader -> LoadState]
      <4>1. Nothing0 \in [RFile -> 0 .. MaxRuleEdits] /\ NoKey \in Nat \X Nat /\ Present \subseteq RFile
        BY DEF Nothing0, NoKey, Present
      <4>2. ld'[l] \in LoadState
        BY <2>2, <4>1 DEF LoadState
      <4>3. ld' = [ld EXCEPT ![l] = ld'[l]]
        BY <1>0, <2>1 DEF LoadsInv
      <4> QED
        BY <1>0, <4>2, <4>3 DEF LoadsInv
    <3>3. ASSUME NEW m \in Loader
          PROVE  /\ ld'[m].key[1] <= edits /\ (ld'[m].at = "stat" => ld'[m].got = Nothing0)
                 /\ \A f \in RFile :
                      /\ begun'[m][f] <= dir[f].mtime
                      /\ dir[f].rules = 0 \/ dir[f].rules >= begun'[m][f]
                      /\ \/ ld'[m].at = "idle" \/ begun'[m][f] <= ld'[m].key[1]
                         \/ ld'[m].at = "stat" /\ f \in ld'[m].todo
      <4>1. CASE m = l
        BY <1>0, <2>2, <2>3, <2>6, <4>1 DEF NoKey, DirInv
      <4>2. CASE m # l
        BY <1>0, <2>4, <4>2 DEF LoadsInv
      <4> QED
        BY <4>1, <4>2
    <3> QED
      BY <2>1, <3>1, <3>2, <3>3 DEF LoadsInv, Nothing0
  <2>8. begun' = [begun EXCEPT ![l] = begun'[l]] /\ (begun'[l] = Content \/ begun'[l] = Nothing0)
    BY <2>1, <2>3
  <2>9. NotOlder(cache.key, cache.val)'
    <3>1. NotOlder(cache.key, cache.val) /\ cache.key \in Nat \X Nat
          /\ cache.val \in [RFile -> 0 .. MaxRuleEdits] /\ cache' = cache /\ dir' = dir
      BY <1>0, <2>1 DEF CacheTyped, RuleInv
    <3> QED
      BY <3>1, <2>8, KeptByHistory DEF NotOlder
  <2>10. ASSUME NEW m \in Loader PROVE NotOlder(ld[m].key, ld[m].got)'
    <3>1. CASE m = l
      BY <2>2, <3>1 DEF NotOlder, Nothing0
    <3>2. CASE m # l
      <4>1. NotOlder(ld[m].key, ld[m].got) /\ ld[m].key \in Nat \X Nat
            /\ ld[m].got \in [RFile -> 0 .. MaxRuleEdits] /\ ld'[m] = ld[m] /\ dir' = dir
        BY <1>0, <2>1, <2>4, <3>2, LoadTyped DEF RuleInv
      <4> QED
        BY <4>1, <2>8, KeptByHistory DEF NotOlder
    <3> QED
      BY <3>1, <3>2
  <2> QED
    BY <2>5, <2>7, <2>9, <2>10 DEF RuleInv
<1>4. ASSUME NEW l \in Loader, StatFile(l) PROVE RuleInv'
  <2>1. PICK g \in ld[l].todo :
          ld' = [ld EXCEPT ![l].todo = @ \ {g}, ![l].seen = @ \union (Present \cap {g}),
                           ![l].key = <<Max({@[1], dir[g].mtime}), @[2] + dir[g].size>>]
    BY <1>4 DEF StatFile
  <2>2. ld[l].at = "stat" /\ UNCHANGED <<dir, edits, cache, begun>> /\ ld[l].got = Nothing0
    BY <1>0, <1>4 DEF StatFile, LoadsInv
  <2>3. /\ g \in RFile /\ dir[g].mtime \in Nat /\ dir[g].size \in Nat /\ dir[g].mtime <= edits
        /\ ld[l].key[1] \in Nat /\ ld[l].key[2] \in Nat /\ ld[l].key[1] <= edits /\ edits \in Nat
    BY <1>0, <2>1, LoadTyped DEF LoadsInv, DirInv
  <2> DEFINE top == Max({ld[l].key[1], dir[g].mtime})
             sum == ld[l].key[2] + dir[g].size
  <2>4. top \in Nat /\ top >= ld[l].key[1] /\ top >= dir[g].mtime /\ top <= edits
    BY <2>3, MaxOfTwo
  <2>5. sum \in Nat
    BY <2>3
  <2>6. /\ ld'[l] = [ld[l] EXCEPT !.todo = @ \ {g}, !.seen = @ \union (Present \cap {g}), !.key = <<top, sum>>]
        /\ \A m \in Loader : m # l => ld'[m] = ld[m]
        /\ ld' = [ld EXCEPT ![l] = ld'[l]]
    BY <1>0, <2>1 DEF LoadsInv
  <2> HIDE DEF top, sum
  <2>7. /\ ld'[l].at = "stat" /\ ld'[l].todo = ld[l].todo \ {g} /\ ld'[l].got = Nothing0
        /\ ld'[l].key = <<top, sum>>
    BY <1>0, <2>2, <2>6, LoadTyped
  <2>8. LoadsInv'
    <3>1. ld'[l] \in LoadState
      <4>1. ld'[l] = [at |-> ld[l].at, todo |-> ld[l].todo \ {g},
                      seen |-> ld[l].seen \union (Present \cap {g}), key |-> <<top, sum>>, got |-> ld[l].got]
        BY <1>0, <2>6, LoadTyped
      <4>2. <<top, sum>> \in Nat \X Nat /\ (ld[l].todo \ {g}) \subseteq RFile
            /\ ld[l].seen \union (Present \cap {g}) \subseteq RFile
        BY <1>0, <2>4, <2>5, LoadTyped DEF Present
      <4>3. ld[l].at \in {"idle", "stat", "read", "use"} /\ ld[l].todo \in SUBSET RFile
           /\ ld[l].seen \in SUBSET RFile /\ ld[l].key \in Nat \X Nat
           /\ ld[l].got \in [RFile -> 0 .. MaxRuleEdits]
        BY <1>0, LoadTyped
      <4> QED
        BY <4>1, <4>2, <4>3 DEF LoadState
    <3>2. ASSUME NEW m \in Loader
          PROVE  /\ ld'[m].key[1] <= edits /\ (ld'[m].at = "stat" => ld'[m].got = Nothing0)
                 /\ \A f \in RFile :
                      \/ ld'[m].at = "idle" \/ begun[m][f] <= ld'[m].key[1]
                      \/ ld'[m].at = "stat" /\ f \in ld'[m].todo
      <4>1. CASE m = l
        <5>1. ASSUME NEW f \in RFile, f \notin ld'[l].todo PROVE begun[l][f] <= top
          <6>1. begun[l][f] \in Nat /\ begun[l][f] <= dir[f].mtime
            BY <1>0, LoadTyped DEF LoadsInv
          <6>2. CASE f = g
            BY <2>3, <2>4, <6>1, <6>2
          <6>3. CASE f # g
            <7>1. f \notin ld[l].todo
              BY <2>7, <5>1, <6>3
            <7>2. begun[l][f] <= ld[l].key[1]
              BY <1>0, <2>2, <7>1 DEF LoadsInv
            <7> QED
              BY <2>3, <2>4, <6>1, <7>2
          <6> QED
            BY <6>2, <6>3
        <5> QED
          BY <2>4, <2>7, <4>1, <5>1
      <4>2. CASE m # l
        BY <1>0, <2>6, <4>2 DEF LoadsInv
      <4> QED
        BY <4>1, <4>2
    <3>3. ld' \in [Loader -> LoadState]
      BY <1>0, <2>6, <3>1 DEF LoadsInv
    <3> QED
      BY <1>0, <2>2, <3>2, <3>3 DEF LoadsInv, Nothing0
  <2>9. DirInv' /\ CacheTyped' /\ NotOlder(cache.key, cache.val)'
    BY <1>0, <2>2 DEF DirInv, CacheTyped, NotOlder, RuleInv
  <2>10. ASSUME NEW m \in Loader PROVE NotOlder(ld[m].key, ld[m].got)'
    <3>1. CASE m = l
      BY <2>7, <3>1 DEF NotOlder, Nothing0
    <3>2. CASE m # l
      BY <2>2, <2>6, <3>2 DEF NotOlder, RuleInv
    <3> QED
      BY <3>1, <3>2
  <2> QED
    BY <2>8, <2>9, <2>10 DEF RuleInv
<1>5. ASSUME NEW l \in Loader, TryCache(l) PROVE RuleInv'
  <2> DEFINE hit == cache.key = ld[l].key /\ ld[l].key # NoKey
  <2>1. /\ ld[l].at = "stat" /\ ld[l].todo = {} /\ UNCHANGED <<dir, edits, cache, begun>>
        /\ ld' = [ld EXCEPT ![l] = IF hit THEN [@ EXCEPT !.at = "use", !.got = cache.val]
                                   ELSE [@ EXCEPT !.at = "read", !.todo = ld[l].seen]]
    BY <1>5 DEF TryCache
  <2>2. /\ ld'[l].key = ld[l].key /\ ld'[l].at # "stat"
        /\ ld'[l] \in LoadState
        /\ (hit /\ ld'[l].got = cache.val) \/ ld'[l].got = ld[l].got
    <3>1. cache.val \in [RFile -> 0 .. MaxRuleEdits]
      BY <1>0 DEF CacheTyped
    <3>2. ld'[l] = IF hit THEN [ld[l] EXCEPT !.at = "use", !.got = cache.val]
                   ELSE [ld[l] EXCEPT !.at = "read", !.todo = ld[l].seen]
      BY <1>0, <2>1 DEF LoadsInv
    <3> HIDE DEF hit
    <3>0. ld[l].at \in {"idle", "stat", "read", "use"} /\ ld[l].todo \in SUBSET RFile
         /\ ld[l].seen \in SUBSET RFile /\ ld[l].key \in Nat \X Nat
         /\ ld[l].got \in [RFile -> 0 .. MaxRuleEdits]
      BY <1>0, LoadTyped
    <3>3. CASE hit
      <4>1. ld'[l] = [at |-> "use", todo |-> ld[l].todo, seen |-> ld[l].seen,
                      key |-> ld[l].key, got |-> cache.val]
        BY <1>0, <3>2, <3>3, LoadTyped
      <4> QED
        BY <3>0, <3>1, <3>3, <4>1 DEF LoadState
    <3>4. CASE ~hit
      <4>1. ld'[l] = [at |-> "read", todo |-> ld[l].seen, seen |-> ld[l].seen,
                      key |-> ld[l].key, got |-> ld[l].got]
        BY <1>0, <3>2, <3>4, LoadTyped
      <4> QED
        BY <3>0, <4>1 DEF LoadState
    <3> QED
      BY <3>3, <3>4
  <2>3. \A m \in Loader : m # l => ld'[m] = ld[m]
    BY <1>0, <2>1 DEF LoadsInv
  <2>4. LoadsInv'
    <3>1. \A f \in RFile : begun[l][f] <= ld[l].key[1]
      BY <1>0, <2>1 DEF LoadsInv
    <3>2. ld' \in [Loader -> LoadState]
      <4> HIDE DEF hit
      <4>1. ld' = [ld EXCEPT ![l] = ld'[l]]
        BY <1>0, <2>1 DEF LoadsInv
      <4> QED
        BY <1>0, <2>2, <4>1 DEF LoadsInv
    <3>3. ASSUME NEW m \in Loader
          PROVE  /\ ld'[m].key[1] <= edits /\ (ld'[m].at = "stat" => ld'[m].got = Nothing0)
                 /\ \A f \in RFile :
                      \/ ld'[m].at = "idle" \/ begun[m][f] <= ld'[m].key[1]
                      \/ ld'[m].at = "stat" /\ f \in ld'[m].todo
      <4>1. CASE m = l
        BY <1>0, <2>2, <3>1, <4>1 DEF LoadsInv
      <4>2. CASE m # l
        BY <1>0, <2>3, <4>2 DEF LoadsInv
      <4> QED
        BY <4>1, <4>2
    <3> QED
      BY <1>0, <2>1, <3>2, <3>3 DEF LoadsInv, Nothing0
  <2>5. DirInv' /\ CacheTyped' /\ NotOlder(cache.key, cache.val)'
    BY <1>0, <2>1 DEF DirInv, CacheTyped, NotOlder, RuleInv
  <2>6. ASSUME NEW m \in Loader PROVE NotOlder(ld[m].key, ld[m].got)'
    <3>1. CASE m = l
      <4>1. NotOlder(ld[l].key, ld[l].got) /\ NotOlder(cache.key, cache.val)
        BY DEF RuleInv
      <4>2. NotOlder(ld'[l].key, ld'[l].got)
        BY <2>2, <4>1
      <4> QED
        BY <2>1, <3>1, <4>2 DEF NotOlder
    <3>2. CASE m # l
      BY <2>1, <2>3, <3>2 DEF NotOlder, RuleInv
    <3> QED
      BY <3>1, <3>2
  <2> QED
    BY <2>4, <2>5, <2>6 DEF RuleInv
<1>6. ASSUME NEW l \in Loader, ReadFile(l) PROVE RuleInv'
  <2>1. PICK g \in ld[l].todo : ld' = [ld EXCEPT ![l].todo = @ \ {g}, ![l].got[g] = dir[g].rules]
    BY <1>6 DEF ReadFile
  <2>2. ld[l].at = "read" /\ UNCHANGED <<dir, edits, cache, begun>>
    BY <1>6 DEF ReadFile
  <2>3. g \in RFile /\ dir[g].rules \in 0 .. MaxRuleEdits
    <3>1. g \in RFile
      BY <1>0, <2>1, LoadTyped
    <3> QED
      BY <1>0, <3>1 DEF DirInv
  <2>4. /\ ld'[l] = [ld[l] EXCEPT !.todo = @ \ {g}, !.got = [@ EXCEPT ![g] = dir[g].rules]]
        /\ \A m \in Loader : m # l => ld'[m] = ld[m]
        /\ ld' = [ld EXCEPT ![l] = ld'[l]]
    BY <1>0, <2>1 DEF LoadsInv
  <2>5. /\ ld'[l].key = ld[l].key /\ ld'[l].at = "read"
        /\ ld'[l].got = [ld[l].got EXCEPT ![g] = dir[g].rules]
        /\ ld'[l] \in LoadState
    <3>1. ld'[l] = [at |-> ld[l].at, todo |-> ld[l].todo \ {g}, seen |-> ld[l].seen,
                    key |-> ld[l].key, got |-> [ld[l].got EXCEPT ![g] = dir[g].rules]]
      BY <1>0, <2>4, LoadTyped
    <3>2. [ld[l].got EXCEPT ![g] = dir[g].rules] \in [RFile -> 0 .. MaxRuleEdits]
      BY <1>0, <2>3, LoadTyped
    <3>3. ld[l].at \in {"idle", "stat", "read", "use"} /\ ld[l].todo \in SUBSET RFile
         /\ ld[l].seen \in SUBSET RFile /\ ld[l].key \in Nat \X Nat
         /\ ld[l].got \in [RFile -> 0 .. MaxRuleEdits]
      BY <1>0, LoadTyped
    <3> QED
      BY <2>2, <3>1, <3>2, <3>3 DEF LoadState
  <2>6. LoadsInv'
    <3>1. ld' \in [Loader -> LoadState]
      BY <1>0, <2>4, <2>5 DEF LoadsInv
    <3>2. ASSUME NEW m \in Loader
          PROVE  /\ ld'[m].key[1] <= edits /\ (ld'[m].at = "stat" => ld'[m].got = Nothing0)
                 /\ \A f \in RFile :
                      \/ ld'[m].at = "idle" \/ begun[m][f] <= ld'[m].key[1]
                      \/ ld'[m].at = "stat" /\ f \in ld'[m].todo
      <4>1. CASE m = l
        BY <1>0, <2>2, <2>5, <4>1 DEF LoadsInv
      <4>2. CASE m # l
        BY <1>0, <2>4, <4>2 DEF LoadsInv
      <4> QED
        BY <4>1, <4>2
    <3> QED
      BY <1>0, <2>2, <3>1, <3>2 DEF LoadsInv, Nothing0
  <2>7. DirInv' /\ CacheTyped' /\ NotOlder(cache.key, cache.val)'
    BY <1>0, <2>2 DEF DirInv, CacheTyped, NotOlder, RuleInv
  <2>8. ASSUME NEW m \in Loader PROVE NotOlder(ld[m].key, ld[m].got)'
    <3>1. CASE m = l
      <4>1. NotOlder(ld[l].key, ld[l].got)
        BY DEF RuleInv
      <4>2. \A k \in Loader : dir[g].rules = 0 \/ dir[g].rules >= begun[k][g]
        BY <1>0, <2>3 DEF LoadsInv
      <4>3. \A f \in RFile : ld'[l].got[f] = IF f = g THEN dir[g].rules ELSE ld[l].got[f]
        BY <1>0, <2>5, LoadTyped
      <4>4. NotOlder(ld'[l].key, ld'[l].got)
        BY <2>3, <2>5, <4>1, <4>2, <4>3 DEF NotOlder
      <4> QED
        BY <2>2, <3>1, <4>4 DEF NotOlder
    <3>2. CASE m # l
      BY <2>2, <2>4, <3>2 DEF NotOlder, RuleInv
    <3> QED
      BY <3>1, <3>2
  <2> QED
    BY <2>6, <2>7, <2>8 DEF RuleInv
<1>7. ASSUME NEW l \in Loader, Install(l) PROVE RuleInv'
  <2>1. /\ ld[l].at = "read" /\ UNCHANGED <<dir, edits, begun>>
        /\ cache' = Installed(l) /\ ld' = [ld EXCEPT ![l].at = "use"]
    BY <1>7 DEF Install
  <2>2. /\ ld'[l] = [ld[l] EXCEPT !.at = "use"]
        /\ \A m \in Loader : m # l => ld'[m] = ld[m]
        /\ ld' = [ld EXCEPT ![l] = ld'[l]]
    BY <1>0, <2>1 DEF LoadsInv
  <2>3. /\ ld'[l].key = ld[l].key /\ ld'[l].got = ld[l].got /\ ld'[l].at = "use"
        /\ ld'[l] \in LoadState
    <3>1. ld'[l] = [at |-> "use", todo |-> ld[l].todo, seen |-> ld[l].seen,
                    key |-> ld[l].key, got |-> ld[l].got]
      BY <1>0, <2>2, LoadTyped
    <3>2. ld[l].at \in {"idle", "stat", "read", "use"} /\ ld[l].todo \in SUBSET RFile
         /\ ld[l].seen \in SUBSET RFile /\ ld[l].key \in Nat \X Nat
         /\ ld[l].got \in [RFile -> 0 .. MaxRuleEdits]
      BY <1>0, LoadTyped
    <3> QED
      BY <3>1, <3>2 DEF LoadState
  <2>4. LoadsInv'
    <3>1. ld' \in [Loader -> LoadState]
      BY <1>0, <2>2, <2>3 DEF LoadsInv
    <3>2. ASSUME NEW m \in Loader
          PROVE  /\ ld'[m].key[1] <= edits /\ (ld'[m].at = "stat" => ld'[m].got = Nothing0)
                 /\ \A f \in RFile :
                      \/ ld'[m].at = "idle" \/ begun[m][f] <= ld'[m].key[1]
                      \/ ld'[m].at = "stat" /\ f \in ld'[m].todo
      <4>1. CASE m = l
        BY <1>0, <2>1, <2>3, <4>1 DEF LoadsInv
      <4>2. CASE m # l
        BY <1>0, <2>2, <4>2 DEF LoadsInv
      <4> QED
        BY <4>1, <4>2
    <3> QED
      BY <1>0, <2>1, <3>1, <3>2 DEF LoadsInv, Nothing0
  <2>5. \/ cache' = cache
        \/ cache' = [key |-> ld[l].key, val |-> ld[l].got]
    BY <2>1 DEF Installed, KeyOf
  <2>6. DirInv' /\ CacheTyped'
    BY <1>0, <2>1, <2>5, LoadTyped DEF DirInv, CacheTyped, LoadsInv
  <2>7. NotOlder(cache'.key, cache'.val)
    BY <2>5 DEF RuleInv
  <2>8. NotOlder(cache.key, cache.val)'
    BY <2>1, <2>7 DEF NotOlder
  <2>9. ASSUME NEW m \in Loader PROVE NotOlder(ld[m].key, ld[m].got)'
    <3>1. ld'[m].key = ld[m].key /\ ld'[m].got = ld[m].got
      BY <2>2, <2>3
    <3> QED
      BY <2>1, <3>1 DEF NotOlder, RuleInv
  <2> QED
    BY <2>4, <2>6, <2>8, <2>9 DEF RuleInv
<1>8. ASSUME NEW l \in Loader, UseIndex(l) PROVE RuleInv'
  <2>1. /\ ld' = [ld EXCEPT ![l] = IdleLoader] /\ UNCHANGED <<dir, edits, cache>>
        /\ begun' = [begun EXCEPT ![l] = Nothing0]
    BY <1>8 DEF UseIndex
  <2>2. Nothing0 \in [RFile -> 0 .. MaxRuleEdits] /\ \A f \in RFile : Nothing0[f] = 0
    BY DEF Nothing0
  <2>3. ld'[l] = IdleLoader /\ begun'[l] = Nothing0 /\ \A m \in Loader : m # l => ld'[m] = ld[m] /\ begun'[m] = begun[m]
    BY <1>0, <2>1 DEF LoadsInv
  <2>4. LoadsInv'
    <3>1. ld' \in [Loader -> LoadState]
      <4>1. IdleLoader \in LoadState
        BY <2>2 DEF LoadState, IdleLoader, NoKey
      <4> QED
        BY <1>0, <2>1, <4>1 DEF LoadsInv
    <3>2. begun' \in [Loader -> [RFile -> Nat]]
      BY <1>0, <2>1, <2>2 DEF LoadsInv
    <3>3. ASSUME NEW m \in Loader
          PROVE  /\ ld'[m].key[1] <= edits /\ (ld'[m].at = "stat" => ld'[m].got = Nothing0)
                 /\ \A f \in RFile :
                      /\ begun'[m][f] <= dir[f].mtime
                      /\ dir[f].rules = 0 \/ dir[f].rules >= begun'[m][f]
                      /\ \/ ld'[m].at = "idle" \/ begun'[m][f] <= ld'[m].key[1]
                         \/ ld'[m].at = "stat" /\ f \in ld'[m].todo
      <4>1. CASE m = l
        BY <1>0, <2>2, <2>3, <4>1 DEF IdleLoader, NoKey, DirInv
      <4>2. CASE m # l
        BY <1>0, <2>3, <4>2 DEF LoadsInv
      <4> QED
        BY <4>1, <4>2
    <3> QED
      BY <2>1, <3>1, <3>2, <3>3 DEF LoadsInv, Nothing0
  <2>5. DirInv' /\ CacheTyped'
    BY <1>0, <2>1 DEF DirInv, CacheTyped
  <2>6. begun' = [begun EXCEPT ![l] = begun'[l]] /\ (begun'[l] = Content \/ begun'[l] = Nothing0)
    BY <2>1, <2>3
  <2>7. NotOlder(cache.key, cache.val)'
    <3>1. NotOlder(cache.key, cache.val) /\ cache.key \in Nat \X Nat
          /\ cache.val \in [RFile -> 0 .. MaxRuleEdits] /\ cache' = cache /\ dir' = dir
      BY <1>0, <2>1 DEF CacheTyped, RuleInv
    <3> QED
      BY <3>1, <2>6, KeptByHistory DEF NotOlder
  <2>8. ASSUME NEW m \in Loader PROVE NotOlder(ld[m].key, ld[m].got)'
    <3>1. CASE m = l
      BY <2>2, <2>3, <3>1 DEF NotOlder, IdleLoader
    <3>2. CASE m # l
      <4>1. NotOlder(ld[m].key, ld[m].got) /\ ld[m].key \in Nat \X Nat
            /\ ld[m].got \in [RFile -> 0 .. MaxRuleEdits] /\ ld'[m] = ld[m] /\ dir' = dir
        BY <1>0, <2>1, <2>3, <3>2, LoadTyped DEF RuleInv
      <4> QED
        BY <4>1, <2>6, KeptByHistory DEF NotOlder
    <3> QED
      BY <3>1, <3>2
  <2> QED
    BY <2>4, <2>5, <2>7, <2>8 DEF RuleInv
<1>9. CASE UNCHANGED ruleVars
  <2>1. UNCHANGED <<dir, edits, cache, ld, begun>>
    BY <1>9 DEF ruleVars
  <2>2. DirInv' /\ CacheTyped' /\ LoadsInv'
    BY <1>0, <2>1 DEF DirInv, CacheTyped, LoadsInv, Nothing0
  <2>3. NotOlder(cache.key, cache.val)' /\ \A l \in Loader : NotOlder(ld[l].key, ld[l].got)'
    BY <2>1 DEF RuleInv, NotOlder
  <2> QED
    BY <2>2, <2>3 DEF RuleInv
<1> QED
  BY <1>1, <1>2, <1>3, <1>4, <1>5, <1>6, <1>7, <1>8, <1>9 DEF RuleNext

-----------------------------------------------------------------------------
(* The rules learned from the phone's traffic.                             *)

Candidate == [uids : SUBSET Uid, win : 0 .. PromoteAt, last : Nat, learned : BOOLEAN]
Rule == [uid : Uid \union {0}, src : {"-", "auto", "manual"}]

FlyTyped ==
  /\ fwDay \in 0 .. MaxFwDay /\ unmatched \subseteq Apex \X Uid /\ subSeen \subseteq Uid
  /\ acc \in [Apex -> Candidate] /\ accFile \in [Apex -> Candidate]
  /\ prom \in [Apex -> Rule] /\ promFile \in [Apex -> Rule]
  /\ ruleHits \in [Uid -> 0 .. ExpandHits] /\ expd \in BOOLEAN /\ expFile \in BOOLEAN
  /\ lostProm \in BOOLEAN /\ tick2.on \in BOOLEAN
  /\ userSaid \in [ok : SUBSET Apex, no : SUBSET Apex, excl : SUBSET Uid, auto : BOOLEAN]
  /\ exMem \subseteq Uid /\ unsaved \subseteq Apex /\ barred \subseteq Apex /\ second \subseteq Apex

\* What is on disk of an apex is part of what is in memory, or will not survive the
\* loading.
Older(x) == \/ fwDay - accFile[x].last > MaxAge
            \/ accFile[x].last <= acc[x].last /\ accFile[x].uids \subseteq acc[x].uids

\* While a rule is on disk, the apex is not observed: its record stays single, and a
\* rule that memory has given up is not made again.
Frozen(x) ==
  /\ Cardinality(acc[x].uids) <= 1
  /\ x \notin unsaved => acc[x].uids \subseteq {promFile[x].uid}
  /\ x \in Ruled(prom) => prom[x] = promFile[x]
  /\ x \notin Ruled(prom) => acc[x].learned \/ acc[x].uids = {}

FlyKept ==
  /\ \A x \in Apex : Older(x) /\ accFile[x].last <= fwDay /\ acc[x].last <= fwDay
  /\ \A x \in Ruled(promFile) : Frozen(x)
  /\ \A x \in Apex \ unsaved : prom[x] = promFile[x]
  /\ \A x \in barred : acc[x].learned /\ x \notin Ruled(prom)
  /\ unsaved \subseteq Ruled(prom) \union Ruled(promFile)
  /\ Cardinality(Ruled(promFile)) <= MaxPromoted /\ Cardinality(Ruled(prom)) <= MaxPromoted
  /\ PromotedSingle /\ ConduitOut /\ RulesOnDisk

FlyInv == FlyTyped /\ FlyKept

LEMMA FlyParams ==
  /\ PromoteAt \in Nat /\ SharedAt \in Nat /\ ConduitAt \in Nat /\ MaxPromoted \in Nat /\ ExpandHits \in Nat
  /\ PromoteAt > 0 /\ ConduitAt > 0 /\ MaxPromoted > 0 /\ ExpandHits > 0
  /\ MaxAge \in Nat /\ MaxFwDay \in Nat /\ IsFiniteSet(Apex) /\ IsFiniteSet(Uid)
BY FlywheelAssumption

\* Sets of applications and of apexes are finite, and a part is no larger.
LEMMA FewUids ==
  ASSUME NEW S \in SUBSET Uid, NEW T \in SUBSET S
  PROVE  /\ IsFiniteSet(S) /\ Cardinality(S) \in Nat /\ Cardinality(T) \in Nat
         /\ Cardinality(T) <= Cardinality(S)
BY FlyParams, FS_Subset, FS_CardinalityType
LEMMA FewApexes ==
  ASSUME NEW S \in SUBSET Apex, NEW T \in SUBSET S
  PROVE  /\ Cardinality(S) \in Nat /\ Cardinality(T) \in Nat /\ Cardinality(T) <= Cardinality(S)
BY FlyParams, FS_Subset, FS_CardinalityType
LEMMA TheUid ==
  ASSUME NEW S \in SUBSET Uid, Cardinality(S) = 1
  PROVE  (CHOOSE u \in S : TRUE) \in Uid /\ S = {CHOOSE u \in S : TRUE}
<1>1. PICK u : S = {u}
  BY FewUids, FS_Singleton
<1> QED
  BY <1>1

\* An application that has fewer apexes is no conduit where it was none.
LEMMA ConduitFewer ==
  ASSUME NEW c, NEW d, NEW u, \A x \in Apex : d[x].uids \subseteq c[x].uids, Conduit(d, u)
  PROVE  Conduit(c, u)
<1>1. {x \in Apex : u \in d[x].uids} \in SUBSET {x \in Apex : u \in c[x].uids}
  OBVIOUS
<1> QED
  BY <1>1, FewApexes, FlyParams DEF Conduit

LEMMA AgedAt ==
  ASSUME NEW c \in [Apex -> Candidate]
  PROVE  /\ Aged(c) \in [Apex -> Candidate] /\ NoCandidate \in Candidate
         /\ \A x \in Apex : Aged(c)[x] = IF fwDay - c[x].last > MaxAge THEN NoCandidate ELSE c[x]
<1>1. NoCandidate \in Candidate
  BY FlyParams DEF NoCandidate, Candidate
<1> QED
  BY <1>1 DEF Aged

\* What a tick's observations make of a record.
LEMMA ObservedAt ==
  ASSUME FlyInv
  PROVE  /\ Observed(unmatched) \in [Apex -> Candidate]
         /\ \A x \in Apex :
              /\ Observed(unmatched)[x].last <= fwDay
              /\ x \in Ruled(promFile) => Observed(unmatched)[x] \in {NoCandidate, acc[x]}
              /\ \/ Observed(unmatched)[x] = NoCandidate /\ fwDay - acc[x].last > MaxAge
                 \/ /\ acc[x].uids \subseteq Observed(unmatched)[x].uids
                    /\ acc[x].last <= Observed(unmatched)[x].last
                    /\ Observed(unmatched)[x].learned = acc[x].learned
<1> DEFINE us(x) == {u \in Uid : <<x, u>> \in Folded(unmatched)}
           b == [x \in Apex |-> IF us(x) = {} THEN acc[x]
                   ELSE [acc[x] EXCEPT !.uids = @ \union us(x), !.last = fwDay,
                                       !.win = IF @ < PromoteAt THEN @ + 1 ELSE @]]
<1>1. Observed(unmatched) = Aged(b)
  BY DEF Observed
<1>2. acc \in [Apex -> Candidate] /\ fwDay \in Nat /\ \A x \in Apex : acc[x].last \in Nat /\ acc[x].last <= fwDay
  BY FlyParams DEF FlyInv, FlyTyped, FlyKept, Candidate
<1>3. ASSUME NEW x \in Apex
      PROVE  /\ b[x] \in Candidate /\ b[x].last \in Nat /\ b[x].last <= fwDay /\ acc[x].last <= b[x].last
             /\ acc[x].uids \subseteq b[x].uids /\ b[x].learned = acc[x].learned
             /\ b[x] = acc[x] \/ b[x].last = fwDay
             /\ x \in Ruled(promFile) => b[x] = acc[x]
  <2>1. CASE us(x) = {}
    BY <1>2, <2>1
  <2>2. CASE us(x) # {}
    <3>1. acc[x] \in Candidate /\ us(x) \subseteq Uid
      BY <1>2
    <3>2. x \notin Ruled(promFile)
      BY <2>2 DEF Folded
    <3>3. b[x] = [uids |-> acc[x].uids \union us(x), win |-> IF acc[x].win < PromoteAt THEN acc[x].win + 1 ELSE acc[x].win,
                  last |-> fwDay, learned |-> acc[x].learned]
      BY <2>2, <3>1 DEF Candidate
    <3> HIDE DEF us, b
    <3>4. acc[x].uids \in SUBSET Uid /\ acc[x].win \in 0 .. PromoteAt /\ acc[x].learned \in BOOLEAN
      BY <3>1 DEF Candidate
    <3>5. (IF acc[x].win < PromoteAt THEN acc[x].win + 1 ELSE acc[x].win) \in 0 .. PromoteAt
      BY <3>4, FlyParams
    <3>6. b[x] \in Candidate
      BY <3>1, <3>3, <3>4, <3>5, <1>2 DEF Candidate
    <3> QED
      BY <1>2, <3>2, <3>3, <3>6
  <2> QED
    BY <2>1, <2>2
<1>4. b \in [Apex -> Candidate]
  <2>1. b = [x \in Apex |-> b[x]]
    OBVIOUS
  <2> HIDE DEF b
  <2> QED
    BY <1>3, <2>1
<1> HIDE DEF b
<1>5. Aged(b) \in [Apex -> Candidate] /\ \A x \in Apex : Aged(b)[x] = IF fwDay - b[x].last > MaxAge THEN NoCandidate ELSE b[x]
  BY <1>4, AgedAt
<1>6. ASSUME NEW x \in Apex
      PROVE  /\ Aged(b)[x].last <= fwDay
             /\ x \in Ruled(promFile) => Aged(b)[x] \in {NoCandidate, acc[x]}
             /\ \/ Aged(b)[x] = NoCandidate /\ fwDay - acc[x].last > MaxAge
                \/ /\ acc[x].uids \subseteq Aged(b)[x].uids
                   /\ acc[x].last <= Aged(b)[x].last
                   /\ Aged(b)[x].learned = acc[x].learned
  <2>1. CASE fwDay - b[x].last > MaxAge
    <3>1. b[x] = acc[x]
      BY <1>2, <1>3, <2>1, FlyParams
    <3> QED
      BY <1>2, <1>5, <2>1, <3>1, FlyParams DEF NoCandidate
  <2>2. CASE ~(fwDay - b[x].last > MaxAge)
    BY <1>3, <1>5, <2>2
  <2> QED
    BY <2>1, <2>2
<1> QED
  BY <1>1, <1>5, <1>6

\* Marking a record changes nothing but the mark.
LEMMA LearnedAt ==
  ASSUME NEW c \in [Apex -> Candidate], NEW out
  PROVE  /\ Learned(c, out) \in [Apex -> Candidate]
         /\ \A x \in Apex :
              /\ Learned(c, out)[x].uids = c[x].uids /\ Learned(c, out)[x].last = c[x].last
              /\ c[x].learned => Learned(c, out)[x].learned
              /\ x \in out => Learned(c, out)[x].learned \/ c[x] = NoCandidate
              /\ Learned(c, out)[x] = NoCandidate <=> c[x] = NoCandidate
<1>1. ASSUME NEW x \in Apex
      PROVE  /\ Learned(c, out)[x] \in Candidate
             /\ Learned(c, out)[x].uids = c[x].uids /\ Learned(c, out)[x].last = c[x].last
             /\ c[x].learned => Learned(c, out)[x].learned
             /\ x \in out => Learned(c, out)[x].learned \/ c[x] = NoCandidate
             /\ Learned(c, out)[x] = NoCandidate <=> c[x] = NoCandidate
  <2>1. c[x] \in Candidate
    OBVIOUS
  <2>2. CASE x \in out /\ c[x] # NoCandidate
    <3>1. Learned(c, out)[x] = [uids |-> c[x].uids, win |-> c[x].win, last |-> c[x].last, learned |-> TRUE]
      BY <2>1, <2>2 DEF Learned, Candidate
    <3> QED
      BY <2>1, <2>2, <3>1 DEF Candidate, NoCandidate
  <2>3. CASE ~(x \in out /\ c[x] # NoCandidate)
    BY <2>1, <2>3 DEF Learned
  <2> QED
    BY <2>2, <2>3
<1>2. Learned(c, out) = [x \in Apex |-> Learned(c, out)[x]]
  BY DEF Learned
<1> QED
  BY <1>1, <1>2

\* A promoted candidate has one application and is not marked.
LEMMA TierSingle ==
  ASSUME NEW c \in Candidate, NEW no, NEW x
  PROVE  /\ Tier(c, no, x) \in {"high", "med"} => Cardinality(c.uids) = 1 /\ ~c.learned
         /\ c.uids = {} => Tier(c, no, x) \notin {"high", "med"}
         /\ Cardinality(c.uids) \in Nat
<1>1. c.uids \in SUBSET Uid /\ Cardinality({}) = 0
  BY FS_EmptySet DEF Candidate
<1>2. Cardinality(c.uids) \in Nat
  BY <1>1, FewUids
<1> QED
  BY <1>1, <1>2, FlyParams DEF Tier

LEMMA FlySays ==
  ASSUME FlyInv
  PROVE  FlyTypeOK /\ PromotedSingle /\ ConduitOut /\ DemotedStaysOut /\ RulesOnDisk
<1>1. \A x \in Apex : acc[x] \in Candidate /\ prom[x] \in Rule
  BY DEF FlyInv, FlyTyped
<1>2. FlyTypeOK
  BY <1>1 DEF FlyInv, FlyTyped, FlyKept, FlyTypeOK, Candidate, Rule
<1> QED
  BY <1>2 DEF FlyInv, FlyKept, DemotedStaysOut

LEMMA FlyStart == FlyInit => FlyInv
<1> SUFFICES ASSUME FlyInit PROVE FlyInv
  OBVIOUS
<1>1. NoCandidate \in Candidate /\ NoRule \in Rule
  BY FlyParams DEF NoCandidate, Candidate, NoRule, Rule
<1>2. /\ acc = [x \in Apex |-> NoCandidate] /\ accFile = acc
      /\ prom = [x \in Apex |-> NoRule] /\ promFile = prom
      /\ unsaved = {} /\ barred = {} /\ fwDay = 0
  BY DEF FlyInit
<1>3. FlyTyped
  <2>1. acc \in [Apex -> Candidate] /\ prom \in [Apex -> Rule]
    BY <1>1, <1>2
  <2>2. /\ fwDay \in 0 .. MaxFwDay /\ ruleHits \in [Uid -> 0 .. ExpandHits]
        /\ userSaid \in [ok : SUBSET Apex, no : SUBSET Apex, excl : SUBSET Uid, auto : BOOLEAN]
    BY FlyParams DEF FlyInit
  <2> QED
    BY <1>2, <2>1, <2>2 DEF FlyInit, FlyTyped
<1>4. Ruled(prom) = {} /\ Cardinality({}) = 0 /\ \A x \in Apex : acc[x].last = 0
  BY <1>2, FS_EmptySet DEF Ruled, NoCandidate
<1>5. FlyKept
  BY <1>2, <1>4, FlyParams DEF FlyKept, Older, PromotedSingle, ConduitOut, RulesOnDisk
<1> QED
  BY <1>3, <1>5 DEF FlyInv

\* The tick: fold in, demote, promote and write.
LEMMA TickKept == ASSUME FlyInv, ExpanderTick PROVE FlyInv'
<1> DEFINE c0 == Observed(unmatched)
           first == ByExclusion(c0)
           c1 == Learned(c0, first)
           left == Ruled(prom) \ first
           again == ByContradiction(c1, left)
           want == Eligible(c1, left)
           c2 == Learned(c1, again)
<1>1. PICK fresh \in SUBSET want :
        LET p2 == [x \in Apex |-> IF x \in fresh THEN NewRule(c1, x)
                                  ELSE IF x \in first \union again THEN NoRule ELSE prom[x]]
            write == RunChanged(first, again, fresh)
        IN /\ Cardinality(Ruled(p2)) <= MaxPromoted \/ fresh = {}
           /\ acc' = c2 /\ prom' = p2
           /\ \E ok \in BOOLEAN :
                /\ promFile' = IF write /\ ok THEN p2 ELSE promFile
                /\ lostProm' = IF write THEN ~ok ELSE lostProm
           /\ unsaved' = (unsaved \union {x \in Apex : p2[x] # promFile'[x]})
                            \intersect (Ruled(p2) \union Ruled(promFile'))
           /\ barred' = ((barred \ {x \in Apex : c2[x] = NoCandidate})
                           \union {x \in first \union again : c2[x] # NoCandidate})
  BY DEF ExpanderTick, ProcessCandidates
<1>2. /\ acc' = c2
      /\ Cardinality(Ruled(prom')) <= MaxPromoted \/ fresh = {}
      /\ prom' = [x \in Apex |-> IF x \in fresh THEN NewRule(c1, x)
                                 ELSE IF x \in first \union again THEN NoRule ELSE prom[x]]
      /\ unsaved' = (unsaved \union {x \in Apex : prom'[x] # promFile'[x]})
                       \intersect (Ruled(prom') \union Ruled(promFile'))
      /\ barred' = ((barred \ {x \in Apex : c2[x] = NoCandidate})
                      \union {x \in first \union again : c2[x] # NoCandidate})
  BY <1>1
<1>3. \/ promFile' = prom' /\ lostProm' = FALSE
      \/ promFile' = promFile /\ lostProm' = TRUE
      \/ promFile' = promFile /\ lostProm' = lostProm /\ first \union again \union fresh = {}
  BY <1>1 DEF RunChanged
<1>4. /\ unmatched' = {} /\ subSeen' = {} /\ second' = second \intersect Ruled(prom') /\ tick2'.on = TRUE
      /\ UNCHANGED <<fwDay, accFile, ruleHits, expd, expFile, userSaid, exMem>>
  BY DEF ExpanderTick
\* The accumulator.
<1>5. /\ c0 \in [Apex -> Candidate] /\ c1 \in [Apex -> Candidate] /\ c2 \in [Apex -> Candidate]
      /\ \A x \in Apex :
           /\ c1[x].uids = c0[x].uids /\ c2[x].uids = c0[x].uids /\ c2[x].last = c0[x].last
           /\ c0[x].learned => c1[x].learned
           /\ c1[x].learned => c2[x].learned
           /\ x \in first => c1[x].learned \/ c0[x] = NoCandidate
           /\ x \in again => c2[x].learned \/ c0[x] = NoCandidate
           /\ c1[x] = NoCandidate <=> c0[x] = NoCandidate
           /\ c2[x] = NoCandidate <=> c0[x] = NoCandidate
  <2>1. c0 \in [Apex -> Candidate]
    BY ObservedAt
  <2> HIDE DEF c0, first
  <2>2. /\ c1 \in [Apex -> Candidate]
        /\ \A x \in Apex :
              /\ c1[x].uids = c0[x].uids /\ c1[x].last = c0[x].last
              /\ c0[x].learned => c1[x].learned
              /\ x \in first => c1[x].learned \/ c0[x] = NoCandidate
              /\ c1[x] = NoCandidate <=> c0[x] = NoCandidate
    BY <2>1, LearnedAt
  <2> HIDE DEF c1, again
  <2>3. /\ c2 \in [Apex -> Candidate]
        /\ \A x \in Apex :
              /\ c2[x].uids = c1[x].uids /\ c2[x].last = c1[x].last
              /\ c1[x].learned => c2[x].learned
              /\ x \in again => c2[x].learned \/ c1[x] = NoCandidate
              /\ c2[x] = NoCandidate <=> c1[x] = NoCandidate
    BY <2>2, LearnedAt
  <2> QED
    BY <2>1, <2>2, <2>3
<1>6. \A x \in Apex :
        /\ c0[x].last <= fwDay
        /\ x \in Ruled(promFile) => c0[x] \in {NoCandidate, acc[x]}
        /\ \/ c0[x] = NoCandidate /\ fwDay - acc[x].last > MaxAge
           \/ acc[x].uids \subseteq c0[x].uids /\ acc[x].last <= c0[x].last /\ c0[x].learned = acc[x].learned
  BY ObservedAt
<1>7. NoCandidate.uids = {} /\ Cardinality({}) = 0 /\ NoRule.src = "-"
  BY FS_EmptySet DEF NoCandidate, NoRule
\* Who goes and who comes.
<1>8. /\ first \subseteq Ruled(prom) /\ again \subseteq Ruled(prom) \ first /\ fresh \subseteq Apex
      /\ fresh \intersect left = {} /\ Ruled(prom) \subseteq Apex
  BY DEF ByExclusion, ByContradiction, Eligible, Ruled
<1>9. ASSUME NEW x \in left, x \notin again PROVE Cardinality(c0[x].uids) <= 1
  <2>1. x \in Apex /\ Cardinality(c1[x].uids) \in Nat
    BY <1>5, <1>8, TierSingle
  <2>2. c1[x] = NoCandidate \/ ~(Cardinality(c1[x].uids) > 1)
    BY <1>9 DEF ByContradiction
  <2>3. c1[x].uids = c0[x].uids
    BY <1>5, <2>1
  <2> HIDE DEF c0, c1
  <2>4. Cardinality(c1[x].uids) <= 1
    BY <1>7, <2>1, <2>2
  <2> QED
    BY <2>3, <2>4
<1>10. ASSUME NEW x \in left
       PROVE  prom[x].src = "auto" => ~Conduit(c0, prom[x].uid)
  BY <1>10 DEF ByExclusion
<1>11. ASSUME NEW x \in fresh
       PROVE  /\ Cardinality(c0[x].uids) = 1 /\ ~c1[x].learned /\ c0[x].uids # {}
              /\ prom'[x] \in Rule /\ prom'[x] # NoRule
              /\ c0[x].uids = {prom'[x].uid}
              /\ prom'[x].src = "auto" => ~Conduit(c1, prom'[x].uid)
  <2>1. x \in Apex /\ Tier(c1[x], userSaid.no, x) \in {"high", "med"}
    BY <1>8 DEF Eligible
  <2>2. c1[x] \in Candidate /\ c1[x].uids = c0[x].uids
    BY <1>5, <2>1
  <2> HIDE DEF c0, c1
  <2>3. Cardinality(c1[x].uids) = 1 /\ ~c1[x].learned
    BY <2>1, <2>2, TierSingle
  <2>4. (CHOOSE u \in c1[x].uids : TRUE) \in Uid /\ c1[x].uids = {CHOOSE u \in c1[x].uids : TRUE}
    BY <2>2, <2>3, TheUid DEF Candidate
  <2>5. prom'[x] = [uid |-> CHOOSE u \in c1[x].uids : TRUE, src |-> IF x \in userSaid.ok THEN "manual" ELSE "auto"]
    BY <1>2, <2>1 DEF NewRule
  <2>6. x \in userSaid.ok \/ ~Conduit(c1, CHOOSE u \in c1[x].uids : TRUE)
    BY DEF Eligible
  <2>7. prom'[x].uid = (CHOOSE u \in c1[x].uids : TRUE) /\ prom'[x].src = (IF x \in userSaid.ok THEN "manual" ELSE "auto")
    BY <2>5
  <2>8. prom'[x] \in Rule
    BY <2>4, <2>5 DEF Rule
  <2> QED
    BY <1>7, <2>2, <2>3, <2>4, <2>6, <2>7, <2>8
<1> HIDE DEF c0, c1, c2, first, again, want
<1>12. \A x \in Apex : /\ x \in fresh => x \in Ruled(prom')
                       /\ x \notin fresh /\ x \in first \union again => prom'[x] = NoRule
                       /\ x \notin fresh /\ x \notin first \union again => prom'[x] = prom[x]
  BY <1>2, <1>11 DEF Ruled
<1>13. \A x \in Ruled(prom') : x \in Apex /\ (x \in fresh \/ (x \in left /\ x \notin again /\ prom'[x] = prom[x]))
  BY <1>8, <1>12 DEF Ruled
<1>14. FlyTyped'
  <2>1. prom' \in [Apex -> Rule]
    <3>1. ASSUME NEW x \in Apex PROVE prom'[x] \in Rule
      <4>1. NoRule \in Rule /\ prom[x] \in Rule
        BY DEF NoRule, Rule, FlyInv, FlyTyped
      <4> QED
        BY <4>1, <1>11, <1>12
    <3> QED
      BY <1>2, <3>1
  <2>2. promFile' \in [Apex -> Rule] /\ lostProm' \in BOOLEAN
    BY <1>3, <2>1 DEF FlyInv, FlyTyped
  <2>3. unsaved' \subseteq Apex /\ barred' \subseteq Apex /\ second' \subseteq Apex
    BY <1>2, <1>4, <1>8 DEF FlyInv, FlyTyped, Ruled
  <2> QED
    BY <1>2, <1>4, <1>5, <2>1, <2>2, <2>3 DEF FlyInv, FlyTyped
<1>15. ASSUME NEW x \in Apex PROVE (Older(x) /\ accFile[x].last <= fwDay /\ acc[x].last <= fwDay)'
  <2>1. /\ acc'[x].uids = c0[x].uids /\ acc'[x].last = c0[x].last /\ accFile' = accFile /\ fwDay' = fwDay
        /\ c0[x].last <= fwDay
    BY <1>2, <1>4, <1>5, <1>6
  <2>2. Older(x) /\ accFile[x].last <= fwDay
    BY DEF FlyInv, FlyKept
  <2>3. accFile[x].last \in Nat /\ acc[x].last \in Nat /\ c0[x].last \in Nat /\ fwDay \in Nat
    BY <1>5 DEF FlyInv, FlyTyped, Candidate
  <2>4. \/ fwDay - accFile[x].last > MaxAge
        \/ accFile[x].last <= c0[x].last /\ accFile[x].uids \subseteq c0[x].uids
    BY <1>6, <2>2, <2>3, FlyParams DEF Older
  <2> QED
    BY <2>1, <2>2, <2>4 DEF Older
\* An apex with a rule on disk is not promoted: it is marked, or was not observed.
<1>16. ASSUME NEW x \in Ruled(promFile), x \in Apex
       PROVE  /\ x \notin fresh /\ c0[x].uids \subseteq acc[x].uids
              /\ x \notin Ruled(prom) => c0[x].learned \/ c0[x].uids = {}
              /\ Cardinality(c0[x].uids) <= 1
  <2>1. Frozen(x)
    BY DEF FlyInv, FlyKept
  <2>2. c0[x] = NoCandidate \/ c0[x] = acc[x]
    BY <1>6, <1>16
  <2>3. x \notin Ruled(prom) => c0[x].learned \/ c0[x].uids = {}
    BY <2>1, <2>2, <1>7 DEF Frozen
  <2>4. x \in Ruled(prom) /\ x \in fresh => x \in first
    BY <1>8, <1>16
  <2>5. x \notin fresh
    BY <1>5, <1>7, <1>11, <2>3, <2>4, <1>16
  <2>6. Cardinality(c0[x].uids) <= 1
    BY <1>7, <2>1, <2>2 DEF Frozen
  <2> QED
    BY <1>7, <2>2, <2>3, <2>5, <2>6
<1>17. \A x \in Apex \ unsaved' : prom'[x] = promFile'[x]
  BY <1>2 DEF Ruled
<1>18. unsaved' \subseteq Ruled(prom') \union Ruled(promFile')
  BY <1>2
<1>19. ASSUME NEW x \in Ruled(prom')
       PROVE  /\ Cardinality(acc'[x].uids) <= 1
              /\ x \notin unsaved' => acc'[x].uids \subseteq {prom'[x].uid}
              /\ prom'[x].src = "auto" => ~Conduit(acc', prom'[x].uid)
  <2>1. x \in Apex /\ acc'[x].uids = c0[x].uids
    BY <1>2, <1>5, <1>13
  <2>2. CASE x \in fresh
    <3>1. /\ Cardinality(c0[x].uids) = 1 /\ c0[x].uids = {prom'[x].uid}
          /\ prom'[x].src = "auto" => ~Conduit(c1, prom'[x].uid)
      BY <1>11, <2>2
    <3>2. Conduit(acc', prom'[x].uid) => Conduit(c1, prom'[x].uid)
      BY <1>2, <1>5, ConduitFewer
    <3> QED
      BY <2>1, <3>1, <3>2
  <2>3. CASE x \in left /\ x \notin again /\ prom'[x] = prom[x]
    <3>1. Cardinality(c0[x].uids) <= 1
      BY <1>9, <2>3
    <3>2. Conduit(acc', prom'[x].uid) => Conduit(c0, prom'[x].uid)
      BY <1>2, <1>5, ConduitFewer
    <3>3. prom[x].src = "auto" => ~Conduit(c0, prom[x].uid)
      BY <1>10, <2>3
    <3>4. ASSUME x \notin unsaved' PROVE c0[x].uids \subseteq {prom[x].uid}
      <4>1. x \notin unsaved /\ x \in Ruled(prom)
        BY <1>2, <1>19, <2>3, <3>4
      <4>2. prom[x] = promFile[x] /\ acc[x].uids \subseteq {prom[x].uid}
        BY <2>1, <4>1 DEF FlyInv, FlyKept, PromotedSingle
      <4>3. x \in Ruled(promFile)
        BY <2>1, <4>1, <4>2 DEF Ruled
      <4> QED
        BY <1>16, <2>1, <4>2, <4>3
    <3> QED
      BY <2>1, <2>3, <3>1, <3>2, <3>3, <3>4
  <2> QED
    BY <1>13, <2>2, <2>3
<1>20. PromotedSingle' /\ ConduitOut'
  BY <1>19 DEF PromotedSingle, ConduitOut, Ruled, Conduit
<1>21. RulesOnDisk'
  <2>1. CASE first \union again \union fresh = {} /\ promFile' = promFile /\ lostProm' = lostProm
    <3>1. prom' = prom
      <4>1. \A x \in Apex : prom'[x] = prom[x]
        BY <1>12, <2>1
      <4> QED
        BY <4>1, <1>14 DEF FlyInv, FlyTyped
    <3> QED
      BY <2>1, <3>1 DEF FlyInv, FlyKept, RulesOnDisk
  <2> QED
    BY <1>3, <2>1 DEF RulesOnDisk
<1>22. ASSUME NEW x \in Ruled(promFile') PROVE Frozen(x)'
  <2>1. CASE promFile' = prom'
    BY <1>19, <2>1 DEF Frozen, Ruled
  <2>2. CASE promFile' = promFile
    <3>1. x \in Apex /\ x \in Ruled(promFile) /\ acc'[x].uids = c0[x].uids /\ acc'[x] = c2[x]
      BY <1>2, <1>5, <2>2 DEF Ruled
    <3>2. Frozen(x)
      BY <3>1 DEF FlyInv, FlyKept
    <3>3. Cardinality(acc'[x].uids) <= 1
      BY <1>16, <3>1
    <3>4. x \notin unsaved' => acc'[x].uids \subseteq {promFile'[x].uid}
      BY <1>2, <1>16, <2>2, <3>1, <3>2 DEF Frozen
    <3>5. x \in Ruled(prom') => prom'[x] = promFile'[x]
      <4>1. ASSUME x \in Ruled(prom') PROVE x \in Ruled(prom) /\ prom'[x] = prom[x]
        BY <1>13, <1>16, <3>1, <4>1
      <4> QED
        BY <2>2, <3>2, <4>1 DEF Frozen
    <3>6. x \notin Ruled(prom') => acc'[x].learned \/ acc'[x].uids = {}
      <4>1. CASE x \in first \union again
        BY <1>5, <1>7, <3>1, <4>1
      <4>2. CASE x \notin Ruled(prom)
        BY <1>5, <1>16, <3>1, <4>2
      <4>3. ASSUME x \notin first \union again, x \in Ruled(prom) PROVE x \in Ruled(prom')
        BY <1>12, <1>16, <3>1, <4>3 DEF Ruled
      <4> QED
        BY <4>1, <4>2, <4>3
    <3> QED
      BY <3>3, <3>4, <3>5, <3>6 DEF Frozen, Ruled
  <2> QED
    BY <1>3, <2>1, <2>2
<1>23. ASSUME NEW x \in barred' PROVE acc'[x].learned /\ x \notin Ruled(prom')
  <2>1. c2[x] # NoCandidate /\ (x \in barred \/ x \in first \union again) /\ x \in Apex
    BY <1>2, <1>8 DEF FlyInv, FlyTyped
  <2>2. c0[x] # NoCandidate /\ c1[x] # NoCandidate /\ acc'[x] = c2[x]
    BY <1>2, <1>5, <2>1
  <2>3. CASE x \in barred
    <3>1. acc[x].learned /\ x \notin Ruled(prom)
      BY <2>3 DEF FlyInv, FlyKept
    <3>2. c0[x].learned
      BY <1>6, <2>1, <2>2, <3>1
    <3>3. c1[x].learned /\ c2[x].learned
      BY <1>5, <2>1, <3>2
    <3> QED
      BY <1>11, <1>13, <2>2, <3>1, <3>3
  <2>4. CASE x \in first
    <3>1. c1[x].learned /\ c2[x].learned
      BY <1>5, <2>1, <2>2, <2>4
    <3> QED
      BY <1>11, <1>13, <2>2, <2>4, <3>1
  <2>5. CASE x \in again
    <3>1. c2[x].learned /\ x \in left
      BY <1>5, <1>8, <2>1, <2>2, <2>5
    <3> QED
      BY <1>8, <1>13, <2>2, <2>5, <3>1
  <2> QED
    BY <2>1, <2>3, <2>4, <2>5
<1>24. Cardinality(Ruled(prom')) <= MaxPromoted /\ Cardinality(Ruled(promFile')) <= MaxPromoted
  <2>1. Cardinality(Ruled(prom)) <= MaxPromoted /\ Cardinality(Ruled(promFile)) <= MaxPromoted
    BY DEF FlyInv, FlyKept
  <2>2. CASE fresh = {}
    <3>1. Ruled(prom') \in SUBSET Ruled(prom) /\ Ruled(prom) \in SUBSET Apex
      BY <1>8, <1>13, <2>2
    <3> QED
      BY <1>3, <2>1, <3>1, FewApexes, FlyParams
  <2> QED
    BY <1>2, <1>3, <2>1, <2>2
<1> QED
  <2>1. FlyKept'
    BY <1>15, <1>17, <1>18, <1>20, <1>21, <1>22, <1>23, <1>24 DEF FlyKept, Ruled
  <2> QED
    BY <1>14, <2>1 DEF FlyInv

\* The restart: the files, whatever was saved of them.
LEMMA RestartKept == ASSUME FlyInv, DpidRestart PROVE FlyInv'
<1>1. /\ acc' = Aged(accFile) /\ prom' = promFile /\ expd' = expFile /\ promFile' = promFile
      /\ unmatched' = {} /\ subSeen' = {} /\ ruleHits' = [u \in Uid |-> 0] /\ tick2'.on = FALSE
      /\ exMem' = userSaid.excl /\ lostProm' = FALSE /\ second' = {}
      /\ unsaved' = unsaved \intersect Ruled(promFile)
      /\ barred' = IF accFile = acc /\ promFile = prom
                   THEN barred \ {x \in Apex : acc'[x] = NoCandidate} ELSE {}
      /\ UNCHANGED <<fwDay, accFile, expFile, userSaid>>
  BY DEF DpidRestart
<1>2. accFile \in [Apex -> Candidate] /\ fwDay \in Nat
  BY FlyParams DEF FlyInv, FlyTyped
<1>3. /\ acc' \in [Apex -> Candidate]
      /\ \A x \in Apex : acc'[x] = IF fwDay - accFile[x].last > MaxAge THEN NoCandidate ELSE accFile[x]
  BY <1>1, <1>2, AgedAt
<1>4. NoCandidate.uids = {} /\ NoCandidate.last = 0 /\ Cardinality({}) = 0
  BY FS_EmptySet DEF NoCandidate
<1>5. ASSUME NEW x \in Apex
      PROVE  acc'[x].uids \subseteq acc[x].uids /\ Cardinality(acc'[x].uids) <= Cardinality(acc[x].uids)
             /\ Cardinality(acc'[x].uids) \in Nat /\ Cardinality(acc[x].uids) \in Nat
  <2>1. Older(x)
    BY DEF FlyInv, FlyKept
  <2>2. acc'[x].uids \subseteq acc[x].uids
    BY <1>3, <1>4, <2>1 DEF Older
  <2>3. acc[x].uids \in SUBSET Uid
    BY DEF FlyInv, FlyTyped, Candidate
  <2> QED
    BY <2>2, <2>3, FewUids
<1>6. FlyTyped'
  <2>1. ruleHits' \in [Uid -> 0 .. ExpandHits]
    BY <1>1, FlyParams
  <2>2. unsaved' \subseteq Apex /\ barred' \subseteq Apex
    BY <1>1 DEF FlyInv, FlyTyped
  <2> QED
    BY <1>1, <1>3, <2>1, <2>2 DEF FlyInv, FlyTyped
<1>7. ASSUME NEW x \in Apex PROVE (Older(x) /\ accFile[x].last <= fwDay /\ acc[x].last <= fwDay)'
  <2>1. accFile[x].last <= fwDay /\ accFile[x].last \in Nat
    BY <1>2 DEF FlyInv, FlyKept, Candidate
  <2> QED
    BY <1>1, <1>2, <1>3, <1>4, <2>1 DEF Older
<1>8. ASSUME NEW x \in Ruled(promFile)
      PROVE  /\ Cardinality(acc'[x].uids) <= 1
             /\ x \notin unsaved' => acc'[x].uids \subseteq {promFile[x].uid}
  <2>1. Frozen(x) /\ x \in Apex
    BY DEF FlyInv, FlyKept, Ruled
  <2> QED
    BY <1>1, <1>5, <2>1 DEF Frozen
<1>9. PromotedSingle'
  BY <1>1, <1>8 DEF PromotedSingle, Ruled
<1>10. ASSUME NEW x \in Ruled(promFile), x \notin unsaved', promFile[x].src = "auto"
       PROVE  ~Conduit(acc', promFile[x].uid)
  <2>1. x \in Apex \ unsaved
    BY <1>1, <1>10 DEF Ruled
  <2>2. prom[x] = promFile[x]
    BY <2>1 DEF FlyInv, FlyKept
  <2>3. x \in Ruled(prom) \ unsaved
    BY <2>1, <2>2, <1>10 DEF Ruled
  <2>4. ~Conduit(acc, prom[x].uid)
    BY <2>2, <2>3, <1>10 DEF FlyInv, FlyKept, ConduitOut
  <2> QED
    BY <1>5, <2>2, <2>4, ConduitFewer
<1>11. ConduitOut'
  BY <1>1, <1>10 DEF ConduitOut, Ruled, Conduit
<1>12. RulesOnDisk'
  BY <1>1 DEF RulesOnDisk
<1>13. ASSUME NEW x \in Ruled(promFile') PROVE Frozen(x)'
  BY <1>1, <1>8 DEF Frozen, Ruled
<1>14. ASSUME NEW x \in barred' PROVE acc'[x].learned /\ x \notin Ruled(prom')
  <2>1. accFile = acc /\ promFile = prom /\ x \in barred /\ x \in Apex /\ acc'[x] # NoCandidate
    BY <1>1 DEF FlyInv, FlyTyped
  <2>2. acc[x].learned /\ x \notin Ruled(prom)
    BY <2>1 DEF FlyInv, FlyKept
  <2>3. acc'[x] = acc[x]
    BY <1>3, <2>1
  <2> QED
    BY <1>1, <2>1, <2>2, <2>3
<1>15. /\ \A x \in Apex \ unsaved' : prom'[x] = promFile'[x]
       /\ unsaved' \subseteq Ruled(prom') \union Ruled(promFile')
       /\ Cardinality(Ruled(promFile')) <= MaxPromoted /\ Cardinality(Ruled(prom')) <= MaxPromoted
  BY <1>1 DEF FlyInv, FlyKept
<1> QED
  <2>1. FlyKept'
    BY <1>7, <1>9, <1>11, <1>12, <1>13, <1>14, <1>15 DEF FlyKept, Ruled
  <2> QED
    BY <1>6, <2>1 DEF FlyInv

\* What is not the tick's, the clock's or the files' leaves rules and records alone.
LEMMA RecordsKept ==
  ASSUME FlyInv, UNCHANGED <<fwDay, acc, accFile, prom, promFile, unsaved, barred, lostProm>>
  PROVE  FlyKept'
<1>1. UNCHANGED <<Ruled(prom), Ruled(promFile)>>
  BY DEF Ruled
<1>2. \A x \in Apex : Older(x)' = Older(x) /\ Frozen(x)' = Frozen(x)
  BY <1>1 DEF Older, Frozen
<1>3. PromotedSingle' = PromotedSingle /\ ConduitOut' = ConduitOut /\ RulesOnDisk' = RulesOnDisk
  BY <1>1 DEF PromotedSingle, ConduitOut, RulesOnDisk, Conduit
<1>4. Ruled(promFile) \subseteq Apex
  BY DEF Ruled
<1> QED
  BY <1>1, <1>2, <1>3, <1>4 DEF FlyInv, FlyKept

LEMMA FlyStep == FlyInv /\ [FlyNext]_flyVars => FlyInv'
<1> SUFFICES ASSUME FlyInv, [FlyNext]_flyVars PROVE FlyInv'
  OBVIOUS
<1>0. FlyTyped /\ FlyKept
  BY DEF FlyInv
<1>1. ASSUME NEW x \in Apex, NEW u \in Uid, ObserveSNI(x, u) PROVE FlyInv'
  <2>1. FlyTyped'
    BY <1>0, <1>1 DEF ObserveSNI, FlyTyped
  <2> QED
    BY <1>1, <2>1, RecordsKept DEF ObserveSNI, FlyInv
<1>2. ASSUME NEW x \in Apex, NEW u \in Uid, MatchedSNI(x, u) PROVE FlyInv'
  <2>1. FlyTyped'
    BY <1>0, <1>2 DEF MatchedSNI, FlyTyped
  <2> QED
    BY <1>2, <2>1, RecordsKept DEF MatchedSNI, FlyInv
<1>3. ASSUME NEW u \in Uid, NEW new \in BOOLEAN, ObserveKnown(u, new) PROVE FlyInv'
  <2>1. ruleHits' \in [Uid -> 0 .. ExpandHits]
    BY <1>0, <1>3, FlyParams DEF ObserveKnown, FlyTyped
  <2>2. subSeen' \subseteq Uid
    BY <1>0, <1>3 DEF ObserveKnown, FlyTyped
  <2>3. FlyTyped'
    BY <1>0, <1>3, <2>1, <2>2 DEF ObserveKnown, FlyTyped
  <2> QED
    BY <1>3, <2>3, RecordsKept DEF ObserveKnown, FlyInv
<1>4. CASE PkgCache
  <2>1. FlyTyped'
    BY <1>0, <1>4 DEF PkgCache, FlyTyped
  <2> QED
    BY <1>4, <2>1, RecordsKept DEF PkgCache, FlyInv
<1>5. CASE ExpanderTick
  BY <1>5, TickKept
<1>6. CASE TickRest
  <2>1. /\ accFile' = accFile \/ accFile' = acc
        /\ expd' \in BOOLEAN /\ expFile' \in BOOLEAN /\ tick2'.on = FALSE
        /\ UNCHANGED <<fwDay, unmatched, acc, prom, promFile, ruleHits, subSeen, userSaid, exMem,
                       lostProm, unsaved, barred, second>>
    BY <1>0, <1>6 DEF TickRest, FlyTyped
  <2>2. FlyTyped'
    BY <1>0, <2>1 DEF FlyTyped
  <2>3. ASSUME NEW x \in Apex PROVE (Older(x) /\ accFile[x].last <= fwDay /\ acc[x].last <= fwDay)'
    <3>1. acc[x].last \in Nat
      BY <1>0 DEF FlyTyped, Candidate
    <3> QED
      BY <1>0, <2>1, <3>1 DEF FlyKept, Older
  <2>4. UNCHANGED <<Ruled(prom), Ruled(promFile)>>
    BY <2>1 DEF Ruled
  <2>5. \A x \in Apex : Frozen(x)' = Frozen(x)
    BY <2>1, <2>4 DEF Frozen
  <2>6. PromotedSingle' = PromotedSingle /\ ConduitOut' = ConduitOut /\ RulesOnDisk' = RulesOnDisk
    BY <2>1, <2>4 DEF PromotedSingle, ConduitOut, RulesOnDisk, Conduit
  <2>7. Ruled(promFile) \subseteq Apex
    BY DEF Ruled
  <2>8. FlyKept'
    BY <1>0, <2>1, <2>3, <2>4, <2>5, <2>6, <2>7 DEF FlyKept
  <2> QED
    BY <2>2, <2>8 DEF FlyInv
<1>7. CASE DpidRestart
  BY <1>7, RestartKept
<1>8. ASSUME NEW f \in {"ok", "no", "excl", "auto"}, NEW v, UserSays(f, v),
             f \in {"ok", "no"} => v \in SUBSET Apex, f = "excl" => v \in SUBSET Uid,
             f = "auto" => v \in BOOLEAN
      PROVE  FlyInv'
  <2>1. userSaid' \in [ok : SUBSET Apex, no : SUBSET Apex, excl : SUBSET Uid, auto : BOOLEAN]
    <3>1. userSaid' = [userSaid EXCEPT ![f] = v]
      BY <1>8 DEF UserSays
    <3> QED
      BY <1>0, <1>8, <3>1 DEF FlyTyped
  <2>2. FlyTyped'
    BY <1>0, <1>8, <2>1 DEF UserSays, FlyTyped
  <2> QED
    BY <1>8, <2>2, RecordsKept DEF UserSays, FlyInv
<1>9. ASSUME NEW x \in Apex, CandidatePromote(x) \/ CandidateReject(x) PROVE FlyInv'
  <2>1. userSaid.ok \union {x} \in SUBSET Apex /\ userSaid.no \union {x} \in SUBSET Apex
    BY <1>0 DEF FlyTyped
  <2> QED
    BY <1>8, <1>9, <2>1 DEF CandidatePromote, CandidateReject
<1>10. ASSUME NEW us \in SUBSET Uid, FlywheelExclude(us) PROVE FlyInv'
  BY <1>8, <1>10 DEF FlywheelExclude
<1>11. CASE AutoPromote
  BY <1>8, <1>11 DEF AutoPromote
<1>12. CASE DayPasses
  <2>1. fwDay' = fwDay + 1 /\ fwDay < MaxFwDay /\ fwDay \in Nat
        /\ UNCHANGED <<unmatched, acc, accFile, prom, promFile, ruleHits, subSeen, expd, expFile, userSaid,
                       exMem, lostProm, unsaved, barred, second, tick2>>
    BY <1>0, <1>12, FlyParams DEF DayPasses, FlyTyped
  <2>2. FlyTyped'
    BY <1>0, <2>1, FlyParams DEF FlyTyped
  <2>3. ASSUME NEW x \in Apex PROVE (Older(x) /\ accFile[x].last <= fwDay /\ acc[x].last <= fwDay)'
    <3>1. acc[x].last \in Nat /\ accFile[x].last \in Nat
      BY <1>0 DEF FlyTyped, Candidate
    <3> QED
      BY <1>0, <2>1, <3>1, FlyParams DEF FlyKept, Older
  <2>4. UNCHANGED <<Ruled(prom), Ruled(promFile)>>
    BY <2>1 DEF Ruled
  <2>5. \A x \in Apex : Frozen(x)' = Frozen(x)
    BY <2>1, <2>4 DEF Frozen
  <2>6. PromotedSingle' = PromotedSingle /\ ConduitOut' = ConduitOut /\ RulesOnDisk' = RulesOnDisk
    BY <2>1, <2>4 DEF PromotedSingle, ConduitOut, RulesOnDisk, Conduit
  <2>7. Ruled(promFile) \subseteq Apex
    BY DEF Ruled
  <2>8. FlyKept'
    BY <1>0, <2>1, <2>3, <2>4, <2>5, <2>6, <2>7 DEF FlyKept
  <2> QED
    BY <2>2, <2>8 DEF FlyInv
<1>13. CASE UNCHANGED flyVars
  <2>1. FlyTyped'
    BY <1>0, <1>13 DEF flyVars, FlyTyped
  <2> QED
    BY <1>13, <2>1, RecordsKept DEF flyVars, FlyInv
<1> QED
  BY <1>1, <1>2, <1>3, <1>4, <1>5, <1>6, <1>7, <1>9, <1>10, <1>11, <1>12, <1>13 DEF FlyNext

-----------------------------------------------------------------------------
(* The suite.                                                              *)

HeldInv == /\ part = "clients" => TableInv
           /\ part = "owner" => OwnerInv
           /\ part = "rules" => RuleInv
           /\ part = "fly" => FlyInv
           /\ part = "wait" => WaitInv
           /\ part = "link" => LinkInv

\* A step of one component leaves the others alone.
LEMMA HeldStep == ASSUME HeldInv, [Next]_vars PROVE HeldInv'
<1>1. CASE UNCHANGED vars
  <2>1. UNCHANGED <<part, tableVars, ownerVars, ruleVars, flyVars, waitVars, linkVars>>
    BY <1>1, Zenon DEF vars
  <2> QED
    BY <2>1, TableStep, OwnerStep, RuleStep, FlyStep, WaitStep, LinkStep DEF HeldInv
<1>2. ASSUME NEW p \in Parts, Only(p), p \notin {"clients", "owner", "rules", "fly", "wait", "link"} PROVE HeldInv'
  BY <1>2 DEF Only, HeldInv
<1>3. CASE Only("clients") /\ TableNext
  BY <1>3, TableStep DEF Only, HeldInv
<1>4. CASE Only("owner") /\ OwnerNext
  BY <1>4, OwnerStep DEF Only, HeldInv
<1>5. CASE Only("wait") /\ WaitNext
  BY <1>5, WaitStep DEF Only, HeldInv
<1>6. CASE Only("link") /\ LinkNext
  BY <1>6, LinkStep DEF Only, HeldInv
<1>7. CASE Only("rules") /\ RuleNext
  BY <1>7, RuleStep DEF Only, HeldInv
<1>8. CASE Only("fly") /\ FlyNext
  BY <1>8, FlyStep DEF Only, HeldInv
<1> QED
  BY <1>1, <1>2, <1>3, <1>4, <1>5, <1>6, <1>7, <1>8 DEF Next, Parts

\* What is held of the traffic is in the right place, the rules used and made are the
\* right ones and no loop sleeps through a change, for every value of the constants:
\* state.go, ip_owner.go, rule.go, candidate.go, power.go and budget.go.
THEOREM TablesStay == Spec => []TablesKept
<1>1. Init => HeldInv
  BY TableStart, OwnerStart, RuleStart, FlyStart, WaitStart, LinkStart, Zenon DEF Init, HeldInv
<1>2. HeldInv /\ [Next]_vars => HeldInv'
  BY HeldStep
<1>3. HeldInv => TablesKept
  BY TableTyped, OwnerSays, RuleSays, FlySays, WaitTyped, LinkSays, Zenon DEF HeldInv, TablesKept
<1> QED
  BY <1>1, <1>2, <1>3, PTL DEF Spec

\* The index of the client table leads from a MAC to its client and back, and the flow
\* count is that of the flows held, whatever is created, evicted or trimmed and at
\* whichever limit (state.go clientLocked, evictOldestClientLocked, RecordFlow).
THEOREM ClientsIndexed == TableSpec => [](TableTypeOK /\ IndexExact /\ FlowCount)
<1>1. TableInit => TableInv
  BY TableStart
<1>2. TableInv /\ [TableNext]_tableVars => TableInv'
  BY TableStep
<1>3. TableInv => TableTypeOK /\ IndexExact /\ FlowCount
  BY TableTyped
<1> QED
  BY <1>1, <1>2, <1>3, PTL DEF TableSpec

\* An address has the owner of its range, and the table in memory is that of the
\* preferred file at the last look, although a file is read anew only when its stamp
\* has changed (ip_owner.go parseIPOwner, lookupIP, ipOwnerGet).
THEOREM OwnersFound == OwnerSpec => [](OwnerTypeOK /\ OwnerExact /\ OwnerCurrent)
<1>1. OwnerInit => OwnerInv
  BY OwnerStart
<1>2. OwnerInv /\ [OwnerNext]_ownerVars => OwnerInv'
  BY OwnerStep
<1>3. OwnerInv => OwnerTypeOK /\ OwnerExact /\ OwnerCurrent
  BY OwnerSays
<1> QED
  BY <1>1, <1>2, <1>3, PTL DEF OwnerSpec

\* A lookup uses rules no older than the files were when it began, however many lookups
\* read and install at once and whatever is written, replaced or removed meanwhile
\* (rule.go loadL3RulesFromDir).
THEOREM RulesFresh == RuleSpec => [](RuleTypeOK /\ FreshRules)
<1>1. RuleInit => RuleInv
  BY RuleStart
<1>2. RuleInv /\ [RuleNext]_ruleVars => RuleInv'
  BY RuleStep
<1>3. RuleInv => RuleTypeOK /\ FreshRules
  BY RuleSays
<1> QED
  BY <1>1, <1>2, <1>3, PTL DEF RuleSpec

\* An automatic rule has one application, belongs to no conduit and does not come back
\* once demoted, although rules and records are written one after the other, either
\* write may fail and dpid may die anywhere (candidate.go processCandidates,
\* saveCandidateAccum, loadExistingPromoted).
THEOREM RulesEarned ==
  FlySpec => [](FlyTypeOK /\ PromotedSingle /\ ConduitOut /\ DemotedStaysOut /\ RulesOnDisk)
<1>1. FlyInit => FlyInv
  BY FlyStart
<1>2. FlyInv /\ [FlyNext]_flyVars => FlyInv'
  BY FlyStep
<1>3. FlyInv => FlyTypeOK /\ PromotedSingle /\ ConduitOut /\ DemotedStaysOut /\ RulesOnDisk
  BY FlySays
<1> QED
  BY <1>1, <1>2, <1>3, PTL DEF FlySpec

\* Being slow does not delay the loops of httpd: whenever time passes, every loop whose
\* interface is in use has its next round within the quick interval, and a request is
\* published at the latest with the probe that follows it.
THEOREM PaceAnswers == WaitSpec => [](WaitTypeOK /\ QuickAfterChange /\ UiSeen)
<1>1. WaitInit => WaitInv
  BY WaitStart
<1>2. WaitInv /\ [WaitNext]_waitVars => WaitInv'
  BY WaitStep
<1>3. WaitInv => WaitTypeOK /\ QuickAfterChange /\ UiSeen
  BY WaitTyped
<1> QED
  BY <1>1, <1>2, <1>3, PTL DEF WaitSpec

\* The watchdog's sleep never hides the hotspot for longer than an idle interval, a dead
\* httpd does not keep it slow once its last word has aged, and the schedule's boundary
\* is met.
THEOREM SleepBounded ==
  LinkSpec => [](LinkTypeOK /\ FoundInTime /\ OldPaceWithoutHttpd /\ BoundaryOnTime)
<1>1. LinkInit => LinkInv
  BY LinkStart
<1>2. LinkInv /\ [LinkNext]_linkVars => LinkInv'
  BY LinkStep
<1>3. LinkInv => LinkTypeOK /\ FoundInTime /\ OldPaceWithoutHttpd /\ BoundaryOnTime
  BY LinkSays
<1> QED
  BY <1>1, <1>2, <1>3, PTL DEF LinkSpec
=============================================================================
