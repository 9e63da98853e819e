------------------------------ MODULE Discover ------------------------------
(***************************************************************************)
(* The finder of unknown applications of hnc_dpid (output/discover.go,     *)
(* cluster.go, shared_infra.go).  Host names no rule knows are nodes (by   *)
(* registrable domain); two of them seen by one device within a window     *)
(* share an edge, whose weight halves every tick of this model's clock.    *)
(* Flush prunes, groups the nodes over the strong edges, leaves out what   *)
(* looks like shared infrastructure, and writes the groups; Load restores  *)
(* them as stars of edges.                                                 *)
(*                                                                         *)
(* A tick is one half-life, longer than the co-occurrence window, so a     *)
(* window never outlives the tick.  The LRU lists are the tables: the      *)
(* front is the most recent entry.                                         *)
(***************************************************************************)
EXTENDS Integers, FiniteSets, Sequences, SequencesExt

CONSTANTS
    Reg,            \* registrable domains, numbered in their string order
    DDev,           \* devices
    Listed,         \* domains of shared_infra.txt
    MaxNodes,       \* discMaxNodes
    MaxEdges,       \* discMaxEdges
    WindowMax,      \* discWindowMax
    PairUnit,           \* weight of one co-occurrence
    EdgeThreshold,  \* discEdgeThreshold
    RestoreEdgeW,   \* discRestoreEdgeW
    EdgePruneBelow, \* discEdgePruneBelow
    SharedEdgeMin,  \* discSharedEdgeMin
    HubDegree,      \* discHubDegree
    MinHits,        \* discMinHits
    MinDevices,     \* discMinDevices
    SharedDevices,  \* discSharedMinDevices
    SharedGroups,   \* discSharedMinGroups
    StickyFor,      \* discSharedStickySec, in ticks
    NodeMaxAge,     \* discNodeMaxAgeSec, in ticks
    MaxDiscClk,     \* bound: ticks
    MaxDiscSeen,    \* bound: observations
    FamStep,        \* ja4FamMinSamples
    MaxFamSamples,  \* bound: samples of the family table, below ja4FamTotalCap
    MaxDiscFaults   \* bound: failed writes and restarts

ASSUME DiscoverAssumption ==
    /\ Reg \subseteq Nat /\ Listed \subseteq Reg
    /\ {MaxNodes, MaxEdges, WindowMax, PairUnit, HubDegree} \subseteq Nat \ {0}
    /\ RestoreEdgeW >= EdgeThreshold /\ FamStep \in Nat \ {0}

VARIABLES
    discClk,    \* now
    discNodes,  \* d.nodes and d.nodeLRU
    discEdges,  \* d.edges, d.adj and d.edgeLRU
    wins,       \* d.wins: the domains of each device's window
    sticky,     \* d.sticky: when a domain was last judged shared by frequency
    discDirty,  \* d.dirty
    famSamples, \* d.fam: the samples of the JA4 that is in the family table
    famDirty,   \* d.famDirty
    flushing,   \* the Flush that holds flushMu and is about to write
    groupsFile, \* dpi_discover.json
    famFile,    \* dpi_ja4family.json
    wrote,      \* d.lastGroups is set: it then equals the file's groups
    discCnt

flushVars == <<flushing, groupsFile, famFile, wrote>>
discVars == <<discClk, discNodes, discEdges, wins, sticky, discDirty,
              famSamples, famDirty, flushVars, discCnt>>

NoFlush == [groups |-> FALSE, fam |-> FALSE]
NoStamp == -1
NodeRegs(ns) == {ns[i].reg : i \in DOMAIN ns}
NodeOf(ns, r) == ns[CHOOSE i \in DOMAIN ns : ns[i].reg = r]
MaxOf(a, b) == IF a > b THEN a ELSE b

-----------------------------------------------------------------------------
(* The graph. *)

\* discDecay: a weight halves with every half-life.
Decay(e, now) == IF now <= e.t THEN e.w ELSE e.w \div 2^(now - e.t)

\* removeNodeLocked: a node takes its edges with it.
DropEdges(es, gone) == SelectSeq(es, LAMBDA e : e.k \cap gone = {})

\* touchNodeLocked: the node moves to the front of the list, new or old.
Touched(r, dev) ==
    LET old == IF r \in NodeRegs(discNodes) THEN NodeOf(discNodes, r)
               ELSE [reg |-> r, hits |-> 0, last |-> discClk,
                     devs |-> [d \in DDev |-> NoStamp]]
    IN  <<[old EXCEPT !.hits = @ + 1, !.last = MaxOf(@, discClk),
                      !.devs[dev] = discClk]>>
          \o SelectSeq(discNodes, LAMBDA n : n.reg # r)

\* addEdgeLocked: nothing between domains one of which left the table.
AddEdge(ns, es, k, inc) ==
    IF ~(k \subseteq NodeRegs(ns)) THEN es
    ELSE LET old == SelectSeq(es, LAMBDA e : e.k = k)
             w   == IF old = <<>> THEN inc ELSE Decay(old[1], discClk) + inc
             new == <<[k |-> k, w |-> w, t |-> discClk]>>
                      \o SelectSeq(es, LAMBDA e : e.k # k)
         IN  SubSeq(new, 1, IF Len(new) > MaxEdges THEN MaxEdges ELSE Len(new))

\* Observe of a name no rule knows: touchNodeLocked, windowLocked, dirty.
\* same is the set of window entries that used the same JA4.
Observe(dev, r) ==
    /\ discCnt.seen < MaxDiscSeen
    /\ discCnt' = [discCnt EXCEPT !.seen = @ + 1]
    /\ \E same \in SUBSET ToSet(wins[dev]) :
         LET all   == Touched(r, dev)
             ns    == SubSeq(all, 1, IF Len(all) > MaxNodes THEN MaxNodes ELSE Len(all))
             gone  == NodeRegs(all) \ NodeRegs(ns)
             es    == DropEdges(discEdges, gone)
             w     == wins[dev]
             inc(q) == IF q \in same THEN 2 * PairUnit ELSE PairUnit
             grown == Append(SelectSeq(w, LAMBDA q : q # r), r)
         IN  /\ r \in ToSet(w) => same = {}
             /\ discNodes' = ns
             /\ discEdges' = IF r \in ToSet(w) THEN es
                             ELSE FoldLeft(LAMBDA acc, q : AddEdge(ns, acc, {r, q}, inc(q)),
                                           es, w)
             /\ wins' = [wins EXCEPT ![dev] =
                   IF Len(grown) > WindowMax THEN Tail(grown) ELSE grown]
    /\ discDirty' = TRUE
    /\ UNCHANGED <<discClk, sticky, famSamples, famDirty, flushVars>>

\* Observe of a known application: the family table learns; every FamStep-th
\* sample of a JA4 marks it dirty.
LearnFamily ==
    /\ famSamples < MaxFamSamples
    /\ famSamples' = famSamples + 1
    /\ famDirty' = (famDirty \/ famSamples' % FamStep = 0)
    /\ UNCHANGED <<discClk, discNodes, discEdges, wins, sticky, discDirty, flushVars, discCnt>>

\* Time passes; every window has closed by then.
DiscTick ==
    /\ discClk < MaxDiscClk
    /\ discClk' = discClk + 1
    /\ wins' = [d \in DDev |-> <<>>]
    /\ UNCHANGED <<discNodes, discEdges, sticky, discDirty, famSamples, famDirty,
                   flushVars, discCnt>>

-----------------------------------------------------------------------------
(* Groups. *)

\* discClusterCore: the connected parts of the strong edges, a hub alone.
ClusterCore(regs, es, now) ==
    LET strong == {es[i].k : i \in {j \in DOMAIN es :
                       es[j].k \subseteq regs /\ Decay(es[j], now) >= EdgeThreshold}}
        hub(r) == Cardinality({k \in strong : r \in k}) > HubDegree
        joins  == {k \in strong : \A r \in k : ~hub(r)}
    IN  {s \in SUBSET regs \ {{}} :
            /\ \A k \in joins : k \subseteq s \/ k \cap s = {}
            /\ \A part \in SUBSET s \ {{}, s} :
                 \E k \in joins : k \cap part # {} /\ k \cap (s \ part) # {}}

\* classifyShared, the second defence: a domain enough devices use that
\* co-occurs with enough groups of the rest of the graph.
JudgedShared(ns, es, now) ==
    LET regs  == NodeRegs(ns) \ Listed
        cands == {r \in regs :
                    Cardinality({d \in DDev : LET t == NodeOf(ns, r).devs[d]
                                              IN  t # NoStamp /\ now - t <= 1}) >= SharedDevices}
        rest  == ClusterCore(regs \ cands, es, now)
        met(c) == {g \in rest : \E i \in DOMAIN es :
                     /\ c \in es[i].k /\ es[i].k \cap g # {}
                     /\ Decay(es[i], now) >= SharedEdgeMin}
    IN  {c \in cands : Cardinality(met(c)) >= SharedGroups}

StickyAfter(st, judged, now) ==
    [r \in Reg |-> IF r \in judged THEN now
                   ELSE IF st[r] # NoStamp /\ now - st[r] > StickyFor THEN NoStamp
                   ELSE st[r]]

\* nodeListShared by the registrable domain; the case that every host of a node
\* is listed while its domain is not is left out.
Shared(ns, st) == {r \in NodeRegs(ns) : r \in Listed \/ st[r] # NoStamp}

\* Members keep the devices but not when each was seen.
Member(n) ==
    [n EXCEPT !.devs = [d \in DDev |-> IF n.devs[d] = NoStamp THEN NoStamp ELSE n.last]]

\* groupsLocked and buildGroupLocked: the groups worth showing, as members.
GroupsOf(ns, es, st, now) ==
    LET hits(g)   == FoldLeft(LAMBDA acc, n : IF n.reg \in g THEN acc + n.hits ELSE acc, 0, ns)
        users(g)  == {d \in DDev : \E r \in g : NodeOf(ns, r).devs[d] # NoStamp}
        worth(g)  == hits(g) >= MinHits \/ Cardinality(users(g)) >= MinDevices
        parts     == ClusterCore(NodeRegs(ns) \ Shared(ns, st), es, now)
    IN  {{Member(NodeOf(ns, r)) : r \in g} : g \in {h \in parts : worth(h)}}

-----------------------------------------------------------------------------
(* Flush and Load. *)

\* pruneLocked: the nodes not seen for long, and the edges that faded away.
PrunedNodes == SelectSeq(discNodes, LAMBDA n : discClk - n.last <= NodeMaxAge)
PrunedEdges ==
    SelectSeq(DropEdges(discEdges, NodeRegs(discNodes) \ NodeRegs(PrunedNodes)),
              LAMBDA e : Decay(e, discClk) >= EdgePruneBelow)

\* The part of Flush under d.mu: dirty is cleared before the write, so that
\* what arrives during the write is not lost.
FlushBegin ==
    /\ flushing = NoFlush
    /\ LET ns == PrunedNodes
           es == PrunedEdges
           st == StickyAfter(sticky, JudgedShared(ns, es, discClk), discClk)
       IN  /\ discDirty \/ famDirty \/ ns # discNodes \/ es # discEdges
           /\ discNodes' = ns
           /\ discEdges' = es
           /\ sticky' = st
           /\ flushing' = [groups |-> TRUE, fam |-> famDirty, at |-> discClk,
                           samples |-> famSamples, shown |-> GroupsOf(ns, es, st, discClk),
                           freq |-> {<<r, st[r]>> : r \in {q \in Shared(ns, st) : st[q] # NoStamp}}]
    /\ discDirty' = FALSE
    /\ famDirty' = FALSE
    /\ UNCHANGED <<discClk, wins, famSamples, groupsFile, famFile, wrote, discCnt>>

\* Mutant: a write that succeeded clears the mark.
ClearedByWrite(ok) == ~ok

\* The rest of Flush, without d.mu: the groups, unless they are what was
\* written last, then the families.  A failed write marks them dirty again.
MarkAfter(ok) == discDirty \/ ~ok

FlushGroups(ok) ==
    LET same == /\ wrote
                /\ groupsFile.shown = flushing.shown /\ groupsFile.freq = flushing.freq
    IN  /\ flushing.groups
        /\ ok \/ (~same /\ discCnt.faults < MaxDiscFaults)
        /\ discCnt' = IF ok THEN discCnt ELSE [discCnt EXCEPT !.faults = @ + 1]
        /\ groupsFile' = IF ok /\ ~same
                         THEN [at |-> flushing.at, shown |-> flushing.shown, freq |-> flushing.freq]
                         ELSE groupsFile
        /\ wrote' = (wrote \/ ok)
        /\ discDirty' = MarkAfter(ok)
        /\ flushing' = IF flushing.fam THEN [flushing EXCEPT !.groups = FALSE] ELSE NoFlush
        /\ UNCHANGED <<discClk, discNodes, discEdges, wins, sticky, famSamples, famDirty, famFile>>

FlushFamilies(ok) ==
    /\ ~flushing.groups /\ flushing.fam
    /\ ok \/ discCnt.faults < MaxDiscFaults
    /\ discCnt' = IF ok THEN discCnt ELSE [discCnt EXCEPT !.faults = @ + 1]
    /\ famFile' = IF ok THEN flushing.samples ELSE famFile
    /\ famDirty' = (famDirty \/ ~ok)
    /\ flushing' = NoFlush
    /\ UNCHANGED <<discClk, discNodes, discEdges, wins, sticky, discDirty, famSamples,
                   groupsFile, wrote>>

LastOf(g) == CHOOSE t \in {n.last : n \in g} : \A n \in g : n.last <= t
LeastReg(g) == CHOOSE r \in {n.reg : n \in g} : \A n \in g : r <= n.reg

\* Mutant: a restored group comes back without edges.
NoStar(g, at) == <<>>

\* restoreGroupLocked: a star of edges around the first domain of a group; the
\* groups come back oldest first.
Star(g, at) ==
    LET anchor == LeastReg(g)
        leaves == SetToSortSeq({n.reg : n \in g} \ {anchor}, >)
    IN  [i \in DOMAIN leaves |-> [k |-> {anchor, leaves[i]}, w |-> RestoreEdgeW, t |-> at]]

Load(file) ==
    LET newest == SetToSortSeq(file.shown,
                    LAMBDA g, h : LastOf(g) > LastOf(h)
                                    \/ (LastOf(g) = LastOf(h) /\ LeastReg(g) < LeastReg(h)))
        byHits(g) == SetToSortSeq(g, LAMBDA m, n : m.hits > n.hits
                                       \/ (m.hits = n.hits /\ m.reg < n.reg))
        stars == FlattenSeq([i \in DOMAIN newest |-> Star(newest[i], file.at)])
    IN  [nodes |-> FlattenSeq([i \in DOMAIN newest |-> byHits(newest[i])]),
         edges |-> SubSeq(stars, 1, IF Len(stars) > MaxEdges THEN MaxEdges ELSE Len(stars)),
         judged |-> [r \in Reg |-> IF \E t \in 0..MaxDiscClk : <<r, t>> \in file.freq
                                   THEN CHOOSE t \in 0..MaxDiscClk : <<r, t>> \in file.freq
                                   ELSE NoStamp]]

\* hnc_dpid dies at any point and is started again.
DiscRestart ==
    /\ discCnt.faults < MaxDiscFaults
    /\ discCnt' = [discCnt EXCEPT !.faults = @ + 1]
    /\ discNodes' = Load(groupsFile).nodes
    /\ discEdges' = Load(groupsFile).edges
    /\ sticky' = Load(groupsFile).judged
    /\ wins' = [d \in DDev |-> <<>>]
    /\ discDirty' = FALSE /\ famDirty' = FALSE /\ wrote' = FALSE
    /\ famSamples' = famFile
    /\ flushing' = NoFlush
    /\ UNCHANGED <<discClk, groupsFile, famFile>>

\* discoverFile, before the first flush.
NoGroups == [at |-> 0, shown |-> {}, freq |-> {}]
DiscInit ==
    /\ discClk = 0 /\ discNodes = <<>> /\ discEdges = <<>>
    /\ wins = [d \in DDev |-> <<>>]
    /\ sticky = [r \in Reg |-> NoStamp]
    /\ discDirty = FALSE /\ famDirty = FALSE /\ famSamples = 0 /\ famFile = 0
    /\ flushing = NoFlush
    /\ groupsFile = NoGroups
    /\ wrote = FALSE
    /\ discCnt = [seen |-> 0, faults |-> 0]

DiscNext ==
    \/ \E dev \in DDev, r \in Reg : Observe(dev, r)
    \/ LearnFamily
    \/ DiscTick
    \/ FlushBegin
    \/ \E ok \in BOOLEAN : FlushGroups(ok) \/ FlushFamilies(ok)
    \/ DiscRestart

DiscSpec == DiscInit /\ [][DiscNext]_discVars

-----------------------------------------------------------------------------
DiscTypeOK ==
    /\ discClk \in 0..MaxDiscClk
    /\ Len(discNodes) <= MaxNodes /\ NodeRegs(discNodes) \subseteq Reg
    /\ Cardinality(NodeRegs(discNodes)) = Len(discNodes)
    /\ Len(discEdges) <= MaxEdges
    /\ \A i, j \in DOMAIN discEdges : i # j => discEdges[i].k # discEdges[j].k
    /\ \A d \in DDev : Len(wins[d]) <= WindowMax
    /\ sticky \in [Reg -> -1..MaxDiscClk]
    /\ {discDirty, famDirty, wrote, flushing.groups, flushing.fam} \subseteq BOOLEAN
    /\ {famSamples, famFile} \subseteq 0..MaxFamSamples

\* An edge joins two domains of the table: the LRU eviction of a node that a
\* window still names, and the pruning of an old one, leave no edge behind
\* (touchNodeLocked, addEdgeLocked, removeNodeLocked).
EdgesJoinNodes ==
    \A i \in DOMAIN discEdges :
        /\ discEdges[i].k \subseteq NodeRegs(discNodes)
        /\ Cardinality(discEdges[i].k) = 2

\* With no flush under way and nothing marked dirty, what the file says of a
\* domain is what the table says: no observation made while a flush wrote, no
\* failed write and no pruned domain is forgotten (Flush).  Of the samples of a
\* family the file has all but those since the last multiple of FamStep, so that
\* one that became known is known after a restart too (ja4family.go:189-191).
FileCurrent ==
    /\ flushing = NoFlush /\ ~discDirty =>
          \A g \in groupsFile.shown : \A m \in g :
              m.reg \in NodeRegs(discNodes) /\ NodeOf(discNodes, m.reg).hits = m.hits
    /\ flushing = NoFlush /\ ~famDirty => famFile \div FamStep = famSamples \div FamStep

\* A restart within a half-life of the file's writing keeps each small group
\* together: neither does its anchor become a hub, nor do its leaves count as
\* enough groups to make the anchor shared infrastructure (restoreGroupLocked).
Kept(g) ==
    LET st == StickyAfter(sticky', JudgedShared(discNodes', discEdges', discClk), discClk)
    IN  \E h \in ClusterCore(NodeRegs(discNodes') \ Shared(discNodes', st), discEdges', discClk) :
            {n.reg : n \in g} \subseteq h

SmallKept ==
    DiscRestart /\ discClk - groupsFile.at <= 1 =>
        \A g \in groupsFile.shown :
            Cardinality(g) <= SharedGroups /\ Cardinality(g) <= HubDegree + 1 => Kept(g)
SmallGroupsSurvive == [][SmallKept]_discVars

\* The same of every group, as the comment on Load says.
GroupsSurviveRestart ==
    [][DiscRestart /\ discClk - groupsFile.at <= 1 =>
          \A g \in groupsFile.shown : Kept(g)]_discVars
=============================================================================
