------------------------------ MODULE AppRules ------------------------------
(* The DPI rules in memory: the index built from one set of rule files, and  *)
(* the cache that decides when the files are read again (no shared state).   *)
EXTENDS Naturals, Sequences, FiniteSets, SequencesExt, FiniteSetsExt
-----------------------------------------------------------------------------
(***************************************************************************)
(* How hnc_dpid compiles its rule files into rules (output/rule.go         *)
(* compileExternalRules, attachChildRules) and looks a host name up        *)
(* (output/classify.go buildHostIndex, lookup), checked against what the   *)
(* comments define over every small list of rules.                         *)
(*                                                                         *)
(* Data: a rule is [id, up, suf, pri]: its id, its _parent_rule_id, one    *)
(* suffix and its priority (0 specific, 1 fallback); IP matchers travel    *)
(* like suffixes.  A suffix is a host; Tails[h] lists h and the hosts      *)
(* above it, longest first.  Lists longer than maxCompiledRules, which     *)
(* are cut off, are not looked at.                                         *)
(***************************************************************************)
CONSTANTS RuleId, NoParent, Hosts, Tails, MaxRules,
          MaxAttachDepth     \* maxAttachDepth (8)

ASSUME IndexAssumption ==
    /\ NoParent \notin RuleId /\ {MaxRules, MaxAttachDepth} \subseteq Nat
    /\ Tails \in [Hosts -> Seq(Hosts)]

VARIABLES ruleIn, ruleOut    \* the rules of the files in order; the compiled ones

indexVars == <<ruleIn, ruleOut>>

ExtRules == [id : RuleId, up : RuleId \union {NoParent}, suf : Hosts, pri : {0, 1}]
IndexInit == ruleIn = <<>> /\ ruleOut = <<>>

Position(s, id) == CHOOSE i \in DOMAIN s : s[i].id = id

\* Dedup by id: the last rule wins, in the place of the first.
Dedup(s) ==
    LET firsts == SelectSeq([i \in DOMAIN s |-> i], LAMBDA i : \A j \in 1 .. i - 1 : s[j].id # s[i].id)
        last(i) == s[CHOOSE j \in DOMAIN s : s[j].id = s[i].id /\ \A k \in j + 1 .. Len(s) : s[k].id # s[i].id]
    IN  [n \in DOMAIN firsts |-> last(firsts[n])]

\* root: follow the parents from i; 0 for a rule that stays on its own.
Root(s, i) ==
    LET ids == {s[j].id : j \in DOMAIN s}
        ends(c) == s[c].up = NoParent \/ s[c].up = s[c].id \/ s[c].up \notin ids
        walk[d \in 0 .. MaxAttachDepth, c \in DOMAIN s] ==
            IF d = MaxAttachDepth THEN 0
            ELSE IF ends(c) THEN IF c = i THEN 0 ELSE c
            ELSE IF Position(s, s[c].up) = i THEN 0
            ELSE walk[d + 1, Position(s, s[c].up)]
    IN  walk[0, i]

\* attachChildRules: a rule with a root goes, its suffix goes to the root.
Attach(s) ==
    LET kept == SelectSeq([i \in DOMAIN s |-> i], LAMBDA i : Root(s, i) = 0)
    IN  [n \in DOMAIN kept |->
            [id |-> s[kept[n]].id, pri |-> s[kept[n]].pri,
             sufs |-> {s[kept[n]].suf} \union {s[j].suf : j \in {j \in DOMAIN s : Root(s, j) = kept[n]}}]]

\* buildHostIndex: per suffix and priority the first rule that has it.
FirstOf(out, h, pri) ==
    LET has == {i \in DOMAIN out : h \in out[i].sufs /\ out[i].pri = pri}
    IN  IF has = {} THEN 0 ELSE CHOOSE i \in has : \A j \in has : i <= j

\* lookup: the tails of the host, longest first, specific before fallback.
Lookup(out, h) ==
    LET hit(pri) == SelectSeq([t \in DOMAIN Tails[h] |-> FirstOf(out, Tails[h][t], pri)], LAMBDA i : i # 0)
        hits == hit(0) \o hit(1)
    IN  IF hits = <<>> THEN 0 ELSE hits[1]

\* One more rule is read from the files, and the list compiled.
ReadRule == /\ Len(ruleIn) < MaxRules
            /\ \E r \in ExtRules : ruleIn' = Append(ruleIn, r)
            /\ ruleOut' = Attach(Dedup(ruleIn'))

IndexNext == ReadRule
IndexSpec == IndexInit /\ [][IndexNext]_indexVars

---------------------------------------------------------------------------
\* l3Rule, with its suffixes for the matcher.
L3Rules == [id : RuleId, pri : 0 .. 1, sufs : SUBSET Hosts]
IndexTypeOK ==
    /\ ruleIn \in Seq(ExtRules) /\ Len(ruleIn) <= MaxRules
    /\ \A i \in DOMAIN ruleOut : ruleOut[i] \in L3Rules

\* attachChildRules loses no suffix and moves none but to the root of its
\* rule: a compiled rule has exactly the suffixes of the rules whose chain of
\* parents ends at it, and chains that are broken, too long or cyclic leave
\* every rule on its own.  Chain(s, i) is the set of rules above i.
Chain(s, i) ==
    LET up(S) == S \union {j \in DOMAIN s : \E c \in S : s[c].up = s[j].id /\ s[c].up # s[c].id}
        reach[n \in 0 .. Len(s)] == IF n = 0 THEN {i} ELSE up(reach[n - 1])
    IN  reach[Len(s)]
SuffixesArrive ==
    LET s == Dedup(ruleIn)
        chain == [i \in DOMAIN s |-> Chain(s, i)]
        tops(i) == {c \in chain[i] : chain[c] = {c}}
        home == [i \in DOMAIN s |-> IF tops(i) # {} /\ Cardinality(chain[i]) <= MaxAttachDepth
                                    THEN CHOOSE c \in tops(i) : TRUE ELSE i]
        ofRule(id) == {s[i].suf : i \in {j \in DOMAIN s : s[home[j]].id = id}}
    IN  /\ \A i \in DOMAIN s : \E n \in DOMAIN ruleOut : ruleOut[n].id = s[home[i]].id
        /\ \A n \in DOMAIN ruleOut : ruleOut[n].sufs = ofRule(ruleOut[n].id)

\* "equivalent to the old implementation, case by case": a specific rule wins
\* over a fallback, then the longest suffix, then the rule that comes first
\* (classifyHost).
LookupIsScan ==
    \A h \in Hosts :
        LET length(i) == LET on == {t \in DOMAIN Tails[h] : Tails[h][t] \in ruleOut[i].sufs}
                         IN  IF on = {} THEN 0 ELSE 1 + Len(Tails[h]) - CHOOSE t \in on : \A u \in on : t <= u
            better(i, j) == \/ ruleOut[i].pri < ruleOut[j].pri
                            \/ ruleOut[i].pri = ruleOut[j].pri /\ length(i) > length(j)
                            \/ ruleOut[i].pri = ruleOut[j].pri /\ length(i) = length(j) /\ i < j
            hits == {i \in DOMAIN ruleOut : length(i) > 0}
            found == Lookup(ruleOut, h)
        IN  IF hits = {} THEN found = 0
            ELSE found \in hits /\ \A j \in hits \ {found} : better(found, j)
-----------------------------------------------------------------------------
(***************************************************************************)
(* Hot reload of the rule files by hnc_dpid (output/rule.go                *)
(* loadL3RulesFromDir) and the host index kept beside them                 *)
(* (output/classify.go hostIndexFor).                                      *)
(*                                                                         *)
(* Every lookup lists the files of dpi_rules.d, stats them, compares the   *)
(* greatest mtime and the total size with the cache's key, and only on a   *)
(* difference reads the files it could stat, one after the other, and      *)
(* replaces the cache.  Several goroutines do this at once; files are      *)
(* replaced at any time.                                                   *)
(*                                                                         *)
(* Data: the content of a file is the number of its edit; a file that does *)
(* not parse contributes nothing (content 0).  Every edit has a new mtime. *)
(***************************************************************************)
CONSTANTS RFile,        \* the files of dpi_rules.d
          Loader,       \* goroutines that classify
          MaxRuleEdits  \* bound

ASSUME CacheAssumption == MaxRuleEdits \in Nat /\ IsFiniteSet(RFile) /\ RFile # {}

VARIABLES
    dir,        \* [RFile -> [mtime, size, rules]], mtime 0 when absent
    edits,      \* number of edits so far, the clock of mtimes
    cache,      \* ruleCache: [key, val]
    index,      \* hostIndexCache: the rules it was built from
    ld,         \* [Loader -> what each one is doing]
    begun       \* history: what each load in progress found in the directory
                \* when it began, less the files removed since

ruleVars == <<dir, edits, cache, index, ld, begun>>

NoKey == <<0, 0>>
Nothing0 == [f \in RFile |-> 0]
Content == [f \in RFile |-> dir[f].rules]
IdleLoader ==
    [at |-> "idle", todo |-> {}, seen |-> {}, key |-> NoKey, got |-> Nothing0]

RuleInit ==
    /\ dir = [f \in RFile |-> [mtime |-> 0, size |-> 0, rules |-> 0]] /\ edits = 0
    /\ cache = [key |-> NoKey, val |-> Nothing0] /\ index = Nothing0
    /\ ld = [l \in Loader |-> IdleLoader] /\ begun = [l \in Loader |-> Nothing0]

\* A file is written or replaced (rule packs, learned rules, the user) by one
\* of the same size, which may fail to parse; or it goes.
EditFile == \E f \in RFile, bad \in BOOLEAN :
    /\ edits < MaxRuleEdits /\ edits' = edits + 1
    /\ dir' = [dir EXCEPT ![f] = [mtime |-> edits', size |-> 1,
                                  rules |-> IF bad THEN 0 ELSE edits']]
    /\ UNCHANGED <<cache, index, ld, begun>>

RemoveRules == \E f \in RFile :
    /\ edits < MaxRuleEdits /\ edits' = edits + 1 /\ dir[f].mtime # 0
    /\ dir' = [dir EXCEPT ![f] = [mtime |-> 0, size |-> 0, rules |-> 0]]
    /\ begun' = [l \in Loader |-> [begun[l] EXCEPT ![f] = 0]]
    /\ UNCHANGED <<cache, index, ld>>

\* A lookup begins: glob, the files there are.
Present == {f \in RFile : dir[f].mtime # 0}
BeginLoad(l) ==
    /\ ld[l].at = "idle"
    /\ ld' = [ld EXCEPT ![l] = [IdleLoader EXCEPT !.at = "stat", !.todo = Present]]
    /\ begun' = [begun EXCEPT ![l] = Content]
    /\ UNCHANGED <<dir, edits, cache, index>>

\* First pass: the aggregate of mtime and size, file by file; one that went
\* in the meantime adds nothing and is not read (readable).
StatFile(l) == \E f \in ld[l].todo :
    /\ ld[l].at = "stat"
    /\ ld' = [ld EXCEPT ![l].todo = @ \ {f}, ![l].seen = @ \union (Present \cap {f}),
                        ![l].key = <<Max({@[1], dir[f].mtime}), @[2] + dir[f].size>>]
    /\ UNCHANGED <<dir, edits, cache, index, begun>>

\* The cache is tried before anything is read.
TryCache(l) ==
    /\ ld[l].at = "stat" /\ ld[l].todo = {}
    /\ ld' = [ld EXCEPT ![l] = IF cache.key = @.key /\ @.key # NoKey
                               THEN [@ EXCEPT !.at = "use", !.got = cache.val]
                               ELSE [@ EXCEPT !.at = "read", !.todo = ld[l].seen]]
    /\ UNCHANGED <<dir, edits, cache, index, begun>>

ReadFile(l) == \E f \in ld[l].todo :
    /\ ld[l].at = "read"
    /\ ld' = [ld EXCEPT ![l].todo = @ \ {f}, ![l].got[f] = dir[f].rules]
    /\ UNCHANGED <<dir, edits, cache, index, begun>>

\* The key that goes with what was read is the one of the first pass.
KeyOf(l) == ld[l].key
Installed(l) == IF ld[l].got = Nothing0 THEN cache ELSE [key |-> KeyOf(l), val |-> ld[l].got]
Install(l) ==
    /\ ld[l].at = "read" /\ ld[l].todo = {}
    /\ cache' = Installed(l) /\ ld' = [ld EXCEPT ![l].at = "use"]
    /\ UNCHANGED <<dir, edits, index, begun>>

\* hostIndexFor: the index of these rules, built anew when it is of others;
\* the rules found are looked up in it.
UseIndex(l) ==
    /\ ld[l].at = "use"
    /\ index' = ld[l].got /\ ld' = [ld EXCEPT ![l] = IdleLoader]
    /\ begun' = [begun EXCEPT ![l] = Nothing0]
    /\ UNCHANGED <<dir, edits, cache>>

RuleNext == EditFile \/ RemoveRules
            \/ \E l \in Loader : \/ BeginLoad(l) \/ StatFile(l) \/ TryCache(l)
                                 \/ ReadFile(l) \/ Install(l) \/ UseIndex(l)
RuleSpec == RuleInit /\ [][RuleNext]_ruleVars

---------------------------------------------------------------------------
RuleTypeOK ==
    /\ edits \in 0 .. MaxRuleEdits /\ cache.val \in [RFile -> 0 .. MaxRuleEdits]
    /\ ld \in [Loader -> [at : {"idle", "stat", "read", "use"},
                          todo : SUBSET RFile, seen : SUBSET RFile, key : Nat \X Nat,
                          got : [RFile -> 0 .. MaxRuleEdits]]]

\* A lookup uses rules at least as new as the directory was when it began,
\* for every file not removed since that it has rules of, although other
\* lookups install what they read earlier and files change between the stat
\* and the read: what the cache holds under a key is never older than the
\* files that had that key.  It may have no rules of a file at all, one that
\* does not parse or one that an earlier lookup did not list
\* (NewFileSuffices below).
Newer(got, was) == \A f \in RFile : got[f] >= was[f] \/ got[f] = 0
FreshRules == \A l \in Loader : ld[l].at = "use" => Newer(ld[l].got, begun[l])

---------------------------------------------------------------------------
(* A statement the code does not keep.                                     *)

\* "Writing a new file in the dir is sufficient" (auto_expand.go:489): a lookup
\* has the rules of every file that was there when it began and still is.
\* It may lack one made after an earlier lookup's list: the key of that lookup
\* is met again when another file of the same size goes.
NewFileSuffices == \A l \in Loader : ld[l].at = "use" =>
    \A f \in RFile :
        begun[l][f] # 0 /\ dir[f].rules = begun[l][f] => ld[l].got[f] = begun[l][f]
=============================================================================
