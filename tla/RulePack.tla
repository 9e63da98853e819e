------------------------------ MODULE RulePack ------------------------------
(***************************************************************************)
(* Import of a rule pack from another phone (rulepack.go importRulepack)   *)
(* and its removal (actionDPIRulepackClear).                               *)
(*                                                                         *)
(* A domain entry [id, attach, sufs] is filtered against the rules of this *)
(* phone and merged under imp_<id> into _imported.json; a fingerprint is   *)
(* merged by key into fp_imported.json.  The two files are written one     *)
(* after the other, each atomically; a failing write ends the import with  *)
(* an error and what is written stays.  rulepackMu serialises imports.     *)
(*                                                                         *)
(* Data: a host is a member of Host, Ups[h] are the hosts that cutting     *)
(* labels off h leads to.  A pack has one domain entry with one suffix and *)
(* one fingerprint (a longer pack is a sequence of imports); the start     *)
(* fingerprints are merged and written like the fingerprints and are left  *)
(* out.  Syntax checks (ids, categories, public suffixes, sizes) drop an   *)
(* entry before anything else happens and are left out with the entries.   *)
(***************************************************************************)
EXTENDS Naturals, FiniteSets

CONSTANTS Host,
          Ups,              \* Host -> the hosts above it
          App,              \* ids of local rules and of imported ones
          Shared,           \* auto_expand_blocklist: shared apexes
          MaxImports, MaxWriteErr

NoApp == "none"
Foreign == "imp"     \* an imported rule that belongs to no local app

\* The hosts above a host are one above the other.
ASSUME PackAssumption ==
    /\ Ups \in [Host -> SUBSET Host]
    /\ \A h \in Host : /\ IsFiniteSet(Ups[h]) /\ h \notin Ups[h]
                       /\ \A x \in Ups[h] : Ups[x] \subseteq Ups[h]
                       /\ \A x, y \in Ups[h] : x = y \/ x \in Ups[y] \/ y \in Ups[x]
    /\ NoApp \notin App /\ Foreign \notin App
    /\ Shared \subseteq Host /\ {MaxImports, MaxWriteErr} \subseteq Nat

VARIABLES
    owned,      \* rpLocal.owner: [Host -> App or NoApp], the rules of this phone
    imp,        \* _imported.json: [id -> [parent, sufs]]
    fpImp,      \* fp_imported.json: [key -> app]
    job,        \* the running import
    okPack,     \* history: the last pack an import reported ok, or NoPack
    mixed,      \* history: ids that were imported with two different attach_to
    packCnt     \* imports and write errors so far

packVars == <<owned, imp, fpImp, job, okPack, mixed, packCnt>>

NoPack == [id |-> NoApp]

\* longestOwner: the owner of the nearest host at or above h that has one.
LongestOwner(own, h) ==
    LET line == {x \in Ups[h] \union {h} : own[x] # NoApp}
    IN  IF line = {} THEN NoApp
        ELSE own[CHOOSE x \in line : \A y \in line : y = x \/ y \in Ups[x]]

\* childOwner: who owns hosts below h.
BelowOwners(own, h) == {own[x] : x \in {x \in Host : h \in Ups[x] /\ own[x] # NoApp}}

\* The suffixes of an entry that an import may keep.
Kept(own, e) ==
    LET target == IF e.attach # NoApp /\ \E h \in Host : own[h] = e.attach THEN e.attach ELSE Foreign
    IN  {h \in e.sufs : /\ h \notin Shared
                        /\ LongestOwner(own, h) = NoApp
                        /\ BelowOwners(own, h) \subseteq {target}}

\* Merge under imp_<id>: an id that is there keeps its parent.
MergeDom(e) ==
    LET keep == Kept(owned, e)
    IN  IF keep = {} THEN imp
        ELSE [i \in DOMAIN imp \union {e.id} |->
                IF i # e.id THEN imp[i]
                ELSE IF i \in DOMAIN imp THEN [imp[i] EXCEPT !.sufs = @ \union keep]
                ELSE [parent |-> IF e.attach = NoApp THEN Foreign ELSE e.attach, sufs |-> keep]]

Entries == [id : App, attach : App \union {NoApp}, sufs : {{h} : h \in Host}]

PackInit ==
    /\ owned \in [Host -> App \union {NoApp}]
    /\ imp = << >> /\ fpImp = << >> /\ job = [pc |-> "idle"]
    /\ okPack = NoPack /\ mixed = {} /\ packCnt = [imports |-> 0, err |-> 0]

StartImport ==
    \E e \in Entries :
        /\ job.pc = "idle" /\ packCnt.imports < MaxImports
        /\ job' = [pc |-> "dom", e |-> e]
        /\ packCnt' = [packCnt EXCEPT !.imports = @ + 1]
        /\ mixed' = IF e.id \in DOMAIN imp /\ imp[e.id].parent # (IF e.attach = NoApp THEN Foreign ELSE e.attach)
                    THEN mixed \union {e.id} ELSE mixed
        /\ UNCHANGED <<owned, imp, fpImp, okPack>>

WriteErr == packCnt.err < MaxWriteErr /\ packCnt' = [packCnt EXCEPT !.err = @ + 1]
            /\ job' = [pc |-> "idle"] /\ okPack' = NoPack

\* _imported.json is written only if a suffix was added.
WriteDom ==
    /\ job.pc = "dom"
    /\ \/ imp' = MergeDom(job.e) /\ job' = [job EXCEPT !.pc = "fp"] /\ UNCHANGED <<packCnt, okPack>>
       \/ MergeDom(job.e) # imp /\ WriteErr /\ UNCHANGED imp
    /\ UNCHANGED <<owned, fpImp, mixed>>

NewFps == [k \in DOMAIN fpImp \union {"k"} |-> job.e.id]
WriteFp ==
    /\ job.pc = "fp"
    /\ \/ fpImp' = NewFps /\ job' = [pc |-> "idle"] /\ okPack' = job.e /\ UNCHANGED packCnt
       \/ NewFps # fpImp /\ WriteErr /\ UNCHANGED fpImp
    /\ UNCHANGED <<owned, imp, mixed>>

\* dpi_rulepack_clear: the files in their order, the first that cannot be
\* removed ends the action.
ClearPack ==
    /\ job.pc = "idle" /\ imp # << >>
    /\ imp' = << >> /\ okPack' = NoPack /\ mixed' = {}
    /\ \/ fpImp' = << >> /\ UNCHANGED packCnt
       \/ packCnt.err < MaxWriteErr /\ packCnt' = [packCnt EXCEPT !.err = @ + 1] /\ UNCHANGED fpImp
    /\ UNCHANGED <<owned, job>>

PackNext == StartImport \/ WriteDom \/ WriteFp \/ ClearPack
PackSpec == PackInit /\ [][PackNext]_packVars

-----------------------------------------------------------------------------
PackTypeOK ==
    /\ owned \in [Host -> App \union {NoApp}]
    /\ DOMAIN imp \subseteq App
    /\ \A i \in DOMAIN imp : imp[i].parent \in App \union {Foreign} /\ imp[i].sufs \in SUBSET Host
    /\ job.pc \in {"idle", "dom", "fp"}

\* dpid labels a host by the longest suffix of all rules, imported ones too.
Labels(h) ==
    LET own == {x \in Ups[h] \union {h} : owned[x] # NoApp}
        all == own \union {x \in Ups[h] \union {h} : \E i \in DOMAIN imp : x \in imp[i].sufs}
        x   == CHOOSE x \in all : \A y \in all : y = x \/ y \in Ups[x]
    IN  (IF owned[x] # NoApp THEN {owned[x]} ELSE {})
            \union {imp[i].parent : i \in {i \in DOMAIN imp : x \in imp[i].sufs}}

(* No import, and no sequence of imports and failures, changes the label   *)
(* of a host this phone's own rules already label: the longest match is    *)
(* still the local rule (rulepack.go:27-29).                               *)
LocalLabelsKept ==
    \A h \in Host : LongestOwner(owned, h) # NoApp => Labels(h) = {LongestOwner(owned, h)}

(* An imported suffix never lies above a host of another local app         *)
(* (rulepack.go:28), provided the id was always imported for the same      *)
(* parent.                                                                 *)
CoversOnlyOwn ==
    \A i \in DOMAIN imp \ mixed : \A h \in imp[i].sufs : BelowOwners(owned, h) \subseteq {imp[i].parent}

(* The same without the proviso: an entry whose id is already there is     *)
(* filtered for its own attach_to and then merged under the parent of the  *)
(* first import (rulepack.go:792-797 against 843-866).                     *)
CoversOnlyOwnAlways ==
    \A i \in DOMAIN imp : \A h \in imp[i].sufs : BelowOwners(owned, h) \subseteq {imp[i].parent}

(* An import that reports ok has stored all it may keep, also when earlier *)
(* attempts stopped between the two files.                                 *)
OkMeansStored ==
    okPack # NoPack =>
        /\ Kept(owned, okPack) # {} => okPack.id \in DOMAIN imp /\ Kept(owned, okPack) \subseteq imp[okPack.id].sufs
        /\ "k" \in DOMAIN fpImp /\ fpImp["k"] = okPack.id
=============================================================================
