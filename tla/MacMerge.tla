------------------------------ MODULE MacMerge ------------------------------
(***************************************************************************)
(* device_merge: everything stored under the old MAC of a phone is moved   *)
(* to its new MAC (mac_merge_action.go), and the alias table old -> new    *)
(* (mac_alias.go).                                                         *)
(*                                                                         *)
(* deviceMerge reads all stores, refuses a conflict, and then runs its     *)
(* steps: "rules" (one action of the normal path per setting, each with a  *)
(* reverse action), the snapshot files, the connection blocks (file, then  *)
(* a sync script), the policies of the limit controller (memory, then      *)
(* file) and last the alias table, the commit point.  A failing step i     *)
(* undoes i, i-1, ..., 1.  After the commit the settings of the old MAC    *)
(* are removed one by one; a failure there is only a warning.              *)
(*                                                                         *)
(* actionMu serialises the actions, so one merge runs at a time; hnc_httpd *)
(* may be killed between any two steps.                                    *)
(*                                                                         *)
(* Data: a setting is a small number, 0 = not set.  "names" stands for the *)
(* four stores that are one JSON file with a whole-file snapshot           *)
(* (device_names, device_ident_override, app_limits, app_controls).  The   *)
(* switches sqm and whitelist have the shape of bl and are left out, and   *)
(* so is the bookkeeping after the commit (known devices, suggestions,     *)
(* usage sums).  The target of a merge is not under an overlay of the      *)
(* limit controller.                                                       *)
(***************************************************************************)
EXTENDS Naturals, Sequences, FiniteSets

CONSTANTS Mac, Old, New,    \* the MACs; the two that carry settings at first
          MaxMerges,        \* device_merge requests
          MaxFail,          \* failing writes, scripts and actions, and kills
          MaxCrash          \* kills of hnc_httpd among them

ASSUME MergeAssumption ==
    /\ {Old, New} \subseteq Mac /\ Old # New
    /\ {MaxMerges, MaxFail, MaxCrash} \subseteq Nat

VARIABLES
    rules,      \* rules.json and the kernel: [Mac -> Settings]
    base,       \* what the limit controller holds as the manual limit
    names, conn, live, polFile, polMem,     \* [Mac -> 0..2] each
    alias,      \* data/mac_aliases.json
    mg,         \* the running merge
    seen,       \* what deviceMerge read at its start
    owed,       \* history: the settings the user may count on, per MAC
    forced,     \* history: targets of a forced merge that did not commit
    spent       \* faults so far

stores == <<rules, names, conn, live, polFile, polMem>>
mergeVars == <<stores, base, alias, mg, seen, owed, forced, spent>>

NoBase == 9
Field == {"bl", "lim", "dly", "qos"}
Setting == Field \union {"name", "conn", "pol"}
Empty == [x \in Field |-> 0]
RuleState == {r \in [Field -> 0..2] : r["bl"] <= 1 /\ r["dly"] <= 1 /\ r["qos"] <= 1}
Rule == {r \in RuleState : r["dly"] = 0 \/ r["qos"] = 0}
Step == <<"rules", "names", "conn", "policy", "alias">>
IdleMerge == [pc |-> "idle", from |-> Old, to |-> New, force |-> FALSE,
              i |-> 0, op |-> 0, warned |-> FALSE, broke |-> FALSE, left |-> {}]

\* ctlBase and withBase: under an overlay of the controller the wish of the
\* user is the base, not what rules.json shows.
Want(m) == [rules[m] EXCEPT !["lim"] = IF base[m] = NoBase THEN @ ELSE base[m]]

Held(m) == [x \in Setting |-> IF x \in Field THEN Want(m)[x] ELSE IF x = "name" THEN names[m]
                              ELSE IF x = "conn" THEN conn[m] ELSE polFile[m]]

Nothing == [x \in Setting |-> 0]

MergeInit ==
    \E r1, r2 \in Rule, x \in 0..1, y \in {0, 2}, b \in {NoBase, 1} :
        /\ r1["lim"] \in {0, x} /\ r1["bl"] = x /\ b = (IF r1["lim"] = 1 /\ y = 0 THEN 1 ELSE NoBase)
        /\ r2["lim"] \in {0, y} /\ r2["bl"] = 0
        /\ rules = [m \in Mac |-> IF m = Old THEN IF b = 1 THEN [r1 EXCEPT !["lim"] = 2] ELSE r1
                                  ELSE IF m = New THEN r2 ELSE Empty]
        /\ base = [m \in Mac |-> IF m = Old THEN b ELSE NoBase]
        /\ names = [m \in Mac |-> IF m = Old THEN x ELSE IF m = New THEN y ELSE 0]
        /\ conn = [m \in Mac |-> IF m = Old THEN x ELSE 0] /\ live = conn
        /\ polFile = names /\ polMem = polFile
        /\ alias = << >> /\ mg = IdleMerge /\ seen = << >> /\ forced = {}
        /\ owed = [m \in Mac |-> Held(m)]
        /\ spent = [merges |-> 0, fail |-> 0, crash |-> 0]

Fail == spent.fail < MaxFail /\ spent' = [spent EXCEPT !.fail = @ + 1]

-----------------------------------------------------------------------------
(* The rule actions of the "rules" step, in the order of the code.  A      *)
(* field that already has the wished value is not touched.                 *)
OpField == <<"bl", "lim", "qos", "dly", "dly", "qos">>
Clears == {3, 5}       \* the exclusive other one is switched off first
Rival(x) == IF x = "qos" THEN "dly" ELSE "qos"
OpValue(o, k) == IF k \in Clears THEN 0 ELSE o[OpField[k]]
RuleOps(o, n) ==
    {k \in 1..6 : LET x == OpField[k]
                  IN  IF k \in Clears THEN o[x] = 0 /\ n[x] # 0 /\ o[Rival(x)] # 0
                      ELSE o[x] # 0 /\ o[x] # n[x]}

\* realMergeOps.rule routes the action names it knows; app_qos_set is not one
\* of them and gets "unknown action".
Dispatches(f) == f # "qos"

Conflict(f, t) ==
    \/ Want(f)["lim"] # 0 /\ Want(t)["lim"] # 0 /\ Want(f)["lim"] # Want(t)["lim"]
    \/ \E x \in {"dly", "qos"} : rules[f][Rival(x)] # 0 /\ rules[f][x] = 0 /\ rules[t][x] # 0
    \/ names[f] # 0 /\ names[t] # 0 /\ names[f] # names[t]
    \/ polMem[f] # 0 /\ polMem[t] # 0 /\ polMem[f] # polMem[t]

\* device_merge: conflict check, the online check (offline is the same
\* refusal, it changes nothing) and the start of the steps.
StartMerge ==
    \E f, t \in Mac, force \in BOOLEAN :
        /\ mg.pc = "idle" /\ f # t /\ base[t] = NoBase /\ spent.merges < MaxMerges
        /\ force = Conflict(f, t)    \* without a conflict force changes nothing
        /\ spent' = [spent EXCEPT !.merges = @ + 1]
        /\ seen' = [old |-> Want(f), new |-> rules[t], rules |-> rules,
                    names |-> names, conn |-> conn, pol |-> polMem, polFile |-> polFile, alias |-> alias,
                    live |-> live, forced |-> forced]
        /\ mg' = [IdleMerge EXCEPT !.pc = "do", !.from = f, !.to = t, !.force = force, !.i = 1]
        /\ forced' = IF force THEN forced \union {t} ELSE forced
        /\ UNCHANGED <<stores, base, alias, owed>>

\* Mutant: the step that failed is not undone itself.
SkipFailed(broke, torn) ==
    mg' = [mg EXCEPT !.pc = IF mg.i = 1 THEN "failed" ELSE "undo", !.i = @ - 1, !.broke = broke, !.left = torn]

\* A step that fails is undone with the ones before it; torn is what a script
\* had changed already when it failed.
StepFails(broke, torn) == mg' = [mg EXCEPT !.pc = "undo", !.broke = broke, !.left = torn]
StepDone == mg' = [mg EXCEPT !.i = @ + 1]

\* One rule action; the whole step ends when none is left.  An action that
\* reports a failure may have changed the kernel or the file nevertheless, and
\* its reverse is not among the undos yet.
RulesStep ==
    LET left == {k \in RuleOps(seen.old, seen.new) : k > mg.op}
    IN  /\ mg.pc = "do" /\ Step[mg.i] = "rules"
        /\ \/ left = {} /\ StepDone /\ UNCHANGED <<rules, spent>>
           \/ \E k \in left :
                 /\ \A j \in left : k <= j
                 /\ \/ /\ Dispatches(OpField[k])
                       /\ rules' = [rules EXCEPT ![mg.to][OpField[k]] = OpValue(seen.old, k)]
                       /\ \/ mg' = [mg EXCEPT !.op = k] /\ UNCHANGED spent
                          \/ Fail /\ StepFails(TRUE, {OpField[k]})
                    \/ ~Dispatches(OpField[k]) /\ StepFails(FALSE, {}) /\ UNCHANGED <<rules, spent>>
                    \/ Dispatches(OpField[k]) /\ Fail /\ StepFails(TRUE, {}) /\ UNCHANGED rules
        /\ UNCHANGED <<base, names, conn, live, polFile, polMem, alias, seen, owed, forced>>

\* The setting of the old MAC is copied to the new one, and removed from the
\* old one after the commit.
Copied(s) == [s EXCEPT ![mg.to] = s[mg.from]]
Removed(s) == [s EXCEPT ![mg.from] = 0]

\* A snapshot file: skipped when there is nothing to move.
NamesStep ==
    /\ mg.pc = "do" /\ Step[mg.i] = "names"
    /\ IF names[mg.from] # 0 /\ (names[mg.to] = 0 \/ mg.force)
       THEN \/ names' = Copied(names) /\ StepDone /\ UNCHANGED spent
            \/ Fail /\ StepFails(TRUE, {}) /\ UNCHANGED names
       ELSE StepDone /\ UNCHANGED <<names, spent>>
    /\ UNCHANGED <<rules, base, conn, live, polFile, polMem, alias, seen, owed, forced>>

\* The connection blocks: the file first, then the sync script.  When the file
\* is not written there is nothing to undo, and synced is not set.
ConnStep ==
    /\ mg.pc = "do" /\ Step[mg.i] = "conn"
    /\ IF conn[mg.from] # 0
       THEN \/ /\ conn' = [conn EXCEPT ![mg.to] = 1]
               /\ \/ live' = conn' /\ StepDone /\ UNCHANGED spent
                  \/ Fail /\ StepFails(TRUE, {}) /\ UNCHANGED live
            \/ /\ Fail /\ mg' = [mg EXCEPT !.pc = "undo", !.i = @ - 1, !.broke = TRUE]
               /\ UNCHANGED <<conn, live>>
       ELSE StepDone /\ UNCHANGED <<conn, live, spent>>
    /\ UNCHANGED <<rules, base, names, polFile, polMem, alias, seen, owed, forced>>

\* The policies: the memory of the controller first, then the file.
PolicyStep ==
    /\ mg.pc = "do" /\ Step[mg.i] = "policy"
    /\ IF polMem[mg.from] # 0
       THEN /\ polMem' = [polMem EXCEPT ![mg.to] = IF @ = 0 \/ mg.force THEN polMem[mg.from] ELSE @]
            /\ \/ polFile' = polMem' /\ StepDone /\ UNCHANGED spent
               \/ Fail /\ StepFails(TRUE, {}) /\ UNCHANGED polFile
       ELSE StepDone /\ UNCHANGED <<polMem, polFile, spent>>
    /\ UNCHANGED <<rules, base, names, conn, live, alias, seen, owed, forced>>

\* addMACAlias
AddAlias(al, f, t) ==
    [m \in (DOMAIN al \ {t}) \union {f} |-> IF m = f \/ al[m] = f THEN t ELSE al[m]]

Merged(o, n) == [x \in Setting |-> IF o[x] # 0 THEN o[x] ELSE n[x]]

\* What the user may count on under a MAC that a cut off forced merge wrote to.
Due(m) == [x \in Setting |-> IF m \in forced /\ owed[m][x] # 0 THEN Held(m)[x] ELSE owed[m][x]]

\* The commit point: from here on the settings belong to the new MAC.
AliasStep ==
    /\ mg.pc = "do" /\ Step[mg.i] = "alias"
    /\ \/ /\ alias' = AddAlias(alias, mg.from, mg.to)
          /\ mg' = [mg EXCEPT !.pc = "clean", !.i = 1] /\ UNCHANGED spent
          /\ owed' = [owed EXCEPT ![mg.to] = Merged(Due(mg.from), Due(mg.to)), ![mg.from] = Nothing]
          /\ forced' = forced \ {mg.to, mg.from}
       \/ Fail /\ StepFails(TRUE, {}) /\ UNCHANGED <<alias, owed, forced>>
    /\ UNCHANGED <<stores, base, seen>>

-----------------------------------------------------------------------------
(* The roll back: the steps i, i-1, ..., 1, the rule actions in reverse.   *)
(* The outcome of an undo is not looked at: what could not be put back     *)
(* stays, and the next undo follows.                                       *)

\* What the undo of a step may leave behind.
Undone(st) ==
    CASE st = "rules" -> {x \in Field : rules[mg.to][x] # seen.new[x]}
      [] st = "names" -> IF names # seen.names THEN {"name"} ELSE {}
      [] st = "conn" -> IF conn[mg.from] # 0 THEN {"conn", "live"} ELSE {}
      [] st = "policy" -> IF polFile # seen.polFile THEN {"pol"} ELSE {}
      [] OTHER -> {}

Undo ==
    LET st == Step[mg.i]
    IN  /\ mg.pc = "undo" /\ mg.i >= 1
        /\ \E stay \in SUBSET Undone(st) :
              /\ IF stay \subseteq mg.left THEN UNCHANGED spent ELSE Fail
              /\ rules' = IF st = "rules"
                          THEN [rules EXCEPT ![mg.to] = [x \in Field |-> IF x \in stay THEN @[x] ELSE seen.new[x]]]
                          ELSE rules
              /\ names' = IF st = "names" /\ stay = {} THEN seen.names ELSE names
              /\ conn'  = IF st = "conn" /\ "conn" \notin stay THEN seen.conn ELSE conn
              /\ live' = IF st = "conn" /\ conn[mg.from] # 0 /\ "live" \notin stay THEN conn' ELSE live
              /\ polMem' = IF st = "policy" THEN seen.pol ELSE polMem
              /\ polFile' = IF st = "policy" /\ stay = {} THEN seen.polFile ELSE polFile
              /\ mg' = [mg EXCEPT !.i = @ - 1, !.pc = IF mg.i = 1 THEN "failed" ELSE @,
                                  !.left = IF st = "rules" THEN (@ \ Field) \cup stay ELSE @ \cup stay]
        /\ UNCHANGED <<base, alias, seen, owed, forced>>

\* The settings of the old MAC go, store by store; what fails stays, rules also
\* in part, and is reported as a warning.
Clean ==
    /\ mg.pc = "clean" /\ mg.i <= 4
    /\ LET st == Step[mg.i]  f == mg.from
       IN  \/ /\ rules' = IF st = "rules" THEN [rules EXCEPT ![f] = Empty] ELSE rules
              /\ names' = IF st = "names" THEN Removed(names) ELSE names
              /\ conn'  = IF st = "conn" THEN Removed(conn) ELSE conn
              /\ IF st = "conn" THEN live' = conn' ELSE UNCHANGED live
              /\ polMem' = IF st = "policy" THEN Removed(polMem) ELSE polMem
              /\ polFile' = IF st = "policy" /\ polMem[f] # 0 THEN polMem' ELSE polFile
              /\ base' = IF st = "policy" THEN [base EXCEPT ![f] = NoBase] ELSE base
              /\ mg' = [mg EXCEPT !.i = @ + 1] /\ UNCHANGED spent
           \/ /\ Fail /\ mg' = [mg EXCEPT !.i = @ + 1, !.warned = TRUE]
              /\ \E some \in SUBSET {x \in Field : rules[f][x] # 0} :
                    rules' = IF st = "rules" THEN [rules EXCEPT ![f] = [x \in Field |-> IF x \in some THEN 0 ELSE @[x]]]
                             ELSE rules
              /\ IF st = "policy"
                 THEN polMem' = Removed(polMem) /\ base' = [base EXCEPT ![f] = NoBase]
                 ELSE UNCHANGED <<polMem, base>>
              /\ UNCHANGED <<names, conn, live, polFile>>
    /\ UNCHANGED <<alias, seen, owed, forced>>

CleanEnds == /\ mg.pc = "clean" /\ mg.i = 5 /\ mg' = [mg EXCEPT !.pc = "done"]
             /\ UNCHANGED <<stores, base, alias, seen, owed, forced, spent>>

\* The answer to the request.  A target that a forced merge wrote to is no longer
\* owed what could not be put back.
Answer ==
    /\ mg.pc \in {"failed", "done"} /\ mg' = IdleMerge /\ seen' = << >>
    /\ forced' = IF mg.pc = "failed" THEN seen.forced ELSE forced
    /\ owed' = IF mg.pc = "failed" /\ mg.to \in forced
               THEN [owed EXCEPT ![mg.to] = [x \in Setting |-> IF x \in mg.left THEN 0 ELSE @[x]]]
               ELSE owed
    /\ UNCHANGED <<stores, base, alias, spent>>

\* hnc_httpd is killed: the memory of the controller is read again from the
\* file; nothing resumes the merge.
Crash ==
    /\ spent.crash < MaxCrash /\ spent.fail < MaxFail /\ mg.pc # "idle"
    /\ spent' = [spent EXCEPT !.crash = @ + 1, !.fail = @ + 1]
    /\ polMem' = polFile /\ mg' = IdleMerge /\ seen' = << >>
    /\ UNCHANGED <<rules, base, names, conn, live, polFile, alias, owed, forced>>

MergeNext == \/ StartMerge \/ RulesStep \/ NamesStep \/ ConnStep \/ PolicyStep \/ AliasStep
             \/ Undo \/ Clean \/ CleanEnds \/ Answer \/ Crash
MergeSpec == MergeInit /\ [][MergeNext]_mergeVars

-----------------------------------------------------------------------------
\* mac_aliases.json: merged MACs and where each went; device_names.json and the other
\* stores that hold one entry per MAC, 0 for none.
AliasFile == UNION {[S -> Mac] : S \in SUBSET Mac}
NameFile == [Mac -> 0..2]
MergeTypeOK ==
    /\ \A m \in Mac : rules[m] \in RuleState
    /\ \A s \in {names, conn, live, polFile, polMem} : s \in NameFile
    /\ alias \in AliasFile
    /\ mg.pc \in {"idle", "do", "undo", "clean", "failed", "done"}

(* A merge that answers "failed, rolled back" has left the alias table and *)
(* the memory of the controller as they were, and the other stores too,    *)
(* whichever step failed and however far it had come, but for the new MAC's*)
(* settings whose own action failed half-way or whose undo failed, and the *)
(* policy file when its undo failed.                                       *)
RolledBack ==
    mg.pc = "failed" =>
        /\ polMem = seen.pol /\ alias = seen.alias
        /\ \A m \in Mac :
              /\ \A x \in Field : rules[m][x] # seen.rules[m][x] => m = mg.to /\ x \in mg.left
              /\ names[m] # seen.names[m] => m = mg.to /\ "name" \in mg.left
              /\ conn[m] # seen.conn[m] => m = mg.to /\ "conn" \in mg.left
        /\ live \notin {conn, seen.live} => "live" \in mg.left
        /\ polFile # seen.polFile => "pol" \in mg.left

(* No setting is lost on the way: at every moment, also after a kill in    *)
(* the middle of a merge, in a roll back or in the removal of the old      *)
(* settings, what the user is owed under a MAC is stored under it.  Only   *)
(* the target of a forced merge that was cut off may have lost its own.    *)
SettingsKept ==
    \A m \in Mac \ forced : \A x \in Setting : owed[m][x] # 0 => Held(m)[x] = owed[m][x]

(* A merge that answers without a warning has left nothing under the old   *)
(* MAC and the alias leads to the new one.                                 *)
CleanMerge ==
    mg.pc = "done" /\ ~mg.warned =>
        /\ \A x \in Setting \ {"pol"} : Held(mg.from)[x] = 0
        /\ polMem[mg.from] = 0
        /\ alias[mg.from] = mg.to

(* The alias table stays flat: the new MAC of an entry is never itself an  *)
(* old MAC, so resolveMACAlias needs one step of its eight and meets no    *)
(* cycle, whatever merges (back and forth, in chains) were made.           *)
FlatAliases == \A m \in DOMAIN alias : alias[m] \notin DOMAIN alias

(* mac_merge_action.go:517 and :130 say the merge also moves app_qos: a    *)
(* merge in which nothing breaks is not rolled back.                       *)
MergesUnlessBroken == mg.pc = "failed" => mg.broke
=============================================================================
