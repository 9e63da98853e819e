------------------------------ MODULE WebAccess ------------------------------
(***************************************************************************)
(* Who may open the WebUI (webui_access.go and bin/webui_guard.sh).        *)
(*                                                                         *)
(* data/webui_access.json is enforced twice.  webui_guard.sh builds the    *)
(* firewall chain HNC_WEBUI from it, run by the action that changes the    *)
(* file and by the watchdog's full restore, without a lock between them.   *)
(* The middleware of hnc_httpd looks at the file for every request that    *)
(* the firewall lets in, through a cache keyed by what stat returned: the  *)
(* stat, the read and the installation of the cache entry are three steps, *)
(* and any number of requests are between them.                            *)
(***************************************************************************)
EXTENDS Naturals, Sequences, FiniteSets, SequencesExt

CONSTANTS
  Guest,         \* remote clients, each with one address
  Hw,            \* hardware addresses a neighbour entry may show
  MaxAccSaves,   \* bound on changes of the configuration
  MaxAccFaults,  \* bound on changed neighbours, failed reads, failed rules
  MaxAccHeals    \* bound on the watchdog's runs of the script

ASSUME AccConstants ==
  /\ {MaxAccSaves, MaxAccFaults, MaxAccHeals} \subseteq Nat
  /\ IsFiniteSet(Hw) /\ "self" \notin Guest

VARIABLES
  accFile,    \* the file: the configuration, its number standing for mtime
  accCache,   \* webuiCfgCache: a number and the configuration read under it
  visit,      \* guest -> its request in the middleware or in the action
  latest,     \* number of the last configuration that was renamed in place
  nbr,        \* the kernel's neighbour table: guest -> hardware address
  neighSnap,  \* the copy of it that hnc_httpd keeps for two seconds
  turned,     \* guests whose neighbour entry has changed (history)
  chain,      \* HNC_WEBUI: the rules in order
  guard,      \* the two runs of the script: who started it -> its progress
  exact,      \* no run of the script has failed or met another (history)
  accCnt      \* counters of the bounds

accVars == <<accFile, accCache, visit, latest, nbr, neighSnap, turned, chain,
             guard, exact, accCnt>>
fileVarsA == <<accFile, latest>>
fireVars == <<chain, guard, exact>>
nbrVars == <<nbr, neighSnap, turned>>

Modes == {"all", "allowlist", "local_only"}
AccCfg == [mode : Modes, list : SUBSET Hw, no : 0..MaxAccSaves,
           by : Guest \cup {"self"}]
Runs == {"action", "watchdog"}
Rules == {<<"pass", h>> : h \in Hw} \cup {<<"pass">>, <<"reject">>}

Away == [at |-> "away"]
Rest == [at |-> "rest"]

\* An empty cache.
NoKey == MaxAccSaves + 1

AccTypeOK ==
  /\ accFile \in AccCfg
  /\ accCache.key \in 0..NoKey /\ accCache.cfg \in AccCfg
  /\ \A g \in Guest : visit[g].at \in {"away", "parse", "install", "decide"}
  /\ latest \in 0..MaxAccSaves
  /\ nbr \in [Guest -> Hw] /\ neighSnap \in [Guest -> Hw]
  /\ turned \subseteq Guest
  /\ chain \in Seq(Rules)
  /\ \A r \in Runs : guard[r].at \in {"rest", "read", "flushed", "listed"}
  /\ exact \in BOOLEAN
  /\ accCnt.faults \in 0..MaxAccFaults /\ accCnt.heals \in 0..MaxAccHeals

FirstCfg == [mode |-> "all", list |-> {}, no |-> 0, by |-> "self"]

\* The phone has started: service.sh has built the chain, nothing is cached.
AccInit ==
  /\ accFile = FirstCfg /\ latest = 0
  /\ accCache = [key |-> NoKey, cfg |-> FirstCfg]
  /\ visit = [g \in Guest |-> Away]
  /\ nbr \in {f \in [Guest -> Hw] : IsInjective(f)}
  /\ neighSnap = nbr /\ turned = {}
  /\ chain = <<<<"pass">>>>
  /\ guard = [r \in Runs |-> Rest] /\ exact = TRUE
  /\ accCnt = [faults |-> 0, heals |-> 0]

AccFault ==
  /\ accCnt.faults < MaxAccFaults
  /\ accCnt' = [accCnt EXCEPT !.faults = @ + 1]

-----------------------------------------------------------------------------
(* loadWebUIAccess: stat, look, read, install.                             *)

\* webuiClientAllowed under webuiAccessDecision, for a hardware address.
Lets(cfg, h) == cfg.mode = "all" \/ (cfg.mode = "allowlist" /\ h \in cfg.list)

\* What the chain does with a packet: the first rule that matches.
ChainLets(h) ==
  LET hits == {i \in DOMAIN chain :
                 chain[i] \in {<<"pass">>, <<"pass", h>>, <<"reject">>}}
  IN IF hits = {} THEN TRUE
     ELSE chain[CHOOSE i \in hits : \A j \in hits : i <= j] # <<"reject">>

\* The stat at the start of a load, and the cached answer when it matches.
\* The request remembers which configuration was in force when it began.
Loading(why) ==
  IF accCache.key = accFile.no
  THEN [at |-> "decide", why |-> why, from |-> latest, key |-> accFile.no,
        cfg |-> accCache.cfg]
  ELSE [at |-> "parse", why |-> why, from |-> latest, key |-> accFile.no,
        cfg |-> FirstCfg]

\* Nobody is in the action: actionMu, held until the script has ended.
NobodySets ==
  /\ \A g \in Guest : visit[g].at # "away" => visit[g].why = "serve"
  /\ guard["action"].at = "rest"

\* A request that the firewall lets in, or the handler of webui_access_set.
Arrive(g, why) ==
  /\ visit[g].at = "away" /\ ChainLets(nbr[g])
  /\ why = "set" => NobodySets /\ latest < MaxAccSaves
  /\ visit' = [visit EXCEPT ![g] = Loading(why)]
  /\ UNCHANGED <<fileVarsA, accCache, nbrVars, fireVars, accCnt>>

\* parseWebUIAccess: what cannot be read counts as local_only with an empty list, and
\* goes into the cache like any other configuration.
Unread == [accFile EXCEPT !.mode = "local_only", !.list = {}]
Parse(g) ==
  /\ visit[g].at = "parse"
  /\ \/ /\ visit' = [visit EXCEPT ![g].at = "install", ![g].cfg = accFile]
        /\ UNCHANGED accCnt
     \/ /\ AccFault
        /\ visit' = [visit EXCEPT ![g].at = "install", ![g].cfg = Unread]
  /\ UNCHANGED <<fileVarsA, accCache, nbrVars, fireVars>>

\* Mutant: the file is looked at again when the entry is made.
InstallAtLast(g) ==
  /\ visit[g].at = "install"
  /\ accCache' = [key |-> accFile.no, cfg |-> visit[g].cfg]
  /\ visit' = [visit EXCEPT ![g].at = "decide"]
  /\ UNCHANGED <<fileVarsA, nbrVars, fireVars, accCnt>>

InstallCfg(g) ==
  /\ visit[g].at = "install"
  /\ accCache' = [key |-> visit[g].key, cfg |-> visit[g].cfg]
  /\ visit' = [visit EXCEPT ![g].at = "decide"]
  /\ UNCHANGED <<fileVarsA, nbrVars, fireVars, accCnt>>

\* neighborMAC: the copy is used while it is young, then taken again.
LookUp == neighSnap' \in {neighSnap, nbr} /\ UNCHANGED <<nbr, turned>>

\* The middleware answers: served, or 403.
Serve(g) ==
  /\ visit[g].at = "decide" /\ visit[g].why = "serve"
  /\ LookUp
  /\ visit' = [visit EXCEPT ![g] = Away]
  /\ UNCHANGED <<fileVarsA, accCache, fireVars, accCnt>>

-----------------------------------------------------------------------------
(* actionWebUIAccessSet.                                                   *)

\* A remote client may not shut itself out.
LocksOut(new, h) == ~Lets(new, h)

\* The file is replaced and the script is started on it.
Saved(new) ==
  /\ accFile' = new /\ latest' = new.no
  /\ guard' = [guard EXCEPT !["action"] = [at |-> "read", cfg |-> new]]
  /\ exact' = (guard["watchdog"].at = "rest") /\ UNCHANGED chain

\* The mode, and the list given or the one in force.
SetAccess(g) ==
  /\ visit[g].at = "decide" /\ visit[g].why = "set"
  /\ LookUp
  /\ \E mode \in Modes, list \in (SUBSET Hw) \cup {visit[g].cfg.list} :
       LET new == [mode |-> mode, list |-> list, no |-> latest + 1, by |-> g]
       IN IF LocksOut(new, neighSnap'[g])
          THEN UNCHANGED <<fileVarsA, fireVars>>
          ELSE Saved(new)
  /\ visit' = [visit EXCEPT ![g] = Away]
  /\ UNCHANGED <<accCache, accCnt>>

\* The same from the phone itself, which is never shut out.
SetLocally ==
  /\ NobodySets /\ latest < MaxAccSaves
  /\ \E mode \in Modes, list \in SUBSET Hw :
       Saved([mode |-> mode, list |-> list, no |-> latest + 1, by |-> "self"])
  /\ UNCHANGED <<accCache, visit, nbrVars, accCnt>>

-----------------------------------------------------------------------------
(* webui_guard.sh apply.                                                   *)

\* read_conf by a run that the watchdog starts.
WatchdogApplies ==
  /\ guard["watchdog"].at = "rest" /\ accCnt.heals < MaxAccHeals
  /\ accCnt' = [accCnt EXCEPT !.heals = @ + 1]
  /\ guard' = [guard EXCEPT !["watchdog"] = [at |-> "read", cfg |-> accFile]]
  /\ exact' = (guard["action"].at = "rest")
  /\ UNCHANGED <<fileVarsA, accCache, visit, nbrVars, chain>>

\* The rules a configuration adds, up to the last one; their order is of no
\* account.
ListRules(cfg) ==
  IF cfg.mode # "allowlist" THEN <<>>
  ELSE [i \in 1..Cardinality(cfg.list) |-> <<"pass", SetToSeq(cfg.list)[i]>>]

LastRule(cfg) == IF cfg.mode = "all" THEN <<"pass">> ELSE <<"reject">>

Flush(r) ==
  /\ guard[r].at = "read" /\ chain' = <<>>
  /\ guard' = [guard EXCEPT ![r].at = "flushed"]
  /\ UNCHANGED <<fileVarsA, accCache, visit, nbrVars, exact, accCnt>>

AddList(r) ==
  /\ guard[r].at = "flushed"
  /\ chain' = chain \o ListRules(guard[r].cfg)
  /\ guard' = [guard EXCEPT ![r].at = "listed"]
  /\ UNCHANGED <<fileVarsA, accCache, visit, nbrVars, exact, accCnt>>

AddLast(r) ==
  /\ guard[r].at = "listed"
  /\ chain' = Append(chain, LastRule(guard[r].cfg))
  /\ guard' = [guard EXCEPT ![r] = Rest]
  /\ UNCHANGED <<fileVarsA, accCache, visit, nbrVars, exact, accCnt>>

\* A rule of the list is refused: the script says so and goes on with the next.
SkipRules(r) ==
  /\ guard[r].at = "flushed" /\ AccFault /\ exact' = FALSE
  /\ \E some \in SUBSET guard[r].cfg.list :
       chain' = chain \o ListRules([guard[r].cfg EXCEPT !.list = some])
  /\ guard' = [guard EXCEPT ![r].at = "listed"]
  /\ UNCHANGED <<fileVarsA, accCache, visit, nbrVars>>

\* Another rule is refused: the script gives up where it is.
GuardFails(r) ==
  /\ guard[r].at # "rest" /\ AccFault
  /\ guard' = [guard EXCEPT ![r] = Rest] /\ exact' = FALSE
  /\ UNCHANGED <<fileVarsA, accCache, visit, nbrVars, chain>>

\* A guest comes back with another hardware address.
Turn(g) ==
  /\ AccFault
  /\ \E h \in Hw \ {nbr[g]} : nbr' = [nbr EXCEPT ![g] = h]
  /\ turned' = turned \cup {g}
  /\ UNCHANGED <<fileVarsA, accCache, visit, neighSnap, fireVars>>

AccNext ==
  \/ \E g \in Guest :
       \/ \E why \in {"serve", "set"} : Arrive(g, why)
       \/ Parse(g) \/ InstallCfg(g) \/ Serve(g) \/ SetAccess(g) \/ Turn(g)
  \/ SetLocally \/ WatchdogApplies
  \/ \E r \in Runs :
       Flush(r) \/ AddList(r) \/ SkipRules(r) \/ AddLast(r) \/ GuardFails(r)

AccSpec == AccInit /\ [][AccNext]_accVars

-----------------------------------------------------------------------------
(* A request is judged by the configuration that was in force when it      *)
(* arrived or by a later one, whatever other requests do to the cache in   *)
(* between (loadWebUIAccess): a change that has been answered holds for    *)
(* every request after it, also while the firewall is open or late.  When  *)
(* the read of that configuration failed, it is judged by local_only in    *)
(* its place, and so is every request until the file changes.              *)
JudgedByLatest ==
  \A g \in Guest :
    visit[g].at = "decide" => visit[g].cfg.no >= visit[g].from

(* A guest whose own change is in force is let in by it, as long as its    *)
(* hardware address has not changed (self_lockout, actionWebUIAccessSet).  *)
NoSelfLockout ==
  \A g \in Guest :
    (accFile.by = g /\ g \notin turned) => Lets(accFile, nbr[g])

(* Once the script has run for the last change and neither failed nor met  *)
(* another run, the firewall lets in exactly whom the file lets in         *)
(* (webui_guard.sh: flush, then rebuild).                                  *)
FirewallExact ==
  (exact /\ \A r \in Runs : guard[r].at = "rest")
    => \A h \in Hw : ChainLets(h) <=> Lets(accFile, h)

(* The same without the condition on other runs (webui_guard.sh: "repeated *)
(* runs do not stack"); not kept: two runs at once leave the rules of both.*)
FirewallAlwaysExact ==
  (accCnt.faults = 0 /\ \A r \in Runs : guard[r].at = "rest")
    => \A h \in Hw : ChainLets(h) <=> Lets(accFile, h)
=============================================================================
