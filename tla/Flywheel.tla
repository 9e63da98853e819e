------------------------------ MODULE Flywheel ------------------------------
(***************************************************************************)
(* How hnc_dpid learns rules from the phone's own traffic: the attribution *)
(* of server names to applications (output/self_attrib.go), the candidate  *)
(* accumulator that promotes a new apex domain to a rule (candidate.go),   *)
(* the expansion of known apexes (auto_expand.go) and the user's answers   *)
(* from hnc_httpd (action_candidate.go, action_flywheel.go).               *)
(*                                                                         *)
(* One name stands for all names of an apex, so the two thresholds of a    *)
(* persistent candidate (windows and hits) are one, PromoteAt.  The files  *)
(* can be read when dpid starts; one that is there and cannot be read      *)
(* would count as empty (auto_expand.go:259).                              *)
(***************************************************************************)
EXTENDS Integers, FiniteSets

CONSTANTS Apex,         \* apex domains no curated rule covers
          Uid,          \* applications
          PromoteAt,    \* candPromoteMinWindows, candPromoteMinHits
          SharedAt,     \* candSharedUIDThreshold
          ConduitAt,    \* conduitApexThreshold
          MaxPromoted,  \* candMaxPromoted
          MaxAge,       \* candMaxAgeSec
          ExpandHits,   \* autoExpandMinHits
          MaxFwDay, MaxSeen, MaxUser, MaxFwFaults   \* bounds of the model

ASSUME FlywheelAssumption ==
  /\ {PromoteAt, SharedAt, ConduitAt, MaxPromoted, ExpandHits} \subseteq Nat \ {0}
  /\ {MaxAge, MaxFwDay, MaxSeen, MaxUser, MaxFwFaults} \subseteq Nat
  /\ IsFiniteSet(Apex) /\ IsFiniteSet(Uid)

VARIABLES
  fwDay,                   \* the clock, in days
  unmatched,               \* unmatchedSNIs: <<apex, uid>> no rule matched
  acc, accFile,            \* the accumulator and candidate_accum.json
  prom, promFile,          \* promoted and _auto_promoted.json
  ruleHits,                \* rulesByUID, for the curated rule of a known apex
  subSeen, expd, expFile,  \* a new name under the known apex; confirmed, its file
  userSaid,                \* [ok, no, excl, auto]: decisions, blocklist, exclusions, flag
  exMem,                   \* the loaded exclusions (refreshed with the package cache)
  lostProm,                \* the last write of the promoted rules failed
  unsaved,                 \* history: apexes whose rule in memory was not the one on
                           \* disk after some tick, until both are gone
  barred,                  \* history: demoted, and nothing has lost the memory of it
  second,                  \* history: promoted, and seen under another application
  tick2,                   \* the rest of a tick, after the rules are written
  fwCnt                    \* [seen, user, faults]
flyVars == <<fwDay, unmatched, acc, accFile, prom, promFile, ruleHits, subSeen,
             expd, expFile, userSaid, exMem, lostProm, unsaved, barred, second, tick2, fwCnt>>

NoCandidate == [uids |-> {}, win |-> 0, last |-> 0, learned |-> FALSE]
NoRule == [uid |-> 0, src |-> "-"]
Ruled(p) == {x \in Apex : p[x] # NoRule}
Bump(f) == fwCnt' = [fwCnt EXCEPT ![f] = @ + 1]

-----------------------------------------------------------------------------
(* Attribution.                                                            *)

\* LookupUID has named the application by the sampled socket table, ObserveSNI
\* looks for a rule on disk: a hit counts, a miss is queued.
ObserveSNI(x, u) ==
  /\ fwCnt.seen < MaxSeen
  /\ x \notin Ruled(promFile)
  /\ <<x, u>> \notin unmatched
  /\ unmatched' = unmatched \union {<<x, u>>}
  /\ Bump("seen")
  /\ UNCHANGED <<fwDay, acc, accFile, prom, promFile, ruleHits, subSeen, expd, expFile, userSaid, exMem, lostProm, unsaved, barred, second, tick2>>

\* The same once a promoted rule covers the apex: a hit of that rule.
MatchedSNI(x, u) ==
  /\ fwCnt.seen < MaxSeen
  /\ x \in Ruled(promFile)
  /\ second' = IF x \in Ruled(prom) /\ prom[x].uid # u THEN second \union {x} ELSE second
  /\ Bump("seen")
  /\ UNCHANGED <<fwDay, unmatched, acc, accFile, prom, promFile, ruleHits, subSeen, expd, expFile, userSaid, exMem, lostProm, unsaved, barred, tick2>>

\* A name of the known apex: covered by its rule, or new.
ObserveKnown(u, new) ==
  /\ fwCnt.seen < MaxSeen
  /\ ~(new /\ expFile)
  /\ ruleHits' = IF new THEN ruleHits
                 ELSE [ruleHits EXCEPT ![u] = IF @ < ExpandHits THEN @ + 1 ELSE @]
  /\ subSeen' = IF new THEN subSeen \union {u} ELSE subSeen
  /\ Bump("seen")
  /\ UNCHANGED <<fwDay, unmatched, acc, accFile, prom, promFile, expd, expFile, userSaid, exMem, lostProm, unsaved, barred, second, tick2>>

\* getPkgCache: every five minutes the exclusions are read again.
PkgCache ==
  /\ exMem # userSaid.excl
  /\ exMem' = userSaid.excl
  /\ UNCHANGED <<fwDay, unmatched, acc, accFile, prom, promFile, ruleHits, subSeen, expd, expFile, userSaid, lostProm, unsaved, barred, second, tick2, fwCnt>>

-----------------------------------------------------------------------------
(* One tick of the expander.                                               *)

\* What the tick folds in: not of an apex some rule has, not of an excluded
\* application.
Folded(pending) == {p \in pending : p[1] \notin Ruled(promFile) /\ p[2] \notin exMem}

Aged(c) == [x \in Apex |-> IF fwDay - c[x].last > MaxAge THEN NoCandidate ELSE c[x]]
Observed(pending) ==
  Aged([x \in Apex |->
    LET us == {u \in Uid : <<x, u>> \in Folded(pending)}
    IN IF us = {} THEN acc[x]
       ELSE [acc[x] EXCEPT !.uids = @ \union us, !.last = fwDay,
                           !.win = IF @ < PromoteAt THEN @ + 1 ELSE @]])

Tier(c, no, x) ==
  IF c.learned \/ x \in no \/ Cardinality(c.uids) >= SharedAt THEN "shared"
  ELSE IF Cardinality(c.uids) # 1 THEN "low"
  ELSE IF c.win >= PromoteAt THEN "high" ELSE "med"

Conduit(c, u) == Cardinality({x \in Apex : u \in c[x].uids}) >= ConduitAt

Learned(c, out) ==
  [x \in Apex |-> IF x \in out /\ c[x] # NoCandidate
                  THEN [c[x] EXCEPT !.learned = TRUE] ELSE c[x]]

\* First pass: rules of an excluded application, and automatic rules of a conduit.
ByExclusion(c) ==
  {x \in Ruled(prom) : \/ prom[x].uid \in exMem
                       \/ prom[x].src = "auto" /\ Conduit(c, prom[x].uid)}
\* Second pass, over the accumulator only.
ByContradiction(c, left) ==
  {x \in left : c[x] # NoCandidate
     /\ (Tier(c[x], userSaid.no, x) = "shared" \/ Cardinality(c[x].uids) > 1)}
Eligible(c, left) ==
  {x \in Apex \ left :
     /\ Tier(c[x], userSaid.no, x) \in {"high", "med"}
     /\ \/ x \in userSaid.ok
        \/ /\ ~Conduit(c, CHOOSE u \in c[x].uids : TRUE)
           /\ Tier(c[x], userSaid.no, x) = "high" /\ userSaid.auto}
NewRule(c, x) == [uid |-> CHOOSE u \in c[x].uids : TRUE,
                  src |-> IF x \in userSaid.ok THEN "manual" ELSE "auto"]

RunChanged(first, again, fresh) == first \union again \union fresh # {}

\* processCandidates, up to the write of the rules.  The order of a map decides
\* who gets the last places.
ProcessCandidates ==
  LET c0 == Observed(unmatched)
      first == ByExclusion(c0)
      c1 == Learned(c0, first)
      left == Ruled(prom) \ first
      again == ByContradiction(c1, left)
      want == Eligible(c1, left)
  IN \E fresh \in SUBSET want :
       LET c2 == Learned(c1, again)
           p2 == [x \in Apex |-> IF x \in fresh THEN NewRule(c1, x)
                                 ELSE IF x \in first \union again THEN NoRule ELSE prom[x]]
           write == RunChanged(first, again, fresh)
       IN /\ Cardinality(Ruled(p2)) <= MaxPromoted \/ fresh = {}
          /\ \/ fresh = want
             \/ Cardinality(left) + Cardinality(fresh) >= MaxPromoted
          /\ acc' = c2 /\ prom' = p2
          /\ \E ok \in BOOLEAN :
               /\ ok \/ (write /\ fwCnt.faults < MaxFwFaults)
               /\ promFile' = IF write /\ ok THEN p2 ELSE promFile
               /\ lostProm' = IF write THEN ~ok ELSE lostProm
               /\ fwCnt' = [fwCnt EXCEPT !.faults = IF ok THEN @ ELSE @ + 1]
          /\ unsaved' = (unsaved \union {x \in Apex : p2[x] # promFile'[x]})
                           \intersect (Ruled(p2) \union Ruled(promFile'))
          /\ barred' = ((barred \ {x \in Apex : c2[x] = NoCandidate})
                          \union {x \in first \union again : c2[x] # NoCandidate})

ExpanderTick ==
  /\ ~tick2.on
  /\ ProcessCandidates
  /\ tick2' = [on |-> TRUE, subs |-> subSeen]
  /\ unmatched' = {} /\ subSeen' = {} /\ second' = second \intersect Ruled(prom')
  /\ UNCHANGED <<fwDay, accFile, ruleHits, expd, expFile, userSaid, exMem>>

\* The tick saves the accumulator, silently if that fails, and goes on with the
\* known apex: enough hits of an application that is not excluded confirm the
\* name; a failed write of it is not tried again.
Confirmed == ~expd /\ \E u \in tick2.subs : u \notin exMem /\ ruleHits[u] >= ExpandHits
TickRest ==
  /\ tick2.on
  /\ tick2' = [on |-> FALSE, subs |-> {}]
  /\ \E failed \in SUBSET {"accum", "expand"} :
       /\ fwCnt.faults + Cardinality(failed) <= MaxFwFaults
       /\ "expand" \in failed => Confirmed
       /\ accFile' = IF "accum" \in failed THEN accFile ELSE acc
       /\ expd' = (expd \/ Confirmed)
       /\ expFile' = IF Confirmed THEN "expand" \notin failed ELSE expFile
       /\ fwCnt' = [fwCnt EXCEPT !.faults = @ + Cardinality(failed)]
  /\ UNCHANGED <<fwDay, unmatched, acc, prom, promFile, ruleHits, subSeen, userSaid, exMem, lostProm, unsaved, barred, second>>

\* dpid dies at any point; RunAutoExpander and the aggregator start from the files.
DpidRestart ==
  /\ fwCnt.faults < MaxFwFaults
  /\ acc' = Aged(accFile) /\ prom' = promFile /\ expd' = expFile
  /\ unmatched' = {} /\ subSeen' = {} /\ ruleHits' = [u \in Uid |-> 0]
  /\ tick2' = [on |-> FALSE, subs |-> {}]
  /\ exMem' = userSaid.excl /\ lostProm' = FALSE /\ second' = {}
  /\ unsaved' = unsaved \intersect Ruled(promFile)
  /\ Bump("faults")
  /\ barred' = IF accFile = acc /\ promFile = prom
               THEN barred \ {x \in Apex : acc'[x] = NoCandidate} ELSE {}
  /\ UNCHANGED <<fwDay, accFile, promFile, expFile, userSaid>>

-----------------------------------------------------------------------------
(* The user, by hnc_httpd; one unit of time.                               *)

UserSays(f, v) ==
  /\ fwCnt.user < MaxUser
  /\ userSaid[f] # v
  /\ userSaid' = [userSaid EXCEPT ![f] = v]
  /\ Bump("user")
  /\ UNCHANGED <<fwDay, unmatched, acc, accFile, prom, promFile, ruleHits, subSeen, expd, expFile, exMem, lostProm, unsaved, barred, second, tick2>>
CandidatePromote(x) == UserSays("ok", userSaid.ok \union {x})
CandidateReject(x) == UserSays("no", userSaid.no \union {x})
FlywheelExclude(us) == UserSays("excl", us)
AutoPromote == UserSays("auto", ~userSaid.auto)

DayPasses ==
  /\ fwDay < MaxFwDay
  /\ fwDay' = fwDay + 1
  /\ UNCHANGED <<unmatched, acc, accFile, prom, promFile, ruleHits, subSeen, expd, expFile, userSaid, exMem, lostProm, unsaved, barred, second, tick2, fwCnt>>

FlyInit ==
  /\ fwDay = 0 /\ unmatched = {} /\ subSeen = {}
  /\ acc = [x \in Apex |-> NoCandidate] /\ accFile = acc
  /\ prom = [x \in Apex |-> NoRule] /\ promFile = prom
  /\ ruleHits = [u \in Uid |-> 0] /\ expd = FALSE /\ expFile = FALSE
  /\ userSaid = [ok |-> {}, no |-> {}, excl |-> {}, auto |-> TRUE]
  /\ exMem = {} /\ lostProm = FALSE /\ unsaved = {} /\ barred = {} /\ second = {}
  /\ tick2 = [on |-> FALSE, subs |-> {}]
  /\ fwCnt = [seen |-> 0, user |-> 0, faults |-> 0]

FlyNext ==
  \/ \E x \in Apex, u \in Uid : ObserveSNI(x, u) \/ MatchedSNI(x, u)
  \/ \E u \in Uid, new \in BOOLEAN : ObserveKnown(u, new)
  \/ PkgCache \/ ExpanderTick \/ TickRest \/ DpidRestart
  \/ \E x \in Apex : CandidatePromote(x) \/ CandidateReject(x)
  \/ \E us \in SUBSET Uid : FlywheelExclude(us)
  \/ AutoPromote \/ DayPasses
FlySpec == FlyInit /\ [][FlyNext]_flyVars

-----------------------------------------------------------------------------
FlyTypeOK ==
  /\ fwDay \in 0..MaxFwDay
  /\ unmatched \subseteq Apex \X Uid /\ subSeen \subseteq Uid
  /\ \A x \in Apex : /\ acc[x].uids \subseteq Uid /\ acc[x].win \in 0..PromoteAt
                     /\ prom[x].uid \in Uid \union {0} /\ prom[x].src \in {"-", "auto", "manual"}
  /\ ruleHits \in [Uid -> 0..ExpandHits]
  /\ {expd, expFile, lostProm, tick2.on} \subseteq BOOLEAN
  /\ exMem \subseteq Uid /\ unsaved \subseteq Apex /\ barred \subseteq Apex /\ second \subseteq Apex
  /\ Cardinality(Ruled(prom)) <= MaxPromoted

\* The accumulator has seen a promoted apex under at most one application, and
\* that is the rule's, wherever the process died and whatever was not saved,
\* unless the rule itself was off the disk for a while: the apex is then seen
\* again, and under another application once its record has aged out
\* (candidate.go processCandidates: "single-uid").
PromotedSingle ==
  \A x \in Ruled(prom) : /\ Cardinality(acc[x].uids) <= 1
                         /\ x \notin unsaved => acc[x].uids \subseteq {prom[x].uid}

\* An automatic rule never belongs to an application the accumulator shows to be
\* a conduit, at the end of a tick and after a restart, unless its demotion was
\* not written and the restart brings it back (candidate.go:262-293).
ConduitOut ==
  \A x \in Ruled(prom) \ unsaved : prom[x].src = "auto" => ~Conduit(acc, prom[x].uid)

\* A demoted apex is not promoted again as long as its record has not aged out
\* and no crash or failed write has lost it (SharedLearned).
DemotedStaysOut == barred \intersect Ruled(prom) = {}

\* When the last write went through, the rules on disk are the promoted ones,
\* so that what was demoted labels no traffic (writePromotedRules).
RulesOnDisk == ~lostProm => promFile = prom

\* NOT kept: "If an already-promoted apex later shows up under a 2nd uid ... it is
\* auto-demoted" (candidate.go:30-33).  The rule itself keeps the apex out of the
\* queue, and apexHasRule keeps it out of the accumulator.
SelfCorrects == [][ExpanderTick => second \intersect Ruled(prom') = {}]_flyVars
=============================================================================
