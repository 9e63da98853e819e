----------------------------- MODULE MacSuggest -----------------------------
(***************************************************************************)
(* Suggestions "this new MAC is that old device" (mac_merge.go): a round   *)
(* every 30 s observes the devices, reads the aliases, and only then takes *)
(* macMergeMu, loads mac_merge_suggestions.json, works on it and saves it. *)
(* The user dismisses a suggestion or merges the two MACs meanwhile.       *)
(*                                                                         *)
(* What makes a score is left to the input: for a pair of profiles the     *)
(* identity signals are worth nothing, enough to suggest, or enough to     *)
(* alert.  Names, JA4 and application lists are part of that input.        *)
(***************************************************************************)
EXTENDS Integers, FiniteSets

CONSTANTS Macs,
          Randomised,          \* isRandomizedMAC
          NewWindow,           \* macMergeNewWindow
          CandMaxAge, ProfileTTL, DismissTTL, Slop,
          MaxProfiles, TopN,
          MaxClk, MaxDismissals, MaxMerged, MaxBadSaves

ASSUME SuggestAssumption ==
    /\ Randomised \subseteq Macs
    /\ {NewWindow, CandMaxAge, ProfileTTL, DismissTTL, Slop, MaxProfiles, TopN, MaxClk,
        MaxDismissals, MaxMerged, MaxBadSaves} \subseteq Nat
    /\ MaxClk > 0

VARIABLES
    clk,
    score,      \* what the identity signals of a pair are worth: 0, 40, 60
    prof,       \* profiles: first, last, new; last = -1 for none
    sugg,       \* suggestions: new MAC -> candidates
    dismissed,  \* <<new, old>> -> time, -1 for none
    alerted,    \* new MAC -> time of its alert, -1
    booted,     \* bootstrapped
    gone,       \* mac_aliases.json: MACs that were merged away
    tickObs,    \* a round between its observation and the lock
    told,       \* history: alerts per MAC since its profile was made
    behind,     \* history: the last save was made with an older alias file
    sgCnt

suggVars == <<clk, score, prof, sugg, dismissed, alerted, booted, gone, tickObs, told, behind, sgCnt>>
fileVars == <<prof, sugg, dismissed, alerted, booted>>

NoProfile == [first |-> -1, last |-> -1, new |-> FALSE]
NoObs == [on |-> FALSE, now |-> 0, seen |-> {}, gone |-> {}]
Pairs == {p \in Macs \X Macs : p[1] # p[2]}

SuggestInit ==
    /\ clk = 1 /\ score \in [Pairs -> {0, 60}]
    /\ prof = [m \in Macs |-> NoProfile] /\ sugg = [m \in Macs |-> {}]
    /\ dismissed = [p \in Pairs |-> -1] /\ alerted = [m \in Macs |-> -1]
    /\ booted = FALSE /\ gone = {} /\ tickObs = NoObs
    /\ told = [m \in Macs |-> 0] /\ behind = FALSE
    /\ sgCnt = [dismiss |-> 0, merge |-> 0, bad |-> 0]

\* isRandomizedMAC: the locally administered bit.
IsRandomised(m) == m \in Randomised

\* macMergeTick, before the lock: which MACs are online, and the aliases.
Observe ==
    \E online \in SUBSET Macs :
        /\ ~tickObs.on /\ clk < MaxClk /\ clk' = clk + 1
        /\ tickObs' = [on |-> TRUE, now |-> clk', seen |-> online, gone |-> gone]
        /\ UNCHANGED <<score, prof, sugg, dismissed, alerted, booted, gone, told, behind, sgCnt>>

\* Profiles after the observation; the first round makes nobody new.
Observed(m) ==
    IF m \notin tickObs.seen THEN prof[m]
    ELSE IF prof[m] # NoProfile THEN [prof[m] EXCEPT !.last = tickObs.now]
    ELSE [first |-> tickObs.now, last |-> tickObs.now, new |-> booted]

\* scoreMacPair: both online at once, beyond the slop, is not the same device.
Overlap(P, n, o) == P[o].last > P[n].first + Slop
\* macMergeCandidates, before the cut to TopN.
Candidates(P, n) ==
    {o \in Macs \ {n} :
        /\ P[o] # NoProfile /\ o \notin tickObs.gone
        /\ tickObs.now - P[o].last <= CandMaxAge
        /\ dismissed[<<n, o>>] < 0
        /\ ~Overlap(P, n, o) /\ score[<<n, o>>] >= 40}
Best(n, C) == {T \in SUBSET C : /\ Cardinality(T) = (IF Cardinality(C) < TopN THEN Cardinality(C) ELSE TopN)
                                /\ \A t \in T, c \in C \ T : score[<<n, t>>] >= score[<<n, c>>]}

\* macMergePruneLocked: profiles by age and number, suggestions without a
\* profile, of a MAC merged away, or dismissed.
Expired(P, m) == P[m] # NoProfile /\ tickObs.now - P[m].last > ProfileTTL
Survivors(P) ==
    LET alive == {m \in Macs : P[m] # NoProfile /\ ~Expired(P, m)}
    IN  {S \in SUBSET alive :
            /\ Cardinality(S) = (IF Cardinality(alive) < MaxProfiles THEN Cardinality(alive) ELSE MaxProfiles)
            /\ \A s \in S, d \in alive \ S : P[s].last >= P[d].last}
Pruned(S, live) ==
    [m \in Macs |-> IF m \notin live THEN {}
                    ELSE {o \in S[m] : o \notin tickObs.gone /\ dismissed[<<m, o>>] < 0}]
Recomputed(P, m) == P[m].new /\ IsRandomised(m) /\ tickObs.now - P[m].first <= NewWindow
Loud(S, n) == alerted[n] < 0 /\ \E o \in S[n] : score[<<n, o>>] >= 60

\* The rest of the round under macMergeMu.  A failed save skips the alerts.
AlertsAfterSave(saved, A, kept) ==
    told' = [m \in Macs |-> (IF m \in kept THEN told[m] ELSE 0) + (IF saved /\ m \in A THEN 1 ELSE 0)]
RoundStep ==
    LET P == [m \in Macs |-> Observed(m)]
        re(m) == Recomputed(P, m) /\ m \notin tickObs.gone
    IN  /\ tickObs.on /\ tickObs' = NoObs
        /\ \E S1 \in [Macs -> SUBSET Macs], live \in Survivors(P) :
              /\ \A m \in Macs :
                    IF re(m) THEN S1[m] \in Best(m, Candidates(P, m))
                    ELSE S1[m] = IF IsRandomised(m) /\ P[m].new /\ m \in tickObs.gone THEN {} ELSE sugg[m]
              /\ LET loud == {m \in Macs : re(m) /\ Loud(S1, m)}
                     S2 == Pruned(S1, live)
                 IN  \/ /\ prof' = [m \in Macs |-> IF m \in live THEN P[m] ELSE NoProfile]
                        /\ sugg' = S2
                        /\ dismissed' = [p \in Pairs |-> IF dismissed[p] >= 0 /\ tickObs.now - dismissed[p] > DismissTTL
                                                         THEN -1 ELSE dismissed[p]]
                        /\ alerted' = [m \in Macs |->
                              LET a == IF m \in loud THEN tickObs.now ELSE alerted[m]
                              IN  IF m \notin live /\ a >= 0 /\ tickObs.now - a > NewWindow THEN -1 ELSE a]
                        /\ booted' = TRUE /\ behind' = (tickObs.gone # gone)
                        /\ AlertsAfterSave(TRUE, loud, live)
                        /\ UNCHANGED sgCnt
                     \/ /\ sgCnt.bad < MaxBadSaves /\ sgCnt' = [sgCnt EXCEPT !.bad = @ + 1]
                        /\ AlertsAfterSave(FALSE, loud, Macs)
                        /\ UNCHANGED <<fileVars, behind>>
        /\ UNCHANGED <<clk, score, gone>>

\* device_merge_dismiss, whole under macMergeMu.
WithoutPair(n, o) == [sugg EXCEPT ![n] = @ \ {o}]
Dismiss ==
    \E p \in Pairs :
        /\ sgCnt.dismiss < MaxDismissals /\ sgCnt' = [sgCnt EXCEPT !.dismiss = @ + 1]
        /\ dismissed' = [dismissed EXCEPT ![p] = clk] /\ sugg' = WithoutPair(p[1], p[2])
        /\ UNCHANGED <<clk, score, prof, alerted, booted, gone, tickObs, told, behind>>

\* The end of device_merge: the alias is written, then macMergeAfterMerge
\* folds the profiles and removes what mentions the two.
FoldProfile(old, new) ==
    IF prof[old] = NoProfile THEN prof[new]
    ELSE IF prof[new] = NoProfile THEN [prof[old] EXCEPT !.new = FALSE]
    ELSE [prof[new] EXCEPT !.new = FALSE, !.first = IF prof[old].first < @ THEN prof[old].first ELSE @]
UserMerges ==
    \E p \in Pairs : LET new == p[1]
                         old == p[2]
      IN  /\ sgCnt.merge < MaxMerged /\ sgCnt' = [sgCnt EXCEPT !.merge = @ + 1]
          /\ old \notin gone /\ gone' = (gone \ {new}) \union {old}
          /\ prof' = [prof EXCEPT ![new] = FoldProfile(old, new), ![old] = NoProfile]
          /\ sugg' = [m \in Macs |-> IF m \in {old, new} THEN {} ELSE sugg[m] \ {old, new}]
          /\ told' = [told EXCEPT ![old] = 0]
          /\ UNCHANGED <<clk, score, dismissed, alerted, booted, tickObs, behind>>

\* More signals arrive for a pair, or contradict the earlier ones.
Evidence ==
    \E p \in Pairs, v \in {0, 40, 60} :
        /\ ~tickObs.on /\ v # score[p] /\ IsRandomised(p[1]) /\ score' = [score EXCEPT ![p] = v]
        /\ UNCHANGED <<clk, prof, sugg, dismissed, alerted, booted, gone, tickObs, told, behind, sgCnt>>

SuggestNext == Observe \/ RoundStep \/ Dismiss \/ UserMerges \/ Evidence
SuggestSpec == SuggestInit /\ [][SuggestNext]_suggVars

-----------------------------------------------------------------------------
SuggestTypeOK ==
    /\ clk \in 1..MaxClk /\ score \in [Pairs -> {0, 40, 60}]
    /\ \A m \in Macs : prof[m].last \in -1..clk /\ sugg[m] \subseteq Macs \ {m} /\ alerted[m] \in -1..clk
    /\ gone \subseteq Macs /\ booted \in BOOLEAN

(* A dismissed pair is not suggested again while the dismissal is kept,    *)
(* whatever round was under way when the user dismissed it.                *)
DismissedStays == \A p \in Pairs : dismissed[p] >= 0 => p[2] \notin sugg[p[1]]

(* The file proposes a MAC that was merged away only when the round that   *)
(* wrote it had read the aliases before the merge (mac_merge.go:695-698).  *)
MergedNotProposed == behind \/ \A n, o \in Macs : o \in sugg[n] => o \notin gone

(* One alert per new MAC as long as its profile lives (mac_merge.go:759).  *)
OneAlertPerMac == \A m \in Macs : told[m] <= 1

(* "Both were online at once: not the same device, excluded" (header of    *)
(* mac_merge.go): no suggestion stands for two MACs whose presence         *)
(* overlaps.                                                               *)
OverlapExcluded == \A n, o \in Macs : o \in sugg[n] => ~Overlap(prof, n, o)
=============================================================================
