----------------------------- MODULE GateProofs -----------------------------
(***************************************************************************)
(* Proofs about who may come in and how often: the pairing codes, the rate *)
(* limiter, the list of the WebUI with its firewall, and the DNS forwarder.*)
(*                                                                         *)
(* Each component has an inductive invariant (PairInv, RateInv, AccInv,    *)
(* ForwardInv) with three lemmas: it holds at the start, every step keeps  *)
(* it, and it implies what the suite MCBooks checks.                       *)
(***************************************************************************)
EXTENDS Pairing, WebAccess, DnsForward, FiniteSetTheorems, WellFoundedInduction, TLAPS

-----------------------------------------------------------------------------
(* Least numbers.                                                          *)

\* A set of numbers that is not empty has a least one.
LEMMA LeastOf ==
  ASSUME NEW T \in SUBSET Nat, T # {}
  PROVE  \E m \in T : \A n \in T : m <= n
<1> DEFINE R == OpToRel(<, Nat)
<1>1. IsWellFoundedOn(R, Nat)
  BY NatLessThanWellFounded
<1>2. \A x, y \in Nat : y < x => <<y, x>> \in R
  BY DEF OpToRel
<1> HIDE DEF R
<1>3. PICK m \in T : \A y \in T : ~ (<<y, m>> \in R)
  BY <1>1, WFMin
<1>4. ASSUME NEW n \in T PROVE m <= n
  <2>1. m \in Nat /\ n \in Nat
    OBVIOUS
  <2>2. ~ (n < m)
    BY <1>2, <1>3, <2>1
  <2> QED
    BY <2>1, <2>2
<1> QED
  BY <1>4

-----------------------------------------------------------------------------
(* The pairing codes.                                                      *)

\* The requests with code c that are at one of the places in S.
Holding(h, p, c, S) == {r \in Verifier : h[r] = c /\ p[r] \in S}
HowMany(h, p, c, S) == Cardinality(Holding(h, p, c, S))
Counts(h, p, r, c, S) == IF h[r] = c /\ p[r] \in S THEN 1 ELSE 0
Guessing == {"consume", "compare"}
Claimed == {"issue", "record"}
PairPlaces == {"idle", "purge", "consume", "compare", "burn", "claim", "issue", "record", "clean"}

PairPlaced ==
  /\ pending \in 0..codes /\ codes \in 0..MaxCodes /\ expired \subseteq 1..codes
  /\ held \in [Verifier -> 0..codes] /\ ppc \in [Verifier -> PairPlaces]
  /\ success \subseteq 1..codes /\ renameErrs \in 0..MaxRenameErr /\ lost \in Nat
  /\ sidFails \in [Code -> Nat] /\ wrong \in [Code -> 0..MaxWrong]
  /\ \A r \in Verifier : ppc[r] # "idle" => held[r] \in 1..codes
  /\ \A c \in Code : sidFails[c] <= wrong[c] /\ (c > codes => wrong[c] = 0)

\* Every token, every request about to issue one and the code in the file stand for
\* a code of their own or for a rename that failed.
Issuing == {r \in Verifier : ppc[r] = "issue"}
TokenBudget ==
  /\ IsFiniteSet(issued)
  /\ Cardinality(issued) + Cardinality(Issuing) + (IF pending = 0 THEN 0 ELSE 1) <= codes + renameErrs

\* The guesses at the code in the file: a count below the limit for the present and
\* for every rename that failed and was answered since, and a request about to burn
\* the code for each guess beyond.
\* Counts that are lost leave room for as many guesses again.
Slack == lost * (BurnAfter - 1 + Cardinality(Verifier))
Counted(n) == IF n < BurnAfter - 1 THEN n ELSE BurnAfter - 1
PendingGuesses ==
  pending # 0 =>
    wrong[pending] <= (renameErrs - HowMany(held, ppc, pending, Claimed)) * (BurnAfter - 1)
                      + Counted(sidFails[pending]) + HowMany(held, ppc, pending, {"burn"}) + Slack

\* Once the code is gone only the requests that have read it can guess.
PastGuesses ==
  \A c \in Code : c # pending =>
    wrong[c] + HowMany(held, ppc, c, Guessing) <= (renameErrs + 1) * (BurnAfter - 1) + Cardinality(Verifier) + Slack

PairInv == PairPlaced /\ TokenBudget /\ PendingGuesses /\ PastGuesses

\* Counting requests.
LEMMA HoldCount ==
  ASSUME NEW h, NEW p, NEW c, NEW S
  PROVE  /\ IsFiniteSet(Holding(h, p, c, S)) /\ HowMany(h, p, c, S) \in Nat
         /\ HowMany(h, p, c, S) <= Cardinality(Verifier) /\ Cardinality(Verifier) \in Nat
<1>1. Holding(h, p, c, S) \subseteq Verifier
  BY DEF Holding
<1> QED
  BY <1>1, PairConstants, FS_Subset, FS_CardinalityType DEF HowMany

\* Those about to burn a code and those about to guess it are different requests.
LEMMA Disjoint ==
  ASSUME NEW c
  PROVE  HowMany(held, ppc, c, Guessing) + HowMany(held, ppc, c, {"burn"}) <= Cardinality(Verifier)
<1> DEFINE A == Holding(held, ppc, c, Guessing)
           B == Holding(held, ppc, c, {"burn"})
<1>1. A \cup B \subseteq Verifier /\ A \cap B = {}
  BY DEF Holding, Guessing
<1>2. IsFiniteSet(A) /\ IsFiniteSet(B)
  BY HoldCount
<1> HIDE DEF A, B
<1>3. Cardinality(A \cup B) = Cardinality(A) + Cardinality(B) - Cardinality(A \cap B)
  BY <1>2, FS_Union
<1>4. Cardinality(A \cap B) = 0
  BY <1>1, FS_EmptySet
<1>5. Cardinality(A \cup B) <= Cardinality(Verifier)
  BY <1>1, PairConstants, FS_Subset
<1>6. Cardinality(A) \in Nat /\ Cardinality(B) \in Nat
  BY <1>2, FS_CardinalityType
<1> QED
  BY <1>3, <1>4, <1>5, <1>6 DEF HowMany, A, B

\* How one request's step changes a count.
LEMMA HoldStep ==
  ASSUME NEW h, NEW p, NEW h1, NEW p1, NEW r \in Verifier, NEW c, NEW S,
         \A x \in Verifier \ {r} : h1[x] = h[x] /\ p1[x] = p[x]
  PROVE  HowMany(h1, p1, c, S) = HowMany(h, p, c, S) + Counts(h1, p1, r, c, S)
                                                     - Counts(h, p, r, c, S)
<1> DEFINE H == Holding(h, p, c, S)
           H1 == Holding(h1, p1, c, S)
<1>1. H1 = IF h1[r] = c /\ p1[r] \in S THEN H \cup {r} ELSE H \ {r}
  BY DEF Holding
<1>2. r \in H <=> h[r] = c /\ p[r] \in S
  BY DEF Holding
<1>3. IsFiniteSet(H)
  BY HoldCount
<1>4. HowMany(h1, p1, c, S) = Cardinality(H1) /\ HowMany(h, p, c, S) = Cardinality(H)
  BY DEF HowMany
<1> HIDE DEF H, H1
<1>5. Cardinality(H) \in Nat
  BY <1>3, FS_CardinalityType
<1>6. Cardinality(H \cup {r}) = (IF r \in H THEN Cardinality(H) ELSE Cardinality(H) + 1)
  BY <1>3, FS_AddElement
<1>7. Cardinality(H \ {r}) = (IF r \in H THEN Cardinality(H) - 1 ELSE Cardinality(H))
  BY <1>3, FS_RemoveElement
<1> QED
  BY <1>1, <1>2, <1>4, <1>5, <1>6, <1>7 DEF Counts

\* What the lost counts leave room for.
LEMMA SlackNat ==
  ASSUME PairInv
  PROVE  /\ Slack \in Nat /\ (lost' = lost => Slack' = Slack)
         /\ (lost' = lost + 1 => Slack' = Slack + BurnAfter - 1 + Cardinality(Verifier))
<1>1. lost \in Nat /\ BurnAfter - 1 \in Nat /\ Cardinality(Verifier) \in Nat
  BY PairConstants, FS_CardinalityType DEF PairInv, PairPlaced
<1>2. PICK k \in Nat : k = BurnAfter - 1 + Cardinality(Verifier)
  BY <1>1
<1>3. Slack = lost * k /\ Slack' = lost' * k
  BY <1>2 DEF Slack
<1>4. lost * k \in Nat /\ (lost + 1) * k = lost * k + k
  BY <1>1
<1>5. lost' = lost + 1 => Slack' = Slack + k
  BY <1>3, <1>4
<1>6. Slack + k = Slack + BurnAfter - 1 + Cardinality(Verifier)
  BY <1>1, <1>2, <1>3, <1>4
<1> QED
  BY <1>3, <1>4, <1>5, <1>6

\* The guesses at the code in the file, those under way included.
LEMMA FileGuesses ==
  ASSUME PairInv, NEW c \in Code, c = pending
  PROVE  wrong[c] + HowMany(held, ppc, c, Guessing)
           <= (renameErrs - HowMany(held, ppc, c, Claimed)) * (BurnAfter - 1) + (BurnAfter - 1)
              + Cardinality(Verifier) + Slack
<1> DEFINE a == HowMany(held, ppc, c, Claimed)
           b == HowMany(held, ppc, c, {"burn"})
           g == HowMany(held, ppc, c, Guessing)
           v == Cardinality(Verifier)
           m == BurnAfter - 1
           k == Counted(sidFails[c])
           s == Slack
<1>1. a \in Nat /\ b \in Nat /\ g \in Nat /\ v \in Nat
  BY HoldCount
<1>2. g + b <= v
  BY Disjoint
<1>3. m \in Nat /\ k \in Nat /\ k <= m
  BY PairConstants DEF Counted, PairInv, PairPlaced
<1>4. wrong[c] <= (renameErrs - a) * m + k + b + s
  BY PairConstants DEF PairInv, PendingGuesses, Code
<1>5. wrong[c] \in Nat /\ renameErrs \in Nat
  BY DEF PairInv, PairPlaced
<1>6. s \in Nat
  BY SlackNat
<1>7. PICK q \in Int : q = (renameErrs - a) * m
  BY <1>1, <1>3, <1>5
<1> HIDE DEF a, b, g, v, m, k, s
<1>8. wrong[c] + g <= q + m + v + s
  BY <1>1, <1>2, <1>3, <1>4, <1>5, <1>6, <1>7
<1> QED
  BY <1>7, <1>8 DEF a, g, v, m, s

\* The guesses at any code: what is left of the bound once the code is gone.
LEMMA AllGuesses ==
  ASSUME PairInv, NEW c \in Code
  PROVE  wrong[c] + HowMany(held, ppc, c, Guessing) <= (renameErrs + 1) * (BurnAfter - 1) + Cardinality(Verifier) + Slack
<1>1. CASE c # pending
  BY <1>1 DEF PairInv, PastGuesses
<1>2. CASE c = pending
  <2> DEFINE a == HowMany(held, ppc, c, Claimed)
             g == HowMany(held, ppc, c, Guessing)
             v == Cardinality(Verifier)
             m == BurnAfter - 1
             s == Slack
  <2>1. a \in Nat /\ g \in Nat /\ v \in Nat /\ m \in Nat /\ s \in Nat
    BY HoldCount, SlackNat, PairConstants
  <2>2. wrong[c] + g <= (renameErrs - a) * m + m + v + s
    BY <1>2, FileGuesses
  <2>3. wrong[c] \in Nat /\ renameErrs \in Nat
    BY DEF PairInv, PairPlaced
  <2> HIDE DEF a, g, v, m, s
  <2>4. (renameErrs - a) * m = renameErrs * m - a * m /\ (renameErrs + 1) * m = renameErrs * m + m
    BY <2>1, <2>3
  <2>5. PICK x \in Nat, y \in Nat : x = renameErrs * m /\ y = a * m
    BY <2>1, <2>3
  <2>6. wrong[c] + g <= (renameErrs + 1) * m + v + s
    BY <2>1, <2>2, <2>3, <2>4, <2>5
  <2> QED
    BY <2>6 DEF g, v, m, s
<1> QED
  BY <1>1, <1>2

\* The invariant says what the suite checks.
LEMMA PairTyped == PairInv => PairTypeOK /\ TokensPerCodes /\ GuessBound
<1> SUFFICES ASSUME PairInv PROVE PairTypeOK /\ TokensPerCodes /\ GuessBound
  OBVIOUS
<1>1. PairTypeOK
  <2>1. \A c \in Code : sidFails[c] \in 0..MaxWrong
    BY PairConstants DEF PairInv, PairPlaced
  <2> QED
    BY <2>1 DEF PairInv, PairPlaced, PairTypeOK, PairPlaces
<1>2. TokensPerCodes
  <2>1. Issuing \subseteq Verifier
    BY DEF Issuing
  <2>2. Cardinality(Issuing) \in Nat /\ Cardinality(issued) \in Nat
    BY <2>1, PairConstants, FS_Subset, FS_CardinalityType DEF PairInv, TokenBudget
  <2> QED
    BY <2>2, PairConstants DEF PairInv, PairPlaced, TokenBudget, TokensPerCodes
<1>3. GuessBound
  <2> SUFFICES ASSUME NEW c \in Code
               PROVE  wrong[c] <= (renameErrs + lost + 1) * (BurnAfter - 1) + (lost + 1) * Cardinality(Verifier)
    BY DEF GuessBound
  <2> DEFINE m == BurnAfter - 1
             v == Cardinality(Verifier)
             R == renameErrs
  <2>1. wrong[c] + HowMany(held, ppc, c, Guessing) <= (R + 1) * m + v + lost * (m + v)
    BY AllGuesses DEF Slack
  <2>2. R \in Nat /\ lost \in Nat /\ m \in Nat /\ v \in Nat /\ wrong[c] \in Nat
    BY PairConstants, HoldCount DEF PairInv, PairPlaced
  <2>3. HowMany(held, ppc, c, Guessing) \in Nat
    BY HoldCount
  <2> HIDE DEF m, v, R
  <2>4. (R + 1) * m + v + lost * (m + v) = (R + lost + 1) * m + (lost + 1) * v
    BY <2>2
  <2>5. PICK z \in Nat : z = (R + 1) * m + v + lost * (m + v)
    BY <2>2
  <2>6. wrong[c] <= (R + lost + 1) * m + (lost + 1) * v
    BY <2>1, <2>2, <2>3, <2>4, <2>5
  <2> QED
    BY <2>6 DEF m, v, R
<1> QED
  BY <1>1, <1>2, <1>3

\* No code, no request.
LEMMA PairStart == PairInit => PairInv
<1> SUFFICES ASSUME PairInit PROVE PairInv
  OBVIOUS
<1> USE PairConstants DEF PairInit
<1>1. PairPlaced
  BY DEF PairPlaced, PairPlaces, Code
<1>2. TokenBudget
  <2>1. Issuing = {}
    BY DEF Issuing
  <2> QED
    BY <2>1, FS_EmptySet DEF TokenBudget
<1>3. PendingGuesses
  BY DEF PendingGuesses
<1>4. PastGuesses
  <2> SUFFICES ASSUME NEW c \in Code
               PROVE wrong[c] + HowMany(held, ppc, c, Guessing) <= (renameErrs + 1) * (BurnAfter - 1) + Cardinality(Verifier) + Slack
    BY DEF PastGuesses
  <2>0. Slack = 0
    BY HoldCount DEF Slack
  <2>1. HowMany(held, ppc, c, Guessing) <= Cardinality(Verifier) /\ HowMany(held, ppc, c, Guessing) \in Nat /\ Cardinality(Verifier) \in Nat
    BY HoldCount
  <2> QED
    BY <2>0, <2>1
<1> QED
  BY <1>1, <1>2, <1>3, <1>4 DEF PairInv

\* The larger number less the smaller one.
LEMMA NatMinus == ASSUME NEW x \in Nat, NEW y \in Nat, y >= x PROVE y - x \in Nat
OBVIOUS

\* The bound for codes that are gone.
LEMMA PastStep ==
  ASSUME PairInv, PairPlaced', renameErrs' >= renameErrs, lost' \in {lost, lost + 1},
         \A c \in Code : c # pending' =>
            wrong'[c] + HowMany(held', ppc', c, Guessing) <= wrong[c] + HowMany(held, ppc, c, Guessing)
  PROVE  PastGuesses'
<1> SUFFICES ASSUME NEW c \in Code, c # pending'
             PROVE wrong'[c] + HowMany(held', ppc', c, Guessing) <= (renameErrs' + 1) * (BurnAfter - 1) + Cardinality(Verifier) + Slack'
  BY DEF PastGuesses
<1> DEFINE m == BurnAfter - 1
           v == Cardinality(Verifier)
           h == HowMany(held, ppc, c, Guessing)
           h1 == HowMany(held', ppc', c, Guessing)
           s == Slack
           s1 == Slack'
<1>1. wrong[c] + h <= (renameErrs + 1) * m + v + s
  BY AllGuesses
<1>1a. s \in Nat /\ s1 \in Nat /\ s1 >= s
  BY SlackNat, HoldCount, PairConstants
<1>2. h \in Nat /\ v \in Nat /\ m \in Nat
  BY HoldCount, PairConstants
<1>3. h1 \in Nat
  BY HoldCount
<1>4. renameErrs \in Nat /\ renameErrs' \in Nat /\ wrong[c] \in Nat /\ wrong'[c] \in Nat
  BY DEF PairInv, PairPlaced
<1>5. wrong'[c] + h1 <= wrong[c] + h
  OBVIOUS
<1> HIDE DEF m, v, h, h1, s, s1
<1>6. (renameErrs' + 1) * m = (renameErrs + 1) * m + (renameErrs' - renameErrs) * m
  BY <1>2, <1>4
<1>7. (renameErrs' - renameErrs) * m \in Nat /\ (renameErrs + 1) * m \in Int
  <2>1. renameErrs' >= renameErrs
    OBVIOUS
  <2>1a. renameErrs' - renameErrs \in Nat
    BY <1>4, <2>1, NatMinus, Zenon
  <2>2. \A d \in Nat : d * m \in Nat
    BY <1>2
  <2>3. (renameErrs + 1) * m \in Int
    BY <1>2, <1>4
  <2> QED
    BY <2>1a, <2>2, <2>3
<1>8. wrong'[c] + h1 <= (renameErrs' + 1) * m + v + s1
  BY <1>1, <1>1a, <1>2, <1>3, <1>4, <1>5, <1>6, <1>7
<1> QED
  BY <1>8 DEF m, v, h1, s1
\* How one request's step changes the number of those about to issue.
LEMMA IssueCount ==
  ASSUME NEW r \in Verifier, \A x \in Verifier \ {r} : ppc'[x] = ppc[x]
  PROVE  /\ Cardinality(Issuing) \in Nat
         /\ Cardinality(Issuing)' = Cardinality(Issuing) + (IF ppc'[r] = "issue" THEN 1 ELSE 0)
                                    - (IF ppc[r] = "issue" THEN 1 ELSE 0)
<1> DEFINE H == Issuing
           H1 == Issuing'
<1>1. H1 = IF ppc'[r] = "issue" THEN H \cup {r} ELSE H \ {r}
  BY DEF Issuing
<1>2. (r \in H <=> ppc[r] = "issue") /\ H \subseteq Verifier
  BY DEF Issuing
<1>3. IsFiniteSet(H)
  BY <1>2, PairConstants, FS_Subset
<1>4. Cardinality(Issuing)' = Cardinality(H1)
  OBVIOUS
<1> HIDE DEF H, H1
<1>5. Cardinality(H) \in Nat
  BY <1>3, FS_CardinalityType
<1>6. Cardinality(H \cup {r}) = (IF r \in H THEN Cardinality(H) ELSE Cardinality(H) + 1)
  BY <1>3, FS_AddElement
<1>7. Cardinality(H \ {r}) = (IF r \in H THEN Cardinality(H) - 1 ELSE Cardinality(H))
  BY <1>3, FS_RemoveElement
<1>8. /\ Cardinality(H) \in Nat
      /\ Cardinality(H1) = Cardinality(H) + (IF ppc'[r] = "issue" THEN 1 ELSE 0) - (IF ppc[r] = "issue" THEN 1 ELSE 0)
  BY <1>1, <1>2, <1>5, <1>6, <1>7
<1> QED
  BY <1>4, <1>8 DEF H

\* A request goes on without counting a guess, clearing a count or issuing a token.
LEMMA QuietStep ==
  ASSUME PairInv, PairPlaced', NEW r \in Verifier,
         \A x \in Verifier \ {r} : held'[x] = held[x] /\ ppc'[x] = ppc[x],
         UNCHANGED <<codes, sidFails, issued, wrong, renameErrs, lost>>,
         pending' \in {pending, 0},
         ppc'[r] = "issue" => ppc[r] = "issue" \/ (pending # 0 /\ pending' = 0),
         ppc'[r] \in Guessing => (held'[r] = held[r] /\ ppc[r] \in Guessing) \/ held'[r] = pending',
         ppc'[r] \in Claimed => pending' = 0 \/ (held[r] = held'[r] /\ ppc[r] \in Claimed),
         ppc[r] = "burn" => pending' = 0
  PROVE  PairInv'
<1> USE DEF PairInv
<1>1. codes \in Nat /\ renameErrs \in Nat
  BY PairConstants DEF PairPlaced
<1>2. TokenBudget'
  <2>1. /\ Cardinality(Issuing) \in Nat
        /\ Cardinality(Issuing)' = Cardinality(Issuing) + (IF ppc'[r] = "issue" THEN 1 ELSE 0)
                                    - (IF ppc[r] = "issue" THEN 1 ELSE 0)
    BY IssueCount
  <2>2. Cardinality(issued) \in Nat
    BY FS_CardinalityType DEF TokenBudget
  <2> QED
    BY <1>1, <2>1, <2>2 DEF TokenBudget
<1>3. PastGuesses'
  <2> SUFFICES ASSUME NEW c \in Code, c # pending'
               PROVE  wrong'[c] + HowMany(held', ppc', c, Guessing) <= wrong[c] + HowMany(held, ppc, c, Guessing)
    BY <1>1, PastStep
  <2>1. HowMany(held', ppc', c, Guessing) = HowMany(held, ppc, c, Guessing) + Counts(held', ppc', r, c, Guessing)
                                - Counts(held, ppc, r, c, Guessing)
    BY HoldStep
  <2>2. HowMany(held, ppc, c, Guessing) \in Nat /\ wrong[c] \in Nat
    BY HoldCount DEF PairPlaced
  <2> QED
    BY <2>1, <2>2 DEF Counts
<1>4. PendingGuesses'
  <2> SUFFICES ASSUME pending' # 0 PROVE PendingGuesses'
    BY DEF PendingGuesses
  <2>0. PICK c : c = pending
    OBVIOUS
  <2> DEFINE a == HowMany(held, ppc, c, Claimed)
             b == HowMany(held, ppc, c, {"burn"})
             a1 == HowMany(held', ppc', c, Claimed)
             b1 == HowMany(held', ppc', c, {"burn"})
             m == BurnAfter - 1
             n == Counted(sidFails[c])
             s == Slack
  <2>0a. s \in Nat /\ Slack' = s
    BY SlackNat
  <2>1. pending' = c /\ pending = c /\ c \in Code
    BY <1>1, <2>0, PairConstants DEF PairPlaced, Code
  <2>2. a1 = a + Counts(held', ppc', r, c, Claimed) - Counts(held, ppc, r, c, Claimed)
    BY HoldStep
  <2>3. b1 = b + Counts(held', ppc', r, c, {"burn"}) - Counts(held, ppc, r, c, {"burn"})
    BY HoldStep
  <2>4. a \in Nat /\ b \in Nat /\ m \in Nat /\ n \in Nat /\ wrong[c] \in Nat
    BY <2>1, HoldCount, PairConstants DEF PairPlaced, Counted
  <2>5. wrong[c] <= (renameErrs - a) * m + n + b + s
    BY <2>1 DEF PendingGuesses
  <2>6. a1 \in Int /\ a1 <= a /\ b1 >= b /\ b1 \in Int
    BY <2>1, <2>2, <2>3, <2>4 DEF Counts
  <2>7. PendingGuesses' <=> wrong[c] <= (renameErrs - a1) * m + n + b1 + s
    BY <2>0a, <2>1 DEF PendingGuesses, Counted
  <2> HIDE DEF a, b, a1, b1, m, n, s
  <2>8. (renameErrs - a1) * m = (renameErrs - a) * m + (a - a1) * m
    BY <1>1, <2>4, <2>6
  <2>9. (a - a1) * m \in Nat /\ (renameErrs - a) * m \in Int
    <3>1. a - a1 \in Nat /\ \A d \in Nat : d * m \in Nat
      BY <2>4, <2>6
    <3>2. (renameErrs - a) * m \in Int
      BY <1>1, <2>4
    <3> QED
      BY <3>1, <3>2
  <2> QED
    BY <2>0a, <2>4, <2>5, <2>6, <2>7, <2>8, <2>9
<1> QED
  BY <1>2, <1>3, <1>4
\* The guesses at the code in the file, when nothing clears or overtakes the count:
\* the bound grows with what it is made of.
LEMMA PendingStep ==
  ASSUME PairInv, NEW c \in Code, pending = c, pending' = c, renameErrs' \in Nat, lost' = lost,
         NEW a \in Nat, NEW b \in Nat, NEW n \in Nat,
         a = HowMany(held', ppc', c, Claimed), b = HowMany(held', ppc', c, {"burn"}),
         n = Counted(sidFails'[c]), wrong'[c] \in Nat,
         NEW d \in Nat, d = (renameErrs' - a) - (renameErrs - HowMany(held, ppc, c, Claimed)),
         wrong'[c] - wrong[c] <= d * (BurnAfter - 1)
            + (n - Counted(sidFails[c])) + (b - HowMany(held, ppc, c, {"burn"}))
  PROVE  PendingGuesses'
<1> DEFINE a0 == HowMany(held, ppc, c, Claimed)
           b0 == HowMany(held, ppc, c, {"burn"})
           m == BurnAfter - 1
           n0 == Counted(sidFails[c])
           R == renameErrs
           R1 == renameErrs'
           w == wrong[c]
           w1 == wrong'[c]
           s == Slack
<1>0. s \in Nat /\ Slack' = s
  BY SlackNat
<1>1. a0 \in Nat /\ b0 \in Nat /\ m \in Nat
  BY HoldCount, PairConstants
<1>2. n0 \in Nat /\ R \in Nat /\ w \in Nat
  BY PairConstants DEF PairInv, PairPlaced, Counted
<1>3. w <= (R - a0) * m + n0 + b0 + s
  BY PairConstants DEF PairInv, PendingGuesses, Code
<1>4. PendingGuesses' <=> w1 <= (R1 - a) * m + n + b + s
  BY <1>0, PairConstants DEF PendingGuesses, Code
<1>5. R1 \in Nat /\ w1 \in Nat /\ d = (R1 - a) - (R - a0) /\ w1 - w <= d * m + (n - n0) + (b - b0)
  OBVIOUS
<1> HIDE DEF a0, b0, m, n0, R, R1, w, w1, s
<1>6. w1 <= (R1 - a) * m + n + b + s
  <2>1. R1 - a = (R - a0) + d
    BY <1>1, <1>2, <1>5
  <2>2. (R1 - a) * m = (R - a0) * m + d * m
    BY <1>1, <1>2, <1>5, <2>1
  <2>3. (R - a0) * m \in Int /\ d * m \in Int
    BY <1>1, <1>2
  <2> QED
    BY <1>0, <1>1, <1>2, <1>3, <1>5, <2>2, <2>3
<1> QED
  BY <1>4, <1>6

\* The same when the counts are lost: room for as many guesses again.
LEMMA LostStep ==
  ASSUME PairInv, PairPlaced', NEW c \in Code, pending = c, pending' = c, renameErrs' = renameErrs, lost' = lost + 1,
         HowMany(held', ppc', c, Claimed) <= HowMany(held, ppc, c, Claimed),
         wrong'[c] <= wrong[c] + HowMany(held, ppc, c, Guessing)
  PROVE  PendingGuesses'
<1> DEFINE a0 == HowMany(held, ppc, c, Claimed)
           a == HowMany(held', ppc', c, Claimed)
           b == HowMany(held', ppc', c, {"burn"})
           g == HowMany(held, ppc, c, Guessing)
           m == BurnAfter - 1
           v == Cardinality(Verifier)
           n == Counted(sidFails'[c])
           R == renameErrs
           w == wrong[c]
           w1 == wrong'[c]
           s == Slack
           s1 == Slack'
<1>1. a0 \in Nat /\ a \in Nat /\ b \in Nat /\ g \in Nat /\ v \in Nat /\ m \in Nat
  BY HoldCount, PairConstants
<1>2. R \in Nat /\ w \in Nat /\ w1 \in Nat /\ n \in Nat
  BY PairConstants DEF PairInv, PairPlaced, Counted
<1>3. s \in Nat /\ s1 = s + m + v
  <2>1. s \in Nat /\ s1 = s + BurnAfter - 1 + v
    BY SlackNat
  <2> QED
    BY <1>1, <2>1, PairConstants
<1>4. w + g <= (R - a0) * m + m + v + s
  BY FileGuesses
<1>5. w1 <= w + g /\ a <= a0
  OBVIOUS
<1>6. PendingGuesses' <=> w1 <= (R - a) * m + n + b + s1
  BY PairConstants DEF PendingGuesses, Code
<1> HIDE DEF a0, a, b, g, m, v, n, R, w, w1, s, s1
<1>7. (R - a) * m = (R - a0) * m + (a0 - a) * m
  BY <1>1, <1>2
<1>8. PICK x \in Int, y \in Nat : x = (R - a0) * m /\ y = (a0 - a) * m
  <2>1. a0 - a \in Nat
    BY <1>1, <1>5
  <2> QED
    BY <1>1, <1>2, <2>1
<1> QED
  BY <1>1, <1>2, <1>3, <1>4, <1>5, <1>6, <1>7, <1>8

\* What is added on one side is added on the other.
LEMMA BudgetSum ==
  ASSUME NEW n \in Nat, NEW x \in Nat, NEW y \in Nat, NEW c \in Nat, NEW c1 \in Nat, NEW R \in Nat,
         n + x <= c + R, c1 + x >= c + y
  PROVE  n + y <= c1 + R
OBVIOUS

\* A code is generated, cancelled or expires.
LEMMA OwnerStep ==
  ASSUME PairInv, GenerateCode \/ CancelCode \/ \E c \in Code : CodeExpires(c)
  PROVE  PairInv'
<1> USE DEF PairInv
<1>1. UNCHANGED <<sidFails, ppc, held, issued, success, wrong, renameErrs, lost>>
  BY DEF GenerateCode, CancelCode, CodeExpires
<1>2. PairPlaced'
  <2>1. codes \in 0..MaxCodes /\ pending \in 0..codes /\ expired \subseteq 1..codes /\ held \in [Verifier -> 0..codes]
    BY DEF PairPlaced
  <2>2. codes' \in 0..MaxCodes /\ codes' >= codes /\ pending' \in 0..codes' /\ expired' \subseteq 1..codes'
    <3>1. CASE GenerateCode
      BY <2>1, <3>1, PairConstants DEF GenerateCode
    <3>2. CASE CancelCode
      BY <2>1, <3>2, PairConstants DEF CancelCode
    <3>3. CASE \E c \in Code : CodeExpires(c)
      BY <2>1, <3>3, PairConstants DEF CodeExpires
    <3> QED
      BY <3>1, <3>2, <3>3
  <2>3. held' \in [Verifier -> 0..codes'] /\ success' \subseteq 1..codes'
    BY <1>1, <2>1, <2>2, PairConstants DEF PairPlaced
  <2>4. \A r \in Verifier : ppc'[r] # "idle" => held'[r] \in 1..codes'
    BY <1>1, <2>1, <2>2, PairConstants DEF PairPlaced
  <2>5. \A c \in Code : sidFails'[c] <= wrong'[c] /\ (c > codes' => wrong'[c] = 0)
    BY <1>1, <2>1, <2>2, PairConstants DEF PairPlaced, Code
  <2> QED
    BY <1>1, <2>2, <2>3, <2>4, <2>5 DEF PairPlaced
<1>3. Issuing' = Issuing
  BY <1>1 DEF Issuing
<1>4. Cardinality(issued) \in Nat /\ Cardinality(Issuing) \in Nat
  <2>1. Issuing \subseteq Verifier
    BY DEF Issuing
  <2> QED
    BY <2>1, PairConstants, FS_Subset, FS_CardinalityType DEF TokenBudget
<1>5. TokenBudget'
  <2>1. codes \in Nat /\ renameErrs \in Nat
    BY PairConstants DEF PairPlaced
  <2>2. codes' + (IF pending = 0 THEN 0 ELSE 1) >= codes + (IF pending' = 0 THEN 0 ELSE 1) /\ codes' \in Nat
    BY <2>1 DEF GenerateCode, CancelCode, CodeExpires
  <2>3. issued' = issued /\ renameErrs' = renameErrs /\ IsFiniteSet(issued)
    BY <1>1 DEF TokenBudget
  <2>4. Cardinality(issued) + Cardinality(Issuing) + (IF pending = 0 THEN 0 ELSE 1) <= codes + renameErrs
    BY DEF TokenBudget
  <2>5. Cardinality(issued) + Cardinality(Issuing) + (IF pending' = 0 THEN 0 ELSE 1) <= codes' + renameErrs
    <3>1. PICK x \in {0, 1} : x = IF pending = 0 THEN 0 ELSE 1
      OBVIOUS
    <3>2. PICK y \in {0, 1} : y = IF pending' = 0 THEN 0 ELSE 1
      OBVIOUS
    <3>3. PICK n \in Nat : n = Cardinality(issued) + Cardinality(Issuing)
      BY <1>4
    <3>4. n + x <= codes + renameErrs
      BY <2>4, <3>1, <3>3
    <3>5. codes' + x >= codes + y
      BY <2>2, <3>1, <3>2
    <3>6. n + y <= codes' + renameErrs
      <4>1. codes \in Nat /\ renameErrs \in Nat /\ codes' \in Nat /\ x \in Nat /\ y \in Nat /\ n \in Nat
        BY <2>1, <2>2, <3>1, <3>2, <3>3
      <4> QED
        BY <3>4, <3>5, <4>1, BudgetSum, Zenon
    <3> QED
      BY <3>2, <3>3, <3>6
  <2> QED
    BY <1>3, <2>3, <2>5 DEF TokenBudget
<1>6. PastGuesses'
  <2>1. renameErrs' >= renameErrs
    BY <1>1 DEF PairPlaced
  <2>2. ASSUME NEW c \in Code
        PROVE  wrong'[c] + HowMany(held', ppc', c, Guessing) <= wrong[c] + HowMany(held, ppc, c, Guessing)
    BY <1>1, HoldCount DEF PairPlaced
  <2> QED
    BY <1>1, <1>2, <2>1, <2>2, PastStep
<1>7. PendingGuesses'
  <2>0. Slack \in Nat /\ Slack' = Slack
    BY <1>1, SlackNat
  <2>1. CASE GenerateCode
    <3>1. PICK c : c = pending'
      OBVIOUS
    <3>2. c = codes + 1 /\ c \in Code /\ c > codes
      BY <2>1, <3>1, PairConstants DEF GenerateCode, PairPlaced, Code
    <3>3. wrong'[c] = 0
      BY <1>1, <3>2 DEF PairPlaced
    <3>4. Holding(held, ppc, c, Claimed) = {}
      BY <3>2, PairConstants DEF PairPlaced, Holding
    <3>5. HowMany(held', ppc', c, Claimed) = 0
      BY <1>1, <3>4, FS_EmptySet DEF HowMany
    <3>6. HowMany(held', ppc', c, {"burn"}) \in Nat
      BY HoldCount
    <3>7. Counted(sidFails'[c]) \in Nat
      BY <1>1, <3>2, PairConstants DEF PairPlaced, Counted
    <3>8. (renameErrs' - 0) * (BurnAfter - 1) \in Nat
      <4>1. renameErrs' \in Nat /\ BurnAfter - 1 \in Nat
        BY <1>1, PairConstants DEF PairPlaced
      <4> QED
        BY <4>1
    <3> QED
      BY <2>0, <3>1, <3>3, <3>5, <3>6, <3>7, <3>8 DEF PendingGuesses
  <2>2. CASE CancelCode
    BY <2>2 DEF CancelCode, PendingGuesses
  <2>3. CASE \E c \in Code : CodeExpires(c)
    <3>1. UNCHANGED pending
      BY <2>3 DEF CodeExpires
    <3> QED
      BY <1>1, <2>0, <3>1 DEF PendingGuesses, Counted
  <2> QED
    BY <2>1, <2>2, <2>3
<1> QED
  BY <1>2, <1>5, <1>6, <1>7
\* Steps that touch neither counts nor tokens.
QuietAct(r) ==
  ReadPending(r) \/ PurgeExpired(r) \/ ConsumeAttempt(r) \/ CompareRight(r) \/ ClaimMissing(r)
  \/ ClaimPending(r) \/ RemovePending(r) \/ (IssueForCode(r) /\ UNCHANGED issued)

\* They keep the invariant.
LEMMA QuietActs ==
  ASSUME PairInv, NEW r \in Verifier, QuietAct(r)
  PROVE  PairInv'
<1> USE DEF PairInv
<1>1. held \in [Verifier -> 0..codes] /\ ppc \in [Verifier -> PairPlaces] /\ pending \in 0..codes /\ codes \in Nat
  BY PairConstants DEF PairPlaced
<1>2. UNCHANGED <<codes, sidFails, issued, wrong, renameErrs, lost, expired, success>> /\ pending' \in {pending, 0}
  BY DEF QuietAct, ReadPending, PurgeExpired, ConsumeAttempt, CompareRight, ClaimMissing, ClaimPending, RemovePending,
         IssueForCode
<1>3. /\ \A x \in Verifier \ {r} : held'[x] = held[x] /\ ppc'[x] = ppc[x]
      /\ held' \in [Verifier -> 0..codes] /\ ppc' \in [Verifier -> PairPlaces]
      /\ ppc'[r] # "idle" => (ppc[r] # "idle" /\ held'[r] = held[r]) \/ (held'[r] = pending /\ pending # 0)
      /\ ppc'[r] = "issue" => ppc[r] = "issue" \/ (pending # 0 /\ pending' = 0)
      /\ ppc'[r] \in Guessing => (held'[r] = held[r] /\ ppc[r] \in Guessing) \/ held'[r] = pending'
      /\ ppc'[r] \in Claimed => pending' = 0 \/ (held[r] = held'[r] /\ ppc[r] \in Claimed)
      /\ ppc[r] = "burn" => pending' = 0
  <2> USE <1>1 DEF At, Return, PairPlaces, Guessing, Claimed
  <2>1. CASE ReadPending(r)
    BY <2>1 DEF ReadPending
  <2>2. CASE PurgeExpired(r) \/ RemovePending(r) \/ ClaimMissing(r)
    BY <2>2 DEF PurgeExpired, RemovePending, ClaimMissing
  <2>3. CASE ConsumeAttempt(r)
    BY <2>3 DEF ConsumeAttempt
  <2>4. CASE CompareRight(r) \/ ClaimPending(r)
    BY <2>4 DEF CompareRight, ClaimPending
  <2>5. CASE IssueForCode(r) /\ UNCHANGED issued
    BY <2>5 DEF IssueForCode
  <2> QED
    BY <2>1, <2>2, <2>3, <2>4, <2>5 DEF QuietAct
<1>4. PairPlaced'
  <2>1. \A x \in Verifier : ppc'[x] # "idle" => held'[x] \in 1..codes
    BY <1>1, <1>3 DEF PairPlaced
  <2> QED
    BY <1>1, <1>2, <1>3, <2>1 DEF PairPlaced
<1> HIDE DEF PairInv
<1> QED
  BY <1>2, <1>3, <1>4, QuietStep
\* What a step of one request that leaves the file alone keeps in place.
LEMMA MovePlaced ==
  ASSUME PairInv, NEW r \in Verifier,
         \A x \in Verifier \ {r} : held'[x] = held[x] /\ ppc'[x] = ppc[x],
         held' \in [Verifier -> 0..codes], ppc' \in [Verifier -> PairPlaces],
         ppc'[r] # "idle" => held'[r] = held[r] /\ ppc[r] # "idle",
         UNCHANGED <<codes, expired>>, pending' \in {pending, 0},
         success' \subseteq 1..codes, renameErrs' \in 0..MaxRenameErr, lost' \in Nat,
         sidFails' \in [Code -> Nat], wrong' \in [Code -> 0..MaxWrong],
         \A c \in Code : sidFails'[c] <= wrong'[c] /\ (c > codes => wrong'[c] = 0)
  PROVE  PairPlaced'
<1>1. pending' \in 0..codes
  BY PairConstants DEF PairInv, PairPlaced
<1>2. \A x \in Verifier : ppc'[x] # "idle" => held'[x] \in 1..codes
  BY DEF PairInv, PairPlaced
<1> QED
  BY <1>1, <1>2 DEF PairInv, PairPlaced

\* The tokens when no request begins to issue one.
LEMMA BudgetKept ==
  ASSUME PairInv, NEW r \in Verifier, \A x \in Verifier \ {r} : ppc'[x] = ppc[x],
         ppc'[r] # "issue", UNCHANGED <<codes, issued, renameErrs>>, pending' \in {pending, 0}
  PROVE  TokenBudget'
<1>1. /\ Cardinality(Issuing) \in Nat
      /\ Cardinality(Issuing)' = Cardinality(Issuing) + (IF ppc'[r] = "issue" THEN 1 ELSE 0)
                                    - (IF ppc[r] = "issue" THEN 1 ELSE 0)
  BY IssueCount
<1>2. Cardinality(issued) \in Nat /\ IsFiniteSet(issued)
  BY FS_CardinalityType DEF PairInv, TokenBudget
<1>3. codes \in Nat /\ renameErrs \in Nat
  BY PairConstants DEF PairInv, PairPlaced
<1> QED
  BY <1>1, <1>2, <1>3 DEF TokenBudget, PairInv

\* A wrong guess.
LEMMA WrongStep ==
  ASSUME PairInv, NEW r \in Verifier, CompareWrong(r)
  PROVE  PairInv'
<1>0. PICK c : c = held[r]
  OBVIOUS
<1>1. /\ held \in [Verifier -> 0..codes] /\ ppc \in [Verifier -> PairPlaces] /\ pending \in 0..codes /\ codes \in 0..MaxCodes
      /\ codes \in Nat /\ renameErrs \in Nat /\ sidFails \in [Code -> Nat] /\ wrong \in [Code -> 0..MaxWrong]
      /\ lost \in Nat
  BY PairConstants DEF PairInv, PairPlaced
<1>2. /\ UNCHANGED <<pending, expired, codes, issued, success, renameErrs>> /\ ppc[r] = "compare"
      /\ wrong[c] < MaxWrong /\ wrong' = [wrong EXCEPT ![c] = @ + 1]
      /\ \/ sidFails' = [sidFails EXCEPT ![c] = sidFails[c] + 1] /\ lost' = lost
         \/ sidFails' = [d \in Code |-> IF d = c THEN sidFails[c] + 1 ELSE 0] /\ lost' = lost + 1
      /\ sidFails[c] + 1 < BurnAfter => ppc' = [ppc EXCEPT ![r] = "idle"] /\ held' = [held EXCEPT ![r] = 0]
      /\ ~(sidFails[c] + 1 < BurnAfter) => ppc' = [ppc EXCEPT ![r] = "burn"] /\ held' = held
  BY <1>0 DEF CompareWrong, Return, At, OneMore
<1>3. c \in Code /\ c \in 1..codes
  <2>1. ppc[r] # "idle"
    BY <1>2
  <2> HIDE <1>2
  <2>2. c \in 1..codes
    BY <1>0, <2>1 DEF PairInv, PairPlaced
  <2> QED
    BY <1>1, <2>2, PairConstants DEF Code
<1>4. /\ \A x \in Verifier \ {r} : held'[x] = held[x] /\ ppc'[x] = ppc[x]
      /\ held' \in [Verifier -> 0..codes] /\ ppc' \in [Verifier -> PairPlaces]
      /\ ppc'[r] \in {"idle", "burn"} /\ held'[r] \in {0, c}
      /\ ppc'[r] = "burn" => held'[r] = c
      /\ ppc'[r] = "burn" <=> ~(sidFails[c] + 1 < BurnAfter)
  BY <1>0, <1>1, <1>2 DEF PairPlaces
<1>5. /\ wrong'[c] = wrong[c] + 1 /\ sidFails'[c] = sidFails[c] + 1
      /\ \A d \in Code \ {c} : wrong'[d] = wrong[d] /\ sidFails'[d] \in {0, sidFails[d]}
      /\ lost' = lost => \A d \in Code \ {c} : sidFails'[d] = sidFails[d]
      /\ lost' \in {lost, lost + 1} /\ lost' \in Nat
  <2>1. CASE sidFails' = [sidFails EXCEPT ![c] = sidFails[c] + 1] /\ lost' = lost
    BY <1>1, <1>2, <1>3, <2>1
  <2>2. CASE sidFails' = [d \in Code |-> IF d = c THEN sidFails[c] + 1 ELSE 0] /\ lost' = lost + 1
    BY <1>1, <1>2, <1>3, <2>2
  <2> QED
    BY <1>2, <2>1, <2>2
<1>6. sidFails' \in [Code -> Nat] /\ wrong' \in [Code -> 0..MaxWrong]
  BY <1>1, <1>2, <1>3, PairConstants
<1>7. PairPlaced'
  <2>1. \A d \in Code : sidFails'[d] <= wrong'[d] /\ (d > codes => wrong'[d] = 0)
    <3> TAKE d \in Code
    <3>1. sidFails[d] \in Nat /\ wrong[d] \in Nat /\ sidFails[d] <= wrong[d] /\ (d > codes => wrong[d] = 0)
      BY <1>1 DEF PairInv, PairPlaced
    <3>2. CASE d = c
      BY <1>1, <1>3, <1>5, <3>1, <3>2
    <3>3. CASE d # c
      BY <1>5, <3>1, <3>3
    <3> QED
      BY <3>2, <3>3
  <2>2. success' \subseteq 1..codes /\ renameErrs' \in 0..MaxRenameErr /\ pending' \in {pending, 0}
    BY <1>2 DEF PairInv, PairPlaced
  <2>3. ppc'[r] # "idle" => held'[r] = held[r] /\ ppc[r] # "idle"
    BY <1>0, <1>2, <1>4
  <2>4. UNCHANGED <<codes, expired>>
    BY <1>2
  <2> HIDE <1>2
  <2> QED
    BY <1>4, <1>5, <1>6, <2>1, <2>2, <2>3, <2>4, MovePlaced
<1>8. TokenBudget'
  <2>1. UNCHANGED <<codes, issued, renameErrs>> /\ pending' \in {pending, 0}
    BY <1>2
  <2>2. (\A x \in Verifier \ {r} : ppc'[x] = ppc[x]) /\ ppc'[r] # "issue"
    BY <1>4
  <2> QED
    BY <2>1, <2>2, BudgetKept
<1>9. \A d, S : HowMany(held', ppc', d, S) = HowMany(held, ppc, d, S) + Counts(held', ppc', r, d, S)
                                             - Counts(held, ppc, r, d, S)
  <2> SUFFICES ASSUME NEW d, NEW S
               PROVE  HowMany(held', ppc', d, S) = HowMany(held, ppc, d, S) + Counts(held', ppc', r, d, S)
                                                   - Counts(held, ppc, r, d, S)
    OBVIOUS
  <2> HIDE <1>2
  <2>1. \A x \in Verifier \ {r} : held'[x] = held[x] /\ ppc'[x] = ppc[x]
    BY <1>4
  <2> QED
    BY <2>1, HoldStep
<1>9a. ASSUME NEW d \in Code
      PROVE  wrong'[d] + HowMany(held', ppc', d, Guessing) <= wrong[d] + HowMany(held, ppc, d, Guessing)
  <2>1. HowMany(held', ppc', d, Guessing) = HowMany(held, ppc, d, Guessing) - (IF d = c THEN 1 ELSE 0)
    <3>1. Counts(held', ppc', r, d, Guessing) = 0
      BY <1>4 DEF Counts, Guessing
    <3>2. Counts(held, ppc, r, d, Guessing) = IF d = c THEN 1 ELSE 0
      BY <1>0, <1>2 DEF Counts, Guessing
    <3>3. HowMany(held, ppc, d, Guessing) \in Nat
      BY HoldCount
    <3> QED
      BY <1>9, <3>1, <3>2, <3>3
  <2>2. HowMany(held, ppc, d, Guessing) \in Nat /\ wrong[d] \in Nat
    BY <1>1, HoldCount
  <2>3. wrong'[d] = wrong[d] + (IF d = c THEN 1 ELSE 0)
    BY <1>5, <2>2
  <2> QED
    BY <2>1, <2>2, <2>3
<1>10. PastGuesses'
  <2>1. renameErrs' >= renameErrs
    BY <1>1, <1>2
  <2> HIDE <1>2
  <2> QED
    BY <1>5, <1>7, <1>9a, <2>1, PastStep
<1>11. PendingGuesses'
  <2> SUFFICES ASSUME pending' # 0 PROVE PendingGuesses'
    BY DEF PendingGuesses
  <2>0. PICK p : p = pending
    OBVIOUS
  <2>1. p \in Code /\ pending' = p
    BY <1>1, <1>2, <2>0, PairConstants DEF Code
  <2> DEFINE a0 == HowMany(held, ppc, p, Claimed)
             b0 == HowMany(held, ppc, p, {"burn"})
             a == HowMany(held', ppc', p, Claimed)
             b == HowMany(held', ppc', p, {"burn"})
             n == Counted(sidFails'[p])
             n0 == Counted(sidFails[p])
  <2>2. a0 \in Nat /\ b0 \in Nat /\ a \in Nat /\ b \in Nat
    BY HoldCount
  <2>3. a = a0
    <3>1. Counts(held', ppc', r, p, Claimed) = 0
      BY <1>4 DEF Counts, Claimed
    <3>2. Counts(held, ppc, r, p, Claimed) = 0
      BY <1>2 DEF Counts, Claimed
    <3> QED
      BY <1>9, <2>2, <3>1, <3>2
  <2>4. b = b0 + (IF p = c /\ ~(sidFails[c] + 1 < BurnAfter) THEN 1 ELSE 0)
    <3>1. Counts(held', ppc', r, p, {"burn"}) = IF p = c /\ ~(sidFails[c] + 1 < BurnAfter) THEN 1 ELSE 0
      BY <1>4 DEF Counts
    <3>2. Counts(held, ppc, r, p, {"burn"}) = 0
      BY <1>2 DEF Counts
    <3> QED
      BY <1>9, <2>2, <3>1, <3>2
  <2>5. n \in Nat /\ n0 \in Nat /\ wrong[p] \in Nat /\ wrong'[p] \in Nat /\ renameErrs' = renameErrs
    BY <1>1, <1>2, <1>6, <2>1, PairConstants DEF Counted
  <2>5a. CASE lost' = lost + 1
    <3>1. HowMany(held', ppc', p, Guessing) \in Nat /\ HowMany(held, ppc, p, Guessing) \in Nat
      BY HoldCount
    <3>2. wrong'[p] <= wrong[p] + HowMany(held, ppc, p, Guessing)
      BY <1>9a, <2>1, <2>5, <3>1
    <3> HIDE <1>2
    <3> QED
      BY <1>7, <2>0, <2>1, <2>2, <2>3, <2>5, <2>5a, <3>2, LostStep
  <2> SUFFICES ASSUME lost' = lost PROVE PendingGuesses'
    BY <1>5, <2>5a
  <2>6. wrong'[p] - wrong[p] <= (n - n0) + (b - b0)
    <3>1. CASE p = c
      BY <1>1, <1>3, <1>5, <2>1, <2>2, <2>4, <3>1, PairConstants DEF Counted
    <3>2. CASE p # c
      BY <1>1, <1>5, <2>1, <2>2, <2>4, <2>5, <3>2 DEF Counted
    <3> QED
      BY <3>1, <3>2
  <2>7. 0 = (renameErrs' - a) - (renameErrs - a0) /\ 0 * (BurnAfter - 1) = 0
    BY <1>1, <2>2, <2>3, <2>5, PairConstants
  <2>8. wrong'[p] - wrong[p] <= 0 * (BurnAfter - 1) + (n - n0) + (b - b0)
    BY <2>2, <2>5, <2>6, <2>7
  <2>9. renameErrs' \in Nat
    BY <1>1, <2>5
  <2> HIDE <1>2 DEF n, n0, a, a0, b, b0
  <2> QED
    BY <2>0, <2>1, <2>2, <2>5, <2>7, <2>8, <2>9, PendingStep DEF n, n0, a, a0, b, b0
<1> QED
  BY <1>7, <1>8, <1>10, <1>11 DEF PairInv

\* How one request's step changes every count.
LEMMA AllHolds ==
  ASSUME NEW r \in Verifier, \A x \in Verifier \ {r} : held'[x] = held[x] /\ ppc'[x] = ppc[x]
  PROVE  \A d, S : HowMany(held', ppc', d, S) = HowMany(held, ppc, d, S) + Counts(held', ppc', r, d, S)
                                                - Counts(held, ppc, r, d, S)
<1> SUFFICES ASSUME NEW d, NEW S
             PROVE  HowMany(held', ppc', d, S) = HowMany(held, ppc, d, S) + Counts(held', ppc', r, d, S)
                                                 - Counts(held, ppc, r, d, S)
  OBVIOUS
<1> QED
  BY HoldStep

\* Nobody begins to guess and no guess is counted.
LEMMA PastKept ==
  ASSUME PairInv, PairPlaced', NEW r \in Verifier,
         \A x \in Verifier \ {r} : held'[x] = held[x] /\ ppc'[x] = ppc[x],
         ppc'[r] \notin Guessing, wrong' = wrong, renameErrs' >= renameErrs, lost' = lost
  PROVE  PastGuesses'
<1>1. ASSUME NEW d \in Code
      PROVE  wrong'[d] + HowMany(held', ppc', d, Guessing) <= wrong[d] + HowMany(held, ppc, d, Guessing)
  <2>1. HowMany(held', ppc', d, Guessing) = HowMany(held, ppc, d, Guessing) + Counts(held', ppc', r, d, Guessing)
                                             - Counts(held, ppc, r, d, Guessing)
    BY AllHolds
  <2>2. Counts(held', ppc', r, d, Guessing) = 0 /\ Counts(held, ppc, r, d, Guessing) \in {0, 1}
    BY DEF Counts
  <2>3. HowMany(held, ppc, d, Guessing) \in Nat /\ wrong[d] \in Nat
    BY HoldCount DEF PairInv, PairPlaced
  <2> QED
    BY <2>1, <2>2, <2>3
<1> QED
  BY <1>1, PastStep

\* The code is burned.
LEMMA BurnStep ==
  ASSUME PairInv, NEW r \in Verifier, BurnCode(r)
  PROVE  PairInv'
<1>0. PICK c : c = held[r]
  OBVIOUS
<1>1. /\ held \in [Verifier -> 0..codes] /\ ppc \in [Verifier -> PairPlaces] /\ codes \in 0..MaxCodes /\ codes \in Nat
      /\ sidFails \in [Code -> Nat] /\ wrong \in [Code -> 0..MaxWrong] /\ renameErrs \in 0..MaxRenameErr
      /\ success \subseteq 1..codes /\ lost \in Nat
  BY PairConstants DEF PairInv, PairPlaced
<1>2. /\ UNCHANGED <<expired, codes, issued, success, wrong, renameErrs, lost>> /\ pending' = 0 /\ ppc[r] = "burn"
      /\ ppc' = [ppc EXCEPT ![r] = "idle"] /\ held' = [held EXCEPT ![r] = 0]
      /\ sidFails' = [sidFails EXCEPT ![c] = 0]
  BY <1>0 DEF BurnCode, Return, At
<1>3. UNCHANGED <<expired, codes, issued, success, wrong, renameErrs, lost>> /\ pending' = 0
  BY <1>2
<1>4. /\ \A x \in Verifier \ {r} : held'[x] = held[x] /\ ppc'[x] = ppc[x]
      /\ held' \in [Verifier -> 0..codes] /\ ppc' \in [Verifier -> PairPlaces] /\ ppc'[r] = "idle"
  BY <1>1, <1>2 DEF PairPlaces
<1>5. sidFails' \in [Code -> Nat] /\ \A d \in Code : sidFails'[d] <= sidFails[d]
  <2>1. sidFails' \in [Code -> Nat] /\ \A d \in Code : sidFails'[d] \in {0, sidFails[d]}
    BY <1>1, <1>2
  <2> QED
    BY <1>1, <2>1
<1> HIDE <1>2
<1>6. PairPlaced'
  <2>1. \A d \in Code : sidFails'[d] <= wrong'[d] /\ (d > codes => wrong'[d] = 0)
    BY <1>1, <1>3, <1>5 DEF PairInv, PairPlaced
  <2> QED
    BY <1>1, <1>3, <1>4, <1>5, <2>1, MovePlaced
<1>7. TokenBudget'
  BY <1>3, <1>4, BudgetKept
<1>8. PastGuesses'
  BY <1>1, <1>3, <1>4, <1>6, PastKept DEF Guessing
<1>9. PendingGuesses'
  BY <1>3 DEF PendingGuesses
<1> QED
  BY <1>6, <1>7, <1>8, <1>9 DEF PairInv

\* The rename failed: the request goes on without a claim.
LEMMA ErrorStep ==
  ASSUME PairInv, NEW r \in Verifier, ClaimError(r)
  PROVE  PairInv'
<1>0. PICK c : c = held[r]
  OBVIOUS
<1>1. /\ held \in [Verifier -> 0..codes] /\ ppc \in [Verifier -> PairPlaces] /\ codes \in 0..MaxCodes /\ codes \in Nat
      /\ sidFails \in [Code -> Nat] /\ wrong \in [Code -> 0..MaxWrong] /\ renameErrs \in 0..MaxRenameErr
      /\ success \subseteq 1..codes /\ lost \in Nat /\ renameErrs \in Nat /\ pending \in 0..codes
  BY PairConstants DEF PairInv, PairPlaced
<1>2. /\ UNCHANGED <<pending, expired, codes, sidFails, held, issued, success, wrong, lost>> /\ ppc[r] = "claim"
      /\ renameErrs < MaxRenameErr /\ renameErrs' = renameErrs + 1 /\ ppc' = [ppc EXCEPT ![r] = "issue"]
  BY DEF ClaimError, At
<1>3. /\ UNCHANGED <<pending, expired, codes, sidFails, issued, success, wrong, lost>>
      /\ renameErrs' \in 0..MaxRenameErr /\ renameErrs' = renameErrs + 1 /\ ppc[r] = "claim"
  BY <1>1, <1>2, PairConstants
<1>4. /\ \A x \in Verifier \ {r} : held'[x] = held[x] /\ ppc'[x] = ppc[x]
      /\ held' \in [Verifier -> 0..codes] /\ ppc' \in [Verifier -> PairPlaces] /\ ppc'[r] = "issue" /\ held'[r] = c
  BY <1>0, <1>1, <1>2 DEF PairPlaces
<1> HIDE <1>2
<1>6. PairPlaced'
  <2>1. \A d \in Code : sidFails'[d] <= wrong'[d] /\ (d > codes => wrong'[d] = 0)
    BY <1>3 DEF PairInv, PairPlaced
  <2>2. held'[r] = held[r] /\ ppc[r] # "idle"
    BY <1>0, <1>3, <1>4
  <2>3. sidFails' \in [Code -> Nat] /\ wrong' \in [Code -> 0..MaxWrong]
    BY <1>1, <1>3
  <2> QED
    BY <1>1, <1>3, <1>4, <2>1, <2>2, <2>3, MovePlaced
<1>7. TokenBudget'
  <2>1. /\ Cardinality(Issuing) \in Nat
        /\ Cardinality(Issuing)' = Cardinality(Issuing) + (IF ppc'[r] = "issue" THEN 1 ELSE 0)
                                    - (IF ppc[r] = "issue" THEN 1 ELSE 0)
    BY <1>4, IssueCount
  <2>2. Cardinality(Issuing)' = Cardinality(Issuing) + 1
    BY <1>3, <1>4, <2>1
  <2>3. IsFiniteSet(issued) /\ Cardinality(issued) \in Nat
    BY FS_CardinalityType DEF PairInv, TokenBudget
  <2> QED
    BY <1>1, <1>3, <2>1, <2>2, <2>3 DEF PairInv, TokenBudget
<1>8. PastGuesses'
  BY <1>1, <1>3, <1>4, <1>6, PastKept DEF Guessing
<1>9. PendingGuesses'
  <2> SUFFICES ASSUME pending' # 0 PROVE PendingGuesses'
    BY DEF PendingGuesses
  <2>0. PICK p : p = pending
    OBVIOUS
  <2>1. p \in Code /\ pending' = p
    BY <1>1, <1>3, <2>0, PairConstants DEF Code
  <2> DEFINE a0 == HowMany(held, ppc, p, Claimed)
             b0 == HowMany(held, ppc, p, {"burn"})
             a == HowMany(held', ppc', p, Claimed)
             b == HowMany(held', ppc', p, {"burn"})
             n == Counted(sidFails'[p])
             n0 == Counted(sidFails[p])
  <2>2. a0 \in Nat /\ b0 \in Nat /\ a \in Nat /\ b \in Nat
    BY HoldCount
  <2>3. a = a0 + (IF p = c THEN 1 ELSE 0)
    <3>1. Counts(held', ppc', r, p, Claimed) = IF p = c THEN 1 ELSE 0
      BY <1>4 DEF Counts, Claimed
    <3>2. Counts(held, ppc, r, p, Claimed) = 0
      BY <1>3 DEF Counts, Claimed
    <3> QED
      BY <1>4, AllHolds, <2>2, <3>1, <3>2
  <2>4. b = b0
    <3>1. Counts(held', ppc', r, p, {"burn"}) = 0 /\ Counts(held, ppc, r, p, {"burn"}) = 0
      BY <1>3, <1>4 DEF Counts
    <3> QED
      BY <1>4, AllHolds, <2>2, <3>1
  <2>5. n \in Nat /\ n = n0 /\ wrong[p] \in Nat /\ wrong'[p] = wrong[p]
    BY <1>1, <1>3, <2>1, PairConstants DEF Counted
  <2>6. PICK d \in {0, 1} : d = (renameErrs' - a) - (renameErrs - a0)
    BY <1>1, <1>3, <2>2, <2>3
  <2>7. d \in Nat /\ d * (BurnAfter - 1) \in Nat
    BY <2>6, PairConstants
  <2>8. wrong'[p] - wrong[p] <= d * (BurnAfter - 1) + (n - n0) + (b - b0)
    BY <2>2, <2>4, <2>5, <2>7
  <2>9. renameErrs' \in Nat /\ wrong'[p] \in Nat
    BY <1>1, <1>3, <2>5
  <2> HIDE DEF n, n0, a, a0, b, b0
  <2> QED
    BY <1>3, <2>0, <2>1, <2>2, <2>5, <2>6, <2>7, <2>8, <2>9, PendingStep DEF n, n0, a, a0, b, b0
<1> QED
  BY <1>6, <1>7, <1>8, <1>9 DEF PairInv

\* A token is issued.
LEMMA IssueStep ==
  ASSUME PairInv, NEW r \in Verifier, IssueForCode(r), issued' # issued
  PROVE  PairInv'
<1>1. /\ held \in [Verifier -> 0..codes] /\ ppc \in [Verifier -> PairPlaces] /\ codes \in 0..MaxCodes /\ codes \in Nat
      /\ sidFails \in [Code -> Nat] /\ wrong \in [Code -> 0..MaxWrong] /\ renameErrs \in 0..MaxRenameErr
      /\ success \subseteq 1..codes /\ lost \in Nat /\ renameErrs \in Nat /\ pending \in 0..codes
  BY PairConstants DEF PairInv, PairPlaced
<1>2. /\ UNCHANGED <<pending, expired, codes, sidFails, held, success, wrong, renameErrs, lost>> /\ ppc[r] = "issue"
      /\ ppc' = [ppc EXCEPT ![r] = "record"] /\ issued' = issued \cup {<<held[r], Cardinality(issued)>>}
  BY DEF IssueForCode, At, Return
<1>3. UNCHANGED <<pending, expired, codes, sidFails, held, success, wrong, renameErrs, lost>> /\ ppc[r] = "issue"
  BY <1>2
<1>4. /\ \A x \in Verifier \ {r} : held'[x] = held[x] /\ ppc'[x] = ppc[x]
      /\ held' \in [Verifier -> 0..codes] /\ ppc' \in [Verifier -> PairPlaces] /\ ppc'[r] = "record" /\ held'[r] = held[r]
  BY <1>1, <1>2 DEF PairPlaces
<1>5. IsFiniteSet(issued) /\ Cardinality(issued) \in Nat
  BY FS_CardinalityType DEF PairInv, TokenBudget
<1>5a. IsFiniteSet(issued') /\ Cardinality(issued') <= Cardinality(issued) + 1 /\ Cardinality(issued') \in Nat
  <2>1. PICK e : issued' = issued \cup {e}
    BY <1>2
  <2>2. /\ IsFiniteSet(issued \cup {e})
        /\ Cardinality(issued \cup {e}) = IF e \in issued THEN Cardinality(issued) ELSE Cardinality(issued) + 1
    BY <1>5, FS_AddElement
  <2> QED
    BY <1>5, <2>1, <2>2
<1> HIDE <1>2
<1>6. PairPlaced'
  <2>1. \A d \in Code : sidFails'[d] <= wrong'[d] /\ (d > codes => wrong'[d] = 0)
    BY <1>3 DEF PairInv, PairPlaced
  <2>2. ppc[r] # "idle" /\ sidFails' \in [Code -> Nat] /\ wrong' \in [Code -> 0..MaxWrong]
    BY <1>1, <1>3
  <2> QED
    BY <1>1, <1>3, <1>4, <2>1, <2>2, MovePlaced
<1>7. TokenBudget'
  <2>1. /\ Cardinality(Issuing) \in Nat
        /\ Cardinality(Issuing)' = Cardinality(Issuing) + (IF ppc'[r] = "issue" THEN 1 ELSE 0)
                                    - (IF ppc[r] = "issue" THEN 1 ELSE 0)
    BY <1>4, IssueCount
  <2>2. Cardinality(Issuing)' = Cardinality(Issuing) - 1
    BY <1>3, <1>4, <2>1
  <2> QED
    BY <1>1, <1>3, <1>5, <1>5a, <2>1, <2>2 DEF PairInv, TokenBudget
<1>8. PastGuesses'
  BY <1>1, <1>3, <1>4, <1>6, PastKept DEF Guessing
<1>9. PendingGuesses'
  <2> SUFFICES ASSUME pending' # 0 PROVE PendingGuesses'
    BY DEF PendingGuesses
  <2>0. PICK p : p = pending
    OBVIOUS
  <2>1. p \in Code /\ pending' = p
    BY <1>1, <1>3, <2>0, PairConstants DEF Code
  <2>2. HowMany(held', ppc', p, Claimed) = HowMany(held, ppc, p, Claimed)
    <3>1. Counts(held', ppc', r, p, Claimed) = Counts(held, ppc, r, p, Claimed)
      BY <1>3, <1>4 DEF Counts, Claimed
    <3>2. Counts(held, ppc, r, p, Claimed) \in Nat /\ HowMany(held, ppc, p, Claimed) \in Nat
      BY HoldCount DEF Counts
    <3> QED
      BY <1>4, AllHolds, <3>1, <3>2
  <2>3. HowMany(held', ppc', p, {"burn"}) = HowMany(held, ppc, p, {"burn"})
    <3>1. Counts(held', ppc', r, p, {"burn"}) = 0 /\ Counts(held, ppc, r, p, {"burn"}) = 0
      BY <1>3, <1>4 DEF Counts
    <3>2. HowMany(held, ppc, p, {"burn"}) \in Nat
      BY HoldCount
    <3> QED
      BY <1>4, AllHolds, <3>1, <3>2
  <2> QED
    BY <1>3, <2>0, <2>1, <2>2, <2>3 DEF PairInv, PendingGuesses, Counted, Slack
<1> QED
  BY <1>6, <1>7, <1>8, <1>9 DEF PairInv

\* The count of the code is cleared.
LEMMA SuccessStep ==
  ASSUME PairInv, NEW r \in Verifier, RecordSuccess(r)
  PROVE  PairInv'
<1>0. PICK c : c = held[r]
  OBVIOUS
<1>1. /\ held \in [Verifier -> 0..codes] /\ ppc \in [Verifier -> PairPlaces] /\ codes \in 0..MaxCodes /\ codes \in Nat
      /\ sidFails \in [Code -> Nat] /\ wrong \in [Code -> 0..MaxWrong] /\ renameErrs \in 0..MaxRenameErr
      /\ success \subseteq 1..codes /\ lost \in Nat /\ renameErrs \in Nat /\ pending \in 0..codes
  BY PairConstants DEF PairInv, PairPlaced
<1>2. /\ UNCHANGED <<pending, expired, codes, held, issued, wrong, renameErrs, lost>> /\ ppc[r] = "record"
      /\ ppc' = [ppc EXCEPT ![r] = "clean"] /\ sidFails' = [sidFails EXCEPT ![c] = 0]
      /\ success' = success \cup {c}
  BY <1>0 DEF RecordSuccess, At
<1>3. UNCHANGED <<pending, expired, codes, held, issued, wrong, renameErrs, lost>> /\ ppc[r] = "record"
  BY <1>2
<1>3a. c \in 1..codes /\ success' \subseteq 1..codes
  <2>1. c \in 1..codes
    BY <1>0, <1>3 DEF PairInv, PairPlaced
  <2> QED
    BY <1>1, <1>2, <2>1
<1>4. /\ \A x \in Verifier \ {r} : held'[x] = held[x] /\ ppc'[x] = ppc[x]
      /\ held' \in [Verifier -> 0..codes] /\ ppc' \in [Verifier -> PairPlaces] /\ ppc'[r] = "clean" /\ held'[r] = c
  BY <1>0, <1>1, <1>2 DEF PairPlaces
<1>5. /\ sidFails' \in [Code -> Nat]
      /\ \A d \in Code : sidFails'[d] \in {0, sidFails[d]} /\ (d # c => sidFails'[d] = sidFails[d])
  BY <1>1, <1>2
<1> HIDE <1>2
<1>6. PairPlaced'
  <2>1. \A d \in Code : sidFails'[d] <= wrong'[d] /\ (d > codes => wrong'[d] = 0)
    BY <1>1, <1>3, <1>5 DEF PairInv, PairPlaced
  <2>2. ppc[r] # "idle" /\ held'[r] = held[r] /\ wrong' \in [Code -> 0..MaxWrong]
    BY <1>0, <1>1, <1>3, <1>4
  <2> QED
    BY <1>1, <1>3, <1>3a, <1>4, <1>5, <2>1, <2>2, MovePlaced
<1>7. TokenBudget'
  BY <1>3, <1>4, BudgetKept
<1>8. PastGuesses'
  BY <1>1, <1>3, <1>4, <1>6, PastKept DEF Guessing
<1>9. PendingGuesses'
  <2> SUFFICES ASSUME pending' # 0 PROVE PendingGuesses'
    BY DEF PendingGuesses
  <2>0. PICK p : p = pending
    OBVIOUS
  <2>1. p \in Code /\ pending' = p
    BY <1>1, <1>3, <2>0, PairConstants DEF Code
  <2> DEFINE a0 == HowMany(held, ppc, p, Claimed)
             b0 == HowMany(held, ppc, p, {"burn"})
             a == HowMany(held', ppc', p, Claimed)
             b == HowMany(held', ppc', p, {"burn"})
             n == Counted(sidFails'[p])
             n0 == Counted(sidFails[p])
  <2>2. a0 \in Nat /\ b0 \in Nat /\ a \in Nat /\ b \in Nat
    BY HoldCount
  <2>3. a = a0 - (IF p = c THEN 1 ELSE 0)
    <3>1. Counts(held', ppc', r, p, Claimed) = 0
      BY <1>4 DEF Counts, Claimed
    <3>2. Counts(held, ppc, r, p, Claimed) = IF p = c THEN 1 ELSE 0
      BY <1>0, <1>3 DEF Counts, Claimed
    <3> QED
      BY <1>4, AllHolds, <2>2, <3>1, <3>2
  <2>4. b = b0
    <3>1. Counts(held', ppc', r, p, {"burn"}) = 0 /\ Counts(held, ppc, r, p, {"burn"}) = 0
      BY <1>3, <1>4 DEF Counts
    <3> QED
      BY <1>4, AllHolds, <2>2, <3>1
  <2>5. n \in Nat /\ n0 \in Nat /\ wrong[p] \in Nat /\ wrong'[p] = wrong[p] /\ n0 <= BurnAfter - 1 /\ (p # c => n = n0)
    BY <1>1, <1>3, <1>5, <2>1, PairConstants DEF Counted
  <2>6. PICK d \in {0, 1} : d = (renameErrs' - a) - (renameErrs - a0) /\ (d = 1 <=> p = c)
    BY <1>1, <1>3, <2>2, <2>3
  <2>7. d \in Nat /\ (d = 1 => d * (BurnAfter - 1) = BurnAfter - 1) /\ (d = 0 => d * (BurnAfter - 1) = 0)
    BY <2>6, PairConstants
  <2>8. wrong'[p] - wrong[p] <= d * (BurnAfter - 1) + (n - n0) + (b - b0)
    <3>1. PICK e : e = d * (BurnAfter - 1)
      OBVIOUS
    <3>2. e \in Int /\ (d = 1 => e = BurnAfter - 1) /\ (d = 0 => e = 0) /\ d \in {0, 1}
      BY <2>6, <2>7, <3>1, PairConstants
    <3>3. wrong'[p] - wrong[p] <= e + (n - n0) + (b - b0)
      BY <2>2, <2>4, <2>5, <2>6, <3>2, PairConstants
    <3> QED
      BY <3>1, <3>3
  <2>9. renameErrs' \in Nat /\ wrong'[p] \in Nat
    BY <1>1, <1>3, <2>5
  <2> HIDE DEF n, n0, a, a0, b, b0
  <2> QED
    BY <1>3, <2>0, <2>1, <2>2, <2>5, <2>6, <2>7, <2>8, <2>9, PendingStep DEF n, n0, a, a0, b, b0
<1> QED
  BY <1>6, <1>7, <1>8, <1>9 DEF PairInv

\* httpd starts again.
LEMMA RestartStep ==
  ASSUME PairInv, PairRestart
  PROVE  PairInv'
<1>1. /\ UNCHANGED <<pending, expired, codes, issued, success, wrong, renameErrs>> /\ lost' = lost + 1
      /\ sidFails' = [c \in Code |-> 0] /\ ppc' = [r \in Verifier |-> "idle"] /\ held' = [r \in Verifier |-> 0]
  BY DEF PairRestart
<1>2. lost \in Nat /\ renameErrs \in Nat /\ codes \in Nat /\ pending \in 0..codes /\ codes \in 0..MaxCodes
  BY PairConstants DEF PairInv, PairPlaced
<1>3. PairPlaced'
  <2>1. \A c \in Code : wrong[c] \in Nat /\ (c > codes => wrong[c] = 0)
    BY DEF PairInv, PairPlaced
  <2>2. sidFails' \in [Code -> Nat] /\ \A c \in Code : sidFails'[c] <= wrong'[c] /\ (c > codes' => wrong'[c] = 0)
    BY <1>1, <2>1
  <2>3. held' \in [Verifier -> 0..codes'] /\ ppc' \in [Verifier -> PairPlaces]
    BY <1>1, <1>2 DEF PairPlaces
  <2>4. \A r \in Verifier : ppc'[r] = "idle"
    BY <1>1
  <2>5. /\ pending' \in 0..codes' /\ codes' \in 0..MaxCodes /\ expired' \subseteq 1..codes' /\ success' \subseteq 1..codes'
        /\ renameErrs' \in 0..MaxRenameErr /\ lost' \in Nat /\ wrong' \in [Code -> 0..MaxWrong]
    BY <1>1, <1>2 DEF PairInv, PairPlaced
  <2> QED
    BY <2>2, <2>3, <2>4, <2>5 DEF PairPlaced
<1>4. TokenBudget'
  <2>1. Issuing' = {}
    BY <1>1 DEF Issuing
  <2>2. Cardinality(Issuing') = 0
    BY <2>1, FS_EmptySet
  <2>3. Issuing \subseteq Verifier
    BY DEF Issuing
  <2>4. Cardinality(Issuing) \in Nat /\ Cardinality(issued) \in Nat
    BY <2>3, PairConstants, FS_Subset, FS_CardinalityType DEF PairInv, TokenBudget
  <2> QED
    BY <1>1, <1>2, <2>2, <2>4 DEF PairInv, TokenBudget
<1>5. \A c, S : "idle" \notin S => HowMany(held', ppc', c, S) = 0
  <2> SUFFICES ASSUME NEW c, NEW S, "idle" \notin S PROVE HowMany(held', ppc', c, S) = 0
    OBVIOUS
  <2>1. Holding(held', ppc', c, S) = {}
    BY <1>1 DEF Holding
  <2> QED
    BY <2>1, FS_EmptySet DEF HowMany
<1>6. PastGuesses'
  <2>1. \A c \in Code : wrong'[c] + HowMany(held', ppc', c, Guessing) <= wrong[c] + HowMany(held, ppc, c, Guessing)
    <3> TAKE c \in Code
    <3>1. HowMany(held', ppc', c, Guessing) = 0
      BY <1>5 DEF Guessing
    <3>2. HowMany(held, ppc, c, Guessing) \in Nat /\ wrong[c] \in Nat /\ wrong'[c] = wrong[c]
      BY <1>1, HoldCount DEF PairInv, PairPlaced
    <3> QED
      BY <3>1, <3>2
  <2> QED
    BY <1>1, <1>2, <1>3, <2>1, PastStep
<1>7. PendingGuesses'
  <2> SUFFICES ASSUME pending' # 0 PROVE PendingGuesses'
    BY DEF PendingGuesses
  <2>1. PICK p : p = pending
    OBVIOUS
  <2>2. p \in Code /\ pending' = p
    BY <1>1, <1>2, <2>1, PairConstants DEF Code
  <2>3. HowMany(held', ppc', p, Claimed) = 0 /\ HowMany(held, ppc, p, Claimed) \in Nat
    BY <1>5, HoldCount DEF Claimed
  <2>4. wrong'[p] <= wrong[p] + HowMany(held, ppc, p, Guessing)
    <3>1. HowMany(held, ppc, p, Guessing) \in Nat /\ wrong[p] \in Nat /\ wrong'[p] = wrong[p]
      BY <1>1, <2>2, HoldCount DEF PairInv, PairPlaced
    <3> QED
      BY <3>1
  <2>5. HowMany(held', ppc', p, Claimed) <= HowMany(held, ppc, p, Claimed)
    BY <2>3
  <2>6. renameErrs' = renameErrs /\ lost' = lost + 1
    BY <1>1
  <2> QED
    BY <1>3, <2>1, <2>2, <2>4, <2>5, <2>6, LostStep
<1> QED
  BY <1>3, <1>4, <1>6, <1>7 DEF PairInv

\* Every step keeps the invariant.
LEMMA PairStepKeeps == ASSUME PairInv, [PairNext]_pairVars PROVE PairInv'
<1>1. CASE UNCHANGED pairVars
  <2>1. UNCHANGED <<pending, expired, codes, sidFails, ppc, held, issued, success, wrong, renameErrs, lost>>
    BY <1>1, Zenon DEF pairVars
  <2> QED
    BY <2>1 DEF PairInv, PairPlaced, TokenBudget, Issuing, PendingGuesses, PastGuesses, Counted, HowMany, Holding, Slack
<1>2. CASE GenerateCode \/ CancelCode \/ \E c \in Code : CodeExpires(c)
  BY <1>2, OwnerStep
<1>3. ASSUME NEW r \in Verifier, ReadPending(r) \/ PairStep(r) PROVE PairInv'
  <2>1. QuietAct(r) \/ CompareWrong(r) \/ BurnCode(r) \/ ClaimError(r) \/ (IssueForCode(r) /\ issued' # issued) \/ RecordSuccess(r)
    BY <1>3, Zenon DEF PairStep, QuietAct
  <2> QED
    BY <2>1, QuietActs, WrongStep, BurnStep, ErrorStep, IssueStep, SuccessStep
<1>4. CASE PairRestart
  BY <1>4, RestartStep
<1> QED
  BY <1>1, <1>2, <1>3, <1>4 DEF PairNext

-----------------------------------------------------------------------------
(* The rate limiter.                                                       *)

\* The elements of a list, and a list that holds each once.
InList(s) == {s[i] : i \in 1..Len(s)}
OnceListed(s) == \A i, j \in 1..Len(s) : s[i] = s[j] => i = j

\* The removal from a list is defined step by step.
LEMMA WithoutDefined ==
  ASSUME NEW s, Len(s) \in Nat, NEW X
  PROVE  \E f : /\ f = [i \in 0..Len(s) |-> IF i = 0 THEN <<>>
                                            ELSE IF s[i] \in X THEN f[i - 1] ELSE Append(f[i - 1], s[i])]
                /\ Without(s, X) = f[Len(s)]
<1> DEFINE Is(f, n) == f = [i \in 0..n |-> IF i = 0 THEN <<>>
                                            ELSE IF s[i] \in X THEN f[i - 1] ELSE Append(f[i - 1], s[i])]
           T == {n \in Nat : ~\E f : Is(f, n)}
<1>1. Without(s, X) = (CHOOSE f : Is(f, Len(s)))[Len(s)]
  BY Zenon DEF Without
<1>2. T = {}
  <2> SUFFICES ASSUME T # {} PROVE FALSE
    OBVIOUS
  <2>1. PICK n \in T : \A m \in T : n <= m
    BY LeastOf
  <2>2. n \in Nat /\ ~\E f : Is(f, n)
    BY <2>1
  <2>3. n # 0
    <3> SUFFICES ASSUME n = 0 PROVE FALSE
      OBVIOUS
    <3>1. PICK f : f = [i \in 0..0 |-> <<>>]
      OBVIOUS
    <3>2. Is(f, 0)
      BY <3>1
    <3> QED
      BY <2>2, <3>2
  <2>4. n - 1 \in Nat /\ ~(n <= n - 1)
    BY <2>2, <2>3
  <2>5. \E f : Is(f, n - 1)
    BY <2>1, <2>4
  <2>6. PICK f : Is(f, n - 1)
    BY <2>5
  <2>7. PICK g : g = [i \in 0..n |-> IF i = n THEN IF s[n] \in X THEN f[n - 1] ELSE Append(f[n - 1], s[n]) ELSE f[i]]
    OBVIOUS
  <2>8. \A i \in 0..n - 1 : g[i] = f[i]
    BY <2>2, <2>7
  <2>9. ASSUME NEW i \in 0..n
        PROVE g[i] = IF i = 0 THEN <<>> ELSE IF s[i] \in X THEN g[i - 1] ELSE Append(g[i - 1], s[i])
    <3>1. CASE i = 0
      BY <2>2, <2>3, <2>6, <2>8, <3>1
    <3>2. CASE i # 0 /\ i # n
      <4>1. i \in 0..n - 1 /\ i - 1 \in 0..n - 1
        BY <2>2, <3>2
      <4>2. g[i] = f[i] /\ g[i - 1] = f[i - 1]
        BY <2>8, <4>1
      <4>3. f[i] = IF s[i] \in X THEN f[i - 1] ELSE Append(f[i - 1], s[i])
        BY <2>6, <3>2, <4>1
      <4> QED
        BY <3>2, <4>2, <4>3, Zenon
    <3>3. CASE i = n
      <4>1. g[n - 1] = f[n - 1] /\ g[n] = IF s[n] \in X THEN f[n - 1] ELSE Append(f[n - 1], s[n])
        BY <2>2, <2>3, <2>4, <2>7, <2>8
      <4> QED
        BY <2>3, <3>3, <4>1, Zenon
    <3> QED
      BY <3>1, <3>2, <3>3
  <2>10. Is(g, n)
    BY <2>7, <2>9
  <2> QED
    BY <2>2, <2>10
<1>3. \E f : Is(f, Len(s))
  BY <1>2
<1>4. Is(CHOOSE f : Is(f, Len(s)), Len(s))
  <2> HIDE DEF Is
  <2> QED
    BY <1>3, Zenon
<1> QED
  BY <1>1, <1>4, Zenon

\* What is left of the first n places of a list: the elements that stay, each once,
\* and one fewer for the first that goes.
LeftOver(S, s, X, q, n) ==
  /\ q \in Seq(S) /\ Len(q) <= n /\ OnceListed(q)
  /\ \A k \in 1..Len(q) : \E j \in 1..n : q[k] = s[j] /\ s[j] \notin X
  /\ \A j \in 1..n : s[j] \notin X => \E k \in 1..Len(q) : q[k] = s[j]
  /\ (\E j \in 1..n : s[j] \in X) => Len(q) < n

\* An element that goes leaves the result as it is.
LEMMA LeftDrop ==
  ASSUME NEW S, NEW s, NEW X, NEW n \in Nat, n > 0, NEW q, LeftOver(S, s, X, q, n - 1), s[n] \in X
  PROVE  LeftOver(S, s, X, q, n)
<1>1. q \in Seq(S) /\ Len(q) <= n - 1 /\ OnceListed(q) /\ Len(q) \in Nat
  BY DEF LeftOver
<1>2. \A j \in 1..n - 1 : j \in 1..n
  OBVIOUS
<1>3. \A j \in 1..n : j = n \/ j \in 1..n - 1
  OBVIOUS
<1>4. \A k \in 1..Len(q) : \E j \in 1..n : q[k] = s[j] /\ s[j] \notin X
  BY <1>2, Zenon DEF LeftOver
<1>5. \A j \in 1..n : s[j] \notin X => \E k \in 1..Len(q) : q[k] = s[j]
  BY <1>3, Zenon DEF LeftOver
<1>6. Len(q) <= n /\ Len(q) < n
  BY <1>1
<1> QED
  BY <1>1, <1>4, <1>5, <1>6, Zenon DEF LeftOver

\* An element that stays is appended.
LEMMA LeftKeep ==
  ASSUME NEW S, NEW s, NEW X, NEW n \in Nat, n > 0, NEW q, LeftOver(S, s, X, q, n - 1), s[n] \notin X,
         s[n] \in S, \A j \in 1..n - 1 : s[j] # s[n]
  PROVE  LeftOver(S, s, X, Append(q, s[n]), n)
<1>1. q \in Seq(S) /\ Len(q) <= n - 1 /\ OnceListed(q) /\ Len(q) \in Nat
  BY DEF LeftOver
<1>2. PICK e : e = Append(q, s[n])
  OBVIOUS
<1>3. /\ e \in Seq(S) /\ Len(e) = Len(q) + 1 /\ e[Len(q) + 1] = s[n]
      /\ \A k \in 1..Len(q) : e[k] = q[k]
  BY <1>1, <1>2
<1>4. \A k \in 1..Len(e) : k \in 1..Len(q) \/ k = Len(q) + 1
  BY <1>1, <1>3
<1>5. /\ \A k \in 1..Len(q) : k \in 1..Len(e)
      /\ Len(q) + 1 \in 1..Len(e) /\ n \in 1..n
  BY <1>1, <1>3
<1>6. \A j \in 1..n - 1 : j \in 1..n
  OBVIOUS
<1>7. \A j \in 1..n : j = n \/ j \in 1..n - 1
  OBVIOUS
<1>8. \A k \in 1..Len(e) : \E j \in 1..n : e[k] = s[j] /\ s[j] \notin X
  BY <1>3, <1>4, <1>5, <1>6, ZenonT(30) DEF LeftOver
<1>9. \A j \in 1..n : s[j] \notin X => \E k \in 1..Len(e) : e[k] = s[j]
  BY <1>3, <1>5, <1>7, Zenon DEF LeftOver
<1>10. \A k \in 1..Len(q) : q[k] # s[n]
  BY Zenon DEF LeftOver
<1>11. OnceListed(e)
  <2> SUFFICES ASSUME NEW a \in 1..Len(e), NEW b \in 1..Len(e), e[a] = e[b] PROVE a = b
    BY Zenon DEF OnceListed
  <2>1. CASE a \in 1..Len(q) /\ b \in 1..Len(q)
    BY <1>1, <1>3, <2>1, Zenon DEF OnceListed
  <2>2. CASE ~(a \in 1..Len(q) /\ b \in 1..Len(q))
    BY <1>3, <1>4, <1>10, <2>2, Zenon
  <2> QED
    BY <2>1, <2>2
<1>12. (\E j \in 1..n : s[j] \in X) => Len(q) < n - 1
  BY <1>7, Zenon DEF LeftOver
<1>13. Len(e) <= n /\ ((\E j \in 1..n : s[j] \in X) => Len(e) < n)
  <2>1. Len(e) <= n /\ (Len(q) < n - 1 => Len(e) < n)
    BY <1>1, <1>3
  <2> QED
    BY <1>12, <2>1, Zenon
<1> QED
  BY <1>2, <1>3, <1>8, <1>9, <1>11, <1>13, Zenon DEF LeftOver

\* What is left of a list.
LEMMA WithoutList ==
  ASSUME NEW S, NEW s \in Seq(S), OnceListed(s), NEW X
  PROVE  /\ Without(s, X) \in Seq(S) /\ OnceListed(Without(s, X)) /\ InList(Without(s, X)) = InList(s) \ X
         /\ Len(Without(s, X)) <= Len(s)
         /\ (\E i \in 1..Len(s) : s[i] \in X) => Len(Without(s, X)) < Len(s)
<1>0. Len(s) \in Nat
  OBVIOUS
<1>1. PICK f : /\ f = [i \in 0..Len(s) |-> IF i = 0 THEN <<>>
                                           ELSE IF s[i] \in X THEN f[i - 1] ELSE Append(f[i - 1], s[i])]
               /\ Without(s, X) = f[Len(s)]
  BY <1>0, WithoutDefined, Zenon
<1>2. \A n \in 0..Len(s) : f[n] = IF n = 0 THEN <<>>
                                  ELSE IF s[n] \in X THEN f[n - 1] ELSE Append(f[n - 1], s[n])
  BY <1>1, Zenon
<1>3. Without(s, X) = f[Len(s)]
  BY <1>1
<1> DEFINE T == {n \in 0..Len(s) : ~LeftOver(S, s, X, f[n], n)}
<1> HIDE <1>1
<1>4. T = {}
  <2> SUFFICES ASSUME T # {} PROVE FALSE
    OBVIOUS
  <2>0. T \in SUBSET Nat
    BY <1>0
  <2>1. PICK n \in T : \A m \in T : n <= m
    BY <2>0, LeastOf
  <2>2. n \in 0..Len(s) /\ ~LeftOver(S, s, X, f[n], n)
    BY <2>1
  <2>3. CASE n = 0
    <3>1. f[0] = <<>>
      BY <1>2, <2>2, <2>3
    <3>2. LeftOver(S, s, X, <<>>, 0)
      BY DEF LeftOver, OnceListed
    <3> QED
      BY <2>2, <2>3, <3>1, <3>2
  <2>4. CASE n # 0
    <3>1. n \in 1..Len(s) /\ n - 1 \in 0..Len(s) /\ ~(n <= n - 1) /\ n \in Nat /\ n > 0
      BY <1>0, <2>2, <2>4
    <3>2. LeftOver(S, s, X, f[n - 1], n - 1)
      BY <2>1, <3>1
    <3>3. s[n] \in S /\ \A j \in 1..n - 1 : s[j] # s[n]
      <4>1. \A j \in 1..n - 1 : j \in 1..Len(s) /\ j # n
        BY <1>0, <3>1
      <4>2. \A j \in 1..n - 1 : s[j] # s[n]
        BY <3>1, <4>1, Zenon DEF OnceListed
      <4> QED
        BY <3>1, <4>2
    <3>4. CASE s[n] \in X
      <4>1. f[n] = f[n - 1]
        BY <1>2, <2>2, <2>4, <3>4, Zenon
      <4> QED
        BY <2>2, <3>1, <3>2, <3>4, <4>1, LeftDrop, Zenon
    <3>5. CASE s[n] \notin X
      <4>1. f[n] = Append(f[n - 1], s[n])
        BY <1>2, <2>2, <2>4, <3>5, Zenon
      <4> QED
        BY <2>2, <3>1, <3>2, <3>3, <3>5, <4>1, LeftKeep, Zenon
    <3> QED
      BY <3>4, <3>5
  <2> QED
    BY <2>3, <2>4
<1>5. PICK w : w = Without(s, X)
  OBVIOUS
<1>6. LeftOver(S, s, X, w, Len(s))
  <2>1. Len(s) \in 0..Len(s)
    BY <1>0
  <2> QED
    BY <1>3, <1>4, <1>5, <2>1
<1>7. InList(w) = InList(s) \ X
  <2>1. /\ \A k \in 1..Len(w) : \E j \in 1..Len(s) : w[k] = s[j] /\ s[j] \notin X
        /\ \A j \in 1..Len(s) : s[j] \notin X => \E k \in 1..Len(w) : w[k] = s[j]
    BY <1>6, Zenon DEF LeftOver
  <2>2. ASSUME NEW y \in InList(w) PROVE y \in InList(s) \ X
    BY <2>1, Zenon DEF InList
  <2>3. ASSUME NEW y \in InList(s) \ X PROVE y \in InList(w)
    <3>1. PICK j \in 1..Len(s) : y = s[j]
      BY Zenon DEF InList
    <3>2. PICK k \in 1..Len(w) : w[k] = s[j]
      BY <2>1, <2>3, <3>1, Zenon
    <3> QED
      BY <3>1, <3>2, Zenon DEF InList
  <2> QED
    BY <2>2, <2>3, Zenon
<1> QED
  BY <1>5, <1>6, <1>7, Zenon DEF LeftOver

\* The list after an address was put in front of it.
LEMMA FrontList ==
  ASSUME NEW S, NEW s \in Seq(S), OnceListed(s), NEW x \in S, x \notin InList(s)
  PROVE  /\ <<x>> \o s \in Seq(S) /\ OnceListed(<<x>> \o s) /\ InList(<<x>> \o s) = InList(s) \cup {x}
         /\ Len(<<x>> \o s) = Len(s) + 1
<1>1. PICK w : w = <<x>> \o s
  OBVIOUS
<1>2. /\ w \in Seq(S) /\ Len(w) = Len(s) + 1 /\ Len(s) \in Nat /\ w[1] = x
      /\ \A i \in 1..Len(s) : w[i + 1] = s[i]
  BY <1>1
<1>3. \A i \in 1..Len(w) : i = 1 \/ (i - 1 \in 1..Len(s) /\ w[i] = s[i - 1])
  <2> SUFFICES ASSUME NEW i \in 1..Len(w), i # 1 PROVE i - 1 \in 1..Len(s) /\ w[i] = s[i - 1]
    OBVIOUS
  <2>1. i - 1 \in 1..Len(s) /\ (i - 1) + 1 = i
    BY <1>2
  <2> QED
    BY <1>2, <2>1
<1>4. \A i \in 1..Len(s) : s[i] # x
  BY Zenon DEF InList
<1>5. OnceListed(w)
  <2> SUFFICES ASSUME NEW a \in 1..Len(w), NEW b \in 1..Len(w), w[a] = w[b] PROVE a = b
    BY Zenon DEF OnceListed
  <2>1. CASE a = 1 \/ b = 1
    BY <1>2, <1>3, <1>4, <2>1
  <2>2. CASE a # 1 /\ b # 1
    <3>1. a - 1 = b - 1
      BY <1>3, <2>2, Zenon DEF OnceListed
    <3> QED
      BY <3>1
  <2> QED
    BY <2>1, <2>2
<1>6. InList(w) = InList(s) \cup {x}
  <2>1. \A i \in 1..Len(s) : i + 1 \in 1..Len(w)
    BY <1>2
  <2>2. 1 \in 1..Len(w)
    BY <1>2
  <2>3. ASSUME NEW y \in InList(w) PROVE y \in InList(s) \cup {x}
    <3>1. PICK i \in 1..Len(w) : y = w[i]
      BY Zenon DEF InList
    <3> QED
      BY <1>2, <1>3, <3>1, Zenon DEF InList
  <2>4. ASSUME NEW y \in InList(s) PROVE y \in InList(w)
    <3>1. PICK i \in 1..Len(s) : y = s[i]
      BY Zenon DEF InList
    <3>2. w[i + 1] = y /\ i + 1 \in 1..Len(w)
      BY <1>2, <2>1, <3>1
    <3> QED
      BY <3>2, Zenon DEF InList
  <2>5. x \in InList(w)
    BY <1>2, <2>2, Zenon DEF InList
  <2> QED
    BY <2>3, <2>4, <2>5, Zenon
<1> QED
  BY <1>1, <1>2, <1>5, <1>6, Zenon

\* The constants of the rate limiter, one by one.
LEMMA RateParams ==
  /\ MaxEntries \in Nat /\ MaxEntries > 0 /\ PinMax \in Nat /\ PinMax > 1 /\ PinWindow \in Nat /\ PinWindow > 0
  /\ LockBase \in Nat /\ LockMax \in Nat /\ GlobalWindow \in Nat /\ GlobalMax \in Nat /\ GlobalMax > 0
  /\ Capacity \in Nat /\ BackoffMemory \in Nat /\ EntryTTL \in Nat /\ Horizon \in Nat
<1>1. /\ MaxEntries \in Nat \ {0} /\ PinMax \in Nat \ {0} /\ PinWindow \in Nat \ {0}
      /\ LockBase \in Nat \ {0} /\ GlobalWindow \in Nat \ {0} /\ GlobalMax \in Nat \ {0}
      /\ Capacity \in Nat \ {0}
  BY RateConstants, Zenon
<1> QED
  BY <1>1, RateConstants

\* The length of a lock is defined step by step.
LEMMA LockDefined ==
  ASSUME NEW n \in Nat
  PROVE  \E f : /\ f = [i \in 1..n |-> IF i = 1 THEN LockBase ELSE Doubled(f[i - 1])]
                /\ PinLockSeconds(n) = f[n]
<1> DEFINE Is(f, k) == f = [i \in 1..k |-> IF i = 1 THEN LockBase ELSE Doubled(f[i - 1])]
           T == {k \in Nat : ~\E f : Is(f, k)}
<1>1. PinLockSeconds(n) = (CHOOSE f : Is(f, n))[n]
  BY Zenon DEF PinLockSeconds
<1>2. T = {}
  <2> SUFFICES ASSUME T # {} PROVE FALSE
    OBVIOUS
  <2>1. PICK m \in T : \A k \in T : m <= k
    BY LeastOf
  <2>2. m \in Nat /\ ~\E f : Is(f, m)
    BY <2>1
  <2>3. m # 0
    <3> SUFFICES ASSUME m = 0 PROVE FALSE
      OBVIOUS
    <3>1. PICK f : f = [i \in 1..0 |-> 0]
      OBVIOUS
    <3>2. Is(f, 0)
      BY <3>1
    <3> QED
      BY <2>2, <3>2
  <2>4. m - 1 \in Nat /\ ~(m <= m - 1)
    BY <2>2, <2>3
  <2>5. \E f : Is(f, m - 1)
    BY <2>1, <2>4
  <2>6. PICK f : Is(f, m - 1)
    BY <2>5
  <2>7. PICK g : g = [i \in 1..m |-> IF i = m THEN IF m = 1 THEN LockBase ELSE Doubled(f[m - 1]) ELSE f[i]]
    OBVIOUS
  <2>8. \A i \in 1..m - 1 : g[i] = f[i]
    BY <2>2, <2>7
  <2>9. ASSUME NEW i \in 1..m
        PROVE g[i] = IF i = 1 THEN LockBase ELSE Doubled(g[i - 1])
    <3>1. CASE i # m
      <4>1. i \in 1..m - 1 /\ (i # 1 => i - 1 \in 1..m - 1)
        BY <2>2, <3>1
      <4>2. g[i] = f[i] /\ (i # 1 => g[i - 1] = f[i - 1])
        BY <2>8, <4>1, Zenon
      <4>3. f[i] = IF i = 1 THEN LockBase ELSE Doubled(f[i - 1])
        BY <2>6, <4>1, Zenon
      <4> QED
        BY <4>2, <4>3, Zenon
    <3>2. CASE i = m
      <4>1. m # 1 => m - 1 \in 1..m - 1
        BY <2>2, <2>3
      <4>2. m \in 1..m
        BY <2>2, <2>3
      <4>3. g[m] = IF m = 1 THEN LockBase ELSE Doubled(f[m - 1])
        BY <2>7, <4>2, Zenon
      <4> QED
        BY <2>8, <3>2, <4>1, <4>3, Zenon
    <3> QED
      BY <3>1, <3>2
  <2>10. Is(g, m)
    BY <2>7, <2>9, Zenon
  <2> QED
    BY <2>2, <2>10
<1>3. \E f : Is(f, n)
  BY <1>2
<1>4. Is(CHOOSE f : Is(f, n), n)
  <2> HIDE DEF Is
  <2> QED
    BY <1>3, Zenon
<1> QED
  BY <1>1, <1>4, Zenon

\* The first lock takes LockBase, each later one twice the one before, up to LockMax.
LEMMA LockDoubles ==
  ASSUME NEW n \in Nat, n > 0
  PROVE  PinLockSeconds(n) \in Nat /\ PinLockSeconds(n + 1) = Doubled(PinLockSeconds(n))
<1>1. PICK f : /\ f = [i \in 1..n |-> IF i = 1 THEN LockBase ELSE Doubled(f[i - 1])]
               /\ PinLockSeconds(n) = f[n]
  BY LockDefined, Zenon
<1>2. n + 1 \in Nat
  OBVIOUS
<1>3. PICK g : /\ g = [i \in 1..n + 1 |-> IF i = 1 THEN LockBase ELSE Doubled(g[i - 1])]
               /\ PinLockSeconds(n + 1) = g[n + 1]
  BY <1>2, LockDefined, Zenon
<1>4. \A i \in 1..n : f[i] = IF i = 1 THEN LockBase ELSE Doubled(f[i - 1])
  BY <1>1, Zenon
<1>5. \A i \in 1..n + 1 : g[i] = IF i = 1 THEN LockBase ELSE Doubled(g[i - 1])
  BY <1>3, Zenon
<1>6. PinLockSeconds(n) = f[n] /\ PinLockSeconds(n + 1) = g[n + 1]
  BY <1>1, <1>3
<1> HIDE <1>1
<1> HIDE <1>3
<1>7. LockBase \in Nat /\ LockMax \in Nat /\ \A d \in Nat : Doubled(d) \in Nat
  BY RateParams DEF Doubled
<1> DEFINE T == {k \in 1..n : ~(f[k] = g[k] /\ f[k] \in Nat)}
<1>8. T = {}
  <2> SUFFICES ASSUME T # {} PROVE FALSE
    OBVIOUS
  <2>0. T \in SUBSET Nat
    OBVIOUS
  <2>1. PICK m \in T : \A k \in T : m <= k
    BY <2>0, LeastOf
  <2>2. m \in 1..n /\ ~(f[m] = g[m] /\ f[m] \in Nat)
    BY <2>1
  <2>3. m \in 1..n + 1 /\ m - 1 \in 0..n /\ ~(m <= m - 1)
    BY <2>2
  <2>4. CASE m = 1
    BY <1>4, <1>5, <1>7, <2>2, <2>3, <2>4, Zenon
  <2>5. CASE m # 1
    <3>1. m - 1 \in 1..n
      BY <2>2, <2>5
    <3>2. f[m - 1] = g[m - 1] /\ f[m - 1] \in Nat
      BY <2>1, <2>3, <3>1
    <3>3. f[m] = Doubled(f[m - 1]) /\ g[m] = Doubled(g[m - 1])
      BY <1>4, <1>5, <2>2, <2>3, <2>5, Zenon
    <3> QED
      BY <1>7, <2>2, <3>2, <3>3, Zenon
  <2> QED
    BY <2>4, <2>5
<1>9. n \in 1..n /\ n + 1 \in 1..n + 1 /\ n + 1 # 1 /\ (n + 1) - 1 = n
  OBVIOUS
<1>10. f[n] = g[n] /\ f[n] \in Nat
  BY <1>8, <1>9
<1>11. g[n + 1] = Doubled(g[n])
  BY <1>5, <1>9, Zenon
<1> QED
  BY <1>6, <1>10, <1>11, Zenon

\* The first lock.
LEMMA FirstLock == PinLockSeconds(1) \in Nat
BY LockDoubles

\* The attempts that the global window still counts are some of the attempts.
LEMMA RecentList ==
  ASSUME now \in Nat, globalTS \in Seq(Nat)
  PROVE  RecentPins \in Seq(Nat) /\ Len(RecentPins) <= Len(globalTS)
<1> DEFINE Aged(i) == /\ i <= Len(globalTS) => now - globalTS[i] < GlobalWindow
                     /\ \A j \in 1..i - 1 : now - globalTS[j] >= GlobalWindow
           T == {i \in 1..Len(globalTS) + 1 : i <= Len(globalTS) => now - globalTS[i] < GlobalWindow}
<1>1. Len(globalTS) \in Nat /\ GlobalWindow \in Nat /\ \A j \in 1..Len(globalTS) : globalTS[j] \in Nat
  BY RateParams
<1>2. T \in SUBSET Nat
  BY <1>1
<1>3. T # {}
  <2>1. Len(globalTS) + 1 \in T
    BY <1>1
  <2> QED
    BY <2>1
<1>4. PICK m \in T : \A n \in T : m <= n
  BY <1>2, <1>3, LeastOf
<1>5. m \in 1..Len(globalTS) + 1 /\ Aged(m)
  <2>1. m \in 1..Len(globalTS) + 1 /\ (m <= Len(globalTS) => now - globalTS[m] < GlobalWindow)
    BY <1>4
  <2>2. ASSUME NEW j \in 1..m - 1 PROVE now - globalTS[j] >= GlobalWindow
    <3>1. j \in 1..Len(globalTS) + 1 /\ j \in 1..Len(globalTS) /\ ~(m <= j)
      BY <1>1, <2>1
    <3>2. j \notin T
      BY <1>4, <3>1
    <3>3. globalTS[j] \in Nat
      BY <1>1, <3>1
    <3>4. ~(now - globalTS[j] < GlobalWindow)
      BY <3>1, <3>2
    <3> QED
      BY <1>1, <3>3, <3>4
  <2> QED
    BY <2>1, <2>2
<1>6. FirstRecent \in 1..Len(globalTS) + 1
  <2>1. FirstRecent = CHOOSE i \in 1..Len(globalTS) + 1 : Aged(i)
    BY Zenon DEF FirstRecent
  <2> HIDE DEF Aged
  <2> QED
    BY <1>5, <2>1, Zenon
<1>7. PICK k : k = FirstRecent
  OBVIOUS
<1>8. k \in 1..Len(globalTS) + 1 /\ RecentPins = SubSeq(globalTS, k, Len(globalTS))
  BY <1>6, <1>7 DEF RecentPins
<1> HIDE DEF Aged, T
<1> HIDE <1>7
<1> QED
  BY <1>1, <1>8

\* The table as a set.
LEMMA InListed == \A x : InLru(x) <=> x \in InList(lru)
BY Zenon DEF InLru, InList

\* An entry is evicted only when it is not locked and another address needs its place.
LEMMA VictimFree ==
  ASSUME NEW ip \in IP, lru \in Seq(IP), HasRoom(ip), Evicts(ip)
  PROVE  InLru(Victim) /\ Victim \in IP /\ Victim # ip /\ ~Locked(Victim)
<1>1. Evictable # {} /\ Len(lru) \in Nat /\ ~InLru(ip)
  BY RateParams DEF HasRoom, Evicts
<1> DEFINE T == {Len(lru) - i : i \in Evictable}
<1>2. T \in SUBSET Nat /\ T # {}
  BY <1>1 DEF Evictable
<1>3. PICK m \in T : \A n \in T : m <= n
  BY <1>2, LeastOf
<1>4. PICK k \in Evictable : m = Len(lru) - k
  BY <1>3
<1>5. ASSUME NEW j \in Evictable PROVE j <= k
  <2>1. Len(lru) - j \in T
    BY <1>5
  <2>2. m <= Len(lru) - j
    BY <1>3, <2>1
  <2>3. j \in Int /\ k \in Int
    BY DEF Evictable
  <2> QED
    BY <1>1, <1>4, <2>2, <2>3
<1>6. (CHOOSE i \in Evictable : \A j \in Evictable : j <= i) \in Evictable
  BY <1>5, Zenon
<1>7. PICK i \in Evictable : Victim = lru[i]
  BY <1>6, Zenon DEF Victim
<1>8. i \in 1..Len(lru) /\ ~Locked(lru[i])
  BY Zenon DEF Evictable
<1>9. lru[i] \in IP /\ InLru(lru[i])
  BY <1>8 DEF InLru
<1>10. lru[i] # ip
  BY <1>1, <1>9
<1> QED
  BY <1>7, <1>8, <1>9, <1>10, Zenon

\* The table after an address was looked up: it is in front, an evicted entry is gone.
LEMMA Touched ==
  ASSUME NEW ip \in IP, lru \in Seq(IP), OnceListed(lru), Len(lru) <= MaxEntries, HasRoom(ip)
  PROVE  /\ Touch(ip) \in Seq(IP) /\ OnceListed(Touch(ip)) /\ Len(Touch(ip)) <= MaxEntries
         /\ InList(Touch(ip)) = (InList(lru) \ Gone(ip)) \cup {ip}
         /\ Gone(ip) \subseteq IP /\ ip \notin Gone(ip)
         /\ \A x \in Gone(ip) : InLru(x) /\ ~Locked(x)
<1>0. Len(lru) \in Nat /\ MaxEntries \in Nat
  BY RateParams
<1>1. PICK s : s = lru
  OBVIOUS
<1>2. s \in Seq(IP) /\ OnceListed(s) /\ Len(s) \in Nat /\ Len(s) <= MaxEntries
  BY <1>0, <1>1
<1>3. CASE InLru(ip)
  <2>1. Touch(ip) = <<ip>> \o Without(s, {ip}) /\ Gone(ip) = {}
    BY <1>1, <1>3 DEF Touch, Gone, Evicts
  <2>2. \E i \in 1..Len(s) : s[i] \in {ip}
    BY <1>1, <1>3, Zenon DEF InLru
  <2>3. PICK w : w = Without(s, {ip})
    OBVIOUS
  <2>4. w \in Seq(IP) /\ OnceListed(w) /\ InList(w) = InList(s) \ {ip} /\ Len(w) < Len(s)
    BY <1>2, <2>2, <2>3, WithoutList, Zenon
  <2>5. ip \notin InList(w)
    BY <2>4
  <2>6. /\ <<ip>> \o w \in Seq(IP) /\ OnceListed(<<ip>> \o w) /\ InList(<<ip>> \o w) = InList(w) \cup {ip}
        /\ Len(<<ip>> \o w) = Len(w) + 1
    BY <2>4, <2>5, FrontList, Zenon
  <2>7. Len(w) + 1 <= MaxEntries
    BY <1>0, <1>2, <2>4
  <2> QED
    BY <1>1, <2>1, <2>3, <2>4, <2>6, <2>7, Zenon
<1>4. CASE ~InLru(ip) /\ Len(lru) < MaxEntries
  <2>1. Touch(ip) = <<ip>> \o s /\ Gone(ip) = {}
    BY <1>0, <1>1, <1>4 DEF Touch, Gone, Evicts
  <2>2. ip \notin InList(s)
    BY <1>1, <1>4, InListed, Zenon
  <2>3. /\ <<ip>> \o s \in Seq(IP) /\ OnceListed(<<ip>> \o s) /\ InList(<<ip>> \o s) = InList(s) \cup {ip}
        /\ Len(<<ip>> \o s) = Len(s) + 1
    BY <1>2, <2>2, FrontList, Zenon
  <2>4. Len(s) + 1 <= MaxEntries
    BY <1>0, <1>1, <1>4
  <2> QED
    BY <1>1, <2>1, <2>3, <2>4, Zenon
<1>5. CASE ~InLru(ip) /\ ~(Len(lru) < MaxEntries)
  <2>1. Evicts(ip)
    BY <1>0, <1>5 DEF Evicts
  <2>2. InLru(Victim) /\ Victim \in IP /\ Victim # ip /\ ~Locked(Victim)
    BY <2>1, VictimFree, Zenon
  <2>3. PICK v : v = Victim
    OBVIOUS
  <2>4. Touch(ip) = <<ip>> \o Without(s, {v}) /\ Gone(ip) = {v}
    BY <1>1, <1>5, <2>1, <2>3, Zenon DEF Touch, Gone
  <2>5. \E i \in 1..Len(s) : s[i] \in {v}
    BY <1>1, <2>2, <2>3, Zenon DEF InLru
  <2>6. PICK w : w = Without(s, {v})
    OBVIOUS
  <2>7. w \in Seq(IP) /\ OnceListed(w) /\ InList(w) = InList(s) \ {v} /\ Len(w) < Len(s)
    BY <1>2, <2>5, <2>6, WithoutList, Zenon
  <2>8. ip \notin InList(w)
    BY <1>1, <1>5, <2>7, InListed, Zenon
  <2>9. /\ <<ip>> \o w \in Seq(IP) /\ OnceListed(<<ip>> \o w) /\ InList(<<ip>> \o w) = InList(w) \cup {ip}
        /\ Len(<<ip>> \o w) = Len(w) + 1
    BY <2>7, <2>8, FrontList, Zenon
  <2>10. Len(w) + 1 <= MaxEntries
    BY <1>0, <1>2, <2>7
  <2>11. ip \notin {v} /\ {v} \subseteq IP /\ \A x \in {v} : InLru(x) /\ ~Locked(x)
    BY <2>2, <2>3, Zenon
  <2> QED
    BY <1>1, <2>4, <2>6, <2>7, <2>9, <2>10, <2>11, Zenon
<1> QED
  BY <1>3, <1>4, <1>5

\* What the limiter knows of an address x, where tab is the table, e the entry, G the
\* attempts it was granted, l its last lock and t the time: a lock that is not over
\* and a back-off that is remembered are in the entry; an entry that counts has been
\* granted fewer attempts since its window started than it counts, and the window
\* before has left less than a window's worth.
EntrySound(tab, x, e, G, l, t) ==
  /\ l.until > t => x \in tab /\ e.until = l.until
  /\ l.kept => x \in tab /\ e.lockouts > 0 /\ e.until = l.until /\ l.len = PinLockSeconds(e.lockouts)
  /\ x \notin tab => e.att = 0
  /\ IsFiniteSet(G) /\ \A g \in G : g[1] <= t
  /\ e.att = 0 => e.start = LongAgo /\ G = {}
  /\ e.att > 0 => /\ Cardinality({g \in G : g[1] > e.start}) <= e.att - 1
                  /\ Cardinality(G) <= PinMax - 2 + e.att

EntryRecords == [att : 0..PinMax - 1, start : Int, until : Nat, lockouts : Nat, bucket : 0..Capacity, seen : Int]
Grants == SUBSET ((0..Horizon) \X Nat)
LockRecords == [until : Nat, len : Nat, kept : BOOLEAN]

RatePlaced ==
  /\ now \in 0..Horizon /\ lru \in Seq(IP) /\ OnceListed(lru) /\ Len(lru) <= MaxEntries
  /\ entry \in [IP -> EntryRecords] /\ globalTS \in Seq(Nat) /\ Len(globalTS) <= GlobalMax
  /\ spare \in 0..Capacity /\ granted \in [IP -> Grants] /\ locks \in [IP -> LockRecords]

RateInv == /\ RatePlaced
           /\ \A x \in IP : EntrySound(InList(lru), x, entry[x], granted[x], locks[x], now)

\* Neither the time that passes, nor the bucket or the age of an entry, nor the other
\* addresses of the table matter.
LEMMA SoundAlike ==
  ASSUME NEW tab, NEW u, NEW x, NEW e \in EntryRecords, NEW d, NEW G \in Grants, NEW l \in LockRecords,
         NEW t \in Int, NEW v \in Int, t <= v, EntrySound(tab, x, e, G, l, t), x \in u <=> x \in tab,
         d.att = e.att, d.start = e.start, d.until = e.until, d.lockouts = e.lockouts
  PROVE  EntrySound(u, x, d, G, l, v)
<1>1. l.until > v => l.until > t
  <2>1. l.until \in Int
    BY DEF LockRecords
  <2> QED
    BY <2>1
<1>2. ASSUME NEW g \in G PROVE g[1] <= v
  <2>1. g[1] \in Int
    BY RateParams DEF Grants
  <2>2. g[1] <= t
    BY Zenon DEF EntrySound
  <2> QED
    BY <2>1, <2>2
<1> QED
  BY <1>1, <1>2, Zenon DEF EntrySound

\* An address without an entry, a lock or a remembered back-off may get a fresh entry.
LEMMA SoundFresh ==
  ASSUME NEW u, NEW x, NEW d, NEW l, NEW t, ~(l.until > t), ~l.kept, d.att = 0, d.start = LongAgo
  PROVE  EntrySound(u, x, d, {}, l, t)
<1>1. IsFiniteSet({}) /\ ~(d.att > 0)
  BY FS_EmptySet
<1> QED
  BY <1>1, Zenon DEF EntrySound

\* An address that is not in the table has neither.
LEMMA SoundAbsent ==
  ASSUME NEW tab, NEW x, NEW e, NEW G, NEW l, NEW t, EntrySound(tab, x, e, G, l, t), x \notin tab
  PROVE  ~(l.until > t) /\ ~l.kept /\ e.att = 0 /\ e.start = LongAgo /\ G = {}
BY Zenon DEF EntrySound

\* An entry that is locked anew.
LEMMA SoundLocked ==
  ASSUME NEW u, NEW x \in u, NEW d, NEW l, NEW t, d.att = 0, d.start = LongAgo, d.lockouts > 0,
         d.until = l.until, l.len = PinLockSeconds(d.lockouts)
  PROVE  EntrySound(u, x, d, {}, l, t)
<1>1. IsFiniteSet({}) /\ ~(d.att > 0)
  BY FS_EmptySet
<1> QED
  BY <1>1, Zenon DEF EntrySound

\* An attempt that is counted and granted.
LEMMA SoundCounted ==
  ASSUME NEW tab, NEW u, NEW x \in u, NEW e \in EntryRecords, NEW d, NEW G \in Grants, NEW l \in LockRecords,
         NEW t \in 0..Horizon, NEW k \in Nat, EntrySound(tab, x, e, G, l, t),
         NEW late, late = (t - e.start > PinWindow), NEW n, n = (IF late THEN 0 ELSE e.att) + 1, n < PinMax,
         d.att = n, d.start = IF late THEN t ELSE e.start, d.until = e.until, d.lockouts = e.lockouts
  PROVE  EntrySound(u, x, d, {g \in G : t - g[1] < PinWindow} \cup {<<t, k>>}, l, t)
<1>0. /\ PinMax \in Nat /\ PinMax > 1 /\ PinWindow \in Nat /\ Horizon \in Nat /\ t \in Int
      /\ e.att \in 0..PinMax - 1 /\ e.start \in Int /\ l.until \in Nat
  BY RateParams DEF EntryRecords, LockRecords
<1>1. \A g \in G : g[1] \in Int
  BY <1>0 DEF Grants
<1>2. IsFiniteSet(G)
  BY Zenon DEF EntrySound
<1> DEFINE W == {g \in G : t - g[1] < PinWindow}
           N == W \cup {<<t, k>>}
           M == {g \in N : g[1] > d.start}
           B == {g \in G : g[1] > e.start}
<1>3. /\ IsFiniteSet(W) /\ Cardinality(W) \in Nat /\ Cardinality(W) <= Cardinality(G)
      /\ IsFiniteSet(B) /\ Cardinality(B) \in Nat /\ Cardinality(G) \in Nat
  <2>1. W \subseteq G /\ B \subseteq G
    OBVIOUS
  <2> QED
    BY <1>2, <2>1, FS_Subset, FS_CardinalityType
<1>4. IsFiniteSet(N) /\ Cardinality(N) \in Nat /\ Cardinality(N) <= Cardinality(W) + 1
  <2>1. IsFiniteSet(W \cup {<<t, k>>}) /\ Cardinality(W \cup {<<t, k>>}) = IF <<t, k>> \in W THEN Cardinality(W) ELSE Cardinality(W) + 1
    BY <1>3, FS_AddElement
  <2> QED
    BY <1>3, <2>1
<1>5. IsFiniteSet(M) /\ Cardinality(M) \in Nat
  <2>1. M \subseteq N
    OBVIOUS
  <2> HIDE DEF M, N
  <2> QED
    BY <1>4, <2>1, FS_Subset, FS_CardinalityType
<1>6. Cardinality(M) <= n - 1 /\ Cardinality(N) <= PinMax - 2 + n
  <2>1. CASE late
    <3>1. n = 0 + 1 /\ d.start = t /\ t - e.start > PinWindow
      BY <2>1, Zenon
    <3>2. M = {}
      <4> SUFFICES ASSUME NEW g \in M PROVE FALSE
        OBVIOUS
      <4>1. g \in W \/ g = <<t, k>>
        OBVIOUS
      <4>2. g[1] > t
        BY <3>1
      <4>3. CASE g = <<t, k>>
        BY <1>0, <4>2, <4>3
      <4>4. CASE g \in W
        <5>1. g \in G /\ g[1] <= t
          BY <4>4 DEF EntrySound
        <5> QED
          BY <1>0, <1>1, <4>2, <5>1
      <4> QED
        BY <4>1, <4>3, <4>4
    <3>3. Cardinality(M) = 0
      BY <3>2, FS_EmptySet
    <3>4. Cardinality(W) <= PinMax - 2
      <4>1. CASE e.att = 0
        <5>1. W = {}
          BY <4>1 DEF EntrySound
        <5>2. Cardinality(W) = 0
          BY <5>1, FS_EmptySet
        <5> QED
          BY <1>0, <5>2
      <4>2. CASE e.att # 0
        <5>1. W \subseteq B
          <6> SUFFICES ASSUME NEW g \in W PROVE g \in B
            OBVIOUS
          <6>1. g \in G /\ t - g[1] < PinWindow /\ g[1] \in Int
            BY <1>1
          <6>2. g[1] > e.start
            BY <1>0, <3>1, <6>1
          <6> QED
            BY <6>1, <6>2
        <5>2. e.att > 0
          BY <1>0, <4>2
        <5>3. Cardinality(B) <= e.att - 1
          BY <5>2, Zenon DEF EntrySound
        <5>4. Cardinality(W) <= Cardinality(B)
          BY <1>3, <5>1, FS_Subset
        <5> HIDE DEF B, W
        <5> QED
          BY <1>0, <1>3, <5>3, <5>4
      <4> QED
        BY <4>1, <4>2
    <3> HIDE DEF M, N, W, B
    <3> QED
      BY <1>0, <1>3, <1>4, <3>1, <3>3, <3>4, 0 + 1 = 1
  <2>2. CASE ~late
    <3>1. n = e.att + 1 /\ d.start = e.start /\ ~(t - e.start > PinWindow)
      BY <1>0, <2>2
    <3>2. e.att # 0
      <4> SUFFICES ASSUME e.att = 0 PROVE FALSE
        OBVIOUS
      <4>1. e.start = LongAgo
        BY Zenon DEF EntrySound
      <4>2. e.start = 0 - PinWindow - 1
        BY <4>1 DEF LongAgo
      <4> QED
        BY <1>0, <3>1, <4>2
    <3>3. e.att > 0
      BY <1>0, <3>2
    <3>4. Cardinality(B) <= e.att - 1 /\ Cardinality(G) <= PinMax - 2 + e.att
      BY <3>3, Zenon DEF EntrySound
    <3>5. M \subseteq B \cup {<<t, k>>}
      BY <3>1
    <3>6. IsFiniteSet(B \cup {<<t, k>>}) /\ Cardinality(B \cup {<<t, k>>}) <= Cardinality(B) + 1
          /\ Cardinality(B \cup {<<t, k>>}) \in Nat
      <4>1. IsFiniteSet(B \cup {<<t, k>>}) /\ Cardinality(B \cup {<<t, k>>}) = IF <<t, k>> \in B THEN Cardinality(B) ELSE Cardinality(B) + 1
        BY <1>3, FS_AddElement
      <4> QED
        BY <1>3, <4>1
    <3>7. Cardinality(M) <= Cardinality(B \cup {<<t, k>>})
      BY <3>5, <3>6, FS_Subset
    <3> HIDE DEF M, N, W, B
    <3> QED
      BY <1>0, <1>3, <1>4, <1>5, <3>1, <3>4, <3>6, <3>7
  <2> QED
    BY <2>1, <2>2
<1>7. n > 0 /\ n # 0
  BY <1>0
<1>8. /\ l.until > t => e.until = l.until
      /\ l.kept => e.lockouts > 0 /\ e.until = l.until /\ l.len = PinLockSeconds(e.lockouts)
  BY Zenon DEF EntrySound
<1>9. d.att > 0 => Cardinality({g \in N : g[1] > d.start}) <= d.att - 1 /\ Cardinality(N) <= PinMax - 2 + d.att
  BY <1>6, Zenon
<1>11. \A g \in N : g[1] <= t
  <2> SUFFICES ASSUME NEW g \in N PROVE g[1] <= t
    OBVIOUS
  <2>1. CASE g = <<t, k>>
    BY <1>0, <2>1
  <2>2. CASE g \in W
    BY <2>2 DEF EntrySound
  <2> QED
    BY <2>1, <2>2
<1> HIDE DEF N
<1>10. EntrySound(u, x, d, N, l, t)
  BY <1>4, <1>7, <1>8, <1>9, <1>11, Zenon DEF EntrySound
<1> QED
  BY <1>10 DEF N

\* What the invariant says of one address.
LEMMA RateAt ==
  ASSUME RateInv
  PROVE  /\ now \in 0..Horizon /\ now \in Int /\ now \in Nat /\ 0 <= now
         /\ \A x \in IP : /\ entry[x] \in EntryRecords /\ granted[x] \in Grants /\ locks[x] \in LockRecords
                          /\ EntrySound(InList(lru), x, entry[x], granted[x], locks[x], now)
<1>1. now \in 0..Horizon /\ Horizon \in Nat
  BY RateParams DEF RateInv, RatePlaced
<1>2. \A x \in IP : entry[x] \in EntryRecords /\ granted[x] \in Grants /\ locks[x] \in LockRecords
  BY DEF RateInv, RatePlaced
<1>3. \A x \in IP : EntrySound(InList(lru), x, entry[x], granted[x], locks[x], now)
  BY Zenon DEF RateInv
<1> QED
  BY <1>1, <1>2, <1>3

\* An entry that is dropped loses what it knew, and a lock that is over stays over.
LEMMA Dropping ==
  ASSUME NEW tab, NEW u, NEW x \in IP, NEW e \in EntryRecords, NEW d, NEW G, NEW l \in LockRecords, NEW m,
         NEW t, EntrySound(tab, x, e, G, l, t), ~(e.until > t), d.att = 0, d.start = LongAgo,
         m.until = l.until, ~m.kept
  PROVE  EntrySound(u, x, d, {}, m, t)
<1>1. ~(l.until > t)
  BY Zenon DEF EntrySound
<1> QED
  BY <1>1, SoundFresh, Zenon

\* A fresh entry.
LEMMA FreshEntry ==
  ASSUME now \in Nat
  PROVE  Fresh \in EntryRecords /\ Fresh.att = 0 /\ Fresh.start = LongAgo /\ Fresh.lockouts = 0 /\ Fresh.until = 0
BY RateParams DEF Fresh, EntryRecords, LongAgo

\* The other addresses when one is looked up.
LEMMA OthersKept ==
  ASSUME RateInv, NEW ip \in IP, HasRoom(ip), lru' = Touch(ip), now' = now,
         \A x \in IP \ {ip} :
           /\ entry'[x] = (IF x \in Gone(ip) THEN Fresh ELSE entry[x])
           /\ granted'[x] = (IF x \in Gone(ip) THEN {} ELSE granted[x])
           /\ locks'[x] = (IF x \in Gone(ip) THEN [locks[x] EXCEPT !.kept = FALSE] ELSE locks[x])
  PROVE  /\ lru' \in Seq(IP) /\ OnceListed(lru') /\ Len(lru') <= MaxEntries /\ ip \in InList(lru')
         /\ \A x \in IP \ {ip} :
              /\ entry'[x] \in EntryRecords /\ granted'[x] \in Grants /\ locks'[x] \in LockRecords
              /\ EntrySound(InList(lru'), x, entry'[x], granted'[x], locks'[x], now')
<1>0. lru \in Seq(IP) /\ OnceListed(lru) /\ Len(lru) <= MaxEntries
  BY DEF RateInv, RatePlaced
<1>1. /\ Touch(ip) \in Seq(IP) /\ OnceListed(Touch(ip)) /\ Len(Touch(ip)) <= MaxEntries
      /\ InList(Touch(ip)) = (InList(lru) \ Gone(ip)) \cup {ip}
      /\ \A x \in Gone(ip) : InLru(x) /\ ~Locked(x)
  BY <1>0, Touched, Zenon
<1>2. InList(lru') = (InList(lru) \ Gone(ip)) \cup {ip}
  BY <1>1, Zenon
<1>3. ASSUME NEW x \in IP \ {ip}
      PROVE  /\ entry'[x] \in EntryRecords /\ granted'[x] \in Grants /\ locks'[x] \in LockRecords
             /\ EntrySound(InList(lru'), x, entry'[x], granted'[x], locks'[x], now')
  <2>1. PICK tab, u, e, d, G, l, m, t :
          /\ tab = InList(lru) /\ u = InList(lru') /\ e = entry[x] /\ d = entry'[x]
          /\ G = granted[x] /\ l = locks[x] /\ m = locks'[x] /\ t = now
    OBVIOUS
  <2>2. /\ e \in EntryRecords /\ G \in Grants /\ l \in LockRecords /\ EntrySound(tab, x, e, G, l, t)
        /\ t \in Int /\ t \in Nat
    BY <2>1, RateAt, Zenon
  <2>3. CASE x \in Gone(ip)
    <3>1. d = Fresh /\ granted'[x] = {} /\ m = [l EXCEPT !.kept = FALSE]
      BY <2>1, <2>3, Zenon
    <3>2. m \in LockRecords /\ m.until = l.until /\ ~m.kept
      BY <2>2, <3>1 DEF LockRecords
    <3>3. d \in EntryRecords /\ d.att = 0 /\ d.start = LongAgo
      BY <2>1, <2>2, <3>1, FreshEntry, Zenon
    <3>4. ~(e.until > t)
      BY <1>1, <2>1, <2>3, Zenon DEF Locked
    <3>5. EntrySound(u, x, d, {}, m, t)
      BY <2>2, <3>2, <3>3, <3>4, Dropping, Zenon
    <3>6. {} \in Grants
      BY DEF Grants
    <3> QED
      BY <2>1, <3>1, <3>2, <3>3, <3>5, <3>6, Zenon
  <2>4. CASE x \notin Gone(ip)
    <3>1. d = e /\ granted'[x] = G /\ m = l
      BY <2>1, <2>4, Zenon
    <3>2. x \in u <=> x \in tab
      BY <1>2, <2>1, <2>4, Zenon
    <3>3. t <= t
      BY <2>2
    <3>4. EntrySound(u, x, e, G, l, t)
      BY <2>2, <3>2, <3>3, SoundAlike, Zenon
    <3> QED
      BY <2>1, <2>2, <3>1, <3>4, Zenon
  <2> QED
    BY <2>3, <2>4
<1> QED
  BY <1>1, <1>2, <1>3, Zenon

\* The entry that a look-up returns.
LEMMA GotEntry ==
  ASSUME RateInv, NEW ip \in IP
  PROVE  /\ Got(ip) \in EntryRecords
         /\ InLru(ip) => /\ Got(ip).att = entry[ip].att /\ Got(ip).start = entry[ip].start
                         /\ Got(ip).until = entry[ip].until /\ Got(ip).lockouts = entry[ip].lockouts
         /\ ~InLru(ip) => Got(ip) = Fresh
<1>1. entry[ip] \in EntryRecords /\ now \in Nat /\ Fresh \in EntryRecords
  BY RateAt, FreshEntry
<1>2. CASE InLru(ip)
  <2>1. PICK e, d : e = entry[ip] /\ d = Got(ip)
    OBVIOUS
  <2>2. e \in EntryRecords /\ d = [e EXCEPT !.seen = now]
    BY <1>1, <1>2, <2>1 DEF Got
  <2>3. d \in EntryRecords /\ d.att = e.att /\ d.start = e.start /\ d.until = e.until /\ d.lockouts = e.lockouts
    BY <1>1, <2>2 DEF EntryRecords
  <2> QED
    BY <1>2, <2>1, <2>3, Zenon
<1>3. CASE ~InLru(ip)
  BY <1>1, <1>3 DEF Got
<1> QED
  BY <1>2, <1>3

\* The address that is looked up, when its entry keeps its counts.
LEMMA LookedUp ==
  ASSUME RateInv, NEW ip \in IP, NEW u, ip \in u, NEW d, d.att = Got(ip).att, d.start = Got(ip).start,
         d.until = Got(ip).until, d.lockouts = Got(ip).lockouts
  PROVE  EntrySound(u, ip, d, granted[ip], locks[ip], now)
<1>1. PICK tab, e, g, G, l, t :
        /\ tab = InList(lru) /\ e = entry[ip] /\ g = Got(ip) /\ G = granted[ip] /\ l = locks[ip] /\ t = now
  OBVIOUS
<1>2. e \in EntryRecords /\ G \in Grants /\ l \in LockRecords /\ EntrySound(tab, ip, e, G, l, t) /\ t \in Int /\ t <= t
  BY <1>1, RateAt
<1>3. CASE InLru(ip)
  <2>1. ip \in tab
    BY <1>1, <1>3, InListed, Zenon
  <2>2. g.att = e.att /\ g.start = e.start /\ g.until = e.until /\ g.lockouts = e.lockouts
    BY <1>1, <1>3, GotEntry, Zenon
  <2>3. d.att = e.att /\ d.start = e.start /\ d.until = e.until /\ d.lockouts = e.lockouts
    BY <1>1, <2>2, Zenon
  <2>4. ip \in u <=> ip \in tab
    BY <2>1
  <2>5. EntrySound(u, ip, d, G, l, t)
    BY <1>2, <2>3, <2>4, SoundAlike, Zenon
  <2> QED
    BY <1>1, <2>5, Zenon
<1>4. CASE ~InLru(ip)
  <2>1. ip \notin tab
    BY <1>1, <1>4, InListed, Zenon
  <2>2. g = Fresh /\ now \in Nat
    BY <1>1, <1>4, GotEntry, RateAt, Zenon
  <2>3. d.att = 0 /\ d.start = LongAgo
    BY <1>1, <2>2, FreshEntry, Zenon
  <2>4. ~(l.until > t) /\ ~l.kept /\ G = {}
    BY <1>2, <2>1, SoundAbsent, Zenon
  <2>5. EntrySound(u, ip, d, {}, l, t)
    BY <2>3, <2>4, SoundFresh, Zenon
  <2> QED
    BY <1>1, <2>4, <2>5, Zenon
<1> QED
  BY <1>3, <1>4

\* The part of the invariant about the table and its addresses.
TableInv == /\ lru \in Seq(IP) /\ OnceListed(lru) /\ Len(lru) <= MaxEntries
            /\ entry \in [IP -> EntryRecords] /\ granted \in [IP -> Grants] /\ locks \in [IP -> LockRecords]
            /\ \A x \in IP : EntrySound(InList(lru), x, entry[x], granted[x], locks[x], now)

\* Functions that are given point by point.
LEMMA TableFrom ==
  ASSUME NEW f, NEW D, NEW R, f = [x \in D |-> f[x]], \A x \in D : f[x] \in R
  PROVE  f \in [D -> R]
OBVIOUS

\* A look-up that leaves the counts of the address alone keeps the table sound.
LEMMA LookUpKeeps ==
  ASSUME RateInv, NEW ip \in IP, HasRoom(ip), lru' = Touch(ip), now' = now,
         NEW d \in EntryRecords, d.att = Got(ip).att, d.start = Got(ip).start,
         d.until = Got(ip).until, d.lockouts = Got(ip).lockouts,
         entry' = [Drop(entry, Gone(ip)) EXCEPT ![ip] = d], Forgotten(Gone(ip))
  PROVE  TableInv'
<1>1. \A x \in IP : entry'[x] = IF x = ip THEN d ELSE IF x \in Gone(ip) THEN Fresh ELSE entry[x]
  BY DEF Drop
<1>2. \A x \in IP : /\ granted'[x] = (IF x \in Gone(ip) THEN {} ELSE granted[x])
                    /\ locks'[x] = (IF x \in Gone(ip) THEN [locks[x] EXCEPT !.kept = FALSE] ELSE locks[x])
  BY Zenon DEF Forgotten
<1>3. entry' = [x \in IP |-> entry'[x]] /\ granted' = [x \in IP |-> granted'[x]] /\ locks' = [x \in IP |-> locks'[x]]
  BY DEF Drop, Forgotten
<1>4. PICK en, gr, lo : en = entry' /\ gr = granted' /\ lo = locks'
  OBVIOUS
<1>5. en = [x \in IP |-> en[x]] /\ gr = [x \in IP |-> gr[x]] /\ lo = [x \in IP |-> lo[x]]
  BY <1>3, <1>4, Zenon
<1>6. \A x \in IP \ {ip} :
           /\ entry'[x] = (IF x \in Gone(ip) THEN Fresh ELSE entry[x])
           /\ granted'[x] = (IF x \in Gone(ip) THEN {} ELSE granted[x])
           /\ locks'[x] = (IF x \in Gone(ip) THEN [locks[x] EXCEPT !.kept = FALSE] ELSE locks[x])
  BY <1>1, <1>2, Zenon
<1>7. /\ lru' \in Seq(IP) /\ OnceListed(lru') /\ Len(lru') <= MaxEntries /\ ip \in InList(lru')
      /\ \A x \in IP \ {ip} :
           /\ entry'[x] \in EntryRecords /\ granted'[x] \in Grants /\ locks'[x] \in LockRecords
           /\ EntrySound(InList(lru'), x, entry'[x], granted'[x], locks'[x], now')
  BY <1>6, OthersKept, Zenon
<1>8. ip \notin Gone(ip)
  <2>1. lru \in Seq(IP) /\ OnceListed(lru) /\ Len(lru) <= MaxEntries
    BY DEF RateInv, RatePlaced
  <2> QED
    BY <2>1, Touched, Zenon
<1>9. entry'[ip] = d /\ granted'[ip] = granted[ip] /\ locks'[ip] = locks[ip]
  BY <1>1, <1>2, <1>8, Zenon
<1>10. PICK u : u = InList(lru')
  OBVIOUS
<1>11. EntrySound(u, ip, d, granted[ip], locks[ip], now)
  BY <1>7, <1>10, LookedUp, Zenon
<1>12. granted[ip] \in Grants /\ locks[ip] \in LockRecords
  BY RateAt, Zenon
<1>13. \A x \in IP : /\ en[x] \in EntryRecords /\ gr[x] \in Grants /\ lo[x] \in LockRecords
                     /\ EntrySound(InList(lru'), x, en[x], gr[x], lo[x], now')
  BY <1>4, <1>7, <1>9, <1>10, <1>11, <1>12, Zenon
<1>14. en \in [IP -> EntryRecords] /\ gr \in [IP -> Grants] /\ lo \in [IP -> LockRecords]
  BY <1>5, <1>13, TableFrom, Zenon
<1> QED
  BY <1>4, <1>7, <1>13, <1>14, Zenon DEF TableInv

\* A second passes.
LEMMA SecondKeeps == ASSUME RateInv, Second PROVE RateInv'
<1>0. now \in 0..Horizon /\ now \in Int /\ Horizon \in Nat /\ Capacity \in Nat
  BY RateAt, RateParams
<1>1. /\ now' = now + 1 /\ now < Horizon /\ lru' = lru /\ globalTS' = globalTS /\ granted' = granted
      /\ locks' = locks /\ spare' = Capacity
      /\ entry' = [ip \in IP |-> IF InLru(ip) THEN [entry[ip] EXCEPT !.bucket = Capacity]
                                 ELSE [entry[ip] EXCEPT !.seen = now + 1]]
  BY DEF Second
<1>2. now' \in 0..Horizon /\ now + 1 \in Int /\ now <= now + 1 /\ spare' \in 0..Capacity
  BY <1>0, <1>1
<1>3. ASSUME NEW x \in IP
      PROVE  entry'[x] \in EntryRecords /\ EntrySound(InList(lru), x, entry'[x], granted[x], locks[x], now + 1)
  <2>1. PICK e, d, G, l, t, tab : /\ e = entry[x] /\ d = entry'[x] /\ G = granted[x] /\ l = locks[x] /\ t = now
                                  /\ tab = InList(lru)
    OBVIOUS
  <2>2. e \in EntryRecords /\ G \in Grants /\ l \in LockRecords /\ EntrySound(tab, x, e, G, l, t)
    BY <2>1, RateAt, Zenon
  <2>3. d = [e EXCEPT !.bucket = Capacity] \/ d = [e EXCEPT !.seen = t + 1]
    BY <1>1, <2>1, Zenon
  <2>4. d \in EntryRecords /\ d.att = e.att /\ d.start = e.start /\ d.until = e.until /\ d.lockouts = e.lockouts
    BY <1>0, <2>1, <2>2, <2>3 DEF EntryRecords
  <2>5. t \in Int /\ t + 1 \in Int /\ t <= t + 1
    BY <1>2, <1>0, <2>1
  <2>6. EntrySound(tab, x, d, G, l, t + 1)
    BY <2>2, <2>4, <2>5, SoundAlike, Zenon
  <2> QED
    BY <2>1, <2>4, <2>6, Zenon
<1>4. entry' \in [IP -> EntryRecords]
  BY <1>1, <1>3
<1>5. RatePlaced
  BY Zenon DEF RateInv
<1>6. \A x \in IP : EntrySound(InList(lru'), x, entry'[x], granted'[x], locks'[x], now')
  BY <1>1, <1>3, Zenon
<1>7. TableInv'
  BY <1>1, <1>4, <1>5, <1>6, Zenon DEF TableInv, RatePlaced
<1>8. RateInv'
  <2>1. globalTS' \in Seq(Nat) /\ Len(globalTS') <= GlobalMax
    BY <1>1, <1>5, Zenon DEF RatePlaced
  <2> QED
    BY <1>2, <1>6, <1>7, <2>1, Zenon DEF RateInv, RatePlaced, TableInv
<1> QED
  BY <1>8

\* The rest of the invariant when the table is known to be sound.
LEMMA TableKeeps ==
  ASSUME RateInv, TableInv', now' = now, globalTS' \in Seq(Nat), Len(globalTS') <= GlobalMax, spare' \in 0..Capacity
  PROVE  RateInv'
<1>1. now \in 0..Horizon
  BY RateAt, Zenon
<1> QED
  BY <1>1, Zenon DEF RateInv, RatePlaced, TableInv

\* CheckPinVerify.
LEMMA CheckKeeps == ASSUME RateInv, NEW ip \in IP, CheckPinVerify(ip) PROVE RateInv'
<1>1. PICK d : d = Got(ip)
  OBVIOUS
<1>2. d \in EntryRecords
  BY <1>1, GotEntry, Zenon
<1>3. now' = now /\ globalTS' = globalTS /\ spare' = spare
  BY DEF CheckPinVerify
<1>4. TableInv'
  BY <1>1, <1>2, <1>3, LookUpKeeps, Zenon DEF CheckPinVerify
<1> QED
  BY <1>3, <1>4, TableKeeps, Zenon DEF RateInv, RatePlaced

\* ConsumePinAttempt that is refused.
LEMMA RefusedKeeps == ASSUME RateInv, NEW ip \in IP, ConsumeRefused(ip) PROVE RateInv'
<1>1. PICK d : d = Got(ip)
  OBVIOUS
<1>2. d \in EntryRecords
  BY <1>1, GotEntry, Zenon
<1>3. now' = now /\ spare' = spare /\ globalTS' = IF Got(ip).until > now THEN globalTS ELSE RecentPins
  BY DEF ConsumeRefused
<1>4. TableInv'
  BY <1>1, <1>2, <1>3, LookUpKeeps, Zenon DEF ConsumeRefused
<1>5. globalTS \in Seq(Nat) /\ Len(globalTS) <= GlobalMax /\ now \in Nat /\ spare \in 0..Capacity
  BY RateAt, Zenon DEF RateInv, RatePlaced
<1>6. RecentPins \in Seq(Nat) /\ Len(RecentPins) <= GlobalMax
  <2>1. RecentPins \in Seq(Nat) /\ Len(RecentPins) <= Len(globalTS)
    BY <1>5, RecentList
  <2>2. Len(RecentPins) \in Nat /\ Len(globalTS) \in Nat /\ GlobalMax \in Nat
    BY <1>5, <2>1, RateParams
  <2> QED
    BY <1>5, <2>1, <2>2
<1>7. globalTS' \in Seq(Nat) /\ Len(globalTS') <= GlobalMax
  BY <1>3, <1>5, <1>6, Zenon
<1> QED
  BY <1>3, <1>4, <1>5, <1>7, TableKeeps, ZenonT(30)

\* CheckUnauth.
LEMMA UnauthKeeps == ASSUME RateInv, NEW ip \in IP, CheckUnauth(ip) PROVE RateInv'
<1>1. Capacity \in Nat /\ spare \in 0..Capacity /\ globalTS \in Seq(Nat) /\ Len(globalTS) <= GlobalMax
  BY RateParams DEF RateInv, RatePlaced
<1>2. CASE /\ HasRoom(ip) /\ Got(ip).bucket >= 1 /\ lru' = Touch(ip)
           /\ entry' = [Drop(entry, Gone(ip)) EXCEPT ![ip] = [Got(ip) EXCEPT !.bucket = @ - 1]]
           /\ Forgotten(Gone(ip)) /\ UNCHANGED <<now, globalTS, spare>>
  <2>1. PICK g, d : g = Got(ip) /\ d = [g EXCEPT !.bucket = @ - 1]
    OBVIOUS
  <2>2. g \in EntryRecords /\ g.bucket >= 1
    BY <1>2, <2>1, GotEntry, Zenon
  <2>3. d \in EntryRecords /\ d.att = g.att /\ d.start = g.start /\ d.until = g.until /\ d.lockouts = g.lockouts
    <3>1. PICK b : b = g.bucket - 1
      OBVIOUS
    <3>2. g.bucket \in 0..Capacity
      BY <2>2 DEF EntryRecords
    <3>3. b \in 0..Capacity
      BY <1>1, <2>2, <3>1, <3>2
    <3>4. d = [g EXCEPT !.bucket = b]
      BY <2>1, <3>1
    <3> QED
      BY <2>2, <3>3, <3>4 DEF EntryRecords
  <2>4. now' = now /\ globalTS' = globalTS /\ spare' = spare
    BY <1>2
  <2>5. TableInv'
    BY <1>2, <2>1, <2>3, <2>4, LookUpKeeps, Zenon
  <2> QED
    BY <1>1, <2>4, <2>5, TableKeeps, Zenon
<1>3. CASE /\ spare >= 1 /\ spare' = spare - 1
           /\ UNCHANGED <<now, lru, entry, globalTS, granted, locks>>
  <2>1. spare' \in 0..Capacity /\ globalTS' = globalTS /\ now' = now
    BY <1>1, <1>3
  <2>2. lru' = lru /\ entry' = entry /\ granted' = granted /\ locks' = locks
    BY <1>3
  <2>3. TableInv'
    BY <2>1, <2>2, Zenon DEF RateInv, RatePlaced, TableInv
  <2> QED
    BY <1>1, <2>1, <2>3, TableKeeps, Zenon
<1> QED
  BY <1>2, <1>3 DEF CheckUnauth

\* The table when every address is known to be sound.
LEMMA TableBuilt ==
  ASSUME lru' \in Seq(IP), OnceListed(lru'), Len(lru') <= MaxEntries,
         NEW en, NEW gr, NEW lo, en = entry', gr = granted', lo = locks',
         en = [x \in IP |-> en[x]], gr = [x \in IP |-> gr[x]], lo = [x \in IP |-> lo[x]],
         \A x \in IP : /\ en[x] \in EntryRecords /\ gr[x] \in Grants /\ lo[x] \in LockRecords
                       /\ EntrySound(InList(lru'), x, en[x], gr[x], lo[x], now')
  PROVE  TableInv'
<1>1. en \in [IP -> EntryRecords] /\ gr \in [IP -> Grants] /\ lo \in [IP -> LockRecords]
  BY TableFrom, Zenon
<1> QED
  BY <1>1, Zenon DEF TableInv

\* The entry after an attempt that is counted, as the code computes it from entry g.
CountedEntry(g, t, late, n, len) ==
  IF n >= PinMax THEN [g EXCEPT !.att = 0, !.start = LongAgo, !.lockouts = @ + 1, !.until = t + len]
                 ELSE [g EXCEPT !.att = n, !.start = IF late THEN t ELSE @]

\* Its fields.
LEMMA CountAddress ==
  ASSUME NEW g \in EntryRecords, NEW t \in 0..Horizon, NEW late, late = (t - g.start > PinWindow),
         NEW n, n = (IF late THEN 0 ELSE g.att) + 1, NEW len, len = PinLockSeconds(g.lockouts + 1),
         NEW d, d = CountedEntry(g, t, late, n, len)
  PROVE  /\ d \in EntryRecords /\ n \in Nat /\ len \in Nat /\ t + len \in Nat /\ g.lockouts \in Nat
         /\ n >= PinMax => d.att = 0 /\ d.start = LongAgo /\ d.lockouts = g.lockouts + 1 /\ d.until = t + len
         /\ ~(n >= PinMax) => /\ n < PinMax /\ d.att = n /\ d.start = (IF late THEN t ELSE g.start)
                              /\ d.until = g.until /\ d.lockouts = g.lockouts
<1>0. /\ PinMax \in Nat /\ PinMax > 1 /\ Horizon \in Nat /\ t \in Nat /\ LongAgo \in Int
      /\ g.att \in 0..PinMax - 1 /\ g.start \in Int /\ g.until \in Nat /\ g.lockouts \in Nat
      /\ g.bucket \in 0..Capacity /\ g.seen \in Int
  BY RateParams DEF EntryRecords, LongAgo
<1>1. n \in Nat /\ n <= PinMax /\ n > 0
  <2>1. CASE late
    <3>1. n = 0 + 1
      BY <2>1, Zenon
    <3> QED
      BY <1>0, <3>1
  <2>2. CASE ~late
    <3>1. n = g.att + 1
      BY <2>2, Zenon
    <3> QED
      BY <1>0, <3>1
  <2> QED
    BY <2>1, <2>2
<1>2. len \in Nat /\ t + len \in Nat
  <2>1. g.lockouts + 1 \in Nat /\ g.lockouts + 1 > 0
    BY <1>0
  <2>2. len \in Nat
    BY <2>1, LockDoubles, Zenon
  <2> QED
    BY <1>0, <2>2
<1>3. CASE n >= PinMax
  <2>1. d = [g EXCEPT !.att = 0, !.start = LongAgo, !.lockouts = @ + 1, !.until = t + len]
    BY <1>3, Zenon DEF CountedEntry
  <2>2. PICK m : m = t + len
    OBVIOUS
  <2>3. m \in Nat /\ d = [g EXCEPT !.att = 0, !.start = LongAgo, !.lockouts = @ + 1, !.until = m]
    BY <1>2, <2>1, <2>2, Zenon
  <2>5. PICK j : j = g.lockouts + 1
    OBVIOUS
  <2>6. j \in Nat /\ 0 \in 0..PinMax - 1 /\ d = [g EXCEPT !.att = 0, !.start = LongAgo, !.lockouts = j, !.until = m]
    BY <1>0, <2>3, <2>5
  <2>7. d \in EntryRecords /\ d.att = 0 /\ d.start = LongAgo /\ d.lockouts = j /\ d.until = m
    BY <1>0, <2>3, <2>6 DEF EntryRecords
  <2>4. d \in EntryRecords /\ d.att = 0 /\ d.start = LongAgo /\ d.lockouts = g.lockouts + 1 /\ d.until = m
    BY <2>5, <2>7, Zenon
  <2> QED
    BY <1>0, <1>1, <1>2, <1>3, <2>2, <2>4, Zenon
<1>4. CASE ~(n >= PinMax)
  <2>1. PICK s : s = IF late THEN t ELSE g.start
    OBVIOUS
  <2>2. s \in Int
    <3>1. t \in Int
      BY <1>0
    <3> QED
      BY <1>0, <2>1, <3>1, Zenon
  <2>3. d = [g EXCEPT !.att = n, !.start = s]
    <3>1. CASE late
      BY <1>4, <2>1, <3>1 DEF CountedEntry
    <3>2. CASE ~late
      BY <1>4, <2>1, <3>2 DEF CountedEntry
    <3> QED
      BY <3>1, <3>2
  <2>4. n \in 0..PinMax - 1 /\ n < PinMax
    BY <1>0, <1>1, <1>4
  <2>5. d \in EntryRecords /\ d.att = n /\ d.start = s /\ d.until = g.until /\ d.lockouts = g.lockouts
    BY <1>0, <2>2, <2>3, <2>4 DEF EntryRecords
  <2> QED
    BY <1>0, <1>1, <1>2, <1>4, <2>1, <2>4, <2>5, Zenon
<1> QED
  BY <1>3, <1>4

\* ConsumePinAttempt that is counted.
LEMMA CountedKeeps == ASSUME RateInv, NEW ip \in IP, ConsumeCounted(ip) PROVE RateInv'
<1>1. PICK g, t, V, late, n, len, k, d :
        /\ g = Got(ip) /\ t = now /\ V = Gone(ip) /\ late = (t - g.start > PinWindow)
        /\ n = (IF late THEN 0 ELSE g.att) + 1 /\ len = PinLockSeconds(g.lockouts + 1) /\ k = Len(RecentPins)
        /\ d = CountedEntry(g, t, late, n, len)
  BY Zenon
<1>2. /\ HasRoom(ip) /\ k < GlobalMax /\ lru' = Touch(ip) /\ globalTS' = Append(RecentPins, t)
      /\ entry' = [Drop(entry, V) EXCEPT ![ip] = d]
      /\ granted' = [x \in IP |-> IF x = ip THEN IF n >= PinMax THEN {}
                                                 ELSE {h \in granted[ip] : t - h[1] < PinWindow} \cup {<<t, k>>}
                                  ELSE IF x \in V THEN {} ELSE granted[x]]
      /\ locks' = [x \in IP |-> IF x = ip /\ n >= PinMax THEN [until |-> t + len, len |-> len, kept |-> TRUE]
                                ELSE IF x \in V THEN [locks[x] EXCEPT !.kept = FALSE] ELSE locks[x]]
      /\ now' = now /\ spare' = spare
  BY <1>1 DEF ConsumeCounted, CountedEntry
<1>3. /\ t \in 0..Horizon /\ t \in Nat /\ g \in EntryRecords /\ granted[ip] \in Grants /\ locks[ip] \in LockRecords
      /\ EntrySound(InList(lru), ip, entry[ip], granted[ip], locks[ip], t)
  BY <1>1, RateAt, GotEntry, Zenon
<1>4. /\ d \in EntryRecords /\ n \in Nat /\ len \in Nat /\ t + len \in Nat /\ g.lockouts \in Nat
      /\ n >= PinMax => d.att = 0 /\ d.start = LongAgo /\ d.lockouts = g.lockouts + 1 /\ d.until = t + len
      /\ ~(n >= PinMax) => /\ n < PinMax /\ d.att = n /\ d.start = (IF late THEN t ELSE g.start)
                           /\ d.until = g.until /\ d.lockouts = g.lockouts
  <2>1. late = (t - g.start > PinWindow) /\ n = (IF late THEN 0 ELSE g.att) + 1
    BY <1>1
  <2>2. len = PinLockSeconds(g.lockouts + 1) /\ d = CountedEntry(g, t, late, n, len)
    BY <1>1
  <2>3. t \in 0..Horizon /\ g \in EntryRecords
    BY <1>3
  <2> QED
    BY <2>1, <2>2, <2>3, CountAddress
<1>5. entry' = [x \in IP |-> IF x = ip THEN d ELSE IF x \in V THEN Fresh ELSE entry[x]]
  BY <1>2 DEF Drop
<1>6. \A x \in IP \ {ip} :
           /\ entry'[x] = (IF x \in Gone(ip) THEN Fresh ELSE entry[x])
           /\ granted'[x] = (IF x \in Gone(ip) THEN {} ELSE granted[x])
           /\ locks'[x] = (IF x \in Gone(ip) THEN [locks[x] EXCEPT !.kept = FALSE] ELSE locks[x])
  BY <1>1, <1>2, <1>5, Zenon
<1>7. /\ lru' \in Seq(IP) /\ OnceListed(lru') /\ Len(lru') <= MaxEntries /\ ip \in InList(lru')
      /\ \A x \in IP \ {ip} :
           /\ entry'[x] \in EntryRecords /\ granted'[x] \in Grants /\ locks'[x] \in LockRecords
           /\ EntrySound(InList(lru'), x, entry'[x], granted'[x], locks'[x], now')
  BY <1>2, <1>6, OthersKept, Zenon
<1>8. ip \notin V
  <2>1. lru \in Seq(IP) /\ OnceListed(lru) /\ Len(lru) <= MaxEntries
    BY DEF RateInv, RatePlaced
  <2> QED
    BY <1>1, <1>2, <2>1, Touched, Zenon
<1>9. PICK u, G, l, en, gr, lo : /\ u = InList(lru') /\ G = granted[ip] /\ l = locks[ip]
                                 /\ en = entry' /\ gr = granted' /\ lo = locks'
  OBVIOUS
<1>10. en = [x \in IP |-> en[x]] /\ gr = [x \in IP |-> gr[x]] /\ lo = [x \in IP |-> lo[x]]
  BY <1>2, <1>5, <1>9
<1>11. RecentPins \in Seq(Nat) /\ k \in Nat /\ GlobalMax \in Nat
  <2>1. globalTS \in Seq(Nat) /\ now \in Nat
    BY RateAt, Zenon DEF RateInv, RatePlaced
  <2>2. RecentPins \in Seq(Nat)
    BY <2>1, RecentList
  <2> QED
    BY <1>1, <2>2, RateParams
<1>12. /\ en[ip] \in EntryRecords /\ gr[ip] \in Grants /\ lo[ip] \in LockRecords
       /\ EntrySound(InList(lru'), ip, en[ip], gr[ip], lo[ip], now')
  <2>1. en[ip] = d
    BY <1>5, <1>9, Zenon
  <2>2. CASE n >= PinMax
    <3>1. gr[ip] = {} /\ lo[ip] = [until |-> t + len, len |-> len, kept |-> TRUE]
      BY <1>2, <1>9, <2>2, Zenon
    <3>2. PICK m : m = lo[ip]
      OBVIOUS
    <3>3. m \in LockRecords /\ m.until = t + len /\ m.len = len
      BY <1>4, <3>1, <3>2 DEF LockRecords
    <3>4. d.lockouts > 0
      BY <1>4, <2>2
    <3>5. ip \in u /\ d.until = m.until /\ m.len = PinLockSeconds(d.lockouts)
      BY <1>1, <1>4, <1>7, <1>9, <2>2, <3>3, Zenon
    <3>6. EntrySound(u, ip, d, {}, m, t)
      BY <1>4, <2>2, <3>4, <3>5, SoundLocked, Zenon
    <3>7. {} \in Grants
      BY DEF Grants
    <3> QED
      BY <1>1, <1>2, <1>4, <1>9, <2>1, <3>1, <3>2, <3>3, <3>6, <3>7, Zenon
  <2>3. CASE ~(n >= PinMax)
    <3>1. gr[ip] = {h \in G : t - h[1] < PinWindow} \cup {<<t, k>>}
      BY <1>2, <1>9, <2>3, Zenon
    <3>2. lo[ip] = l
      BY <1>2, <1>8, <1>9, <2>3, Zenon
    <3>3. gr[ip] \in Grants
      BY <1>3, <1>9, <1>11, <3>1 DEF Grants
    <3>4. EntrySound(u, ip, g, G, l, t)
      BY <1>1, <1>7, <1>9, LookedUp, Zenon
    <3>5. /\ ip \in u /\ G \in Grants /\ l \in LockRecords /\ n < PinMax /\ d.att = n
          /\ d.start = (IF late THEN t ELSE g.start) /\ d.until = g.until /\ d.lockouts = g.lockouts
      BY <1>3, <1>4, <1>7, <1>9, <2>3, Zenon
    <3>6. EntrySound(u, ip, d, {h \in G : t - h[1] < PinWindow} \cup {<<t, k>>}, l, t)
      <4>1. late = (t - g.start > PinWindow) /\ n = (IF late THEN 0 ELSE g.att) + 1
        BY <1>1
      <4>2. t \in 0..Horizon /\ g \in EntryRecords /\ k \in Nat
        BY <1>3, <1>11
      <4> QED
        BY <3>4, <3>5, <4>1, <4>2, SoundCounted
    <3> QED
      BY <1>1, <1>2, <1>4, <1>9, <2>1, <3>1, <3>2, <3>3, <3>5, <3>6, Zenon
  <2> QED
    BY <2>2, <2>3
<1>13. \A x \in IP : /\ en[x] \in EntryRecords /\ gr[x] \in Grants /\ lo[x] \in LockRecords
                     /\ EntrySound(InList(lru'), x, en[x], gr[x], lo[x], now')
  BY <1>7, <1>9, <1>12, Zenon
<1>14. TableInv'
  BY <1>7, <1>9, <1>10, <1>13, TableBuilt, ZenonT(30)
<1>15. globalTS' \in Seq(Nat) /\ Len(globalTS') <= GlobalMax
  <2>1. PICK r : r = RecentPins
    OBVIOUS
  <2>2. r \in Seq(Nat) /\ Len(r) < GlobalMax /\ Len(r) \in Nat /\ globalTS' = Append(r, t)
    BY <1>1, <1>2, <1>11, <2>1
  <2>3. Append(r, t) \in Seq(Nat) /\ Len(Append(r, t)) <= GlobalMax
    BY <1>3, <1>11, <2>2
  <2> QED
    BY <2>2, <2>3, Zenon
<1>16. spare' \in 0..Capacity
  BY <1>2, Zenon DEF RateInv, RatePlaced
<1> QED
  BY <1>2, <1>14, <1>15, <1>16, TableKeeps, Zenon

\* ResetPin.
LEMMA ResetKeeps == ASSUME RateInv, NEW ip \in IP, ResetPin(ip) PROVE RateInv'
<1>1. /\ InLru(ip) /\ now' = now /\ lru' = lru /\ globalTS' = globalTS /\ spare' = spare
      /\ entry' = [entry EXCEPT ![ip] = [@ EXCEPT !.att = 0, !.until = 0, !.start = LongAgo, !.lockouts = 0]]
      /\ granted' = [granted EXCEPT ![ip] = {}] /\ locks' = [locks EXCEPT ![ip] = NoLock]
  BY DEF ResetPin
<1>2. entry \in [IP -> EntryRecords] /\ granted \in [IP -> Grants] /\ locks \in [IP -> LockRecords]
  BY Zenon DEF RateInv, RatePlaced
<1>3. PICK e, d : e = entry[ip] /\ d = [e EXCEPT !.att = 0, !.until = 0, !.start = LongAgo, !.lockouts = 0]
  OBVIOUS
<1>4. e \in EntryRecords /\ LongAgo \in Int /\ 0 \in 0..PinMax - 1
  BY <1>2, <1>3, RateParams DEF LongAgo
<1>5. d \in EntryRecords /\ d.att = 0 /\ d.start = LongAgo
  BY <1>3, <1>4 DEF EntryRecords
<1>6. NoLock \in LockRecords /\ NoLock.until = 0 /\ NoLock.kept = FALSE
  BY DEF NoLock, LockRecords
<1>7. \A x \in IP : /\ entry'[x] = IF x = ip THEN d ELSE entry[x]
                    /\ granted'[x] = IF x = ip THEN {} ELSE granted[x]
                    /\ locks'[x] = IF x = ip THEN NoLock ELSE locks[x]
  BY <1>1, <1>2, <1>3
<1>8. entry' = [x \in IP |-> entry'[x]] /\ granted' = [x \in IP |-> granted'[x]] /\ locks' = [x \in IP |-> locks'[x]]
  BY <1>1, <1>2
<1>9. PICK en, gr, lo : en = entry' /\ gr = granted' /\ lo = locks'
  OBVIOUS
<1>10. en = [x \in IP |-> en[x]] /\ gr = [x \in IP |-> gr[x]] /\ lo = [x \in IP |-> lo[x]]
  BY <1>8, <1>9, Zenon
<1>11. ASSUME NEW x \in IP
       PROVE  /\ en[x] \in EntryRecords /\ gr[x] \in Grants /\ lo[x] \in LockRecords
              /\ EntrySound(InList(lru'), x, en[x], gr[x], lo[x], now')
  <2>1. CASE x = ip
    <3>1. PICK t, u, m : t = now /\ u = InList(lru) /\ m = NoLock
      OBVIOUS
    <3>2. ~(m.until > t) /\ ~m.kept
      <4>1. t \in Nat
        BY <3>1, RateAt, Zenon
      <4>2. ~(0 > t)
        BY <4>1
      <4> QED
        BY <1>6, <3>1, <4>2, Zenon
    <3>3. EntrySound(u, x, d, {}, m, t)
      BY <1>5, <3>2, SoundFresh, Zenon
    <3>4. {} \in Grants
      BY DEF Grants
    <3> QED
      BY <1>1, <1>5, <1>6, <1>7, <1>9, <2>1, <3>1, <3>3, <3>4, Zenon
  <2>2. CASE x # ip
    BY <1>1, <1>7, <1>9, <2>2, RateAt, Zenon
  <2> QED
    BY <2>1, <2>2
<1>12. lru' \in Seq(IP) /\ OnceListed(lru') /\ Len(lru') <= MaxEntries
  BY <1>1, Zenon DEF RateInv, RatePlaced
<1>13. TableInv'
  BY <1>9, <1>10, <1>11, <1>12, TableBuilt, ZenonT(30)
<1>14. globalTS' \in Seq(Nat) /\ Len(globalTS') <= GlobalMax /\ spare' \in 0..Capacity
  BY <1>1, Zenon DEF RateInv, RatePlaced
<1> QED
  BY <1>1, <1>13, <1>14, TableKeeps, Zenon

\* gc.
LEMMA CollectKeeps == ASSUME RateInv, CollectEntries PROVE RateInv'
<1>1. PICK V, s, t : V = Stale /\ s = lru /\ t = now
  OBVIOUS
<1>2. /\ lru' = Without(s, V) /\ entry' = Drop(entry, V) /\ now' = now /\ globalTS' = globalTS /\ spare' = spare
      /\ granted' = [x \in IP |-> IF x \in V THEN {} ELSE granted[x]]
      /\ locks' = [x \in IP |-> IF x \in V /\ now >= locks[x].until + BackoffMemory
                                THEN [locks[x] EXCEPT !.kept = FALSE] ELSE locks[x]]
  BY <1>1 DEF CollectEntries
<1>3. s \in Seq(IP) /\ OnceListed(s) /\ Len(s) <= MaxEntries /\ t \in Nat
  BY <1>1, RateAt, Zenon DEF RateInv, RatePlaced
<1>4. PICK w : w = Without(s, V)
  OBVIOUS
<1>5. w \in Seq(IP) /\ OnceListed(w) /\ InList(w) = InList(s) \ V /\ Len(w) <= Len(s)
  BY <1>3, <1>4, WithoutList, Zenon
<1>6. Len(w) <= MaxEntries
  <2>1. Len(w) \in Nat /\ Len(s) \in Nat /\ MaxEntries \in Nat
    BY <1>3, <1>5, RateParams
  <2> QED
    BY <1>3, <1>5, <2>1
<1>7. entry' = [x \in IP |-> IF x \in V THEN Fresh ELSE entry[x]]
  BY <1>2, Zenon DEF Drop
<1>8. PICK en, gr, lo : en = entry' /\ gr = granted' /\ lo = locks'
  OBVIOUS
<1>9. en = [x \in IP |-> en[x]] /\ gr = [x \in IP |-> gr[x]] /\ lo = [x \in IP |-> lo[x]]
  BY <1>2, <1>7, <1>8
<1>10. ASSUME NEW x \in IP
       PROVE  /\ en[x] \in EntryRecords /\ gr[x] \in Grants /\ lo[x] \in LockRecords
              /\ EntrySound(InList(lru'), x, en[x], gr[x], lo[x], now')
  <2>1. PICK tab, u, e, d, G, l, m :
          /\ tab = InList(lru) /\ u = InList(lru') /\ e = entry[x] /\ d = en[x]
          /\ G = granted[x] /\ l = locks[x] /\ m = lo[x]
    OBVIOUS
  <2>2. e \in EntryRecords /\ G \in Grants /\ l \in LockRecords /\ EntrySound(tab, x, e, G, l, t)
    BY <1>1, <2>1, RateAt, Zenon
  <2>3. CASE x \in V
    <3>1. d = Fresh /\ gr[x] = {}
      BY <1>2, <1>7, <1>8, <2>1, <2>3, Zenon
    <3>2. d \in EntryRecords /\ d.att = 0 /\ d.start = LongAgo
      BY <1>1, <1>3, <3>1, FreshEntry, Zenon
    <3>3. ~(e.until > t) /\ ~(e.lockouts > 0 /\ t - e.until < BackoffMemory)
      BY <1>1, <2>1, <2>3, Zenon DEF Stale, Locked
    <3>4. m \in LockRecords /\ m.until = l.until /\ ~m.kept
      <4>1. CASE t >= l.until + BackoffMemory
        <5>1. m = [l EXCEPT !.kept = FALSE]
          BY <1>1, <1>2, <1>8, <2>1, <2>3, <4>1, Zenon
        <5> QED
          BY <2>2, <5>1 DEF LockRecords
      <4>2. CASE ~(t >= l.until + BackoffMemory)
        <5>1. m = l
          BY <1>1, <1>2, <1>8, <2>1, <4>2, Zenon
        <5>2. ~l.kept
          <6> SUFFICES ASSUME l.kept PROVE FALSE
            OBVIOUS
          <6>1. e.lockouts > 0 /\ e.until = l.until
            BY <2>2, Zenon DEF EntrySound
          <6>2. ~(t - l.until < BackoffMemory)
            BY <3>3, <6>1, Zenon
          <6>3. l.until \in Nat /\ BackoffMemory \in Nat
            BY <2>2, RateParams DEF LockRecords
          <6> QED
            BY <1>3, <4>2, <6>2, <6>3
        <5> QED
          BY <2>2, <5>1, <5>2, Zenon
      <4> QED
        BY <4>1, <4>2
    <3>5. EntrySound(u, x, d, {}, m, t)
      BY <2>2, <3>2, <3>3, <3>4, Dropping, Zenon
    <3>6. {} \in Grants
      BY DEF Grants
    <3> QED
      BY <1>1, <1>2, <2>1, <3>1, <3>2, <3>4, <3>5, <3>6, Zenon
  <2>4. CASE x \notin V
    <3>1. d = e /\ gr[x] = G /\ m = l
      BY <1>2, <1>7, <1>8, <2>1, <2>4, Zenon
    <3>2. x \in u <=> x \in tab
      BY <1>1, <1>2, <1>4, <1>5, <2>1, <2>4, Zenon
    <3>3. t <= t /\ t \in Int
      BY <1>3
    <3>4. EntrySound(u, x, e, G, l, t)
      BY <2>2, <3>2, <3>3, SoundAlike, Zenon
    <3> QED
      BY <1>1, <1>2, <2>1, <2>2, <3>1, <3>4, Zenon
  <2> QED
    BY <2>3, <2>4
<1>11. lru' \in Seq(IP) /\ OnceListed(lru') /\ Len(lru') <= MaxEntries
  BY <1>2, <1>4, <1>5, <1>6, Zenon
<1>12. TableInv'
  <2>1. \A x \in IP : /\ en[x] \in EntryRecords /\ gr[x] \in Grants /\ lo[x] \in LockRecords
                      /\ EntrySound(InList(lru'), x, en[x], gr[x], lo[x], now')
    BY <1>10
  <2>2. en = entry' /\ gr = granted' /\ lo = locks'
    BY <1>8
  <2>3. en \in [IP -> EntryRecords] /\ gr \in [IP -> Grants] /\ lo \in [IP -> LockRecords]
    BY <1>9, <2>1, TableFrom, Zenon
  <2> QED
    BY <1>11, <2>1, <2>2, <2>3, Zenon DEF TableInv
<1>13. globalTS' \in Seq(Nat) /\ Len(globalTS') <= GlobalMax /\ spare' \in 0..Capacity
  BY <1>2, Zenon DEF RateInv, RatePlaced
<1> QED
  BY <1>2, <1>12, <1>13, TableKeeps, Zenon

\* The invariant holds at the start.
LEMMA RateStart == ASSUME RateInit PROVE RateInv
<1>1. /\ now = 0 /\ lru = <<>> /\ entry = [ip \in IP |-> Fresh] /\ globalTS = <<>> /\ spare = Capacity
      /\ granted = [ip \in IP |-> {}] /\ locks = [ip \in IP |-> NoLock]
  BY DEF RateInit
<1>2. now \in 0..Horizon /\ now \in Nat /\ spare \in 0..Capacity /\ 0 <= GlobalMax /\ 0 <= MaxEntries
  BY <1>1, RateParams
<1>3. lru \in Seq(IP) /\ OnceListed(lru) /\ Len(lru) <= MaxEntries /\ globalTS \in Seq(Nat) /\ Len(globalTS) <= GlobalMax
  BY <1>1, <1>2 DEF OnceListed
<1>4. NoLock \in LockRecords /\ NoLock.until = 0 /\ NoLock.kept = FALSE /\ {} \in Grants
  BY DEF NoLock, LockRecords, Grants
<1>5. Fresh \in EntryRecords /\ Fresh.att = 0 /\ Fresh.start = LongAgo
  BY <1>2, FreshEntry, Zenon
<1>6. entry \in [IP -> EntryRecords] /\ granted \in [IP -> Grants] /\ locks \in [IP -> LockRecords]
  BY <1>1, <1>4, <1>5
<1>7. PICK u, d, l, t : u = InList(lru) /\ d = Fresh /\ l = NoLock /\ t = now
  OBVIOUS
<1>8. ~(l.until > t) /\ ~l.kept
  <2>1. l.until = 0 /\ t = 0 /\ l.kept = FALSE
    BY <1>1, <1>4, <1>7
  <2>2. ~(0 > 0)
    OBVIOUS
  <2> QED
    BY <2>1, <2>2, Zenon
<1>9. ASSUME NEW x \in IP PROVE EntrySound(InList(lru), x, entry[x], granted[x], locks[x], now)
  <2>1. EntrySound(u, x, d, {}, l, t)
    BY <1>5, <1>7, <1>8, SoundFresh, Zenon
  <2>2. entry[x] = Fresh /\ granted[x] = {} /\ locks[x] = NoLock
    BY <1>1
  <2> QED
    BY <1>7, <2>1, <2>2, Zenon
<1> QED
  BY <1>2, <1>3, <1>6, <1>9, Zenon DEF RateInv, RatePlaced

\* Every step of the limiter keeps the invariant.
LEMMA RateStepKeeps == ASSUME RateInv, [RateNext]_rateVars PROVE RateInv'
<1>1. CASE Second
  BY <1>1, SecondKeeps
<1>2. CASE CollectEntries
  BY <1>2, CollectKeeps
<1>3. ASSUME NEW ip \in IP, \/ CheckPinVerify(ip) \/ ConsumeRefused(ip) \/ ConsumeCounted(ip)
                            \/ ResetPin(ip) \/ CheckUnauth(ip)
      PROVE  RateInv'
  BY <1>3, CheckKeeps, RefusedKeeps, CountedKeeps, ResetKeeps, UnauthKeeps, Zenon
<1>4. CASE UNCHANGED rateVars
  <2>1. /\ now' = now /\ lru' = lru /\ entry' = entry /\ globalTS' = globalTS /\ spare' = spare
        /\ granted' = granted /\ locks' = locks
    BY <1>4 DEF rateVars
  <2> QED
    BY <2>1, Zenon DEF RateInv, RatePlaced
<1> QED
  BY <1>1, <1>2, <1>3, <1>4, Zenon DEF RateNext

\* The invariant says that a lock lasts and that the window bounds the attempts.
LEMMA RateTyped == ASSUME RateInv PROVE RateTypeOK /\ LockHolds /\ SlidingBound
<1>1. RateTypeOK
  <2>1. /\ now \in 0..Horizon /\ Len(lru) <= MaxEntries /\ OnceListed(lru) /\ Len(globalTS) <= GlobalMax
        /\ spare \in 0..Capacity
    BY Zenon DEF RateInv, RatePlaced
  <2>2. \A ip \in IP : entry[ip].att \in 0..PinMax - 1 /\ entry[ip].bucket \in 0..Capacity
    BY DEF RateInv, RatePlaced, EntryRecords
  <2> QED
    BY <2>1, <2>2, Zenon DEF RateTypeOK, OnceListed
<1>2. LockHolds
  <2> SUFFICES ASSUME NEW ip \in IP, locks[ip].until > now PROVE InLru(ip) /\ Locked(ip)
    BY Zenon DEF LockHolds
  <2>1. EntrySound(InList(lru), ip, entry[ip], granted[ip], locks[ip], now)
    BY RateAt, Zenon
  <2>2. ip \in InList(lru) /\ entry[ip].until = locks[ip].until
    BY <2>1, Zenon DEF EntrySound
  <2> QED
    BY <2>2, InListed, Zenon DEF Locked
<1>3. SlidingBound
  <2> SUFFICES ASSUME NEW ip \in IP
               PROVE  Cardinality({g \in granted[ip] : now - g[1] < PinWindow}) <= 2 * PinMax - 3
    BY Zenon DEF SlidingBound
  <2>1. PICK tab, e, G, l, t : /\ tab = InList(lru) /\ e = entry[ip] /\ G = granted[ip] /\ l = locks[ip] /\ t = now
    OBVIOUS
  <2>2. e \in EntryRecords /\ EntrySound(tab, ip, e, G, l, t)
    BY <2>1, RateAt, Zenon
  <2>3. e.att \in 0..PinMax - 1 /\ PinMax \in Nat /\ PinMax > 1
    BY <2>2, RateParams DEF EntryRecords
  <2>4. IsFiniteSet(G) /\ Cardinality(G) \in Nat
    BY <2>2, FS_CardinalityType DEF EntrySound
  <2> DEFINE W == {g \in G : t - g[1] < PinWindow}
  <2>5. Cardinality(W) <= Cardinality(G) /\ Cardinality(W) \in Nat
    <3>1. W \subseteq G
      OBVIOUS
    <3> HIDE DEF W
    <3> QED
      BY <2>4, <3>1, FS_Subset, FS_CardinalityType
  <2>6. Cardinality(G) <= 2 * PinMax - 3
    <3>1. CASE e.att = 0
      <4>1. Cardinality(G) = 0
        BY <2>2, <3>1, FS_EmptySet DEF EntrySound
      <4> QED
        BY <2>3, <4>1
    <3>2. CASE e.att # 0
      <4>1. e.att > 0
        BY <2>3, <3>2
      <4>2. Cardinality(G) <= PinMax - 2 + e.att
        BY <2>2, <4>1, Zenon DEF EntrySound
      <4> QED
        BY <2>3, <2>4, <4>2
    <3> QED
      BY <3>1, <3>2
  <2>7. Cardinality(W) <= 2 * PinMax - 3
    <3> HIDE DEF W
    <3> QED
      BY <2>3, <2>4, <2>5, <2>6
  <2> QED
    BY <2>1, <2>7, Zenon
<1> QED
  BY <1>1, <1>2, <1>3

\* Each step keeps the back-off: only the step that locks an address anew changes its
\* lock and keeps a length, and it takes the next length from the lock-outs that the
\* entry remembers.
LEMMA RateDoubles == ASSUME RateInv, [RateNext]_rateVars PROVE Doubles
<1> SUFFICES ASSUME NEW x \in IP, locks'[x].until # locks[x].until, locks'[x].len > 0, locks[x].kept
             PROVE  locks'[x].len = Doubled(locks[x].len)
  BY Zenon DEF Doubles
<1>1. locks[x] \in LockRecords /\ locks \in [IP -> LockRecords]
  BY Zenon DEF RateInv, RatePlaced
<1>2. ASSUME NEW m, m = [locks[x] EXCEPT !.kept = FALSE] \/ m = locks[x], locks'[x] = m PROVE FALSE
  <2>1. PICK l : l = locks[x]
    OBVIOUS
  <2>2. l \in LockRecords /\ (m = [l EXCEPT !.kept = FALSE] \/ m = l)
    BY <1>1, <1>2, <2>1, Zenon
  <2>3. m.until = l.until
    BY <2>2 DEF LockRecords
  <2> QED
    BY <1>2, <2>1, <2>3, Zenon
<1>3. CASE UNCHANGED locks
  BY <1>3, Zenon
<1>4. ASSUME NEW ip \in IP, Forgotten(Gone(ip)) PROVE FALSE
  BY <1>2, <1>4, Zenon DEF Forgotten
<1>5. CASE CollectEntries
  BY <1>2, <1>5, Zenon DEF CollectEntries
<1>6. ASSUME NEW ip \in IP, ResetPin(ip) PROVE FALSE
  <2>1. locks' = [locks EXCEPT ![ip] = NoLock] /\ NoLock.len = 0
    BY <1>6 DEF ResetPin, NoLock
  <2>2. locks'[x] = NoLock \/ locks'[x] = locks[x]
    BY <1>1, <2>1
  <2>3. ~(0 > 0)
    OBVIOUS
  <2> QED
    BY <2>1, <2>2, <2>3, Zenon
<1>7. ASSUME NEW ip \in IP, ConsumeCounted(ip) PROVE locks'[x].len = Doubled(locks[x].len)
  <2>1. PICK g, t, V, late, n, len :
          /\ g = Got(ip) /\ t = now /\ V = Gone(ip) /\ late = (t - g.start > PinWindow)
          /\ n = (IF late THEN 0 ELSE g.att) + 1 /\ len = PinLockSeconds(g.lockouts + 1)
    BY Zenon
  <2>2. locks' = [y \in IP |-> IF y = ip /\ n >= PinMax THEN [until |-> t + len, len |-> len, kept |-> TRUE]
                               ELSE IF y \in V THEN [locks[y] EXCEPT !.kept = FALSE] ELSE locks[y]]
    BY <1>7, <2>1 DEF ConsumeCounted
  <2>3. x = ip /\ n >= PinMax
    BY <1>2, <2>2, Zenon
  <2>4. locks'[x] = [until |-> t + len, len |-> len, kept |-> TRUE]
    BY <2>2, <2>3, Zenon
  <2>5. locks'[x].len = len
    BY <2>4
  <2>6. EntrySound(InList(lru), x, entry[x], granted[x], locks[x], now)
    BY RateAt, Zenon
  <2>7. x \in InList(lru) /\ entry[x].lockouts > 0 /\ locks[x].len = PinLockSeconds(entry[x].lockouts)
    BY <2>6, Zenon DEF EntrySound
  <2>8. g.lockouts = entry[x].lockouts
    BY <2>1, <2>3, <2>7, InListed, GotEntry, Zenon
  <2>9. PICK o : o = entry[x].lockouts
    OBVIOUS
  <2>10. o \in Nat
    <3>1. entry[x] \in EntryRecords
      BY RateAt, Zenon
    <3> QED
      BY <2>9, <3>1 DEF EntryRecords
  <2>11. PinLockSeconds(o + 1) = Doubled(PinLockSeconds(o))
    BY <2>7, <2>9, <2>10, LockDoubles, Zenon
  <2> QED
    BY <2>1, <2>5, <2>7, <2>8, <2>9, <2>11, Zenon
<1>8. CASE Second
  BY <1>3, <1>8 DEF Second
<1>9. ASSUME NEW ip \in IP, CheckPinVerify(ip) \/ ConsumeRefused(ip) \/ CheckUnauth(ip)
      PROVE  locks'[x].len = Doubled(locks[x].len)
  BY <1>3, <1>4, <1>9 DEF CheckPinVerify, ConsumeRefused, CheckUnauth
<1>10. CASE UNCHANGED rateVars
  BY <1>3, <1>10 DEF rateVars
<1> QED
  BY <1>5, <1>6, <1>7, <1>8, <1>9, <1>10, Zenon DEF RateNext

-----------------------------------------------------------------------------
(* The list of the WebUI and its firewall.                                  *)

\* A request in the middleware or in the action, and a run of the script.
Visits == [at : {"parse", "install", "decide"}, why : {"serve", "set"}, from : 0..MaxAccSaves,
           key : 0..MaxAccSaves, cfg : AccCfg]
ScriptRuns == [at : {"read", "flushed", "listed"}, cfg : AccCfg]

\* The constants and the sets that the module is built from.
LEMMA AccParams ==
  /\ MaxAccSaves \in Nat /\ MaxAccFaults \in Nat /\ MaxAccHeals \in Nat /\ NoKey \in Nat
  /\ \A n \in 0..MaxAccSaves : n # NoKey /\ n \in 0..NoKey /\ n \in Nat
  /\ IsFiniteSet(Hw) /\ "self" \notin Guest /\ "action" \in Runs /\ "watchdog" \in Runs
  /\ \A r \in Runs : r = "action" \/ r = "watchdog"
<1>1. MaxAccSaves \in Nat /\ MaxAccFaults \in Nat /\ MaxAccHeals \in Nat /\ IsFiniteSet(Hw) /\ "self" \notin Guest
  BY AccConstants
<1>2. NoKey \in Nat /\ \A n \in 0..MaxAccSaves : n # NoKey /\ n \in 0..NoKey /\ n \in Nat
  BY <1>1 DEF NoKey
<1> QED
  BY <1>1, <1>2 DEF Runs

\* What a list of rules does with a packet.
Passes(ch, h) ==
  LET hits == {i \in DOMAIN ch : ch[i] \in {<<"pass">>, <<"pass", h>>, <<"reject">>}}
  IN IF hits = {} THEN TRUE
     ELSE ch[CHOOSE i \in hits : \A j \in hits : i <= j] # <<"reject">>

\* That is what the chain does.
LEMMA ChainPasses == \A h : ChainLets(h) = Passes(chain, h)
BY Zenon DEF ChainLets, Passes

\* The first rule that matches decides.
LEMMA FirstRule ==
  ASSUME NEW ch, NEW n \in Nat, DOMAIN ch = 1..n, NEW h, NEW k \in 1..n,
         ch[k] \in {<<"pass">>, <<"pass", h>>, <<"reject">>},
         \A i \in 1..k - 1 : ch[i] \notin {<<"pass">>, <<"pass", h>>, <<"reject">>}
  PROVE  Passes(ch, h) <=> ch[k] # <<"reject">>
<1> DEFINE hits == {i \in DOMAIN ch : ch[i] \in {<<"pass">>, <<"pass", h>>, <<"reject">>}}
<1>1. k \in hits
  BY Zenon
<1>2. \A j \in hits : k <= j
  <2> SUFFICES ASSUME NEW j \in hits, ~(k <= j) PROVE FALSE
    OBVIOUS
  <2>1. j \in 1..n
    BY Zenon
  <2>2. j \in 1..k - 1
    BY <2>1
  <2> QED
    BY <2>2, Zenon
<1>3. \A i \in hits : (\A j \in hits : i <= j) => i = k
  <2> SUFFICES ASSUME NEW i \in hits, \A j \in hits : i <= j PROVE i = k
    OBVIOUS
  <2>1. i <= k /\ k <= i
    BY <1>1, <1>2
  <2>2. i \in 1..n
    BY Zenon
  <2> QED
    BY <2>1, <2>2
<1>4. (CHOOSE i \in hits : \A j \in hits : i <= j) = k
  <2> HIDE DEF hits
  <2> QED
    BY <1>1, <1>2, <1>3, Zenon
<1>5. Passes(ch, h) <=> IF hits = {} THEN TRUE
                        ELSE ch[CHOOSE i \in hits : \A j \in hits : i <= j] # <<"reject">>
  BY Zenon DEF Passes
<1> HIDE DEF hits
<1> QED
  BY <1>1, <1>4, <1>5, Zenon

\* The rules of a list of hardware addresses: one for each.
LEMMA ListedRules ==
  ASSUME NEW S \in SUBSET Hw
  PROVE  /\ Cardinality(S) \in Nat /\ SetToSeq(S) \in [1..Cardinality(S) -> S]
         /\ \A h \in S : \E i \in 1..Cardinality(S) : SetToSeq(S)[i] = h
<1>1. IsFiniteSet(S) /\ Cardinality(S) \in Nat /\ ExistsBijection(1..Cardinality(S), S)
  BY AccParams, FS_Subset, FS_CardinalityType
<1>2. PICK n : n = Cardinality(S)
  OBVIOUS
<1>3. \E f \in [1..n -> S] : IsInjective(f)
  BY <1>1, <1>2, Zenon DEF ExistsBijection, Bijection, Injection
<1>4. PICK f : f = SetToSeq(S)
  OBVIOUS
<1>5. f \in [1..n -> S] /\ IsInjective(f)
  BY <1>2, <1>3, <1>4, Zenon DEF SetToSeq
<1>6. f \in Injection(1..n, S)
  BY <1>5, Zenon DEF Injection
<1>7. Cardinality(1..n) = n
  BY <1>1, <1>2, FS_Interval
<1>8. f \in Surjection(1..n, S)
  BY <1>1, <1>2, <1>6, <1>7, FS_Injection
<1>9. \A h \in S : \E i \in 1..n : f[i] = h
  BY <1>8 DEF Surjection
<1> QED
  BY <1>1, <1>2, <1>4, <1>5, <1>9, Zenon

\* The chain that a run builds lets in whom its configuration lets in.
LEMMA BuiltChain ==
  ASSUME NEW cfg \in AccCfg
  PROVE  /\ ListRules(cfg) \in Seq(Rules) /\ Append(ListRules(cfg), LastRule(cfg)) \in Seq(Rules)
         /\ \A h \in Hw : Passes(Append(ListRules(cfg), LastRule(cfg)), h) <=> Lets(cfg, h)
<1>0. LastRule(cfg) \in Rules /\ cfg.mode \in Modes /\ cfg.list \in SUBSET Hw
  BY DEF LastRule, Rules, AccCfg
<1>1. CASE cfg.mode # "allowlist"
  <2>1. ListRules(cfg) = <<>>
    BY <1>1 DEF ListRules
  <2>2. PICK ch : ch = Append(<<>>, LastRule(cfg))
    OBVIOUS
  <2>3. ch \in Seq(Rules) /\ DOMAIN ch = 1..1 /\ ch[1] = LastRule(cfg)
    BY <1>0, <2>2
  <2>4. ASSUME NEW h \in Hw PROVE Passes(ch, h) <=> Lets(cfg, h)
    <3>1. ch[1] \in {<<"pass">>, <<"pass", h>>, <<"reject">>}
      BY <2>3 DEF LastRule
    <3>2. 1 \in Nat /\ 1 \in 1..1 /\ \A i \in 1..1 - 1 : FALSE
      OBVIOUS
    <3>3. Passes(ch, h) <=> ch[1] # <<"reject">>
      BY <2>3, <3>1, <3>2, FirstRule, Zenon
    <3>4. ch[1] # <<"reject">> <=> cfg.mode = "all"
      BY <2>3 DEF LastRule
    <3> QED
      BY <1>1, <3>3, <3>4, Zenon DEF Lets
  <2>5. <<>> \in Seq(Rules)
    OBVIOUS
  <2> QED
    BY <2>1, <2>2, <2>3, <2>4, <2>5, Zenon
<1>2. CASE cfg.mode = "allowlist"
  <2>1. PICK S, n, f, q : S = cfg.list /\ n = Cardinality(S) /\ f = SetToSeq(S) /\ q = ListRules(cfg)
    OBVIOUS
  <2>2. n \in Nat /\ f \in [1..n -> S] /\ \A h \in S : \E i \in 1..n : f[i] = h
    BY <1>0, <2>1, ListedRules, Zenon
  <2>3. q = [i \in 1..n |-> <<"pass", f[i]>>]
    BY <1>2, <2>1 DEF ListRules
  <2>4. \A i \in 1..n : <<"pass", f[i]>> \in Rules
    BY <1>0, <2>1, <2>2 DEF Rules
  <2>5. q \in Seq(Rules) /\ Len(q) = n
    BY <2>2, <2>3, <2>4
  <2>6. PICK ch : ch = Append(q, LastRule(cfg))
    OBVIOUS
  <2>7. ch \in Seq(Rules) /\ Len(ch) = n + 1 /\ ch[n + 1] = LastRule(cfg) /\ \A i \in 1..n : ch[i] = q[i]
    BY <1>0, <2>2, <2>5, <2>6
  <2>8. DOMAIN ch = 1..n + 1 /\ n + 1 \in Nat /\ n + 1 \in 1..n + 1 /\ (n + 1) - 1 = n
    BY <2>2, <2>7
  <2>9. ch[n + 1] = <<"reject">>
    BY <1>2, <2>7 DEF LastRule
  <2>10. \A i \in 1..n : ch[i] = <<"pass", f[i]>>
    BY <2>3, <2>7, Zenon
  <2>11. ASSUME NEW h \in Hw PROVE Passes(ch, h) <=> Lets(cfg, h)
    <3>1. \A i \in 1..n : f[i] # h => ch[i] \notin {<<"pass">>, <<"pass", h>>, <<"reject">>}
      BY <2>10
    <3>2. CASE h \in S
      <4> DEFINE T == {i \in 1..n : f[i] = h}
      <4>1. T \in SUBSET Nat /\ T # {}
        BY <2>2, <3>2
      <4>2. PICK k \in T : \A i \in T : k <= i
        BY <4>1, LeastOf
      <4>3. k \in 1..n /\ f[k] = h
        BY <4>2
      <4>4. \A i \in 1..k - 1 : i \in 1..n /\ ~(k <= i)
        BY <2>2, <4>3
      <4>5. \A i \in 1..k - 1 : f[i] # h
        BY <4>2, <4>4
      <4>6. k \in 1..n + 1 /\ ch[k] = <<"pass", h>>
        BY <2>2, <2>10, <4>3
      <4>7. \A i \in 1..k - 1 : ch[i] \notin {<<"pass">>, <<"pass", h>>, <<"reject">>}
        BY <3>1, <4>4, <4>5, Zenon
      <4>8. Passes(ch, h) <=> ch[k] # <<"reject">>
        <5>1. ch[k] \in {<<"pass">>, <<"pass", h>>, <<"reject">>}
          BY <4>6, Zenon
        <5> QED
          BY <2>8, <4>6, <4>7, <5>1, FirstRule, Zenon
      <4>9. ch[k] # <<"reject">>
        BY <4>6
      <4> QED
        BY <1>2, <2>1, <3>2, <4>8, <4>9, Zenon DEF Lets
    <3>3. CASE h \notin S
      <4>1. \A i \in 1..n : f[i] # h
        BY <2>2, <3>3
      <4>2. \A i \in 1..(n + 1) - 1 : ch[i] \notin {<<"pass">>, <<"pass", h>>, <<"reject">>}
        BY <2>8, <3>1, <4>1, Zenon
      <4>3. ch[n + 1] \in {<<"pass">>, <<"pass", h>>, <<"reject">>}
        BY <2>9, Zenon
      <4>4. Passes(ch, h) <=> ch[n + 1] # <<"reject">>
        BY <2>8, <4>2, <4>3, FirstRule, Zenon
      <4>5. "allowlist" # "all"
        OBVIOUS
      <4> QED
        BY <1>2, <2>1, <2>9, <3>3, <4>4, <4>5, Zenon DEF Lets
    <3> QED
      BY <3>2, <3>3
  <2> QED
    BY <2>1, <2>5, <2>6, <2>7, <2>11, Zenon
<1> QED
  BY <1>1, <1>2

\* What holds of a request when the configuration in force has number n.
VisitOk(v, n) ==
  v.at # "away" => /\ v.key = v.from /\ v.from <= n
                   /\ v.at # "parse" => v.cfg.no >= v.key

\* A request of the action.
Sets(v) == v.at # "away" /\ v.why = "set"

\* The parts of the invariant that are about the requests, for requests vi, a
\* configuration number n and runs gu of the script.
VisitsOk(vi, n, gu) ==
  /\ vi \in [Guest -> {Away} \cup Visits] /\ \A g \in Guest : VisitOk(vi[g], n)
  /\ \A g \in Guest : Sets(vi[g]) =>
       n < MaxAccSaves /\ gu["action"].at = "rest" /\ \A k \in Guest : Sets(vi[k]) => k = g

\* The parts about the firewall, for chain ch, runs gu, history ex and file fi.
FireOk(ch, gu, ex, fi) ==
  /\ ch \in Seq(Rules) /\ ex \in BOOLEAN /\ gu \in [Runs -> {Rest} \cup ScriptRuns] /\ fi \in AccCfg
  /\ ex => /\ gu["action"].at = "rest" \/ gu["watchdog"].at = "rest"
           /\ \A r \in Runs : gu[r].at # "rest" =>
                /\ gu[r].cfg = fi
                /\ gu[r].at = "flushed" => ch = <<>>
                /\ gu[r].at = "listed" => ch = ListRules(fi)
           /\ (\A r \in Runs : gu[r].at = "rest") => \A h \in Hw : Passes(ch, h) <=> Lets(fi, h)

\* The parts about the neighbours.
NbrOk(nb, sn, tu, fi) ==
  /\ nb \in [Guest -> Hw] /\ sn \in [Guest -> Hw] /\ tu \subseteq Guest
  /\ \A g \in Guest : g \notin tu => sn[g] = nb[g]
  /\ \A g \in Guest : fi.by = g /\ g \notin tu => Lets(fi, nb[g])

\* The parts about the cache and the counters.
CacheOk(ca) == ca \in [key : 0..NoKey, cfg : AccCfg] /\ (ca.key # NoKey => ca.cfg.no >= ca.key)
CountsOk(cn) == cn \in [faults : 0..MaxAccFaults, heals : 0..MaxAccHeals]

\* The invariant of the access list.
AccInv ==
  /\ latest = accFile.no /\ VisitsOk(visit, latest, guard) /\ FireOk(chain, guard, exact, accFile)
  /\ NbrOk(nbr, neighSnap, turned, accFile) /\ CacheOk(accCache) /\ CountsOk(accCnt)

\* It says what the runs check.
LEMMA AccTyped ==
  ASSUME AccInv
  PROVE  AccTypeOK /\ JudgedByLatest /\ NoSelfLockout /\ FirewallExact
<1>0. /\ accFile \in AccCfg /\ latest = accFile.no /\ latest \in 0..MaxAccSaves
      /\ visit \in [Guest -> {Away} \cup Visits] /\ guard \in [Runs -> {Rest} \cup ScriptRuns]
  BY DEF AccInv, VisitsOk, FireOk, AccCfg
<1>1. AccTypeOK
  <2>1. \A v \in {Away} \cup Visits : v.at \in {"away", "parse", "install", "decide"}
    BY DEF Away, Visits
  <2>2. \A v \in {Rest} \cup ScriptRuns : v.at \in {"rest", "read", "flushed", "listed"}
    BY DEF Rest, ScriptRuns
  <2>3. accCache.key \in 0..NoKey /\ accCache.cfg \in AccCfg
    BY DEF AccInv, CacheOk
  <2>4. accCnt.faults \in 0..MaxAccFaults /\ accCnt.heals \in 0..MaxAccHeals
    BY DEF AccInv, CountsOk
  <2>5. \A g \in Guest : visit[g] \in {Away} \cup Visits
    BY <1>0, Zenon
  <2>6. \A r \in Runs : guard[r] \in {Rest} \cup ScriptRuns
    BY <1>0, Zenon
  <2>7. chain \in Seq(Rules) /\ exact \in BOOLEAN /\ nbr \in [Guest -> Hw] /\ neighSnap \in [Guest -> Hw] /\ turned \subseteq Guest
    BY Zenon DEF AccInv, FireOk, NbrOk
  <2> QED
    BY <1>0, <2>1, <2>2, <2>3, <2>4, <2>5, <2>6, <2>7, Zenon DEF AccTypeOK
<1>2. JudgedByLatest
  <2> SUFFICES ASSUME NEW g \in Guest, visit[g].at = "decide" PROVE visit[g].cfg.no >= visit[g].from
    BY Zenon DEF JudgedByLatest
  <2>1. VisitOk(visit[g], latest)
    BY Zenon DEF AccInv, VisitsOk
  <2>2. "decide" # "away" /\ "decide" # "parse"
    OBVIOUS
  <2> QED
    BY <2>1, <2>2, Zenon DEF VisitOk
<1>3. NoSelfLockout
  BY Zenon DEF AccInv, NbrOk, NoSelfLockout
<1>4. FirewallExact
  <2> SUFFICES ASSUME exact, \A r \in Runs : guard[r].at = "rest", NEW h \in Hw
               PROVE  ChainLets(h) <=> Lets(accFile, h)
    BY Zenon DEF FirewallExact
  <2>1. Passes(chain, h) <=> Lets(accFile, h)
    BY Zenon DEF AccInv, FireOk
  <2> QED
    BY <2>1, ChainPasses, Zenon
<1> QED
  BY <1>1, <1>2, <1>3, <1>4

\* A request that moves on, or begins while nobody sets the list.
LEMMA VisitMoves ==
  ASSUME NEW vi, NEW n \in Nat, NEW gu, VisitsOk(vi, n, gu), NEW g \in Guest, NEW v \in {Away} \cup Visits,
         VisitOk(v, n),
         Sets(v) => Sets(vi[g]) \/ (n < MaxAccSaves /\ gu["action"].at = "rest" /\ \A k \in Guest : ~Sets(vi[k])),
         NEW wi, wi \in [Guest -> {Away} \cup Visits], wi[g] = v, \A k \in Guest \ {g} : wi[k] = vi[k]
  PROVE  VisitsOk(wi, n, gu)
<1>1. \A k \in Guest : VisitOk(wi[k], n)
  BY Zenon DEF VisitsOk
<1>2. ASSUME NEW k \in Guest, Sets(wi[k])
      PROVE  n < MaxAccSaves /\ gu["action"].at = "rest" /\ \A j \in Guest : Sets(wi[j]) => j = k
  <2>1. CASE Sets(v) /\ Sets(vi[g])
    BY <1>2, <2>1, Zenon DEF VisitsOk
  <2>2. CASE Sets(v) /\ ~Sets(vi[g])
    BY <1>2, <2>2, Zenon
  <2>3. CASE ~Sets(v)
    <3>1. k # g /\ Sets(vi[k])
      BY <1>2, <2>3, Zenon
    <3> QED
      BY <2>3, <3>1, Zenon DEF VisitsOk
  <2> QED
    BY <2>1, <2>2, <2>3
<1> QED
  BY <1>1, <1>2, Zenon DEF VisitsOk

\* A function that changes at one place.
LEMMA MovedAt ==
  ASSUME NEW D, NEW R, NEW f \in [D -> R], NEW x \in D, NEW v \in R
  PROVE  /\ [f EXCEPT ![x] = v] \in [D -> R] /\ [f EXCEPT ![x] = v][x] = v
         /\ \A y \in D \ {x} : [f EXCEPT ![x] = v][y] = f[y]
OBVIOUS

\* The requests after one of them has moved, as the actions write it.
LEMMA VisitStep ==
  ASSUME AccInv, NEW g \in Guest, NEW v \in {Away} \cup Visits, visit' = [visit EXCEPT ![g] = v],
         VisitOk(v, latest),
         Sets(v) => Sets(visit[g]) \/ (NobodySets /\ latest < MaxAccSaves)
  PROVE  VisitsOk(visit', latest, guard)
<1>1. PICK vi, n, gu, wi : vi = visit /\ n = latest /\ gu = guard /\ wi = [vi EXCEPT ![g] = v]
  OBVIOUS
<1>2. VisitsOk(vi, n, gu) /\ VisitOk(v, n) /\ vi \in [Guest -> {Away} \cup Visits]
  BY <1>1, Zenon DEF AccInv, VisitsOk
<1>3. wi \in [Guest -> {Away} \cup Visits] /\ wi[g] = v /\ \A k \in Guest \ {g} : wi[k] = vi[k]
  BY <1>1, <1>2, MovedAt, Zenon
<1>4. n \in Nat
  <2>1. accFile \in AccCfg /\ latest = accFile.no
    BY Zenon DEF AccInv, FireOk
  <2> QED
    BY <1>1, <2>1, AccParams DEF AccCfg
<1>5. NobodySets => gu["action"].at = "rest" /\ \A k \in Guest : ~Sets(vi[k])
  <2>1. "serve" # "set"
    OBVIOUS
  <2> QED
    BY <1>1, <2>1, Zenon DEF NobodySets, Sets
<1>6. Sets(v) => Sets(vi[g]) \/ (n < MaxAccSaves /\ gu["action"].at = "rest" /\ \A k \in Guest : ~Sets(vi[k]))
  BY <1>1, <1>5, Zenon
<1>7. VisitsOk(wi, n, gu)
  BY <1>2, <1>3, <1>4, <1>6, VisitMoves, Zenon
<1> QED
  BY <1>1, <1>7, Zenon

\* A request arrives.
LEMMA ArriveKeeps == ASSUME AccInv, NEW g \in Guest, NEW why \in {"serve", "set"}, Arrive(g, why) PROVE AccInv'
<1>1. /\ accFile \in AccCfg /\ latest = accFile.no /\ accFile.no \in 0..MaxAccSaves
      /\ accCache \in [key : 0..NoKey, cfg : AccCfg] /\ (accCache.key # NoKey => accCache.cfg.no >= accCache.key)
  BY DEF AccInv, FireOk, CacheOk, AccCfg
<1>2. FirstCfg \in AccCfg
  BY AccParams DEF FirstCfg, AccCfg, Modes
<1>3. PICK v : v = Loading(why)
  OBVIOUS
<1>4. v \in Visits /\ VisitOk(v, latest) /\ (Sets(v) => why = "set")
  <2>0. latest \in Nat /\ latest <= latest
    BY <1>1, AccParams
  <2>1. CASE accCache.key = accFile.no
    <3>1. v = [at |-> "decide", why |-> why, from |-> latest, key |-> accFile.no, cfg |-> accCache.cfg]
      BY <1>3, <2>1 DEF Loading
    <3>2. accCache.cfg.no >= accFile.no
      <4>1. accCache.key # NoKey
        BY <1>1, <2>1, AccParams, Zenon
      <4> QED
        BY <1>1, <2>1, <4>1, Zenon
    <3>3. v \in Visits /\ v.key = latest /\ v.from = latest /\ v.cfg.no >= v.key /\ v.why = why
      BY <1>1, <3>1, <3>2 DEF Visits
    <3> QED
      BY <2>0, <3>3, Zenon DEF VisitOk, Sets
  <2>2. CASE accCache.key # accFile.no
    <3>1. v = [at |-> "parse", why |-> why, from |-> latest, key |-> accFile.no, cfg |-> FirstCfg]
      BY <1>3, <2>2 DEF Loading
    <3>2. v \in Visits /\ v.key = latest /\ v.from = latest /\ v.why = why /\ v.at = "parse"
      BY <1>1, <1>2, <3>1 DEF Visits
    <3> QED
      BY <2>0, <3>2, Zenon DEF VisitOk, Sets
  <2> QED
    BY <2>1, <2>2
<1>5. /\ visit' = [visit EXCEPT ![g] = v] /\ (why = "set" => NobodySets /\ latest < MaxAccSaves)
      /\ accFile' = accFile /\ latest' = latest /\ accCache' = accCache /\ nbr' = nbr /\ neighSnap' = neighSnap
      /\ turned' = turned /\ chain' = chain /\ guard' = guard /\ exact' = exact /\ accCnt' = accCnt
  BY <1>3 DEF Arrive, fileVarsA, nbrVars, fireVars
<1>6. VisitsOk(visit', latest, guard)
  BY <1>4, <1>5, VisitStep, Zenon
<1> QED
  BY <1>5, <1>6, Zenon DEF AccInv

\* A request that is under way.
LEMMA Underway ==
  ASSUME AccInv, NEW g \in Guest, visit[g].at # "away"
  PROVE  /\ visit[g] \in Visits /\ visit[g].key = visit[g].from /\ visit[g].from <= latest
         /\ visit[g].at # "parse" => visit[g].cfg.no >= visit[g].key
<1>1. visit[g] \in {Away} \cup Visits /\ VisitOk(visit[g], latest)
  BY Zenon DEF AccInv, VisitsOk
<1>2. Away.at = "away"
  BY DEF Away
<1> QED
  BY <1>1, <1>2, Zenon DEF VisitOk

\* The file is read, or cannot be.
LEMMA ParseKeeps == ASSUME AccInv, NEW g \in Guest, Parse(g) PROVE AccInv'
<1>1. accFile \in AccCfg /\ latest = accFile.no /\ accFile.no \in 0..MaxAccSaves /\ visit \in [Guest -> {Away} \cup Visits]
  BY DEF AccInv, FireOk, VisitsOk, AccCfg
<1>2. /\ visit[g].at = "parse" /\ accFile' = accFile /\ latest' = latest /\ accCache' = accCache
      /\ nbr' = nbr /\ neighSnap' = neighSnap /\ turned' = turned /\ chain' = chain /\ guard' = guard /\ exact' = exact
      /\ \/ visit' = [visit EXCEPT ![g].at = "install", ![g].cfg = accFile] /\ accCnt' = accCnt
         \/ /\ AccFault
            /\ visit' = [visit EXCEPT ![g].at = "install", ![g].cfg = Unread]
  BY DEF Parse, fileVarsA, nbrVars, fireVars
<1>3. PICK o : o = visit[g]
  OBVIOUS
<1>4. o \in Visits /\ o.key = o.from /\ o.from <= latest
  <2>1. visit[g].at # "away"
    BY <1>2
  <2> QED
    BY <1>3, <2>1, Underway, Zenon
<1>5. ASSUME NEW c \in AccCfg, c.no = accFile.no, visit' = [visit EXCEPT ![g].at = "install", ![g].cfg = c]
      PROVE  VisitsOk(visit', latest, guard)
  <2>1. PICK v : v = [[o EXCEPT !.at = "install"] EXCEPT !.cfg = c]
    OBVIOUS
  <2>2. visit' = [visit EXCEPT ![g] = v]
    BY <1>1, <1>3, <1>5, <2>1
  <2>3. v \in Visits /\ v.key = o.key /\ v.from = o.from /\ v.why = o.why /\ v.cfg = c /\ v.at = "install"
    BY <1>4, <2>1 DEF Visits
  <2>4. v.cfg.no >= v.key
    BY <1>1, <1>4, <1>5, <2>3, AccParams DEF Visits
  <2>5. VisitOk(v, latest)
    BY <1>4, <2>3, <2>4, Zenon DEF VisitOk
  <2>6. Sets(v) => Sets(visit[g])
    <3>1. visit[g].at # "away"
      BY <1>2
    <3> QED
      BY <1>3, <2>3, <3>1, Zenon DEF Sets
  <2> QED
    BY <2>2, <2>3, <2>5, <2>6, VisitStep, Zenon
<1>6. CASE visit' = [visit EXCEPT ![g].at = "install", ![g].cfg = accFile] /\ accCnt' = accCnt
  <2>1. VisitsOk(visit', latest, guard)
    BY <1>1, <1>5, <1>6, Zenon
  <2> QED
    BY <1>2, <1>6, <2>1, Zenon DEF AccInv
<1>7. CASE /\ AccFault
           /\ visit' = [visit EXCEPT ![g].at = "install", ![g].cfg = Unread]
  <2>1. PICK c : c = Unread
    OBVIOUS
  <2>2. c \in AccCfg /\ c.no = accFile.no
    BY <1>1, <2>1 DEF AccCfg, Modes, Unread
  <2>3. VisitsOk(visit', latest, guard)
    BY <1>5, <1>7, <2>1, <2>2, Zenon
  <2>4. CountsOk(accCnt')
    BY <1>7, AccParams DEF AccInv, CountsOk, AccFault
  <2> QED
    BY <1>2, <2>3, <2>4, Zenon DEF AccInv
<1> QED
  BY <1>2, <1>6, <1>7, Zenon

\* The cache entry is made.
LEMMA InstallKeeps == ASSUME AccInv, NEW g \in Guest, InstallCfg(g) PROVE AccInv'
<1>1. visit \in [Guest -> {Away} \cup Visits]
  BY Zenon DEF AccInv, VisitsOk
<1>2. /\ visit[g].at = "install" /\ accFile' = accFile /\ latest' = latest /\ accCnt' = accCnt
      /\ nbr' = nbr /\ neighSnap' = neighSnap /\ turned' = turned /\ chain' = chain /\ guard' = guard /\ exact' = exact
      /\ accCache' = [key |-> visit[g].key, cfg |-> visit[g].cfg]
      /\ visit' = [visit EXCEPT ![g].at = "decide"]
  BY DEF InstallCfg, fileVarsA, nbrVars, fireVars
<1>3. PICK o, v : o = visit[g] /\ v = [o EXCEPT !.at = "decide"]
  OBVIOUS
<1>4. visit[g].at # "away" /\ visit[g].at # "parse"
  BY <1>2
<1>5. o \in Visits /\ o.key = o.from /\ o.from <= latest /\ o.cfg.no >= o.key
  BY <1>3, <1>4, Underway, Zenon
<1>6. v \in Visits /\ v.key = o.key /\ v.from = o.from /\ v.why = o.why /\ v.cfg = o.cfg
  BY <1>3, <1>5 DEF Visits
<1>7. visit' = [visit EXCEPT ![g] = v]
  BY <1>1, <1>2, <1>3
<1>8. VisitOk(v, latest) /\ (Sets(v) => Sets(visit[g]))
  BY <1>3, <1>4, <1>5, <1>6, Zenon DEF VisitOk, Sets
<1>9. VisitsOk(visit', latest, guard)
  BY <1>6, <1>7, <1>8, VisitStep, Zenon
<1>10. CacheOk(accCache')
  <2>1. PICK c : c = [key |-> o.key, cfg |-> o.cfg]
    OBVIOUS
  <2>2. o.key \in 0..MaxAccSaves /\ o.cfg \in AccCfg
    BY <1>5 DEF Visits
  <2>3. o.key \in 0..NoKey
    BY <2>2, AccParams, Zenon
  <2>4. c \in [key : 0..NoKey, cfg : AccCfg] /\ c.cfg.no >= c.key
    BY <1>5, <2>1, <2>2, <2>3
  <2> QED
    BY <1>2, <1>3, <2>1, <2>4, Zenon DEF CacheOk
<1> QED
  BY <1>2, <1>9, <1>10, Zenon DEF AccInv

\* The copy of the neighbours is used or taken again.
LEMMA LookedUpNbr ==
  ASSUME AccInv, LookUp
  PROVE  NbrOk(nbr', neighSnap', turned', accFile) /\ nbr' = nbr /\ turned' = turned
<1>1. nbr' = nbr /\ turned' = turned /\ (neighSnap' = neighSnap \/ neighSnap' = nbr)
  BY DEF LookUp
<1> QED
  BY <1>1, Zenon DEF AccInv, NbrOk

\* A request that has been answered.
LEMMA Leaves ==
  ASSUME AccInv, NEW g \in Guest, visit' = [visit EXCEPT ![g] = Away]
  PROVE  VisitsOk(visit', latest, guard)
<1>1. Away \in {Away} \cup Visits /\ Away.at = "away"
  BY DEF Away
<1>2. VisitOk(Away, latest) /\ ~Sets(Away)
  BY <1>1, Zenon DEF VisitOk, Sets
<1> QED
  BY <1>1, <1>2, VisitStep, Zenon

\* The middleware answers.
LEMMA ServeKeeps == ASSUME AccInv, NEW g \in Guest, Serve(g) PROVE AccInv'
<1>1. /\ LookUp /\ visit' = [visit EXCEPT ![g] = Away] /\ accFile' = accFile /\ latest' = latest
      /\ accCache' = accCache /\ accCnt' = accCnt /\ chain' = chain /\ guard' = guard /\ exact' = exact
  BY DEF Serve, fileVarsA, fireVars
<1> QED
  BY <1>1, LookedUpNbr, Leaves, Zenon DEF AccInv

\* A new configuration is saved: nobody else is in the action.
LEMMA SavedKeeps ==
  ASSUME AccInv, NEW new \in AccCfg, Saved(new), guard["action"].at = "rest",
         VisitsOk(visit', latest, guard), \A g \in Guest : ~Sets(visit'[g]), latest <= new.no,
         NbrOk(nbr', neighSnap', turned', new), UNCHANGED <<accCache, accCnt>>
  PROVE  AccInv'
<1>1. /\ accFile' = new /\ latest' = new.no /\ guard' = [guard EXCEPT !["action"] = [at |-> "read", cfg |-> new]]
      /\ exact' = (guard["watchdog"].at = "rest") /\ chain' = chain /\ accCache' = accCache /\ accCnt' = accCnt
  BY DEF Saved
<1>2. guard \in [Runs -> {Rest} \cup ScriptRuns] /\ chain \in Seq(Rules) /\ latest = accFile.no /\ accFile \in AccCfg
  BY Zenon DEF AccInv, FireOk
<1>3. PICK a : a = [at |-> "read", cfg |-> new]
  OBVIOUS
<1>4. a \in ScriptRuns /\ a.at = "read" /\ a.cfg = new
  BY <1>3 DEF ScriptRuns
<1>5. PICK gu : gu = guard'
  OBVIOUS
<1>6. gu \in [Runs -> {Rest} \cup ScriptRuns] /\ gu["action"] = a /\ gu["watchdog"] = guard["watchdog"]
  BY <1>1, <1>2, <1>3, <1>4, <1>5, AccParams
<1>7. FireOk(chain, gu, exact', new)
  <2>1. exact' \in BOOLEAN
    BY <1>1
  <2>2. ASSUME exact', NEW r \in Runs, gu[r].at # "rest" PROVE gu[r].cfg = new /\ gu[r].at = "read"
    <3>1. guard["watchdog"].at = "rest"
      BY <1>1, <2>2
    <3> QED
      BY <1>4, <1>6, <2>2, <3>1, AccParams, Zenon
  <2>3. ~\A r \in Runs : gu[r].at = "rest"
    <3>1. "read" # "rest"
      OBVIOUS
    <3> QED
      BY <1>4, <1>6, <3>1, AccParams, Zenon
  <2>4. exact' => gu["watchdog"].at = "rest"
    BY <1>1, <1>6
  <2>5. "read" # "flushed" /\ "read" # "listed"
    OBVIOUS
  <2> QED
    BY <1>2, <1>6, <2>1, <2>2, <2>3, <2>4, <2>5, Zenon DEF FireOk
<1>8. VisitsOk(visit', new.no, gu)
  <2>1. latest \in Nat /\ new.no \in Nat
    BY <1>2, AccParams DEF AccCfg
  <2>2. ASSUME NEW g \in Guest PROVE VisitOk(visit'[g], new.no)
    <3>1. VisitOk(visit'[g], latest) /\ visit'[g] \in {Away} \cup Visits
      BY Zenon DEF VisitsOk
    <3>2. PICK v, n, m : v = visit'[g] /\ n = latest /\ m = new.no
      OBVIOUS
    <3>3. ASSUME v.at # "away" PROVE v.from <= m
      <4>1. v \in Visits /\ v.from <= n
        <5>1. Away.at = "away"
          BY DEF Away
        <5> QED
          BY <3>1, <3>2, <3>3, <5>1, Zenon DEF VisitOk
      <4>2. v.from \in Nat /\ n \in Nat /\ m \in Nat /\ n <= m
        BY <2>1, <3>2, <4>1, AccParams DEF Visits
      <4> QED
        BY <4>1, <4>2
    <3> QED
      BY <3>1, <3>2, <3>3, Zenon DEF VisitOk
  <2> QED
    BY <2>2, Zenon DEF VisitsOk
<1> QED
  BY <1>1, <1>5, <1>7, <1>8, Zenon DEF AccInv

\* The action of a remote client.
LEMMA SetKeeps == ASSUME AccInv, NEW g \in Guest, SetAccess(g) PROVE AccInv'
<1>1. /\ visit[g].at = "decide" /\ visit[g].why = "set" /\ LookUp
      /\ visit' = [visit EXCEPT ![g] = Away] /\ accCache' = accCache /\ accCnt' = accCnt
  BY DEF SetAccess
<1>2. PICK mode \in Modes, list \in (SUBSET Hw) \cup {visit[g].cfg.list} :
        LET new == [mode |-> mode, list |-> list, no |-> latest + 1, by |-> g]
        IN IF LocksOut(new, neighSnap'[g]) THEN UNCHANGED <<fileVarsA, fireVars>> ELSE Saved(new)
  BY Zenon DEF SetAccess
<1>3. NbrOk(nbr', neighSnap', turned', accFile) /\ nbr' = nbr /\ turned' = turned
  BY <1>1, LookedUpNbr, Zenon
<1>4. VisitsOk(visit', latest, guard)
  BY <1>1, Leaves, Zenon
<1>5. CASE UNCHANGED <<fileVarsA, fireVars>>
  <2>1. accFile' = accFile /\ latest' = latest /\ chain' = chain /\ guard' = guard /\ exact' = exact
    BY <1>5 DEF fileVarsA, fireVars
  <2> QED
    BY <1>1, <1>3, <1>4, <2>1, Zenon DEF AccInv
<1>6. ASSUME NEW new, new = [mode |-> mode, list |-> list, no |-> latest + 1, by |-> g],
             ~LocksOut(new, neighSnap'[g]), Saved(new)
      PROVE  AccInv'
  <2>1. Sets(visit[g])
    BY <1>1 DEF Sets
  <2>2. latest < MaxAccSaves /\ guard["action"].at = "rest" /\ \A k \in Guest : Sets(visit[k]) => k = g
    BY <2>1, Zenon DEF AccInv, VisitsOk
  <2>3. latest \in Nat /\ MaxAccSaves \in Nat /\ visit[g] \in Visits /\ visit \in [Guest -> {Away} \cup Visits]
    <3>1. latest = accFile.no /\ accFile \in AccCfg
      BY Zenon DEF AccInv, FireOk
    <3>2. visit[g].at # "away"
      BY <1>1
    <3> QED
      BY <3>1, <3>2, Underway, AccParams DEF AccCfg, AccInv, VisitsOk
  <2>4. list \in SUBSET Hw
    <3>1. visit[g].cfg.list \in SUBSET Hw
      BY <2>3 DEF Visits, AccCfg
    <3> QED
      BY <1>2, <3>1
  <2>5. latest + 1 \in 0..MaxAccSaves /\ latest <= latest + 1
    BY <2>2, <2>3
  <2>6. new \in AccCfg /\ new.no = latest + 1 /\ new.by = g
    BY <1>2, <1>6, <2>4, <2>5 DEF AccCfg
  <2>7. \A k \in Guest : ~Sets(visit'[k])
    <3>1. Away.at = "away"
      BY DEF Away
    <3>2. visit'[g] = Away /\ \A k \in Guest \ {g} : visit'[k] = visit[k]
      BY <1>1, <2>3
    <3> QED
      BY <2>2, <3>1, <3>2, Zenon DEF Sets
  <2>8. NbrOk(nbr', neighSnap', turned', new)
    <3>1. g \notin turned' => Lets(new, nbr'[g])
      BY <1>3, <1>6, Zenon DEF NbrOk, LocksOut
    <3> QED
      BY <1>3, <2>6, <3>1, Zenon DEF NbrOk
  <2>9. UNCHANGED <<accCache, accCnt>>
    BY <1>1
  <2>10. latest <= new.no
    BY <2>5, <2>6
  <2> QED
    BY <1>4, <1>6, <2>2, <2>6, <2>7, <2>8, <2>9, <2>10, SavedKeeps, Zenon
<1> QED
  BY <1>2, <1>5, <1>6, Zenon

\* The action of the phone itself.
LEMMA SetLocallyKeeps == ASSUME AccInv, SetLocally PROVE AccInv'
<1>1. /\ NobodySets /\ latest < MaxAccSaves /\ accCache' = accCache /\ accCnt' = accCnt /\ visit' = visit
      /\ nbr' = nbr /\ neighSnap' = neighSnap /\ turned' = turned
  BY DEF SetLocally, nbrVars
<1>2. PICK mode \in Modes, list \in SUBSET Hw :
        Saved([mode |-> mode, list |-> list, no |-> latest + 1, by |-> "self"])
  BY Zenon DEF SetLocally
<1>3. PICK new : new = [mode |-> mode, list |-> list, no |-> latest + 1, by |-> "self"]
  OBVIOUS
<1>4. latest \in Nat /\ MaxAccSaves \in Nat
  <2>1. latest = accFile.no /\ accFile \in AccCfg
    BY Zenon DEF AccInv, FireOk
  <2> QED
    BY <2>1, AccParams DEF AccCfg
<1>5. latest + 1 \in 0..MaxAccSaves /\ latest <= latest + 1
  BY <1>1, <1>4
<1>6. new \in AccCfg /\ new.no = latest + 1 /\ new.by = "self" /\ latest <= new.no
  BY <1>2, <1>3, <1>5 DEF AccCfg
<1>7. guard["action"].at = "rest" /\ \A g \in Guest : ~Sets(visit'[g])
  <2>1. "serve" # "set"
    OBVIOUS
  <2> QED
    BY <1>1, <2>1, Zenon DEF NobodySets, Sets
<1>8. VisitsOk(visit', latest, guard)
  BY <1>1, Zenon DEF AccInv
<1>9. NbrOk(nbr', neighSnap', turned', new)
  BY <1>1, <1>6, AccParams, Zenon DEF AccInv, NbrOk
<1>10. UNCHANGED <<accCache, accCnt>>
  BY <1>1
<1> QED
  BY <1>2, <1>3, <1>6, <1>7, <1>8, <1>9, <1>10, SavedKeeps, Zenon

\* A step of a run of the script: what it does to its own progress and to the chain.
LEMMA FireStep ==
  ASSUME AccInv, NEW r \in Runs, NEW ch, NEW gu, NEW ex, NEW b \in {Rest} \cup ScriptRuns,
         guard[r].at # "rest", ch \in Seq(Rules), ex \in BOOLEAN, ex => exact,
         gu = [guard EXCEPT ![r] = b],
         ex => IF b.at = "rest" THEN \A h \in Hw : Passes(ch, h) <=> Lets(accFile, h)
               ELSE /\ b.cfg = accFile
                    /\ b.at = "flushed" => ch = <<>>
                    /\ b.at = "listed" => ch = ListRules(accFile)
  PROVE  FireOk(ch, gu, ex, accFile)
<1>1. PICK go : go = guard
  OBVIOUS
<1>2. /\ go \in [Runs -> {Rest} \cup ScriptRuns] /\ accFile \in AccCfg /\ go[r].at # "rest"
      /\ exact => go["action"].at = "rest" \/ go["watchdog"].at = "rest"
  BY <1>1, Zenon DEF AccInv, FireOk
<1>3. gu = [go EXCEPT ![r] = b]
  BY <1>1, Zenon
<1>4. gu \in [Runs -> {Rest} \cup ScriptRuns] /\ gu[r] = b /\ \A s \in Runs \ {r} : gu[s] = go[s]
  <2>1. PICK R : R = {Rest} \cup ScriptRuns
    OBVIOUS
  <2>2. go \in [Runs -> R] /\ b \in R
    BY <1>2, <2>1, Zenon
  <2>3. gu \in [Runs -> R] /\ gu[r] = b /\ \A s \in Runs \ {r} : gu[s] = go[s]
    BY <1>3, <2>2
  <2> QED
    BY <2>1, <2>3, Zenon
<1>5. exact => \A s \in Runs \ {r} : gu[s].at = "rest"
  BY <1>2, <1>4, AccParams, Zenon
<1>6. ex => gu["action"].at = "rest" \/ gu["watchdog"].at = "rest"
  <2>1. "action" # "watchdog"
    OBVIOUS
  <2> QED
    BY <1>5, <2>1, AccParams, Zenon
<1> QED
  BY <1>2, <1>4, <1>5, <1>6, Zenon DEF FireOk

\* Nothing but the firewall and the counters changes, and no request of the action is
\* there unless the action's script rests.
LEMMA FireKeeps ==
  ASSUME AccInv, FireOk(chain', guard', exact', accFile), CountsOk(accCnt'),
         guard["action"].at = "rest" => guard'["action"].at = "rest",
         UNCHANGED <<fileVarsA, accCache, visit, nbrVars>>
  PROVE  AccInv'
<1>1. /\ accFile' = accFile /\ latest' = latest /\ accCache' = accCache /\ visit' = visit
      /\ nbr' = nbr /\ neighSnap' = neighSnap /\ turned' = turned
  BY DEF fileVarsA, nbrVars
<1>2. VisitsOk(visit, latest, guard')
  BY Zenon DEF AccInv, VisitsOk
<1> QED
  BY <1>1, <1>2, Zenon DEF AccInv

\* The state of a run under way.
LEMMA RunUnderway ==
  ASSUME AccInv, NEW r \in Runs, guard[r].at # "rest"
  PROVE  /\ guard[r] \in ScriptRuns /\ guard \in [Runs -> {Rest} \cup ScriptRuns] /\ chain \in Seq(Rules)
         /\ exact \in BOOLEAN /\ accFile \in AccCfg /\ CountsOk(accCnt)
         /\ exact => /\ guard[r].cfg = accFile
                     /\ guard[r].at = "flushed" => chain = <<>>
                     /\ guard[r].at = "listed" => chain = ListRules(accFile)
<1>1. guard[r] \in {Rest} \cup ScriptRuns
  BY Zenon DEF AccInv, FireOk
<1>2. Rest.at = "rest"
  BY DEF Rest
<1> QED
  BY <1>1, <1>2, Zenon DEF AccInv, FireOk

\* The action's script does not leave its rest by the step of a run under way.
LEMMA RestStays ==
  ASSUME AccInv, NEW r \in Runs, guard[r].at # "rest", NEW b, guard' = [guard EXCEPT ![r] = b]
  PROVE  guard["action"].at = "rest" => guard'["action"].at = "rest"
<1>1. guard \in [Runs -> {Rest} \cup ScriptRuns]
  BY Zenon DEF AccInv, FireOk
<1>2. r # "action" => guard'["action"] = guard["action"]
  BY <1>1, AccParams
<1> QED
  BY <1>2, Zenon

\* The chain is emptied.
LEMMA FlushKeeps == ASSUME AccInv, NEW r \in Runs, Flush(r) PROVE AccInv'
<1>1. /\ guard[r].at = "read" /\ chain' = <<>> /\ guard' = [guard EXCEPT ![r].at = "flushed"]
      /\ exact' = exact /\ accCnt' = accCnt /\ UNCHANGED <<fileVarsA, accCache, visit, nbrVars>>
  BY DEF Flush
<1>2. guard[r].at # "rest"
  BY <1>1
<1>3. PICK a, b : a = guard[r] /\ b = [a EXCEPT !.at = "flushed"]
  OBVIOUS
<1>4. a \in ScriptRuns /\ exact \in BOOLEAN /\ CountsOk(accCnt) /\ (exact => a.cfg = accFile)
      /\ guard \in [Runs -> {Rest} \cup ScriptRuns]
  BY <1>2, <1>3, RunUnderway, Zenon
<1>5. b \in ScriptRuns /\ b.at = "flushed" /\ b.cfg = a.cfg
  BY <1>3, <1>4 DEF ScriptRuns
<1>6. guard' = [guard EXCEPT ![r] = b]
  BY <1>1, <1>3, <1>4
<1>7. <<>> \in Seq(Rules) /\ "flushed" # "rest" /\ "flushed" # "listed"
  OBVIOUS
<1>8. FireOk(<<>>, guard', exact, accFile)
  <2>1. PICK gu, ex, ch : gu = guard' /\ ex = exact /\ ch = <<>>
    OBVIOUS
  <2>2. FireOk(ch, gu, ex, accFile)
    BY <1>2, <1>4, <1>5, <1>6, <1>7, <2>1, FireStep, Zenon
  <2> QED
    BY <2>1, <2>2, Zenon
<1>9. guard["action"].at = "rest" => guard'["action"].at = "rest"
  BY <1>2, <1>6, RestStays, Zenon
<1> QED
  BY <1>1, <1>4, <1>8, <1>9, FireKeeps, Zenon

\* The rules of the list.
LEMMA AddListKeeps == ASSUME AccInv, NEW r \in Runs, AddList(r) PROVE AccInv'
<1>1. /\ guard[r].at = "flushed" /\ chain' = chain \o ListRules(guard[r].cfg) /\ guard' = [guard EXCEPT ![r].at = "listed"]
      /\ exact' = exact /\ accCnt' = accCnt /\ UNCHANGED <<fileVarsA, accCache, visit, nbrVars>>
  BY DEF AddList
<1>2. guard[r].at # "rest"
  BY <1>1
<1>3. PICK a, b, l : a = guard[r] /\ b = [a EXCEPT !.at = "listed"] /\ l = ListRules(a.cfg)
  OBVIOUS
<1>4. /\ a \in ScriptRuns /\ exact \in BOOLEAN /\ CountsOk(accCnt) /\ chain \in Seq(Rules)
      /\ exact => a.cfg = accFile /\ chain = <<>>
      /\ guard \in [Runs -> {Rest} \cup ScriptRuns]
  BY <1>1, <1>2, <1>3, RunUnderway, Zenon
<1>5. b \in ScriptRuns /\ b.at = "listed" /\ b.cfg = a.cfg /\ a.cfg \in AccCfg
  BY <1>3, <1>4 DEF ScriptRuns
<1>6. l \in Seq(Rules)
  BY <1>3, <1>5, BuiltChain, Zenon
<1>7. guard' = [guard EXCEPT ![r] = b]
  BY <1>1, <1>3, <1>4
<1>8. chain \o l \in Seq(Rules) /\ (exact => chain \o l = l) /\ "listed" # "rest" /\ "listed" # "flushed"
  BY <1>4, <1>6
<1>9. FireOk(chain \o l, guard', exact, accFile)
  <2>1. PICK gu, ex, ch : gu = guard' /\ ex = exact /\ ch = chain \o l
    OBVIOUS
  <2>2. ch \in Seq(Rules) /\ (exact => ch = ListRules(accFile))
    BY <1>3, <1>4, <1>8, <2>1, Zenon
  <2>3. FireOk(ch, gu, ex, accFile)
    BY <1>2, <1>4, <1>5, <1>7, <1>8, <2>1, <2>2, FireStep, Zenon
  <2> QED
    BY <2>1, <2>3, Zenon
<1>10. guard["action"].at = "rest" => guard'["action"].at = "rest"
  BY <1>2, <1>7, RestStays, Zenon
<1>11. chain' = chain \o l
  BY <1>1, <1>3, Zenon
<1> QED
  BY <1>1, <1>4, <1>9, <1>10, <1>11, FireKeeps, Zenon

\* Some rules of the list are refused.
LEMMA SkipKeeps == ASSUME AccInv, NEW r \in Runs, SkipRules(r) PROVE AccInv'
<1>1. /\ guard[r].at = "flushed" /\ AccFault /\ exact' = FALSE /\ guard' = [guard EXCEPT ![r].at = "listed"]
      /\ UNCHANGED <<fileVarsA, accCache, visit, nbrVars>>
  BY DEF SkipRules
<1>2. guard[r].at # "rest"
  BY <1>1
<1>3. PICK a, b : a = guard[r] /\ b = [a EXCEPT !.at = "listed"]
  OBVIOUS
<1>4. a \in ScriptRuns /\ CountsOk(accCnt) /\ chain \in Seq(Rules) /\ guard \in [Runs -> {Rest} \cup ScriptRuns]
  BY <1>2, <1>3, RunUnderway, Zenon
<1>5. b \in ScriptRuns /\ b.at = "listed" /\ a.cfg \in AccCfg /\ a.cfg.list \in SUBSET Hw
  BY <1>3, <1>4 DEF ScriptRuns, AccCfg
<1>6. PICK some \in SUBSET a.cfg.list : chain' = chain \o ListRules([a.cfg EXCEPT !.list = some])
  BY <1>3 DEF SkipRules
<1>7. PICK c : c = [a.cfg EXCEPT !.list = some]
  OBVIOUS
<1>8. c \in AccCfg
  BY <1>5, <1>6, <1>7 DEF AccCfg
<1>9. PICK l : l = ListRules(c)
  OBVIOUS
<1>10. l \in Seq(Rules)
  BY <1>8, <1>9, BuiltChain, Zenon
<1>11. chain' \in Seq(Rules)
  BY <1>4, <1>6, <1>7, <1>9, <1>10
<1>12. guard' = [guard EXCEPT ![r] = b]
  BY <1>1, <1>3, <1>4
<1>13. PICK gu, ex, ch : gu = guard' /\ ex = FALSE /\ ch = chain'
  OBVIOUS
<1>14. FireOk(ch, gu, ex, accFile)
  BY <1>2, <1>5, <1>11, <1>12, <1>13, FireStep, Zenon
<1>15. guard["action"].at = "rest" => guard'["action"].at = "rest"
  BY <1>2, <1>12, RestStays, Zenon
<1>16. CountsOk(accCnt')
  BY <1>1, <1>4, AccParams DEF CountsOk, AccFault
<1> QED
  BY <1>1, <1>13, <1>14, <1>15, <1>16, FireKeeps, Zenon

\* The last rule.
LEMMA AddLastKeeps == ASSUME AccInv, NEW r \in Runs, AddLast(r) PROVE AccInv'
<1>1. /\ guard[r].at = "listed" /\ chain' = Append(chain, LastRule(guard[r].cfg)) /\ guard' = [guard EXCEPT ![r] = Rest]
      /\ exact' = exact /\ accCnt' = accCnt /\ UNCHANGED <<fileVarsA, accCache, visit, nbrVars>>
  BY DEF AddLast
<1>2. guard[r].at # "rest" /\ Rest \in {Rest} \cup ScriptRuns /\ Rest.at = "rest"
  BY <1>1 DEF Rest
<1>3. PICK a, l : a = guard[r] /\ l = LastRule(a.cfg)
  OBVIOUS
<1>4. /\ a \in ScriptRuns /\ exact \in BOOLEAN /\ CountsOk(accCnt) /\ chain \in Seq(Rules) /\ accFile \in AccCfg
      /\ exact => a.cfg = accFile /\ chain = ListRules(accFile)
  BY <1>1, <1>2, <1>3, RunUnderway, Zenon
<1>5. l \in Rules
  BY <1>3 DEF LastRule, Rules
<1>6. Append(chain, l) \in Seq(Rules)
  BY <1>4, <1>5
<1>7. PICK gu, ex, ch : gu = guard' /\ ex = exact /\ ch = Append(chain, l)
  OBVIOUS
<1>8. exact => \A h \in Hw : Passes(ch, h) <=> Lets(accFile, h)
  <2>1. PICK c : c = accFile
    OBVIOUS
  <2>2. \A h \in Hw : Passes(Append(ListRules(c), LastRule(c)), h) <=> Lets(c, h)
    BY <1>4, <2>1, BuiltChain, Zenon
  <2>3. exact => ch = Append(ListRules(c), LastRule(c))
    BY <1>3, <1>4, <1>7, <2>1, Zenon
  <2> QED
    BY <2>1, <2>2, <2>3, Zenon
<1>9. FireOk(ch, gu, ex, accFile)
  BY <1>1, <1>2, <1>4, <1>6, <1>7, <1>8, FireStep, Zenon
<1>10. guard["action"].at = "rest" => guard'["action"].at = "rest"
  BY <1>1, <1>2, RestStays, Zenon
<1>11. chain' = ch
  BY <1>1, <1>3, <1>7, Zenon
<1> QED
  BY <1>1, <1>4, <1>7, <1>9, <1>10, <1>11, FireKeeps, Zenon

\* A rule is refused.
LEMMA GuardFailsKeeps == ASSUME AccInv, NEW r \in Runs, GuardFails(r) PROVE AccInv'
<1>1. /\ guard[r].at # "rest" /\ AccFault /\ guard' = [guard EXCEPT ![r] = Rest] /\ exact' = FALSE /\ chain' = chain
      /\ UNCHANGED <<fileVarsA, accCache, visit, nbrVars>>
  BY DEF GuardFails
<1>2. Rest \in {Rest} \cup ScriptRuns
  OBVIOUS
<1>3. chain \in Seq(Rules) /\ CountsOk(accCnt)
  BY <1>1, RunUnderway, Zenon
<1>4. PICK gu, ex, ch : gu = guard' /\ ex = FALSE /\ ch = chain
  OBVIOUS
<1>5. FireOk(ch, gu, ex, accFile)
  BY <1>1, <1>2, <1>3, <1>4, FireStep, Zenon
<1>6. guard["action"].at = "rest" => guard'["action"].at = "rest"
  BY <1>1, RestStays, Zenon
<1>7. CountsOk(accCnt')
  BY <1>1, <1>3, AccParams DEF CountsOk, AccFault
<1> QED
  BY <1>1, <1>4, <1>5, <1>6, <1>7, FireKeeps, Zenon

\* The watchdog starts the script.
LEMMA HealKeeps == ASSUME AccInv, WatchdogApplies PROVE AccInv'
<1>1. /\ guard["watchdog"].at = "rest" /\ accCnt.heals < MaxAccHeals /\ accCnt' = [accCnt EXCEPT !.heals = @ + 1]
      /\ guard' = [guard EXCEPT !["watchdog"] = [at |-> "read", cfg |-> accFile]]
      /\ exact' = (guard["action"].at = "rest") /\ chain' = chain
      /\ UNCHANGED <<fileVarsA, accCache, visit, nbrVars>>
  BY DEF WatchdogApplies
<1>2. guard \in [Runs -> {Rest} \cup ScriptRuns] /\ chain \in Seq(Rules) /\ accFile \in AccCfg /\ CountsOk(accCnt)
  BY Zenon DEF AccInv, FireOk
<1>3. PICK a, gu : a = [at |-> "read", cfg |-> accFile] /\ gu = guard'
  OBVIOUS
<1>4. a \in ScriptRuns /\ a.at = "read" /\ a.cfg = accFile
  BY <1>2, <1>3 DEF ScriptRuns
<1>5. gu \in [Runs -> {Rest} \cup ScriptRuns] /\ gu["watchdog"] = a /\ gu["action"] = guard["action"]
  BY <1>1, <1>2, <1>3, <1>4, AccParams
<1>6. FireOk(chain, gu, exact', accFile)
  <2>1. exact' \in BOOLEAN /\ (exact' => gu["action"].at = "rest")
    BY <1>1, <1>5
  <2>2. ASSUME exact', NEW r \in Runs, gu[r].at # "rest" PROVE gu[r].cfg = accFile /\ gu[r].at = "read"
    BY <1>4, <1>5, <2>1, <2>2, AccParams, Zenon
  <2>3. ~\A r \in Runs : gu[r].at = "rest"
    <3>1. "read" # "rest"
      OBVIOUS
    <3> QED
      BY <1>4, <1>5, <3>1, AccParams, Zenon
  <2>4. "read" # "flushed" /\ "read" # "listed"
    OBVIOUS
  <2> QED
    BY <1>2, <1>5, <2>1, <2>2, <2>3, <2>4, Zenon DEF FireOk
<1>7. CountsOk(accCnt')
  BY <1>1, <1>2, AccParams DEF CountsOk
<1>8. guard["action"].at = "rest" => guard'["action"].at = "rest"
  BY <1>3, <1>5, Zenon
<1> QED
  BY <1>1, <1>3, <1>6, <1>7, <1>8, FireKeeps, Zenon

\* A guest comes back with another hardware address.
LEMMA TurnKeeps == ASSUME AccInv, NEW g \in Guest, Turn(g) PROVE AccInv'
<1>1. /\ AccFault /\ turned' = turned \cup {g} /\ accFile' = accFile /\ latest' = latest /\ accCache' = accCache
      /\ visit' = visit /\ neighSnap' = neighSnap /\ chain' = chain /\ guard' = guard /\ exact' = exact
  BY DEF Turn, fileVarsA, fireVars
<1>2. PICK h \in Hw : nbr' = [nbr EXCEPT ![g] = h]
  BY DEF Turn
<1>3. nbr \in [Guest -> Hw]
  BY Zenon DEF AccInv, NbrOk
<1>4. nbr' \in [Guest -> Hw] /\ \A k \in Guest \ {g} : nbr'[k] = nbr[k]
  BY <1>2, <1>3
<1>5. turned' \subseteq Guest /\ \A k \in Guest : k \notin turned' => k \notin turned /\ k \in Guest \ {g}
  BY <1>1 DEF AccInv, NbrOk
<1>6. NbrOk(nbr', neighSnap', turned', accFile')
  BY <1>1, <1>4, <1>5, Zenon DEF AccInv, NbrOk
<1>7. CountsOk(accCnt')
  BY <1>1, AccParams DEF AccInv, CountsOk, AccFault
<1> QED
  BY <1>1, <1>6, <1>7, Zenon DEF AccInv

\* The invariant holds at the start.
LEMMA AccStart == ASSUME AccInit PROVE AccInv
<1>1. /\ accFile = FirstCfg /\ latest = 0 /\ accCache = [key |-> NoKey, cfg |-> FirstCfg]
      /\ visit = [g \in Guest |-> Away] /\ nbr \in [Guest -> Hw] /\ neighSnap = nbr /\ turned = {}
      /\ chain = <<<<"pass">>>> /\ guard = [r \in Runs |-> Rest] /\ exact = TRUE
      /\ accCnt = [faults |-> 0, heals |-> 0]
  BY Zenon DEF AccInit
<1>2. FirstCfg \in AccCfg /\ FirstCfg.no = 0 /\ FirstCfg.mode = "all" /\ FirstCfg.by = "self"
  BY AccParams DEF FirstCfg, AccCfg, Modes
<1>3. Away.at = "away" /\ Rest.at = "rest"
  BY DEF Away, Rest
<1>4. VisitsOk(visit, latest, guard)
  <2>1. visit \in [Guest -> {Away} \cup Visits] /\ \A g \in Guest : visit[g] = Away
    BY <1>1
  <2> QED
    BY <1>3, <2>1, Zenon DEF VisitsOk, VisitOk, Sets
<1>5. FireOk(chain, guard, exact, accFile)
  <2>1. guard \in [Runs -> {Rest} \cup ScriptRuns] /\ \A r \in Runs : guard[r] = Rest
    BY <1>1
  <2>2. <<"pass">> \in Rules
    BY DEF Rules
  <2>3. PICK ch : ch = <<<<"pass">>>>
    OBVIOUS
  <2>4. ch \in Seq(Rules) /\ DOMAIN ch = 1..1 /\ ch[1] = <<"pass">>
    BY <2>2, <2>3
  <2>5. ASSUME NEW h \in Hw PROVE Passes(ch, h) <=> Lets(FirstCfg, h)
    <3>1. ch[1] \in {<<"pass">>, <<"pass", h>>, <<"reject">>} /\ ch[1] # <<"reject">>
      BY <2>4
    <3>2. 1 \in Nat /\ 1 \in 1..1 /\ \A i \in 1..1 - 1 : FALSE
      OBVIOUS
    <3>3. Passes(ch, h) <=> ch[1] # <<"reject">>
      BY <2>4, <3>1, <3>2, FirstRule, Zenon
    <3> QED
      BY <1>2, <3>1, <3>3, Zenon DEF Lets
  <2>6. "rest" = "rest"
    OBVIOUS
  <2> QED
    BY <1>1, <1>2, <1>3, <2>1, <2>3, <2>4, <2>5, AccParams, Zenon DEF FireOk
<1>6. NbrOk(nbr, neighSnap, turned, accFile)
  BY <1>1, <1>2, AccParams, Zenon DEF NbrOk
<1>7. CacheOk(accCache) /\ CountsOk(accCnt)
  BY <1>1, <1>2, AccParams DEF CacheOk, CountsOk
<1> QED
  BY <1>1, <1>2, <1>4, <1>5, <1>6, <1>7, Zenon DEF AccInv

\* Every step keeps it.
LEMMA AccStepKeeps == ASSUME AccInv, [AccNext]_accVars PROVE AccInv'
<1>1. ASSUME NEW g \in Guest, \/ \E why \in {"serve", "set"} : Arrive(g, why)
                              \/ Parse(g) \/ InstallCfg(g) \/ Serve(g) \/ SetAccess(g) \/ Turn(g)
      PROVE  AccInv'
  BY <1>1, ArriveKeeps, ParseKeeps, InstallKeeps, ServeKeeps, SetKeeps, TurnKeeps, Zenon
<1>2. ASSUME NEW r \in Runs, Flush(r) \/ AddList(r) \/ SkipRules(r) \/ AddLast(r) \/ GuardFails(r) PROVE AccInv'
  BY <1>2, FlushKeeps, AddListKeeps, SkipKeeps, AddLastKeeps, GuardFailsKeeps, Zenon
<1>3. CASE UNCHANGED accVars
  <2>1. /\ accFile' = accFile /\ accCache' = accCache /\ visit' = visit /\ latest' = latest /\ nbr' = nbr
        /\ neighSnap' = neighSnap /\ turned' = turned /\ chain' = chain /\ guard' = guard /\ exact' = exact
        /\ accCnt' = accCnt
    BY <1>3 DEF accVars
  <2> QED
    BY <2>1, Zenon DEF AccInv
<1> QED
  BY <1>1, <1>2, <1>3, SetLocallyKeeps, HealKeeps, Zenon DEF AccNext

-----------------------------------------------------------------------------
(* The DNS forwarder.                                                      *)

\* A query at the limiter, the block list, the cache or the upstream; one with an
\* answer; one that was answered from the cache.
Asking == [pc : {"limit", "look", "ask"}, c : Client, n : Name, t0 : 0..MaxSec, cut : BOOLEAN]
Putting == [pc : {"put"}, n : Name, t0 : 0..MaxSec, v : 0..MaxVersions, cut : BOOLEAN]
Hitting == [pc : {"hit"}, n : Name, v : 0..MaxVersions, t0 : 0..MaxSec, left : Int, cut : BOOLEAN]
Queries == {NoQuery} \cup Asking \cup Putting \cup Hitting

\* What holds of a query at time s when rep says until when every version was current
\* and blk what is blocked: it came before, the record it holds was current when
\* it came or later.
QueryOk(q, s, rep, blk) ==
  /\ q.pc # "idle" => q.t0 <= s
  /\ q.pc \in {"limit", "look"} /\ q.cut => <<q.c, q.n>> \in blk
  /\ q.pc \in {"hit", "ask", "put"} => ~q.cut
  /\ q.pc = "put" => (rep[<<q.n, q.v>>] >= 0 => q.t0 <= rep[<<q.n, q.v>>])
  /\ q.pc = "hit" => /\ q.left \in 0..TTL
                     /\ rep[<<q.n, q.v>>] >= 0 => q.t0 + q.left <= rep[<<q.n, q.v>>] + TTL

\* The same of an entry of the cache.
EntOk(e, s, rep) == e.stored <= s /\ (rep[<<e.n, e.v>>] >= 0 => e.stored <= rep[<<e.n, e.v>>])

\* The cache: one entry for a name, no more than it may hold.
CacheSound(q, s, rep) ==
  /\ q \in Seq(CacheEnt) /\ \A i, j \in 1..Len(q) : i # j => q[i].n # q[j].n
  /\ \A i \in 1..Len(q) : EntOk(q[i], s, rep)

\* A bucket and what was allowed by it: tokens and queries together are covered by the
\* burst and the refill up to the time of the last query, the queries alone by
\* the refill up to now.
Refilled(k) == RatePerSec * k
BucketOk(b, a, s) ==
  b.last >= 0 => /\ b.last <= s /\ a.since <= s
                 /\ b.tok + a.n <= Burst + Refilled(b.last - a.since)
                 /\ a.n <= Burst + Refilled(s - a.since)

\* The upstream: the versions from the current one on have not been replaced.
Upstream(ver, rep, s) ==
  /\ ver \in [Name -> 0..MaxVersions] /\ rep \in [Name \X (0..MaxVersions) -> Int]
  /\ \A n \in Name, v \in 0..MaxVersions : rep[<<n, v>>] <= s /\ (v >= ver[n] => rep[<<n, v>>] < 0)

BucketSet == [tok : Int, last : Int]
AllowedSet == [n : Nat, since : Nat]
ConnStates == {"none", "accepted", "open", "shut"}

BucketsOk(bu, al, s) ==
  /\ bu \in [Client -> BucketSet] /\ al \in [Client -> AllowedSet]
  /\ \A c \in Client : BucketOk(bu[c], al[c], s)
QueriesOk(qu, s, rep, blk) ==
  qu \in [Handler -> Queries] /\ \A h \in Handler : QueryOk(qu[h], s, rep, blk)

ForwardInv ==
  /\ sec \in 0..MaxSec /\ Upstream(version, replaced, sec)
  /\ CacheSound(lruCache, sec, replaced) /\ Len(lruCache) <= CacheMax
  /\ BucketsOk(bucket, allowed, sec) /\ QueriesOk(query, sec, replaced, blockSet)
  /\ conns \in [TcpConn -> ConnStates] /\ closing \in BOOLEAN /\ CloseEndsAll

\* The constants of the forwarder, one by one.
LEMMA ForwardParams ==
  /\ TTL \in Nat /\ TTL > 0 /\ CacheMax \in Nat /\ Burst \in Nat /\ Burst > 0 /\ RatePerSec \in Nat
  /\ MaxSec \in Nat /\ MaxVersions \in Nat
BY ForwardAssumption

\* The refill grows with the time, and what is refilled in two spans is refilled in both.
LEMMA RefillGrows ==
  /\ Refilled(0) = 0
  /\ \A k \in Int : Refilled(k) \in Int
  /\ \A k, m \in Int : k <= m => Refilled(k) <= Refilled(m)
  /\ \A k, m \in Int : Refilled(k + m) = Refilled(k) + Refilled(m)
<1>0. RatePerSec \in Nat
  BY ForwardParams
<1>1. \A k \in Int : Refilled(k) \in Int
  BY <1>0 DEF Refilled
<1>2. \A k, m \in Int : Refilled(k + m) = Refilled(k) + Refilled(m)
  BY <1>0 DEF Refilled
<1>3. ASSUME NEW k \in Int, NEW m \in Int, k <= m PROVE Refilled(k) <= Refilled(m)
  <2>1. PICK d \in Nat : m = k + d
    <3>1. m - k \in Nat /\ m = k + (m - k)
      BY <1>3
    <3> QED
      BY <3>1
  <2>2. Refilled(d) >= 0 /\ Refilled(d) \in Int
    BY <1>0, <2>1 DEF Refilled
  <2>3. Refilled(m) = Refilled(k) + Refilled(d) /\ Refilled(k) \in Int
    <3>1. d \in Int
      OBVIOUS
    <3> QED
      BY <1>1, <1>2, <2>1, <3>1, Zenon
  <2> QED
    BY <2>2, <2>3
<1>4. Refilled(0) = 0
  BY <1>0 DEF Refilled
<1> QED
  BY <1>1, <1>2, <1>3, <1>4

\* Removing one place from a list.
LEMMA RemovedAt ==
  ASSUME NEW S, NEW s \in Seq(S), NEW i \in 1..Len(s)
  PROVE  /\ RemoveAt(s, i) \in Seq(S) /\ Len(RemoveAt(s, i)) = Len(s) - 1
         /\ \A k \in 1..Len(s) - 1 : RemoveAt(s, i)[k] = IF k < i THEN s[k] ELSE s[k + 1]
<1>1. Len(s) \in Nat /\ i - 1 \in Nat /\ Len(s) - i \in Nat
  OBVIOUS
<1>2. PICK a, b : a = SubSeq(s, 1, i - 1) /\ b = SubSeq(s, i + 1, Len(s))
  OBVIOUS
<1>3. a \in Seq(S) /\ Len(a) = i - 1 /\ \A k \in 1..i - 1 : a[k] = s[k]
  BY <1>1, <1>2
<1>4. b \in Seq(S) /\ Len(b) = Len(s) - i /\ \A k \in 1..Len(s) - i : b[k] = s[k + i]
  BY <1>1, <1>2
<1>5. RemoveAt(s, i) = a \o b
  BY <1>2 DEF RemoveAt
<1>6. PICK w : w = a \o b
  OBVIOUS
<1>7. /\ w \in Seq(S) /\ Len(w) = Len(a) + Len(b)
      /\ \A k \in 1..Len(a) : w[k] = a[k]
      /\ \A k \in Len(a) + 1..Len(a) + Len(b) : w[k] = b[k - Len(a)]
  <2>1. Len(a) \in Nat /\ Len(b) \in Nat /\ a \in Seq(S) /\ b \in Seq(S)
    BY <1>3, <1>4
  <2>2. w \in Seq(S) /\ Len(w) = Len(a) + Len(b)
    BY <1>6, <2>1
  <2>3. \A k \in 1..Len(a) : w[k] = a[k]
    BY <1>6, <2>1
  <2>4. ASSUME NEW k \in Len(a) + 1..Len(a) + Len(b) PROVE w[k] = b[k - Len(a)]
    <3>1. k \in 1..Len(a) + Len(b) /\ k > Len(a) /\ k \in Int
      BY <2>1
    <3> HIDE <1>3
    <3> HIDE <1>4
    <3> QED
      BY <1>6, <2>1, <3>1
  <2> QED
    BY <2>2, <2>3, <2>4
<1>8. ASSUME NEW k \in 1..Len(s) - 1 PROVE w[k] = IF k < i THEN s[k] ELSE s[k + 1]
  <2>1. CASE k < i
    <3>1. k \in 1..i - 1
      BY <2>1
    <3> QED
      BY <1>3, <1>7, <2>1, <3>1
  <2>2. CASE ~(k < i)
    <3>1. k - (i - 1) \in 1..Len(s) - i /\ (k - (i - 1)) + (i - 1) = k /\ (k - (i - 1)) + i = k + 1
      BY <1>1, <2>2
    <3>2. w[k] = b[k - (i - 1)]
      <4>1. k \in Len(a) + 1..Len(a) + Len(b) /\ k - Len(a) = k - (i - 1)
        BY <1>1, <1>3, <1>4, <2>2
      <4> QED
        BY <1>7, <4>1, Zenon
    <3>3. b[k - (i - 1)] = s[k + 1]
      BY <1>4, <3>1
    <3> QED
      BY <2>2, <3>2, <3>3
  <2> QED
    BY <2>1, <2>2
<1>9. Len(w) = Len(s) - 1
  BY <1>1, <1>3, <1>4, <1>7
<1> QED
  BY <1>5, <1>6, <1>7, <1>8, <1>9, Zenon

\* A cache without one of its entries is sound, and no longer names it.
LEMMA CacheRemoves ==
  ASSUME NEW q, NEW s, NEW rep, CacheSound(q, s, rep), NEW i \in 1..Len(q)
  PROVE  /\ CacheSound(RemoveAt(q, i), s, rep) /\ Len(RemoveAt(q, i)) = Len(q) - 1
         /\ \A k \in 1..Len(RemoveAt(q, i)) : RemoveAt(q, i)[k].n # q[i].n
<1>1. q \in Seq(CacheEnt) /\ Len(q) \in Nat
  BY DEF CacheSound
<1>2. PICK w : w = RemoveAt(q, i)
  OBVIOUS
<1>3. /\ w \in Seq(CacheEnt) /\ Len(w) = Len(q) - 1
      /\ \A k \in 1..Len(q) - 1 : w[k] = IF k < i THEN q[k] ELSE q[k + 1]
  BY <1>1, <1>2, RemovedAt, Zenon
<1>4. \A k \in 1..Len(w) : \E m \in 1..Len(q) : m = (IF k < i THEN k ELSE k + 1) /\ m # i /\ w[k] = q[m]
  BY <1>1, <1>3
<1>5. \A k \in 1..Len(w) : EntOk(w[k], s, rep) /\ w[k].n # q[i].n
  <2> SUFFICES ASSUME NEW k \in 1..Len(w) PROVE EntOk(w[k], s, rep) /\ w[k].n # q[i].n
    BY Zenon
  <2>1. PICK m \in 1..Len(q) : m # i /\ w[k] = q[m]
    BY <1>4, Zenon
  <2> QED
    BY <2>1, Zenon DEF CacheSound
<1>6. ASSUME NEW k \in 1..Len(w), NEW m \in 1..Len(w), k # m PROVE w[k].n # w[m].n
  <2>1. PICK a \in 1..Len(q) : a = (IF k < i THEN k ELSE k + 1) /\ w[k] = q[a]
    BY <1>4, Zenon
  <2>2. PICK b \in 1..Len(q) : b = (IF m < i THEN m ELSE m + 1) /\ w[m] = q[b]
    BY <1>4, Zenon
  <2>3. a # b
    BY <1>1, <1>3, <1>6, <2>1, <2>2
  <2> QED
    BY <2>1, <2>2, <2>3, Zenon DEF CacheSound
<1>7. CacheSound(w, s, rep)
  BY <1>3, <1>5, <1>6, Zenon DEF CacheSound
<1> QED
  BY <1>2, <1>3, <1>5, <1>7, Zenon

\* A sound entry with a new name in front of a sound cache.
LEMMA CacheFront ==
  ASSUME NEW q, NEW s, NEW rep, CacheSound(q, s, rep), NEW e \in CacheEnt, EntOk(e, s, rep),
         \A k \in 1..Len(q) : q[k].n # e.n
  PROVE  CacheSound(<<e>> \o q, s, rep) /\ Len(<<e>> \o q) = Len(q) + 1
<1>1. q \in Seq(CacheEnt) /\ Len(q) \in Nat
  BY DEF CacheSound
<1>2. PICK w : w = <<e>> \o q
  OBVIOUS
<1>3. w \in Seq(CacheEnt) /\ Len(w) = Len(q) + 1 /\ w[1] = e /\ \A k \in 1..Len(q) : w[k + 1] = q[k]
  BY <1>1, <1>2
<1>4. \A k \in 1..Len(w) : k = 1 \/ (k - 1 \in 1..Len(q) /\ w[k] = q[k - 1])
  <2> SUFFICES ASSUME NEW k \in 1..Len(w), k # 1 PROVE k - 1 \in 1..Len(q) /\ w[k] = q[k - 1]
    OBVIOUS
  <2>1. k - 1 \in 1..Len(q) /\ (k - 1) + 1 = k
    BY <1>1, <1>3
  <2> QED
    BY <1>3, <2>1
<1>5. \A k \in 1..Len(w) : EntOk(w[k], s, rep)
  BY <1>3, <1>4, Zenon DEF CacheSound
<1>6. ASSUME NEW k \in 1..Len(w), NEW m \in 1..Len(w), k # m PROVE w[k].n # w[m].n
  <2>1. CASE k = 1 \/ m = 1
    BY <1>3, <1>4, <1>6, <2>1, Zenon
  <2>2. CASE k # 1 /\ m # 1
    <3>1. k - 1 # m - 1
      BY <1>6
    <3> QED
      BY <1>4, <2>2, <3>1, Zenon DEF CacheSound
  <2> QED
    BY <2>1, <2>2
<1>7. CacheSound(w, s, rep)
  BY <1>3, <1>5, <1>6, Zenon DEF CacheSound
<1> QED
  BY <1>2, <1>3, <1>7, Zenon

\* The front part of a sound cache.
LEMMA CacheCut ==
  ASSUME NEW q, NEW s, NEW rep, CacheSound(q, s, rep), NEW n \in Nat, n <= Len(q)
  PROVE  CacheSound(SubSeq(q, 1, n), s, rep) /\ Len(SubSeq(q, 1, n)) = n
<1>1. q \in Seq(CacheEnt) /\ Len(q) \in Nat
  BY DEF CacheSound
<1>2. PICK w : w = SubSeq(q, 1, n)
  OBVIOUS
<1>3. w \in Seq(CacheEnt) /\ Len(w) = n /\ \A k \in 1..n : w[k] = q[k] /\ k \in 1..Len(q)
  BY <1>1, <1>2
<1>4. CacheSound(w, s, rep)
  BY <1>3, Zenon DEF CacheSound
<1> QED
  BY <1>2, <1>3, <1>4, Zenon

\* It says what the runs check.
LEMMA ForwardTyped ==
  ASSUME ForwardInv
  PROVE  ForwardTypeOK /\ StaleBound /\ RateBound /\ BlockedRefused /\ CloseEndsAll
<1>0. /\ lruCache \in Seq(CacheEnt) /\ query \in [Handler -> Queries] /\ sec \in 0..MaxSec
      /\ \A h \in Handler : QueryOk(query[h], sec, replaced, blockSet)
  BY Zenon DEF ForwardInv, CacheSound, QueriesOk
<1>1. ForwardTypeOK
  <2>1. DOMAIN lruCache = 1..Len(lruCache)
    BY <1>0
  <2>2. Range(lruCache) \subseteq CacheEnt
    BY <1>0 DEF Range
  <2>3. \A q \in Queries : q.pc \in {"idle", "limit", "look", "ask", "put", "hit"}
    BY DEF Queries, NoQuery, Asking, Putting, Hitting
  <2>4. \A h \in Handler : query[h] \in Queries
    BY <1>0, Zenon
  <2> QED
    BY <1>0, <2>1, <2>2, <2>3, <2>4, Zenon DEF ForwardTypeOK, ForwardInv, CacheSound, ConnStates
<1>2. StaleBound
  BY <1>0, Zenon DEF StaleBound, QueryOk
<1>3. RateBound
  BY Zenon DEF RateBound, ForwardInv, BucketsOk, BucketOk, Refilled
<1>4. BlockedRefused
  BY <1>0, Zenon DEF BlockedRefused, QueryOk
<1> QED
  BY <1>1, <1>2, <1>3, <1>4, Zenon DEF ForwardInv

\* The time, the record and the versions as numbers.
LEMMA ForwardTimes ==
  ASSUME ForwardInv
  PROVE  /\ sec \in Nat /\ sec \in 0..MaxSec /\ sec <= MaxSec /\ MaxSec \in Nat /\ TTL \in Nat
         /\ \A n \in Name, v \in 0..MaxVersions : replaced[<<n, v>>] \in Int /\ replaced[<<n, v>>] <= sec
         /\ \A n \in Name : version[n] \in 0..MaxVersions /\ replaced[<<n, version[n]>>] < 0
<1>1. sec \in 0..MaxSec /\ MaxSec \in Nat /\ TTL \in Nat /\ MaxVersions \in Nat
  BY ForwardParams DEF ForwardInv
<1>2. Upstream(version, replaced, sec)
  BY Zenon DEF ForwardInv
<1>3. \A n \in Name, v \in 0..MaxVersions : replaced[<<n, v>>] \in Int /\ replaced[<<n, v>>] <= sec
  BY <1>2 DEF Upstream
<1>4. \A n \in Name : version[n] \in 0..MaxVersions /\ version[n] >= version[n]
  BY <1>1, <1>2 DEF Upstream
<1>5. \A n \in Name : replaced[<<n, version[n]>>] < 0
  BY <1>2, <1>4, Zenon DEF Upstream
<1> QED
  BY <1>1, <1>3, <1>4, <1>5

\* One query moves on.
LEMMA QueryMoves ==
  ASSUME NEW qu, NEW s, NEW rep, NEW blk, QueriesOk(qu, s, rep, blk), NEW h \in Handler,
         NEW v \in Queries, QueryOk(v, s, rep, blk)
  PROVE  QueriesOk([qu EXCEPT ![h] = v], s, rep, blk)
<1>1. PICK wu : wu = [qu EXCEPT ![h] = v]
  OBVIOUS
<1>2. qu \in [Handler -> Queries]
  BY Zenon DEF QueriesOk
<1>3. wu \in [Handler -> Queries] /\ wu[h] = v /\ \A k \in Handler \ {h} : wu[k] = qu[k]
  BY <1>1, <1>2
<1>4. QueriesOk(wu, s, rep, blk)
  BY <1>3, Zenon DEF QueriesOk
<1> QED
  BY <1>1, <1>4, Zenon

\* A step of a handler that changes its query, the cache and the buckets at most.
LEMMA HandlerKeeps ==
  ASSUME ForwardInv, NEW h \in Handler, NEW v \in Queries, QueryOk(v, sec, replaced, blockSet),
         query' = [query EXCEPT ![h] = v],
         CacheSound(lruCache', sec, replaced), Len(lruCache') <= CacheMax, BucketsOk(bucket', allowed', sec),
         UNCHANGED <<sec, version, replaced, blockSet, conns, closing>>
  PROVE  ForwardInv'
<1>1. sec' = sec /\ version' = version /\ replaced' = replaced /\ blockSet' = blockSet /\ conns' = conns /\ closing' = closing
  OBVIOUS
<1>2. PICK qu, s, rep, blk : qu = query /\ s = sec /\ rep = replaced /\ blk = blockSet
  OBVIOUS
<1>3. QueriesOk(qu, s, rep, blk) /\ QueryOk(v, s, rep, blk)
  BY <1>2, Zenon DEF ForwardInv
<1>4. QueriesOk([qu EXCEPT ![h] = v], s, rep, blk)
  BY <1>3, QueryMoves, Zenon
<1>5. QueriesOk(query', sec', replaced', blockSet')
  BY <1>1, <1>2, <1>4, Zenon
<1>6. CloseEndsAll'
  <2>1. CloseEndsAll
    BY Zenon DEF ForwardInv
  <2>2. closing => \A c \in TcpConn : conns[c] # "open"
    BY <2>1 DEF CloseEndsAll
  <2>3. closing' => \A c \in TcpConn : conns'[c] # "open"
    BY <1>1, <2>2
  <2> QED
    BY <2>3 DEF CloseEndsAll
<1> QED
  BY <1>1, <1>5, <1>6, Zenon DEF ForwardInv

\* A query that has been answered or given up.
LEMMA NoQueryOk ==
  ASSUME NEW s, NEW rep, NEW blk PROVE NoQuery \in Queries /\ QueryOk(NoQuery, s, rep, blk)
<1>1. NoQuery.pc = "idle" /\ NoQuery \in Queries
  BY DEF NoQuery, Queries
<1>2. "idle" \notin {"limit", "look", "hit", "ask", "put"} /\ "idle" # "put" /\ "idle" # "hit"
  OBVIOUS
<1> QED
  BY <1>1, <1>2, Zenon DEF QueryOk

\* A query that is asking.
LEMMA AskingQuery ==
  ASSUME ForwardInv, NEW h \in Handler, query[h].pc \in {"limit", "look", "ask"}
  PROVE  query[h] \in Asking /\ QueryOk(query[h], sec, replaced, blockSet) /\ query[h].t0 <= sec
<1>1. query[h] \in Queries /\ QueryOk(query[h], sec, replaced, blockSet)
  BY Zenon DEF ForwardInv, QueriesOk
<1>2. \A q \in Queries : q.pc \in {"limit", "look", "ask"} => q \in Asking
  BY DEF Queries, NoQuery, Putting, Hitting
<1>3. query[h].pc # "idle"
  OBVIOUS
<1> QED
  BY <1>1, <1>2, <1>3, Zenon DEF QueryOk

\* serveUDP.
LEMMA ReceiveKeeps == ASSUME ForwardInv, NEW h \in Handler, Receive(h) PROVE ForwardInv'
<1>1. PICK c \in Client, n \in Name :
        /\ query' = [query EXCEPT ![h] = [pc |-> "limit", c |-> c, n |-> n, t0 |-> sec, cut |-> Blocks(c, n)]]
        /\ UNCHANGED <<sec, version, replaced, lruCache, bucket, allowed, blockSet, conns, closing>>
  BY Zenon DEF Receive
<1>2. PICK v : v = [pc |-> "limit", c |-> c, n |-> n, t0 |-> sec, cut |-> Blocks(c, n)]
  OBVIOUS
<1>3. sec \in 0..MaxSec /\ sec <= sec /\ Blocks(c, n) \in BOOLEAN
  BY ForwardTimes DEF Blocks
<1>4. v \in Asking /\ v.pc = "limit" /\ v.c = c /\ v.n = n /\ v.t0 = sec /\ v.cut = Blocks(c, n)
  BY <1>1, <1>2, <1>3 DEF Asking
<1>5. "limit" \notin {"hit", "ask", "put"} /\ "limit" # "put" /\ "limit" # "hit"
  OBVIOUS
<1>6. QueryOk(v, sec, replaced, blockSet)
  BY <1>3, <1>4, <1>5, Zenon DEF QueryOk, Blocks
<1>7. v \in Queries
  BY <1>4 DEF Queries
<1>8. lruCache' = lruCache /\ bucket' = bucket /\ allowed' = allowed
      /\ UNCHANGED <<sec, version, replaced, blockSet, conns, closing>>
  BY <1>1
<1>9. query' = [query EXCEPT ![h] = v]
  BY <1>1, <1>2, Zenon
<1>10. CacheSound(lruCache', sec, replaced) /\ Len(lruCache') <= CacheMax /\ BucketsOk(bucket', allowed', sec)
  BY <1>8, Zenon DEF ForwardInv
<1> QED
  BY <1>6, <1>7, <1>8, <1>9, <1>10, HandlerKeeps, Zenon

\* The query when its place changes from one question to the next.
LEMMA AskingMoves ==
  ASSUME NEW q \in Asking, NEW s, NEW rep, NEW blk, QueryOk(q, s, rep, blk), NEW p \in {"look", "ask"},
         p = "look" => q.pc = "limit", p = "ask" => q.pc = "look" /\ <<q.c, q.n>> \notin blk
  PROVE  [q EXCEPT !.pc = p] \in Queries /\ QueryOk([q EXCEPT !.pc = p], s, rep, blk)
<1>1. PICK v : v = [q EXCEPT !.pc = p]
  OBVIOUS
<1>2. v \in Asking /\ v.pc = p /\ v.c = q.c /\ v.n = q.n /\ v.t0 = q.t0 /\ v.cut = q.cut
  BY <1>1 DEF Asking
<1>3. v \in Queries
  BY <1>2 DEF Queries
<1>4. q.pc # "idle" /\ q.pc \in {"limit", "look"} /\ p # "put" /\ p # "hit" /\ (p \in {"hit", "ask", "put"} => p = "ask")
      /\ (p \in {"limit", "look"} => p = "look")
  OBVIOUS
<1>5. QueryOk(v, s, rep, blk)
  BY <1>2, <1>4, Zenon DEF QueryOk
<1> QED
  BY <1>1, <1>3, <1>5, Zenon

\* A bucket that is dropped.
LEMMA NoBucketOk ==
  ASSUME NEW a, NEW s PROVE NoBucket \in BucketSet /\ BucketOk(NoBucket, a, s)
<1>1. NoBucket \in BucketSet /\ NoBucket.last = -1 /\ ~(-1 >= 0)
  BY DEF NoBucket, BucketSet
<1> QED
  BY <1>1, Zenon DEF BucketOk

\* The bucket of the client of a query of time t, after the refill and the query: b is
\* the bucket that is found, or a full one of time t.
LEMMA BucketStep ==
  ASSUME NEW b \in BucketSet, NEW a \in AllowedSet, NEW s \in Nat, NEW t \in Nat, t <= s, b.last >= 0,
         BucketOk(b, a, s), NEW f, f = Refill(b, t)
  PROVE  /\ f \in BucketSet /\ BucketOk(f, a, s)
         /\ f.tok >= 1 => /\ [f EXCEPT !.tok = @ - 1] \in BucketSet
                          /\ BucketOk([f EXCEPT !.tok = @ - 1], [n |-> a.n + 1, since |-> a.since], s)
<1>0. /\ b.tok \in Int /\ b.last \in Int /\ a.n \in Nat /\ a.since \in Nat /\ Burst \in Nat /\ RatePerSec \in Nat
  BY ForwardParams DEF BucketSet, AllowedSet
<1>1. PICK g : g = b.tok + (t - b.last) * RatePerSec
  OBVIOUS
<1>2. g = b.tok + Refilled(t - b.last) /\ g \in Int
  BY <1>0, <1>1 DEF Refilled
<1>3. f = [tok |-> IF g > Burst THEN Burst ELSE g, last |-> t]
  BY <1>1 DEF Refill
<1>4. f \in BucketSet /\ f.last = t /\ f.tok <= g /\ f.tok \in Int
  BY <1>0, <1>2, <1>3 DEF BucketSet
<1>5. b.tok + a.n <= Burst + Refilled(b.last - a.since) /\ a.n <= Burst + Refilled(s - a.since) /\ a.since <= s
  BY Zenon DEF BucketOk
<1>6. /\ Refilled(b.last - a.since) \in Int /\ Refilled(t - b.last) \in Int /\ Refilled(t - a.since) \in Int
      /\ Refilled(s - a.since) \in Int
      /\ Refilled(t - a.since) = Refilled(b.last - a.since) + Refilled(t - b.last)
      /\ Refilled(t - a.since) <= Refilled(s - a.since)
  <2>1. /\ b.last - a.since \in Int /\ t - b.last \in Int /\ t - a.since \in Int /\ s - a.since \in Int
        /\ (b.last - a.since) + (t - b.last) = t - a.since /\ t - a.since <= s - a.since
    BY <1>0
  <2> QED
    BY <2>1, RefillGrows, Zenon
<1>7. f.tok + a.n <= Burst + Refilled(t - a.since)
  BY <1>0, <1>2, <1>4, <1>5, <1>6
<1>8. BucketOk(f, a, s)
  BY <1>4, <1>5, <1>7, Zenon DEF BucketOk
<1>9. ASSUME f.tok >= 1
      PROVE  /\ [f EXCEPT !.tok = @ - 1] \in BucketSet
             /\ BucketOk([f EXCEPT !.tok = @ - 1], [n |-> a.n + 1, since |-> a.since], s)
  <2>1. PICK d, m : d = [f EXCEPT !.tok = @ - 1] /\ m = [n |-> a.n + 1, since |-> a.since]
    OBVIOUS
  <2>2. d \in BucketSet /\ d.last = t /\ d.tok = f.tok - 1
    BY <1>4, <2>1 DEF BucketSet
  <2>3. m.n = a.n + 1 /\ m.since = a.since
    BY <2>1
  <2>4. d.tok + m.n <= Burst + Refilled(t - a.since)
    BY <1>0, <1>4, <1>6, <1>7, <2>2, <2>3
  <2>5. m.n <= Burst + Refilled(s - a.since)
    BY <1>0, <1>4, <1>6, <1>7, <1>9, <2>3
  <2>6. BucketOk(d, m, s)
    BY <1>5, <2>2, <2>3, <2>4, <2>5, Zenon DEF BucketOk
  <2> QED
    BY <2>1, <2>2, <2>6, Zenon
<1> QED
  BY <1>4, <1>8, <1>9, Zenon

\* A full bucket.
LEMMA FullBucket ==
  ASSUME NEW s \in Nat, NEW t \in Nat, t <= s
  PROVE  /\ [tok |-> Burst, last |-> t] \in BucketSet /\ [n |-> 0, since |-> t] \in AllowedSet
         /\ [tok |-> Burst, last |-> t].last >= 0
         /\ BucketOk([tok |-> Burst, last |-> t], [n |-> 0, since |-> t], s)
<1>0. Burst \in Nat
  BY ForwardParams
<1>1. PICK b, a : b = [tok |-> Burst, last |-> t] /\ a = [n |-> 0, since |-> t]
  OBVIOUS
<1>2. b \in BucketSet /\ a \in AllowedSet /\ b.tok = Burst /\ b.last = t /\ a.n = 0 /\ a.since = t /\ t >= 0
  BY <1>0, <1>1 DEF BucketSet, AllowedSet
<1>3. Refilled(t - t) = 0 /\ Refilled(s - t) \in Int /\ Refilled(s - t) >= 0
  <2>1. t - t = 0 /\ s - t \in Int /\ 0 <= s - t /\ 0 \in Int
    OBVIOUS
  <2>2. Refilled(0) <= Refilled(s - t) /\ Refilled(0) = 0 /\ Refilled(s - t) \in Int
    BY <2>1, RefillGrows, Zenon
  <2> QED
    BY <2>1, <2>2
<1>4. Burst + 0 <= Burst + 0 /\ 0 <= Burst + Refilled(s - t)
  BY <1>0, <1>3
<1>5. BucketOk(b, a, s)
  BY <1>2, <1>3, <1>4, Zenon DEF BucketOk
<1> QED
  BY <1>1, <1>2, <1>5, Zenon

\* The buckets when some are dropped and one is set.
LEMMA BucketsStep ==
  ASSUME NEW bu, NEW al, NEW s, BucketsOk(bu, al, s), NEW V, NEW c \in Client,
         NEW f \in BucketSet, NEW m \in AllowedSet, BucketOk(f, m, s)
  PROVE  /\ BucketsOk([d \in Client |-> IF d \in V THEN NoBucket ELSE bu[d]], al, s)
         /\ BucketsOk([[d \in Client |-> IF d \in V THEN NoBucket ELSE bu[d]] EXCEPT ![c] = f],
                      [al EXCEPT ![c] = m], s)
<1>1. bu \in [Client -> BucketSet] /\ al \in [Client -> AllowedSet] /\ \A d \in Client : BucketOk(bu[d], al[d], s)
  BY Zenon DEF BucketsOk
<1>2. PICK N, ku, wu, ml : /\ N = NoBucket /\ ku = [d \in Client |-> IF d \in V THEN N ELSE bu[d]]
                           /\ wu = [ku EXCEPT ![c] = f] /\ ml = [al EXCEPT ![c] = m]
  OBVIOUS
<1>3. N \in BucketSet /\ \A d \in Client : BucketOk(N, al[d], s)
  BY <1>2, NoBucketOk, Zenon
<1>4. ku \in [Client -> BucketSet]
  BY <1>1, <1>2, <1>3
<1>5. \A d \in Client : BucketOk(ku[d], al[d], s)
  BY <1>1, <1>2, <1>3, Zenon
<1>6. /\ wu \in [Client -> BucketSet] /\ ml \in [Client -> AllowedSet] /\ wu[c] = f /\ ml[c] = m
      /\ \A d \in Client \ {c} : wu[d] = ku[d] /\ ml[d] = al[d]
  BY <1>1, <1>2, <1>4
<1>7. \A d \in Client : BucketOk(wu[d], ml[d], s)
  BY <1>5, <1>6, Zenon
<1>8. BucketsOk(ku, al, s) /\ BucketsOk(wu, ml, s)
  BY <1>1, <1>4, <1>5, <1>6, <1>7, Zenon DEF BucketsOk
<1> QED
  BY <1>2, <1>8, Zenon

\* dnsRateLimiter.allow.
LEMMA AllowKeeps == ASSUME ForwardInv, NEW h \in Handler, Allow(h) PROVE ForwardInv'
<1>1. PICK q, c, t, V, new, b, f, pass, a, m, g, bu, al, s :
        /\ q = query[h] /\ c = q.c /\ t = q.t0 /\ bu = bucket /\ al = allowed /\ s = sec
        /\ V = (IF bucket[c].last < 0 /\ Cardinality(Buckets) >= MaxClients THEN Idle60(t) ELSE {})
        /\ new = (bu[c].last < 0)
        /\ b = (IF new THEN [tok |-> Burst, last |-> t] ELSE bu[c])
        /\ f = Refill(b, t) /\ pass = (f.tok >= 1)
        /\ a = (IF new THEN [n |-> 0, since |-> t] ELSE al[c])
        /\ g = (IF pass THEN [f EXCEPT !.tok = @ - 1] ELSE f)
        /\ m = [n |-> a.n + (IF pass THEN 1 ELSE 0), since |-> a.since]
  BY ZenonT(30)
<1>2. query[h].pc = "limit" /\ UNCHANGED <<sec, version, replaced, lruCache, blockSet, conns, closing>>
  BY DEF Allow
<1>3. q \in Asking /\ QueryOk(q, sec, replaced, blockSet) /\ t <= s /\ q.pc = "limit"
  <2>1. query[h].pc \in {"limit", "look", "ask"}
    BY <1>2
  <2> QED
    BY <1>1, <1>2, <2>1, AskingQuery, Zenon
<1>4. c \in Client /\ t \in Nat /\ s \in Nat
  <2>1. q.c \in Client /\ q.t0 \in Nat
    BY <1>3, ForwardParams DEF Asking
  <2> QED
    BY <1>1, <2>1, ForwardTimes, Zenon
<1>5. BucketsOk(bu, al, s)
  BY <1>1, Zenon DEF ForwardInv
<1>6. bu[c] \in BucketSet /\ al[c] \in AllowedSet /\ BucketOk(bu[c], al[c], s) /\ al \in [Client -> AllowedSet]
  BY <1>4, <1>5, Zenon DEF BucketsOk
<1>7. b \in BucketSet /\ a \in AllowedSet /\ b.last >= 0 /\ BucketOk(b, a, s)
  <2>1. CASE new
    BY <1>1, <1>3, <1>4, <2>1, FullBucket, Zenon
  <2>2. CASE ~new
    <3>1. b = bu[c] /\ a = al[c] /\ ~(bu[c].last < 0)
      BY <1>1, <2>2, Zenon
    <3>2. bu[c].last >= 0
      BY <1>6, <3>1 DEF BucketSet
    <3> QED
      BY <1>6, <3>1, <3>2, Zenon
  <2> QED
    BY <2>1, <2>2
<1>8. /\ f \in BucketSet /\ BucketOk(f, a, s)
      /\ f.tok >= 1 => /\ [f EXCEPT !.tok = @ - 1] \in BucketSet
                       /\ BucketOk([f EXCEPT !.tok = @ - 1], [n |-> a.n + 1, since |-> a.since], s)
  <2>1. f = Refill(b, t)
    BY <1>1
  <2> QED
    BY <1>3, <1>4, <1>7, <2>1, BucketStep
<1>9. g \in BucketSet /\ m \in AllowedSet /\ BucketOk(g, m, s)
  <2>0. a.n \in Nat /\ a.since \in Nat /\ a = [n |-> a.n, since |-> a.since] /\ a.n + 0 = a.n
    BY <1>7 DEF AllowedSet
  <2>1. CASE pass
    <3>1. f.tok >= 1 /\ g = [f EXCEPT !.tok = @ - 1] /\ m = [n |-> a.n + 1, since |-> a.since]
      BY <1>1, <2>1, Zenon
    <3>2. m \in AllowedSet
      BY <2>0, <3>1 DEF AllowedSet
    <3> QED
      BY <1>8, <3>1, <3>2, Zenon
  <2>2. CASE ~pass
    <3>1. g = f /\ m = [n |-> a.n + 0, since |-> a.since]
      BY <1>1, <2>2, Zenon
    <3>2. m = a
      BY <2>0, <3>1, Zenon
    <3> QED
      BY <1>7, <1>8, <3>1, <3>2, Zenon
  <2> QED
    BY <2>1, <2>2
<1>10. PICK ku : ku = [d \in Client |-> IF d \in V THEN NoBucket ELSE bu[d]]
  OBVIOUS
<1>11. BucketsOk(ku, al, s) /\ BucketsOk([ku EXCEPT ![c] = g], [al EXCEPT ![c] = m], s)
  BY <1>4, <1>5, <1>9, <1>10, BucketsStep, Zenon
<1>12. \/ query' = [query EXCEPT ![h] = [q EXCEPT !.pc = "look"]]
       \/ query' = [query EXCEPT ![h] = NoQuery]
  BY <1>1 DEF Allow
<1>13. \/ bucket' = ku /\ allowed' = al
       \/ bucket' = [ku EXCEPT ![c] = g] /\ allowed' = [al EXCEPT ![c] = m]
  <2>1. \/ bucket' = ku /\ allowed' = allowed
        \/ /\ bucket' = [ku EXCEPT ![c] = g]
           /\ allowed' = [allowed EXCEPT ![c] = [n |-> (IF new THEN 0 ELSE @.n) + (IF pass THEN 1 ELSE 0),
                                                 since |-> IF new THEN t ELSE @.since]]
    BY <1>1, <1>10 DEF Allow
  <2>2. m = [n |-> (IF new THEN 0 ELSE al[c].n) + (IF pass THEN 1 ELSE 0), since |-> IF new THEN t ELSE al[c].since]
    <3>1. CASE new
      <4>1. a = [n |-> 0, since |-> t]
        BY <1>1, <3>1, Zenon
      <4>2. a.n = 0 /\ a.since = t
        BY <4>1
      <4> QED
        BY <1>1, <3>1, <4>2, Zenon
    <3>2. CASE ~new
      BY <1>1, <3>2, Zenon
    <3> QED
      BY <3>1, <3>2
  <2>3. [allowed EXCEPT ![c] = [n |-> (IF new THEN 0 ELSE @.n) + (IF pass THEN 1 ELSE 0),
                                since |-> IF new THEN t ELSE @.since]]
        = [al EXCEPT ![c] = [n |-> (IF new THEN 0 ELSE al[c].n) + (IF pass THEN 1 ELSE 0),
                             since |-> IF new THEN t ELSE al[c].since]]
    BY <1>1
  <2> QED
    BY <1>1, <2>1, <2>2, <2>3, Zenon
<1>14. BucketsOk(bucket', allowed', sec)
  BY <1>1, <1>11, <1>13, Zenon
<1>15. lruCache' = lruCache /\ UNCHANGED <<sec, version, replaced, blockSet, conns, closing>>
  BY <1>2
<1>16. CacheSound(lruCache', sec, replaced) /\ Len(lruCache') <= CacheMax
  BY <1>15, Zenon DEF ForwardInv
<1>17. CASE query' = [query EXCEPT ![h] = NoQuery]
  <2>1. NoQuery \in Queries /\ QueryOk(NoQuery, sec, replaced, blockSet)
    <3>1. PICK rep, blk : rep = replaced /\ blk = blockSet
      OBVIOUS
    <3>2. NoQuery \in Queries /\ QueryOk(NoQuery, s, rep, blk)
      BY NoQueryOk, Zenon
    <3> QED
      BY <1>1, <3>1, <3>2, Zenon
  <2> QED
    BY <1>14, <1>15, <1>16, <1>17, <2>1, HandlerKeeps, Zenon
<1>18. CASE query' = [query EXCEPT ![h] = [q EXCEPT !.pc = "look"]]
  <2>1. PICK rep, blk, p : rep = replaced /\ blk = blockSet /\ p = "look"
    OBVIOUS
  <2>2. "look" # "ask"
    OBVIOUS
  <2>3. [q EXCEPT !.pc = p] \in Queries /\ QueryOk([q EXCEPT !.pc = p], s, rep, blk)
    BY <1>1, <1>3, <2>1, <2>2, AskingMoves, Zenon
  <2>4. PICK v : v = [q EXCEPT !.pc = "look"]
    OBVIOUS
  <2>5. v \in Queries /\ QueryOk(v, sec, replaced, blockSet) /\ query' = [query EXCEPT ![h] = v]
    BY <1>1, <1>18, <2>1, <2>3, <2>4, Zenon
  <2> QED
    BY <1>14, <1>15, <1>16, <2>5, HandlerKeeps, Zenon
<1> QED
  BY <1>12, <1>17, <1>18

\* The cache without the entry of a name.
LEMMA OthersSound ==
  ASSUME ForwardInv, NEW n
  PROVE  /\ CacheSound(OthersThan(n), sec, replaced) /\ Len(OthersThan(n)) <= Len(lruCache)
         /\ \A k \in 1..Len(OthersThan(n)) : OthersThan(n)[k].n # n
         /\ Cached(n) # {} => /\ CachedAt(n) \in 1..Len(lruCache) /\ lruCache[CachedAt(n)].n = n
                              /\ Len(OthersThan(n)) = Len(lruCache) - 1
<1>1. PICK q, s, rep : q = lruCache /\ s = sec /\ rep = replaced
  OBVIOUS
<1>2. CacheSound(q, s, rep) /\ q \in Seq(CacheEnt) /\ Len(q) \in Nat /\ DOMAIN q = 1..Len(q)
  <2>1. CacheSound(q, s, rep) /\ q \in Seq(CacheEnt)
    BY <1>1, Zenon DEF ForwardInv, CacheSound
  <2> QED
    BY <2>1
<1>3. CASE Cached(n) = {}
  <2>1. OthersThan(n) = q
    BY <1>1, <1>3, Zenon DEF OthersThan
  <2>2. \A k \in 1..Len(q) : q[k].n # n
    BY <1>1, <1>2, <1>3, Zenon DEF Cached
  <2>3. Len(q) <= Len(q)
    BY <1>2
  <2> QED
    BY <1>1, <1>2, <1>3, <2>1, <2>2, <2>3, Zenon
<1>4. CASE Cached(n) # {}
  <2>1. PICK i : i = CachedAt(n)
    OBVIOUS
  <2>2. i \in Cached(n)
    BY <1>4, <2>1, Zenon DEF CachedAt
  <2>3. i \in 1..Len(q) /\ q[i].n = n
    BY <1>1, <1>2, <2>2, Zenon DEF Cached
  <2>4. OthersThan(n) = RemoveAt(q, i)
    BY <1>1, <1>4, <2>1, Zenon DEF OthersThan
  <2>5. /\ CacheSound(RemoveAt(q, i), s, rep) /\ Len(RemoveAt(q, i)) = Len(q) - 1
        /\ \A k \in 1..Len(RemoveAt(q, i)) : RemoveAt(q, i)[k].n # q[i].n
    BY <1>2, <2>3, CacheRemoves, Zenon
  <2>6. Len(q) - 1 <= Len(q)
    BY <1>2
  <2> QED
    BY <1>1, <2>1, <2>3, <2>4, <2>5, <2>6, Zenon
<1> QED
  BY <1>3, <1>4

\* What a hit gives away: an entry that is not older than TTL has as much left as keeps
\* it within the TTL of the time its record was replaced.
LEMMA HitOk ==
  ASSUME NEW q \in Asking, NEW e \in CacheEnt, NEW s \in Nat, NEW rep, NEW blk,
         EntOk(e, s, rep), QueryOk(q, s, rep, blk), q.pc = "look", <<q.c, q.n>> \notin blk, q.n = e.n,
         rep[<<e.n, e.v>>] \in Int, ~(q.t0 >= e.stored + TTL),
         NEW v, v = [pc |-> "hit", n |-> q.n, v |-> e.v, t0 |-> q.t0, left |-> Left(e, q.t0), cut |-> q.cut]
  PROVE  v \in Queries /\ QueryOk(v, s, rep, blk)
<1>0. /\ TTL \in Nat /\ MaxSec \in Nat /\ q.t0 \in 0..MaxSec /\ e.stored \in 0..MaxSec /\ e.v \in 0..MaxVersions
      /\ q.n \in Name /\ q.cut \in BOOLEAN
  BY ForwardParams DEF Asking, CacheEnt
<1>1. Left(e, q.t0) \in 0..TTL /\ (rep[<<e.n, e.v>>] >= 0 => q.t0 + Left(e, q.t0) <= rep[<<e.n, e.v>>] + TTL)
  <2>1. PICK r : r = rep[<<e.n, e.v>>]
    OBVIOUS
  <2>2. r \in Int /\ (r >= 0 => e.stored <= r)
    BY <2>1, Zenon DEF EntOk
  <2>3. Left(e, q.t0) = IF q.t0 < e.stored THEN 0 ELSE TTL - (q.t0 - e.stored)
    BY DEF Left
  <2>4. Left(e, q.t0) \in 0..TTL /\ (r >= 0 => q.t0 + Left(e, q.t0) <= r + TTL)
    BY <1>0, <2>2, <2>3
  <2> QED
    BY <2>1, <2>4, Zenon
<1>2. ~q.cut /\ q.t0 <= s
  <2>1. q.pc \in {"limit", "look"} /\ q.pc # "idle"
    OBVIOUS
  <2> QED
    BY <2>1, Zenon DEF QueryOk
<1>3. Left(e, q.t0) \in Int
  BY <1>0, <1>1
<1>4. /\ v \in Hitting /\ v.pc = "hit" /\ v.n = e.n /\ v.v = e.v /\ v.t0 = q.t0 /\ v.left = Left(e, q.t0)
      /\ v.cut = q.cut
  BY <1>0, <1>3 DEF Hitting
<1>5. v \in Queries
  BY <1>4 DEF Queries
<1>6. "hit" \notin {"limit", "look"} /\ "hit" # "put"
  OBVIOUS
<1>7. QueryOk(v, s, rep, blk)
  BY <1>1, <1>2, <1>4, <1>6, Zenon DEF QueryOk
<1> QED
  BY <1>5, <1>7

\* The block list and the cache.
LEMMA LookKeeps == ASSUME ForwardInv, NEW h \in Handler, Look(h) PROVE ForwardInv'
<1>1. PICK q, s, rep, blk, n, w : /\ q = query[h] /\ s = sec /\ rep = replaced /\ blk = blockSet /\ n = q.n
                                  /\ w = OthersThan(n)
  OBVIOUS
<1>2. /\ q.pc = "look" /\ UNCHANGED <<sec, version, replaced, blockSet, conns, closing>>
      /\ bucket' = bucket /\ allowed' = allowed
  BY <1>1 DEF Look
<1>3. q \in Asking /\ QueryOk(q, s, rep, blk)
  <2>1. query[h].pc \in {"limit", "look", "ask"}
    BY <1>1, <1>2
  <2> QED
    BY <1>1, <2>1, AskingQuery, Zenon
<1>4. /\ CacheSound(w, s, rep) /\ Len(w) <= Len(lruCache) /\ \A k \in 1..Len(w) : w[k].n # n
      /\ Cached(n) # {} => /\ CachedAt(n) \in 1..Len(lruCache) /\ lruCache[CachedAt(n)].n = n
                           /\ Len(w) = Len(lruCache) - 1
  BY <1>1, OthersSound, Zenon
<1>5. BucketsOk(bucket', allowed', sec)
  BY <1>2, Zenon DEF ForwardInv
<1>6. lruCache \in Seq(CacheEnt) /\ Len(lruCache) \in Nat /\ Len(lruCache) <= CacheMax /\ Len(w) \in Nat /\ CacheMax \in Nat
  <2>1. lruCache \in Seq(CacheEnt) /\ Len(lruCache) <= CacheMax /\ w \in Seq(CacheEnt)
    BY <1>4, Zenon DEF ForwardInv, CacheSound
  <2> QED
    BY <2>1, ForwardParams
<1>7. CacheSound(lruCache, s, rep)
  BY <1>1, Zenon DEF ForwardInv
<1>8. CASE Refuses(h)
  <2>1. query' = [query EXCEPT ![h] = NoQuery] /\ lruCache' = lruCache
    BY <1>8, Zenon DEF Look
  <2>2. NoQuery \in Queries /\ QueryOk(NoQuery, s, rep, blk)
    BY NoQueryOk, Zenon
  <2> QED
    BY <1>1, <1>2, <1>5, <1>6, <1>7, <2>1, <2>2, HandlerKeeps, Zenon
<1>9. CASE ~Refuses(h)
  <2>0. <<q.c, q.n>> \notin blk
    BY <1>1, <1>9, Zenon DEF Refuses, Blocks
  <2>1. ASSUME query' = [query EXCEPT ![h].pc = "ask"], lruCache' = lruCache \/ lruCache' = w
        PROVE  ForwardInv'
    <3>1. PICK v, p : p = "ask" /\ v = [q EXCEPT !.pc = p]
      OBVIOUS
    <3>2. p \in {"look", "ask"} /\ p # "look" /\ p = "ask"
      BY <3>1
    <3>3. v \in Queries /\ QueryOk(v, s, rep, blk)
      BY <1>2, <1>3, <2>0, <3>1, <3>2, AskingMoves, Zenon
    <3>4. query' = [query EXCEPT ![h] = v]
      BY <1>1, <2>1, <3>1
    <3>5. CacheSound(lruCache', s, rep) /\ Len(lruCache') <= CacheMax
      <4>1. Len(w) <= CacheMax
        BY <1>4, <1>6
      <4> QED
        BY <1>4, <1>6, <1>7, <2>1, <4>1, Zenon
    <3> QED
      BY <1>1, <1>2, <1>5, <3>3, <3>4, <3>5, HandlerKeeps, Zenon
  <2>2. CASE Cached(n) = {}
    BY <1>1, <1>9, <2>1, <2>2, Zenon DEF Look
  <2>3. CASE Cached(n) # {}
    <3>1. PICK e : e = lruCache[CachedAt(n)]
      OBVIOUS
    <3>2. e \in CacheEnt /\ EntOk(e, s, rep) /\ e.n = n
      BY <1>4, <1>6, <1>7, <2>3, <3>1 DEF CacheSound
    <3>3. CASE q.t0 >= e.stored + TTL
      <4>1. query' = [query EXCEPT ![h].pc = "ask"] /\ lruCache' = w
        BY <1>1, <1>9, <2>3, <3>1, <3>3, Zenon DEF Look
      <4> QED
        BY <2>1, <4>1, Zenon
    <3>4. CASE ~(q.t0 >= e.stored + TTL)
      <4>1. PICK v : v = [pc |-> "hit", n |-> q.n, v |-> e.v, t0 |-> q.t0, left |-> Left(e, q.t0), cut |-> q.cut]
        OBVIOUS
      <4>2. query' = [query EXCEPT ![h] = v] /\ lruCache' = <<e>> \o w
        BY <1>1, <1>9, <2>3, <3>1, <3>4, <4>1, Zenon DEF Look
      <4>3. s \in Nat /\ rep[<<e.n, e.v>>] \in Int
        <5>1. e.n \in Name /\ e.v \in 0..MaxVersions
          BY <3>2 DEF CacheEnt
        <5> QED
          BY <1>1, <5>1, ForwardTimes, Zenon
      <4>4. v \in Queries /\ QueryOk(v, s, rep, blk)
        <5>1. q.n = e.n
          BY <1>1, <3>2, Zenon
        <5> QED
          BY <1>2, <1>3, <2>0, <3>2, <3>4, <4>1, <4>3, <5>1, HitOk, Zenon
      <4>5. CacheSound(<<e>> \o w, s, rep) /\ Len(<<e>> \o w) = Len(w) + 1
        <5>1. \A k \in 1..Len(w) : w[k].n # e.n
          BY <1>4, <3>2, Zenon
        <5> QED
          BY <1>4, <3>2, <5>1, CacheFront, Zenon
      <4>6. CacheSound(lruCache', s, rep) /\ Len(lruCache') <= CacheMax
        <5>1. Len(w) + 1 <= CacheMax
          BY <1>4, <1>6, <2>3
        <5> QED
          BY <4>2, <4>5, <5>1, Zenon
      <4> QED
        BY <1>1, <1>2, <1>5, <4>2, <4>4, <4>6, HandlerKeeps, Zenon
    <3> QED
      BY <3>3, <3>4
  <2> QED
    BY <2>2, <2>3
<1> QED
  BY <1>8, <1>9

\* exchange.
LEMMA ExchangeKeeps == ASSUME ForwardInv, NEW h \in Handler, Exchange(h) PROVE ForwardInv'
<1>1. PICK q, s, rep, blk, v :
        /\ q = query[h] /\ s = sec /\ rep = replaced /\ blk = blockSet
        /\ v = [pc |-> "put", n |-> q.n, t0 |-> q.t0, v |-> version[q.n], cut |-> q.cut]
  OBVIOUS
<1>2. /\ q.pc = "ask" /\ UNCHANGED <<sec, version, replaced, blockSet, conns, closing>>
      /\ bucket' = bucket /\ allowed' = allowed /\ lruCache' = lruCache
  BY <1>1 DEF Exchange
<1>3. q \in Asking /\ QueryOk(q, s, rep, blk)
  <2>1. query[h].pc \in {"limit", "look", "ask"}
    BY <1>1, <1>2
  <2> QED
    BY <1>1, <2>1, AskingQuery, Zenon
<1>4. BucketsOk(bucket', allowed', sec) /\ CacheSound(lruCache', sec, replaced) /\ Len(lruCache') <= CacheMax
  BY <1>2, Zenon DEF ForwardInv
<1>5. query' = [query EXCEPT ![h] = v] \/ query' = [query EXCEPT ![h] = NoQuery]
  BY <1>1 DEF Exchange
<1>6. CASE query' = [query EXCEPT ![h] = NoQuery]
  <2>1. NoQuery \in Queries /\ QueryOk(NoQuery, s, rep, blk)
    BY NoQueryOk, Zenon
  <2> QED
    BY <1>1, <1>2, <1>4, <1>6, <2>1, HandlerKeeps, Zenon
<1>7. CASE query' = [query EXCEPT ![h] = v]
  <2>1. q.n \in Name /\ q.t0 \in 0..MaxSec /\ q.cut \in BOOLEAN
    BY <1>3 DEF Asking
  <2>2. version[q.n] \in 0..MaxVersions /\ rep[<<q.n, version[q.n]>>] < 0 /\ rep[<<q.n, version[q.n]>>] \in Int
    BY <1>1, <2>1, ForwardTimes, Zenon
  <2>3. ~(rep[<<q.n, version[q.n]>>] >= 0)
    BY <2>2
  <2>4. /\ v \in Putting /\ v.pc = "put" /\ v.n = q.n /\ v.t0 = q.t0 /\ v.v = version[q.n] /\ v.cut = q.cut
    BY <1>1, <2>1, <2>2 DEF Putting
  <2>5. v \in Queries
    BY <2>4 DEF Queries
  <2>6. "put" \notin {"limit", "look"} /\ "put" # "hit" /\ q.pc # "idle" /\ q.pc \in {"hit", "ask", "put"}
    BY <1>2
  <2>7. QueryOk(v, s, rep, blk)
    BY <1>3, <2>3, <2>4, <2>6, Zenon DEF QueryOk
  <2> QED
    BY <1>1, <1>2, <1>4, <1>7, <2>5, <2>7, HandlerKeeps, Zenon
<1> QED
  BY <1>5, <1>6, <1>7

\* dnsCache.put and the reply.
LEMMA PutAndReplyKeeps == ASSUME ForwardInv, NEW h \in Handler, PutAndReply(h) PROVE ForwardInv'
<1>1. PICK q, s, rep, blk, e, w, c, k :
        /\ q = query[h] /\ s = sec /\ rep = replaced /\ blk = blockSet /\ e = Stored(q) /\ w = OthersThan(q.n)
        /\ c = <<e>> \o w /\ k = (IF Len(c) > CacheMax THEN CacheMax ELSE Len(c))
  OBVIOUS
<1>2. /\ q.pc = "put" /\ UNCHANGED <<sec, version, replaced, blockSet, conns, closing>>
      /\ bucket' = bucket /\ allowed' = allowed /\ query' = [query EXCEPT ![h] = NoQuery]
      /\ lruCache' = SubSeq(c, 1, k)
  BY <1>1 DEF PutAndReply
<1>3. BucketsOk(bucket', allowed', sec)
  BY <1>2, Zenon DEF ForwardInv
<1>4. q \in Putting /\ QueryOk(q, s, rep, blk)
  <2>1. q \in Queries /\ QueryOk(q, s, rep, blk)
    BY <1>1, Zenon DEF ForwardInv, QueriesOk
  <2>2. q \in Putting
    BY <1>2, <2>1 DEF Queries, NoQuery, Asking, Hitting
  <2> QED
    BY <2>1, <2>2
<1>5. e \in CacheEnt /\ e.n = q.n /\ e.v = q.v /\ e.stored = q.t0
  BY <1>1, <1>4 DEF Putting, Stored, CacheEnt
<1>6. EntOk(e, s, rep)
  <2>1. q.pc # "idle"
    BY <1>2
  <2> QED
    BY <1>2, <1>4, <1>5, <2>1, Zenon DEF EntOk, QueryOk
<1>7. CacheSound(w, s, rep) /\ \A i \in 1..Len(w) : w[i].n # e.n
  <2>1. PICK n : n = q.n
    OBVIOUS
  <2>2. /\ CacheSound(OthersThan(n), sec, replaced) /\ \A i \in 1..Len(OthersThan(n)) : OthersThan(n)[i].n # n
    BY OthersSound, Zenon
  <2>3. OthersThan(n) = w
    BY <1>1, <2>1
  <2> QED
    BY <1>1, <1>5, <2>1, <2>2, <2>3, Zenon
<1>8. CacheSound(c, s, rep) /\ Len(c) = Len(w) + 1
  BY <1>1, <1>5, <1>6, <1>7, CacheFront, Zenon
<1>9. k \in Nat /\ k <= Len(c) /\ k <= CacheMax
  <2>1. c \in Seq(CacheEnt)
    BY <1>8, Zenon DEF CacheSound
  <2>2. Len(c) \in Nat /\ CacheMax \in Nat
    BY <2>1, ForwardParams
  <2> QED
    BY <1>1, <2>2
<1>10. CacheSound(SubSeq(c, 1, k), s, rep) /\ Len(SubSeq(c, 1, k)) = k
  BY <1>8, <1>9, CacheCut, Zenon
<1>11. NoQuery \in Queries /\ QueryOk(NoQuery, s, rep, blk)
  BY NoQueryOk, Zenon
<1>12. CacheSound(lruCache', sec, replaced) /\ Len(lruCache') <= CacheMax
  BY <1>1, <1>2, <1>9, <1>10
<1>13. NoQuery \in Queries /\ QueryOk(NoQuery, sec, replaced, blockSet)
  BY <1>1, <1>11, Zenon
<1> QED
  BY <1>2, <1>3, <1>12, <1>13, HandlerKeeps, Zenon

\* The reply of a hit.
LEMMA ReplyHitKeeps == ASSUME ForwardInv, NEW h \in Handler, ReplyHit(h) PROVE ForwardInv'
<1>1. /\ UNCHANGED <<sec, version, replaced, blockSet, conns, closing>>
      /\ bucket' = bucket /\ allowed' = allowed /\ query' = [query EXCEPT ![h] = NoQuery] /\ lruCache' = lruCache
  BY DEF ReplyHit
<1>2. BucketsOk(bucket', allowed', sec) /\ CacheSound(lruCache', sec, replaced) /\ Len(lruCache') <= CacheMax
  BY <1>1, Zenon DEF ForwardInv
<1>3. PICK s, rep, blk : s = sec /\ rep = replaced /\ blk = blockSet
  OBVIOUS
<1>4. NoQuery \in Queries /\ QueryOk(NoQuery, s, rep, blk)
  BY NoQueryOk, Zenon
<1> QED
  BY <1>1, <1>2, <1>3, <1>4, HandlerKeeps, Zenon

\* A query, an entry and a bucket when a second passes.
LEMMA QueryLater ==
  ASSUME NEW q \in Queries, NEW s \in Nat, NEW rep, NEW blk, QueryOk(q, s, rep, blk)
  PROVE  QueryOk(q, s + 1, rep, blk)
<1>1. ASSUME q.pc # "idle" PROVE q.t0 <= s + 1
  <2>1. q.t0 <= s
    BY <1>1, Zenon DEF QueryOk
  <2>2. q.t0 \in 0..MaxSec
    BY <1>1 DEF Queries, NoQuery, Asking, Putting, Hitting
  <2>3. MaxSec \in Nat
    BY ForwardParams
  <2> QED
    BY <2>1, <2>2, <2>3
<1> QED
  BY <1>1, Zenon DEF QueryOk
LEMMA BucketLater ==
  ASSUME NEW b \in BucketSet, NEW a \in AllowedSet, NEW s \in Nat, BucketOk(b, a, s)
  PROVE  BucketOk(b, a, s + 1)
<1> SUFFICES ASSUME b.last >= 0 PROVE BucketOk(b, a, s + 1)
  BY Zenon DEF BucketOk
<1>1. b.last \in Int /\ a.n \in Nat /\ a.since \in Nat /\ Burst \in Nat
  BY ForwardParams DEF BucketSet, AllowedSet
<1>2. /\ b.last <= s /\ a.since <= s /\ b.tok + a.n <= Burst + Refilled(b.last - a.since)
      /\ a.n <= Burst + Refilled(s - a.since)
  BY Zenon DEF BucketOk
<1>3. s - a.since \in Int /\ (s + 1) - a.since \in Int /\ s - a.since <= (s + 1) - a.since
  BY <1>1
<1>4. Refilled(s - a.since) \in Int /\ Refilled((s + 1) - a.since) \in Int
      /\ Refilled(s - a.since) <= Refilled((s + 1) - a.since)
  BY <1>3, RefillGrows, Zenon
<1>5. b.last <= s + 1 /\ a.since <= s + 1 /\ a.n <= Burst + Refilled((s + 1) - a.since)
  BY <1>1, <1>2, <1>4
<1> QED
  BY <1>2, <1>5, Zenon DEF BucketOk

\* Connections when the forwarder is open or closing.
LEMMA ConnsKeep ==
  ASSUME ForwardInv, conns' \in [TcpConn -> ConnStates], closing' \in BOOLEAN,
         closing' => \A c \in TcpConn : conns'[c] # "open",
         UNCHANGED <<sec, version, replaced, lruCache, bucket, allowed, blockSet, query>>
  PROVE  ForwardInv'
<1>1. /\ sec' = sec /\ version' = version /\ replaced' = replaced /\ lruCache' = lruCache /\ bucket' = bucket
      /\ allowed' = allowed /\ blockSet' = blockSet /\ query' = query
  OBVIOUS
<1>2. CloseEndsAll'
  BY DEF CloseEndsAll
<1> QED
  BY <1>1, <1>2, Zenon DEF ForwardInv

\* Accept, the registration, the end of a connection and Close.
LEMMA TcpKeeps == ASSUME ForwardInv, ForwardTcp \/ CloseForwarder PROVE ForwardInv'
<1>0. conns \in [TcpConn -> ConnStates] /\ closing \in BOOLEAN
  BY Zenon DEF ForwardInv
<1>00. closing => \A c \in TcpConn : conns[c] # "open"
  BY Zenon DEF ForwardInv, CloseEndsAll
<1>1. ASSUME NEW c \in TcpConn, Accept(c) PROVE ForwardInv'
  <2>1. PICK v : /\ v \in {"accepted", "none"} /\ conns' = [conns EXCEPT ![c] = v]
    BY <1>1 DEF Accept
  <2>2. ~closing /\ closing' = closing
        /\ UNCHANGED <<sec, version, replaced, lruCache, bucket, allowed, blockSet, query>>
    BY <1>1 DEF Accept
  <2>3. conns' \in [TcpConn -> ConnStates]
    BY <1>0, <2>1 DEF ConnStates
  <2> QED
    BY <1>0, <2>2, <2>3, ConnsKeep
<1>2. ASSUME NEW c \in TcpConn, Registers(c) PROVE ForwardInv'
  <2>1. PICK v : v = (IF closing THEN "none" ELSE "open") /\ conns' = [conns EXCEPT ![c] = v]
    BY <1>2 DEF Registers, Register
  <2>2. closing' = closing /\ UNCHANGED <<sec, version, replaced, lruCache, bucket, allowed, blockSet, query>>
    BY <1>2 DEF Registers
  <2>3. conns' \in [TcpConn -> ConnStates]
    BY <1>0, <2>1 DEF ConnStates
  <2>4. closing' => \A d \in TcpConn : conns'[d] # "open"
    BY <1>0, <1>00, <2>1, <2>2
  <2> QED
    BY <1>0, <2>2, <2>3, <2>4, ConnsKeep
<1>3. ASSUME NEW c \in TcpConn, ConnEnds(c) PROVE ForwardInv'
  <2>1. conns' = [conns EXCEPT ![c] = "none"]
    BY <1>3 DEF ConnEnds
  <2>2. closing' = closing /\ UNCHANGED <<sec, version, replaced, lruCache, bucket, allowed, blockSet, query>>
    BY <1>3 DEF ConnEnds
  <2>3. conns' \in [TcpConn -> ConnStates]
    BY <1>0, <2>1 DEF ConnStates
  <2>4. closing' => \A d \in TcpConn : conns'[d] # "open"
    BY <1>0, <1>00, <2>1, <2>2
  <2> QED
    BY <1>0, <2>2, <2>3, <2>4, ConnsKeep
<1>4. ASSUME CloseForwarder PROVE ForwardInv'
  <2>1. /\ conns' = [c \in TcpConn |-> IF conns[c] = "open" THEN "shut" ELSE conns[c]] /\ closing' = TRUE
        /\ UNCHANGED <<sec, version, replaced, lruCache, bucket, allowed, blockSet, query>>
    BY <1>4 DEF CloseForwarder
  <2>2. conns' \in [TcpConn -> ConnStates] /\ \A d \in TcpConn : conns'[d] # "open"
    BY <1>0, <2>1 DEF ConnStates
  <2> QED
    BY <2>1, <2>2, ConnsKeep
<1> QED
  BY <1>1, <1>2, <1>3, <1>4, Zenon DEF ForwardTcp

\* A second passes.
LEMMA ClockKeeps == ASSUME ForwardInv, SecondPasses PROVE ForwardInv'
<1>1. PICK ver, rep, cach, bu, al, blk, qu, s :
        /\ ver = version /\ rep = replaced /\ cach = lruCache /\ bu = bucket /\ al = allowed /\ blk = blockSet
        /\ qu = query /\ s = sec
  OBVIOUS
<1>2. /\ s < MaxSec /\ sec' = s + 1 /\ version' = ver /\ replaced' = rep /\ lruCache' = cach /\ bucket' = bu
      /\ allowed' = al /\ blockSet' = blk /\ query' = qu /\ conns' = conns /\ closing' = closing
  BY <1>1 DEF SecondPasses
<1>3. s \in Nat /\ s \in 0..MaxSec /\ MaxSec \in Nat /\ s + 1 \in 0..MaxSec
  <2>1. s \in Nat /\ MaxSec \in Nat /\ s \in 0..MaxSec
    BY <1>1, ForwardTimes, Zenon
  <2> QED
    BY <1>2, <2>1
<1>4. /\ Upstream(ver, rep, s) /\ CacheSound(cach, s, rep) /\ Len(cach) <= CacheMax /\ BucketsOk(bu, al, s)
      /\ QueriesOk(qu, s, rep, blk)
  BY <1>1, Zenon DEF ForwardInv
<1>5. Upstream(ver, rep, s + 1)
  <2>1. ver \in [Name -> 0..MaxVersions] /\ rep \in [Name \X (0..MaxVersions) -> Int]
    BY <1>4, Zenon DEF Upstream
  <2>2. ASSUME NEW n \in Name, NEW v \in 0..MaxVersions PROVE rep[<<n, v>>] <= s + 1
    <3>1. rep[<<n, v>>] <= s
      BY <1>4, Zenon DEF Upstream
    <3>2. rep[<<n, v>>] \in Int
      BY <2>1
    <3> QED
      BY <1>3, <3>1, <3>2
  <2> QED
    BY <1>4, <2>2, Zenon DEF Upstream
<1>6. CacheSound(cach, s + 1, rep)
  <2>0. cach \in Seq(CacheEnt)
    BY <1>4, Zenon DEF CacheSound
  <2>1. ASSUME NEW i \in 1..Len(cach) PROVE EntOk(cach[i], s + 1, rep)
    <3>1. EntOk(cach[i], s, rep)
      BY <1>4, Zenon DEF CacheSound
    <3>2. cach[i] \in CacheEnt
      BY <2>0
    <3>3. cach[i].stored \in 0..MaxSec
      BY <3>2 DEF CacheEnt
    <3>4. cach[i].stored <= s
      BY <3>1, Zenon DEF EntOk
    <3>5. cach[i].stored <= s + 1
      BY <1>3, <3>3, <3>4
    <3> QED
      BY <3>1, <3>5, Zenon DEF EntOk
  <2> QED
    BY <1>4, <2>1, Zenon DEF CacheSound
<1>7. BucketsOk(bu, al, s + 1)
  <2>1. ASSUME NEW c \in Client PROVE BucketOk(bu[c], al[c], s + 1)
    <3>1. bu[c] \in BucketSet /\ al[c] \in AllowedSet /\ BucketOk(bu[c], al[c], s)
      BY <1>4, Zenon DEF BucketsOk
    <3> QED
      BY <1>3, <3>1, BucketLater, Zenon
  <2> QED
    BY <1>4, <2>1, Zenon DEF BucketsOk
<1>8. QueriesOk(qu, s + 1, rep, blk)
  <2>1. ASSUME NEW h \in Handler PROVE QueryOk(qu[h], s + 1, rep, blk)
    <3>1. qu[h] \in Queries /\ QueryOk(qu[h], s, rep, blk)
      BY <1>4, Zenon DEF QueriesOk
    <3> QED
      BY <1>3, <3>1, QueryLater, Zenon
  <2> QED
    BY <1>4, <2>1, Zenon DEF QueriesOk
<1>9. CloseEndsAll' /\ conns' \in [TcpConn -> ConnStates] /\ closing' \in BOOLEAN
  <2>1. CloseEndsAll /\ conns \in [TcpConn -> ConnStates] /\ closing \in BOOLEAN
    BY Zenon DEF ForwardInv
  <2> QED
    BY <1>2, <2>1 DEF CloseEndsAll
<1> QED
  BY <1>2, <1>3, <1>4, <1>5, <1>6, <1>7, <1>8, <1>9, Zenon DEF ForwardInv

\* A query when a record is replaced now.
Replaces(new, rep, x, s) ==
  /\ new[x] = s
  /\ \A n \in Name, v \in 0..MaxVersions : <<n, v>> # x => new[<<n, v>>] = rep[<<n, v>>]
LEMMA QueryReplaced ==
  ASSUME NEW q \in Queries, NEW s \in Nat, NEW rep, NEW blk, QueryOk(q, s, rep, blk),
         NEW x, NEW new, Replaces(new, rep, x, s)
  PROVE  QueryOk(q, s, new, blk)
<1>0. TTL \in Nat /\ MaxSec \in Nat
  BY ForwardParams
<1>1. CASE q \notin Putting \cup Hitting
  <2>1. q.pc # "put" /\ q.pc # "hit"
    BY <1>1 DEF Queries, NoQuery, Asking
  <2> QED
    BY <2>1, Zenon DEF QueryOk
<1>2. CASE q \in Putting
  <2>1. q.pc = "put" /\ q.n \in Name /\ q.v \in 0..MaxVersions /\ q.pc # "hit" /\ q.pc # "idle"
    BY <1>2 DEF Putting
  <2>2. q.t0 <= s
    BY <2>1, Zenon DEF QueryOk
  <2>3. new[<<q.n, q.v>>] >= 0 => q.t0 <= new[<<q.n, q.v>>]
    BY <2>1, <2>2, Zenon DEF QueryOk, Replaces
  <2> QED
    BY <2>1, <2>3, Zenon DEF QueryOk
<1>3. CASE q \in Hitting
  <2>1. q.pc = "hit" /\ q.n \in Name /\ q.v \in 0..MaxVersions /\ q.pc # "put" /\ q.pc # "idle" /\ q.t0 \in 0..MaxSec
    BY <1>3 DEF Hitting
  <2>2. q.t0 <= s /\ q.left \in 0..TTL
    BY <2>1, Zenon DEF QueryOk
  <2>3. q.t0 + q.left <= s + TTL
    BY <1>0, <2>1, <2>2
  <2>4. new[<<q.n, q.v>>] >= 0 => q.t0 + q.left <= new[<<q.n, q.v>>] + TTL
    BY <2>1, <2>3, Zenon DEF QueryOk, Replaces
  <2> QED
    BY <2>1, <2>4, Zenon DEF QueryOk
<1> QED
  BY <1>1, <1>2, <1>3

\* The record of a name changes at the upstream.
LEMMA RecordKeeps == ASSUME ForwardInv, RecordChanges PROVE ForwardInv'
<1>1. PICK n \in Name : /\ version[n] < MaxVersions /\ version' = [version EXCEPT ![n] = @ + 1]
                        /\ replaced' = [replaced EXCEPT ![<<n, version[n]>>] = sec]
                        /\ UNCHANGED <<sec, lruCache, bucket, allowed, blockSet, query, conns, closing>>
  BY Zenon DEF RecordChanges
<1>2. PICK ver, rep, cach, blk, qu, s, x, new, wer :
        /\ ver = version /\ rep = replaced /\ cach = lruCache /\ blk = blockSet /\ qu = query /\ s = sec
        /\ x = <<n, ver[n]>> /\ new = [rep EXCEPT ![x] = s] /\ wer = [ver EXCEPT ![n] = ver[n] + 1]
  OBVIOUS
<1>3. /\ sec' = s /\ version' = wer /\ replaced' = new /\ lruCache' = cach /\ bucket' = bucket
      /\ allowed' = allowed /\ blockSet' = blk /\ query' = qu /\ conns' = conns /\ closing' = closing
  BY <1>1, <1>2
<1>4. /\ Upstream(ver, rep, s) /\ CacheSound(cach, s, rep) /\ Len(cach) <= CacheMax /\ BucketsOk(bucket, allowed, s)
      /\ QueriesOk(qu, s, rep, blk) /\ s \in 0..MaxSec
  BY <1>2, Zenon DEF ForwardInv
<1>5. s \in Nat /\ MaxVersions \in Nat
  BY <1>2, ForwardTimes, ForwardParams, Zenon
<1>6. ver \in [Name -> 0..MaxVersions] /\ rep \in [Name \X (0..MaxVersions) -> Int] /\ ver[n] < MaxVersions
  BY <1>1, <1>2, <1>4, Zenon DEF Upstream
<1>7. x \in Name \X (0..MaxVersions) /\ wer \in [Name -> 0..MaxVersions] /\ wer[n] = ver[n] + 1
      /\ \A m \in Name : m # n => wer[m] = ver[m]
  BY <1>2, <1>5, <1>6
<1>8. new \in [Name \X (0..MaxVersions) -> Int] /\ new[x] = s
  BY <1>2, <1>5, <1>6, <1>7
<1>9. \A m \in Name, v \in 0..MaxVersions : <<m, v>> # x => new[<<m, v>>] = rep[<<m, v>>]
  <2> SUFFICES ASSUME NEW m \in Name, NEW v \in 0..MaxVersions, <<m, v>> # x PROVE new[<<m, v>>] = rep[<<m, v>>]
    BY Zenon
  <2>1. <<m, v>> \in Name \X (0..MaxVersions)
    OBVIOUS
  <2> QED
    BY <1>2, <1>6, <2>1, Zenon
<1>10. Upstream(wer, new, s)
  <2>1. ASSUME NEW m \in Name, NEW v \in 0..MaxVersions
        PROVE  new[<<m, v>>] <= s /\ (v >= wer[m] => new[<<m, v>>] < 0)
    <3>1. CASE <<m, v>> = x
      <4>1. m = n /\ v = ver[n]
        BY <1>2, <3>1
      <4>2. ver[n] \in Nat /\ ~(v >= wer[m])
        BY <1>5, <1>6, <1>7, <4>1
      <4> QED
        BY <1>5, <1>8, <3>1, <4>2
    <3>2. CASE <<m, v>> # x
      <4>1. new[<<m, v>>] = rep[<<m, v>>]
        BY <1>9, <3>2, Zenon
      <4>2. rep[<<m, v>>] <= s /\ (v >= ver[m] => rep[<<m, v>>] < 0)
        BY <1>4, Zenon DEF Upstream
      <4>3. v >= wer[m] => v >= ver[m]
        BY <1>5, <1>6, <1>7
      <4> QED
        BY <4>1, <4>2, <4>3, Zenon
    <3> QED
      BY <3>1, <3>2
  <2> QED
    BY <1>7, <1>8, <2>1, Zenon DEF Upstream
<1>11. CacheSound(cach, s, new)
  <2>0. cach \in Seq(CacheEnt)
    BY <1>4, Zenon DEF CacheSound
  <2>1. ASSUME NEW i \in 1..Len(cach) PROVE EntOk(cach[i], s, new)
    <3>1. EntOk(cach[i], s, rep)
      BY <1>4, Zenon DEF CacheSound
    <3>2. cach[i] \in CacheEnt
      BY <2>0
    <3>3. cach[i].n \in Name /\ cach[i].v \in 0..MaxVersions
      BY <3>2 DEF CacheEnt
    <3>4. cach[i].stored <= s /\ (rep[<<cach[i].n, cach[i].v>>] >= 0 => cach[i].stored <= rep[<<cach[i].n, cach[i].v>>])
      BY <3>1, Zenon DEF EntOk
    <3>5. new[<<cach[i].n, cach[i].v>>] = s \/ new[<<cach[i].n, cach[i].v>>] = rep[<<cach[i].n, cach[i].v>>]
      BY <1>8, <1>9, <3>3, Zenon
    <3> QED
      BY <3>4, <3>5, Zenon DEF EntOk
  <2> QED
    BY <1>4, <2>1, Zenon DEF CacheSound
<1>12. QueriesOk(qu, s, new, blk)
  <2>1. ASSUME NEW h \in Handler PROVE QueryOk(qu[h], s, new, blk)
    <3>1. qu[h] \in Queries /\ QueryOk(qu[h], s, rep, blk)
      BY <1>4, Zenon DEF QueriesOk
    <3>2. Replaces(new, rep, x, s)
      BY <1>8, <1>9, Zenon DEF Replaces
    <3> QED
      BY <1>5, <3>1, <3>2, QueryReplaced, Zenon
  <2> QED
    BY <1>4, <2>1, Zenon DEF QueriesOk
<1>13. CloseEndsAll' /\ conns' \in [TcpConn -> ConnStates] /\ closing' \in BOOLEAN
  <2>1. CloseEndsAll /\ conns \in [TcpConn -> ConnStates] /\ closing \in BOOLEAN
    BY Zenon DEF ForwardInv
  <2> QED
    BY <1>3, <2>1 DEF CloseEndsAll
<1> QED
  BY <1>3, <1>4, <1>10, <1>11, <1>12, <1>13, Zenon DEF ForwardInv

\* A query when the block list is edited: cut stays only when the name is still blocked.
LEMMA QueryEdited ==
  ASSUME NEW q \in Queries, NEW s, NEW rep, NEW blk, QueryOk(q, s, rep, blk), NEW new, NEW w,
         w = IF q.pc = "limit" \/ q.pc = "look" THEN [q EXCEPT !.cut = @ /\ <<q.c, q.n>> \in new] ELSE q
  PROVE  w \in Queries /\ QueryOk(w, s, rep, new)
<1>1. CASE ~(q.pc = "limit" \/ q.pc = "look")
  <2>1. w = q /\ q.pc \notin {"limit", "look"}
    BY <1>1
  <2> QED
    BY <2>1, Zenon DEF QueryOk
<1>2. CASE q.pc = "limit" \/ q.pc = "look"
  <2>1. q \in Asking /\ q.pc \in {"limit", "look"} /\ q.pc \notin {"hit", "ask", "put"} /\ q.pc # "idle" /\ q.pc # "put"
        /\ q.pc # "hit"
    BY <1>2 DEF Queries, NoQuery, Putting, Hitting
  <2>2. PICK d : d = (q.cut /\ <<q.c, q.n>> \in new)
    OBVIOUS
  <2>3. d \in BOOLEAN /\ w = [q EXCEPT !.cut = d]
    BY <1>2, <2>2
  <2>4. w \in Asking /\ w.pc = q.pc /\ w.c = q.c /\ w.n = q.n /\ w.t0 = q.t0 /\ w.cut = d
    BY <2>1, <2>3 DEF Asking
  <2>5. w \in Queries
    BY <2>4 DEF Queries
  <2>6. QueryOk(w, s, rep, new)
    BY <2>1, <2>2, <2>4, Zenon DEF QueryOk
  <2> QED
    BY <2>5, <2>6
<1> QED
  BY <1>1, <1>2

\* refreshBlocklist.
LEMMA BlockEditKeeps == ASSUME ForwardInv, BlockEdit PROVE ForwardInv'
<1>1. PICK rep, blk, qu, s : rep = replaced /\ blk = blockSet /\ qu = query /\ s = sec
  OBVIOUS
<1>2. /\ UNCHANGED <<sec, version, replaced, lruCache, bucket, allowed, conns, closing>>
      /\ query' = [h \in Handler |-> IF query[h].pc = "limit" \/ query[h].pc = "look"
                                     THEN [query[h] EXCEPT !.cut = @ /\ <<query[h].c, query[h].n>> \in blockSet']
                                     ELSE query[h]]
  BY DEF BlockEdit
<1>3. PICK new, wu : new = blockSet' /\ wu = query'
  OBVIOUS
<1>4. wu = [h \in Handler |-> IF qu[h].pc = "limit" \/ qu[h].pc = "look"
                              THEN [qu[h] EXCEPT !.cut = @ /\ <<qu[h].c, qu[h].n>> \in new] ELSE qu[h]]
  BY <1>1, <1>2, <1>3
<1>5. QueriesOk(qu, s, rep, blk)
  BY <1>1, Zenon DEF ForwardInv
<1>6. ASSUME NEW h \in Handler PROVE wu[h] \in Queries /\ QueryOk(wu[h], s, rep, new)
  <2>1. PICK q, w : q = qu[h] /\ w = wu[h]
    OBVIOUS
  <2>2. w = IF q.pc = "limit" \/ q.pc = "look" THEN [q EXCEPT !.cut = @ /\ <<q.c, q.n>> \in new] ELSE q
    BY <1>4, <2>1
  <2>3. q \in Queries /\ QueryOk(q, s, rep, blk)
    BY <1>5, <2>1, Zenon DEF QueriesOk
  <2>4. w \in Queries /\ QueryOk(w, s, rep, new)
    BY <2>2, <2>3, QueryEdited
  <2> QED
    BY <2>1, <2>4, Zenon
<1>7. wu \in [Handler -> Queries]
  BY <1>4, <1>6
<1>8. QueriesOk(wu, s, rep, new)
  BY <1>6, <1>7, Zenon DEF QueriesOk
<1>9. /\ sec' = sec /\ version' = version /\ replaced' = replaced /\ lruCache' = lruCache /\ bucket' = bucket
      /\ allowed' = allowed /\ conns' = conns /\ closing' = closing
  BY <1>2
<1>10. CloseEndsAll'
  <2>1. CloseEndsAll
    BY Zenon DEF ForwardInv
  <2> QED
    BY <1>9, <2>1 DEF CloseEndsAll
<1> QED
  BY <1>1, <1>3, <1>8, <1>9, <1>10, Zenon DEF ForwardInv

\* It holds at the start.
LEMMA ForwardStart == ASSUME ForwardInit PROVE ForwardInv
<1>0. /\ sec = 0 /\ version = [n \in Name |-> 0] /\ replaced = [x \in Name \X (0..MaxVersions) |-> -1]
      /\ lruCache = <<>> /\ bucket = [c \in Client |-> NoBucket] /\ closing = FALSE
      /\ allowed = [c \in Client |-> [n |-> 0, since |-> 0]] /\ query = [h \in Handler |-> NoQuery]
      /\ conns = [c \in TcpConn |-> "none"]
  BY DEF ForwardInit
<1>00. MaxSec \in Nat /\ MaxVersions \in Nat /\ CacheMax \in Nat
  BY ForwardParams
<1>1. sec \in 0..MaxSec /\ Upstream(version, replaced, sec)
  <2>1. sec \in 0..MaxSec /\ version \in [Name -> 0..MaxVersions]
    BY <1>0, <1>00
  <2>2. replaced \in [Name \X (0..MaxVersions) -> Int]
    BY <1>0
  <2>3. ASSUME NEW n \in Name, NEW v \in 0..MaxVersions PROVE replaced[<<n, v>>] = -1
    <3>1. <<n, v>> \in Name \X (0..MaxVersions)
      OBVIOUS
    <3> QED
      BY <1>0, <3>1
  <2>4. -1 <= 0 /\ -1 < 0
    OBVIOUS
  <2> QED
    BY <1>0, <2>1, <2>2, <2>3, <2>4 DEF Upstream
<1>2. CacheSound(lruCache, sec, replaced) /\ Len(lruCache) <= CacheMax
  BY <1>0, <1>00 DEF CacheSound
<1>3. BucketsOk(bucket, allowed, sec)
  <2>1. PICK bu, al, s : bu = bucket /\ al = allowed /\ s = sec
    OBVIOUS
  <2>2. NoBucket \in BucketSet /\ \A c \in Client : BucketOk(NoBucket, al[c], s)
    BY NoBucketOk, Zenon
  <2>3. bu \in [Client -> BucketSet] /\ \A c \in Client : bu[c] = NoBucket
    BY <1>0, <2>1, <2>2, Zenon
  <2>4. al \in [Client -> AllowedSet]
    BY <1>0, <2>1 DEF AllowedSet
  <2> QED
    BY <2>1, <2>2, <2>3, <2>4, Zenon DEF BucketsOk
<1>4. QueriesOk(query, sec, replaced, blockSet)
  <2>1. PICK rep, blk, qu, s : rep = replaced /\ blk = blockSet /\ qu = query /\ s = sec
    OBVIOUS
  <2>2. NoQuery \in Queries /\ QueryOk(NoQuery, s, rep, blk)
    BY NoQueryOk, Zenon
  <2>3. qu \in [Handler -> Queries] /\ \A h \in Handler : qu[h] = NoQuery
    BY <1>0, <2>1, <2>2, Zenon
  <2> QED
    BY <2>1, <2>2, <2>3, Zenon DEF QueriesOk
<1>5. conns \in [TcpConn -> ConnStates] /\ closing \in BOOLEAN /\ CloseEndsAll
  BY <1>0 DEF ConnStates, CloseEndsAll
<1> QED
  BY <1>1, <1>2, <1>3, <1>4, <1>5, Zenon DEF ForwardInv

\* Every step of the forwarder keeps it.
LEMMA ForwardStepKeeps == ASSUME ForwardInv, [ForwardNext]_forwardVars PROVE ForwardInv'
<1>1. ASSUME NEW h \in Handler, ForwardStep(h) PROVE ForwardInv'
  BY <1>1, ReceiveKeeps, AllowKeeps, LookKeeps, ExchangeKeeps, PutAndReplyKeeps, ReplyHitKeeps, Zenon
  DEF ForwardStep
<1>2. CASE UNCHANGED forwardVars
  <2>1. /\ UNCHANGED <<sec, version, replaced, lruCache, bucket, allowed, blockSet, query>>
        /\ conns' = conns /\ closing' = closing
    BY <1>2 DEF forwardVars
  <2>2. conns \in [TcpConn -> ConnStates] /\ closing \in BOOLEAN /\ CloseEndsAll
    BY Zenon DEF ForwardInv
  <2>3. closing' => \A c \in TcpConn : conns'[c] # "open"
    BY <2>1, <2>2 DEF CloseEndsAll
  <2> QED
    BY <2>1, <2>2, <2>3, ConnsKeep
<1> QED
  BY <1>1, <1>2, ClockKeeps, RecordKeeps, BlockEditKeeps, TcpKeeps, Zenon DEF ForwardNext, ForwardUdp

-----------------------------------------------------------------------------
(* The components by themselves.                                           *)

\* The codes give no more tokens than were generated, but for renames that failed, and a code
\* takes a count of guesses for each time its counter starts (once, and after a failed rename,
\* a wiped table or a restart of httpd) and one more for each request under way then or when
\* it is burned (pair.go, pair_guard.go).
THEOREM CodesBounded == PairSpec => [](TokensPerCodes /\ GuessBound)
<1>1. PairInv => TokensPerCodes /\ GuessBound
  BY PairTyped, Zenon
<1>2. PairInv /\ [PairNext]_pairVars => PairInv'
  BY PairStepKeeps
<1>3. PairInit => PairInv
  BY PairStart
<1> QED
  BY <1>1, <1>2, <1>3, PTL DEF PairSpec

\* A locked address gets no attempt before its lock ends, and while its entry is remembered
\* (not evicted, collected or reset) a window of PinWindow sees a bounded number of attempts
\* (ratelimit.go).
THEOREM LimiterHolds == RateSpec => [](LockHolds /\ SlidingBound)
<1>1. RateInv => LockHolds /\ SlidingBound
  BY RateTyped, Zenon
<1>2. RateInv /\ [RateNext]_rateVars => RateInv'
  BY RateStepKeeps
<1>3. RateInit => RateInv
  BY RateStart
<1> QED
  BY <1>1, <1>2, <1>3, PTL DEF RateSpec

\* A request is judged by the last list that was in force when it came, or a later one, the
\* request that sets a list is not locked out by it, and the firewall says what the
\* list says (webui_access.go, webui_guard.sh).
THEOREM AccessKeeps == AccSpec => [](JudgedByLatest /\ NoSelfLockout /\ FirewallExact)
<1>1. AccInv => JudgedByLatest /\ NoSelfLockout /\ FirewallExact
  BY AccTyped, Zenon
<1>2. AccInv /\ [AccNext]_accVars => AccInv'
  BY AccStepKeeps
<1>3. AccInit => AccInv
  BY AccStart
<1> QED
  BY <1>1, <1>2, <1>3, PTL DEF AccSpec

\* No answer outlives its record by more than the TTL, no client gets past its bucket, a
\* blocked name is not asked for and Close leaves no connection open, in whatever
\* order the handlers reach limiter and cache (dns_forwarder.go).
THEOREM ForwarderKeeps == ForwardSpec => [](StaleBound /\ RateBound /\ BlockedRefused /\ CloseEndsAll)
<1>1. ForwardInv => StaleBound /\ RateBound /\ BlockedRefused /\ CloseEndsAll
  BY ForwardTyped, Zenon
<1>2. ForwardInv /\ [ForwardNext]_forwardVars => ForwardInv'
  BY ForwardStepKeeps
<1>3. ForwardInit => ForwardInv
  BY ForwardStart
<1> QED
  BY <1>1, <1>2, <1>3, PTL DEF ForwardSpec

\* The locks of an address double, in the limiter by itself (ratelimit.go).
THEOREM LimiterEscalates == RateSpec => Escalates
<1>1. RateInv /\ [RateNext]_rateVars => RateInv'
  BY RateStepKeeps
<1>2. RateInit => RateInv
  BY RateStart
<1>3. RateInv /\ [RateNext]_rateVars => [Doubles]_rateVars
  BY RateDoubles
<1> QED
  BY <1>1, <1>2, <1>3, PTL DEF RateSpec, Escalates
=============================================================================
