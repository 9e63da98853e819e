------------------------------- MODULE Pairing ------------------------------
(* How often a pairing code can be tried: the codes themselves, and the      *)
(* limiter in front of them (two state machines that share no state).        *)
EXTENDS FiniteSets, Integers, Sequences
-----------------------------------------------------------------------------
(***************************************************************************)
(* Pairing by a one-time code (pair.go, pair_guard.go).  pair_gen.sh writes *)
(* run/pair_pending; a verify request reads it, takes an attempt from the  *)
(* rate limiter, compares, and on success claims the file by rename before *)
(* it issues a token.  Requests run concurrently; the owner may cancel the *)
(* code or generate another at any moment, and codes expire.  Whether the  *)
(* limiter grants an attempt is left open here: RateLimit models it.       *)
(***************************************************************************)
CONSTANTS Verifier,     \* concurrent verify requests
          MaxCodes,     \* bound on generated codes
          BurnAfter,    \* pairBurnAfter
          MaxWrong,     \* bound on wrong guesses per code
          MaxRenameErr, \* bound on renames that fail for another reason than ENOENT
          MaxSids,      \* 64: codes whose wrong guesses are remembered
          MaxLost       \* bound on restarts of httpd

ASSUME PairConstants == /\ MaxCodes \in Nat \ {0} /\ BurnAfter \in Nat \ {0}
                        /\ MaxWrong \in Nat /\ MaxRenameErr \in Nat /\ IsFiniteSet(Verifier)
                        /\ MaxSids \in Nat \ {0} /\ MaxLost \in Nat

VARIABLES pending,    \* code in run/pair_pending, 0 when absent
          expired,    \* codes whose 120 seconds are over
          codes,      \* number of codes generated so far
          sidFails,   \* pairGuard.sidFails
          ppc, held,  \* per request: where it is, the code it read
          issued,     \* tokens issued, as <<code that was read, serial number>>
          success,    \* codes with a pair_success marker
          wrong,      \* history: wrong comparisons per code
          renameErrs, \* history: renames that failed
          lost        \* history: times the counts were lost, by a full table or a restart

pairVars == <<pending, expired, codes, sidFails, ppc, held, issued, success, wrong, renameErrs, lost>>
Code == 1..MaxCodes

PairTypeOK ==
  /\ pending \in 0..codes /\ codes \in 0..MaxCodes /\ expired \subseteq 1..codes
  /\ sidFails \in [Code -> 0..MaxWrong] /\ held \in [Verifier -> 0..codes]
  /\ ppc \in [Verifier -> {"idle", "purge", "consume", "compare", "burn", "claim", "issue", "record", "clean"}]
  /\ success \subseteq 1..codes /\ renameErrs \in 0..MaxRenameErr /\ lost \in Nat

PairInit == /\ pending = 0 /\ expired = {} /\ codes = 0 /\ sidFails = [c \in Code |-> 0]
            /\ ppc = [r \in Verifier |-> "idle"] /\ held = [r \in Verifier |-> 0]
            /\ issued = {} /\ success = {} /\ wrong = [c \in Code |-> 0] /\ renameErrs = 0 /\ lost = 0

At(r, s, t) == ppc[r] = s /\ ppc' = [ppc EXCEPT ![r] = t]
Return(r, s) == At(r, s, "idle") /\ held' = [held EXCEPT ![r] = 0]

\* pair_gen.sh writes a new file over the old one; pair_gen.sh cancel removes it.
GenerateCode == /\ codes < MaxCodes /\ codes' = codes + 1 /\ pending' = codes + 1
                /\ UNCHANGED <<expired, sidFails, ppc, held, issued, success, wrong, renameErrs, lost>>
CancelCode == /\ pending # 0 /\ pending' = 0
              /\ UNCHANGED <<expired, codes, sidFails, ppc, held, issued, success, wrong, renameErrs, lost>>
CodeExpires(c) == /\ c \in 1..codes \ expired /\ expired' = expired \cup {c}
                  /\ UNCHANGED <<pending, codes, sidFails, ppc, held, issued, success, wrong, renameErrs, lost>>

\* handlePairVerify up to readPairPending: a request that the limiter's first check
\* or its format turns away changes nothing here, nor does one without a file.
ReadPending(r) ==
  /\ pending # 0
  /\ At(r, "idle", IF pending \in expired THEN "purge" ELSE "consume")
  /\ held' = [held EXCEPT ![r] = pending]
  /\ UNCHANGED <<pending, expired, codes, sidFails, issued, success, wrong, renameErrs, lost>>
\* An expired file is removed by name, whatever it holds by now.
PurgeExpired(r) ==
  /\ Return(r, "purge") /\ pending' = 0
  /\ UNCHANGED <<expired, codes, sidFails, issued, success, wrong, renameErrs, lost>>
\* consumePinAttemptAudited: the limiter decides.
ConsumeAttempt(r) ==
  /\ \/ Return(r, "consume")
     \/ At(r, "consume", "compare") /\ UNCHANGED held
  /\ UNCHANGED <<pending, expired, codes, sidFails, issued, success, wrong, renameErrs, lost>>
\* The table with one more guess for c; with too many codes in it only c stays.
Remembered(f) == {c \in Code : f[c] > 0}
OneMore(c) == [sidFails EXCEPT ![c] = @ + 1]
Overfull(c) == Cardinality(Remembered(OneMore(c))) > MaxSids
\* A wrong guess: pairRecordFailure counts it for the code that was read ...
CompareWrong(r) ==
  LET c == held[r] n == sidFails[c] + 1 IN
  /\ ppc[r] = "compare" /\ wrong[c] < MaxWrong /\ wrong' = [wrong EXCEPT ![c] = @ + 1]
  /\ IF Overfull(c)
     THEN sidFails' = [d \in Code |-> IF d = c THEN n ELSE 0] /\ lost' = lost + 1
     ELSE sidFails' = OneMore(c) /\ lost' = lost
  /\ IF n < BurnAfter THEN Return(r, "compare") ELSE At(r, "compare", "burn") /\ UNCHANGED held
  /\ UNCHANGED <<pending, expired, codes, issued, success, renameErrs>>
\* ... and burns the file when there were too many, then forgets the count.
BurnCode(r) ==
  /\ Return(r, "burn") /\ pending' = 0 /\ sidFails' = [sidFails EXCEPT ![held[r]] = 0]
  /\ UNCHANGED <<expired, codes, issued, success, wrong, renameErrs, lost>>
CompareRight(r) ==
  /\ At(r, "compare", "claim")
  /\ UNCHANGED <<pending, expired, codes, sidFails, held, issued, success, wrong, renameErrs, lost>>
\* The claim: rename, which only one of several requests can do.  ENOENT ends the
\* request; another error falls back to issuing without a claim.
ClaimMissing(r) ==
  /\ pending = 0 /\ Return(r, "claim")
  /\ UNCHANGED <<pending, expired, codes, sidFails, issued, success, wrong, renameErrs, lost>>
ClaimPending(r) ==
  /\ pending # 0 /\ pending' = 0 /\ At(r, "claim", "issue")
  /\ UNCHANGED <<expired, codes, sidFails, held, issued, success, wrong, renameErrs, lost>>
ClaimError(r) ==
  /\ pending # 0 /\ renameErrs < MaxRenameErr /\ renameErrs' = renameErrs + 1
  /\ At(r, "claim", "issue")
  /\ UNCHANGED <<pending, expired, codes, sidFails, held, issued, success, wrong, lost>>
\* IssueToken takes a bcrypt's time and may fail.
IssueForCode(r) ==
  /\ \/ Return(r, "issue") /\ UNCHANGED issued
     \/ At(r, "issue", "record") /\ issued' = issued \cup {<<held[r], Cardinality(issued)>>}
        /\ UNCHANGED held
  /\ UNCHANGED <<pending, expired, codes, sidFails, success, wrong, renameErrs, lost>>
\* pairRecordSuccess and writePairSuccess, for the code that was read.
RecordSuccess(r) ==
  /\ At(r, "record", "clean") /\ sidFails' = [sidFails EXCEPT ![held[r]] = 0]
  /\ success' = success \cup {held[r]}
  /\ UNCHANGED <<pending, expired, codes, held, issued, wrong, renameErrs, lost>>
\* The file is removed once more in case the claim did not.
RemovePending(r) ==
  /\ Return(r, "clean") /\ pending' = 0
  /\ UNCHANGED <<expired, codes, sidFails, issued, success, wrong, renameErrs, lost>>

PairStep(r) == \/ PurgeExpired(r) \/ ConsumeAttempt(r) \/ CompareWrong(r) \/ BurnCode(r)
               \/ CompareRight(r) \/ ClaimMissing(r) \/ ClaimPending(r) \/ ClaimError(r)
               \/ IssueForCode(r) \/ RecordSuccess(r) \/ RemovePending(r)
\* httpd starts again: its requests and the table are gone, the files are not.
PairRestart ==
  /\ lost < MaxLost /\ lost' = lost + 1 /\ sidFails' = [c \in Code |-> 0]
  /\ ppc' = [r \in Verifier |-> "idle"] /\ held' = [r \in Verifier |-> 0]
  /\ UNCHANGED <<pending, expired, codes, issued, success, wrong, renameErrs>>

PairNext == \/ GenerateCode \/ CancelCode \/ PairRestart \/ \E c \in Code : CodeExpires(c)
            \/ \E r \in Verifier : ReadPending(r) \/ PairStep(r)
PairSpec == PairInit /\ [][PairNext]_pairVars
-----------------------------------------------------------------------------
\* However many requests know a code, no more tokens are issued than codes were
\* generated, but for the renames that failed (pair.go:241).
TokensPerCodes == Cardinality(issued) <= codes + renameErrs

\* Guessing a code ends: concurrent requests add at most one wrong guess each to
\* the limit of pair_guard.go (the count is dropped when the code is burned).  A
\* rename that failed lets the count start again while the file is still there
\* (pair.go:241-277); so does a table that held too many codes (pair_guard.go:122)
\* or a restart of httpd, which ends requests about to burn the code as well.
GuessBound == \A c \in Code :
  wrong[c] <= (renameErrs + lost + 1) * (BurnAfter - 1) + (lost + 1) * Cardinality(Verifier)

\* "One PIN, one token" (pair.go:234): what the claim's comment promises.
OneTokenPerCode == \A a, b \in issued : a[1] = b[1] => a = b \/ renameErrs > 0

\* "A PIN can be guessed pairBurnAfter times at most" (pair_guard.go:13).
GuessLimit == \A c \in Code : wrong[c] <= BurnAfter

\* A fresh code leaves the file only by a claim, a cancel, a new code, its own
\* expiry or its own burning.
FreshCodeStays ==
  [][\A r \in Verifier : pending # 0 /\ pending' = 0 /\ (PurgeExpired(r) \/ BurnCode(r))
        => held[r] = pending]_pairVars
-----------------------------------------------------------------------------
(***************************************************************************)
(* The per-address rate limiter of hnc_httpd (ratelimit.go): PIN attempts  *)
(* per address with locks that double, a global cap, an LRU table of       *)
(* bounded size that never evicts a locked entry, a bucket for requests    *)
(* without a session, and a collector; one run of httpd, whose end forgets *)
(* all of it.  Every method holds one mutex, so each is one action.  Times *)
(* are seconds of rlNow; the constants keep the order of the code's values *)
(* (a lock lasts as long as a window).                                     *)
(***************************************************************************)
CONSTANTS IP,
          MaxEntries,    \* rlMaxEntries
          PinMax,        \* rlPinAttemptsMax
          PinWindow,     \* rlPinWindow
          LockBase,      \* rlPinLockDuration
          LockMax,       \* rlPinLockMax
          BackoffMemory, \* rlPinBackoffMemory
          GlobalWindow,  \* rlPinGlobalWindow
          GlobalMax,     \* rlPinGlobalMaxPerWindow
          Capacity,      \* rlUnauthCapacity, refilled completely in a second
          EntryTTL,      \* rlEntryTTL
          Horizon        \* bound on the clock

ASSUME RateConstants ==
  /\ \A c \in {MaxEntries, PinMax, PinWindow, LockBase, GlobalWindow, GlobalMax, Capacity} : c \in Nat \ {0}
  /\ PinMax > 1 /\ LockMax \in Nat /\ LockMax >= LockBase
  /\ BackoffMemory \in Nat /\ EntryTTL \in Nat /\ Horizon \in Nat

VARIABLES now,
          lru,       \* addresses in the table, most recently used first
          entry,     \* their rlEntry records
          globalTS,  \* pinGlobalTS
          spare,     \* tokens left in the shared bucket in this second
          granted,   \* history: times at which an address was let compare, since its entry was made, locked or reset
          locks      \* history: per address, end and length of its last lock, and whether the entry survived

rateVars == <<now, lru, entry, globalTS, spare, granted, locks>>

\* A fresh entry; pinWindowStart starts at 0, long ago for any wall clock.
LongAgo == 0 - PinWindow - 1
Fresh == [att |-> 0, start |-> LongAgo, until |-> 0, lockouts |-> 0, bucket |-> Capacity, seen |-> now]
NoLock == [until |-> 0, len |-> 0, kept |-> FALSE]
InLru(ip) == \E i \in 1..Len(lru) : lru[i] = ip
Locked(ip) == entry[ip].until > now

RateTypeOK ==
  /\ now \in 0..Horizon /\ Len(lru) <= MaxEntries
  /\ \A i, j \in 1..Len(lru) : lru[i] = lru[j] => i = j
  /\ \A ip \in IP : entry[ip].att \in 0..PinMax - 1 /\ entry[ip].bucket \in 0..Capacity
  /\ Len(globalTS) <= GlobalMax /\ spare \in 0..Capacity

RateInit == /\ now = 0 /\ lru = <<>>
            /\ entry = [ip \in IP |-> Fresh]
            /\ globalTS = <<>> /\ spare = Capacity
            /\ granted = [ip \in IP |-> {}] /\ locks = [ip \in IP |-> NoLock]

\* evictOldestLocked: the least recently used entry that is not locked.
Evictable == {i \in 1..Len(lru) : ~Locked(lru[i])}
Victim == lru[CHOOSE i \in Evictable : \A j \in Evictable : j <= i]
\* getOrCreate: FALSE in HasRoom is the nil result, all entries are locked.
HasRoom(ip) == InLru(ip) \/ Len(lru) < MaxEntries \/ Evictable # {}
\* a list after the elements in X were removed from it
Without(s, X) ==
  LET upTo[i \in 0..Len(s)] == IF i = 0 THEN <<>>
                               ELSE IF s[i] \in X THEN upTo[i - 1] ELSE Append(upTo[i - 1], s[i])
  IN upTo[Len(s)]
Touch(ip) == IF InLru(ip) THEN <<ip>> \o Without(lru, {ip})
             ELSE IF Len(lru) < MaxEntries THEN <<ip>> \o lru ELSE <<ip>> \o Without(lru, {Victim})
Evicts(ip) == ~InLru(ip) /\ Len(lru) >= MaxEntries
Got(ip) == IF InLru(ip) THEN [entry[ip] EXCEPT !.seen = now] ELSE Fresh
\* what the eviction of the entries in V forgets
Drop(e, V) == [x \in IP |-> IF x \in V THEN Fresh ELSE e[x]]
Gone(ip) == IF Evicts(ip) THEN {Victim} ELSE {}
Forgotten(V) == /\ granted' = [x \in IP |-> IF x \in V THEN {} ELSE granted[x]]
                /\ locks' = [x \in IP |-> IF x \in V THEN [locks[x] EXCEPT !.kept = FALSE] ELSE locks[x]]

Second == /\ now < Horizon /\ now' = now + 1 /\ spare' = Capacity
          /\ entry' = [ip \in IP |-> IF InLru(ip) THEN [entry[ip] EXCEPT !.bucket = Capacity]
                                     ELSE [entry[ip] EXCEPT !.seen = now + 1]]
          /\ UNCHANGED <<lru, globalTS, granted, locks>>

\* CheckPinVerify changes only the table.
CheckPinVerify(ip) ==
  /\ HasRoom(ip) /\ lru' = Touch(ip) /\ entry' = [Drop(entry, Gone(ip)) EXCEPT ![ip] = Got(ip)]
  /\ Forgotten(Gone(ip)) /\ UNCHANGED <<now, globalTS, spare>>

\* pinLockSeconds: doubles per lock, up to LockMax.
Doubled(d) == IF 2 * d >= LockMax THEN LockMax ELSE 2 * d
PinLockSeconds(n) ==
  LET lock[i \in 1..n] == IF i = 1 THEN LockBase ELSE Doubled(lock[i - 1]) IN lock[n]
\* The attempts that the global window still counts: the list from the first recent one on.
FirstRecent == CHOOSE i \in 1..Len(globalTS) + 1 :
  /\ i <= Len(globalTS) => now - globalTS[i] < GlobalWindow
  /\ \A j \in 1..i - 1 : now - globalTS[j] >= GlobalWindow
RecentPins == SubSeq(globalTS, FirstRecent, Len(globalTS))

\* ConsumePinAttempt behind its early returns: locked, or global cap reached.
ConsumeRefused(ip) ==
  /\ HasRoom(ip) /\ (Got(ip).until > now \/ Len(RecentPins) >= GlobalMax)
  /\ lru' = Touch(ip) /\ entry' = [Drop(entry, Gone(ip)) EXCEPT ![ip] = Got(ip)]
  /\ globalTS' = IF Got(ip).until > now THEN globalTS ELSE RecentPins
  /\ Forgotten(Gone(ip)) /\ UNCHANGED <<now, spare>>
\* The attempt is counted; the one that reaches the limit locks and is refused.
ConsumeCounted(ip) ==
  LET e == Got(ip)
      late == now - e.start > PinWindow
      n == (IF late THEN 0 ELSE e.att) + 1
      len == PinLockSeconds(e.lockouts + 1) IN
  /\ HasRoom(ip) /\ ~(e.until > now) /\ Len(RecentPins) < GlobalMax
  /\ lru' = Touch(ip) /\ globalTS' = Append(RecentPins, now)
  /\ LET after == IF n >= PinMax
                  THEN [e EXCEPT !.att = 0, !.start = LongAgo, !.lockouts = @ + 1, !.until = now + len]
                  ELSE [e EXCEPT !.att = n, !.start = IF late THEN now ELSE @]
     IN entry' = [Drop(entry, Gone(ip)) EXCEPT ![ip] = after]
  /\ granted' = [x \in IP |-> IF x = ip THEN IF n >= PinMax THEN {}
                                             ELSE {g \in granted[ip] : now - g[1] < PinWindow}
                                                  \cup {<<now, Len(RecentPins)>>}
                              ELSE IF x \in Gone(ip) THEN {} ELSE granted[x]]
  /\ locks' = [x \in IP |-> IF x = ip /\ n >= PinMax THEN [until |-> now + len, len |-> len, kept |-> TRUE]
                            ELSE IF x \in Gone(ip) THEN [locks[x] EXCEPT !.kept = FALSE] ELSE locks[x]]
  /\ UNCHANGED <<now, spare>>

\* ResetPin after a successful pairing.
ResetPin(ip) ==
  /\ InLru(ip)
  /\ entry' = [entry EXCEPT ![ip] = [@ EXCEPT !.att = 0, !.until = 0, !.start = LongAgo, !.lockouts = 0]]
  /\ granted' = [granted EXCEPT ![ip] = {}] /\ locks' = [locks EXCEPT ![ip] = NoLock]
  /\ UNCHANGED <<now, lru, globalTS, spare>>

\* CheckUnauth: the address's own bucket, or the shared one when the table is full of locks.
CheckUnauth(ip) ==
  \/ /\ HasRoom(ip) /\ Got(ip).bucket >= 1 /\ lru' = Touch(ip)
     /\ entry' = [Drop(entry, Gone(ip)) EXCEPT ![ip] = [Got(ip) EXCEPT !.bucket = @ - 1]]
     /\ Forgotten(Gone(ip)) /\ UNCHANGED <<now, globalTS, spare>>
  \/ /\ ~HasRoom(ip) /\ spare >= 1 /\ spare' = spare - 1
     /\ UNCHANGED <<now, lru, entry, globalTS, granted, locks>>

\* Mutant: an idle entry goes whether or not its back-off is still remembered.
StaleByAge == {ip \in IP : InLru(ip) /\ ~Locked(ip) /\ now - entry[ip].seen > EntryTTL}

\* gc: entries idle for the TTL, not locked and past their back-off memory.
Stale == {ip \in IP : /\ InLru(ip) /\ ~Locked(ip) /\ now - entry[ip].seen > EntryTTL
                      /\ ~(entry[ip].lockouts > 0 /\ now - entry[ip].until < BackoffMemory)}
CollectEntries == /\ Stale # {} /\ lru' = Without(lru, Stale)
                  /\ entry' = Drop(entry, Stale)
                  /\ granted' = [x \in IP |-> IF x \in Stale THEN {} ELSE granted[x]]
                  /\ locks' = [x \in IP |-> IF x \in Stale /\ now >= locks[x].until + BackoffMemory
                                            THEN [locks[x] EXCEPT !.kept = FALSE] ELSE locks[x]]
                  /\ UNCHANGED <<now, globalTS, spare>>

RateNext == \/ Second \/ CollectEntries
            \/ \E ip \in IP : \/ CheckPinVerify(ip) \/ ConsumeRefused(ip) \/ ConsumeCounted(ip)
                              \/ ResetPin(ip) \/ CheckUnauth(ip)
RateSpec == RateInit /\ [][RateNext]_rateVars
-----------------------------------------------------------------------------
\* A lock lasts: while its time is not over, no eviction, collection or other
\* address's traffic lets the address compare again (ratelimit.go:153).
LockHolds == \A ip \in IP : locks[ip].until > now => InLru(ip) /\ Locked(ip)

\* The counting window is fixed, not sliding: while its entry is remembered an address
\* may compare more than PinMax - 1 times within PinWindow seconds, but never
\* 2 * PinMax - 2 times.  An entry that is evicted, collected or reset starts anew, as
\* does one that was locked for a window; what bounds an address that has itself
\* evicted is the cap for all addresses, the length of globalTS in RateTypeOK.
SlidingBound == \A ip \in IP :
  Cardinality({g \in granted[ip] : now - g[1] < PinWindow}) <= 2 * PinMax - 3

\* Back-off: the next lock of an address is twice as long, up to LockMax, unless its
\* entry was evicted, reset, or collected BackoffMemory after the lock's end
\* (ratelimit.go:26, :332).
Doubles == \A ip \in IP :
  locks'[ip].until # locks[ip].until /\ locks'[ip].len > 0 /\ locks[ip].kept
    => locks'[ip].len = Doubled(locks[ip].len)
Escalates == [][Doubles]_rateVars

\* "The memory of the back-off is kept for rlPinBackoffMemory" (ratelimit.go:28),
\* without exception.
MemoryAlways == \A ip \in IP :
  locks[ip].len > 0 /\ now < locks[ip].until + BackoffMemory => locks[ip].kept
=============================================================================
