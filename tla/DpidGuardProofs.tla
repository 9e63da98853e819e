--------------------------- MODULE DpidGuardProofs ---------------------------
(***************************************************************************)
(* The two guards of dpid, the C launcher and the watchdog, for all times, *)
(* limits and numbers of deaths.                                           *)
(*                                                                         *)
(* The watchdog's guard of dpid for every rhythm of its rounds, every      *)
(* number of deaths and rebinds and all the times in the code: types, the  *)
(* bound on the starts in a window, and that a start that died at once is  *)
(* counted as a failure.                                                   *)
(*                                                                         *)
(* The bound needs a relation between the history of starts and the gate.  *)
(* A start after a first failure may come FirstPause after the one before; *)
(* any other takes LongPause at least, and a first failure can come again  *)
(* only after a process that lived for QuickDeath.  So the starts take     *)
(* half of FirstPause + QuickDeath each on the average, and at most one    *)
(* first failure is ahead of its share (Rhythm).                           *)
(***************************************************************************)
EXTENDS Launcher, DpidGuard, FiniteSetTheorems, SequenceTheorems,
        WellFoundedInduction, NaturalsInduction, TLAPS

-----------------------------------------------------------------------------
(***************************************************************************)
(* The launcher.                                                           *)
(*                                                                         *)
(* Proofs about Launcher, for any pauses, windows, limits and running      *)
(* times of dpid.                                                          *)
(*                                                                         *)
(* NoOrphan and FlagMeansNoDpid are not inductive: a signal may come       *)
(* between any two steps, so what the main thread may conclude from its    *)
(* own position has to be said at each of them.  The one place where       *)
(* g_child_pid lies, between the return of waitpid and the assignment of   *)
(* 0, is the state "reaped".                                               *)
(*                                                                         *)
(* StormBound bounds the forks of a window by the crash limit, but a fork  *)
(* is counted when it happens and a crash when the child has ended: the    *)
(* invariant Tracker pairs the two arrays going back from their last       *)
(* entries, a fork being at least as old as the crash it led to.           *)
(***************************************************************************)

\* Where the main thread stands tells whether a child exists and whether the
\* handler knows of it; the pid file never outlives the wait for the child.
ChildControl ==
  /\ lpc \in {"start", "cool", "loop", "forkfail", "decide", "storm", "pause",
              "cooldown", "exited"} => child = "none" /\ ~gchild
  /\ lpc = "reaped" => child = "none"
  /\ lpc = "stop" /\ ~gchild => child = "none"
  /\ lpc \in {"recheck", "wait", "blocked", "eintr", "drain", "killed"} => gchild
  /\ lpc = "forked" => child # "none"
  /\ lpc = "killed" => child = "zombie"
  /\ child = "none" /\ lpc # "reaped" => ~gchild /\ ~pidfile

\* The flag stands only in the paths that end or cool down.
FlagControl ==
  flag => /\ lpc \in {"start", "cool", "cooldown", "stop", "exited"}
          /\ child = "none"

LauncherInv == lpc \in LPC /\ child \in Child /\ ChildControl /\ FlagControl

\* One step of the launcher, of its signal handler or of dpid keeps LauncherInv.
LEMMA InvStep == LauncherInv /\ [LauncherNext]_launcherVars => LauncherInv'
<1> SUFFICES ASSUME LauncherInv, [LauncherNext]_launcherVars PROVE LauncherInv'
  OBVIOUS
<1> USE DEF LauncherInv, LPC, Child, ChildControl, FlagControl, Term
<1>1. CASE Start
  BY <1>1 DEF Start
<1>2. CASE Cool
  BY <1>2 DEF Cool
<1>3. CASE Loop
  BY <1>3 DEF Loop
<1>4. CASE ForkFail
  BY <1>4 DEF ForkFail
<1>5. CASE Forked
  BY <1>5 DEF Forked
<1>6. CASE Recheck
  BY <1>6 DEF Recheck
<1>7. CASE Wait
  BY <1>7 DEF Wait
<1>8. CASE Blocked
  BY <1>8 DEF Blocked
<1>9. CASE Eintr
  BY <1>9 DEF Eintr
<1>10. CASE Reaped
  BY <1>10 DEF Reaped
<1>11. CASE Decide
  BY <1>11 DEF Decide
<1>12. CASE StormOnce
  BY <1>12 DEF StormOnce
<1>13. CASE StormCooldown
  BY <1>13 DEF StormCooldown
<1>14. CASE Pause
  BY <1>14 DEF Pause
<1>15. CASE Stop
  BY <1>15 DEF Stop
<1>16. CASE Drain
  BY <1>16 DEF Drain
<1>17. CASE Killed
  BY <1>17 DEF Killed
<1>18. CASE OnTerm
  BY <1>18 DEF OnTerm
<1>19. CASE Exec
  BY <1>19 DEF Exec
<1>20. CASE DpidCrash
  BY <1>20 DEF DpidCrash
<1>21. CASE DpidTerm
  BY <1>21 DEF DpidTerm
<1>22. CASE DpidExit
  BY <1>22 DEF DpidExit
<1>23. CASE UNCHANGED launcherVars
  BY <1>23 DEF launcherVars
<1> QED
  BY <1>1, <1>2, <1>3, <1>4, <1>5, <1>6, <1>7, <1>8, <1>9, <1>10, <1>11, <1>12,
     <1>13, <1>14, <1>15, <1>16, <1>17, <1>18, <1>19, <1>20, <1>21, <1>22, <1>23
     DEF LauncherNext, Main

\* LauncherInv holds in every state of the launcher.
THEOREM Invariance == LauncherSpec => []LauncherInv
<1>1. LauncherInit => LauncherInv
  BY DEF LauncherInit, LauncherInv, LPC, Child, ChildControl, FlagControl
<1> QED BY <1>1, InvStep, PTL DEF LauncherSpec

\* NoOrphan: a launcher that ended has reaped its dpid and removed dpid.pid.
THEOREM NoOrphanLeft == LauncherSpec => []NoOrphan
<1>1. LauncherInv => NoOrphan
  BY DEF LauncherInv, ChildControl, NoOrphan
<1> QED BY <1>1, Invariance, PTL

\* FlagMeansNoDpid: CRASH_FLAG never stands beside a dpid of this launcher.
THEOREM FlagSound == LauncherSpec => []FlagMeansNoDpid
<1>1. LauncherInv => FlagMeansNoDpid
  BY DEF LauncherInv, FlagControl, FlagMeansNoDpid
<1> QED BY <1>1, Invariance, PTL

-----------------------------------------------------------------------------
(* The crash tracker. *)

\* The time stamps of an array, oldest first.
Aged(s) ==
  /\ s \in Seq(0 .. CrashWindow + 1)
  /\ \A i, j \in 1 .. Len(s) : i <= j => s[i] >= s[j]

\* Ages are numbers.
LEMMA AgesAreNat ==
  ASSUME NEW s, Aged(s)
  PROVE  \A i \in 1 .. Len(s) : s[i] \in Nat
<1> DEFINE N == 0 .. CrashWindow + 1
<1>1. s \in Seq(N) /\ N \subseteq Nat
  BY LauncherAssumption DEF Aged
<1> HIDE DEF N
<1>2. \A i \in 1 .. Len(s) : s[i] \in N
  BY <1>1, ElementOfSeq
<1> QED
  BY <1>1, <1>2, Zenon

\* A child was forked whose end is not on record yet.
Waiting == lpc \in {"forked", "recheck", "wait", "blocked", "eintr", "reaped", "decide"}

\* A stop was noticed: nothing is forked any more.
Ending == lpc \in {"stop", "drain", "killed", "exited"}

\* Going back from the last, a fork (the one whose end is awaited, if there
\* is one, left out) is at least as old as the crash that ended it.
Paired(p) ==
  /\ Len(spawns) <= Len(crashes) + p
  /\ \A j \in 0 .. Len(crashes) - 1 :
       j < Len(spawns) - p => spawns[Len(spawns) - p - j] >= crashes[Len(crashes) - j]

Tracker ==
  /\ backoff \in BackoffMin .. 2 * BackoffMax
  /\ Aged(crashes) /\ Len(crashes) <= CrashLimit
  /\ Aged(forkfails) /\ Len(forkfails) <= CrashLimit
  /\ Aged(spawns) /\ (\A i \in 1 .. Len(spawns) : spawns[i] <= CrashWindow)
  /\ Len(spawns) <= CrashLimit
  /\ lpc # "exited" => Len(forkfails) < CrashLimit
  /\ ~Ending /\ lpc \notin {"storm", "cooldown"} => Len(crashes) < CrashLimit
  /\ Waiting => Paired(1)
  /\ ~Waiting /\ ~Ending => Paired(0)

-----------------------------------------------------------------------------
(* What the loops of crash_tracker_record compute. *)

\* The least number principle, for sets.  The library states it for
\* predicates, which the provers cannot instantiate; its fact that < is well
\* founded on Nat serves as well.
LEMMA LeastNumber ==
  ASSUME NEW T \in SUBSET Nat, T # {}
  PROVE  \E m \in T : \A n \in T : m <= n
<1> DEFINE R == OpToRel(<, Nat)
<1>1. IsWellFoundedOn(R, Nat)
  BY NatLessThanWellFounded
<1>2. \A x, y \in Nat : y < x => <<y, x>> \in R
  BY DEF OpToRel
<1> HIDE DEF R
<1>3. PICK m \in T : \A y \in T : ~ (<<y, m>> \in R)
  BY <1>1, WFMin
<1>4. ASSUME NEW n \in T PROVE m <= n
  <2>1. m \in Nat /\ n \in Nat
    OBVIOUS
  <2>2. ~ (n < m)
    BY <1>2, <1>3, <2>1
  <2> QED
    BY <2>1, <2>2
<1> QED
  BY <1>4

\* n elements of s, from the one after the k-th.
Part(s, k, n) == [j \in 1 .. n |-> s[k + j]]

\* A part grows by the element that follows it.
LEMMA PartAppend ==
  ASSUME NEW s \in Seq(Nat), NEW k \in Nat, NEW n \in Nat, k + n + 1 <= Len(s)
  PROVE  Append(Part(s, k, n), s[k + n + 1]) = Part(s, k, n + 1)
<1> DEFINE p == Part(s, k, n)
           a == Append(p, s[k + n + 1])
<1>1. p \in Seq(Nat) /\ Len(p) = n
  BY IsASeq DEF Part
<1>2. \A j \in 1 .. n + 1 : a[j] = s[k + j]
  BY <1>1, AppendProperties DEF Part
<1>3. a = [j \in 1 .. n + 1 |-> a[j]]
  BY <1>1, AppendProperties DEF Part
<1> QED
  BY <1>2, <1>3 DEF Part

\* Of an array whose first k entries, and no others, have left the window the
\* compressing loop keeps the rest, in order.
LEMMA LoopKeepsRest ==
  ASSUME NEW s \in Seq(Nat), NEW k \in 0 .. Len(s),
         \A i \in 1 .. k : s[i] > CrashWindow,
         \A i \in k + 1 .. Len(s) : s[i] <= CrashWindow
  PROVE  InCrashWindow(s) = Part(s, k, Len(s) - k)
<1> DEFINE N == 0 .. Len(s)
           Loops(f) == [i \in N |->
                          IF i = 0 THEN <<>>
                          ELSE IF s[i] <= CrashWindow THEN Append(f[i - 1], s[i])
                          ELSE f[i - 1]]
           G == [i \in N |-> IF i <= k THEN <<>> ELSE Part(s, k, i - k)]
           K == CHOOSE f : f = Loops(f)
<1>1. Part(s, k, 0) = <<>>
  BY DEF Part
<1>2. ASSUME NEW i \in N, i # 0
      PROVE  G[i] = IF s[i] <= CrashWindow THEN Append(G[i - 1], s[i]) ELSE G[i - 1]
  <2>1. i - 1 \in N /\ i \in Nat /\ k \in Nat /\ Len(s) \in Nat
    BY <1>2
  <2>2. CASE i <= k
    BY <2>1, <2>2, <1>2, LauncherAssumption
  <2>3. CASE i > k
    <3> DEFINE n == i - 1 - k
    <3>1. s[i] <= CrashWindow
      BY <2>1, <2>3
    <3>2. G[i - 1] = Part(s, k, n) /\ G[i] = Part(s, k, i - k)
      BY <2>1, <2>3, <1>1
    <3>3. n \in Nat /\ k + n + 1 = i /\ n + 1 = i - k /\ i <= Len(s)
      BY <2>1, <2>3
    <3> HIDE DEF n, G
    <3>4. Append(Part(s, k, n), s[k + n + 1]) = Part(s, k, n + 1)
      BY <2>1, <3>3, PartAppend
    <3> QED
      BY <3>1, <3>2, <3>3, <3>4
  <2> QED
    BY <2>1, <2>2, <2>3
<1>3. G = Loops(G)
  <2>1. G[0] = <<>> /\ G = [i \in N |-> G[i]]
    OBVIOUS
  <2> HIDE DEF G
  <2> QED
    BY <1>2, <2>1
<1> HIDE DEF G
<1>4. K = Loops(K)
  BY <1>3
<1> HIDE DEF K
<1>5. \A i \in N : K[i] = G[i]
  <2> DEFINE Bad == {i \in N : K[i] # G[i]}
  <2>1. SUFFICES ASSUME Bad # {} PROVE FALSE
    OBVIOUS
  <2>2. PICK m \in Bad : \A i \in Bad : m <= i
    <3>1. Bad \in SUBSET Nat
      OBVIOUS
    <3> HIDE DEF Bad
    <3> QED
      BY <2>1, <3>1, LeastNumber
  <2>3. m # 0
    BY <1>3, <1>4
  <2>4. m - 1 \in N /\ m - 1 \notin Bad
    BY <2>2, <2>3
  <2>5. K[m] = IF s[m] <= CrashWindow THEN Append(K[m - 1], s[m]) ELSE K[m - 1]
    BY <1>4, <2>3
  <2>6. G[m] = IF s[m] <= CrashWindow THEN Append(G[m - 1], s[m]) ELSE G[m - 1]
    BY <1>2, <2>3
  <2> QED
    BY <2>4, <2>5, <2>6
<1>6. InCrashWindow(s) = K[Len(s)]
  BY DEF InCrashWindow, K
<1>7. G[Len(s)] = Part(s, k, Len(s) - k)
  BY <1>1 DEF G
<1> QED
  BY <1>5, <1>6, <1>7

\* k entries of s have left the window; the others stay.
Leaves(s, k) ==
  /\ Aged(InCrashWindow(s)) /\ Len(InCrashWindow(s)) = Len(s) - k
  /\ \A i \in 1 .. k : s[i] > CrashWindow
  /\ \A i \in 1 .. Len(s) - k : InCrashWindow(s)[i] = s[k + i] /\ s[k + i] <= CrashWindow

\* Ages fall along the array, so what leaves the window leaves at its front.
LEMMA OldestLeave ==
  ASSUME NEW s, Aged(s)
  PROVE  \E k \in 0 .. Len(s) : Leaves(s, k)
<1> USE LauncherAssumption
<1>1. s \in Seq(Nat) /\ Len(s) \in Nat
  <2>1. 0 .. CrashWindow + 1 \subseteq Nat
    OBVIOUS
  <2> QED
    BY <2>1, SeqMonotonic DEF Aged
<1> DEFINE In == {i \in 1 .. Len(s) + 1 : i = Len(s) + 1 \/ s[i] <= CrashWindow}
<1>2. In \in SUBSET Nat /\ Len(s) + 1 \in In
  BY <1>1
<1>3. PICK m \in In : \A i \in In : m <= i
  <2> HIDE DEF In
  <2> QED
    BY <1>2, LeastNumber
<1> DEFINE k == m - 1
<1>4. k \in 0 .. Len(s) /\ m = k + 1
  BY <1>1
<1>5. \A i \in 1 .. k : s[i] > CrashWindow
  <2> SUFFICES ASSUME NEW i \in 1 .. k PROVE s[i] > CrashWindow
    OBVIOUS
  <2>1. i \notin In /\ i \in 1 .. Len(s) /\ s[i] \in Nat
    BY <1>1, <1>3, <1>4
  <2> QED
    BY <2>1
<1>6. \A i \in k + 1 .. Len(s) : s[i] <= CrashWindow
  <2> SUFFICES ASSUME NEW i \in k + 1 .. Len(s) PROVE s[i] <= CrashWindow
    OBVIOUS
  <2>1. m \in 1 .. Len(s) /\ m <= i /\ i \in 1 .. Len(s)
    BY <1>1, <1>4
  <2>2. s[m] >= s[i] /\ s[m] \in Nat /\ s[i] \in Nat
    BY <1>1, <2>1 DEF Aged
  <2>3. s[m] <= CrashWindow
    BY <1>1, <2>1
  <2> QED
    BY <2>2, <2>3
<1> HIDE DEF k, In
<1>7. InCrashWindow(s) = Part(s, k, Len(s) - k)
  BY <1>1, <1>4, <1>5, <1>6, LoopKeepsRest
<1>8. \A i \in 1 .. Len(s) - k : s[k + i] \in 0 .. CrashWindow + 1 /\ s[k + i] <= CrashWindow
  BY <1>1, <1>4, <1>6 DEF Aged
<1> DEFINE n == Len(s) - k
           p == Part(s, k, n)
<1>9. n \in Nat
  BY <1>1, <1>4
<1> HIDE DEF n
<1>10. \A i \in 1 .. n : p[i] = s[k + i] /\ s[k + i] \in 0 .. CrashWindow + 1
  BY <1>8 DEF Part, n
<1>11. p \in Seq(0 .. CrashWindow + 1) /\ Len(p) = n
  BY <1>9, <1>10, IsASeq DEF Part
<1> HIDE DEF p
<1>12. \A i, j \in 1 .. n : i <= j => p[i] >= p[j]
  <2> SUFFICES ASSUME NEW i \in 1 .. n, NEW j \in 1 .. n, i <= j PROVE p[i] >= p[j]
    OBVIOUS
  <2>1. k + i \in 1 .. Len(s) /\ k + j \in 1 .. Len(s) /\ k + i <= k + j
    BY <1>1, <1>4, <1>9 DEF n
  <2> QED
    BY <1>10, <2>1 DEF Aged
<1>13. Aged(p)
  BY <1>11, <1>12 DEF Aged
<1>14. InCrashWindow(s) = p
  BY <1>7 DEF n, p
<1> QED
  BY <1>4, <1>5, <1>8, <1>10, <1>11, <1>13, <1>14 DEF Leaves, n

\* Time passes for every entry alike.
LEMMA AllOlder ==
  ASSUME NEW s, Aged(s), NEW d \in Nat
  PROVE  /\ Aged(OlderBy(s, d)) /\ Len(OlderBy(s, d)) = Len(s)
         /\ \A i \in 1 .. Len(s) :
              OlderBy(s, d)[i] = IF s[i] + d > CrashWindow THEN CrashWindow + 1 ELSE s[i] + d
<1> USE LauncherAssumption
<1>1. /\ Len(s) \in Nat /\ DOMAIN s = 1 .. Len(s)
      /\ \A i \in 1 .. Len(s) : s[i] \in 0 .. CrashWindow + 1
  BY DEF Aged
<1>2. \A i \in 1 .. Len(s) :
        OlderBy(s, d)[i] = IF s[i] + d > CrashWindow THEN CrashWindow + 1 ELSE s[i] + d
  BY <1>1 DEF OlderBy
<1>3. \A i \in 1 .. Len(s) :
        (IF s[i] + d > CrashWindow THEN CrashWindow + 1 ELSE s[i] + d) \in 0 .. CrashWindow + 1
  BY <1>1
<1>4. OlderBy(s, d) \in Seq(0 .. CrashWindow + 1) /\ Len(OlderBy(s, d)) = Len(s)
  BY <1>1, <1>3, IsASeq DEF OlderBy
<1>5. Aged(OlderBy(s, d))
  <2> SUFFICES ASSUME NEW i \in 1 .. Len(s), NEW j \in 1 .. Len(s), i <= j
               PROVE  OlderBy(s, d)[i] >= OlderBy(s, d)[j]
    BY <1>4 DEF Aged
  <2>1. s[i] >= s[j] /\ s[i] \in Nat /\ s[j] \in Nat
    BY <1>1 DEF Aged
  <2> QED
    BY <1>2, <2>1
<1> QED
  BY <1>2, <1>4, <1>5

\* crash_tracker_record on an array that is not full: the newest entry is 0.
LEMMA RecordAppends ==
  ASSUME NEW s, Aged(s), Len(s) < CrashLimit
  PROVE  /\ Record(s) = Append(InCrashWindow(s), 0)
         /\ Aged(Record(s)) /\ Len(Record(s)) <= Len(s) + 1
         /\ Len(Record(s)) = Len(InCrashWindow(s)) + 1
         /\ Record(s)[Len(Record(s))] = 0
         /\ \A i \in 1 .. Len(InCrashWindow(s)) : Record(s)[i] = InCrashWindow(s)[i]
<1> USE LauncherAssumption
<1>1. PICK k \in 0 .. Len(s) : Leaves(s, k)
  BY OldestLeave
<1> DEFINE q == InCrashWindow(s)
<1>2. Aged(q) /\ Len(q) \in Nat /\ Len(q) <= Len(s) /\ Len(s) \in Nat
  BY <1>1 DEF Leaves, Aged
<1>3. Record(s) = Append(q, 0)
  BY <1>2 DEF Record
<1> HIDE DEF q
<1>4. /\ q \in Seq(0 .. CrashWindow + 1) /\ 0 \in 0 .. CrashWindow + 1
      /\ \A i, j \in 1 .. Len(q) : i <= j => q[i] >= q[j]
  BY <1>2 DEF Aged
<1>5. /\ Append(q, 0) \in Seq(0 .. CrashWindow + 1) /\ Len(Append(q, 0)) = Len(q) + 1
      /\ \A i \in 1 .. Len(q) : Append(q, 0)[i] = q[i] /\ q[i] >= 0
      /\ Append(q, 0)[Len(q) + 1] = 0
  BY <1>4, AppendProperties
<1> DEFINE a == Append(q, 0)
<1> HIDE DEF a
<1>6. Aged(a)
  <2> SUFFICES ASSUME NEW i \in 1 .. Len(q) + 1, NEW j \in 1 .. Len(q) + 1, i <= j
               PROVE  a[i] >= a[j]
    BY <1>5 DEF Aged, a
  <2>1. CASE j = Len(q) + 1
    <3>1. a[j] = 0 /\ a[i] \in Nat
      BY <1>2, <1>4, <1>5, <2>1 DEF a
    <3> QED
      BY <3>1
  <2>2. CASE j # Len(q) + 1
    <3>1. i \in 1 .. Len(q) /\ j \in 1 .. Len(q)
      BY <1>2, <2>2
    <3> QED
      BY <1>4, <1>5, <3>1 DEF a
  <2> QED
    BY <2>1, <2>2
<1> QED
  BY <1>2, <1>3, <1>5, <1>6 DEF q, a

-----------------------------------------------------------------------------
(* The bound on starts. *)

\* Time passes: forks that leave the window were older than every fork that
\* stays, so the pairs that are left are the pairs there were.
LEMMA ElapseKeeps ==
  ASSUME Tracker, NEW d \in Nat, Elapse(d)
  PROVE  /\ Aged(crashes') /\ Len(crashes') = Len(crashes)
         /\ Aged(forkfails') /\ Len(forkfails') = Len(forkfails)
         /\ Aged(spawns') /\ (\A i \in 1 .. Len(spawns') : spawns'[i] <= CrashWindow)
         /\ Len(spawns') <= Len(spawns)
         /\ \A p \in {0, 1} : Paired(p) => Paired(p)'
<1> USE LauncherAssumption
<1>1. Aged(crashes) /\ Aged(forkfails) /\ Aged(spawns)
  BY DEF Tracker
<1>2. /\ Aged(crashes') /\ Len(crashes') = Len(crashes)
      /\ \A i \in 1 .. Len(crashes) :
           crashes'[i] = IF crashes[i] + d > CrashWindow THEN CrashWindow + 1 ELSE crashes[i] + d
  BY <1>1, AllOlder DEF Elapse
<1>3. Aged(forkfails') /\ Len(forkfails') = Len(forkfails)
  BY <1>1, AllOlder DEF Elapse
<1> DEFINE o == OlderBy(spawns, d)
<1>4. /\ Aged(o) /\ Len(o) = Len(spawns)
      /\ \A i \in 1 .. Len(spawns) :
           o[i] = IF spawns[i] + d > CrashWindow THEN CrashWindow + 1 ELSE spawns[i] + d
  BY <1>1, AllOlder
<1>5. spawns' = InCrashWindow(o)
  BY DEF Elapse
<1> HIDE DEF o
<1>6. PICK k \in 0 .. Len(o) : Leaves(o, k)
  BY <1>4, OldestLeave
<1>7. /\ Aged(spawns') /\ Len(spawns') = Len(spawns) - k
      /\ \A i \in 1 .. Len(spawns) - k : spawns'[i] = o[k + i] /\ o[k + i] <= CrashWindow
  BY <1>4, <1>5, <1>6 DEF Leaves
<1>8. Len(spawns) \in Nat /\ Len(crashes) \in Nat /\ k \in 0 .. Len(spawns)
  BY <1>1, <1>4 DEF Aged
<1>9. ASSUME NEW p \in {0, 1}, Paired(p) PROVE Paired(p)'
  <2>1. Len(spawns) <= Len(crashes) + p
    BY <1>9 DEF Paired
  <2>2. ASSUME NEW j \in 0 .. Len(crashes) - 1, j < Len(spawns') - p
        PROVE  spawns'[Len(spawns') - p - j] >= crashes'[Len(crashes) - j]
    <3> DEFINE a == Len(spawns) - p - j
               b == Len(crashes) - j
    <3>1. spawns[a] >= crashes[b]
      BY <1>7, <1>8, <1>9, <2>2 DEF Paired
    <3>2. /\ a \in 1 .. Len(spawns) /\ b \in 1 .. Len(crashes)
          /\ Len(spawns') - p - j \in 1 .. Len(spawns) - k
          /\ k + (Len(spawns') - p - j) = a
      BY <1>7, <1>8, <2>2
    <3> HIDE DEF a, b
    <3>3. spawns'[Len(spawns') - p - j] = o[a]
      BY <1>7, <3>2
    <3>4. spawns[a] \in Nat /\ crashes[b] \in Nat
      <4>1. /\ \A i \in 1 .. Len(spawns) : spawns[i] \in Nat
            /\ \A i \in 1 .. Len(crashes) : crashes[i] \in Nat
        BY <1>1, AgesAreNat, Zenon
      <4> QED
        BY <3>2, <4>1
    <3>5. /\ o[a] = IF spawns[a] + d > CrashWindow THEN CrashWindow + 1 ELSE spawns[a] + d
          /\ crashes'[b] = IF crashes[b] + d > CrashWindow THEN CrashWindow + 1 ELSE crashes[b] + d
      BY <1>2, <1>4, <3>2
    <3>6. o[a] >= crashes'[b]
      BY <3>1, <3>4, <3>5
    <3> QED
      BY <3>3, <3>6 DEF b
  <2> QED
    BY <1>2, <1>7, <1>8, <2>1, <2>2 DEF Paired
<1> QED
  BY <1>2, <1>3, <1>7, <1>8, <1>9

\* The end of a dpid goes on record.  A fork still in the window has its crash
\* there too, and the last fork now has the newest crash.
LEMMA RecordPairs ==
  ASSUME Tracker, Paired(1), Len(crashes) < CrashLimit,
         crashes' = Record(crashes), spawns' = spawns
  PROVE  Paired(0)'
<1> USE LauncherAssumption
<1> DEFINE c == Record(crashes)
           q == InCrashWindow(crashes)
<1>1. Aged(crashes) /\ Aged(spawns) /\ \A i \in 1 .. Len(spawns) : spawns[i] <= CrashWindow
  BY DEF Tracker
<1>2. PICK k \in 0 .. Len(crashes) : Leaves(crashes, k)
  BY <1>1, OldestLeave
<1>3. /\ Len(q) = Len(crashes) - k
      /\ \A i \in 1 .. k : crashes[i] > CrashWindow
      /\ \A i \in 1 .. Len(crashes) - k : q[i] = crashes[k + i]
  BY <1>2 DEF Leaves
<1>4. /\ Len(c) = Len(q) + 1 /\ c[Len(c)] = 0
      /\ \A i \in 1 .. Len(q) : c[i] = q[i]
  BY <1>1, RecordAppends
<1> HIDE DEF c, q
<1>5. Len(spawns) \in Nat /\ Len(crashes) \in Nat
  BY <1>1 DEF Aged
<1>6. /\ \A i \in 1 .. Len(spawns) : spawns[i] \in Nat
      /\ \A i \in 1 .. Len(crashes) : crashes[i] \in Nat
  BY <1>1, AgesAreNat, Zenon
<1>7. ASSUME NEW j \in 0 .. Len(crashes) - 1, j < Len(spawns) - 1
      PROVE  /\ Len(crashes) - j > k
             /\ spawns[Len(spawns) - 1 - j] >= crashes[Len(crashes) - j]
  <2> DEFINE a == Len(spawns) - 1 - j
             b == Len(crashes) - j
  <2>1. spawns[a] >= crashes[b]
    BY <1>7 DEF Paired
  <2>2. a \in 1 .. Len(spawns) /\ b \in 1 .. Len(crashes)
    BY <1>5, <1>7
  <2> HIDE DEF a, b
  <2>3. crashes[b] <= CrashWindow
    BY <1>1, <1>6, <2>1, <2>2
  <2>4. b > k
    BY <1>3, <1>5, <1>6, <2>2, <2>3
  <2> QED
    BY <2>1, <2>4 DEF a, b
<1>8. Len(spawns) <= Len(c)
  <2>1. CASE Len(spawns) <= 1
    BY <1>3, <1>4, <1>5, <2>1
  <2>2. CASE Len(spawns) > 1
    <3>1. Len(spawns) - 2 \in 0 .. Len(crashes) - 1
      BY <1>5, <2>2 DEF Paired
    <3>2. Len(crashes) - (Len(spawns) - 2) > k
      BY <1>5, <1>7, <2>2, <3>1
    <3> QED
      BY <1>3, <1>4, <1>5, <3>2
  <2> QED
    BY <1>5, <2>1, <2>2
<1>9. ASSUME NEW j \in 0 .. Len(c) - 1, j < Len(spawns)
      PROVE  spawns[Len(spawns) - j] >= c[Len(c) - j]
  <2>1. CASE j = 0
    BY <1>4, <1>5, <1>6, <1>9, <2>1
  <2>2. CASE j # 0
    <3> DEFINE h == j - 1
    <3>1. h \in 0 .. Len(crashes) - 1 /\ h < Len(spawns) - 1 /\ j = h + 1
      BY <1>3, <1>4, <1>5, <1>9, <2>2
    <3> HIDE DEF h
    <3>2. spawns[Len(spawns) - 1 - h] >= crashes[Len(crashes) - h]
      BY <1>7, <3>1
    <3>3. Len(c) - j \in 1 .. Len(q) /\ k + (Len(c) - j) = Len(crashes) - h
      BY <1>3, <1>4, <1>5, <1>9, <3>1
    <3>4. c[Len(c) - j] = crashes[Len(crashes) - h]
      BY <1>3, <1>4, <3>3
    <3>5. Len(spawns) - j = Len(spawns) - 1 - h
      BY <1>5, <3>1
    <3> QED
      BY <3>2, <3>4, <3>5
  <2> QED
    BY <2>1, <2>2
<1>10. Len(c) \in Nat
  BY <1>3, <1>4, <1>5
<1>11. spawns' = spawns /\ crashes' = c
  BY DEF c
<1> QED
  BY <1>5, <1>8, <1>9, <1>10, <1>11 DEF Paired

\* The main thread goes on without touching the tracker: to the end, or without
\* forking or recording anything.
Onward ==
  /\ lpc = "exited" => lpc' = "exited"
  /\ \/ Ending'
     \/ /\ ~Ending /\ (Waiting' <=> Waiting)
        /\ lpc \in {"storm", "cooldown"} => lpc' \in {"storm", "cooldown"}

\* A step that records nothing keeps the pairs, wherever the thread has gone.
LEMMA BooksKept ==
  ASSUME Tracker, UNCHANGED <<backoff, crashes, forkfails, spawns>>, Onward
  PROVE  Tracker'
<1>1. (Paired(0)' <=> Paired(0)) /\ (Paired(1)' <=> Paired(1))
  BY DEF Paired
<1>2. backoff' = backoff /\ crashes' = crashes /\ forkfails' = forkfails /\ spawns' = spawns
  OBVIOUS
<1>3. Ending => Ending'
  BY DEF Onward
<1>4. /\ backoff' \in BackoffMin .. 2 * BackoffMax
      /\ Aged(crashes)' /\ Len(crashes') <= CrashLimit
      /\ Aged(forkfails)' /\ Len(forkfails') <= CrashLimit
      /\ Aged(spawns)' /\ (\A i \in 1 .. Len(spawns') : spawns'[i] <= CrashWindow)
      /\ Len(spawns') <= CrashLimit
  BY <1>2 DEF Tracker, Aged
<1>6. lpc' # "exited" => Len(forkfails') < CrashLimit
  BY <1>2 DEF Tracker, Onward
<1>7. ~Ending' /\ lpc' \notin {"storm", "cooldown"} => Len(crashes') < CrashLimit
  BY <1>2, <1>3 DEF Tracker, Onward
<1>8. (Waiting' => Paired(1)') /\ (~Waiting' /\ ~Ending' => Paired(0)')
  <2>1. Waiting' => ~Ending'
    BY DEF Waiting, Ending
  <2> QED
    BY <1>1, <2>1 DEF Tracker, Onward
<1> QED
  BY <1>4, <1>6, <1>7, <1>8 DEF Tracker

\* A step of the launcher, of its signal handler or of dpid keeps the tracker's
\* books: forks and crashes stay paired, and a full array means a cool-down.
LEMMA TrackerStep == LauncherInv /\ Tracker /\ [LauncherNext]_launcherVars => Tracker'
<1> SUFFICES ASSUME LauncherInv, Tracker, [LauncherNext]_launcherVars PROVE Tracker'
  OBVIOUS
<1> USE LauncherAssumption
<1>0. lpc \in LPC
  BY DEF LauncherInv
<1> DEFINE Books == <<backoff, crashes, forkfails, spawns>>
<1>1. CASE UNCHANGED Books /\ Onward
  BY <1>1, BooksKept
<1>2. CASE Start \/ Cool \/ Forked \/ Recheck \/ Wait \/ Blocked \/ Eintr \/ Reaped \/ StormOnce
             \/ Stop \/ Drain \/ Killed \/ OnTerm
  BY <1>0, <1>1, <1>2 DEF LPC, Onward, Waiting, Ending, Start, Cool, Forked, Recheck, Wait,
     Blocked, Eintr, Reaped, StormOnce, Stop, Drain, Killed, OnTerm
<1>3. CASE Exec \/ DpidTerm \/ DpidExit \/ UNCHANGED launcherVars
  BY <1>1, <1>3 DEF Onward, Exec, DpidTerm, DpidExit, launcherVars, Waiting, Ending
<1>4. CASE Loop
  <2>1. CASE spawns' = Append(spawns, 0) /\ lpc' = "forked"
    <3>1. Aged(spawns) /\ Len(spawns) \in Nat /\ Len(crashes) \in Nat /\ Paired(0)
          /\ Len(crashes) < CrashLimit
      BY <1>4 DEF Tracker, Aged, Loop, Waiting, Ending
    <3>2. /\ spawns' \in Seq(0 .. CrashWindow + 1) /\ Len(spawns') = Len(spawns) + 1
          /\ \A i \in 1 .. Len(spawns) : spawns'[i] = spawns[i] /\ spawns[i] \in Nat
          /\ spawns'[Len(spawns) + 1] = 0
      BY <2>1, <3>1, AppendProperties DEF Aged
    <3>3. Aged(spawns')
      <4> SUFFICES ASSUME NEW i \in 1 .. Len(spawns) + 1, NEW j \in 1 .. Len(spawns) + 1, i <= j
                   PROVE  spawns'[i] >= spawns'[j]
        BY <3>2 DEF Aged
      <4>1. CASE j = Len(spawns) + 1
        BY <3>1, <3>2, <4>1
      <4>2. CASE j # Len(spawns) + 1
        <5>1. i \in 1 .. Len(spawns) /\ j \in 1 .. Len(spawns)
          BY <3>1, <4>2
        <5> QED
          BY <3>1, <3>2, <5>1 DEF Aged
      <4> QED
        BY <4>1, <4>2
    <3>4. \A i \in 1 .. Len(spawns') : spawns'[i] <= CrashWindow
      BY <3>1, <3>2 DEF Tracker
    <3>5. Paired(1)'
      <4>1. crashes' = crashes
        BY <1>4 DEF Loop
      <4>2. ASSUME NEW j \in 0 .. Len(crashes) - 1, j < Len(spawns') - 1
            PROVE  spawns'[Len(spawns') - 1 - j] >= crashes[Len(crashes) - j]
        <5>1. Len(spawns') - 1 - j = Len(spawns) - j /\ Len(spawns) - j \in 1 .. Len(spawns)
          BY <3>1, <3>2, <4>2
        <5>2. spawns[Len(spawns) - j] >= crashes[Len(crashes) - j]
          BY <3>1, <3>2, <4>2, <5>1 DEF Paired
        <5> QED
          BY <3>2, <5>1, <5>2
      <4> QED
        BY <3>1, <3>2, <4>1, <4>2 DEF Paired
    <3>6. Len(spawns') <= CrashLimit
      BY <3>1, <3>2 DEF Paired
    <3> QED
      BY <1>4, <2>1, <3>1, <3>3, <3>4, <3>5, <3>6 DEF Tracker, Loop, Waiting, Ending
  <2> QED
    <3>1. CASE UNCHANGED spawns
      BY <1>1, <1>4, <3>1 DEF Loop, Onward, Waiting, Ending
    <3> QED
      BY <1>4, <2>1, <3>1 DEF Loop
<1>5. CASE ForkFail
  <2>1. Aged(forkfails) /\ Len(forkfails) < CrashLimit /\ Len(forkfails) \in Nat
    BY <1>5 DEF Tracker, ForkFail, Aged
  <2>2. Aged(forkfails') /\ Len(forkfails') <= Len(forkfails) + 1 /\ Len(forkfails') \in Nat
    BY <1>5, <2>1, RecordAppends DEF ForkFail, Aged
  <2>3. lpc' # "exited" => Len(forkfails') < CrashLimit
    BY <1>5, <2>2 DEF ForkFail, Storm
  <2> QED
    BY <1>5, <2>1, <2>2, <2>3 DEF Tracker, Paired, Waiting, Ending, ForkFail
<1>6. CASE Decide
  <2>1. CASE shutdown /\ lpc' = "stop" /\ UNCHANGED crashes
    BY <1>1, <1>6, <2>1 DEF Decide, Onward, Waiting, Ending
  <2>2. CASE ~shutdown /\ crashes' = Record(crashes) /\ lpc' = IF Storm(crashes') THEN "storm" ELSE "pause"
    <3>1. Aged(crashes) /\ Len(crashes) < CrashLimit /\ Len(crashes) \in Nat /\ Paired(1)
      BY <1>6 DEF Tracker, Decide, Aged, Waiting, Ending
    <3>2. Aged(crashes') /\ Len(crashes') <= Len(crashes) + 1 /\ Len(crashes') \in Nat
      BY <2>2, <3>1, RecordAppends DEF Aged
    <3>3. lpc' # "storm" => Len(crashes') < CrashLimit
      BY <2>2, <3>2 DEF Storm
    <3>4. Paired(0)'
      BY <1>6, <2>2, <3>1, RecordPairs DEF Decide
    <3>5. lpc' \in {"storm", "pause"}
      BY <2>2
    <3> QED
      BY <1>6, <3>1, <3>2, <3>3, <3>4, <3>5 DEF Tracker, Decide, Waiting, Ending
  <2> QED
    BY <1>6, <2>1, <2>2 DEF Decide
<1>7. CASE StormCooldown
  <2>1. /\ Aged(forkfails') /\ Len(forkfails') = Len(forkfails)
    BY <1>7, AllOlder DEF StormCooldown, Tracker
  <2>2. spawns' = <<>>
    <3> DEFINE o == OlderBy(spawns, CrashCooldown)
    <3>1. /\ Aged(o) /\ Len(o) = Len(spawns)
          /\ \A i \in 1 .. Len(spawns) : o[i] = CrashWindow + 1
      <4>1. /\ Aged(spawns) /\ Len(spawns) \in Nat
            /\ \A i \in 1 .. Len(spawns) : spawns[i] \in Nat
        BY DEF Tracker, Aged
      <4> QED
        BY <4>1, AllOlder, CooldownAssumption
    <3> HIDE DEF o
    <3>2. PICK k \in 0 .. Len(o) : Leaves(o, k)
      BY <3>1, OldestLeave
    <3>3. spawns' = InCrashWindow(o) /\ spawns' \in Seq(0 .. CrashWindow + 1) /\ Len(spawns') = Len(o) - k
      BY <1>7, <3>2 DEF StormCooldown, Leaves, Aged, o
    <3>4. Len(o) - k = 0
      <4>1. Len(o) \in Nat
        BY <3>1 DEF Aged
      <4>2. 1 \in 1 .. Len(o) - k => o[k + 1] <= CrashWindow /\ k + 1 \in 1 .. Len(spawns)
        BY <3>1, <3>2, <4>1 DEF Leaves
      <4> QED
        BY <3>1, <4>1, <4>2
    <3> QED
      BY <3>3, <3>4, EmptySeq
  <2>3. Aged(<<>>) /\ Len(<<>>) = 0
    BY DEF Aged
  <2>4. Paired(0)'
    BY <1>7, <2>2 DEF Paired, StormCooldown
  <2> QED
    BY <1>7, <2>1, <2>2, <2>3, <2>4 DEF Tracker, StormCooldown, Waiting, Ending
<1>8. CASE Pause
  <2>1. backoff \in Nat /\ Elapse(backoff) /\ lpc = "pause" /\ lpc' = "loop"
    BY <1>8 DEF Pause, Tracker
  <2>2. backoff' \in BackoffMin .. 2 * BackoffMax
    BY <1>8 DEF Pause, Tracker, NextBackoff
  <2>3. Paired(0)
    BY <2>1 DEF Tracker, Waiting, Ending
  <2>4. Len(spawns) \in Nat /\ Len(crashes) \in Nat /\ Len(spawns') \in Nat
    BY <2>1, ElapseKeeps DEF Tracker, Aged
  <2> QED
    BY <2>1, <2>2, <2>3, <2>4, ElapseKeeps DEF Tracker, Waiting, Ending
<1>9. CASE DpidCrash
  <2>1. PICK d \in Nat : Elapse(d)
    BY <1>9 DEF DpidCrash
  <2>2. UNCHANGED <<lpc, backoff>>
    BY <1>9 DEF DpidCrash
  <2>3. Len(spawns) \in Nat /\ Len(crashes) \in Nat /\ Len(spawns') \in Nat
    BY <2>1, ElapseKeeps DEF Tracker, Aged
  <2> QED
    BY <2>1, <2>2, <2>3, ElapseKeeps DEF Tracker, Waiting, Ending
<1> QED
  BY <1>2, <1>3, <1>4, <1>5, <1>6, <1>7, <1>8, <1>9 DEF LauncherNext, Main

\* The arrays start empty.
LEMMA TrackerInit == LauncherInit => Tracker
<1>1. Aged(<<>>) /\ Len(<<>>) = 0
  BY DEF Aged
<1> QED
  BY <1>1, LauncherAssumption DEF LauncherInit, Tracker, Paired, Waiting, Ending

\* StormBound: in no CRASH_WINDOW_SEC are there more than CRASH_LIMIT starts of
\* dpid, for every window, limit, pause and cool-down longer than the window.
THEOREM StartsBounded == LauncherSpec => []StormBound
<1>1. Tracker => StormBound
  BY DEF Tracker, StormBound
<1> QED
  BY <1>1, TrackerInit, TrackerStep, Invariance, PTL DEF LauncherSpec

\* LauncherTypeOK: the pause doubles at most once past its maximum, and no array of
\* time stamps outgrows CRASH_LIMIT.
THEOREM LauncherTyped == LauncherSpec => []LauncherTypeOK
<1> DEFINE Flags == shutdown \in BOOLEAN /\ gchild \in BOOLEAN /\ flag \in BOOLEAN
                      /\ pidfile \in BOOLEAN
<1>1. LauncherInit => Flags
  BY Zenon DEF LauncherInit
<1>2. Flags /\ [LauncherNext]_launcherVars => Flags'
  BY DEF LauncherNext, Main, Start, Cool, Loop, ForkFail, Forked, Recheck, Wait, Blocked, Eintr,
     Reaped, Decide, StormOnce, StormCooldown, Pause, Stop, Drain, Killed, OnTerm, Exec,
     DpidCrash, DpidTerm, DpidExit, launcherVars
<1>3. Tracker => spawns \in Seq(0 .. CrashWindow)
  <2> SUFFICES ASSUME Tracker PROVE spawns \in Seq(0 .. CrashWindow)
    OBVIOUS
  <2> DEFINE n == Len(spawns)
  <2>1. spawns \in Seq(0 .. CrashWindow + 1) /\ n \in Nat
    BY DEF Tracker, Aged
  <2>2. \A i \in 1 .. n : spawns[i] \in 0 .. CrashWindow
    BY <2>1, LauncherAssumption DEF Tracker
  <2>3. spawns = [i \in 1 .. n |-> spawns[i]]
    BY <2>1
  <2> HIDE DEF n
  <2>4. [i \in 1 .. n |-> spawns[i]] \in Seq(0 .. CrashWindow)
    BY <2>1, <2>2, IsASeq
  <2> QED
    BY <2>3, <2>4
<1>4. LauncherInv /\ Tracker /\ Flags => LauncherTypeOK
  BY <1>3 DEF LauncherInv, Tracker, Aged, LauncherTypeOK
<1> QED
  BY <1>1, <1>2, <1>4, TrackerInit, TrackerStep, Invariance, PTL DEF LauncherSpec

-----------------------------------------------------------------------------
(* The watchdog.                                                           *)

\* A set of numbers that is not empty has a least one.
LEMMA LeastOf ==
  ASSUME NEW T \in SUBSET Nat, T # {}
  PROVE  \E m \in T : \A n \in T : m <= n
<1> DEFINE R == OpToRel(<, Nat)
<1>1. IsWellFoundedOn(R, Nat)
  BY NatLessThanWellFounded
<1>2. \A x, y \in Nat : y < x => <<y, x>> \in R
  BY DEF OpToRel
<1> HIDE DEF R
<1>3. PICK m \in T : \A y \in T : ~ (<<y, m>> \in R)
  BY <1>1, WFMin
<1>4. ASSUME NEW n \in T PROVE m <= n
  <2>1. m \in Nat /\ n \in Nat
    OBVIOUS
  <2>2. ~ (n < m)
    BY <1>2, <1>3, <2>1
  <2> QED
    BY <2>1, <2>2
<1> QED
  BY <1>4

-----------------------------------------------------------------------------
(* The cool-down.                                                          *)

\* Doubling is defined for every number of failures.
LEMMA ShiftedDefined ==
  Shifted = [n \in 0 .. MaxBackoff |-> IF n = 0 THEN SpawnBase ELSE 2 * Shifted[n - 1]]
<1> DEFINE Is(f, m) == f = [i \in 0 .. m |-> IF i = 0 THEN SpawnBase ELSE 2 * f[i - 1]]
           T == {m \in Nat : ~\E f : Is(f, m)}
<1>1. Shifted = (CHOOSE f : Is(f, MaxBackoff))
  BY Zenon DEF Shifted
<1>2. T = {}
  <2> SUFFICES ASSUME T # {} PROVE FALSE
    OBVIOUS
  <2>1. PICK m \in T : \A k \in T : m <= k
    BY LeastOf
  <2>2. m \in Nat /\ ~\E f : Is(f, m)
    BY <2>1
  <2>3. m # 0
    <3> SUFFICES ASSUME m = 0 PROVE FALSE
      OBVIOUS
    <3>1. PICK f : f = [i \in 0 .. 0 |-> SpawnBase]
      OBVIOUS
    <3>2. f = [i \in 0 .. 0 |-> IF i = 0 THEN SpawnBase ELSE 2 * f[i - 1]]
      BY <3>1
    <3> QED
      BY <2>2, <3>2
  <2>4. m - 1 \in Nat /\ ~(m <= m - 1)
    BY <2>2, <2>3
  <2>5. \E f : Is(f, m - 1)
    BY <2>1, <2>4
  <2>6. PICK f : f = [i \in 0 .. m - 1 |-> IF i = 0 THEN SpawnBase ELSE 2 * f[i - 1]]
    BY <2>5
  <2>7. PICK g : g = [i \in 0 .. m |-> IF i = m THEN 2 * f[m - 1] ELSE f[i]]
    OBVIOUS
  <2>8. \A i \in 0 .. m - 1 : g[i] = f[i]
    BY <2>2, <2>7
  <2>9. ASSUME NEW i \in 0 .. m PROVE g[i] = IF i = 0 THEN SpawnBase ELSE 2 * g[i - 1]
    <3>1. CASE i = 0
      BY <2>2, <2>3, <2>6, <2>8, <3>1
    <3>2. CASE i # 0 /\ i # m
      <4>1. i \in 0 .. m - 1 /\ i - 1 \in 0 .. m - 1
        BY <2>2, <3>2
      <4>2. g[i] = f[i] /\ g[i - 1] = f[i - 1]
        BY <2>8, <4>1
      <4>3. f[i] = 2 * f[i - 1]
        BY <2>6, <3>2, <4>1
      <4> QED
        BY <3>2, <4>2, <4>3, Zenon
    <3>3. CASE i = m
      <4>1. g[m - 1] = f[m - 1] /\ g[m] = 2 * f[m - 1]
        BY <2>2, <2>3, <2>4, <2>7, <2>8
      <4> QED
        BY <2>3, <3>3, <4>1, Zenon
    <3> QED
      BY <3>1, <3>2, <3>3
  <2>10. g = [i \in 0 .. m |-> IF i = 0 THEN SpawnBase ELSE 2 * g[i - 1]]
    BY <2>7, <2>9
  <2> QED
    BY <2>2, <2>10
<1>3. \E f : Is(f, MaxBackoff)
  BY <1>2, GuardAssumption
<1>4. Is(CHOOSE f : Is(f, MaxBackoff), MaxBackoff)
  <2> HIDE DEF Is
  <2> QED
    BY <1>3, Zenon
<1> QED
  BY <1>1, <1>4, Zenon

\* Each failure at least doubles the first pause.
LEMMA ShiftedGrows ==
  /\ Shifted[0] = SpawnBase /\ Shifted[1] = 2 * SpawnBase
  /\ \A n \in 0 .. MaxBackoff : Shifted[n] \in Nat /\ (n >= 2 => Shifted[n] >= 4 * SpawnBase)
<1>0. MaxBackoff \in Nat /\ MaxBackoff >= 2 /\ SpawnBase \in Nat
  BY GuardAssumption, StormAssumption
<1>1. \A n \in 0 .. MaxBackoff : Shifted[n] = IF n = 0 THEN SpawnBase ELSE 2 * Shifted[n - 1]
  BY ShiftedDefined, Zenon
<1>2. Shifted[0] = SpawnBase /\ Shifted[1] = 2 * SpawnBase /\ Shifted[2] = 4 * SpawnBase
  <2>1. Shifted[0] = SpawnBase
    BY <1>0, <1>1
  <2>2. Shifted[1] = 2 * Shifted[1 - 1]
    BY <1>0, <1>1
  <2>3. Shifted[2] = 2 * Shifted[2 - 1]
    BY <1>0, <1>1
  <2> QED
    BY <1>0, <2>1, <2>2, <2>3
<1> DEFINE Good(n) == Shifted[n] \in Nat /\ (n >= 2 => Shifted[n] >= 4 * SpawnBase)
           T == {n \in 0 .. MaxBackoff : ~Good(n)}
<1>3. T = {}
  <2> SUFFICES ASSUME T # {} PROVE FALSE
    OBVIOUS
  <2>1. T \in SUBSET Nat
    BY <1>0
  <2>2. PICK n \in T : \A m \in T : n <= m
    BY <2>1, LeastOf
  <2>3. n \in 0 .. MaxBackoff /\ ~Good(n)
    BY <2>2
  <2>4. n > 2
    BY <1>0, <1>2, <2>3
  <2>5. n - 1 \in 0 .. MaxBackoff /\ ~(n <= n - 1) /\ n - 1 >= 2
    BY <1>0, <2>3, <2>4
  <2>6. Good(n - 1)
    BY <2>2, <2>5
  <2>7. Shifted[n] = 2 * Shifted[n - 1]
    BY <1>1, <2>3, <2>4
  <2> QED
    BY <1>0, <2>3, <2>5, <2>6, <2>7
<1> QED
  BY <1>2, <1>3

-----------------------------------------------------------------------------
(* The rhythm of the starts.                                               *)

\* What two starts in a row take, and how far one first failure is ahead.
Pair == FirstPause + QuickDeath
Ahead == QuickDeath - FirstPause

\* From each start to the last one enough time passed, but for slack.
Apart(s, slack) == \A j \in 1 .. Len(s) : 2 * (s[j] - s[Len(s)]) >= (Len(s) - j) * Pair - slack

Rhythm(g, s) ==
  s # <<>> =>
    /\ g.last = s[Len(s)] /\ Apart(s, Ahead)
    /\ g.fails = 0 /\ ~g.counted => Apart(s, 0)
    /\ g.fails = 0 /\ g.counted => g.last >= QuickDeath
    /\ g.fails > 0 /\ g.counted => g.last >= QuickDeath \/ g.fails >= 2 \/ Apart(s, 0)

Ages == 0 .. Window - 1

\* The constants as numbers.
LEMMA Numbers ==
  /\ SpawnBase \in Nat /\ SpawnMax \in Nat /\ QuickDeath \in Nat /\ MaxBackoff \in Nat /\ MaxBackoff >= 2
  /\ FirstPause \in Nat /\ LongPause \in Nat /\ Window \in Nat /\ Window > 0 /\ StartLimit \in Nat
  /\ Pair \in Nat /\ Ahead \in Nat /\ LongPause <= QuickDeath
  /\ 2 * FirstPause = Pair - Ahead /\ 2 * QuickDeath = Pair + Ahead /\ 2 * LongPause >= Pair
<1>1. /\ SpawnBase \in Nat /\ SpawnMax \in Nat /\ QuickDeath \in Nat /\ MaxBackoff \in Nat
      /\ Window \in Nat /\ StartLimit \in Nat
  BY GuardAssumption
<1>2. FirstPause \in Nat /\ LongPause \in Nat /\ LongPause <= QuickDeath
  BY <1>1 DEF FirstPause, LongPause, Least
<1>3. /\ MaxBackoff >= 2 /\ FirstPause <= QuickDeath /\ FirstPause + QuickDeath <= 2 * LongPause /\ Window > 0
  BY StormAssumption, Zenon
<1>4. Pair \in Nat /\ Ahead \in Nat /\ 2 * FirstPause = Pair - Ahead /\ 2 * QuickDeath = Pair + Ahead
  BY <1>1, <1>2, <1>3 DEF Pair, Ahead
<1>5. 2 * LongPause >= Pair
  BY <1>1, <1>2, <1>3 DEF Pair
<1> QED
  BY <1>1, <1>2, <1>3, <1>4, <1>5

\* So many starts do not fit into a window.
LEMMA Budget == StartLimit * Pair > 2 * (Window - 1) + Ahead
  BY StormAssumption, Zenon DEF Pair, Ahead

\* Old is older than everything the code tells apart.
LEMMA OldIs == Old \in Nat /\ Old > Window /\ Old > QuickDeath /\ Old > SpawnMax
<1> DEFINE T == {SpawnMax, QuickDeath, LogFresh, Window}
           m == CHOOSE x \in T : \A n \in T : n <= x
<1>1. SpawnMax \in Nat /\ QuickDeath \in Nat /\ LogFresh \in Nat /\ Window \in Nat
  BY GuardAssumption
<1>2. \E x \in T : \A n \in T : n <= x
  BY <1>1
<1>3. m \in T /\ \A n \in T : n <= m
  <2> HIDE DEF T
  <2> QED
    BY <1>2, Zenon
<1>4. m \in Nat /\ m >= Window /\ m >= QuickDeath /\ m >= SpawnMax
  <2>1. Window \in T /\ QuickDeath \in T /\ SpawnMax \in T
    OBVIOUS
  <2>2. m \in Nat
    BY <1>1, <1>3
  <2> HIDE DEF T, m
  <2> QED
    BY <1>1, <1>3, <2>1, <2>2
<1>5. Old = m + 1
  BY Zenon DEF Old
<1> HIDE DEF m
<1> QED
  BY <1>1, <1>4, <1>5

\* Starts in this rhythm are at most StartLimit.
LEMMA RhythmBound ==
  ASSUME NEW g, NEW s \in Seq(Ages), Rhythm(g, s)
  PROVE  Len(s) <= StartLimit
<1>0. PICK n \in Nat : n = Len(s)
  OBVIOUS
<1> SUFFICES ASSUME n > StartLimit PROVE FALSE
  BY <1>0, Numbers
<1>1. n >= 1 /\ s # <<>> /\ s[1] \in Ages /\ s[n] \in Ages
  BY <1>0, Numbers
<1>2. Apart(s, Ahead)
  BY <1>1, Zenon DEF Rhythm
<1>3. 2 * (s[1] - s[n]) >= (n - 1) * Pair - Ahead
  BY <1>0, <1>1, <1>2 DEF Apart
<1>4. (n - 1) * Pair >= StartLimit * Pair
  <2>1. PICK d \in Nat : n - 1 = StartLimit + d
    <3>1. (n - 1) - StartLimit \in Nat
      BY <1>1, Numbers
    <3> QED
      BY <3>1, Numbers
  <2>2. \A a, b, p \in Nat : (a + b) * p = a * p + b * p /\ a * p \in Nat /\ b * p \in Nat
    OBVIOUS
  <2>3. (n - 1) * Pair = StartLimit * Pair + d * Pair /\ d * Pair \in Nat /\ StartLimit * Pair \in Nat
    BY <2>1, <2>2, Numbers
  <2> QED
    BY <2>3
<1>5. PICK x \in Nat : x = (n - 1) * Pair
  BY <1>1, Numbers
<1>6. PICK y \in Nat : y = StartLimit * Pair
  BY Numbers
<1>7. 2 * (s[1] - s[n]) >= x - Ahead /\ x >= y /\ y > 2 * (Window - 1) + Ahead
  BY <1>3, <1>4, <1>5, <1>6, Budget, Zenon
<1>8. s[1] <= Window - 1 /\ s[n] >= 0 /\ s[1] \in Int /\ s[n] \in Int
  BY <1>1, Numbers DEF Ages
<1>9. Ahead \in Nat /\ Window \in Nat
  BY Numbers
<1> QED
  BY <1>7, <1>8, <1>9

\* A judgement keeps the rhythm, and one of a dead process settles the start.
LEMMA RhythmJudged ==
  ASSUME NEW g \in Gate, NEW s, Rhythm(g, s), NEW live \in BOOLEAN
  PROVE  /\ Rhythm(Observe(g, live), s) /\ Observe(g, live) \in Gate /\ Observe(g, live).last = g.last
         /\ ~live => Observe(g, live).last = Never \/ Observe(g, live).counted
<1>0. /\ g.last \in Never .. Old /\ g.fails \in 0 .. MaxBackoff /\ g.counted \in BOOLEAN
      /\ \A f \in 0 .. MaxBackoff, c \in BOOLEAN :
           /\ [g EXCEPT !.fails = f, !.counted = c] \in Gate
           /\ [g EXCEPT !.fails = f, !.counted = c].last = g.last
           /\ [g EXCEPT !.fails = f, !.counted = c].fails = f
           /\ [g EXCEPT !.fails = f, !.counted = c].counted = c
           /\ [g EXCEPT !.counted = c] \in Gate
           /\ [g EXCEPT !.counted = c].last = g.last
           /\ [g EXCEPT !.counted = c].fails = g.fails
           /\ [g EXCEPT !.counted = c].counted = c
  BY DEF Gate
<1>a. g.last \in Int /\ g.fails \in Int /\ g.fails >= 0 /\ g.fails <= MaxBackoff
  <2>1. g.last \in -1 .. Old /\ g.fails \in 0 .. MaxBackoff
    BY <1>0, Zenon DEF Never
  <2> QED
    BY <2>1, Numbers, OldIs
<1>1. CASE g.last = Never \/ g.counted
  <2>1. Observe(g, live) = g
    BY <1>1 DEF Observe
  <2> QED
    BY <1>1, <2>1
<1>2. CASE ~(g.last = Never \/ g.counted) /\ ~live /\ g.last < QuickDeath
  <2> DEFINE f == Least(g.fails + 1, MaxBackoff)
  <2>1. f \in 0 .. MaxBackoff /\ f > 0 /\ (g.fails > 0 => f >= 2)
    BY <1>a, Numbers DEF Least
  <2>2. Observe(g, live) = [g EXCEPT !.fails = f, !.counted = TRUE]
    BY <1>2 DEF Observe
  <2> HIDE DEF f
  <2>3. /\ Observe(g, live) \in Gate /\ Observe(g, live).last = g.last
        /\ Observe(g, live).fails = f /\ Observe(g, live).counted
    BY <1>0, <2>1, <2>2, ZenonT(30)
  <2>4. s # <<>> => Apart(s, 0) \/ f >= 2
    <3>1. g.fails = 0 \/ g.fails > 0
      BY <1>a
    <3> QED
      BY <1>2, <2>1, <3>1, Zenon DEF Rhythm
  <2>5. Rhythm(Observe(g, live), s)
    BY <2>1, <2>3, <2>4 DEF Rhythm
  <2> QED
    BY <2>3, <2>5
<1>3. CASE ~(g.last = Never \/ g.counted) /\ live /\ g.last >= QuickDeath
  <2>1. Observe(g, live) = [g EXCEPT !.fails = 0, !.counted = TRUE]
    BY <1>3 DEF Observe
  <2>2. /\ Observe(g, live) \in Gate /\ Observe(g, live).last = g.last
        /\ Observe(g, live).fails = 0 /\ Observe(g, live).counted
    <3>1. 0 \in 0 .. MaxBackoff
      BY Numbers
    <3> QED
      BY <1>0, <2>1, <3>1
  <2>3. Rhythm(Observe(g, live), s)
    BY <1>3, <2>2 DEF Rhythm
  <2> QED
    BY <1>3, <2>2, <2>3
<1>4. CASE ~(g.last = Never \/ g.counted) /\ live /\ ~(g.last >= QuickDeath)
  <2>1. Observe(g, live) = [g EXCEPT !.counted = FALSE]
    BY <1>4 DEF Observe
  <2>2. /\ Observe(g, live) \in Gate /\ Observe(g, live).last = g.last
        /\ Observe(g, live).fails = g.fails /\ ~Observe(g, live).counted
    BY <1>0, <2>1
  <2>3. Rhythm(Observe(g, live), s)
    BY <1>4, <2>2 DEF Rhythm
  <2> QED
    BY <1>4, <2>2, <2>3
<1>5. CASE ~(g.last = Never \/ g.counted) /\ ~live /\ ~(g.last < QuickDeath)
  <2>0. g.last >= QuickDeath
    BY <1>a, <1>5, Numbers
  <2>1. Observe(g, live) = [g EXCEPT !.counted = TRUE] /\ g.last >= QuickDeath
    BY <1>5, <2>0 DEF Observe
  <2>2. /\ Observe(g, live) \in Gate /\ Observe(g, live).last = g.last
        /\ Observe(g, live).fails = g.fails /\ Observe(g, live).counted
    BY <1>0, <2>1
  <2>3. Rhythm(Observe(g, live), s)
    BY <2>1, <2>2 DEF Rhythm
  <2> QED
    BY <2>2, <2>3
<1> QED
  BY <1>1, <1>2, <1>3, <1>4, <1>5

\* The same without a history.
LEMMA ObserveTyped ==
  ASSUME NEW g \in Gate, NEW live \in BOOLEAN
  PROVE  /\ Observe(g, live) \in Gate /\ Observe(g, live).last = g.last
         /\ ~live => Observe(g, live).last = Never \/ Observe(g, live).counted
<1>1. Rhythm(g, <<>>)
  BY DEF Rhythm
<1> QED
  BY <1>1, RhythmJudged

\* One start more.
LEMMA OneMore == \A n, p \in Nat : (n + 1) * p = n * p + p /\ n * p \in Nat
  OBVIOUS

\* The cool-down after a first failure, and after more.
LEMMA CooldownIs ==
  ASSUME NEW g \in Gate
  PROVE  /\ Cooldown(g) \in Nat
         /\ g.fails = 1 => Cooldown(g) = FirstPause
         /\ g.fails >= 2 => Cooldown(g) >= LongPause
<1>1. g.fails \in 0 .. MaxBackoff
  BY DEF Gate
<1>2. PICK f \in 0 .. MaxBackoff : f = g.fails
  BY <1>1
<1>3. PICK c \in Nat : c = Shifted[f]
  BY ShiftedGrows
<1>4. (f = 1 => c = 2 * SpawnBase) /\ (f >= 2 => c >= 4 * SpawnBase)
  BY <1>3, ShiftedGrows
<1>5. Cooldown(g) = Least(c, SpawnMax)
  BY <1>2, <1>3, Zenon DEF Cooldown
<1>6. Least(c, SpawnMax) \in Nat /\ (f = 1 => Least(c, SpawnMax) = FirstPause)
  BY <1>4, Numbers DEF Least, FirstPause
<1>7. f >= 2 => Least(c, SpawnMax) >= LongPause
  BY <1>4, Numbers DEF Least, LongPause
<1> QED
  BY <1>2, <1>5, <1>6, <1>7

\* A start that the gate lets through keeps the rhythm.
LEMMA RhythmStart ==
  ASSUME NEW g \in Gate, NEW s \in Seq(Ages), Rhythm(g, s), Allow(g), g.last = Never \/ g.counted
  PROVE  Rhythm(Spawned(g), Append(s, 0)) /\ Spawned(g) \in Gate /\ Append(s, 0) \in Seq(Ages)
<1>0. PICK n \in Nat : n = Len(s)
  OBVIOUS
<1>1. /\ Spawned(g) \in Gate /\ Spawned(g).last = 0 /\ Spawned(g).fails = g.fails /\ ~Spawned(g).counted
  <2>1. 0 \in Never .. Old
    BY OldIs DEF Never
  <2> QED
    BY <2>1 DEF Spawned, Gate
<1>2. 0 \in Ages
  BY Numbers DEF Ages
<1> DEFINE t == Append(s, 0)
<1>3. /\ t \in Seq(Ages) /\ Len(t) = n + 1 /\ t[n + 1] = 0 /\ t # <<>>
      /\ \A j \in 1 .. n : t[j] = s[j] /\ s[j] \in Int
  BY <1>0, <1>2, Numbers DEF Ages
<1> HIDE DEF t
<1>f. g.fails \in Int /\ g.fails >= 0
  <2>1. g.fails \in 0 .. MaxBackoff
    BY DEF Gate
  <2> QED
    BY <2>1, Numbers
<1>4. ASSUME NEW slack \in Nat,
             \A j \in 1 .. n : 2 * s[j] >= ((n - j) + 1) * Pair - slack
      PROVE  Apart(t, slack)
  <2>1. ASSUME NEW j \in 1 .. n + 1 PROVE 2 * (t[j] - t[n + 1]) >= ((n + 1) - j) * Pair - slack
    <3>1. CASE j = n + 1
      <4>1. 0 * Pair = 0 /\ (n + 1) - j = 0
        BY <3>1, Numbers
      <4> QED
        BY <1>3, <3>1, <4>1
    <3>2. CASE j \in 1 .. n
      <4>1. (n + 1) - j = (n - j) + 1
        BY <3>2
      <4>2. 2 * (t[j] - t[n + 1]) = 2 * s[j]
        BY <1>3, <3>2
      <4> QED
        BY <1>4, <3>2, <4>1, <4>2
    <3> QED
      BY <3>1, <3>2
  <2> QED
    BY <1>3, <2>1, Zenon DEF Apart
<1>5. ASSUME NEW had \in Nat, NEW slack \in Nat, NEW d \in Nat, n > 0, s[n] >= d,
             Apart(s, had), 2 * d >= Pair + had - slack
      PROVE  Apart(t, slack)
  <2>1. ASSUME NEW j \in 1 .. n PROVE 2 * s[j] >= ((n - j) + 1) * Pair - slack
    <3>1. 2 * (s[j] - s[n]) >= (n - j) * Pair - had
      BY <1>0, <1>5, <2>1 DEF Apart
    <3>2. n - j \in Nat /\ s[j] \in Int /\ s[n] \in Int
      BY <1>3, <1>5, <2>1
    <3>3. ((n - j) + 1) * Pair = (n - j) * Pair + Pair /\ (n - j) * Pair \in Nat
      BY <3>2, OneMore, Numbers
    <3>4. PICK x \in Nat : x = (n - j) * Pair
      BY <3>3
    <3>5. 2 * (s[j] - s[n]) >= x - had /\ ((n - j) + 1) * Pair = x + Pair /\ Pair \in Nat
      BY <3>1, <3>3, <3>4, Numbers
    <3>6. 2 * s[j] >= (x + Pair) - slack
      <4>1. 2 * (s[j] - s[n]) >= x - had /\ Pair \in Nat
        BY <3>5
      <4> QED
        BY <1>5, <3>2, <4>1
    <3> QED
      BY <3>5, <3>6, Zenon
  <2> QED
    BY <1>4, <2>1, Zenon
<1>6. CASE s = <<>>
  <2>1. n = 0
    BY <1>0, <1>6
  <2>2. \A j \in 1 .. n : 2 * s[j] >= ((n - j) + 1) * Pair - 0
    BY <2>1
  <2>3. \A j \in 1 .. n : 2 * s[j] >= ((n - j) + 1) * Pair - Ahead
    BY <2>1
  <2>4. Apart(t, 0) /\ Apart(t, Ahead)
    BY <1>4, <2>2, <2>3, Numbers
  <2> QED
    BY <1>1, <1>3, <2>4, <1>0 DEF Rhythm, t
<1>7. CASE s # <<>>
  <2>0. n > 0 /\ s[n] \in Ages
    BY <1>0, <1>7
  <2>1. n > 0 /\ s[n] \in Nat
    BY <2>0, Numbers DEF Ages
  <2>2. g.last = s[n] /\ Apart(s, Ahead) /\ g.last # Never /\ g.counted /\ s[n] >= Cooldown(g)
    <3>1. g.last = s[n] /\ Apart(s, Ahead)
      BY <1>0, <1>7, Zenon DEF Rhythm
    <3>2. g.last # Never
      BY <2>1, <3>1 DEF Never
    <3> QED
      BY <3>1, <3>2 DEF Allow
  <2>3. g.fails = 0 => Apart(t, 0) /\ Apart(t, Ahead)
    <3> SUFFICES ASSUME g.fails = 0 PROVE Apart(t, 0) /\ Apart(t, Ahead)
      OBVIOUS
    <3>1. s[n] >= QuickDeath
      BY <1>7, <2>2, Zenon DEF Rhythm
    <3>2. 2 * QuickDeath >= Pair + Ahead - 0 /\ 2 * QuickDeath >= Pair + Ahead - Ahead
      BY Numbers
    <3> QED
      BY <1>5, <2>1, <2>2, <3>1, <3>2, Numbers
  <2>4. g.fails > 0 => Apart(t, Ahead)
    <3> SUFFICES ASSUME g.fails > 0 PROVE Apart(t, Ahead)
      OBVIOUS
    <3>1. s[n] >= QuickDeath \/ g.fails >= 2 \/ (g.fails = 1 /\ Apart(s, 0))
      <4>1. g.last >= QuickDeath \/ g.fails >= 2 \/ Apart(s, 0)
        BY <1>7, <2>2, Zenon DEF Rhythm
      <4>2. g.fails >= 2 \/ g.fails = 1
        BY <1>f
      <4> QED
        BY <2>2, <4>1, <4>2, Zenon
    <3>2. CASE s[n] >= QuickDeath
      <4>1. 2 * QuickDeath >= Pair + Ahead - Ahead
        BY Numbers
      <4> QED
        BY <1>5, <2>1, <2>2, <3>2, <4>1, Numbers
    <3>3. CASE g.fails >= 2
      <4>1. s[n] >= LongPause
        BY <2>1, <2>2, <3>3, CooldownIs, Numbers
      <4>2. 2 * LongPause >= Pair + Ahead - Ahead
        BY Numbers
      <4> QED
        BY <1>5, <2>1, <2>2, <4>1, <4>2, Numbers
    <3>4. CASE g.fails = 1 /\ Apart(s, 0)
      <4>1. s[n] >= FirstPause
        BY <2>1, <2>2, <3>4, CooldownIs, Numbers
      <4>2. 2 * FirstPause >= Pair + 0 - Ahead
        BY Numbers
      <4> QED
        BY <1>5, <2>1, <3>4, <4>1, <4>2, Numbers
    <3> QED
      BY <3>1, <3>2, <3>3, <3>4
  <2>5. Apart(t, Ahead) /\ (g.fails = 0 => Apart(t, 0))
    BY <1>f, <2>3, <2>4
  <2>6. Rhythm(Spawned(g), t)
    BY <1>1, <1>3, <2>5 DEF Rhythm
  <2> QED
    BY <1>1, <1>3, <2>6 DEF t
<1> QED
  BY <1>6, <1>7

\* The rest of a sequence.
LEMMA SubSeqFrom ==
  ASSUME NEW S, NEW s \in Seq(S), NEW k \in 0..Len(s)
  PROVE  /\ SubSeq(s, k + 1, Len(s)) \in Seq(S) /\ Len(SubSeq(s, k + 1, Len(s))) = Len(s) - k
         /\ \A i \in 1..(Len(s) - k) : SubSeq(s, k + 1, Len(s))[i] = s[k + i]
<1>1. /\ SubSeq(s, k + 1, Len(s)) \in Seq(S) /\ Len(SubSeq(s, k + 1, Len(s))) = Len(s) - k
      /\ \A i \in 1..(Len(s) - (k + 1) + 1) : SubSeq(s, k + 1, Len(s))[i] = s[(k + 1) + i - 1]
  BY SubSeqProperties
<1>2. ASSUME NEW i \in 1..(Len(s) - k) PROVE SubSeq(s, k + 1, Len(s))[i] = s[k + i]
  <2>1. i \in 1..(Len(s) - (k + 1) + 1) /\ (k + 1) + i - 1 = k + i
    OBVIOUS
  <2> QED
    BY <1>1, <2>1
<1> QED
  BY <1>1, <1>2

\* The order of a history: the rhythm makes every start older than the next.
Falling(s) == \A i, j \in 1 .. Len(s) : i < j => s[j] <= s[i]

\* Ageing takes the front off a history, and what stays is one older.
LEMMA InWindowFrom ==
  ASSUME NEW s \in Seq(Ages), Falling(s)
  PROVE  \E k \in 0 .. Len(s) :
           /\ InWindow(OneOlder(s)) \in Seq(Ages) /\ Len(InWindow(OneOlder(s))) = Len(s) - k
           /\ \A i \in 1 .. Len(s) - k : InWindow(OneOlder(s))[i] = s[k + i] + 1
<1>0. PICK n \in Nat : n = Len(s)
  OBVIOUS
<1>1. DOMAIN s = 1 .. n /\ \A i \in 1 .. n : s[i] \in Ages
  BY <1>0
<1>2. \A i \in 1 .. n : s[i] \in Nat
  BY <1>1, Numbers DEF Ages
<1> DEFINE t == OneOlder(s)
<1>3. t \in Seq(Nat) /\ Len(t) = n /\ DOMAIN t = 1 .. n /\ \A i \in 1 .. n : t[i] = s[i] + 1 /\ t[i] \in Nat
  <2>1. t = [i \in 1 .. n |-> s[i] + 1]
    BY <1>1 DEF OneOlder
  <2> HIDE DEF t
  <2> QED
    BY <1>2, <2>1
<1> HIDE DEF t
<1> DEFINE Young == {i \in 1 .. n : t[i] < Window}
<1>4. \E k \in 0 .. n : (\A j \in 1 .. k : t[j] >= Window) /\ (k < n => t[k + 1] < Window)
  <2>1. CASE Young = {}
    <3>1. ASSUME NEW j \in 1 .. n PROVE t[j] >= Window
      <4>1. ~(t[j] < Window)
        BY <2>1
      <4>2. t[j] \in Nat /\ Window \in Nat
        BY <1>3, Numbers
      <4> QED
        BY <4>1, <4>2
    <3>2. n \in 0 .. n /\ ~(n < n)
      OBVIOUS
    <3> QED
      BY <3>1, <3>2
  <2>2. CASE Young # {}
    <3>0. Young \in SUBSET Nat
      OBVIOUS
    <3>1. PICK f \in Young : \A y \in Young : f <= y
      BY <2>2, <3>0, LeastOf
    <3>2. f \in 1 .. n /\ t[f] < Window
      OBVIOUS
    <3> HIDE DEF Young
    <3>3. \A j \in 1 .. f - 1 : t[j] >= Window
      BY <1>3, <3>1, <3>2, Numbers DEF Young
    <3>4. f - 1 \in 0 .. n /\ (f - 1) + 1 = f
      BY <3>2
    <3> QED
      BY <3>2, <3>3, <3>4
  <2> QED
    BY <2>1, <2>2
<1> HIDE DEF Young
<1>5. PICK k \in 0 .. n : (\A j \in 1 .. k : t[j] >= Window) /\ (k < n => t[k + 1] < Window)
  BY <1>4
<1>6. {i \in DOMAIN t : \A j \in 1 .. i : t[j] >= Window} = 1 .. k
  <2>1. ASSUME NEW i \in 1 .. n, \A j \in 1 .. i : t[j] >= Window PROVE i \in 1 .. k
    BY <1>3, <1>5, <2>1, Numbers
  <2>2. ASSUME NEW i \in 1 .. k PROVE i \in 1 .. n /\ \A j \in 1 .. i : t[j] >= Window
    BY <1>5, <2>2
  <2> QED
    BY <1>3, <2>1, <2>2
<1>7. Cardinality(1 .. k) = k
  BY FS_Interval
<1>8. InWindow(t) = SubSeq(t, k + 1, Len(t))
  BY <1>6, <1>7, Zenon DEF InWindow
<1>9. k \in 0 .. Len(t)
  BY <1>3
<1>10. /\ InWindow(t) \in Seq(Nat) /\ Len(InWindow(t)) = n - k
       /\ \A i \in 1 .. n - k : InWindow(t)[i] = t[k + i]
  BY <1>3, <1>8, <1>9, SubSeqFrom
<1>11. ASSUME NEW i \in 1 .. n - k PROVE InWindow(t)[i] = s[k + i] + 1 /\ InWindow(t)[i] \in Ages
  <2>1. k + i \in 1 .. n /\ k + 1 \in 1 .. n /\ k < n
    BY <1>5, <1>11
  <2>2. InWindow(t)[i] = t[k + i] /\ t[k + i] = s[k + i] + 1 /\ t[k + 1] = s[k + 1] + 1 /\ t[k + 1] < Window
    BY <1>3, <1>5, <1>10, <1>11, <2>1
  <2>3. s[k + i] <= s[k + 1]
    <3>1. CASE i = 1
      BY <1>2, <2>1, <3>1
    <3>2. CASE i # 1
      <4>1. k + 1 < k + i
        BY <1>11, <3>2, <1>5
      <4> QED
        BY <1>0, <2>1, <4>1 DEF Falling
    <3> QED
      BY <3>1, <3>2
  <2>4. s[k + i] \in Nat /\ s[k + 1] \in Nat
    BY <1>2, <2>1
  <2>5. s[k + i] + 1 \in Ages
    BY <2>2, <2>3, <2>4, Numbers, SMTT(60) DEF Ages
  <2> QED
    BY <2>2, <2>5
<1>12. InWindow(t) \in Seq(Ages)
  <2>1. DOMAIN InWindow(t) = 1 .. n - k /\ n - k \in Nat
    BY <1>5, <1>10
  <2>2. InWindow(t) = [i \in 1 .. n - k |-> InWindow(t)[i]]
    BY <1>10, <2>1
  <2>3. PICK u : u = InWindow(t)
    OBVIOUS
  <2>4. PICK m \in Nat : m = n - k
    BY <2>1
  <2>5. \A i \in 1 .. m : u[i] \in Ages
    BY <1>11, <2>3, <2>4
  <2>6. u = [i \in 1 .. m |-> u[i]]
    BY <2>2, <2>3, <2>4
  <2>7. u \in Seq(Ages)
    BY <2>5, <2>6
  <2> QED
    BY <2>3, <2>7
<1> QED
  BY <1>0, <1>10, <1>11, <1>12 DEF t

\* What stays is in order.
LEMMA InWindowFalls ==
  ASSUME NEW s \in Seq(Ages), Falling(s)
  PROVE  InWindow(OneOlder(s)) \in Seq(Ages) /\ Falling(InWindow(OneOlder(s)))
<1>0. PICK n \in Nat : n = Len(s)
  OBVIOUS
<1>1. PICK t : t = InWindow(OneOlder(s))
  OBVIOUS
<1>4. PICK k \in 0 .. n : /\ t \in Seq(Ages) /\ Len(t) = n - k
                          /\ \A i \in 1 .. n - k : t[i] = s[k + i] + 1
  BY <1>0, <1>1, InWindowFrom
<1>5. PICK m \in Nat : m = n - k
  BY <1>4
<1>6. \A i \in 1 .. n : s[i] \in Nat
  <2>1. \A i \in 1 .. n : s[i] \in Ages
    BY <1>0
  <2> QED
    BY <2>1, Numbers DEF Ages
<1>7. ASSUME NEW i \in 1 .. m, NEW j \in 1 .. m, i < j PROVE t[j] <= t[i]
  <2>1. k + i \in 1 .. n /\ k + j \in 1 .. n /\ k + i < k + j
    BY <1>4, <1>5, <1>7
  <2>2. s[k + j] <= s[k + i]
    BY <1>0, <2>1 DEF Falling
  <2> QED
    BY <1>4, <1>5, <1>6, <2>1, <2>2, SMTT(60)
<1>8. Falling(t)
  BY <1>4, <1>5, <1>7 DEF Falling
<1> QED
  BY <1>1, <1>4, <1>8

\* The distance of two times does not change.
LEMMA Later == \A a, b \in Int : (a + 1) - (b + 1) = a - b
  OBVIOUS

\* Time keeps the rhythm.
LEMMA RhythmAges ==
  ASSUME NEW g \in Gate, NEW s \in Seq(Ages), Rhythm(g, s), Falling(s)
  PROVE  /\ [g EXCEPT !.last = Older(@)] \in Gate
         /\ InWindow(OneOlder(s)) \in Seq(Ages) /\ Falling(InWindow(OneOlder(s)))
         /\ Rhythm([g EXCEPT !.last = Older(@)], InWindow(OneOlder(s)))
<1> DEFINE h == [g EXCEPT !.last = Older(@)]
           t == InWindow(OneOlder(s))
<1>0. PICK n \in Nat : n = Len(s)
  OBVIOUS
<1>1. /\ g.last \in Never .. Old /\ g.fails \in 0 .. MaxBackoff /\ g.counted \in BOOLEAN
      /\ h.last = Older(g.last) /\ h.fails = g.fails /\ h.counted = g.counted
  BY DEF Gate
<1>2. Older(g.last) \in Never .. Old
  BY <1>1, OldIs DEF Older, Never, Least
<1>3. h \in Gate
  BY <1>2 DEF Gate
<1>4. PICK k \in 0 .. n : /\ t \in Seq(Ages) /\ Len(t) = n - k
                          /\ \A i \in 1 .. n - k : t[i] = s[k + i] + 1
  BY <1>0, InWindowFrom
<1> HIDE DEF h, t
<1>5. PICK m \in Nat : m = n - k
  BY <1>4
<1>6. \A i \in 1 .. n : s[i] \in Nat
  <2>1. \A i \in 1 .. n : s[i] \in Ages
    BY <1>0
  <2> QED
    BY <2>1, Numbers DEF Ages
<1>7. Falling(t)
  BY InWindowFalls DEF t
<1>8. ASSUME t # <<>> PROVE Rhythm(h, t)
  <2>1. m > 0 /\ k + m = n /\ n > 0 /\ s # <<>>
    BY <1>0, <1>4, <1>5, <1>8
  <2>2. t[m] = s[n] + 1 /\ t[m] \in Ages
    BY <1>4, <1>5, <2>1
  <2>3. g.last = s[n] /\ Apart(s, Ahead)
    BY <1>0, <2>1, Zenon DEF Rhythm
  <2>4. h.last = t[m] /\ h.last >= g.last /\ g.last \in Nat /\ h.last \in Nat
    BY <1>1, <1>6, <2>1, <2>2, <2>3, OldIs, Numbers, SMTT(60) DEF Older, Never, Least, Ages
  <2>5. ASSUME NEW slack \in Nat, Apart(s, slack) PROVE Apart(t, slack)
    <3>1. ASSUME NEW j \in 1 .. m PROVE 2 * (t[j] - t[m]) >= (m - j) * Pair - slack
      <4>1. k + j \in 1 .. n /\ n - (k + j) = m - j
        BY <1>4, <1>5, <2>1, <3>1
      <4>2. 2 * (s[k + j] - s[n]) >= (n - (k + j)) * Pair - slack
        BY <1>0, <2>5, <4>1 DEF Apart
      <4>3. t[j] = s[k + j] + 1
        BY <1>4, <1>5, <3>1
      <4>4. t[j] - t[m] = s[k + j] - s[n]
        <5>1. s[k + j] \in Int /\ s[n] \in Int
          BY <1>6, <2>1, <4>1
        <5> QED
          BY <2>2, <4>3, <5>1, Later, Zenon
      <4> QED
        BY <4>1, <4>2, <4>4
    <3> QED
      BY <1>4, <1>5, <3>1, Zenon DEF Apart
  <2>6. Apart(t, Ahead)
    BY <2>3, <2>5, Numbers
  <2>7. h.fails = 0 /\ ~h.counted => Apart(t, 0)
    BY <1>1, <2>1, <2>5 DEF Rhythm
  <2>8. h.fails = 0 /\ h.counted => h.last >= QuickDeath
    <3>1. h.fails = 0 /\ h.counted => g.last >= QuickDeath
      BY <1>1, <2>1 DEF Rhythm
    <3> QED
      BY <2>4, <3>1, Numbers
  <2>9. h.fails > 0 /\ h.counted => h.last >= QuickDeath \/ h.fails >= 2 \/ Apart(t, 0)
    <3>1. h.fails > 0 /\ h.counted => g.last >= QuickDeath \/ h.fails >= 2 \/ Apart(s, 0)
      BY <1>1, <2>1 DEF Rhythm
    <3>2. Apart(s, 0) => Apart(t, 0)
      BY <2>5
    <3>3. g.last >= QuickDeath => h.last >= QuickDeath
      BY <2>4, Numbers
    <3> QED
      BY <3>1, <3>2, <3>3
  <2> QED
    BY <1>4, <1>5, <2>4, <2>6, <2>7, <2>8, <2>9, Zenon DEF Rhythm
<1>9. Rhythm(h, t)
  BY <1>8 DEF Rhythm
<1> QED
  BY <1>3, <1>4, <1>7, <1>9 DEF h, t

-----------------------------------------------------------------------------
(* Types and the bound.                                                    *)

GuardTypes ==
  /\ bin \in {"ok", "aborts", "missing"} /\ choice \in {"launcher", "direct", ""}
  /\ alive \in [Name -> BOOLEAN] /\ abort \in [LogFile -> Never .. Old]
  /\ wpc \in {"sleep", "launch", "direct", "rescue"} /\ rpc \in {"idle", "killed"}
  /\ gap \in Nat /\ \E g \in Gaps : gap <= g
  /\ rebinds \in 0 .. Rebinds /\ deaths \in Nat /\ unsaved \in BOOLEAN
  /\ gone \in [Name -> {"no", "at once", "quick", "late"}]
\* The history is in the order of time.
Histories ==
  /\ gate \in [Name -> Gate] /\ starts \in [Name -> Seq(Ages)]
  /\ \A n \in Name : Falling(starts[n])
\* Who is about to be started has been judged; as long as the launcher is looked
\* after, dpid's gate is untouched.
Judged(n) == gate[n].last = Never \/ gate[n].counted
Watched ==
  /\ wpc \in {"launch", "rescue"} => ~DirectMode
  /\ wpc = "direct" => DirectMode /\ Judged("dpid")
  /\ wpc = "launch" => Judged("launcher")
  /\ ~DirectMode /\ ~unsaved => gate["dpid"].last = Never
Rhythms == ~unsaved => \A n \in Name : Rhythm(gate[n], starts[n])
GuardInv == GuardTypes /\ Histories /\ Watched /\ Rhythms

\* Whether a start was overslept is known for each process.
Sleepless == slept \in [Name -> BOOLEAN]

\* The invariant gives the types and the bound.
LEMMA GuardTyped == GuardInv => (Sleepless => TypeOK) /\ NoStorm
<1> SUFFICES ASSUME GuardInv PROVE (Sleepless => TypeOK) /\ NoStorm
  OBVIOUS
<1>1. GuardTypes /\ Histories /\ Rhythms
  BY Zenon DEF GuardInv
<1>2. ASSUME NEW n \in Name, NEW i \in DOMAIN starts[n] PROVE starts[n][i] \in 0 .. Window
  <2>1. starts[n] \in Seq(Ages)
    BY <1>1 DEF Histories
  <2>2. starts[n][i] \in Ages
    BY <1>2, <2>1
  <2> QED
    BY <2>2, Numbers DEF Ages
<1>3. Sleepless => TypeOK
  BY <1>1, <1>2, Zenon DEF TypeOK, GuardTypes, Histories, Sleepless
<1>4. ASSUME ~unsaved, NEW n \in Name PROVE Len(starts[n]) <= StartLimit
  <2>1. starts[n] \in Seq(Ages) /\ Rhythm(gate[n], starts[n])
    BY <1>1, <1>4 DEF Histories, Rhythms
  <2> QED
    BY <2>1, RhythmBound
<1> QED
  BY <1>3, <1>4, Zenon DEF NoStorm

\* Nothing was started yet.
LEMMA GuardStart == Init => GuardInv
<1> SUFFICES ASSUME Init PROVE GuardInv
  OBVIOUS
<1> DEFINE g0 == [last |-> Never, fails |-> 0, counted |-> FALSE]
<1>1. g0 \in Gate /\ g0.last = Never
  BY OldIs, Numbers DEF Gate, Never
<1>2. \A n \in Name : gate[n] = g0 /\ starts[n] = <<>>
  BY DEF Init
<1>3. GuardTypes
  <2>1. Never \in Never .. Old
    BY OldIs DEF Never
  <2>2. abort \in [LogFile -> Never .. Old]
    BY <2>1 DEF Init
  <2>3. gap \in Nat /\ gap <= gap /\ gap \in Gaps
    <3>1. gap \in Gaps /\ Gaps \subseteq Nat
      BY GuardAssumption, Zenon DEF Init
    <3> QED
      BY <3>1
  <2>4. rebinds \in 0 .. Rebinds /\ deaths \in Nat
    <3>1. rebinds = 0 /\ deaths = 0 /\ Rebinds \in Nat
      BY GuardAssumption, Zenon DEF Init
    <3> QED
      BY <3>1
  <2>5. alive \in [Name -> BOOLEAN] /\ gone \in [Name -> {"no", "at once", "quick", "late"}] /\ unsaved \in BOOLEAN
    BY DEF Init
  <2>6. bin \in {"ok", "aborts", "missing"} /\ choice \in {"launcher", "direct", ""}
    BY GuardAssumption DEF Init
  <2>7. wpc \in {"sleep", "launch", "direct", "rescue"} /\ rpc \in {"idle", "killed"}
    BY DEF Init
  <2> QED
    BY <2>2, <2>3, <2>4, <2>5, <2>6, <2>7, Zenon DEF GuardTypes
<1>4. Histories
  <2>1. gate \in [Name -> Gate] /\ starts \in [Name -> Seq(Ages)]
    BY <1>1 DEF Init
  <2>2. \A n \in Name : Falling(starts[n])
    BY <1>2 DEF Falling
  <2> QED
    BY <2>1, <2>2, Zenon DEF Histories
<1>5. Watched
  <2>1. wpc = "sleep" /\ gate["dpid"].last = Never
    BY <1>1, <1>2 DEF Init, Name
  <2> QED
    BY <2>1 DEF Watched
<1>6. Rhythms
  BY <1>2 DEF Rhythms, Rhythm
<1> QED
  BY <1>3, <1>4, <1>5, <1>6 DEF GuardInv

-----------------------------------------------------------------------------
(* The steps.                                                              *)

\* A start of a process by anybody touches who lives, who died how, and logs.
StartTypes ==
  /\ alive \in [Name -> BOOLEAN] /\ abort \in [LogFile -> Never .. Old] /\ deaths \in Nat
  /\ gone \in [Name -> {"no", "at once", "quick", "late"}]

\* How a process died, for the history.
LEMMA DiedAtIs == \A n : DiedAt(n) \in {"no", "at once", "quick", "late"}
  BY DEF DiedAt

\* Ages of logs.
LEMMA AgesOld ==
  /\ 0 \in Never .. Old /\ Never \in Never .. Old
  /\ \A a \in Never .. Old : Older(a) \in Never .. Old
  BY OldIs DEF Never, Older, Least

\* Deaths are counted.
LEMMA DeathCounted == deaths \in Nat /\ CountDeath => deaths' \in Nat
<1> SUFFICES ASSUME deaths \in Nat, CountDeath PROVE deaths' \in Nat
  OBVIOUS
<1>1. deaths' = deaths + 1 \/ deaths' = deaths
  BY Zenon DEF CountDeath
<1> QED
  BY <1>1

\* Starts of either process keep the types.
LEMMA StartsTyped ==
  ASSUME StartTypes, NEW when \in {"no", "at once", "quick", "late"}
  PROVE  /\ StartDpid(when) => StartTypes'
         /\ \A f \in LogFile : StartLauncher(f, when) => StartTypes'
<1>0. 0 \in Never .. Old /\ Never \in Never .. Old
  BY AgesOld
<1>1. deaths' = deaths \/ CountDeath => deaths' \in Nat
  <2>1. deaths \in Nat
    BY Zenon DEF StartTypes
  <2> QED
    BY <2>1, DeathCounted, Zenon
<1>2. ASSUME StartDpid(when) PROVE StartTypes'
  <2>1. /\ alive' = alive \/ alive' = [alive EXCEPT !["dpid"] = TRUE]
        /\ \E x \in {"no", "at once", "quick", "late"} : gone' = [gone EXCEPT !["dpid"] = x]
        /\ abort' = abort /\ (deaths' = deaths \/ CountDeath)
    BY <1>2 DEF StartDpid
  <2>2. alive' \in [Name -> BOOLEAN]
    BY <2>1 DEF StartTypes
  <2>3. gone' \in [Name -> {"no", "at once", "quick", "late"}]
    BY <2>1 DEF StartTypes
  <2> QED
    BY <1>1, <2>1, <2>2, <2>3, Zenon DEF StartTypes
<1>3. ASSUME NEW f \in LogFile, StartLauncher(f, when) PROVE StartTypes'
  <2>1. /\ alive' = alive \/ alive' = [alive EXCEPT !["launcher"] = TRUE]
        /\ \E x \in {"no", "at once", "quick", "late"} : gone' = [gone EXCEPT !["launcher"] = x]
        /\ \/ abort' = abort \/ abort' = [abort EXCEPT ![f] = 0]
           \/ abort' = [abort EXCEPT ![f] = IF @ = Never THEN Never ELSE 0]
        /\ (deaths' = deaths \/ CountDeath)
    BY <1>3 DEF StartLauncher
  <2>2. alive' \in [Name -> BOOLEAN]
    BY <2>1 DEF StartTypes
  <2>3. gone' \in [Name -> {"no", "at once", "quick", "late"}]
    BY <2>1 DEF StartTypes
  <2>4. abort' \in [LogFile -> Never .. Old]
    BY <1>0, <2>1 DEF StartTypes
  <2> QED
    BY <1>1, <2>1, <2>2, <2>3, <2>4, Zenon DEF StartTypes
<1> QED
  BY <1>2, <1>3

\* A recorded start keeps the histories, and the rhythm when it was allowed and
\* the start before it judged.
LEMMA RecordedKeeps ==
  ASSUME Histories, NEW n \in Name, Recorded(n)
  PROVE  /\ Histories'
         /\ \A m \in Name \ {n} : gate'[m] = gate[m] /\ starts'[m] = starts[m]
         /\ Allow(gate[n]) /\ Judged(n) /\ (\A m \in Name : Rhythm(gate[m], starts[m]))
            => \A m \in Name : Rhythm(gate'[m], starts'[m])
<1>1. /\ gate' = [gate EXCEPT ![n] = Spawned(gate[n])] /\ starts' = [starts EXCEPT ![n] = Append(starts[n], 0)]
  BY DEF Recorded
<1>2. gate[n] \in Gate /\ starts[n] \in Seq(Ages) /\ Falling(starts[n]) /\ gate \in [Name -> Gate] /\ starts \in [Name -> Seq(Ages)]
  BY DEF Histories
<1>3. Spawned(gate[n]) \in Gate
  <2>1. 0 \in Never .. Old
    BY AgesOld
  <2>2. \A g \in Gate : Spawned(g) \in Gate
    BY <2>1 DEF Spawned, Gate
  <2> QED
    BY <1>2, <2>2
<1>4. Append(starts[n], 0) \in Seq(Ages) /\ Falling(Append(starts[n], 0))
  <2>0. PICK s \in Seq(Ages) : s = starts[n]
    BY <1>2
  <2>1. PICK k \in Nat : k = Len(s)
    OBVIOUS
  <2>2. 0 \in Ages
    BY Numbers DEF Ages
  <2>3. \A i \in 1 .. k : s[i] \in Nat
    <3>1. \A i \in 1 .. k : s[i] \in Ages
      BY <2>1
    <3> QED
      BY <3>1, Numbers DEF Ages
  <2>4. \A i, j \in 1 .. k : i < j => s[j] <= s[i]
    BY <1>2, <2>0, <2>1 DEF Falling
  <2>5. PICK t : t = Append(s, 0)
    OBVIOUS
  <2>6. t \in Seq(Ages) /\ Len(t) = k + 1 /\ t[k + 1] = 0 /\ \A i \in 1 .. k : t[i] = s[i]
    BY <2>1, <2>2, <2>5
  <2>7. ASSUME NEW i \in 1 .. k + 1, NEW j \in 1 .. k + 1, i < j PROVE t[j] <= t[i]
    <3>1. i \in 1 .. k
      BY <2>7
    <3>2. CASE j = k + 1
      BY <2>3, <2>6, <3>1, <3>2
    <3>3. CASE j # k + 1
      <4>1. j \in 1 .. k
        BY <3>3
      <4> QED
        BY <2>4, <2>6, <2>7, <3>1, <4>1
    <3> QED
      BY <3>2, <3>3
  <2>8. Falling(t)
    BY <2>6, <2>7 DEF Falling
  <2> QED
    BY <2>0, <2>5, <2>6, <2>8
<1>5. \A m \in Name \ {n} : gate'[m] = gate[m] /\ starts'[m] = starts[m]
  BY <1>1, <1>2
<1>6. gate'[n] = Spawned(gate[n]) /\ starts'[n] = Append(starts[n], 0)
  BY <1>1, <1>2
<1>7. gate' \in [Name -> Gate] /\ starts' \in [Name -> Seq(Ages)]
  BY <1>1, <1>2, <1>3, <1>4
<1>8. \A m \in Name : Falling(starts'[m])
  BY <1>4, <1>5, <1>6 DEF Histories
<1>9. Histories'
  BY <1>7, <1>8, Zenon DEF Histories
<1>10. ASSUME Allow(gate[n]), Judged(n), \A m \in Name : Rhythm(gate[m], starts[m]), NEW m \in Name
       PROVE  Rhythm(gate'[m], starts'[m])
  <2>1. CASE m = n
    <3>1. Rhythm(gate[n], starts[n]) /\ (gate[n].last = Never \/ gate[n].counted)
      BY <1>10, Zenon DEF Judged
    <3>2. Rhythm(Spawned(gate[n]), Append(starts[n], 0))
      BY <1>2, <1>10, <3>1, RhythmStart
    <3> QED
      BY <1>6, <2>1, <3>2
  <2>2. CASE m # n
    BY <1>5, <1>10, <2>2
  <2> QED
    BY <2>1, <2>2
<1> QED
  BY <1>5, <1>9, <1>10

\* A step that leaves gates, starts and the loop's place alone.
LEMMA GuardIdle ==
  ASSUME Histories, Watched, Rhythms, UNCHANGED <<bin, choice, gate, wpc, unsaved, starts>>
  PROVE  Histories' /\ Watched' /\ Rhythms'
<1>1. Histories'
  BY Zenon DEF Histories
<1>2. Watched'
  BY Zenon DEF Watched, Judged, DirectMode
<1>3. Rhythms'
  BY Zenon DEF Rhythms
<1> QED
  BY <1>1, <1>2, <1>3

\* Deaths, forks and rebinds.
LEMMA OthersKeep ==
  ASSUME GuardInv, LauncherForks \/ RebindKill \/ RebindStart \/ \E n \in Name : Die(n)
  PROVE  GuardInv'
<1>1. GuardTypes /\ Histories /\ Watched /\ Rhythms
  BY Zenon DEF GuardInv
<1>2. StartTypes
  BY <1>1, Zenon DEF GuardTypes, StartTypes
<1>3. UNCHANGED <<bin, choice, gate, wpc, gap, unsaved, starts>>
  BY Zenon DEF LauncherForks, RebindKill, RebindStart, Die
<1>4. Histories' /\ Watched' /\ Rhythms'
  BY <1>1, <1>3, GuardIdle
<1>5. rebinds' \in 0 .. Rebinds /\ rpc' \in {"idle", "killed"}
  <2>1. rebinds \in 0 .. Rebinds /\ Rebinds \in Nat /\ rpc \in {"idle", "killed"}
    BY <1>1, GuardAssumption, Zenon DEF GuardTypes
  <2>2. /\ rebinds' = rebinds \/ (rebinds < Rebinds /\ rebinds' = rebinds + 1)
        /\ rpc' = rpc \/ rpc' = "idle" \/ rpc' = "killed"
    BY Zenon DEF LauncherForks, RebindKill, RebindStart, Die
  <2> QED
    BY <2>1, <2>2
<1>6. StartTypes'
  <2>1. CASE LauncherForks
    <3>1. /\ alive' = [alive EXCEPT !["dpid"] = TRUE] /\ gone' = [gone EXCEPT !["dpid"] = "no"]
          /\ UNCHANGED <<abort, deaths>>
      BY <2>1, Zenon DEF LauncherForks
    <3> QED
      BY <1>2, <3>1 DEF StartTypes
  <2>2. CASE RebindKill
    <3>1. /\ alive' = [alive EXCEPT !["dpid"] = FALSE] /\ UNCHANGED <<abort, deaths>>
          /\ gone' = gone \/ gone' = [gone EXCEPT !["dpid"] = DiedAt("dpid")]
      <4>1. gone \in [Name -> {"no", "at once", "quick", "late"}]
        BY <1>2 DEF StartTypes
      <4> QED
        BY <2>2, <4>1 DEF RebindKill
    <3> QED
      BY <1>2, <3>1, DiedAtIs DEF StartTypes
  <2>3. CASE RebindStart
    <3>1. \/ UNCHANGED <<alive, gone, abort, deaths>>
          \/ StartLauncher("dpid_guard.log", DiedAt("launcher"))
          \/ StartDpid(DiedAt("dpid"))
      BY <2>3, Zenon DEF RebindStart
    <3>2. "dpid_guard.log" \in LogFile
      BY DEF LogFile
    <3>3. UNCHANGED <<alive, gone, abort, deaths>> => StartTypes'
      BY <1>2, Zenon DEF StartTypes
    <3> QED
      BY <1>2, <3>1, <3>2, <3>3, StartsTyped, DiedAtIs, Zenon
  <2>4. ASSUME NEW n \in Name, Die(n) PROVE StartTypes'
    <3>1. /\ alive' = [alive EXCEPT ![n] = FALSE] /\ gone' = [gone EXCEPT ![n] = DiedAt(n)]
          /\ UNCHANGED abort /\ CountDeath
      BY <2>4, Zenon DEF Die
    <3>2. deaths' \in Nat
      BY <1>2, <3>1, DeathCounted DEF StartTypes
    <3>3. alive' \in [Name -> BOOLEAN] /\ gone' \in [Name -> {"no", "at once", "quick", "late"}]
      BY <1>2, <3>1, DiedAtIs DEF StartTypes
    <3> QED
      BY <1>2, <3>1, <3>2, <3>3, Zenon DEF StartTypes
  <2> QED
    BY <2>1, <2>2, <2>3, <2>4
<1>7. GuardTypes'
  BY <1>1, <1>3, <1>5, <1>6, Zenon DEF GuardTypes, StartTypes
<1> QED
  BY <1>4, <1>7, Zenon DEF GuardInv

\* Time.
LEMMA TickKeeps ==
  ASSUME GuardInv, Tick
  PROVE  GuardInv'
<1>1. GuardTypes /\ Histories /\ Watched /\ Rhythms
  BY Zenon DEF GuardInv
<1>2. /\ wpc = "sleep" /\ gap' = gap + 1 /\ \E g \in Gaps : gap < g
      /\ gate' = [n \in Name |-> [gate[n] EXCEPT !.last = Older(@)]]
      /\ abort' = [f \in LogFile |-> Older(abort[f])]
      /\ starts' = [n \in Name |-> InWindow(OneOlder(starts[n]))]
      /\ UNCHANGED <<bin, choice, alive, wpc, rpc, rebinds, deaths, unsaved, gone>>
  BY Zenon DEF Tick
<1>3. \A n \in Name : gate[n] \in Gate /\ starts[n] \in Seq(Ages) /\ Falling(starts[n])
  BY <1>1 DEF Histories
<1>4. \A n \in Name : gate'[n] = [gate[n] EXCEPT !.last = Older(@)] /\ starts'[n] = InWindow(OneOlder(starts[n]))
  BY <1>2, Zenon
<1>5. ASSUME NEW g \in Gate
      PROVE  /\ [g EXCEPT !.last = Older(@)] \in Gate
             /\ [g EXCEPT !.last = Older(@)].last = Older(g.last)
             /\ [g EXCEPT !.last = Older(@)].counted = g.counted
  <2>1. g.last \in Never .. Old
    BY DEF Gate
  <2>2. Older(g.last) \in Never .. Old
    BY <2>1, AgesOld
  <2> QED
    BY <2>2 DEF Gate
<1>6. ASSUME NEW s \in Seq(Ages), Falling(s)
      PROVE  InWindow(OneOlder(s)) \in Seq(Ages) /\ Falling(InWindow(OneOlder(s)))
  BY <1>6, InWindowFalls
<1>7. Histories'
  <2>1. gate' \in [Name -> Gate]
    BY <1>2, <1>3, <1>5
  <2>2. starts' \in [Name -> Seq(Ages)] /\ \A n \in Name : Falling(starts'[n])
    BY <1>2, <1>3, <1>4, <1>6
  <2> QED
    BY <2>1, <2>2, Zenon DEF Histories
<1>8. GuardTypes'
  <2>1. abort' \in [LogFile -> Never .. Old]
    BY <1>1, <1>2, AgesOld DEF GuardTypes
  <2>2. gap' \in Nat /\ \E g \in Gaps : gap' <= g
    <3>1. gap \in Nat /\ Gaps \subseteq Nat
      BY <1>1, GuardAssumption, Zenon DEF GuardTypes
    <3>2. PICK g \in Gaps : gap < g
      BY <1>2
    <3>3. g \in Nat
      BY <3>1
    <3>4. gap' \in Nat /\ gap' <= g
      BY <1>2, <3>1, <3>2, <3>3
    <3> QED
      BY <3>4
  <2> QED
    BY <1>1, <1>2, <2>1, <2>2, Zenon DEF GuardTypes
<1>9. Watched'
  <2>1. "dpid" \in Name
    BY DEF Name
  <2>2. DirectMode' <=> DirectMode
    BY <1>2, Zenon DEF DirectMode
  <2>3. gate["dpid"].last = Never => gate'["dpid"].last = Never
    BY <1>3, <1>4, <1>5, <2>1 DEF Older
  <2>4. wpc' = "sleep"
    BY <1>2
  <2> QED
    BY <1>1, <1>2, <2>2, <2>3, <2>4 DEF Watched
<1>10. Rhythms'
  <2>1. ASSUME ~unsaved, NEW n \in Name PROVE Rhythm(gate'[n], starts'[n])
    <3>1. Rhythm(gate[n], starts[n])
      BY <1>1, <2>1, Zenon DEF Rhythms
    <3>2. Rhythm([gate[n] EXCEPT !.last = Older(@)], InWindow(OneOlder(starts[n])))
      BY <1>3, <3>1, RhythmAges
    <3> QED
      BY <1>4, <3>2, Zenon
  <2> QED
    BY <1>2, <2>1, Zenon DEF Rhythms
<1> QED
  BY <1>7, <1>8, <1>9, <1>10, Zenon DEF GuardInv

\* A look of the watchdog.
LEMMA RoundKeeps ==
  ASSUME GuardInv, Round
  PROVE  GuardInv'
<1>1. GuardTypes /\ Histories /\ Watched /\ Rhythms
  BY Zenon DEF GuardInv
<1>2. gap' = 0 /\ UNCHANGED <<bin, choice, alive, abort, rpc, rebinds, deaths, unsaved, gone, starts>>
  BY Zenon DEF Round
<1>3. \E n \in Name : /\ gate' = [gate EXCEPT ![n] = Observe(gate[n], alive[n])]
                      /\ \/ wpc' = "sleep"
                         \/ n = "dpid" /\ DirectMode /\ ~alive[n] /\ wpc' = "direct"
                         \/ n = "launcher" /\ ~DirectMode /\ ~alive[n] /\ wpc' \in {"launch", "rescue"}
                      /\ n = "dpid" => DirectMode
  <2>1. "dpid" \in Name /\ "launcher" \in Name
    BY DEF Name
  <2>2. CASE DirectMode
    <3>1. /\ gate' = [gate EXCEPT !["dpid"] = Observe(gate["dpid"], alive["dpid"])]
          /\ wpc' = IF alive["dpid"] \/ alive["launcher"] THEN "sleep" ELSE "direct"
      BY <2>2, Zenon DEF Round
    <3> QED
      BY <2>1, <2>2, <3>1, Zenon
  <2>3. CASE ~DirectMode
    <3>1. /\ gate' = [gate EXCEPT !["launcher"] = Observe(gate["launcher"], alive["launcher"])]
          /\ wpc' = IF alive["launcher"] THEN "sleep"
                    ELSE IF LauncherBroken THEN "rescue" ELSE "launch"
      BY <2>3, Zenon DEF Round
    <3>2. wpc' = "sleep" \/ (~alive["launcher"] /\ wpc' \in {"launch", "rescue"})
      BY <3>1
    <3> QED
      BY <2>1, <2>3, <3>1, <3>2
  <2> QED
    BY <2>2, <2>3
<1>4. PICK n \in Name : /\ gate' = [gate EXCEPT ![n] = Observe(gate[n], alive[n])]
                        /\ \/ wpc' = "sleep"
                           \/ n = "dpid" /\ DirectMode /\ ~alive[n] /\ wpc' = "direct"
                           \/ n = "launcher" /\ ~DirectMode /\ ~alive[n] /\ wpc' \in {"launch", "rescue"}
                        /\ n = "dpid" => DirectMode
  BY <1>3
<1>5. /\ gate \in [Name -> Gate] /\ gate[n] \in Gate /\ alive[n] \in BOOLEAN
      /\ starts \in [Name -> Seq(Ages)] /\ \A m \in Name : Falling(starts[m])
  BY <1>1 DEF Histories, GuardTypes
<1>6. /\ Observe(gate[n], alive[n]) \in Gate /\ Observe(gate[n], alive[n]).last = gate[n].last
      /\ ~alive[n] => Observe(gate[n], alive[n]).last = Never \/ Observe(gate[n], alive[n]).counted
  BY <1>5, ObserveTyped
<1>7. gate' \in [Name -> Gate] /\ gate'[n] = Observe(gate[n], alive[n]) /\ \A m \in Name \ {n} : gate'[m] = gate[m]
  BY <1>4, <1>5, <1>6
<1>8. Histories'
  BY <1>2, <1>5, <1>7, Zenon DEF Histories
<1>9. GuardTypes'
  <2>1. gap' \in Nat /\ \E g \in Gaps : gap' <= g
    <3>1. Gaps \subseteq Nat /\ Gaps # {}
      BY GuardAssumption, Zenon
    <3>2. PICK g \in Gaps : g \in Nat
      BY <3>1
    <3>3. gap' \in Nat /\ gap' <= g
      BY <1>2, <3>2
    <3> QED
      BY <3>3
  <2>2. wpc' \in {"sleep", "launch", "direct", "rescue"}
    BY <1>4
  <2> QED
    BY <1>1, <1>2, <2>1, <2>2, Zenon DEF GuardTypes
<1>10. Watched'
  <2>1. DirectMode' <=> DirectMode
    BY <1>2, Zenon DEF DirectMode
  <2>2. gate'["dpid"].last = gate["dpid"].last
    <3>1. "dpid" \in Name
      BY DEF Name
    <3> QED
      BY <1>6, <1>7, <3>1
  <2>3. ~alive[n] => gate'[n].last = Never \/ gate'[n].counted
    BY <1>6, <1>7
  <2>4. wpc' = "direct" => DirectMode /\ (gate'["dpid"].last = Never \/ gate'["dpid"].counted)
    BY <1>4, <2>3
  <2>5. wpc' = "launch" => ~DirectMode /\ (gate'["launcher"].last = Never \/ gate'["launcher"].counted)
    BY <1>4, <2>3
  <2>6. wpc' \in {"launch", "rescue"} => ~DirectMode
    BY <1>4
  <2>7. ~DirectMode /\ ~unsaved => gate'["dpid"].last = Never
    BY <1>1, <2>2, Zenon DEF Watched
  <2> QED
    BY <1>2, <2>1, <2>4, <2>5, <2>6, <2>7, Zenon DEF Watched, Judged
<1>11. Rhythms'
  <2>1. ASSUME ~unsaved, NEW m \in Name PROVE Rhythm(gate'[m], starts[m])
    <3>1. Rhythm(gate[m], starts[m])
      BY <1>1, <2>1, Zenon DEF Rhythms
    <3>2. CASE m = n
      <4>1. Rhythm(Observe(gate[n], alive[n]), starts[n])
        BY <1>5, <3>1, <3>2, RhythmJudged
      <4> QED
        BY <1>7, <3>2, <4>1
    <3>3. CASE m # n
      BY <1>7, <3>1, <3>3
    <3> QED
      BY <3>2, <3>3
  <2> QED
    BY <1>2, <2>1, Zenon DEF Rhythms
<1> QED
  BY <1>8, <1>9, <1>10, <1>11, Zenon DEF GuardInv

\* An attempt at a start of dpid.
LEMMA SpawnDpidKeeps ==
  ASSUME GuardInv, SpawnDpid \/ UNCHANGED <<alive, gone, abort, deaths, gate, starts>>, Judged("dpid")
  PROVE  /\ StartTypes' /\ Histories'
         /\ ~unsaved => \A n \in Name : Rhythm(gate'[n], starts'[n])
<1>1. GuardTypes /\ Histories /\ Watched /\ Rhythms
  BY Zenon DEF GuardInv
<1>2. StartTypes
  BY <1>1, Zenon DEF GuardTypes, StartTypes
<1>3. CASE UNCHANGED <<alive, gone, abort, deaths, gate, starts>>
  <2>1. StartTypes' /\ Histories'
    BY <1>1, <1>2, <1>3, Zenon DEF StartTypes, Histories
  <2>2. ~unsaved => \A n \in Name : Rhythm(gate'[n], starts'[n])
    BY <1>1, <1>3, Zenon DEF Rhythms
  <2> QED
    BY <2>1, <2>2
<1>4. CASE Allow(gate["dpid"]) /\ StartDpid("at once") /\ Recorded("dpid")
  <2>1. "dpid" \in Name /\ "at once" \in {"no", "at once", "quick", "late"}
    BY DEF Name
  <2>2. StartTypes'
    BY <1>2, <1>4, <2>1, StartsTyped, Zenon
  <2>3. Histories'
    BY <1>1, <1>4, <2>1, RecordedKeeps, Zenon
  <2>4. ~unsaved => \A n \in Name : Rhythm(gate'[n], starts'[n])
    <3>1. ~unsaved => \A n \in Name : Rhythm(gate[n], starts[n])
      BY <1>1, Zenon DEF Rhythms
    <3> QED
      BY <1>1, <1>4, <2>1, <3>1, RecordedKeeps, Zenon
  <2> QED
    BY <2>2, <2>3, <2>4
<1> QED
  BY <1>3, <1>4, Zenon DEF SpawnDpid

\* The three ways to act on a look.
LEMMA ActsKeep ==
  ASSUME GuardInv, Launch \/ Direct \/ Rescue
  PROVE  GuardInv'
<1>1. GuardTypes /\ Histories /\ Watched /\ Rhythms
  BY Zenon DEF GuardInv
<1>2. StartTypes
  BY <1>1, Zenon DEF GuardTypes, StartTypes
<1>3. wpc' = "sleep" /\ UNCHANGED <<bin, rpc, gap, rebinds>>
  BY Zenon DEF Launch, Direct, Rescue
<1>4. choice' \in {"launcher", "direct", ""} /\ unsaved' \in BOOLEAN
  <2>1. /\ choice' = choice \/ choice' = "direct"
        /\ unsaved' = unsaved \/ unsaved' = TRUE
    BY Zenon DEF Launch, Direct, Rescue
  <2>2. choice \in {"launcher", "direct", ""} /\ unsaved \in BOOLEAN
    BY <1>1, Zenon DEF GuardTypes
  <2> QED
    BY <2>1, <2>2
<1>5. ASSUME StartTypes' PROVE GuardTypes'
  <2>1. wpc' \in {"sleep", "launch", "direct", "rescue"}
    BY <1>3
  <2> QED
    BY <1>1, <1>3, <1>4, <1>5, <2>1, Zenon DEF GuardTypes, StartTypes
<1>6. CASE Launch
  <2>1. /\ wpc = "launch" /\ UNCHANGED <<bin, choice, unsaved>>
        /\ \/ /\ Allow(gate["launcher"]) /\ StartLauncher("launcher.log", "at once") /\ Recorded("launcher")
           \/ UNCHANGED <<alive, gone, abort, deaths, gate, starts>>
    BY <1>6, Zenon DEF Launch
  <2>2. "launcher" \in Name /\ "at once" \in {"no", "at once", "quick", "late"} /\ "launcher.log" \in LogFile
        /\ "dpid" \in Name \ {"launcher"}
    BY DEF Name, LogFile
  <2>3. Judged("launcher")
    BY <1>1, <2>1, Zenon DEF Watched
  <2>4. ASSUME Allow(gate["launcher"]), StartLauncher("launcher.log", "at once"), Recorded("launcher")
    PROVE  /\ StartTypes' /\ Histories' /\ gate'["dpid"] = gate["dpid"]
           /\ ~unsaved => \A n \in Name : Rhythm(gate'[n], starts'[n])
    <3>1. StartTypes'
      BY <1>2, <2>2, <2>4, StartsTyped, Zenon
    <3>2. Histories' /\ gate'["dpid"] = gate["dpid"]
      BY <1>1, <2>2, <2>4, RecordedKeeps, Zenon
    <3>3. ~unsaved => \A n \in Name : Rhythm(gate'[n], starts'[n])
      <4>1. ~unsaved => \A n \in Name : Rhythm(gate[n], starts[n])
        BY <1>1, Zenon DEF Rhythms
      <4> QED
        BY <1>1, <2>2, <2>3, <2>4, <4>1, RecordedKeeps, Zenon
    <3> QED
      BY <3>1, <3>2, <3>3
  <2>5. ASSUME UNCHANGED <<alive, gone, abort, deaths, gate, starts>>
    PROVE  /\ StartTypes' /\ Histories' /\ gate'["dpid"] = gate["dpid"]
           /\ ~unsaved => \A n \in Name : Rhythm(gate'[n], starts'[n])
    <3>1. StartTypes' /\ Histories' /\ gate'["dpid"] = gate["dpid"]
      BY <1>1, <1>2, <2>5, Zenon DEF StartTypes, Histories
    <3>2. ~unsaved => \A n \in Name : Rhythm(gate'[n], starts'[n])
      BY <1>1, <2>5, Zenon DEF Rhythms
    <3> QED
      BY <3>1, <3>2
  <2>6. /\ StartTypes' /\ Histories' /\ gate'["dpid"] = gate["dpid"]
        /\ ~unsaved => \A n \in Name : Rhythm(gate'[n], starts'[n])
    BY <2>1, <2>4, <2>5
  <2>7. Rhythms'
    BY <2>1, <2>6, Zenon DEF Rhythms
  <2>8. Watched'
    <3>1. DirectMode' <=> DirectMode
      BY <2>1, Zenon DEF DirectMode
    <3>2. ~DirectMode /\ ~unsaved => gate'["dpid"].last = Never
      BY <1>1, <2>6, Zenon DEF Watched
    <3> QED
      BY <1>3, <2>1, <3>1, <3>2 DEF Watched
  <2> QED
    BY <1>5, <2>6, <2>7, <2>8, Zenon DEF GuardInv
<1>7. CASE Direct
  <2>1. wpc = "direct" /\ SpawnDpid /\ UNCHANGED <<choice, unsaved>>
    BY <1>7, Zenon DEF Direct
  <2>2. DirectMode /\ Judged("dpid")
    BY <1>1, <2>1, Zenon DEF Watched
  <2>3. StartTypes' /\ Histories' /\ (~unsaved => \A n \in Name : Rhythm(gate'[n], starts'[n]))
    BY <2>1, <2>2, SpawnDpidKeeps
  <2>4. Rhythms'
    BY <2>1, <2>3, Zenon DEF Rhythms
  <2>5. DirectMode'
    BY <1>3, <2>1, <2>2, Zenon DEF DirectMode
  <2>6. Watched'
    BY <1>3, <2>5 DEF Watched
  <2> QED
    BY <1>5, <2>3, <2>4, <2>6, Zenon DEF GuardInv
<1>8. CASE Rescue
  <2>1. /\ wpc = "rescue"
        /\ SpawnDpid \/ UNCHANGED <<alive, gone, abort, deaths, gate, starts>>
        /\ (choice' = "direct" /\ unsaved' = unsaved) \/ unsaved' = TRUE
    BY <1>8, Zenon DEF Rescue
  <2>2. ~DirectMode /\ (~unsaved => gate["dpid"].last = Never)
    BY <1>1, <2>1 DEF Watched
  <2>3. CASE unsaved' = TRUE
    <3>1. StartTypes' /\ Histories'
      <4>1. "dpid" \in Name /\ "at once" \in {"no", "at once", "quick", "late"}
        BY DEF Name
      <4>2. CASE UNCHANGED <<alive, gone, abort, deaths, gate, starts>>
        BY <1>1, <1>2, <4>2, Zenon DEF StartTypes, Histories
      <4>3. CASE StartDpid("at once") /\ Recorded("dpid")
        <5>1. StartTypes'
          BY <1>2, <4>1, <4>3, StartsTyped, Zenon
        <5>2. Histories'
          BY <1>1, <4>1, <4>3, RecordedKeeps, Zenon
        <5> QED
          BY <5>1, <5>2
      <4> QED
        BY <2>1, <4>2, <4>3, Zenon DEF SpawnDpid
    <3>2. Rhythms'
      BY <2>3 DEF Rhythms
    <3>3. Watched'
      BY <1>3, <2>3 DEF Watched
    <3> QED
      BY <1>5, <3>1, <3>2, <3>3, Zenon DEF GuardInv
  <2>4. CASE ~unsaved /\ unsaved' = unsaved /\ choice' = "direct"
    <3>1. Judged("dpid")
      BY <2>2, <2>4, Zenon DEF Judged
    <3>2. StartTypes' /\ Histories' /\ (~unsaved => \A n \in Name : Rhythm(gate'[n], starts'[n]))
      BY <2>1, <3>1, SpawnDpidKeeps
    <3>3. Rhythms'
      BY <2>4, <3>2, Zenon DEF Rhythms
    <3>4. DirectMode'
      BY <2>4, Zenon DEF DirectMode
    <3>5. Watched'
      BY <1>3, <3>4 DEF Watched
    <3> QED
      BY <1>5, <3>2, <3>3, <3>5, Zenon DEF GuardInv
  <2>5. CASE unsaved /\ unsaved' = unsaved
    <3>1. unsaved' = TRUE
      <4>1. unsaved \in BOOLEAN
        BY <1>1, Zenon DEF GuardTypes
      <4> QED
        BY <2>5, <4>1
    <3> QED
      BY <2>3, <3>1
  <2> QED
    BY <2>1, <2>3, <2>4, <2>5, Zenon
<1> QED
  BY <1>6, <1>7, <1>8

\* Every step of the guard keeps the invariant.
LEMMA GuardStep == GuardInv /\ [Next]_vars => GuardInv'
<1> SUFFICES ASSUME GuardInv, [Next]_vars PROVE GuardInv'
  OBVIOUS
<1>1. CASE UNCHANGED vars
  BY <1>1, Zenon DEF vars, GuardInv, GuardTypes, Histories, Watched, Judged, DirectMode, Rhythms
<1>2. CASE Next
  BY <1>2, TickKeeps, RoundKeeps, ActsKeep, OthersKeep, Zenon DEF Next, Watchdog
<1> QED
  BY <1>1, <1>2

\* A sleep is noted for both processes, a start forgets it for its own.
LEMMA SleptKept == Sleepless /\ [Next]_vars => Sleepless'
<1> SUFFICES ASSUME Sleepless, [Next]_vars PROVE Sleepless'
  OBVIOUS
<1>1. \/ slept' = slept \/ slept' = Overslept
      \/ slept' = [slept EXCEPT !["launcher"] = FALSE] \/ slept' = [slept EXCEPT !["dpid"] = FALSE]
  <2>1. CASE UNCHANGED vars
    BY <2>1, Zenon DEF vars
  <2>2. CASE Tick \/ LauncherForks \/ RebindKill \/ RebindStart \/ \E n \in Name : Die(n)
    BY <2>2, Zenon DEF Tick, LauncherForks, RebindKill, RebindStart, Die
  <2>3. CASE Round
    BY <2>3, Zenon DEF Round
  <2>4. CASE Launch \/ Direct \/ Rescue
    BY <2>4, Zenon DEF Launch, Direct, Rescue, SpawnDpid, Recorded
  <2> QED
    BY <2>1, <2>2, <2>3, <2>4, Zenon DEF Next, Watchdog
<1>2. Overslept \in [Name -> BOOLEAN]
  BY DEF Overslept
<1> QED
  BY <1>1, <1>2 DEF Sleepless

\* At the start nothing was overslept.
LEMMA SleptStart == Init => Sleepless
  BY DEF Init, Sleepless

\* The guard's variables keep their types (m5.go, dpi_rebind.sh).
THEOREM TypeCorrect == Spec => []TypeOK
<1>1. GuardInv /\ Sleepless => TypeOK
  BY GuardTyped
<1> QED
  BY <1>1, GuardStart, GuardStep, SleptStart, SleptKept, PTL DEF Spec

\* The gate of m5.go keeps the starts of either process in any window within the
\* limit, whatever the rhythm of the rounds and the deaths.
THEOREM StormBounded == Spec => []NoStorm
<1>1. GuardInv => NoStorm
  BY GuardTyped
<1> QED
  BY <1>1, GuardStart, GuardStep, PTL DEF Spec

-----------------------------------------------------------------------------
(* A start that died at once.                                              *)

\* What the gate knows of a process that lives or not and whose end was q: a
\* process that died at once is dead, its start is on record, and a judgement of it,
\* or one in the unit of the start, is a failure unless it was overslept.
Fair(a, q, g, z) ==
  /\ a => q # "at once"
  /\ g.last = Never => q # "at once" /\ ~g.counted
  /\ g.counted /\ (q = "at once" \/ g.last = 0) /\ ~z => g.fails > 0
\* A start that died at once and is not yet judged was made since the last look.
Waits(q, g, t) == q = "at once" /\ ~g.counted => g.last <= t
Stillborn ==
  ~unsaved => /\ \A n \in Name : Fair(alive[n], gone[n], gate[n], slept[n])
              /\ DirectMode => Waits(gone["dpid"], gate["dpid"], gap)
              /\ ~DirectMode => Waits(gone["launcher"], gate["launcher"], gap)

\* The kind of death by the age of the start.
Ended(g) == IF g.last = Never THEN "no"
            ELSE IF g.last = 0 THEN "at once"
            ELSE IF g.last < QuickDeath THEN "quick" ELSE "late"

\* Only a start on record can have died at once.
LEMMA EndedIs ==
  ASSUME NEW t \in Nat
  PROVE  /\ 0 # Never /\ 0 <= t
         /\ \A g \in Gate : Ended(g) = "at once" => g.last = 0
<1>1. \A g \in Gate : Ended(g) = "at once" => g.last = 0
  BY DEF Ended
<1>2. 0 # Never /\ 0 <= t
  BY DEF Never
<1> QED
  BY <1>1, <1>2

\* A process that ends, or does not start, while its gate stays as it is.
LEMMA EndsFair ==
  ASSUME NEW g \in Gate, NEW a, NEW q, NEW b, NEW r, NEW z, NEW t \in Nat, Fair(a, q, g, z),
         ((b = a \/ ~b) /\ r = q) \/ r = "no" \/ (~b /\ r = Ended(g))
  PROVE  Fair(b, r, g, z) /\ (Waits(q, g, t) => Waits(r, g, t))
<1>1. CASE b = a /\ r = q
  BY <1>1, Zenon
<1>4. CASE ~b /\ r = q
  BY <1>4, Zenon DEF Fair, Waits
<1>2. CASE r = "no"
  <2>1. r # "at once"
    BY <1>2
  <2> QED
    BY <2>1, Zenon DEF Fair, Waits
<1>3. CASE ~b /\ r = Ended(g)
  <2>1. r = "at once" => g.last = 0 /\ g.last # Never /\ g.last <= t
    BY <1>3, EndedIs, Zenon
  <2> QED
    BY <1>3, <2>1, Zenon DEF Fair, Waits
<1> QED
  BY <1>1, <1>2, <1>3, <1>4, Zenon

\* A recorded start.
LEMMA SpawnedFair ==
  ASSUME NEW g \in Gate, NEW a, NEW q, NEW z, NEW t \in Nat, a => q # "at once"
  PROVE  Fair(a, q, Spawned(g), z) /\ Waits(q, Spawned(g), t)
<1>1. Spawned(g).last = 0 /\ Spawned(g).counted = FALSE
  BY DEF Spawned, Gate
<1>2. 0 # Never /\ 0 <= t
  BY EndedIs, Zenon
<1> QED
  BY <1>1, <1>2, Zenon DEF Fair, Waits

\* A unit of time.
LEMMA OlderFair ==
  ASSUME NEW g \in Gate, NEW a, NEW q, NEW z, NEW t \in Nat, Fair(a, q, g, z)
  PROVE  /\ Fair(a, q, [g EXCEPT !.last = Older(@)], z)
         /\ Waits(q, g, t) => Waits(q, [g EXCEPT !.last = Older(@)], t + 1)
<1> DEFINE h == [g EXCEPT !.last = Older(@)]
<1>1. h.last = Older(g.last) /\ h.counted = g.counted /\ h.fails = g.fails
  BY DEF Gate
<1> HIDE DEF h
<1>2. g.last \in Never .. Old
  BY DEF Gate
<1>3. (h.last = Never => g.last = Never) /\ h.last # 0 /\ (g.last <= t => h.last <= t + 1)
  BY <1>1, <1>2, OldIs, Numbers DEF Older, Least, Never
<1>4. Fair(a, q, h, z) /\ (Waits(q, g, t) => Waits(q, h, t + 1))
  BY <1>1, <1>3, Zenon DEF Fair, Waits
<1> QED
  BY <1>4 DEF h

\* A look: what died at once since the last look is a failure now, unless the sleep
\* before the look took as long as QuickDeath.
LEMMA JudgedFair ==
  ASSUME NEW g \in Gate, NEW live \in BOOLEAN, NEW q, NEW y, NEW z, Fair(live, q, g, y),
         NEW t \in Gaps, Waits(q, g, t), y => z, t >= QuickDeath => z
  PROVE  Fair(live, q, Observe(g, live), z) /\ Waits(q, Observe(g, live), 0)
<1>0. /\ g.last \in Never .. Old /\ g.fails \in 0 .. MaxBackoff /\ g.counted \in BOOLEAN
      /\ \A f \in 0 .. MaxBackoff, c \in BOOLEAN :
           /\ [g EXCEPT !.fails = f, !.counted = c].last = g.last
           /\ [g EXCEPT !.fails = f, !.counted = c].fails = f
           /\ [g EXCEPT !.fails = f, !.counted = c].counted = c
           /\ [g EXCEPT !.counted = c].last = g.last
           /\ [g EXCEPT !.counted = c].fails = g.fails
           /\ [g EXCEPT !.counted = c].counted = c
  BY DEF Gate
<1>a. /\ g.last \in Int /\ g.fails \in Int /\ g.fails >= 0 /\ g.fails <= MaxBackoff
      /\ t \in Nat /\ QuickDeath \in Nat
  <2>1. g.last \in -1 .. Old /\ g.fails \in 0 .. MaxBackoff /\ t \in Nat /\ QuickDeath \in Nat
    BY <1>0, GuardAssumption, Zenon DEF Never
  <2> QED
    BY <2>1, Numbers, OldIs
<1>1. CASE g.last = Never \/ g.counted
  <2>1. Observe(g, live) = g
    BY <1>1 DEF Observe
  <2>2. ~(q = "at once" /\ ~g.counted) /\ Fair(live, q, g, z)
    BY <1>1, Zenon DEF Fair
  <2> QED
    BY <2>1, <2>2, Zenon DEF Waits
<1>2. CASE ~(g.last = Never \/ g.counted) /\ ~live /\ g.last < QuickDeath
  <2> DEFINE f == Least(g.fails + 1, MaxBackoff)
  <2>1. f \in 0 .. MaxBackoff /\ f > 0
    BY <1>a, Numbers DEF Least
  <2>2. Observe(g, live) = [g EXCEPT !.fails = f, !.counted = TRUE]
    BY <1>2 DEF Observe
  <2> HIDE DEF f
  <2>3. Observe(g, live).last = g.last /\ Observe(g, live).fails = f /\ Observe(g, live).counted = TRUE
    BY <1>0, <2>1, <2>2
  <2> QED
    BY <1>2, <2>1, <2>3, Zenon DEF Fair, Waits
<1>3. CASE ~(g.last = Never \/ g.counted) /\ live /\ g.last >= QuickDeath
  <2>1. Observe(g, live) = [g EXCEPT !.fails = 0, !.counted = TRUE]
    BY <1>3 DEF Observe
  <2>2. Observe(g, live).last = g.last /\ Observe(g, live).counted = TRUE
    <3>1. 0 \in 0 .. MaxBackoff
      BY Numbers
    <3> QED
      BY <1>0, <2>1, <3>1
  <2>3. g.last # 0 \/ t >= QuickDeath
    BY <1>3, <1>a
  <2> QED
    BY <1>3, <2>2, <2>3, Zenon DEF Fair, Waits
<1>4. CASE ~(g.last = Never \/ g.counted) /\ live /\ ~(g.last >= QuickDeath)
  <2>1. Observe(g, live) = [g EXCEPT !.counted = FALSE]
    BY <1>4 DEF Observe
  <2>2. Observe(g, live).last = g.last /\ Observe(g, live).counted = FALSE
    BY <1>0, <2>1
  <2> QED
    BY <1>4, <2>2, Zenon DEF Fair, Waits
<1>5. CASE ~(g.last = Never \/ g.counted) /\ ~live /\ ~(g.last < QuickDeath)
  <2>1. g.last >= QuickDeath /\ (t >= QuickDeath \/ (g.last # 0 /\ ~(g.last <= t)))
    BY <1>a, <1>5
  <2>2. Observe(g, live) = [g EXCEPT !.counted = TRUE]
    BY <1>5, <2>1 DEF Observe
  <2>3. Observe(g, live).last = g.last /\ Observe(g, live).counted = TRUE
    BY <1>0, <2>2
  <2>4. q # "at once" \/ z
    BY <1>5, <2>1, Zenon DEF Waits
  <2> QED
    BY <1>5, <2>1, <2>3, <2>4, Zenon DEF Fair, Waits
<1> QED
  BY <1>1, <1>2, <1>3, <1>4, <1>5

\* A step in which each process ends, or comes, while the gates stay as they are.
LEMMA EndsKeep ==
  ASSUME GuardInv, Stillborn, UNCHANGED <<bin, choice, gate, gap, unsaved, slept>>,
         \A n \in Name : \/ (alive'[n] = alive[n] \/ ~alive'[n]) /\ gone'[n] = gone[n]
                         \/ gone'[n] = "no"
                         \/ ~alive'[n] /\ gone'[n] = Ended(gate[n])
  PROVE  Stillborn'
<1>1. SUFFICES ASSUME ~unsaved' PROVE Stillborn'
  BY Zenon DEF Stillborn
<1>2. ~unsaved /\ (DirectMode' <=> DirectMode) /\ gate' = gate /\ gap' = gap /\ slept' = slept
  BY <1>1, Zenon DEF DirectMode
<1>3. gap \in Nat /\ \A n \in Name : gate[n] \in Gate
  BY Zenon DEF GuardInv, GuardTypes, Histories
<1>4. \A n \in Name : /\ Fair(alive'[n], gone'[n], gate[n], slept[n])
                      /\ Waits(gone[n], gate[n], gap) => Waits(gone'[n], gate[n], gap)
  <2> TAKE n \in Name
  <2>1. Fair(alive[n], gone[n], gate[n], slept[n])
    BY <1>2, Zenon DEF Stillborn
  <2>2. PICK a, q, b, r, g, z : /\ a = alive[n] /\ q = gone[n] /\ g = gate[n] /\ z = slept[n]
                              /\ b = alive'[n] /\ r = gone'[n]
    OBVIOUS
  <2>3. Fair(a, q, g, z) /\ g \in Gate
    BY <1>3, <2>1, <2>2
  <2>4. ((b = a \/ ~b) /\ r = q) \/ r = "no" \/ (~b /\ r = Ended(g))
    BY <2>2, Zenon
  <2>5. Fair(b, r, g, z) /\ (Waits(q, g, gap) => Waits(r, g, gap))
    BY <1>3, <2>3, <2>4, EndsFair, Zenon
  <2> QED
    BY <2>2, <2>5
<1>5. "dpid" \in Name /\ "launcher" \in Name
  BY DEF Name
<1> QED
  BY <1>2, <1>4, <1>5, Zenon DEF Stillborn

\* A start that is recorded at its gate.
LEMMA SpawnKeeps ==
  ASSUME GuardInv, Sleepless, Stillborn, NEW n \in Name, Recorded(n), UNCHANGED <<bin, gap, unsaved>>,
         \A m \in Name \ {n} : alive'[m] = alive[m] /\ gone'[m] = gone[m],
         alive'[n] => gone'[n] # "at once",
         (DirectMode' <=> DirectMode) \/ (n = "dpid" /\ DirectMode')
  PROVE  Stillborn'
<1>1. SUFFICES ASSUME ~unsaved' PROVE Stillborn'
  BY Zenon DEF Stillborn
<1>2. ~unsaved /\ gap' = gap
  BY <1>1, Zenon
<1>3. gap \in Nat /\ gate \in [Name -> Gate] /\ gate[n] \in Gate
  BY Zenon DEF GuardInv, GuardTypes, Histories
<1>4. /\ gate'[n] = Spawned(gate[n])
      /\ \A m \in Name \ {n} : gate'[m] = gate[m] /\ slept'[m] = slept[m]
  BY <1>3 DEF Recorded, Sleepless
<1>5. Fair(alive'[n], gone'[n], gate'[n], slept'[n]) /\ Waits(gone'[n], gate'[n], gap)
  BY <1>3, <1>4, SpawnedFair
<1>6. \A m \in Name : Fair(alive'[m], gone'[m], gate'[m], slept'[m])
  <2> TAKE m \in Name
  <2>1. CASE m = n
    BY <1>5, <2>1
  <2>2. CASE m # n
    <3>1. Fair(alive[m], gone[m], gate[m], slept[m])
      BY <1>2, Zenon DEF Stillborn
    <3> QED
      BY <1>4, <2>2, <3>1
  <2> QED
    BY <2>1, <2>2
<1>7. "dpid" \in Name /\ "launcher" \in Name /\ "dpid" # "launcher"
  BY DEF Name
<1>8. n = "dpid" \/ n = "launcher"
  BY DEF Name
<1>9. DirectMode' => Waits(gone'["dpid"], gate'["dpid"], gap')
  <2>1. CASE n = "dpid"
    BY <1>2, <1>5, <2>1
  <2>2. CASE n = "launcher"
    <3>1. "dpid" \in Name \ {n}
      BY <1>7, <2>2
    <3>2. DirectMode' => Waits(gone["dpid"], gate["dpid"], gap)
      BY <1>2, <1>7, <2>2, Zenon DEF Stillborn
    <3> QED
      BY <1>2, <1>4, <3>1, <3>2
  <2> QED
    BY <1>8, <2>1, <2>2
<1>10. ~DirectMode' => Waits(gone'["launcher"], gate'["launcher"], gap')
  <2>1. CASE n = "launcher"
    BY <1>2, <1>5, <2>1
  <2>2. CASE n = "dpid"
    <3>1. "launcher" \in Name \ {n}
      BY <1>7, <2>2
    <3>2. ~DirectMode' => Waits(gone["launcher"], gate["launcher"], gap)
      BY <1>2, <1>7, <2>2, Zenon DEF Stillborn
    <3> QED
      BY <1>2, <1>4, <3>1, <3>2
  <2> QED
    BY <1>8, <2>1, <2>2
<1> QED
  BY <1>6, <1>9, <1>10, Zenon DEF Stillborn

\* A start touches one process: it is there, or it died when said.
LEMMA StartEnds ==
  ASSUME StartTypes, NEW f, NEW when
  PROVE  /\ StartDpid(when) =>
              /\ alive'["launcher"] = alive["launcher"] /\ gone'["launcher"] = gone["launcher"]
              /\ gone'["dpid"] = "no" \/ (~alive'["dpid"] /\ gone'["dpid"] = when)
         /\ StartLauncher(f, when) =>
              /\ alive'["dpid"] = alive["dpid"] /\ gone'["dpid"] = gone["dpid"]
              /\ gone'["launcher"] = "no" \/ (~alive'["launcher"] /\ gone'["launcher"] = when)
<1>1. alive \in [Name -> BOOLEAN] /\ gone \in [Name -> {"no", "at once", "quick", "late"}]
  BY Zenon DEF StartTypes
<1>2. ASSUME StartDpid(when)
      PROVE  /\ alive'["launcher"] = alive["launcher"] /\ gone'["launcher"] = gone["launcher"]
             /\ gone'["dpid"] = "no" \/ (~alive'["dpid"] /\ gone'["dpid"] = when)
  <2>1. \/ alive' = [alive EXCEPT !["dpid"] = TRUE] /\ gone' = [gone EXCEPT !["dpid"] = "no"]
        \/ alive' = alive /\ gone' = [gone EXCEPT !["dpid"] = IF alive["dpid"] THEN "no" ELSE when]
    BY <1>2, Zenon DEF StartDpid
  <2> QED
    BY <1>1, <2>1 DEF Name
<1>3. ASSUME StartLauncher(f, when)
      PROVE  /\ alive'["dpid"] = alive["dpid"] /\ gone'["dpid"] = gone["dpid"]
             /\ gone'["launcher"] = "no" \/ (~alive'["launcher"] /\ gone'["launcher"] = when)
  <2>1. \/ alive' = [alive EXCEPT !["launcher"] = TRUE] /\ gone' = [gone EXCEPT !["launcher"] = "no"]
        \/ alive' = alive /\ gone' = [gone EXCEPT !["launcher"] = IF alive["launcher"] THEN "no" ELSE when]
    BY <1>3, Zenon DEF StartLauncher
  <2> QED
    BY <1>1, <2>1 DEF Name
<1> QED
  BY <1>2, <1>3

\* Deaths, the launcher's fork and the rebind.
LEMMA OthersStillborn ==
  ASSUME GuardInv, Stillborn, LauncherForks \/ RebindKill \/ RebindStart \/ \E n \in Name : Die(n)
  PROVE  Stillborn'
<1> DEFINE Ends(n) == \/ (alive'[n] = alive[n] \/ ~alive'[n]) /\ gone'[n] = gone[n]
                      \/ gone'[n] = "no"
                      \/ ~alive'[n] /\ gone'[n] = Ended(gate[n])
<1>1. StartTypes
  BY Zenon DEF GuardInv, GuardTypes, StartTypes
<1>2. alive \in [Name -> BOOLEAN] /\ gone \in [Name -> {"no", "at once", "quick", "late"}]
  BY <1>1, Zenon DEF StartTypes
<1>3. UNCHANGED <<bin, choice, gate, gap, unsaved, slept>>
  BY Zenon DEF LauncherForks, RebindKill, RebindStart, Die
<1>4. \A n \in Name : DiedAt(n) = Ended(gate[n])
  BY Zenon DEF DiedAt, Ended
<1>5. "dpid" \in Name /\ "launcher" \in Name /\ \A n \in Name : n = "dpid" \/ n = "launcher"
  BY DEF Name
<1>6. CASE LauncherForks
  <2>1. alive' = [alive EXCEPT !["dpid"] = TRUE] /\ gone' = [gone EXCEPT !["dpid"] = "no"]
    BY <1>6, Zenon DEF LauncherForks
  <2>2. Ends("dpid") /\ Ends("launcher")
    BY <1>2, <1>5, <2>1
  <2> QED
    BY <1>3, <1>5, <2>2, EndsKeep, Zenon
<1>7. CASE RebindKill
  <2>1. /\ alive' = [alive EXCEPT !["dpid"] = FALSE]
        /\ gone' = [gone EXCEPT !["dpid"] = IF alive["dpid"] THEN DiedAt("dpid") ELSE gone["dpid"]]
    BY <1>7, Zenon DEF RebindKill
  <2>2. /\ alive'["dpid"] = FALSE /\ alive'["launcher"] = alive["launcher"]
        /\ gone'["launcher"] = gone["launcher"]
        /\ gone'["dpid"] = DiedAt("dpid") \/ gone'["dpid"] = gone["dpid"]
    BY <1>2, <2>1 DEF Name
  <2>3. Ends("dpid") /\ Ends("launcher")
    BY <1>4, <1>5, <2>2, Zenon
  <2> QED
    BY <1>3, <1>5, <2>3, EndsKeep, Zenon
<1>8. CASE RebindStart
  <2>1. \/ UNCHANGED <<alive, gone, abort, deaths>>
        \/ StartLauncher("dpid_guard.log", DiedAt("launcher"))
        \/ StartDpid(DiedAt("dpid"))
    BY <1>8, Zenon DEF RebindStart
  <2>2. Ends("dpid") /\ Ends("launcher")
    BY <1>1, <1>4, <1>5, <2>1, StartEnds, Zenon
  <2> QED
    BY <1>3, <1>5, <2>2, EndsKeep, Zenon
<1>9. CASE \E n \in Name : Die(n)
  <2>1. PICK n \in Name : Die(n)
    BY <1>9
  <2>2. alive' = [alive EXCEPT ![n] = FALSE] /\ gone' = [gone EXCEPT ![n] = DiedAt(n)]
    BY <2>1, Zenon DEF Die
  <2>3. /\ alive'[n] = FALSE /\ gone'[n] = DiedAt(n)
        /\ \A m \in Name \ {n} : alive'[m] = alive[m] /\ gone'[m] = gone[m]
    BY <1>2, <2>2
  <2>4. Ends(n) /\ \A m \in Name \ {n} : Ends(m)
    BY <1>4, <2>3, Zenon
  <2>5. \A m \in Name : Ends(m)
    BY <2>4
  <2> QED
    BY <1>3, <2>5, EndsKeep, Zenon
<1> QED
  BY <1>6, <1>7, <1>8, <1>9

\* Time.
LEMMA TickStillborn ==
  ASSUME GuardInv, Stillborn, Tick
  PROVE  Stillborn'
<1>1. SUFFICES ASSUME ~unsaved' PROVE Stillborn'
  BY Zenon DEF Stillborn
<1>2. /\ gap' = gap + 1 /\ gate' = [n \in Name |-> [gate[n] EXCEPT !.last = Older(@)]]
      /\ UNCHANGED <<bin, choice, alive, unsaved, gone, slept>>
  BY Zenon DEF Tick
<1>3. ~unsaved /\ (DirectMode' <=> DirectMode)
  BY <1>1, <1>2, Zenon DEF DirectMode
<1>4. gap \in Nat /\ \A n \in Name : gate[n] \in Gate
  BY Zenon DEF GuardInv, GuardTypes, Histories
<1>5. \A n \in Name : gate'[n] = [gate[n] EXCEPT !.last = Older(@)]
  BY <1>2, Zenon
<1>6. \A n \in Name : /\ Fair(alive[n], gone[n], gate'[n], slept[n])
                      /\ Waits(gone[n], gate[n], gap) => Waits(gone[n], gate'[n], gap + 1)
  <2> TAKE n \in Name
  <2>1. Fair(alive[n], gone[n], gate[n], slept[n]) /\ gate[n] \in Gate
    BY <1>3, <1>4, Zenon DEF Stillborn
  <2>2. PICK g \in Gate : g = gate[n]
    BY <2>1
  <2>3. /\ Fair(alive[n], gone[n], [g EXCEPT !.last = Older(@)], slept[n])
        /\ Waits(gone[n], g, gap) => Waits(gone[n], [g EXCEPT !.last = Older(@)], gap + 1)
    BY <1>4, <2>1, <2>2, OlderFair, Zenon
  <2> QED
    BY <1>5, <2>2, <2>3, Zenon
<1>7. "dpid" \in Name /\ "launcher" \in Name
  BY DEF Name
<1> QED
  BY <1>2, <1>3, <1>6, <1>7, Zenon DEF Stillborn

\* A look of the watchdog.
LEMMA RoundStillborn ==
  ASSUME GuardInv, Stillborn, Round
  PROVE  Stillborn'
<1>1. SUFFICES ASSUME ~unsaved' PROVE Stillborn'
  BY Zenon DEF Stillborn
<1>2. gap \in Gaps /\ gap' = 0 /\ UNCHANGED <<bin, choice, alive, unsaved, gone>>
  BY Zenon DEF Round
<1>3. ~unsaved /\ (DirectMode' <=> DirectMode)
  BY <1>1, <1>2, Zenon DEF DirectMode
<1>4. gate \in [Name -> Gate] /\ alive \in [Name -> BOOLEAN]
  BY Zenon DEF GuardInv, GuardTypes, Histories
<1>z. \A m \in Name : slept'[m] = (slept[m] \/ gap >= QuickDeath)
  <2>1. slept' = Overslept
    BY Zenon DEF Round
  <2> QED
    BY <2>1, Zenon DEF Overslept
<1>5. "dpid" \in Name /\ "launcher" \in Name
  BY DEF Name
<1>6. ASSUME NEW n \in Name, gate' = [gate EXCEPT ![n] = Observe(gate[n], alive[n])],
             Waits(gone[n], gate[n], gap)
      PROVE  /\ \A m \in Name : Fair(alive[m], gone[m], gate'[m], slept'[m])
             /\ Waits(gone[n], gate'[n], 0)
  <2>1. gate'[n] = Observe(gate[n], alive[n]) /\ \A m \in Name \ {n} : gate'[m] = gate[m]
    BY <1>4, <1>6
  <2>2. \A m \in Name : Fair(alive[m], gone[m], gate[m], slept[m])
    BY <1>3, Zenon DEF Stillborn
  <2>3. gate[n] \in Gate /\ alive[n] \in BOOLEAN
    BY <1>4
  <2>4. Fair(alive[n], gone[n], gate'[n], slept'[n]) /\ Waits(gone[n], gate'[n], 0)
    <3>1. (slept[n] => slept'[n]) /\ (gap >= QuickDeath => slept'[n])
      BY <1>z, Zenon
    <3>2. PICK g, q, y, z, v, t : /\ g = gate[n] /\ q = gone[n] /\ y = slept[n] /\ z = slept'[n]
                                  /\ v = alive[n] /\ t = gap
      OBVIOUS
    <3>3. g \in Gate /\ v \in BOOLEAN /\ t \in Gaps /\ Fair(v, q, g, y) /\ Waits(q, g, t)
      BY <1>2, <1>6, <2>2, <2>3, <3>2
    <3>4. (y => z) /\ (t >= QuickDeath => z)
      BY <3>1, <3>2
    <3>5. Fair(v, q, Observe(g, v), z) /\ Waits(q, Observe(g, v), 0)
      BY <3>3, <3>4, JudgedFair
    <3> QED
      BY <2>1, <3>2, <3>5
  <2>5. \A m \in Name : Fair(alive[m], gone[m], gate'[m], slept'[m])
    <3>1. \A m \in Name \ {n} : Fair(alive[m], gone[m], gate'[m], slept'[m])
      <4> TAKE m \in Name \ {n}
      <4>1. m \in Name /\ gate'[m] = gate[m]
        BY <2>1
      <4>2. Fair(alive[m], gone[m], gate[m], slept[m]) /\ (slept[m] => slept'[m])
        BY <1>z, <2>2, <4>1, Zenon
      <4> QED
        BY <4>1, <4>2, Zenon DEF Fair
    <3> QED
      BY <2>4, <3>1
  <2> QED
    BY <2>4, <2>5
<1>7. CASE DirectMode
  <2>1. gate' = [gate EXCEPT !["dpid"] = Observe(gate["dpid"], alive["dpid"])]
    BY <1>7, Zenon DEF Round
  <2>2. Waits(gone["dpid"], gate["dpid"], gap)
    BY <1>3, <1>7, Zenon DEF Stillborn
  <2>3. /\ \A m \in Name : Fair(alive[m], gone[m], gate'[m], slept'[m])
        /\ Waits(gone["dpid"], gate'["dpid"], 0)
    BY <1>5, <1>6, <2>1, <2>2, Zenon
  <2> QED
    BY <1>2, <1>3, <1>7, <2>3, Zenon DEF Stillborn
<1>8. CASE ~DirectMode
  <2>1. gate' = [gate EXCEPT !["launcher"] = Observe(gate["launcher"], alive["launcher"])]
    BY <1>8, Zenon DEF Round
  <2>2. Waits(gone["launcher"], gate["launcher"], gap)
    BY <1>3, <1>8, Zenon DEF Stillborn
  <2>3. /\ \A m \in Name : Fair(alive[m], gone[m], gate'[m], slept'[m])
        /\ Waits(gone["launcher"], gate'["launcher"], 0)
    BY <1>5, <1>6, <2>1, <2>2, Zenon
  <2> QED
    BY <1>2, <1>3, <1>8, <2>3, Zenon DEF Stillborn
<1> QED
  BY <1>7, <1>8

\* The three ways to act on a look.
LEMMA ActsStillborn ==
  ASSUME GuardInv, Sleepless, Stillborn, Launch \/ Direct \/ Rescue
  PROVE  Stillborn'
<1>1. SUFFICES ASSUME ~unsaved' PROVE Stillborn'
  BY Zenon DEF Stillborn
<1>2. StartTypes
  BY Zenon DEF GuardInv, GuardTypes, StartTypes
<1>3. UNCHANGED <<bin, gap>>
  BY Zenon DEF Launch, Direct, Rescue
<1>4. "dpid" \in Name /\ "launcher" \in Name /\ "no" # "at once" /\ \A n \in Name : n = "dpid" \/ n = "launcher"
  BY DEF Name
<1>5. UNCHANGED <<bin, choice, unsaved, gap, alive, gone, gate, slept>> => Stillborn'
  BY <1>1, EndsKeep, Zenon
<1>6. CASE Launch
  <2>1. /\ UNCHANGED <<choice, unsaved>>
        /\ \/ StartLauncher("launcher.log", "at once") /\ Recorded("launcher")
           \/ UNCHANGED <<alive, gone, gate, slept>>
    BY <1>6, Zenon DEF Launch
  <2>2. CASE StartLauncher("launcher.log", "at once") /\ Recorded("launcher")
    <3>1. /\ alive'["dpid"] = alive["dpid"] /\ gone'["dpid"] = gone["dpid"]
          /\ gone'["launcher"] = "no" \/ ~alive'["launcher"]
      BY <1>2, <2>2, StartEnds, Zenon
    <3>2. DirectMode' <=> DirectMode
      BY <1>3, <2>1, Zenon DEF DirectMode
    <3>3. \A m \in Name \ {"launcher"} : alive'[m] = alive[m] /\ gone'[m] = gone[m]
      BY <1>4, <3>1
    <3> QED
      BY <1>3, <1>4, <2>1, <2>2, <3>1, <3>2, <3>3, SpawnKeeps, Zenon
  <2> QED
    BY <1>3, <1>5, <2>1, <2>2, Zenon
<1>7. ASSUME SpawnDpid \/ UNCHANGED <<alive, gone, gate, slept>>, UNCHANGED unsaved,
             choice' = choice \/ choice' = "direct",
             choice' # choice => gate["dpid"].last = Never
      PROVE  Stillborn'
  <2>1. (DirectMode' <=> DirectMode) \/ DirectMode'
    BY <1>3, <1>7, Zenon DEF DirectMode
  <2>2. CASE StartDpid("at once") /\ Recorded("dpid")
    <3>1. /\ alive'["launcher"] = alive["launcher"] /\ gone'["launcher"] = gone["launcher"]
          /\ gone'["dpid"] = "no" \/ ~alive'["dpid"]
      BY <1>2, <2>2, StartEnds, Zenon
    <3>2. \A m \in Name \ {"dpid"} : alive'[m] = alive[m] /\ gone'[m] = gone[m]
      BY <1>4, <3>1
    <3> QED
      BY <1>3, <1>4, <1>7, <2>1, <2>2, <3>1, <3>2, SpawnKeeps, Zenon
  <2>3. CASE UNCHANGED <<alive, gone, gate, slept>>
    <3>1. CASE choice' = choice
      BY <1>3, <1>5, <1>7, <2>3, <3>1, Zenon
    <3>2. CASE choice' # choice
      <4>1. gate["dpid"].last = Never /\ choice' = "direct" /\ ~unsaved
        BY <1>1, <1>7, <3>2, Zenon
      <4>2. \A n \in Name : Fair(alive[n], gone[n], gate[n], slept[n])
        BY <4>1, Zenon DEF Stillborn
      <4>3. gone["dpid"] # "at once"
        BY <1>4, <4>1, <4>2, Zenon DEF Fair
      <4>4. DirectMode'
        BY <4>1, Zenon DEF DirectMode
      <4> QED
        BY <2>3, <4>2, <4>3, <4>4, Zenon DEF Stillborn, Waits
    <3> QED
      BY <3>1, <3>2
  <2> QED
    BY <1>7, <2>2, <2>3, Zenon DEF SpawnDpid
<1>8. CASE Direct
  BY <1>7, <1>8, Zenon DEF Direct
<1>9. CASE Rescue
  <2>1. /\ wpc = "rescue"
        /\ SpawnDpid \/ UNCHANGED <<alive, gone, gate, slept>>
        /\ (choice' = "direct" /\ unsaved' = unsaved) \/ unsaved' = TRUE
    BY <1>9, Zenon DEF Rescue
  <2>2. unsaved' = unsaved /\ choice' = "direct" /\ ~unsaved
    <3>1. unsaved' # TRUE
      BY <1>1
    <3>2. unsaved' = unsaved /\ choice' = "direct"
      BY <2>1, <3>1
    <3> QED
      BY <1>1, <3>2
  <2>3. Watched
    BY Zenon DEF GuardInv
  <2>4. gate["dpid"].last = Never
    BY <2>1, <2>2, <2>3 DEF Watched
  <2> QED
    BY <1>7, <2>1, <2>2, <2>4, Zenon
<1> QED
  BY <1>6, <1>8, <1>9

\* A start that died before a unit had passed is a failure once judged, for every set
\* of sleeps: m5.go's observe takes it for a success only when the watchdog slept
\* for m5QuickDeath or longer between that start and the judgement.
THEOREM StillbornCounted == Spec => []StillbornCounts
<1>1. Init => Stillborn
  <2> SUFFICES ASSUME Init PROVE Stillborn
    OBVIOUS
  <2>1. "dpid" \in Name /\ "launcher" \in Name /\ "no" # "at once"
    BY DEF Name
  <2>2. \A n \in Name : gone[n] = "no" /\ gate[n].counted = FALSE
    BY DEF Init
  <2> QED
    BY <2>1, <2>2, Zenon DEF Stillborn, Fair, Waits
<1>2. ASSUME GuardInv, Sleepless, Stillborn, [Next]_vars PROVE Stillborn'
  <2>1. CASE UNCHANGED vars
    BY <1>2, <2>1, EndsKeep, Zenon DEF vars
  <2>2. CASE Next
    BY <1>2, <2>2, TickStillborn, RoundStillborn, ActsStillborn, OthersStillborn, Zenon DEF Next, Watchdog
  <2> QED
    BY <1>2, <2>1, <2>2
<1>3. Stillborn => StillbornCounts
  BY Zenon DEF Stillborn, StillbornCounts, Fair
<1> QED
  BY <1>1, <1>2, <1>3, GuardStart, GuardStep, SleptStart, SleptKept, PTL DEF Spec
=============================================================================
