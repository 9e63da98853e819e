---------------------------- MODULE WatchdogProofs ----------------------------
(***************************************************************************)
(* For every window, cap, number of restores and longest sleep: a lasting  *)
(* fault doubles the window at most once, therefore the watchdog is never  *)
(* silent for two windows and a sleep while it sees the rules lost, and    *)
(* fewer than twice RestoreMax restores begin in any window.               *)
(*                                                                         *)
(* Then the whole watchdog, for any number of faults and any interfaces:   *)
(* its types, which bound the throttle's count and the fuse's and tie a    *)
(* blocked device to its chain, and that its throttle doubles only once.   *)
(***************************************************************************)
EXTENDS RestoreThrottle, Watchdog, TLAPS

\* What the two bounds rest on.  The window began no later than the last
\* return from passive mode, as far as the two ages are told apart, so a
\* doubled window ends when that return is two windows old; and nothing has
\* been silent for longer than the window has lasted.
Ages ==
  /\ thr.start \in Never .. WindowMax /\ thr.exit \in Never .. 2 * Window
  /\ thr.consec \in {0, 1}
  /\ thr.consec = 1 => thr.exit # Never /\ thr.start # Never
  /\ thr.exit # Never /\ thr.start # Never => thr.exit >= AtMost(thr.start, 2 * Window)

Quiet ==
  /\ gap \in 0 .. MaxGap /\ silent \in Nat
  /\ thr.start # Never => thr.start = WindowMax \/ silent <= thr.start
  /\ silent < 2 * Window + gap

Fields == [start : Int, count : Int, consec : Int, passive : BOOLEAN, exit : Int]

Shape == thr \in Fields

Inv == Shape /\ Ages /\ Quiet

USE DEF Never

\* What currentWindowDur computes in the only two cases that arise.
LEMMA Duration ==
  ASSUME NEW r, r.consec \in {0, 1}
  PROVE  /\ CurrentWindowDur(r) = IF r.consec = 0 THEN Window ELSE 2 * Window
         /\ CurrentWindowDur(r) <= WindowMax
<1>1. 2^0 = 1
  OBVIOUS
<1>2. 2^1 = 2
  OBVIOUS
<1>3. CASE r.consec = 0
  BY <1>1, <1>3, ThrottleAssumption DEF CurrentWindowDur, AtMost
<1>4. CASE r.consec = 1
  BY <1>2, <1>4, ThrottleAssumption DEF CurrentWindowDur, AtMost
<1> QED
  BY <1>3, <1>4

\* onHealthFail keeps the ages in order.  A window that rolls restarts at 0;
\* it can only have been doubled if the last return is too old to count.
LEMMA FailKeepsAges ==
  ASSUME Shape, Ages, thr' = OnHealthFail(thr)
  PROVE  Shape' /\ Ages'
<1> USE ThrottleAssumption
<1> DEFINE q == Rolled(thr)
<1>1. /\ CurrentWindowDur(thr) = IF thr.consec = 0 THEN Window ELSE 2 * Window
      /\ CurrentWindowDur(thr) <= WindowMax
  BY Duration DEF Ages
<1>2. CASE ~Rolls(thr)
  <2>1. q = thr
    BY <1>2 DEF Rolled
  <2>2. /\ thr' \in Fields
        /\ thr'.start = thr.start /\ thr'.exit = thr.exit /\ thr'.consec = thr.consec
    BY <2>1 DEF Shape, Fields, OnHealthFail, Attempts
  <2> QED
    BY <2>2 DEF Shape, Ages
<1>3. CASE Rolls(thr) /\ ~thr.passive
  <2>1. q \in Fields /\ q.start = 0 /\ q.exit = thr.exit /\ q.consec = thr.consec
    <3> DEFINE p == [thr EXCEPT !.start = 0]
    <3>1. p \in Fields /\ p.start = 0 /\ p.exit = thr.exit /\ p.consec = thr.consec
      BY DEF Shape, Fields
    <3>2. q = [p EXCEPT !.count = 0]
      BY <1>3, Zenon DEF Rolled
    <3> HIDE DEF p, q
    <3> QED
      BY <3>1, <3>2 DEF Fields
  <2> HIDE DEF q
  <2>2. /\ thr' \in Fields
        /\ thr'.start = 0 /\ thr'.exit = thr.exit /\ thr'.consec = thr.consec
    BY <2>1 DEF Fields, OnHealthFail, Attempts, q
  <2> QED
    BY <2>2 DEF Shape, Ages, AtMost
<1>4. CASE Rolls(thr) /\ thr.passive
  <2>1. thr.consec = 1 => ~(thr.exit # Never /\ thr.exit < 2 * Window)
    BY <1>1, <1>4 DEF Ages, Rolls, AtMost
  <2>2. ConsecAfter(thr) \in {0, 1}
    BY <2>1 DEF Ages, ConsecAfter
  <2>3. q = [start |-> 0, count |-> 0, consec |-> ConsecAfter(thr),
             passive |-> FALSE, exit |-> 0]
    BY <1>4 DEF Rolled
  <2>4. q \in Fields /\ q.start = 0 /\ q.exit = 0 /\ q.consec \in {0, 1}
    BY <2>2, <2>3 DEF Fields
  <2> HIDE DEF q
  <2>5. /\ thr' \in Fields
        /\ thr'.start = 0 /\ thr'.exit = 0 /\ thr'.consec \in {0, 1}
    BY <2>4 DEF Fields, OnHealthFail, Attempts, q
  <2> QED
    BY <2>5 DEF Shape, Ages, AtMost
<1> QED
  BY <1>2, <1>3, <1>4

\* So does a minute, and so does the end of a restore.
LEMMA MinuteKeepsAges ==
  ASSUME Shape, Ages, thr' = Elapse(thr)
  PROVE  /\ Shape' /\ Ages'
         /\ thr'.start = Aged(thr.start, WindowMax) /\ thr'.exit = Aged(thr.exit, 2 * Window)
<1> USE ThrottleAssumption
<1> DEFINE s == Aged(thr.start, WindowMax)
           e == Aged(thr.exit, 2 * Window)
<1>1. /\ s \in Never .. WindowMax /\ (thr.start # Never => s # Never)
      /\ e \in Never .. 2 * Window /\ (thr.exit # Never => e # Never)
      /\ e # Never /\ s # Never => e >= AtMost(s, 2 * Window)
  BY DEF Ages, Aged, AtMost
<1>2. thr' = [thr EXCEPT !.start = s, !.exit = e]
  BY DEF Elapse
<1> HIDE DEF s, e
<1>3. /\ thr' \in Fields
      /\ thr'.start = s /\ thr'.exit = e /\ thr'.consec = thr.consec
  <2> DEFINE p == [thr EXCEPT !.start = s]
  <2>1. s \in Int /\ e \in Int
    BY <1>1
  <2>2. p \in Fields /\ p.start = s /\ p.consec = thr.consec
    BY <2>1 DEF Shape, Fields
  <2>3. thr' = [p EXCEPT !.exit = e]
    BY <1>2, Zenon
  <2> HIDE DEF p
  <2> QED
    BY <2>1, <2>2, <2>3 DEF Fields
<1>4. Shape' /\ Ages'
  BY <1>1, <1>3 DEF Shape, Ages
<1> QED
  BY <1>3, <1>4 DEF s, e

LEMMA DoneKeepsAges ==
  ASSUME Shape, Ages, thr' = OnRestoreDone(thr)
  PROVE  Shape' /\ Ages' /\ thr'.start = thr.start
<1>1. /\ thr' \in Fields
      /\ thr'.start = thr.start /\ thr'.exit = thr.exit /\ thr'.consec = thr.consec
  BY DEF Shape, Fields, OnRestoreDone
<1> QED
  BY <1>1 DEF Shape, Ages

\* A round that finds the rules lost and does not attempt a restore falls
\* into a window that is not over.
LEMMA FailKeepsQuiet ==
  ASSUME Inv, FoundLost
  PROVE  Quiet'
<1> USE ThrottleAssumption
<1>1. /\ CurrentWindowDur(thr) \in Nat
      /\ CurrentWindowDur(thr) <= 2 * Window
      /\ CurrentWindowDur(thr) <= WindowMax
  BY Duration DEF Inv, Ages
<1>2. CASE Attempts(thr)
  <2>1. silent' = 0 /\ gap' = 0
    BY <1>2 DEF FoundLost
  <2>2. thr'.start \in Never .. WindowMax
    <3>1. thr' = OnHealthFail(thr)
      BY DEF FoundLost
    <3> QED
      BY <3>1, FailKeepsAges DEF Inv, Ages
  <2> QED
    BY <2>1, <2>2 DEF Quiet
<1>3. CASE ~Attempts(thr)
  <2>1. ~Rolls(thr) /\ thr' = thr
    BY <1>3 DEF FoundLost, OnHealthFail, Attempts, Rolled
  <2>2. thr.start # Never /\ thr.start < CurrentWindowDur(thr)
    BY <1>1, <2>1 DEF Rolls, Inv, Ages
  <2>3. silent <= thr.start
    BY <1>1, <2>2 DEF Inv, Quiet, Ages
  <2>4. silent' = silent /\ gap' = 0
    BY <1>3 DEF FoundLost
  <2> QED
    BY <1>1, <2>1, <2>2, <2>3, <2>4 DEF Inv, Quiet, Ages
<1> QED
  BY <1>2, <1>3

\* Every step of the throttle and of time keeps the invariant.
LEMMA InvStep == Inv /\ [RoundsNext]_roundsVars => Inv'
<1> SUFFICES ASSUME Inv, [RoundsNext]_roundsVars PROVE Inv'
  OBVIOUS
<1> USE ThrottleAssumption
<1>1. CASE Minute
  <2>1. thr' = Elapse(thr)
    BY <1>1 DEF Minute
  <2>2. /\ Shape' /\ Ages' /\ thr'.start = Aged(thr.start, WindowMax)
    BY <2>1, MinuteKeepsAges DEF Inv
  <2>3. thr'.start # Never => thr'.start = WindowMax \/ silent + 1 <= thr'.start
    BY <2>2 DEF Inv, Ages, Quiet, Aged, AtMost
  <2>4. silent' \in Nat /\ silent' <= silent + 1 /\ gap' = gap + 1 /\ gap < MaxGap
    BY <1>1 DEF Inv, Quiet, Minute, AtMost
  <2>5. thr'.start \in Never .. WindowMax
    BY <2>2 DEF Ages
  <2>6. Quiet'
    BY <2>3, <2>4, <2>5 DEF Inv, Quiet
  <2> QED
    BY <2>2, <2>6 DEF Inv
<1>2. CASE Untroubled
  BY <1>2 DEF Inv, Shape, Ages, Quiet, Untroubled
<1>3. CASE FoundLost
  <2>1. thr' = OnHealthFail(thr)
    BY <1>3 DEF FoundLost
  <2> QED
    BY <1>3, <2>1, FailKeepsAges, FailKeepsQuiet DEF Inv
<1>4. CASE Done
  <2>1. Shape' /\ Ages' /\ thr'.start = thr.start
    BY <1>4, DoneKeepsAges DEF Inv, Done
  <2>2. UNCHANGED <<gap, silent>>
    BY <1>4 DEF Done
  <2> QED
    BY <2>1, <2>2 DEF Inv, Quiet
<1>5. CASE UNCHANGED roundsVars
  BY <1>5 DEF Inv, Shape, Ages, Quiet, roundsVars
<1> QED
  BY <1>1, <1>2, <1>3, <1>4, <1>5 DEF RoundsNext

\* The inductive invariant of the throttle.
THEOREM Invariance == RoundsSpec => []Inv
<1>1. RoundsInit => Inv
  BY ThrottleAssumption
  DEF RoundsInit, Fresh, Inv, Shape, Fields, Ages, Quiet, AtMost
<1> QED
  BY <1>1, InvStep, PTL DEF RoundsSpec

\* restoreThrottle.consecutive never passes 1: the cap of an hour that
\* currentWindowDur provides for is never reached.
THEOREM DoubledOnce == RoundsSpec => []DoublesOnce
<1>1. Inv => DoublesOnce
  BY DEF Inv, Ages, DoublesOnce
<1> QED
  BY <1>1, Invariance, PTL

\* The longest time that passes without an attempt while rounds find the
\* rules lost, whatever the rhythm of the rounds.
THEOREM NeverSilentLong == RoundsSpec => []SilenceBounded
<1>1. Inv => SilenceBounded
  BY ThrottleAssumption DEF Inv, Quiet, SilenceBounded
<1> QED
  BY <1>1, Invariance, PTL

-----------------------------------------------------------------------------
(* The budget. *)

\* The first restore of a window began when the window did, so the restores
\* younger than the window are one less than it has counted; those of the
\* window before it that are still recent are short of that window's first.
Grows ==
  /\ recent \in [0 .. Window -> Nat] /\ recent[0] = 0
  /\ \A a \in 1 .. Window : recent[a - 1] <= recent[a]

Mode ==
  /\ running \in {"idle", "restoring"}
  /\ thr.count \in 0 .. RestoreMax
  /\ running = "idle" /\ ~thr.passive => thr.count < RestoreMax

Counted ==
  /\ thr.start = Never => running = "idle" /\ thr.count = 0 /\ recent[Window] = 0
  /\ thr.start # Never => /\ thr.count > 0
                          /\ \A a \in 0 .. Window : a <= thr.start => recent[a] < thr.count
  /\ recent[Window] < thr.count + RestoreMax

Budget == Grows /\ Mode /\ Counted

\* What a lost round does to the start and the count of the window.
LEMMA LostCounts ==
  ASSUME Inv, Budget, FoundLost, Attempts(thr)
  PROVE  /\ ~thr'.passive
         /\ \/ ~Rolls(thr) /\ ~thr.passive /\ thr'.start = thr.start /\ thr'.count = thr.count + 1
            \/ Rolls(thr) /\ thr'.start = 0 /\ thr'.count = 1
<1> DEFINE q == Rolled(thr)
<1>1. thr \in Fields /\ thr.passive \in BOOLEAN
  BY DEF Inv, Shape, Fields
<1>2. thr' = [q EXCEPT !.count = @ + 1] /\ ~q.passive
  BY DEF FoundLost, OnHealthFail, Attempts
<1>3. CASE ~Rolls(thr)
  <2>1. q = thr
    BY <1>3 DEF Rolled
  <2> QED
    BY <1>1, <1>2, <1>3, <2>1 DEF Fields
<1>4. CASE Rolls(thr) /\ ~thr.passive
  <2>1. q = [thr EXCEPT !.start = 0, !.count = 0]
    BY <1>4 DEF Rolled
  <2> DEFINE p == [thr EXCEPT !.start = 0]
  <2>2. p \in Fields /\ p.start = 0 /\ p.passive = thr.passive
    BY <1>1 DEF Fields
  <2>3. q = [p EXCEPT !.count = 0]
    BY <2>1, Zenon
  <2> HIDE DEF p, q
  <2>4. q \in Fields /\ q.start = 0 /\ q.count = 0 /\ q.passive = thr.passive
    BY <2>2, <2>3 DEF Fields
  <2> QED
    BY <1>1, <1>2, <1>4, <2>4 DEF Fields
<1>5. CASE Rolls(thr) /\ thr.passive
  <2>1. q = [start |-> 0, count |-> 0, consec |-> ConsecAfter(thr), passive |-> FALSE, exit |-> 0]
    BY <1>5 DEF Rolled
  <2> DEFINE c == ConsecAfter(thr)
  <2> HIDE DEF q, c
  <2>2. thr' = [[start |-> 0, count |-> 0, consec |-> c, passive |-> FALSE, exit |-> 0]
                  EXCEPT !.count = @ + 1]
    BY <1>2, <2>1 DEF c
  <2>3. thr'.start = 0 /\ thr'.count = 1
    BY <2>2
  <2>4. thr'.passive = FALSE
    BY <2>2
  <2> QED
    BY <1>5, <2>3, <2>4
<1> QED
  BY <1>1, <1>3, <1>4, <1>5

\* A round, the end of a restore and the passing of time keep within the budget.
LEMMA BudgetStep == Inv /\ Budget /\ [RoundsNext]_roundsVars => Budget'
<1> SUFFICES ASSUME Inv, Budget, [RoundsNext]_roundsVars PROVE Budget'
  OBVIOUS
<1> USE ThrottleAssumption
<1>0. /\ thr \in Fields /\ thr.start \in Never .. WindowMax
      /\ recent \in [0 .. Window -> Nat] /\ Window \in 0 .. Window
  BY DEF Inv, Shape, Ages, Budget, Grows, Mode, Counted
<1>1. CASE Minute
  <2> DEFINE s == Aged(thr.start, WindowMax)
             e == Aged(thr.exit, 2 * Window)
  <2>1. s \in Int /\ e \in Int
    BY DEF Inv, Ages, Aged, AtMost
  <2>2. /\ thr' = [thr EXCEPT !.start = s, !.exit = e]
        /\ recent' = [a \in 0 .. Window |-> IF a = 0 THEN 0 ELSE recent[a - 1]]
        /\ running' = running
    BY <1>1 DEF Minute, Elapse
  <2>3. s = Never <=> thr.start = Never
    BY <1>0 DEF Aged, AtMost
  <2>4. \A a \in 1 .. Window : a <= s => a - 1 <= thr.start
    BY <1>0 DEF Aged, AtMost
  <2> HIDE DEF s, e
  <2>5. thr'.start = s /\ thr'.count = thr.count /\ thr'.passive = thr.passive
    BY <1>0, <2>1, <2>2 DEF Fields
  <2>6. /\ recent' \in [0 .. Window -> Nat] /\ recent'[0] = 0
        /\ \A a \in 1 .. Window : recent'[a] = recent[a - 1] /\ a - 1 \in 0 .. Window
    <3>1. \A a \in 1 .. Window : a \in 0 .. Window /\ a # 0 /\ a - 1 \in 0 .. Window
      OBVIOUS
    <3>2. \A a \in 0 .. Window : (IF a = 0 THEN 0 ELSE recent[a - 1]) \in Nat
      <4> SUFFICES ASSUME NEW a \in 0 .. Window PROVE (IF a = 0 THEN 0 ELSE recent[a - 1]) \in Nat
        OBVIOUS
      <4>1. a # 0 => a - 1 \in 0 .. Window
        OBVIOUS
      <4> QED
        BY <1>0, <4>1
    <3>3. recent' \in [0 .. Window -> Nat]
      BY <2>2, <3>2
    <3>4. recent'[0] = 0
      BY <2>2
    <3> QED
      BY <2>2, <3>1, <3>3, <3>4
  <2>7. \A a \in 1 .. Window : recent'[a - 1] <= recent'[a]
    <3> SUFFICES ASSUME NEW a \in 1 .. Window PROVE recent'[a - 1] <= recent'[a]
      OBVIOUS
    <3>1. CASE a = 1
      BY <2>6, <3>1 DEF Budget, Grows
    <3>2. CASE a # 1
      <4>1. a - 1 \in 1 .. Window
        BY <3>2
      <4> QED
        BY <2>6, <4>1 DEF Budget, Grows
    <3> QED
      BY <3>1, <3>2
  <2>8. recent'[Window] <= recent[Window] /\ recent[Window] \in Nat /\ recent'[Window] \in Nat
    BY <1>0, <2>6 DEF Budget, Grows
  <2>9. thr.start # Never => \A a \in 0 .. Window : a <= s => recent'[a] < thr.count
    <3> SUFFICES ASSUME thr.start # Never, NEW a \in 0 .. Window, a <= s
                 PROVE  recent'[a] < thr.count
      OBVIOUS
    <3>1. CASE a = 0
      BY <2>6, <3>1 DEF Budget, Grows, Mode, Counted
    <3>2. CASE a # 0
      <4>1. a \in 1 .. Window /\ a - 1 <= thr.start /\ a - 1 \in 0 .. Window
        BY <2>4, <3>2
      <4> QED
        BY <2>6, <4>1 DEF Budget, Grows, Mode, Counted
    <3> QED
      BY <3>1, <3>2
  <2>10. Grows'
    BY <2>6, <2>7 DEF Grows
  <2>11. Mode'
    BY <2>2, <2>5 DEF Budget, Mode
  <2>12. Counted'
    <3>1. thr'.start = Never => running' = "idle" /\ thr'.count = 0 /\ recent'[Window] = 0
      BY <2>2, <2>3, <2>5, <2>8 DEF Budget, Counted
    <3>2. thr'.start # Never => /\ thr'.count > 0
                                /\ \A a \in 0 .. Window : a <= thr'.start => recent'[a] < thr'.count
      BY <2>3, <2>5, <2>9 DEF Budget, Counted
    <3>3. recent'[Window] < thr'.count + RestoreMax
      BY <2>5, <2>8 DEF Budget, Mode, Counted
    <3> QED
      BY <3>1, <3>2, <3>3 DEF Counted
  <2> QED
    BY <2>10, <2>11, <2>12 DEF Budget
<1>2. CASE Untroubled
  BY <1>2 DEF Untroubled, Budget, Grows, Mode, Counted
<1>3. CASE FoundLost
  <2>1. CASE ~Attempts(thr)
    <3>1. thr' = thr /\ UNCHANGED <<running, recent>>
      BY <2>1, <1>3 DEF FoundLost, OnHealthFail, Attempts, Rolled
    <3> QED
      BY <3>1 DEF Budget, Grows, Mode, Counted
  <2>2. CASE Attempts(thr)
    <3>1. /\ running = "idle" /\ running' = "restoring"
          /\ recent' = [a \in 0 .. Window |-> IF a = 0 THEN 0 ELSE recent[a] + 1]
      BY <1>3, <2>2 DEF FoundLost
    <3>2. /\ recent' \in [0 .. Window -> Nat] /\ recent'[0] = 0
          /\ \A a \in 1 .. Window : recent'[a] = recent[a] + 1 /\ recent[a] \in Nat
      BY <1>0, <3>1
    <3>3. \A a \in 1 .. Window : recent'[a - 1] <= recent'[a]
      <4> SUFFICES ASSUME NEW a \in 1 .. Window PROVE recent'[a - 1] <= recent'[a]
        OBVIOUS
      <4>1. CASE a = 1
        BY <3>2, <4>1
      <4>2. CASE a # 1
        <5>1. a - 1 \in 1 .. Window
          BY <4>2
        <5>2. recent[a - 1] <= recent[a]
          BY DEF Budget, Grows
        <5> QED
          BY <3>2, <5>1, <5>2
      <4> QED
        BY <4>1, <4>2
    <3>4. ~thr'.passive
      BY <1>3, <2>2, LostCounts
    <3>0. Grows'
      BY <3>2, <3>3 DEF Grows
    <3>5. CASE ~Rolls(thr) /\ ~thr.passive /\ thr'.start = thr.start /\ thr'.count = thr.count + 1
      <4>1. thr.start # Never /\ thr.count < RestoreMax
        BY <3>1, <3>5 DEF Rolls, Budget, Mode, Counted
      <4>2. \A a \in 0 .. Window : a <= thr.start => recent'[a] < thr.count + 1
        <5> SUFFICES ASSUME NEW a \in 0 .. Window, a <= thr.start
                     PROVE  recent'[a] < thr.count + 1
          OBVIOUS
        <5>1. recent[a] < thr.count /\ recent[a] \in Nat /\ thr.count \in Nat
          BY <1>0, <4>1 DEF Budget, Counted, Mode
        <5>2. CASE a = 0
          BY <3>2, <5>1, <5>2
        <5>3. CASE a \in 1 .. Window
          BY <3>2, <5>1, <5>3
        <5> QED
          BY <5>2, <5>3
      <4>3. recent'[Window] < thr.count + 1 + RestoreMax
        BY <3>2 DEF Budget, Mode, Counted
      <4>4. thr.count \in Nat
        BY DEF Budget, Mode
      <4>5. Mode'
        BY <3>1, <3>5, <4>1, <4>4 DEF Mode
      <4>6. Counted'
        BY <3>1, <3>5, <4>1, <4>2, <4>3, <4>4 DEF Counted
      <4> QED
        BY <3>0, <4>5, <4>6 DEF Budget
    <3>6. CASE Rolls(thr) /\ thr'.start = 0 /\ thr'.count = 1
      <4>1. recent[Window] < RestoreMax
        <5>1. CASE thr.start = Never
          BY <5>1 DEF Budget, Mode, Counted
        <5>2. CASE thr.start # Never
          <6>1. thr.start >= CurrentWindowDur(thr) /\ CurrentWindowDur(thr) >= Window
            BY <3>6, <5>2, Duration DEF Rolls, Inv, Ages
          <6>2. Window <= thr.start
            BY <1>0, <6>1, Duration DEF Inv, Ages
          <6> QED
            BY <1>0, <5>2, <6>2 DEF Budget, Mode, Counted
        <5> QED
          BY <5>1, <5>2
      <4>2. recent'[Window] < 1 + RestoreMax
        BY <1>0, <3>2, <4>1
      <4>3. \A a \in 0 .. Window : a <= 0 => recent'[a] < 1
        BY <3>2
      <4>4. Mode'
        BY <3>1, <3>6 DEF Mode
      <4>5. Counted'
        BY <3>1, <3>6, <4>2, <4>3 DEF Counted
      <4> QED
        BY <3>0, <4>4, <4>5 DEF Budget
    <3> QED
      BY <1>3, <2>2, <3>5, <3>6, LostCounts
  <2> QED
    BY <2>1, <2>2
<1>4. CASE Done
  <2>1. running = "restoring" /\ running' = "idle" /\ recent' = recent
    BY <1>4 DEF Done
  <2>2. /\ thr'.start = thr.start /\ thr'.count = thr.count
        /\ ~thr'.passive => ~(thr.count >= RestoreMax)
    BY <1>0, <1>4 DEF Fields, Done, OnRestoreDone
  <2>3. thr.start # Never
    BY <2>1 DEF Budget, Counted
  <2>4. Grows' /\ Counted'
    BY <2>1, <2>2, <2>3 DEF Budget, Grows, Counted
  <2>5. Mode'
    BY <2>1, <2>2 DEF Budget, Mode
  <2> QED
    BY <2>4, <2>5 DEF Budget
<1>5. CASE UNCHANGED roundsVars
  BY <1>5 DEF Budget, Grows, Mode, Counted, roundsVars
<1> QED
  BY <1>1, <1>2, <1>3, <1>4, <1>5 DEF RoundsNext

\* The budget holds in every state.
LEMMA BudgetInvariance == RoundsSpec => [](Inv /\ Budget)
<1>1. RoundsInit => Budget
  BY ThrottleAssumption DEF RoundsInit, Fresh, Budget, Grows, Mode, Counted
<1> QED
  BY <1>1, BudgetStep, Invariance, PTL DEF RoundsSpec

\* RestoreBound: whatever the rhythm of the rounds and whatever the fault,
\* fewer than twice restoreWindowMax restores begin in any restoreWindowSec.
THEOREM RestoresBounded == RoundsSpec => []RestoreBound
<1>1. Budget => RestoreBound
  BY ThrottleAssumption DEF Budget, Grows, Mode, Counted, RestoreBound
<1> QED
  BY <1>1, BudgetInvariance, PTL

\* RoundsTypeOK: the count never passes restoreWindowMax.
THEOREM TypeCorrect == RoundsSpec => []RoundsTypeOK
<1> DEFINE Found == last \in {"ok", "lost", "busy"}
<1>1. RoundsInit => Found
  BY DEF RoundsInit
<1>2. Found /\ [RoundsNext]_roundsVars => Found'
  BY DEF RoundsNext, Minute, Untroubled, FoundLost, Done, roundsVars
<1>3. Inv /\ Budget /\ Found => RoundsTypeOK
  <2> SUFFICES ASSUME Inv, Budget PROVE thr \in ThrottleState
    BY DEF Inv, Quiet, Budget, Grows, Mode, Counted, RoundsTypeOK
  <2> QED
    BY ThrottleAssumption DEF Inv, Shape, Fields, Ages, Budget, Grows, Mode, Counted, ThrottleState
<1> QED
  BY <1>1, <1>2, <1>3, BudgetInvariance, PTL DEF RoundsSpec

-----------------------------------------------------------------------------
(* The whole watchdog: its scripts, the files, the kernel's rules and what *)
(* happens to them.                                                        *)

\* The parts of TypeOK.
WatchTyped ==
  /\ state \in Iface \cup {None} /\ hot \in Iface \cup {None} /\ on \in Iface \cup {None}
  /\ core \in BOOLEAN /\ pend \in BOOLEAN /\ delayed \in BOOLEAN /\ failed \in BOOLEAN
  /\ pc \in Step /\ irc \in {"ok", "failed", "busy"} /\ cpc \in {"idle", "state"}
Rules == tc \in SUBSET Iface /\ chains \in BOOLEAN /\ ctrl \in BOOLEAN /\ block \in BOOLEAN /\ (block => ctrl)
Timed == marker \in Never .. Suppress /\ gap \in 0 .. MaxGap
Fused == fuse \in [fails : 0 .. FuseMax - 1, left : 0 .. FuseTime]
Suffered == faults \in [left : 0 .. Faults, harm : BOOLEAN]

\* An action runs on an interface, and outside full_restore a window that is not
\* passive has room for another one.
Given == pc # "idle" => on \in Iface
Room == pc \notin Restoring /\ ~thr.passive => thr.count < RestoreMax

WatchInv ==
  /\ WatchTyped /\ Rules /\ Timed /\ Fused /\ Suffered
  /\ thr \in ThrottleState /\ Given /\ Room

LEMMA WatchSays == ASSUME WatchInv PROVE TypeOK
BY Zenon DEF WatchInv, WatchTyped, Rules, Timed, Fused, Suffered, TypeOK

\* The throttle's operators keep its state, and a restore is attempted only where
\* there is room for it.
LEMMA ElapseKeeps ==
  ASSUME NEW r \in ThrottleState
  PROVE  Elapse(r) \in ThrottleState /\ Elapse(r).count = r.count /\ Elapse(r).passive = r.passive
<1> USE ThrottleAssumption
<1>1. /\ r.start \in Never .. WindowMax /\ r.exit \in Never .. 2 * Window
      /\ r.count \in 0 .. RestoreMax /\ r.consec \in Nat /\ r.passive \in BOOLEAN
  BY DEF ThrottleState
<1>2. Aged(r.start, WindowMax) \in Never .. WindowMax /\ Aged(r.exit, 2 * Window) \in Never .. 2 * Window
  BY <1>1 DEF Aged, AtMost
<1>3. Elapse(r) = [start |-> Aged(r.start, WindowMax), count |-> r.count, consec |-> r.consec,
                   passive |-> r.passive, exit |-> Aged(r.exit, 2 * Window)]
  <2>1. PICK a, b : a = Aged(r.start, WindowMax) /\ b = Aged(r.exit, 2 * Window)
    OBVIOUS
  <2>2. Elapse(r) = [[r EXCEPT !.start = a] EXCEPT !.exit = b]
    BY <2>1 DEF Elapse, ThrottleState
  <2>3. [r EXCEPT !.start = a] = [start |-> a, count |-> r.count, consec |-> r.consec,
                                  passive |-> r.passive, exit |-> r.exit]
    BY DEF ThrottleState
  <2> QED
    BY <2>1, <2>2, <2>3
<1> QED
  BY <1>1, <1>2, <1>3 DEF ThrottleState

LEMMA RolledKeeps ==
  ASSUME NEW r \in ThrottleState, ~r.passive => r.count < RestoreMax
  PROVE  Rolled(r) \in ThrottleState /\ (~Rolled(r).passive => Rolled(r).count < RestoreMax)
<1> USE ThrottleAssumption
<1>1. /\ r.start \in Never .. WindowMax /\ r.exit \in Never .. 2 * Window
      /\ r.count \in 0 .. RestoreMax /\ r.consec \in Nat /\ r.passive \in BOOLEAN
  BY DEF ThrottleState
<1>2. CASE ~Rolls(r)
  BY <1>2 DEF Rolled
<1>3. CASE Rolls(r) /\ ~r.passive
  <2>1. Rolled(r) = [start |-> 0, count |-> 0, consec |-> r.consec, passive |-> r.passive, exit |-> r.exit]
    BY <1>3 DEF Rolled, ThrottleState
  <2> QED
    BY <1>1, <2>1 DEF ThrottleState
<1>4. CASE Rolls(r) /\ r.passive
  <2>1. Rolled(r) = [start |-> 0, count |-> 0, consec |-> ConsecAfter(r), passive |-> FALSE, exit |-> 0]
    BY <1>4, Zenon DEF Rolled
  <2>2. ConsecAfter(r) \in Nat
    BY <1>1 DEF ConsecAfter
  <2> QED
    BY <2>1, <2>2 DEF ThrottleState
<1> QED
  BY <1>1, <1>2, <1>3, <1>4

LEMMA HealthFailKeeps ==
  ASSUME NEW r \in ThrottleState, ~r.passive => r.count < RestoreMax
  PROVE  /\ OnHealthFail(r) \in ThrottleState
         /\ ~Attempts(r) => (~OnHealthFail(r).passive => OnHealthFail(r).count < RestoreMax)
<1>1. PICK q : q = Rolled(r)
  OBVIOUS
<1>2. q \in ThrottleState /\ (~q.passive => q.count < RestoreMax)
  BY <1>1, RolledKeeps
<1>3. CASE q.passive
  BY <1>1, <1>2, <1>3 DEF OnHealthFail, Attempts
<1>4. CASE ~q.passive
  <2>1. OnHealthFail(r) = [start |-> q.start, count |-> q.count + 1, consec |-> q.consec,
                           passive |-> q.passive, exit |-> q.exit]
    BY <1>1, <1>2, <1>4 DEF OnHealthFail, Attempts, ThrottleState
  <2>2. q.count + 1 \in 0 .. RestoreMax
    BY <1>2, <1>4, ThrottleAssumption DEF ThrottleState
  <2> QED
    BY <1>1, <1>2, <1>4, <2>1, <2>2 DEF ThrottleState, Attempts
<1> QED
  BY <1>2, <1>3, <1>4 DEF ThrottleState

LEMMA DoneKeeps ==
  ASSUME NEW r \in ThrottleState
  PROVE  /\ OnRestoreDone(r) \in ThrottleState
         /\ ~OnRestoreDone(r).passive => OnRestoreDone(r).count < RestoreMax
<1> USE ThrottleAssumption
<1>1. CASE r.count >= RestoreMax
  <2>1. OnRestoreDone(r) = [start |-> r.start, count |-> r.count, consec |-> r.consec,
                            passive |-> TRUE, exit |-> r.exit]
    BY <1>1 DEF OnRestoreDone, ThrottleState
  <2> QED
    BY <2>1 DEF ThrottleState
<1>2. CASE ~(r.count >= RestoreMax)
  BY <1>2 DEF OnRestoreDone, ThrottleState
<1> QED
  BY <1>1, <1>2

LEMMA FreshKeeps == Fresh \in ThrottleState /\ Fresh.count < RestoreMax
BY ThrottleAssumption DEF Fresh, ThrottleState

\* A fault is counted.
LEMMA FaultKeeps ==
  ASSUME Suffered, NEW k, Fault(k) \/ NoFault
  PROVE  Suffered'
<1> USE WatchdogAssumption
<1>1. CASE NoFault
  BY <1>1 DEF NoFault, Suffered
<1>2. CASE Fault(k)
  <2>1. faults' = [left |-> faults.left - 1, harm |-> faults.harm \/ k \in Harmful] /\ faults.left > 0
    BY <1>2 DEF Fault
  <2>2. (faults.harm \/ k \in Harmful) \in BOOLEAN
    BY Zenon
  <2>3. faults.left - 1 \in 0 .. Faults
    BY <2>1 DEF Suffered
  <2> QED
    BY <2>1, <2>2, <2>3 DEF Suffered
<1> QED
  BY <1>1, <1>2

LEMMA RecordKeeps ==
  ASSUME Fused, NEW g \in BOOLEAN, RepairRecord(g) \/ UNCHANGED fuse
  PROVE  Fused'
<1> USE WatchdogAssumption
<1>0. fuse.fails \in 0 .. FuseMax - 1 /\ fuse.left \in 0 .. FuseTime
  BY DEF Fused
<1>1. CASE fuse' = fuse
  BY <1>1 DEF Fused
<1>2. CASE fuse' = [fails |-> 0, left |-> 0]
  BY <1>2 DEF Fused
<1>3. CASE fuse' = [fails |-> 0, left |-> FuseTime]
  BY <1>3 DEF Fused
<1>4. CASE fuse' = [fuse EXCEPT !.fails = @ + 1] /\ ~(fuse.fails + 1 >= FuseMax)
  <2>1. fuse' = [fails |-> fuse.fails + 1, left |-> fuse.left]
    BY <1>4 DEF Fused
  <2> QED
    BY <1>0, <1>4, <2>1 DEF Fused
<1> QED
  BY <1>1, <1>2, <1>3, <1>4 DEF RepairRecord

LEMMA ProbeKeeps ==
  ASSUME Suffered, core \in BOOLEAN, Probe
  PROVE  Suffered' /\ core' \in BOOLEAN
BY FaultKeeps, Zenon DEF Probe

LEMMA IptKeeps ==
  ASSUME Suffered, Rules, NEW k, IptInit(k), UNCHANGED tc
  PROVE  Suffered' /\ Rules'
<1>1. Suffered'
  BY FaultKeeps, Zenon DEF IptInit
<1>2. \/ chains' = TRUE /\ ctrl' = TRUE /\ block' = FALSE
      \/ chains' = chains /\ ctrl' = ctrl /\ block' = block
  BY Zenon DEF IptInit
<1>4. tc' \in SUBSET Iface
  BY DEF Rules
<1>5. ASSUME chains' = TRUE, ctrl' = TRUE, block' = FALSE PROVE Rules'
  BY <1>4, <1>5, Zenon DEF Rules
<1>6. ASSUME chains' = chains, ctrl' = ctrl, block' = block PROVE Rules'
  BY <1>4, <1>6 DEF Rules
<1>3. Rules'
  BY <1>2, <1>5, <1>6
<1> QED
  BY <1>1, <1>3

LEMMA TcKeeps ==
  ASSUME Suffered, Rules, failed \in BOOLEAN, on \in Iface, TcInit, UNCHANGED <<chains, ctrl, block>>
  PROVE  Suffered' /\ Rules' /\ failed' \in BOOLEAN /\ irc' \in {"ok", "failed", "busy"}
<1>1. Suffered'
  BY FaultKeeps, Zenon DEF TcInit
<1> QED
  BY <1>1 DEF Rules, TcInit

LEMMA RestoreKeeps ==
  ASSUME Suffered, Rules, failed \in BOOLEAN, NEW k, Restore(k), UNCHANGED <<tc, chains, ctrl>>
  PROVE  Suffered' /\ Rules' /\ failed' \in BOOLEAN
<1>1. Suffered'
  BY FaultKeeps, Zenon DEF Restore, RestoreOk, RestoreFails, RestoreRefused
<1>a. block' = block \/ block' = FALSE \/ block' = ctrl
  BY Zenon DEF Restore, RestoreOk, RestoreFails, RestoreRefused
<1>b. tc' \in SUBSET Iface /\ chains' = chains /\ ctrl' = ctrl
  BY DEF Rules
<1>2. Rules'
  <2>1. CASE block' = block
    BY <1>b, <2>1 DEF Rules
  <2>2. CASE block' = FALSE
    BY <1>b, <2>2 DEF Rules
  <2>3. CASE block' = ctrl
    BY <1>b, <2>3 DEF Rules
  <2> QED
    BY <1>a, <2>1, <2>2, <2>3
<1>3. failed' \in BOOLEAN
  BY Zenon DEF Restore, RestoreOk, RestoreFails, RestoreRefused
<1> QED
  BY <1>1, <1>2, <1>3

LEMMA WatchStart == Init => WatchInv
<1> SUFFICES ASSUME Init PROVE WatchInv
  OBVIOUS
<1> USE WatchdogAssumption, ThrottleAssumption
<1>1. WatchTyped
  BY DEF Init, WatchTyped, Step
<1>2. Rules
  BY DEF Init, Rules
<1>3. Timed /\ Fused /\ Suffered
  BY DEF Init, Timed, Fused, Suffered
<1>4. thr \in ThrottleState /\ Given /\ Room
  BY FreshKeeps DEF Init, Given, Room
<1> QED
  BY <1>1, <1>2, <1>3, <1>4 DEF WatchInv

\* One action at a time.
LEMMA TickKeeps == ASSUME WatchInv, Tick PROVE WatchInv'
<1> USE WatchdogAssumption, ThrottleAssumption
<1>0. WatchTyped /\ Rules /\ Timed /\ Fused /\ Suffered /\ thr \in ThrottleState /\ Given /\ Room
  BY DEF WatchInv
<1>1. /\ UNCHANGED <<state, hot, core, tc, chains, ctrl, block, pend, delayed, pc, on, irc, cpc, faults, failed>>
      /\ gap < MaxGap /\ gap' = gap + 1 /\ thr' = Elapse(thr) /\ marker' = Aged(marker, Suppress)
      /\ fuse' = [fuse EXCEPT !.left = IF @ = 0 THEN 0 ELSE @ - 1]
  BY DEF Tick, kernel
<1>2. WatchTyped' /\ Rules' /\ Suffered' /\ Given'
  BY <1>0, <1>1 DEF WatchTyped, Rules, Suffered, Given
<1>3. Timed'
  BY <1>0, <1>1 DEF Timed, Aged, AtMost
<1>4. Fused'
  <2>1. fuse.fails \in 0 .. FuseMax - 1 /\ fuse.left \in 0 .. FuseTime
    BY <1>0 DEF Fused
  <2>2. fuse' = [fails |-> fuse.fails, left |-> IF fuse.left = 0 THEN 0 ELSE fuse.left - 1]
    BY <1>0, <1>1 DEF Fused
  <2> QED
    BY <2>1, <2>2 DEF Fused
<1>5. thr' \in ThrottleState /\ Room'
  BY <1>0, <1>1, ElapseKeeps DEF Room
<1> QED
  BY <1>2, <1>3, <1>4, <1>5 DEF WatchInv

LEMMA RoundKeeps == ASSUME WatchInv, Round PROVE WatchInv'
<1> USE WatchdogAssumption, ThrottleAssumption
<1>0. WatchTyped /\ Rules /\ Timed /\ Fused /\ Suffered /\ thr \in ThrottleState /\ Given /\ Room
  BY DEF WatchInv
<1>a. pc = "idle"
  BY DEF Round, RoundIdle, RoundAct
<1>b. ~thr.passive => thr.count < RestoreMax
  BY <1>0, <1>a DEF Room, Restoring
<1>1. CASE RoundIdle
  <2>1. /\ UNCHANGED <<state, hot, tc, chains, ctrl, block, pend, marker, fuse, delayed, pc, on, irc, cpc, failed>>
        /\ gap' = 0
    BY <1>1 DEF RoundIdle, files, kernel
  <2>2. \/ NoFault /\ UNCHANGED <<core, thr>>
        \/ Probe /\ UNCHANGED thr
        \/ Fault("check busy") /\ UNCHANGED <<core, thr>>
        \/ Probe /\ ~Attempts(thr) /\ thr' = OnHealthFail(thr)
    BY <1>1, Zenon DEF RoundIdle
  <2>3. Suffered' /\ core' \in BOOLEAN
    <3>1. core \in BOOLEAN
      BY <1>0 DEF WatchTyped
    <3>2. CASE Probe
      BY <1>0, <3>1, <3>2, ProbeKeeps
    <3>3. CASE UNCHANGED core /\ (NoFault \/ Fault("check busy"))
      BY <1>0, <3>1, <3>3, FaultKeeps
    <3> QED
      BY <2>2, <3>2, <3>3
  <2>4. thr' \in ThrottleState /\ Room'
    <3>1. CASE thr' = thr
      BY <1>0, <2>1, <3>1 DEF Room
    <3>2. CASE ~Attempts(thr) /\ thr' = OnHealthFail(thr)
      BY <1>0, <1>b, <3>2, HealthFailKeeps DEF Room
    <3> QED
      BY <2>2, <3>1, <3>2
  <2>5. WatchTyped'
    BY <1>0, <2>1, <2>3 DEF WatchTyped
  <2>6. Rules' /\ Given'
    BY <1>0, <2>1 DEF Rules, Given
  <2>7. Timed' /\ Fused'
    BY <1>0, <2>1 DEF Timed, Fused
  <2> QED
    BY <2>3, <2>4, <2>5, <2>6, <2>7 DEF WatchInv
<1>2. CASE RoundAct
  <2>1. /\ UNCHANGED <<state, hot, tc, chains, ctrl, block, pend, marker, fuse, delayed, irc, cpc, failed>>
        /\ gap' = 0 /\ hot # None /\ on' = hot
    BY <1>2 DEF RoundAct, files, kernel
  <2>2. \/ pc' \in {"init chains", "migrate tc"} /\ NoFault /\ UNCHANGED <<core, thr>>
        \/ Probe /\ pc' = "restore" /\ thr' = OnHealthFail(thr)
    BY <1>2 DEF RoundAct
  <2>3. Suffered' /\ core' \in BOOLEAN
    <3>1. core \in BOOLEAN
      BY <1>0 DEF WatchTyped
    <3>2. CASE Probe
      BY <1>0, <3>1, <3>2, ProbeKeeps
    <3>3. CASE UNCHANGED core /\ NoFault
      BY <1>0, <3>1, <3>3, FaultKeeps
    <3> QED
      BY <2>2, <3>2, <3>3
  <2>4. thr' \in ThrottleState /\ Room'
    <3>1. CASE thr' = thr
      BY <1>0, <1>b, <3>1 DEF Room
    <3>2. CASE pc' = "restore" /\ thr' = OnHealthFail(thr)
      BY <1>0, <1>b, <3>2, HealthFailKeeps DEF Room, Restoring
    <3> QED
      BY <2>2, <3>1, <3>2
  <2>5. WatchTyped' /\ Given'
    <3>1. pc' \in Step
      BY <2>2 DEF Step
    <3>2. on' \in Iface
      BY <1>0, <2>1 DEF WatchTyped
    <3> QED
      BY <1>0, <2>1, <2>3, <3>1, <3>2 DEF WatchTyped, Given
  <2>6. Rules'
    BY <1>0, <2>1 DEF Rules
  <2>7. Timed' /\ Fused'
    BY <1>0, <2>1 DEF Timed, Fused
  <2> QED
    BY <2>3, <2>4, <2>5, <2>6, <2>7 DEF WatchInv
<1> QED
  BY <1>1, <1>2 DEF Round

\* do_full_init, do_migrate and the restore after it.
LEMMA InitKeeps ==
  ASSUME WatchInv, FullInitChains \/ FullInitTc \/ FullInitRestore \/ DelayedRestore
  PROVE  WatchInv'
<1> USE WatchdogAssumption
<1>0. WatchTyped /\ Rules /\ Timed /\ Fused /\ Suffered /\ thr \in ThrottleState /\ Given /\ Room
  BY DEF WatchInv
<1>f. failed \in BOOLEAN
  BY <1>0 DEF WatchTyped
<1>1. CASE FullInitChains
  <2>1. /\ UNCHANGED <<state, hot, core, tc, pend, marker, fuse, thr, delayed, on, irc, cpc, gap, failed>>
        /\ pc = "init chains" /\ pc' \in {"init tc", "init restore"} /\ IptInit("init refused")
    BY <1>1 DEF FullInitChains, Then, files
  <2>2. Suffered' /\ Rules'
    BY <1>0, <2>1, IptKeeps
  <2>3. WatchTyped' /\ Given'
    BY <1>0, <2>1 DEF WatchTyped, Given, Step
  <2>4. Timed' /\ Fused'
    BY <1>0, <2>1 DEF Timed, Fused
  <2>5. thr' \in ThrottleState /\ Room'
    BY <1>0, <2>1 DEF Room, Restoring
  <2> QED
    BY <2>2, <2>3, <2>4, <2>5 DEF WatchInv
<1>2. CASE FullInitTc
  <2>1. /\ UNCHANGED <<state, hot, core, chains, ctrl, block, pend, marker, fuse, thr, delayed, on, cpc, gap>>
        /\ pc = "init tc" /\ pc' = "init restore" /\ TcInit
    BY <1>2 DEF FullInitTc, Then, files
  <2>2. on \in Iface
    BY <1>0, <2>1 DEF Given
  <2>3. Suffered' /\ Rules' /\ failed' \in BOOLEAN /\ irc' \in {"ok", "failed", "busy"}
    BY <1>0, <1>f, <2>1, <2>2, TcKeeps
  <2>4. WatchTyped' /\ Given'
    BY <1>0, <2>1, <2>3 DEF WatchTyped, Given, Step
  <2>5. Timed' /\ Fused'
    BY <1>0, <2>1 DEF Timed, Fused
  <2>6. thr' \in ThrottleState /\ Room'
    BY <1>0, <2>1 DEF Room, Restoring
  <2> QED
    BY <2>3, <2>4, <2>5, <2>6 DEF WatchInv
<1>3. CASE FullInitRestore
  <2>1. /\ UNCHANGED <<hot, core, tc, chains, ctrl, pend, marker, fuse, thr, on, irc, cpc, gap>>
        /\ pc = "init restore" /\ pc' = "idle" /\ Restore("init refused") /\ state' = on /\ delayed' = TRUE
    BY <1>3 DEF FullInitRestore, Idle
  <2>2. on \in Iface
    BY <1>0, <2>1 DEF Given
  <2>3. Suffered' /\ Rules' /\ failed' \in BOOLEAN
    BY <1>0, <1>f, <2>1, RestoreKeeps
  <2>4. WatchTyped' /\ Given'
    BY <1>0, <2>1, <2>2, <2>3 DEF WatchTyped, Given, Step
  <2>5. Timed' /\ Fused'
    BY <1>0, <2>1 DEF Timed, Fused
  <2>6. thr' \in ThrottleState /\ Room'
    BY <1>0, <2>1 DEF Room, Restoring
  <2> QED
    BY <2>3, <2>4, <2>5, <2>6 DEF WatchInv
<1>4. CASE DelayedRestore
  <2>1. /\ UNCHANGED <<state, hot, core, tc, chains, ctrl, pend, marker, fuse, thr, pc, on, irc, cpc, gap>>
        /\ delayed' = FALSE
        /\ Restore("init refused") \/ (NoFault /\ UNCHANGED <<block, failed>>)
    BY <1>4 DEF DelayedRestore, files
  <2>2. Suffered' /\ Rules' /\ failed' \in BOOLEAN
    <3>1. CASE Restore("init refused")
      BY <1>0, <1>f, <2>1, <3>1, RestoreKeeps
    <3>2. CASE NoFault /\ UNCHANGED <<block, failed>>
      BY <1>0, <1>f, <2>1, <3>2, FaultKeeps DEF Rules
    <3> QED
      BY <2>1, <3>1, <3>2
  <2>3. WatchTyped' /\ Given'
    BY <1>0, <2>1, <2>2 DEF WatchTyped, Given
  <2>4. Timed' /\ Fused'
    BY <1>0, <2>1 DEF Timed, Fused
  <2>5. thr' \in ThrottleState /\ Room'
    BY <1>0, <2>1 DEF Room
  <2> QED
    BY <2>2, <2>3, <2>4, <2>5 DEF WatchInv
<1> QED
  BY <1>1, <1>2, <1>3, <1>4

LEMMA MigrateKeeps == ASSUME WatchInv, MigrateTc \/ MigrateRestore PROVE WatchInv'
<1> USE WatchdogAssumption
<1>0. WatchTyped /\ Rules /\ Timed /\ Fused /\ Suffered /\ thr \in ThrottleState /\ Given /\ Room
  BY DEF WatchInv
<1>f. failed \in BOOLEAN /\ core \in BOOLEAN
  BY <1>0 DEF WatchTyped
<1>1. CASE MigrateTc
  <2>1. /\ UNCHANGED <<hot, chains, ctrl, block, pend, marker, fuse, thr, delayed, on, cpc, gap>>
        /\ pc = "migrate tc" /\ pc' \in {"idle", "migrate tc", "migrate restore"}
        /\ state' \in {state, None, on} /\ irc' \in {irc, "ok", "failed", "busy"}
    BY <1>1 DEF MigrateTc, Then, Idle
  <2>2. on \in Iface
    BY <1>0, <2>1 DEF Given
  <2>3. /\ \E k : Fault(k) \/ NoFault
        /\ core' = core \/ core' = ~core
        /\ failed' = failed \/ failed' = TRUE
    BY <1>1, Zenon DEF MigrateTc
  <2>4. Suffered' /\ core' \in BOOLEAN /\ failed' \in BOOLEAN
    BY <1>0, <1>f, <2>3, FaultKeeps, Zenon
  <2>5. tc' \in SUBSET Iface
    <3>1. tc' = tc \/ \E kept \in {tc, tc \ {state}} : tc' = kept \/ tc' = kept \cup {on}
      BY <1>1, Zenon DEF MigrateTc
    <3> QED
      BY <1>0, <2>2, <3>1 DEF Rules
  <2>6. Rules'
    BY <1>0, <2>1, <2>5 DEF Rules
  <2>7. WatchTyped' /\ Given'
    BY <1>0, <2>1, <2>2, <2>4 DEF WatchTyped, Given, Step
  <2>8. Timed' /\ Fused'
    BY <1>0, <2>1 DEF Timed, Fused
  <2>9. thr' \in ThrottleState /\ Room'
    BY <1>0, <2>1 DEF Room, Restoring
  <2> QED
    BY <2>4, <2>6, <2>7, <2>8, <2>9 DEF WatchInv
<1>2. CASE MigrateRestore
  <2>1. /\ UNCHANGED <<hot, core, tc, chains, ctrl, pend, marker, fuse, thr, delayed, on, irc, cpc, gap>>
        /\ pc = "migrate restore" /\ pc' = "idle" /\ Restore("init refused") /\ state' = on
    BY <1>2 DEF MigrateRestore, Idle
  <2>2. on \in Iface
    BY <1>0, <2>1 DEF Given
  <2>3. Suffered' /\ Rules' /\ failed' \in BOOLEAN
    BY <1>0, <1>f, <2>1, RestoreKeeps
  <2>4. WatchTyped' /\ Given'
    BY <1>0, <2>1, <2>2, <2>3 DEF WatchTyped, Given, Step
  <2>5. Timed' /\ Fused'
    BY <1>0, <2>1 DEF Timed, Fused
  <2>6. thr' \in ThrottleState /\ Room'
    BY <1>0, <2>1 DEF Room, Restoring
  <2> QED
    BY <2>3, <2>4, <2>5, <2>6 DEF WatchInv
<1> QED
  BY <1>1, <1>2

\* full_restore.
LEMMA FullRestoreKeeps ==
  ASSUME WatchInv, \/ FullRestoreSkips \/ FullRestoreStarts \/ FullRestoreChains
                   \/ FullRestoreProbe \/ FullRestoreTc \/ FullRestoreRules
  PROVE  WatchInv'
<1> USE WatchdogAssumption
<1>0. WatchTyped /\ Rules /\ Timed /\ Fused /\ Suffered /\ thr \in ThrottleState /\ Given /\ Room
  BY DEF WatchInv
<1>f. failed \in BOOLEAN /\ core \in BOOLEAN
  BY <1>0 DEF WatchTyped
<1>d. ASSUME Reported PROVE thr' \in ThrottleState /\ Room'
  BY <1>0, <1>d, DoneKeeps DEF Reported, Room
<1>1. CASE FullRestoreSkips
  <2>1. /\ UNCHANGED <<state, hot, core, tc, chains, ctrl, block, pend, fuse, delayed, on, irc, cpc, gap, faults, failed>>
        /\ pc' = "idle" /\ marker' \in {marker, Never} /\ Reported
    BY <1>1 DEF FullRestoreSkips, Idle, kernel
  <2>2. WatchTyped' /\ Given'
    BY <1>0, <2>1 DEF WatchTyped, Given, Step
  <2>3. Rules' /\ Suffered'
    BY <1>0, <2>1 DEF Rules, Suffered
  <2>4. Timed' /\ Fused'
    BY <1>0, <2>1 DEF Timed, Fused
  <2> QED
    BY <1>d, <2>1, <2>2, <2>3, <2>4 DEF WatchInv
<1>2. CASE FullRestoreStarts
  <2>1. /\ UNCHANGED <<state, hot, core, tc, chains, ctrl, block, pend, fuse, thr, delayed, irc, cpc, gap, faults, failed>>
        /\ pc' = "restore chains" /\ marker' = Never /\ hot # None /\ on' = hot
    BY <1>2 DEF FullRestoreStarts, kernel
  <2>2. on' \in Iface
    BY <1>0, <2>1 DEF WatchTyped
  <2>3. WatchTyped' /\ Given'
    BY <1>0, <2>1, <2>2 DEF WatchTyped, Given, Step
  <2>4. Rules' /\ Suffered'
    BY <1>0, <2>1 DEF Rules, Suffered
  <2>a. Never \in Never .. Suppress
    OBVIOUS
  <2>b. Timed'
    BY <1>0, <2>1, <2>a DEF Timed
  <2>5. Timed' /\ Fused'
    BY <1>0, <2>1, <2>b DEF Fused
  <2>6. thr' \in ThrottleState /\ Room'
    BY <1>0, <2>1 DEF Room, Restoring
  <2> QED
    BY <2>3, <2>4, <2>5, <2>6 DEF WatchInv
<1>3. CASE FullRestoreChains
  <2>1. /\ UNCHANGED <<state, hot, core, tc, pend, marker, fuse, thr, delayed, on, irc, cpc, gap, failed>>
        /\ pc = "restore chains" /\ pc' = "restore probe" /\ IptInit("refused")
    BY <1>3 DEF FullRestoreChains, Then, files
  <2>2. Suffered' /\ Rules'
    BY <1>0, <2>1, IptKeeps
  <2>3. WatchTyped' /\ Given'
    BY <1>0, <2>1 DEF WatchTyped, Given, Step
  <2>4. Timed' /\ Fused'
    BY <1>0, <2>1 DEF Timed, Fused
  <2>5. thr' \in ThrottleState /\ Room'
    BY <1>0, <2>1 DEF Room, Restoring
  <2> QED
    BY <2>2, <2>3, <2>4, <2>5 DEF WatchInv
<1>4. CASE FullRestoreProbe
  <2>1. /\ UNCHANGED <<state, hot, tc, chains, ctrl, block, pend, marker, fuse, thr, delayed, on, irc, cpc, gap, failed>>
        /\ pc = "restore probe" /\ pc' \in {"restore tc", "restore rules"} /\ Probe
    BY <1>4 DEF FullRestoreProbe, Then, files, kernel
  <2>2. Suffered' /\ core' \in BOOLEAN
    BY <1>0, <1>f, <2>1, ProbeKeeps
  <2>3. WatchTyped' /\ Given'
    BY <1>0, <2>1, <2>2 DEF WatchTyped, Given, Step
  <2>4. Rules'
    BY <1>0, <2>1 DEF Rules
  <2>5. Timed' /\ Fused'
    BY <1>0, <2>1 DEF Timed, Fused
  <2>6. thr' \in ThrottleState /\ Room'
    BY <1>0, <2>1 DEF Room, Restoring
  <2> QED
    BY <2>2, <2>3, <2>4, <2>5, <2>6 DEF WatchInv
<1>5. CASE FullRestoreTc
  <2>1. /\ UNCHANGED <<state, hot, core, chains, ctrl, block, pend, marker, fuse, thr, delayed, on, cpc, gap>>
        /\ pc = "restore tc" /\ pc' = "restore rules" /\ TcInit
    BY <1>5 DEF FullRestoreTc, Then, files
  <2>2. on \in Iface
    BY <1>0, <2>1 DEF Given
  <2>3. Suffered' /\ Rules' /\ failed' \in BOOLEAN /\ irc' \in {"ok", "failed", "busy"}
    BY <1>0, <1>f, <2>1, <2>2, TcKeeps
  <2>4. WatchTyped' /\ Given'
    BY <1>0, <2>1, <2>3 DEF WatchTyped, Given, Step
  <2>5. Timed' /\ Fused'
    BY <1>0, <2>1 DEF Timed, Fused
  <2>6. thr' \in ThrottleState /\ Room'
    BY <1>0, <2>1 DEF Room, Restoring
  <2> QED
    BY <2>3, <2>4, <2>5, <2>6 DEF WatchInv
<1>6. CASE FullRestoreRules
  <2>1. /\ UNCHANGED <<state, hot, core, tc, chains, ctrl, marker, delayed, on, irc, cpc, gap>>
        /\ pc' = "idle" /\ Reported
    BY <1>6 DEF FullRestoreRules, Idle
  <2>2. /\ Restore("refused")
        /\ (\E g \in BOOLEAN : RepairRecord(g)) \/ UNCHANGED fuse
        /\ pend' = FALSE \/ pend' = TRUE \/ pend' = pend
    <3>1. (irc = "ok") \in BOOLEAN /\ FALSE \in BOOLEAN
      OBVIOUS
    <3> QED
      BY <1>6, <3>1, Zenon DEF FullRestoreRules, Restore
  <2>3. Suffered' /\ Rules' /\ failed' \in BOOLEAN
    BY <1>0, <1>f, <2>1, <2>2, RestoreKeeps
  <2>4. Fused'
    BY <1>0, <2>2, RecordKeeps
  <2>5. pend' \in BOOLEAN
    BY <1>0, <2>2 DEF WatchTyped
  <2>6. WatchTyped' /\ Given'
    BY <1>0, <2>1, <2>3, <2>5 DEF WatchTyped, Given, Step
  <2>7. Timed'
    BY <1>0, <2>1 DEF Timed
  <2> QED
    BY <1>d, <2>1, <2>3, <2>4, <2>6, <2>7 DEF WatchInv
<1> QED
  BY <1>1, <1>2, <1>3, <1>4, <1>5, <1>6

\* What happens to the watchdog and to the rules.
LEMMA MishapKeeps ==
  ASSUME WatchInv, \/ Kill \/ HotspotMoves \/ RulesFlushed \/ CleanupRules \/ CleanupState
                   \/ WatchdogRestart \/ Reboot
  PROVE  WatchInv'
<1> USE WatchdogAssumption, ThrottleAssumption
<1>0. WatchTyped /\ Rules /\ Timed /\ Fused /\ Suffered /\ thr \in ThrottleState /\ Given /\ Room
  BY DEF WatchInv
<1>1. CASE Kill
  <2>1. /\ UNCHANGED <<state, hot, core, tc, chains, ctrl, block, pend, marker, fuse, delayed, on, irc, cpc, gap, failed>>
        /\ pc' = "idle" /\ Fault("kill")
        /\ (pc \in Restoring /\ Reported) \/ (pc \notin Restoring /\ UNCHANGED thr)
    BY <1>1 DEF Kill, Idle, files, kernel
  <2>2. Suffered'
    BY <1>0, <2>1, FaultKeeps
  <2>3. thr' \in ThrottleState /\ Room'
    <3>1. CASE Reported
      BY <1>0, <3>1, DoneKeeps DEF Reported, Room
    <3>2. CASE pc \notin Restoring /\ UNCHANGED thr
      BY <1>0, <3>2 DEF Room
    <3> QED
      BY <2>1, <3>1, <3>2
  <2>4. WatchTyped' /\ Given'
    BY <1>0, <2>1 DEF WatchTyped, Given, Step
  <2>5. Rules'
    BY <1>0, <2>1 DEF Rules
  <2>6. Timed' /\ Fused'
    BY <1>0, <2>1 DEF Timed, Fused
  <2> QED
    BY <2>2, <2>3, <2>4, <2>5, <2>6 DEF WatchInv
<1>2. CASE HotspotMoves
  <2>1. /\ UNCHANGED <<state, core, chains, ctrl, block, pend, marker, fuse, thr, delayed, pc, on, irc, cpc, failed>>
        /\ hot' \in Iface \cup {None} /\ tc' \in {tc, tc \ {hot, hot'}} /\ gap' \in {gap, MaxGap}
        /\ Fault("move")
    BY <1>2 DEF HotspotMoves, files
  <2>2. Suffered'
    BY <1>0, <2>1, FaultKeeps
  <2>3. WatchTyped' /\ Given'
    BY <1>0, <2>1 DEF WatchTyped, Given
  <2>4. Rules'
    <3>1. tc' \in SUBSET Iface
      BY <1>0, <2>1 DEF Rules
    <3> QED
      BY <1>0, <2>1, <3>1 DEF Rules
  <2>5. Timed' /\ Fused'
    BY <1>0, <2>1 DEF Timed, Fused
  <2>6. thr' \in ThrottleState /\ Room'
    BY <1>0, <2>1 DEF Room
  <2> QED
    BY <2>2, <2>3, <2>4, <2>5, <2>6 DEF WatchInv
<1>3. CASE RulesFlushed
  <2>1. /\ UNCHANGED <<state, hot, core, pend, marker, fuse, thr, delayed, pc, on, irc, cpc, gap, failed>>
        /\ Fault("flush") \/ Fault("unseen flush")
        /\ \/ /\ chains' = FALSE /\ tc' = tc
              /\ (ctrl' = FALSE /\ block' = FALSE) \/ (ctrl' = ctrl /\ block' = block)
           \/ tc' = tc \ {hot} /\ chains' = chains /\ ctrl' = ctrl /\ block' = block
           \/ tc' = tc /\ chains' = chains /\ block' = FALSE /\ ctrl' \in {ctrl, FALSE}
    BY <1>3, Zenon DEF RulesFlushed, files
  <2>2. Suffered'
    BY <1>0, <2>1, FaultKeeps
  <2>3. WatchTyped' /\ Given'
    BY <1>0, <2>1 DEF WatchTyped, Given
  <2>4. Rules'
    <3>1. CASE /\ chains' = FALSE /\ tc' = tc
               /\ (ctrl' = FALSE /\ block' = FALSE) \/ (ctrl' = ctrl /\ block' = block)
      <4>1. CASE ctrl' = FALSE /\ block' = FALSE
        BY <1>0, <3>1, <4>1, Zenon DEF Rules
      <4>2. CASE ctrl' = ctrl /\ block' = block
        BY <1>0, <3>1, <4>2 DEF Rules
      <4> QED
        BY <3>1, <4>1, <4>2
    <3>2. CASE tc' = tc \ {hot} /\ chains' = chains /\ ctrl' = ctrl /\ block' = block
      BY <1>0, <3>2 DEF Rules
    <3>3. CASE tc' = tc /\ chains' = chains /\ block' = FALSE /\ ctrl' \in {ctrl, FALSE}
      BY <1>0, <3>3 DEF Rules
    <3> QED
      BY <2>1, <3>1, <3>2, <3>3
  <2>5. Timed' /\ Fused'
    BY <1>0, <2>1 DEF Timed, Fused
  <2>6. thr' \in ThrottleState /\ Room'
    BY <1>0, <2>1 DEF Room
  <2> QED
    BY <2>2, <2>3, <2>4, <2>5, <2>6 DEF WatchInv
<1>4. CASE CleanupRules
  <2>1. /\ UNCHANGED <<state, hot, core, pend, fuse, thr, delayed, pc, on, irc, gap, failed>>
        /\ Fault("cleanup") /\ cpc' = "state" /\ marker' = 0
        /\ tc' = tc \ {hot} /\ chains' = FALSE /\ ctrl' = FALSE /\ block' = FALSE
    BY <1>4 DEF CleanupRules
  <2>2. Suffered'
    BY <1>0, <2>1, FaultKeeps
  <2>3. WatchTyped' /\ Given'
    BY <1>0, <2>1 DEF WatchTyped, Given
  <2>4. Rules'
    BY <1>0, <2>1 DEF Rules
  <2>5. 0 \in Never .. Suppress
    OBVIOUS
  <2>6. Timed'
    BY <1>0, <2>1, <2>5 DEF Timed
  <2>7. Fused'
    BY <1>0, <2>1 DEF Fused
  <2>8. thr' \in ThrottleState /\ Room'
    BY <1>0, <2>1 DEF Room
  <2> QED
    BY <2>2, <2>3, <2>4, <2>6, <2>7, <2>8 DEF WatchInv
<1>5. CASE CleanupState
  <2>1. /\ UNCHANGED <<hot, core, tc, chains, ctrl, block, pend, marker, fuse, thr, delayed, pc, on, irc, gap, faults, failed>>
        /\ cpc' = "idle" /\ state' = None
    BY <1>5 DEF CleanupState, kernel
  <2>2. WatchTyped' /\ Given'
    BY <1>0, <2>1 DEF WatchTyped, Given
  <2>3. Rules' /\ Suffered'
    BY <1>0, <2>1 DEF Rules, Suffered
  <2>4. Timed' /\ Fused'
    BY <1>0, <2>1 DEF Timed, Fused
  <2>5. thr' \in ThrottleState /\ Room'
    BY <1>0, <2>1 DEF Room
  <2> QED
    BY <2>2, <2>3, <2>4, <2>5 DEF WatchInv
<1>6. CASE WatchdogRestart
  <2>1. /\ UNCHANGED <<state, hot, core, tc, chains, ctrl, block, pend, marker, fuse, delayed, pc, on, irc, cpc, failed>>
        /\ Fault("restart") /\ thr' = Fresh /\ gap' = MaxGap
    BY <1>6 DEF WatchdogRestart, files, kernel
  <2>2. Suffered'
    BY <1>0, <2>1, FaultKeeps
  <2>3. WatchTyped' /\ Given'
    BY <1>0, <2>1 DEF WatchTyped, Given
  <2>4. Rules'
    BY <1>0, <2>1 DEF Rules
  <2>5. Timed' /\ Fused'
    BY <1>0, <2>1 DEF Timed, Fused
  <2>6. thr' \in ThrottleState /\ Room'
    BY <2>1, FreshKeeps DEF Room
  <2> QED
    BY <2>2, <2>3, <2>4, <2>5, <2>6 DEF WatchInv
<1>7. CASE Reboot
  <2>1. /\ UNCHANGED <<core, marker, fuse, failed, on, irc>>
        /\ Fault("reboot") /\ state' = None /\ pend' = FALSE /\ hot' = None
        /\ tc' = {} /\ chains' = FALSE /\ ctrl' = FALSE /\ block' = FALSE
        /\ thr' = Fresh /\ delayed' = FALSE /\ gap' = MaxGap /\ cpc' = "idle" /\ pc' = "idle"
    BY <1>7 DEF Reboot, Idle
  <2>2. Suffered'
    BY <1>0, <2>1, FaultKeeps
  <2>3. WatchTyped' /\ Given'
    BY <1>0, <2>1 DEF WatchTyped, Given, Step
  <2>4. Rules'
    BY <2>1 DEF Rules
  <2>5. Timed' /\ Fused'
    BY <1>0, <2>1 DEF Timed, Fused
  <2>6. thr' \in ThrottleState /\ Room'
    BY <2>1, FreshKeeps DEF Room
  <2> QED
    BY <2>2, <2>3, <2>4, <2>5, <2>6 DEF WatchInv
<1> QED
  BY <1>1, <1>2, <1>3, <1>4, <1>5, <1>6, <1>7

\* TypeOK of the watchdog, for any number of faults: the fuse never holds as many
\* failures as open it, the throttle's count never passes its limit whichever script is
\* killed, and no device is blocked by a chain that is gone (main.go, native.go, watchdog.sh).
THEOREM WatchdogTyped == Spec => []TypeOK
<1>1. WatchInv /\ [Next]_vars => WatchInv'
  <2> SUFFICES ASSUME WatchInv, [Next]_vars PROVE WatchInv'
    OBVIOUS
  <2>1. CASE UNCHANGED vars
    <3>1. UNCHANGED <<state, hot, core, tc, chains, ctrl, block, pend, marker, fuse, thr, delayed, pc, on, irc,
                      cpc, gap, faults, failed>>
      BY <2>1 DEF vars
    <3>2. WatchTyped' /\ Given'
      BY <3>1 DEF WatchInv, WatchTyped, Given
    <3>3. Rules' /\ Suffered'
      BY <3>1 DEF WatchInv, Rules, Suffered
    <3>4. Timed' /\ Fused'
      BY <3>1 DEF WatchInv, Timed, Fused
    <3>5. thr' \in ThrottleState /\ Room'
      BY <3>1 DEF WatchInv, Room
    <3> QED
      BY <3>2, <3>3, <3>4, <3>5 DEF WatchInv
  <2> QED
    BY <2>1, TickKeeps, RoundKeeps, InitKeeps, MigrateKeeps, FullRestoreKeeps, MishapKeeps, Zenon DEF Next, Script
<1>2. WatchInv => TypeOK
  BY WatchSays
<1> QED
  BY <1>1, <1>2, WatchStart, PTL DEF Spec

\* The throttle as the whole watchdog uses it, with scripts that are killed, restarts
\* and reboots: the window of a lasting fault is doubled once, never more.
THEOREM WatchdogDoublesOnce == Spec => []DoublesOnce
<1>1. Init => Shape /\ Ages
  BY ThrottleAssumption DEF Init, Fresh, Shape, Fields, Ages
<1>2. Shape /\ Ages /\ [Next]_vars => Shape' /\ Ages'
  <2> SUFFICES ASSUME Shape, Ages, [Next]_vars PROVE Shape' /\ Ages'
    OBVIOUS
  <2>1. thr' \in {thr, Fresh, Elapse(thr), OnHealthFail(thr), OnRestoreDone(thr)}
    <3>1. ASSUME Tick \/ Round PROVE thr' \in {thr, Elapse(thr), OnHealthFail(thr)}
      BY <3>1 DEF Tick, Round, RoundIdle, RoundAct
    <3>2. ASSUME Script PROVE thr' \in {thr, OnRestoreDone(thr)}
      BY <3>2 DEF Script, FullInitChains, FullInitTc, FullInitRestore, MigrateTc, MigrateRestore, FullRestoreSkips,
                  FullRestoreStarts, FullRestoreChains, FullRestoreProbe, FullRestoreTc, FullRestoreRules, Reported
    <3>3. ASSUME DelayedRestore \/ CleanupState \/ Kill \/ HotspotMoves \/ RulesFlushed \/ CleanupRules
          PROVE  thr' \in {thr, OnRestoreDone(thr)}
      BY <3>3 DEF DelayedRestore, CleanupState, Kill, HotspotMoves, RulesFlushed, CleanupRules, Reported
    <3>4. ASSUME WatchdogRestart \/ Reboot PROVE thr' = Fresh
      BY <3>4 DEF WatchdogRestart, Reboot
    <3>5. ASSUME UNCHANGED vars PROVE thr' = thr
      BY <3>5 DEF vars
    <3> QED
      BY <3>1, <3>2, <3>3, <3>4, <3>5 DEF Next
  <2>2. CASE thr' = thr
    BY <2>2 DEF Shape, Ages
  <2>3. CASE thr' = Fresh
    BY <2>3, ThrottleAssumption DEF Fresh, Shape, Fields, Ages
  <2>4. CASE thr' = Elapse(thr)
    BY <2>4, MinuteKeepsAges
  <2>5. CASE thr' = OnHealthFail(thr)
    BY <2>5, FailKeepsAges
  <2>6. CASE thr' = OnRestoreDone(thr)
    BY <2>6, DoneKeepsAges
  <2> QED
    BY <2>1, <2>2, <2>3, <2>4, <2>5, <2>6
<1>3. Ages => DoublesOnce
  BY DEF Ages, DoublesOnce
<1> QED
  BY <1>1, <1>2, <1>3, PTL DEF Spec
=============================================================================
