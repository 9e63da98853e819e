------------------------------ MODULE Throttle ------------------------------
(***************************************************************************)
(* restoreThrottle of cmd/hnc_watchdog/main.go: how often the watchdog may *)
(* run full_restore.  After RestoreMax of them in one window it is passive *)
(* until the window is over.  A time stamp is kept as its age, Never is    *)
(* the zero time.Time; ages are exact as far as the code tells them apart. *)
(***************************************************************************)
EXTENDS Integers

CONSTANTS Window,      \* restoreWindowSec
          WindowMax,   \* restoreWindowSecMax
          RestoreMax,  \* restoreWindowMax
          MaxGap       \* intervalDoze: the longest sleep between two rounds

ASSUME ThrottleAssumption ==
  /\ Window \in Nat \ {0} /\ WindowMax \in Nat /\ 2 * Window <= WindowMax
  /\ RestoreMax \in Nat \ {0} /\ MaxGap \in Nat \ {0}

VARIABLES thr,         \* the restoreThrottle
          gap          \* time since the last round

Never == -1

ThrottleState ==
  [start : Never .. WindowMax, count : 0 .. RestoreMax, consec : Nat,
   passive : BOOLEAN, exit : Never .. 2 * Window]

Fresh == [start |-> Never, count |-> 0, consec |-> 0, passive |-> FALSE, exit |-> Never]

AtMost(a, b) == IF a <= b THEN a ELSE b

Aged(age, top) == IF age = Never THEN Never ELSE AtMost(age + 1, top)

Elapse(r) == [r EXCEPT !.start = Aged(@, WindowMax), !.exit = Aged(@, 2 * Window)]

\* Mutant: the loop stops at the cap instead of after consec doublings.
CurrentWindowDurCap(r) == WindowMax

CurrentWindowDur(r) == AtMost(Window * 2^r.consec, WindowMax)

\* Mutant: passive mode is never left.
RollsNotPassive(r) == ~r.passive /\ (r.start = Never \/ r.start >= CurrentWindowDur(r))

Rolls(r) == r.start = Never \/ r.start >= CurrentWindowDur(r)

\* Leaving passive mode soon after the last time counts as the same fault.
ConsecAfter(r) == IF r.exit # Never /\ r.exit < 2 * Window THEN r.consec + 1 ELSE 0

\* The first half of onHealthFail: a window that is over, and passive mode
\* with it, ends here and nowhere else.
Rolled(r) ==
  IF ~Rolls(r) THEN r
  ELSE IF ~r.passive THEN [r EXCEPT !.start = 0, !.count = 0]
  ELSE [start |-> 0, count |-> 0, consec |-> ConsecAfter(r), passive |-> FALSE, exit |-> 0]

\* onHealthFail: the new state, and whether a restore is to be attempted.
Attempts(r) == ~Rolled(r).passive

\* Mutant: the attempt is not counted in its window.
OnHealthFailUncounted(r) == Rolled(r)

OnHealthFail(r) ==
  IF Attempts(r) THEN [Rolled(r) EXCEPT !.count = @ + 1] ELSE Rolled(r)

\* Mutant: passive mode one restore late.
OnRestoreDoneLate(r) == IF r.count > RestoreMax THEN [r EXCEPT !.passive = TRUE] ELSE r

OnRestoreDone(r) == IF r.count >= RestoreMax THEN [r EXCEPT !.passive = TRUE] ELSE r
=============================================================================
