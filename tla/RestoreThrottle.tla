-------------------------- MODULE RestoreThrottle --------------------------
(***************************************************************************)
(* The watchdog's rounds as far as the restore throttle sees them: a round *)
(* finds the rules in place, lost, or cannot tell; a loss may start a      *)
(* full_restore; its end is reported to the throttle.  Rounds come at any  *)
(* distance up to MaxGap (recovery 30 s, normal 60 s, doze 180 s, a link   *)
(* event at once).  One unit of time is a minute.                          *)
(***************************************************************************)
EXTENDS Throttle

VARIABLES
  running,  \* "idle", or "restoring" while full_restore runs
  last,     \* history: what the last round found
  recent,   \* history: how many restores began less than a units of time ago
  silent    \* history: time since the last restore or the last round that found
            \* no loss, counted as far as SilenceBounded looks

roundsVars == <<thr, running, gap, last, recent, silent>>

RoundsTypeOK ==
  /\ thr \in ThrottleState
  /\ running \in {"idle", "restoring"}
  /\ gap \in 0 .. MaxGap
  /\ last \in {"ok", "lost", "busy"}
  /\ recent \in [0 .. Window -> Nat]
  /\ silent \in Nat

RoundsInit ==
  /\ thr = Fresh /\ running = "idle" /\ gap = 0 /\ last = "ok"
  /\ recent = [a \in 0 .. Window |-> 0] /\ silent = 0

-----------------------------------------------------------------------------
\* A minute passes.
Minute ==
  /\ gap < MaxGap /\ gap' = gap + 1
  /\ thr' = Elapse(thr)
  /\ recent' = [a \in 0 .. Window |-> IF a = 0 THEN 0 ELSE recent[a - 1]]
  /\ silent' = AtMost(silent + 1, 2 * Window + MaxGap + 1)
  /\ UNCHANGED <<running, last>>

\* checkHealth: in place, or it cannot be told (natHealthBusy); the throttle
\* is not asked.
Untroubled ==
  /\ running = "idle"
  /\ last' \in {"ok", "busy"}
  /\ gap' = 0 /\ silent' = 0
  /\ UNCHANGED <<thr, running, recent>>

\* checkHealth: lost.
FoundLost ==
  /\ running = "idle"
  /\ last' = "lost" /\ gap' = 0
  /\ thr' = OnHealthFail(thr)
  /\ \/ /\ Attempts(thr)
        /\ running' = "restoring" /\ silent' = 0
        /\ recent' = [a \in 0 .. Window |-> IF a = 0 THEN 0 ELSE recent[a] + 1]
     \/ ~Attempts(thr) /\ UNCHANGED <<running, silent, recent>>

\* full_restore has ended, one way or another: it is not asked how.
Done ==
  /\ running = "restoring" /\ running' = "idle"
  /\ thr' = OnRestoreDone(thr)
  /\ UNCHANGED <<gap, last, recent, silent>>

RoundsNext == Minute \/ Untroubled \/ FoundLost \/ Done

RoundsSpec == RoundsInit /\ [][RoundsNext]_roundsVars

\* Time passes, a sleep ends by its timer, and an action is killed after
\* actionTimeout if it does not end by itself.
RoundsFairSpec == RoundsSpec /\ WF_roundsVars(Minute) /\ WF_roundsVars(Untroubled \/ FoundLost) /\ WF_roundsVars(Done)

-----------------------------------------------------------------------------
(* Properties. *)

\* The budget of full_restore: the windows are not a sliding average, so the
\* end of one and the start of the next may touch; still less than twice
\* RestoreMax restores fall into any Window.
RestoreBound == recent[Window] < 2 * RestoreMax

\* While every round finds the rules lost, no more than two windows (and the
\* sleep that was under way) pass without an attempt to restore them.
SilenceBounded == silent < 2 * Window + MaxGap

\* Passive mode does not last: lost rules are tried again, or found in place.
TriedAgain == last = "lost" ~> (running = "restoring" \/ last # "lost")

-----------------------------------------------------------------------------
(* Statements of the documents that the code does not keep. *)

\* Passive mode is entered again within two windows of having been left.
RepeatsSoon == ~thr.passive /\ thr'.passive => thr.exit < 2 * Window

\* webroot/changelog.html:2381: passive mode that returns within two windows is a
\* lasting fault and doubles the next window, time and again (5, 10, 20, 40 and 60
\* minutes), so it does at least twice.  The code asks at the end of the window, not
\* when passive mode returns, and a doubled window outlasts the two windows of
\* onHealthFail: after each doubling it starts with the shortest window again.
WindowEscalates ==
  <>[](last = "lost") /\ []<>thr.passive /\ <>[][RepeatsSoon]_roundsVars
    => <>(thr.consec > 1)

\* What the code keeps instead: there is never more than one doubling.
DoublesOnce == thr.consec <= 1
=============================================================================
