------------------------------ MODULE LimitCtl ------------------------------
(***************************************************************************)
(* The quota and schedule controller of hnc_httpd (limit_policy.go), for   *)
(* one device: devices do not touch each other's state.  A round compares  *)
(* rules.json with what it last saw there, takes a difference for a change *)
(* by the user and adopts it as the base, lays quota and schedule over the *)
(* base, and applies the outcome through the user's own actions, each of   *)
(* which may fail.  What it knows is saved at the end of the round; httpd  *)
(* may die in between.  User actions exclude rounds through actionMu.  The *)
(* save itself succeeds: one that fails is tried again in a later round.   *)
(***************************************************************************)
EXTENDS Naturals, Sequences

CONSTANTS Quota,        \* bytes of the period
          MaxTraffic,   \* bound on the bytes sent in a period
          MaxEdits,     \* bound on changes by user, clock and policy
          MaxMishaps,   \* bound on failing actions, deaths, reset counters, disconnections
          AlwaysOnline  \* the device never leaves

ASSUME LimitConstants == /\ Quota \in Nat \ {0} /\ MaxTraffic \in Nat /\ MaxEdits \in Nat
                         /\ MaxMishaps \in Nat /\ AlwaysOnline \in BOOLEAN

\* Rates are 0 (no limit), 1 (the quota's throttle) and 2 (a looser limit).
Rate == 0..2
Rule == [lim : Rate, blk : BOOLEAN]

VARIABLES rule,      \* rules.json, and tc and iptables with it
          manual,    \* history: what the user last asked for
          online,
          window,    \* the schedule now: "none" outside every window, or what the window says
          quota,     \* the quota's action, "off" without one
          counter,   \* the kernel's byte counter of the device
          ctl, disk, \* ctlDevState in memory, and limit_ctl_state.json
          round,     \* tick: "idle", or the actions still to run and what they are for
          period,    \* the day or billing month
          limSent,   \* history: bytes sent in the period, and before it since the last save
          limUnsaved, \* history: bytes sent since the last save
          halfDone,  \* history: a round has ended with only a part of its actions done
          mixed,     \* history: an edit or a death has met a rule that was not the base
          edits, mishaps

limitVars == <<rule, manual, online, window, quota, counter, ctl, disk, round, period, limSent, limUnsaved, halfDone, mixed, edits, mishaps>>
traffic == <<counter, period, limSent, limUnsaved>>
hist == <<halfDone, mixed>>

LimFree == [lim |-> 0, blk |-> FALSE]
NewCtl == [adopted |-> FALSE, base |-> LimFree, desired |-> LimFree, observed |-> LimFree,
           havePrev |-> FALSE, prev |-> 0, key |-> 0, bytes |-> 0]
NoRound == [at |-> "idle", todo |-> <<>>, want |-> LimFree, partial |-> FALSE]
CtlState == [adopted : BOOLEAN, base : Rule, desired : Rule, observed : Rule,
             havePrev : BOOLEAN, prev : 0..MaxTraffic, key : 0..MaxEdits, bytes : 0..2 * MaxTraffic]

LimitTypeOK ==
  /\ rule \in Rule /\ manual \in Rule /\ online \in BOOLEAN
  /\ window \in {"none", "free", "slow", "block"} /\ quota \in {"off", "throttle", "block"}
  /\ ctl \in CtlState /\ disk \in CtlState /\ {counter, limSent, limUnsaved} \subseteq 0..2 * MaxTraffic
  /\ round.at \in {"idle", "apply"} /\ round.want \in Rule /\ mixed \in BOOLEAN

LimitInit == /\ rule = LimFree /\ manual = LimFree /\ online = TRUE /\ window = "none" /\ quota = "off"
             /\ counter = 0 /\ ctl = NewCtl /\ disk = NewCtl /\ round = NoRound /\ limSent = 0 /\ limUnsaved = 0 /\ period = 0
             /\ mixed = FALSE /\ halfDone = FALSE /\ edits = 0 /\ mishaps = 0

Edit == edits < MaxEdits /\ edits' = edits + 1
LimitMishap == mishaps < MaxMishaps /\ mishaps' = mishaps + 1

\* stricterKbit, activeWindow's effect and effectiveRule.
Stricter(a, b) == IF a = 0 \/ (b # 0 /\ b < a) THEN b ELSE a
Exceeded(c) == quota # "off" /\ c.bytes >= Quota
\* activeWindow: a window replaces the base by its own limit, or by none.
WindowLimit(c) == CASE window = "none" -> c.base.lim [] window = "slow" -> 2 [] OTHER -> 0
Effective(c) ==
  LET blocked == c.base.blk \/ window = "block" \/ (Exceeded(c) /\ quota = "block")
  IN IF blocked THEN [lim |-> c.base.lim, blk |-> TRUE]
     ELSE [lim |-> IF Exceeded(c) THEN Stricter(WindowLimit(c), 1) ELSE WindowLimit(c), blk |-> FALSE]

\* usageAcc.rollover and add: a counter that went back has been reset.
Counted(c) ==
  LET delta == IF ~c.havePrev THEN 0 ELSE IF counter >= c.prev THEN counter - c.prev ELSE counter IN
  [c EXCEPT !.havePrev = TRUE, !.prev = counter, !.key = period,
            !.bytes = delta + (IF c.key = period THEN @ ELSE 0)]
\* readObserved: what rules.json says of the device, overlay included.
ReadObserved == rule
\* The part of tick that adopts what somebody else wrote.
Adopted(c) == IF ~c.adopted \/ ReadObserved # c.observed
              THEN [c EXCEPT !.adopted = TRUE, !.base = ReadObserved, !.desired = ReadObserved,
                            !.observed = ReadObserved]
              ELSE c
Concerned(c) == quota # "off" \/ window # "none" \/ (c.adopted /\ c.desired # c.base)

\* reconcile's target, and the actions of applyViaActions in their order.
Target(c, want) == IF ~online /\ c.observed.lim # want.lim THEN [c.observed EXCEPT !.blk = want.blk] ELSE want
Actions(from, to) ==
  LET limit == IF from.lim # to.lim THEN <<"limit">> ELSE <<>> IN
  IF to.blk /\ ~from.blk THEN <<"block">> \o limit
  ELSE limit \o (IF from.blk /\ ~to.blk THEN <<"unblock">> ELSE <<>>)

\* A round that has nothing to apply ends with saveStateLocked: at once after an
\* adoption, else when five minutes are over.
SaveNow(c) == disk' = c /\ limUnsaved' = 0
RoundQuiet ==
  LET c == IF Concerned(ctl) THEN Adopted(Counted(ctl)) ELSE Counted(ctl) IN
  /\ round.at = "idle" /\ (Concerned(ctl) => Effective(c) = c.desired) /\ ctl' = c
  /\ \/ SaveNow(c)
     \/ c = [ctl EXCEPT !.havePrev = TRUE, !.prev = c.prev, !.key = c.key, !.bytes = c.bytes]
        /\ UNCHANGED <<disk, limUnsaved>>
  /\ UNCHANGED <<rule, manual, online, window, quota, counter, round, period, limSent, hist, edits, mishaps>>
RoundApplies ==
  LET c == Adopted(Counted(ctl)) want == Effective(c) to == Target(c, want) IN
  /\ round.at = "idle" /\ Concerned(ctl) /\ want # c.desired
  /\ ctl' = c
  /\ round' = [at |-> "apply", todo |-> Actions(c.observed, to), want |-> want, partial |-> to # want]
  /\ UNCHANGED <<rule, manual, online, window, quota, disk, traffic, hist, edits, mishaps>>

\* One action of the list: rule_set or rule_clear, bl_add, bl_del.
RunAction ==
  LET a == Head(round.todo) IN
  /\ round.at = "apply" /\ round.todo # <<>>
  /\ rule' = (IF a = "limit" THEN [rule EXCEPT !.lim = round.want.lim]
              ELSE [rule EXCEPT !.blk = (a = "block")])
  /\ round' = [round EXCEPT !.todo = Tail(@)]
  /\ UNCHANGED <<manual, online, window, quota, ctl, disk, traffic, hist, edits, mishaps>>
\* The end of reconcile and of the round: what is now in rules.json is what was seen.
EndRound(done) == LET c == [ctl EXCEPT !.observed = ReadObserved, !.desired = IF done THEN round.want ELSE @]
                  IN ctl' = c /\ SaveNow(c) /\ round' = NoRound
                     /\ halfDone' = (halfDone \/ (~done /\ rule # c.desired))
ApplyDone ==
  /\ round.at = "apply" /\ round.todo = <<>> /\ EndRound(~round.partial)
  /\ UNCHANGED <<rule, manual, online, window, quota, counter, period, limSent, mixed, edits, mishaps>>
ApplyFails ==
  /\ round.at = "apply" /\ round.todo # <<>> /\ LimitMishap /\ EndRound(FALSE)
  /\ UNCHANGED <<rule, manual, online, window, quota, counter, period, limSent, mixed, edits>>

\* httpd dies and starts again with the saved state.
LimitDies ==
  /\ LimitMishap /\ ctl' = disk /\ round' = NoRound
  /\ mixed' = (mixed \/ (round.at = "apply" /\ rule # ctl.observed))
  /\ UNCHANGED <<rule, manual, online, window, quota, disk, traffic, halfDone, edits>>

\* An edit that leaves just what the controller had put there is not seen as one.
Unseen == rule' = ctl.observed /\ manual' # ctl.base
\* The user's rule_set, rule_clear, bl_add and bl_del.
UserLimit(l) ==
  /\ round.at = "idle" /\ Edit /\ l # rule.lim
  /\ rule' = [rule EXCEPT !.lim = l] /\ manual' = [manual EXCEPT !.lim = l]
  /\ mixed' = (mixed \/ rule.blk # manual.blk \/ Unseen)
  /\ UNCHANGED <<online, window, quota, ctl, disk, round, traffic, halfDone, mishaps>>
UserBlock ==
  /\ round.at = "idle" /\ Edit
  /\ rule' = [rule EXCEPT !.blk = ~@] /\ manual' = [manual EXCEPT !.blk = ~rule.blk]
  /\ mixed' = (mixed \/ rule.lim # manual.lim \/ Unseen)
  /\ UNCHANGED <<online, window, quota, ctl, disk, round, traffic, halfDone, mishaps>>
\* quota_set and quota_clear.
QuotaChanges ==
  /\ round.at = "idle" /\ Edit /\ quota' \in {"off", "throttle", "block"} \ {quota}
  /\ UNCHANGED <<rule, manual, online, window, ctl, disk, round, traffic, hist, mishaps>>
\* activeWindow at the round to come: the clock enters or leaves a window of the
\* schedule, or schedule_set and schedule_clear put another one there.
WindowChanges ==
  /\ round.at = "idle" /\ Edit /\ window' \in {"none", "free", "slow", "block"} \ {window}
  /\ UNCHANGED <<rule, manual, online, quota, ctl, disk, round, traffic, hist, mishaps>>
\* A new day or month begins.
NewPeriod ==
  /\ round.at = "idle" /\ Edit /\ period' = period + 1 /\ limSent' = limUnsaved
  /\ UNCHANGED <<rule, manual, online, window, quota, counter, ctl, disk, round, limUnsaved, hist, mishaps>>

\* Bytes; those sent while a round applies belong to the next round.
Traffic == /\ round.at = "idle" /\ counter < MaxTraffic /\ limSent < MaxTraffic /\ online
           /\ limSent' = limSent + 1 /\ counter' = counter + 1 /\ limUnsaved' = limUnsaved + 1
           /\ UNCHANGED <<rule, manual, online, window, quota, ctl, disk, round, period, hist, edits, mishaps>>
\* full_restore rebuilds HNC_STATS.
CounterReset == /\ counter # 0 /\ counter' = 0 /\ LimitMishap
                /\ UNCHANGED <<rule, manual, online, window, quota, ctl, disk, round, period, limSent, limUnsaved, hist, edits>>
Connects == /\ ~AlwaysOnline /\ online' = ~online /\ IF online THEN LimitMishap ELSE UNCHANGED mishaps
            /\ UNCHANGED <<rule, manual, window, quota, ctl, disk, round, traffic, hist, edits>>

Round == RoundQuiet \/ RoundApplies \/ RunAction \/ ApplyDone
LimitNext == \/ Round \/ ApplyFails \/ LimitDies \/ (\E l \in {0, 2} : UserLimit(l)) \/ UserBlock
             \/ QuotaChanges \/ WindowChanges \/ NewPeriod \/ Traffic \/ CounterReset \/ Connects

\* Loop ticks every minute; httpd's actions end.
LimitFairness == WF_limitVars(Round)
LimitSpec == LimitInit /\ [][LimitNext]_limitVars /\ LimitFairness
-----------------------------------------------------------------------------
\* What the controller will restore is what the user asked for: overlays, failing
\* actions and restarts leave the base alone (limit_policy.go:6).  Excepted: an edit
\* of one field while an overlay holds the other, which the adoption takes for the
\* user's too, an edit back to the overlay's own value, and a death between an action and the save.
BaseIsManual == ~mixed /\ ctl.adopted /\ rule = ctl.observed /\ round.at = "idle" => ctl.base = manual

\* Nothing is charged that was not sent in the period (limit_policy.go:337); what was
\* sent since the last save may count for the period that follows.
NoOvercharge == ctl.key = period => ctl.bytes <= limSent

\* A device that is there to stay gets what base, quota and schedule say, and its
\* own rule back when they end: a round that could not finish is tried again.
\* Excepted is the case that the comparison with LastDesired misses: a round ended
\* half done, and then the wish went back to what was last applied in full.
Enforced == ctl.adopted /\ Concerned(ctl) => rule = Effective(ctl)
Overlooked == halfDone /\ Effective(ctl) = ctl.desired
Converges == <>[]online => <>[](Enforced \/ Overlooked)

\* "when the overlay ends the base is restored" (limit_policy.go:13).
AlwaysConverges == <>[]online => <>[]Enforced
=============================================================================
