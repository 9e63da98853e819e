------------------------------ MODULE Watchdog ------------------------------
(***************************************************************************)
(* hnc_watchdog's state machine and the shell actions it runs, as far as   *)
(* they concern the rules in the kernel: PENDING -> full_init -> ACTIVE,   *)
(* migrate when the hotspot changes its interface, full_restore when the   *)
(* health check finds the rules lost.  The scripts are sequences of steps, *)
(* each under the locks of hnc_lock.sh and tc_manager.sh; a step may be    *)
(* refused (a lock is busy) or fail, and the whole process group is killed *)
(* when it is still there after actionTimeout.  Times are ages, in units.  *)
(***************************************************************************)
EXTENDS Throttle

CONSTANTS
  Iface, None,
  FuseMax,   \* TC_REPAIR_FUSE_THRESHOLD
  FuseTime,  \* TC_REPAIR_FUSE_SEC
  Suppress,  \* how long a cleanup keeps full_restore away
  Cores,     \* what the capability probe may have said about tc_htb at boot
  Kinds,     \* the faults that may happen
  Faults     \* bound: how many

Kind == {"flush", "unseen flush", "move", "refused", "init refused", "tc busy", "tc fails", "fails",
         "kill", "cleanup", "restart", "reboot", "reprobe", "check busy"}

\* The faults after which a blacklisted device may stay unblocked for good.
Harmful == {"init refused", "fails", "kill", "move", "unseen flush"}

ASSUME WatchdogAssumption ==
  /\ None \notin Iface
  /\ FuseMax \in Nat \ {0} /\ FuseTime \in Nat
  /\ Suppress \in Nat /\ Cores \subseteq BOOLEAN /\ Kinds \subseteq Kind /\ Faults \in Nat

VARIABLES
  state,    \* run/hnc_state: None is PENDING (or no file), i is ACTIVE:i
  hot,      \* the interface of the hotspot, with its private address
  core,     \* capabilities.json does not say tc_htb=false
  tc,       \* which interfaces carry HNC's htb root, for this ifindex
  chains,   \* HNC_MARK and HNC_RESTORE are there, in the mangle table
  ctrl,     \* HNC_CTRL is there, in the filter table
  block,    \* every blacklisted device has its DROP in HNC_CTRL
  pend,     \* run/tc_restore_pending
  marker,   \* age of run/cleanup_rules.marker, or Never
  fuse,     \* tc_repair_fail_count, time left until tc_repair_open_until
  delayed,  \* a re-restore is due 15 s after full_init
  pc,       \* what the running action does next
  on,       \* the interface it was given
  irc,      \* the exit code of its tc init: "ok", "failed", "busy"
  cpc,      \* cleanup.sh: "idle", or "state" when only hnc_state is left to remove
  faults,   \* faults still to come, and whether a harmful one has been (history)
  failed    \* history: a repair step has really failed

kernel == <<tc, chains, ctrl, block>>
files == <<state, pend, marker, fuse>>
vars == <<state, hot, core, tc, chains, ctrl, block, pend, marker, fuse, thr, delayed, pc, on, irc,
          cpc, gap, faults, failed>>

Step == {"idle", "init chains", "init tc", "init restore", "migrate tc", "migrate restore",
         "restore", "restore chains", "restore probe", "restore tc", "restore rules"}

TypeOK ==
  /\ state \in Iface \cup {None} /\ hot \in Iface \cup {None} /\ on \in Iface \cup {None}
  /\ core \in BOOLEAN /\ chains \in BOOLEAN /\ ctrl \in BOOLEAN /\ block \in BOOLEAN /\ (block => ctrl)
  /\ tc \in SUBSET Iface
  /\ pend \in BOOLEAN /\ delayed \in BOOLEAN /\ failed \in BOOLEAN
  /\ marker \in Never .. Suppress
  /\ fuse \in [fails : 0 .. FuseMax - 1, left : 0 .. FuseTime]
  /\ thr \in ThrottleState
  /\ pc \in Step /\ irc \in {"ok", "failed", "busy"} /\ cpc \in {"idle", "state"}
  /\ gap \in 0 .. MaxGap /\ faults \in [left : 0 .. Faults, harm : BOOLEAN]

\* After post-fs-data.sh and service.sh.
Init ==
  /\ state = None /\ hot \in Iface \cup {None} /\ core \in Cores
  /\ tc = {} /\ chains = FALSE /\ ctrl = FALSE /\ block = FALSE
  /\ pend = FALSE /\ marker = Never /\ fuse = [fails |-> 0, left |-> 0]
  /\ thr = Fresh /\ delayed = FALSE
  /\ pc = "idle" /\ on = None /\ irc = "ok" /\ cpc = "idle"
  /\ gap = MaxGap /\ faults = [left |-> Faults, harm |-> FALSE] /\ failed = FALSE

-----------------------------------------------------------------------------
(* The steps of the scripts. *)

Fault(k) ==
  /\ k \in Kinds /\ faults.left > 0
  /\ faults' = [left |-> faults.left - 1, harm |-> faults.harm \/ k \in Harmful]
NoFault == UNCHANGED faults

\* iptables_manager.sh init: the chains are made, and flushed if they were
\* there; or gate_lock is not got and nothing happens.
IptInit(refusal) ==
  \/ chains' = TRUE /\ ctrl' = TRUE /\ block' = FALSE /\ NoFault
  \/ Fault(refusal) /\ UNCHANGED <<chains, ctrl, block>>

\* tc_manager.sh init.  An interface the hotspot has left may be gone.
TcInit ==
  \/ tc' = tc \cup {on} /\ irc' = "ok" /\ NoFault /\ UNCHANGED failed
  \/ on # hot /\ irc' = "failed" /\ failed' = TRUE /\ NoFault /\ UNCHANGED tc
  \/ Fault("tc fails") /\ irc' = "failed" /\ failed' = TRUE /\ UNCHANGED tc
  \/ Fault("tc busy") /\ irc' = "busy" /\ UNCHANGED <<tc, failed>>

\* tc_manager.sh restore.  Exit code 0: blacklist_add only reports what its
\* ip6tables calls did, so without IPv6 it is 0 whatever happened.  Exit code
\* 1: no interface, or a blacklist_add or mark that reported a failure.  Exit
\* code 11 or 12: a lock was not got, or lost.
RestoreOk ==
  /\ hot # None
  /\ \/ block' = ctrl /\ NoFault /\ UNCHANGED failed
     \/ Fault("fails") /\ block' = FALSE /\ failed' = TRUE
RestoreFails ==
  /\ \/ (hot = None \/ ~chains \/ ~ctrl) /\ NoFault /\ UNCHANGED block
     \/ Fault("fails") /\ block' \in {block, FALSE, ctrl}
  /\ failed' = TRUE
RestoreRefused(refusal) == Fault(refusal) /\ UNCHANGED <<block, failed>>
Restore(refusal) == RestoreOk \/ RestoreFails \/ RestoreRefused(refusal)

\* run_capability_probe_active: hardly ever due, and hardly ever different.
Probe == \/ NoFault /\ UNCHANGED core
         \/ Fault("reprobe") /\ core' = ~core

Idle == pc' = "idle" /\ UNCHANGED <<on, irc>>
Then(step) == pc' = step /\ UNCHANGED <<on>>

-----------------------------------------------------------------------------
(* mainLoop *)

\* Time passes only between the scripts, which are short.
Tick ==
  /\ pc = "idle" /\ cpc = "idle" /\ gap < MaxGap /\ gap' = gap + 1
  /\ thr' = Elapse(thr)
  /\ marker' = Aged(marker, Suppress)
  /\ fuse' = [fuse EXCEPT !.left = IF @ = 0 THEN 0 ELSE @ - 1]
  /\ UNCHANGED <<state, hot, core, kernel, pend, delayed, pc, on, irc, cpc, faults, failed>>

\* Mutant: only the chains are looked at.
LostRootless(htb) == pend \/ ~chains

\* nativeCheckHealth (the interface is the one of the state).  It asks for the note,
\* the root qdisc and the chains of the mangle table, never for HNC_CTRL.
Lost(htb) == pend \/ (htb /\ state \notin tc) \/ ~chains

\* A round that starts no action: no hotspot, nothing lost, a check that could
\* not tell, or the throttle says no.
RoundIdle ==
  /\ pc = "idle" /\ gap > 0 /\ gap' = 0
  /\ \/ hot = None /\ NoFault /\ UNCHANGED <<core, thr>>
     \/ /\ hot # None /\ state = hot
        /\ \/ Probe /\ ~Lost(core') /\ UNCHANGED thr
           \/ Fault("check busy") /\ ~pend /\ UNCHANGED <<core, thr>>
           \/ Probe /\ Lost(core') /\ ~Attempts(thr) /\ thr' = OnHealthFail(thr)
  /\ UNCHANGED <<files, hot, kernel, delayed, pc, on, irc, cpc, failed>>

\* handlePending, handleActive: start full_init, migrate, full_restore.
RoundAct ==
  /\ pc = "idle" /\ gap > 0 /\ gap' = 0
  /\ hot # None /\ on' = hot
  /\ \/ state = None /\ pc' = "init chains" /\ NoFault /\ UNCHANGED <<core, thr>>
     \/ state \notin {None, hot} /\ pc' = "migrate tc" /\ NoFault /\ UNCHANGED <<core, thr>>
     \/ /\ state = hot /\ Probe /\ Lost(core') /\ Attempts(thr)
        /\ pc' = "restore" /\ thr' = OnHealthFail(thr)
  /\ UNCHANGED <<files, hot, kernel, delayed, irc, cpc, failed>>

-----------------------------------------------------------------------------
(* do_full_init *)

FullInitChains ==
  /\ pc = "init chains" /\ IptInit("init refused")
  /\ Then(IF core THEN "init tc" ELSE "init restore")
  /\ UNCHANGED <<files, hot, core, tc, thr, delayed, irc, cpc, gap, failed>>

FullInitTc ==
  /\ pc = "init tc" /\ TcInit
  /\ Then("init restore")
  /\ UNCHANGED <<files, hot, core, chains, ctrl, block, thr, delayed, cpc, gap>>

\* The exit code of the restore is not looked at; it is run again later.
FullInitRestore ==
  /\ pc = "init restore" /\ Restore("init refused")
  /\ state' = on /\ delayed' = TRUE
  /\ Idle
  /\ UNCHANGED <<hot, core, tc, chains, ctrl, pend, marker, fuse, thr, cpc, gap>>

DelayedRestore ==
  /\ delayed /\ delayed' = FALSE
  /\ \/ state # None /\ core /\ Restore("init refused")
     \/ ~(state # None /\ core) /\ NoFault /\ UNCHANGED <<block, failed>>
  /\ UNCHANGED <<files, hot, core, tc, chains, ctrl, thr, pc, on, irc, cpc, gap>>

-----------------------------------------------------------------------------
(* do_migrate *)

\* The capability probe comes first.  tc_manager.sh cleanup deletes the old
\* root only if HNC made it (and finds no lock busy).  When tc init does not
\* succeed, back to PENDING; without htb nothing but the state changes.
MigrateTc ==
  /\ pc = "migrate tc"
  /\ \/ /\ core /\ UNCHANGED core
        /\ \E kept \in {tc, tc \ {state}} :
             \/ /\ tc' = kept \cup {on} /\ irc' = "ok" /\ NoFault /\ UNCHANGED failed
                /\ Then("migrate restore") /\ UNCHANGED state
             \/ /\ \/ on # hot /\ NoFault
                   \/ Fault("tc fails")
                /\ tc' = kept /\ irc' = "failed" /\ failed' = TRUE
                /\ state' = None /\ Then("idle")
             \/ /\ Fault("tc busy")
                /\ tc' = kept /\ irc' = "busy" /\ UNCHANGED failed
                /\ state' = None /\ Then("idle")
     \/ ~core /\ NoFault /\ UNCHANGED core /\ state' = on /\ Idle /\ UNCHANGED <<tc, failed>>
     \/ Fault("reprobe") /\ core' = ~core /\ UNCHANGED <<state, tc, pc, on, irc, failed>>
  /\ UNCHANGED <<hot, chains, ctrl, block, pend, marker, fuse, thr, delayed, cpc, gap>>

MigrateRestore ==
  /\ pc = "migrate restore" /\ Restore("init refused")
  /\ state' = on
  /\ Idle
  /\ UNCHANGED <<hot, core, tc, chains, ctrl, pend, marker, fuse, thr, delayed, cpc, gap>>

-----------------------------------------------------------------------------
(* full_restore; its end is reported to the throttle *)

Restoring == {"restore", "restore chains", "restore probe", "restore tc", "restore rules"}

Reported == thr' = OnRestoreDone(thr)

\* A cleanup not long ago, no interface, or the fuse: no restore this time.
FullRestoreSkips ==
  /\ pc = "restore"
  /\ \/ marker # Never /\ marker < Suppress /\ UNCHANGED marker
     \/ /\ marker = Never \/ marker = Suppress
        /\ hot = None \/ fuse.left > 0
        /\ marker' = Never
  /\ Reported /\ Idle
  /\ UNCHANGED <<state, hot, core, kernel, pend, fuse, delayed, cpc, gap, faults, failed>>

FullRestoreStarts ==
  /\ pc = "restore"
  /\ marker = Never \/ marker = Suppress
  /\ hot # None /\ fuse.left = 0
  /\ marker' = Never
  /\ pc' = "restore chains" /\ on' = hot
  /\ UNCHANGED <<state, hot, core, kernel, pend, fuse, thr, delayed, irc, cpc, gap, faults,
                 failed>>

FullRestoreChains ==
  /\ pc = "restore chains" /\ IptInit("refused")
  /\ Then("restore probe")
  /\ UNCHANGED <<files, hot, core, tc, thr, delayed, irc, cpc, gap, failed>>

FullRestoreProbe ==
  /\ pc = "restore probe" /\ Probe
  /\ Then(IF core' THEN "restore tc" ELSE "restore rules")
  /\ UNCHANGED <<files, hot, kernel, thr, delayed, irc, cpc, gap, failed>>

FullRestoreTc ==
  /\ pc = "restore tc" /\ TcInit
  /\ Then("restore rules")
  /\ UNCHANGED <<files, hot, core, chains, ctrl, block, thr, delayed, cpc, gap>>

\* Mutant: the count is kept when the fuse opens.
RepairRecordKeeps(good) ==
  fuse' = IF good THEN [fails |-> 0, left |-> 0]
          ELSE IF fuse.fails + 1 >= FuseMax THEN [fails |-> fuse.fails + 1, left |-> FuseTime]
          ELSE [fuse EXCEPT !.fails = @ + 1]

\* tc_repair_record
RepairRecord(good) ==
  fuse' = IF good THEN [fails |-> 0, left |-> 0]
          ELSE IF fuse.fails + 1 >= FuseMax THEN [fails |-> 0, left |-> FuseTime]
          ELSE [fuse EXCEPT !.fails = @ + 1]

\* Mutant: a restore that was refused leaves no note of it.
FullRestoreRulesForgets ==
  /\ pc = "restore rules"
  /\ \/ RestoreOk /\ RepairRecord(irc = "ok")
     \/ RestoreFails /\ RepairRecord(FALSE)
     \/ RestoreRefused("refused") /\ UNCHANGED fuse
  /\ pend' = FALSE
  /\ Reported /\ Idle
  /\ UNCHANGED <<state, hot, core, tc, chains, ctrl, marker, delayed, cpc, gap>>

\* Only a restore that was refused by a lock leaves the note that makes the
\* next health check fail.  Without htb its outcome is not looked at.
FullRestoreRules ==
  /\ pc = "restore rules"
  /\ \/ /\ core
        /\ \/ RestoreOk /\ pend' = FALSE /\ RepairRecord(irc = "ok")
           \/ RestoreFails /\ pend' = FALSE /\ RepairRecord(FALSE)
           \/ RestoreRefused("refused") /\ pend' = TRUE /\ UNCHANGED fuse
     \/ ~core /\ Restore("refused") /\ UNCHANGED <<pend, fuse>>
  /\ Reported /\ Idle
  /\ UNCHANGED <<state, hot, core, tc, chains, ctrl, marker, delayed, cpc, gap>>

-----------------------------------------------------------------------------
(* What happens to them. *)

\* runAction's timeout: SIGKILL to the process group of the action.
Kill ==
  /\ pc # "idle" /\ Fault("kill")
  /\ \/ pc \in Restoring /\ Reported
     \/ pc \notin Restoring /\ UNCHANGED thr
  /\ Idle
  /\ UNCHANGED <<files, hot, core, kernel, delayed, cpc, gap, failed>>

\* The hotspot goes off, comes on, or moves: an interface that is removed or
\* made anew takes HNC's root along, and the link event may wake the watchdog.
HotspotMoves ==
  /\ Fault("move")
  /\ hot' \in (Iface \cup {None}) \ {hot}
  /\ tc' \in {tc, tc \ {hot, hot'}}
  /\ gap' \in {gap, MaxGap}
  /\ UNCHANGED <<files, core, chains, ctrl, block, thr, delayed, pc, on, irc, cpc, failed>>

\* The ROM throws away the chains of the mangle table, of the filter table too, or
\* the root qdisc; or HNC_CTRL alone, or the rules in it, which no check notices.
RulesFlushed ==
  /\ \/ /\ Fault("flush") /\ chains' = FALSE /\ UNCHANGED tc
        /\ \/ ctrl' = FALSE /\ block' = FALSE
           \/ UNCHANGED <<ctrl, block>>
     \/ Fault("flush") /\ tc' = tc \ {hot} /\ UNCHANGED <<chains, ctrl, block>>
     \/ Fault("unseen flush") /\ block' = FALSE /\ ctrl' \in {ctrl, FALSE} /\ UNCHANGED <<tc, chains>>
  /\ UNCHANGED <<files, hot, core, thr, delayed, pc, on, irc, cpc, gap, failed>>

\* cleanup.sh rules: the marker, then the qdiscs and the chains ...
CleanupRules ==
  /\ cpc = "idle" /\ cpc' = "state" /\ Fault("cleanup")
  /\ marker' = 0
  /\ tc' = tc \ {hot} /\ chains' = FALSE /\ ctrl' = FALSE /\ block' = FALSE
  /\ UNCHANGED <<state, hot, core, pend, fuse, thr, delayed, pc, on, irc, gap, failed>>

\* ... and at the end the state file.
CleanupState ==
  /\ cpc = "state" /\ cpc' = "idle"
  /\ state' = None
  /\ UNCHANGED <<hot, core, kernel, pend, marker, fuse, thr, delayed, pc, on, irc, gap, faults,
                 failed>>

\* A new watchdog reads the state file and starts with an empty throttle.
WatchdogRestart ==
  /\ pc = "idle" /\ Fault("restart")
  /\ thr' = Fresh /\ gap' = MaxGap
  /\ UNCHANGED <<files, hot, core, kernel, delayed, pc, on, irc, cpc, failed>>

\* post-fs-data.sh removes what belongs to the last boot.
Reboot ==
  /\ Fault("reboot")
  /\ state' = None /\ pend' = FALSE /\ hot' = None
  /\ tc' = {} /\ chains' = FALSE /\ ctrl' = FALSE /\ block' = FALSE
  /\ thr' = Fresh /\ delayed' = FALSE /\ gap' = MaxGap /\ cpc' = "idle"
  /\ Idle
  /\ UNCHANGED <<core, marker, fuse, failed>>

-----------------------------------------------------------------------------
Round == RoundIdle \/ RoundAct

Script ==
  \/ FullInitChains \/ FullInitTc \/ FullInitRestore
  \/ MigrateTc \/ MigrateRestore
  \/ FullRestoreSkips \/ FullRestoreStarts \/ FullRestoreChains \/ FullRestoreProbe
  \/ FullRestoreTc \/ FullRestoreRules

Next ==
  \/ Tick \/ Round \/ Script \/ DelayedRestore \/ CleanupState
  \/ Kill \/ HotspotMoves \/ RulesFlushed \/ CleanupRules \/ WatchdogRestart \/ Reboot

Spec == Init /\ [][Next]_vars

\* Time passes, the loop goes round, scripts and background jobs that are not
\* killed go on.  No fault is obliged to happen.
FairSpec ==
  Spec /\ WF_vars(Tick) /\ WF_vars(Round) /\ WF_vars(Script) /\ WF_vars(DelayedRestore)
       /\ WF_vars(CleanupState)

-----------------------------------------------------------------------------
(* Properties. *)

\* After the last fault, whatever the faults were and in whichever step they
\* hit, the watchdog ends up ACTIVE on the hotspot's interface with the mangle
\* chains in place and, where tc has htb, the qdisc too and nothing pending; and stays
\* there: no throttle, fuse, marker or half-done migration keeps it away for
\* good.
Settled == hot # None => state = hot /\ chains /\ (core => hot \in tc /\ ~pend)
Converges == <>[]Settled

\* Blacklisted devices end up blocked again, too: a chain that was flushed by
\* a repair which then found a lock busy is remembered in tc_restore_pending,
\* whatever else fails beside it and even when the watchdog is restarted, and a
\* filter table that is lost together with the mangle table is filled again.  The
\* health check itself does not look at HNC_CTRL, so it takes htb (without it a busy
\* lock leaves no note) and no harmful fault: HNC_CTRL that is flushed alone stays
\* empty until something else is found lost.
BlacklistReturns == [](core /\ ~faults.harm) => <>[](hot # None => block)

-----------------------------------------------------------------------------
(* Statements of the source that the code does not keep. *)

\* full_restore: when its restore fails, the next health check triggers a
\* full restore again, so that the blacklist comes back.
BlacklistAlwaysReturns == <>[](hot # None => block)

\* cleanup.sh: after "clear the rules" the watchdog does not bring them back
\* for ten minutes.  (What was under way at the time has ended a unit later.)
CleanupRespected ==
  [][~block /\ block' => marker \notin 1 .. Suppress - 1]_vars

\* full_restore: a lock that is busy is not a failed repair, and must not
\* open the fuse.
ContentionNeverFuses == fuse.left > 0 => failed

\* watchdog_tc_core_supported: without htb there are no restore loops.
NoLoopWithoutTc == <>[]~core => <>[](pc # "restore")
=============================================================================
