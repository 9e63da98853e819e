------------------------------ MODULE Launcher ------------------------------
(***************************************************************************)
(* src/launcher/hnc_launcher.c: the C process that forks hnc_dpid, waits   *)
(* for it, restarts it with a growing pause, cools down after a crash      *)
(* storm and stops on SIGTERM.                                             *)
(*                                                                         *)
(* A step is a stretch of the main thread between two points where a       *)
(* signal handler, or the child, can make a difference.  The handler       *)
(* (OnTerm) runs between any two steps, and inside the blocking waitpid.   *)
(* Time passes in the sleeps and while dpid runs; a time stamp is kept as  *)
(* its age in seconds, up to one second beyond the crash window, after     *)
(* which the code no longer tells ages apart.  The stamps are of the wall  *)
(* clock (time(NULL)); it is not set meanwhile.                            *)
(***************************************************************************)
EXTENDS Naturals, Sequences

CONSTANTS BackoffMin,     \* RESTART_BACKOFF_MIN
          BackoffMax,     \* RESTART_BACKOFF_MAX
          CrashWindow,    \* CRASH_WINDOW_SEC
          CrashLimit,     \* CRASH_LIMIT
          CrashCooldown,  \* CRASH_COOLDOWN_SEC
          RunTimes,       \* how long a dpid runs before it crashes (bound)
          ForkFails,      \* fork() may fail
          MayHang         \* a dpid may hang on its way out

ASSUME LauncherAssumption ==
  /\ BackoffMin \in Nat \ {0} /\ BackoffMax \in Nat /\ BackoffMin <= BackoffMax
  /\ CrashWindow \in Nat /\ CrashLimit \in Nat \ {0} /\ CrashCooldown \in Nat
  /\ RunTimes \subseteq Nat
  /\ ForkFails \in BOOLEAN /\ MayHang \in BOOLEAN

\* A cool-down outlasts the crash window (120 and 60 seconds).
ASSUME CooldownAssumption == CrashWindow < CrashCooldown

VARIABLES
  lpc,        \* where the main thread is
  shutdown,   \* g_shutdown
  gchild,     \* g_child_pid > 0
  child,      \* the child process
  backoff,    \* local backoff of run_supervise_loop
  crashes,    \* crash_tracker crashes: ages, oldest first
  forkfails,  \* crash_tracker fork_fails
  flag,       \* the file CRASH_FLAG exists
  pidfile,    \* the file PID_DPID exists
  spawns      \* ages of the forks still inside the crash window (history)

launcherVars == <<lpc, shutdown, gchild, child, backoff, crashes, forkfails, flag,
                  pidfile, spawns>>

\* main, before the loop | the loop | wait_dpid | the pauses | the shutdown
LPC == {"start", "cool"} \cup {"loop", "forkfail", "forked", "recheck"}
         \cup {"wait", "blocked", "eintr", "reaped", "decide", "storm"}
         \cup {"pause", "cooldown"} \cup {"stop", "drain", "killed", "exited"}

\* No child; between fork and execv; running; told to stop; deaf to SIGTERM;
\* exited and not yet waited for.
Child == {"none", "forked", "run", "term", "hung", "zombie"}

LauncherTypeOK ==
  /\ lpc \in LPC
  /\ shutdown \in BOOLEAN /\ gchild \in BOOLEAN
  /\ child \in Child
  /\ backoff \in BackoffMin .. 2 * BackoffMax
  /\ crashes \in Seq(0 .. CrashWindow + 1) /\ Len(crashes) <= CrashLimit
  /\ forkfails \in Seq(0 .. CrashWindow + 1) /\ Len(forkfails) <= CrashLimit
  /\ flag \in BOOLEAN /\ pidfile \in BOOLEAN
  /\ spawns \in Seq(0 .. CrashWindow)

\* The flag file may be left from an earlier launcher.
LauncherInit ==
  /\ lpc = "start" /\ shutdown = FALSE /\ gchild = FALSE /\ child = "none"
  /\ backoff = BackoffMin /\ crashes = <<>> /\ forkfails = <<>>
  /\ flag \in BOOLEAN /\ pidfile = FALSE /\ spawns = <<>>

-----------------------------------------------------------------------------
OlderBy(ages, d) ==
  [i \in DOMAIN ages |->
     IF ages[i] + d > CrashWindow THEN CrashWindow + 1 ELSE ages[i] + d]

\* The compressing loop of crash_tracker_record: what is in the window stays.
InCrashWindow(ages) ==
  LET Kept[i \in 0 .. Len(ages)] ==
        IF i = 0 THEN <<>>
        ELSE IF ages[i] <= CrashWindow THEN Append(Kept[i - 1], ages[i])
        ELSE Kept[i - 1]
  IN  Kept[Len(ages)]

\* d seconds pass.
Elapse(d) ==
  /\ crashes' = OlderBy(crashes, d)
  /\ forkfails' = OlderBy(forkfails, d)
  /\ spawns' = InCrashWindow(OlderBy(spawns, d))

\* crash_tracker_record: drop what left the window, append the new crash, and
\* the oldest goes when the array is full.  A storm is a full array.
Record(ages) ==
  LET kept == InCrashWindow(ages)
  IN  Append(IF Len(kept) >= CrashLimit THEN Tail(kept) ELSE kept, 0)

Storm(ages) == Len(ages) >= CrashLimit

\* Mutant: the pause doubles for ever.
NextBackoffUncapped(b) == b * 2

\* The pause doubles while it is below the maximum, so it may pass it once.
NextBackoff(b) == IF b < BackoffMax THEN b * 2 ELSE b

\* kill(pid, SIGTERM).  Between fork and execv the child still has the
\* launcher's handler, which only sets the child's copy of g_shutdown.
Term(c) == IF c = "run" THEN "term" ELSE c

-----------------------------------------------------------------------------
(* main *)

Start ==
  /\ lpc = "start"
  /\ lpc' = IF flag THEN "cool" ELSE "loop"
  /\ UNCHANGED <<shutdown, gchild, child, backoff, crashes, forkfails, flag,
                 pidfile, spawns>>

\* A crash flag was found: wait in steps of a second, or leave on a signal.
Cool ==
  /\ lpc = "cool"
  /\ \/ shutdown /\ lpc' = "exited" /\ UNCHANGED flag
     \/ ~shutdown /\ lpc' = "loop" /\ flag' = FALSE
  /\ UNCHANGED <<shutdown, gchild, child, backoff, crashes, forkfails,
                 pidfile, spawns>>

(* run_supervise_loop and spawn_dpid *)

Loop ==
  /\ lpc = "loop"
  /\ \/ /\ shutdown
        /\ lpc' = "stop"
        /\ UNCHANGED <<child, spawns>>
     \/ /\ ~shutdown
        /\ child' = "forked"
        /\ spawns' = Append(spawns, 0)
        /\ lpc' = "forked"
     \/ /\ ~shutdown /\ ForkFails
        /\ lpc' = "forkfail"
        /\ UNCHANGED <<child, spawns>>
  /\ UNCHANGED <<shutdown, gchild, backoff, crashes, forkfails, flag, pidfile>>

\* FORK_LOOP: too many failures in the window end the launcher for good.
ForkFail ==
  /\ lpc = "forkfail"
  /\ forkfails' = Record(forkfails)
  /\ \/ /\ Storm(forkfails')
        /\ flag' = TRUE
        /\ lpc' = "exited"
     \/ /\ ~Storm(forkfails')
        /\ lpc' = IF shutdown THEN "stop" ELSE "pause"
        /\ UNCHANGED flag
  /\ UNCHANGED <<shutdown, gchild, child, backoff, crashes, pidfile, spawns>>

\* write_pid_file; g_child_pid = pid
Forked ==
  /\ lpc = "forked"
  /\ gchild' = TRUE /\ pidfile' = TRUE
  /\ lpc' = "recheck"
  /\ UNCHANGED <<shutdown, child, backoff, crashes, forkfails, flag, spawns>>

\* if (g_shutdown) kill(pid, SIGTERM)
Recheck ==
  /\ lpc = "recheck"
  /\ child' = IF shutdown THEN Term(child) ELSE child
  /\ lpc' = "wait"
  /\ UNCHANGED <<shutdown, gchild, backoff, crashes, forkfails, flag, pidfile, spawns>>

(* wait_dpid *)

\* waitpid is entered, and returns at once if the child is a zombie.
Wait ==
  /\ lpc = "wait"
  /\ \/ child = "zombie" /\ child' = "none" /\ lpc' = "reaped"
     \/ child # "zombie" /\ lpc' = "blocked" /\ UNCHANGED child
  /\ UNCHANGED <<shutdown, gchild, backoff, crashes, forkfails, flag, pidfile, spawns>>

Blocked ==
  /\ lpc = "blocked" /\ child = "zombie"
  /\ child' = "none" /\ lpc' = "reaped"
  /\ UNCHANGED <<shutdown, gchild, backoff, crashes, forkfails, flag, pidfile, spawns>>

\* EINTR: back to waitpid, or out of the loop when a stop was asked for.
Eintr ==
  /\ lpc = "eintr"
  /\ lpc' = IF shutdown THEN "stop" ELSE "wait"
  /\ UNCHANGED <<shutdown, gchild, child, backoff, crashes, forkfails, flag,
                 pidfile, spawns>>

\* g_child_pid = 0; unlink(PID_DPID)
Reaped ==
  /\ lpc = "reaped"
  /\ gchild' = FALSE /\ pidfile' = FALSE
  /\ lpc' = "decide"
  /\ UNCHANGED <<shutdown, child, backoff, crashes, forkfails, flag, spawns>>

\* The exit code does not matter any more: rc=0 is restarted too.
Decide ==
  /\ lpc = "decide"
  /\ \/ shutdown /\ lpc' = "stop" /\ UNCHANGED crashes
     \/ /\ ~shutdown
        /\ crashes' = Record(crashes)
        /\ lpc' = IF Storm(crashes') THEN "storm" ELSE "pause"
  /\ UNCHANGED <<shutdown, gchild, child, backoff, forkfails, flag, pidfile, spawns>>

\* Mutant: the storm ends the launcher, as it did before rc12.
StormOnceGivesUp ==
  /\ lpc = "storm"
  /\ flag' = TRUE
  /\ lpc' = "exited"
  /\ UNCHANGED <<shutdown, gchild, child, backoff, crashes, forkfails, pidfile, spawns>>

\* CRASH_LOOP: write the flag and cool down, unless a stop was asked for.
StormOnce ==
  /\ lpc = "storm"
  /\ flag' = TRUE
  /\ lpc' = IF shutdown THEN "stop" ELSE "cooldown"
  /\ UNCHANGED <<shutdown, gchild, child, backoff, crashes, forkfails, pidfile, spawns>>

\* Mutant: the flag is not removed.
CooldownKeepsFlag ==
  /\ lpc = "cooldown"
  /\ spawns' = InCrashWindow(OlderBy(spawns, CrashCooldown))
  /\ forkfails' = OlderBy(forkfails, CrashCooldown)
  /\ crashes' = <<>> /\ backoff' = BackoffMin
  /\ lpc' = "loop"
  /\ UNCHANGED <<shutdown, gchild, child, flag, pidfile>>

\* Mutant: the cool-down does not sleep.
CooldownNoSleep ==
  /\ lpc = "cooldown"
  /\ crashes' = <<>> /\ flag' = FALSE /\ backoff' = BackoffMin
  /\ lpc' = "loop"
  /\ UNCHANGED <<shutdown, gchild, child, forkfails, pidfile, spawns>>

\* sleep(CRASH_COOLDOWN_SEC), or less when a signal comes; then start afresh.
StormCooldown ==
  /\ lpc = "cooldown"
  /\ spawns' = InCrashWindow(OlderBy(spawns, CrashCooldown))
  /\ forkfails' = OlderBy(forkfails, CrashCooldown)
  /\ crashes' = <<>> /\ flag' = FALSE /\ backoff' = BackoffMin
  /\ lpc' = "loop"
  /\ UNCHANGED <<shutdown, gchild, child, pidfile>>

\* sleep(backoff) after an exit or a failed fork.
Pause ==
  /\ lpc = "pause"
  /\ Elapse(backoff)
  /\ backoff' = NextBackoff(backoff)
  /\ lpc' = "loop"
  /\ UNCHANGED <<shutdown, gchild, child, flag, pidfile>>

(* The end of run_supervise_loop. *)

\* Mutant: the child is not waited for.
StopNow ==
  /\ lpc = "stop"
  /\ lpc' = "exited"
  /\ UNCHANGED <<shutdown, gchild, child, backoff, crashes, forkfails, flag, pidfile, spawns>>

\* Any child left gets SIGTERM (again) and up to 10 seconds.
Stop ==
  /\ lpc = "stop"
  /\ \/ gchild /\ child' = Term(child) /\ lpc' = "drain"
     \/ ~gchild /\ lpc' = "exited" /\ UNCHANGED child
  /\ UNCHANGED <<shutdown, gchild, backoff, crashes, forkfails, flag, pidfile, spawns>>

\* Mutant: no time-out.
DrainUnbounded ==
  /\ lpc = "drain" /\ child = "zombie"
  /\ child' = "none" /\ gchild' = FALSE /\ pidfile' = FALSE
  /\ lpc' = "exited"
  /\ UNCHANGED <<shutdown, backoff, crashes, forkfails, flag, spawns>>

\* A poll finds the child gone, or the 100 polls are over: SIGKILL.
Drain ==
  /\ lpc = "drain"
  /\ \/ /\ child = "zombie"
        /\ child' = "none" /\ gchild' = FALSE /\ pidfile' = FALSE
        /\ lpc' = "exited"
     \/ /\ child' = "zombie"
        /\ lpc' = "killed"
        /\ UNCHANGED <<gchild, pidfile>>
  /\ UNCHANGED <<shutdown, backoff, crashes, forkfails, flag, spawns>>

\* The last waitpid; EINTR is retried.
Killed ==
  /\ lpc = "killed" /\ child = "zombie"
  /\ child' = "none" /\ gchild' = FALSE /\ pidfile' = FALSE
  /\ lpc' = "exited"
  /\ UNCHANGED <<shutdown, backoff, crashes, forkfails, flag, spawns>>

-----------------------------------------------------------------------------
\* SIGTERM, SIGINT or SIGHUP: on_term_signal.  A blocked waitpid returns EINTR.
OnTerm ==
  /\ lpc # "exited"
  /\ shutdown' = TRUE
  /\ child' = IF gchild THEN Term(child) ELSE child
  /\ lpc' = IF lpc = "blocked" THEN "eintr" ELSE lpc
  /\ UNCHANGED <<gchild, backoff, crashes, forkfails, flag, pidfile, spawns>>

(* hnc_dpid, seen from the launcher. *)

\* execv, after which dpid writes its pid file too; or _exit(127).
Exec ==
  /\ child = "forked"
  /\ \/ child' = "run" /\ pidfile' = TRUE
     \/ child' = "zombie" /\ UNCHANGED pidfile
  /\ UNCHANGED <<lpc, shutdown, gchild, backoff, crashes, forkfails, flag, spawns>>

DpidCrash ==
  /\ child = "run" /\ lpc # "exited"
  /\ \E d \in RunTimes : Elapse(d)
  /\ child' = "zombie"
  /\ UNCHANGED <<lpc, shutdown, gchild, backoff, flag, pidfile>>

\* SIGTERM from somebody else: dpi_rebind.sh, the low-memory killer.
DpidTerm ==
  /\ child = "run"
  /\ child' = "term"
  /\ UNCHANGED <<lpc, shutdown, gchild, backoff, crashes, forkfails, flag,
                 pidfile, spawns>>

\* dpid's deferred calls remove the pid file and the process ends with rc=0.
DpidExit ==
  /\ child = "term"
  /\ \/ child' = "zombie" /\ pidfile' = FALSE
     \/ MayHang /\ child' = "hung" /\ UNCHANGED pidfile
  /\ UNCHANGED <<lpc, shutdown, gchild, backoff, crashes, forkfails, flag, spawns>>

-----------------------------------------------------------------------------
Main ==
  \/ Start \/ Cool \/ Loop \/ ForkFail \/ Forked \/ Recheck
  \/ Wait \/ Blocked \/ Eintr \/ Reaped \/ Decide \/ StormOnce
  \/ StormCooldown \/ Pause \/ Stop \/ Drain \/ Killed

LauncherNext == Main \/ OnTerm \/ Exec \/ DpidCrash \/ DpidTerm \/ DpidExit

LauncherSpec == LauncherInit /\ [][LauncherNext]_launcherVars

\* The launcher's thread runs, a forked child gets to execv, and a dpid that
\* was told to stop gets somewhere.  Nothing obliges a dpid to crash or a
\* signal to come.
LauncherFairSpec == LauncherSpec /\ WF_launcherVars(Main) /\ WF_launcherVars(Exec) /\ WF_launcherVars(DpidExit)

-----------------------------------------------------------------------------
(* Properties. *)

\* Crash loop protection: in no CRASH_WINDOW_SEC are there more than
\* CRASH_LIMIT starts of dpid, whatever it dies of and however the pauses,
\* the tracker's array and the cool-down interlock.
StormBound == Len(spawns) <= CrashLimit

\* A launcher that ended by itself leaves no dpid and no dpid.pid behind,
\* whatever the moment of the signal.
NoOrphan == lpc = "exited" => child = "none" /\ ~pidfile

\* CRASH_FLAG stands only while no dpid runs: every path that goes on to fork
\* has removed it.
FlagMeansNoDpid == flag => child = "none"

\* Self-healing: when dpid is gone the launcher forks again, whatever it died of
\* and however often, unless a stop was asked for or too many forks failed.
Respawns ==
  (child = "none" /\ ~shutdown)
    ~> (lpc \in {"forked", "forkfail"} \/ Storm(forkfails) \/ shutdown)

\* A stop noticed anywhere but between fork and the blocking waitpid ends the
\* launcher, even when dpid hangs on exit: the wait for it is bounded.
StopsOutsideWindow ==
  (shutdown /\ lpc \notin {"forked", "recheck", "wait", "blocked"})
    ~> lpc = "exited"

-----------------------------------------------------------------------------
(* Statements of the source that the code does not keep. *)

\* Comment in run_supervise_loop: the second look at g_shutdown closes the
\* window in which the launcher could not be stopped.
StopsAlways == shutdown ~> lpc = "exited"

\* Comment in run_supervise_loop: the tracker of failed forks keeps the
\* launcher from retrying for ever.
ForkRetriesEnd == []<>(lpc \notin {"loop", "forkfail", "pause"})
=============================================================================
