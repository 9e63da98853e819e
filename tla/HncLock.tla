------------------------------ MODULE HncLock ------------------------------
(***************************************************************************)
(* bin/hnc_lock.sh: the directory locks that every script which rewrites   *)
(* iptables or tc state takes.  A per-MAC lock is run/lock/mac/<mac>, the   *)
(* gate is run/lock/gate; each is a directory made with mkdir that holds a *)
(* file "pid".  mac_lock waits for the gate and then for its directory,    *)
(* gate_lock takes the gate and then waits for all per-MAC directories.    *)
(* Both look for dead holders while they wait and remove their directory.  *)
(*                                                                         *)
(* One process is one script run (iptables_manager.sh, tc_manager.sh,      *)
(* apply_device_rule.sh, cleanup_*.sh): it takes one lock, works, releases *)
(* it and exits.  One step is one command of the script that reads or      *)
(* writes the file system or probes a process, so everything the scripts   *)
(* can do to each other between two commands is in the model.              *)
(*                                                                         *)
(* A lock is "suspect" (history variable) once something happened to it    *)
(* that the stale-lock reclaim can mistake: its holder died, a process     *)
(* died between another one's `cat pid` and `kill -0`, or more than 5      *)
(* seconds passed while the directory had no pid.                          *)
(***************************************************************************)
EXTENDS Naturals, FiniteSets, TLC

CONSTANTS Proc,           \* script runs
          Mac,            \* device addresses
          Gate,           \* the gate, a lock like the others
          None,           \* no pid, no process
          Killable,       \* the runs that may be killed (OOM, action timeout)
          Slow,           \* the locks that may be kept for over 5 seconds
          TimeoutRounds,  \* _LOCK_TIMEOUT_ROUNDS
          StaleFrom,      \* first round that looks for a dead holder
          StaleEvery      \* rounds between two such looks

ASSUME LockAssumption ==
  /\ Gate \notin Mac
  /\ None \notin Proc
  /\ None \notin Mac \cup {Gate}
  /\ Killable \subseteq Proc
  /\ Slow \subseteq Mac \cup {Gate}
  /\ TimeoutRounds \in Nat \ {0}
  /\ StaleFrom \in Nat
  /\ StaleEvery \in Nat \ {0}

Lock == Mac \cup {Gate}

\* Scripts that are not killed, and devices, are alike (for TLC).
Symm == Permutations(Proc \ Killable) \cup Permutations(Mac)

VARIABLES
  dir,      \* dir[l]: the lock's directory exists
  pidf,     \* pidf[l]: the process named by <dir>/pid
  aged,     \* aged[l]: the directory's mtime is more than 5 seconds old
  suspect,  \* suspect[l]: see above (history)
  alive,    \* alive[p]: kill -0 p succeeds
  pc,       \* next command of p
  tgt,      \* the lock p asked for
  round,    \* local i of mac_lock, i or j of gate_lock
  chk,      \* the lock _try_reclaim_stale was called for
  seen,     \* local holder of _try_reclaim_stale
  ret,      \* where the check, or the pair rm;rmdir, belongs to
  todo,     \* directories left in the for loop of gate_lock
  par,      \* the gate holder that forked p
  env       \* HNC_GATE_HELD in p's environment

local == <<tgt, round, chk, seen, ret, todo>>
fs == <<dir, pidf, aged>>
vars == <<dir, pidf, aged, suspect, alive, pc, tgt, round, chk, seen, ret,
          todo, par, env>>

\* The reasons to run `rm -f pid; rmdir`: on one's own lock, or after a check.
Mine == {"unlock", "yield", "giveup"}
Checks == {"mac", "gate", "sweep"}

PC == {"new", "m_gate1", "m_mkdir", "m_pid", "m_gate2", "m_cs",
       "g_mkdir", "g_pid", "g_scan", "g_sweep", "g_cs",
       "read", "judge", "rm", "rmdir", "done", "fail", "killed"}

TypeOK ==
  /\ dir \in [Lock -> BOOLEAN]
  /\ pidf \in [Lock -> Proc \cup {None}]
  /\ aged \in [Lock -> BOOLEAN]
  /\ suspect \in [Lock -> BOOLEAN]
  /\ alive \in [Proc -> BOOLEAN]
  /\ pc \in [Proc -> PC]
  /\ tgt \in [Proc -> Lock \cup {None}]
  /\ round \in [Proc -> 0 .. TimeoutRounds]
  /\ chk \in [Proc -> Lock \cup {None}]
  /\ seen \in [Proc -> Proc \cup {None}]
  /\ ret \in [Proc -> Mine \cup Checks \cup {"none"}]
  /\ todo \in [Proc -> SUBSET Mac]
  /\ par \in [Proc -> Proc \cup {None}]
  /\ env \in [Proc -> Proc \cup {None}]

\* post-fs-data.sh removes run/lock before any script runs.
Init ==
  /\ dir = [l \in Lock |-> FALSE]
  /\ pidf = [l \in Lock |-> None]
  /\ aged = [l \in Lock |-> FALSE]
  /\ suspect = [l \in Lock |-> FALSE]
  /\ alive = [p \in Proc |-> TRUE]
  /\ pc = [p \in Proc |-> "new"]
  /\ tgt = [p \in Proc |-> None]
  /\ round = [p \in Proc |-> 0]
  /\ chk = [p \in Proc |-> None]
  /\ seen = [p \in Proc |-> None]
  /\ ret = [p \in Proc |-> "none"]
  /\ todo = [p \in Proc |-> {}]
  /\ par = [p \in Proc |-> None]
  /\ env = [p \in Proc |-> None]

-----------------------------------------------------------------------------
(* Who holds what, as the processes believe it. *)

\* p's mkdir of l succeeded and p has not yet removed the directory again.
Own(p, l) ==
  /\ tgt[p] = l
  /\ \/ pc[p] \in {"m_pid", "m_gate2", "m_cs", "g_pid", "g_scan", "g_sweep", "g_cs"}
     \/ pc[p] \in {"rm", "rmdir"} /\ ret[p] \in Mine
     \/ pc[p] \in {"read", "judge", "rm", "rmdir"} /\ ret[p] = "sweep"

\* mac_lock or gate_lock returned 0 and the unlock has not begun.
InCS(p, l) == tgt[p] = l /\ pc[p] = IF l = Gate THEN "g_cs" ELSE "m_cs"

\* _gate_held_by_caller
GateHeldByCaller(p) == env[p] # None /\ dir[Gate] /\ pidf[Gate] = env[p]

\* [ -d "$GATE_LOCK" ] && ! _gate_held_by_caller
Blocked(p) == dir[Gate] /\ ~GateHeldByCaller(p)

\* Mutant: the first look comes one round late and meets no round at all.
StaleRoundLate(i) == i > StaleFrom /\ (i - StaleFrom) % StaleEvery = 0

\* The rounds at which a waiter looks for a dead holder.
StaleRound(i) == i >= StaleFrom /\ (i - StaleFrom) % StaleEvery = 0

\* A check under way has read h from l's pid file and not yet probed it.
BeingJudged(l, h) ==
  \E q \in Proc : alive[q] /\ pc[q] = "judge" /\ chk[q] = l /\ seen[q] = h

-----------------------------------------------------------------------------
Goto(p, label) == pc' = [pc EXCEPT ![p] = label]

\* Mutant: the loop has no bound.
NextRoundUnbounded(p, again, timeout) ==
  /\ round' = [round EXCEPT ![p] = @ + 1]
  /\ Goto(p, again)

\* Mutant: `continue' without i=$((i+1)).
NextRoundUncounted(p, again, timeout) == Goto(p, again) /\ UNCHANGED round

\* _short_sleep; i=$((i+1)): another round at `again', or out of the loop.
NextRound(p, again, timeout) ==
  /\ round' = [round EXCEPT ![p] = @ + 1]
  /\ Goto(p, IF round[p] + 1 < TimeoutRounds THEN again ELSE timeout)

\* The two calls a script makes; a process is a script started by httpd,
\* watchdog or boot code.
StartMac(p, m) ==
  /\ pc[p] = "new" /\ alive[p]
  /\ tgt' = [tgt EXCEPT ![p] = m]
  /\ Goto(p, "m_gate1")
  /\ UNCHANGED <<fs, suspect, alive, round, chk, seen, ret, todo, par, env>>

StartGate(p) ==
  /\ pc[p] = "new" /\ alive[p] /\ par[p] = None
  /\ tgt' = [tgt EXCEPT ![p] = Gate]
  /\ Goto(p, "g_mkdir")
  /\ UNCHANGED <<fs, suspect, alive, round, chk, seen, ret, todo, par, env>>

\* A gate holder forks a per-MAC script and waits for it: with HNC_GATE_HELD
\* exported (tc_manager.sh restore, cleanup_stale_rules.sh) or without it
\* (cleanup_offline_devices.sh).
Fork(p, q) ==
  /\ pc[p] = "g_cs" /\ alive[p]
  /\ pc[q] = "new" /\ alive[q] /\ par[q] = None
  /\ \A c \in Proc : par[c] = p => ~alive[c]
  /\ par' = [par EXCEPT ![q] = p]
  /\ \E e \in {p, None} : env' = [env EXCEPT ![q] = e]
  /\ UNCHANGED <<fs, suspect, alive, pc, local>>

-----------------------------------------------------------------------------
(* mac_lock *)

MacGate1(p) ==
  /\ pc[p] = "m_gate1" /\ alive[p]
  /\ \/ /\ Blocked(p)
        /\ NextRound(p, "m_gate1", "fail")
     \/ /\ ~Blocked(p)
        /\ Goto(p, "m_mkdir")
        /\ UNCHANGED round
  /\ UNCHANGED <<fs, suspect, alive, tgt, chk, seen, ret, todo, par, env>>

\* A failed mkdir in a round that does not look for a dead holder.
SkipCheck(p, again) ==
  /\ ~StaleRound(round[p])
  /\ NextRound(p, again, "fail")
  /\ UNCHANGED <<chk, ret>>

\* A failed mkdir in a round that does.
EnterCheck(p, l, from) ==
  /\ chk' = [chk EXCEPT ![p] = l]
  /\ ret' = [ret EXCEPT ![p] = from]
  /\ Goto(p, "read")
  /\ UNCHANGED round

Mkdir(p, here, next, again, from) ==
  /\ pc[p] = here /\ alive[p]
  /\ \/ /\ ~dir[tgt[p]]
        /\ dir' = [dir EXCEPT ![tgt[p]] = TRUE]
        /\ aged' = [aged EXCEPT ![tgt[p]] = FALSE]
        /\ Goto(p, next)
        /\ UNCHANGED <<round, chk, ret>>
     \/ /\ dir[tgt[p]]
        /\ \/ SkipCheck(p, again)
           \/ StaleRound(round[p]) /\ EnterCheck(p, tgt[p], from)
        /\ UNCHANGED <<dir, aged>>
  /\ UNCHANGED <<pidf, suspect, alive, tgt, seen, todo, par, env>>

MacMkdir(p) == Mkdir(p, "m_mkdir", "m_pid", "m_gate1", "mac")

\* echo $$ > "$lockdir/pid": nothing happens when the directory is gone;
\* creating the file renews the directory's mtime.
EchoPid(p) ==
  /\ pidf' = IF dir[tgt[p]] THEN [pidf EXCEPT ![tgt[p]] = p] ELSE pidf
  /\ aged' = IF dir[tgt[p]] /\ pidf[tgt[p]] = None
             THEN [aged EXCEPT ![tgt[p]] = FALSE] ELSE aged

MacPid(p) ==
  /\ pc[p] = "m_pid" /\ alive[p]
  /\ EchoPid(p)
  /\ Goto(p, "m_gate2")
  /\ UNCHANGED <<dir, suspect, alive, local, par, env>>

\* Mutant: no second look.
MacGate2NoLook(p) ==
  /\ pc[p] = "m_gate2" /\ alive[p]
  /\ round' = [round EXCEPT ![p] = 0]
  /\ Goto(p, "m_cs")
  /\ UNCHANGED <<fs, suspect, alive, tgt, chk, seen, ret, todo, par, env>>

\* Mutant: the yield forgets rm; rmdir.
MacGate2KeepDir(p) ==
  /\ pc[p] = "m_gate2" /\ alive[p]
  /\ \/ Blocked(p) /\ NextRound(p, "m_gate1", "fail")
     \/ ~Blocked(p) /\ Goto(p, "m_cs") /\ UNCHANGED round
  /\ UNCHANGED <<fs, suspect, alive, tgt, chk, seen, ret, todo, par, env>>

\* The second look at the gate: yield to it, or hold the lock.
MacGate2(p) ==
  /\ pc[p] = "m_gate2" /\ alive[p]
  /\ \/ /\ Blocked(p)
        /\ ret' = [ret EXCEPT ![p] = "yield"]
        /\ Goto(p, "rm")
        /\ UNCHANGED round
     \/ /\ ~Blocked(p)
        /\ round' = [round EXCEPT ![p] = 0]
        /\ Goto(p, "m_cs")
        /\ UNCHANGED ret
  /\ UNCHANGED <<fs, suspect, alive, tgt, chk, seen, todo, par, env>>

-----------------------------------------------------------------------------
(* gate_lock *)

GateMkdir(p) == Mkdir(p, "g_mkdir", "g_pid", "g_mkdir", "gate")

GatePid(p) ==
  /\ pc[p] = "g_pid" /\ alive[p]
  /\ EchoPid(p)
  /\ round' = [round EXCEPT ![p] = 0]
  /\ Goto(p, "g_scan")
  /\ UNCHANGED <<dir, suspect, alive, tgt, chk, seen, ret, todo, par, env>>

\* ls -A "$MAC_LOCK_DIR": all released, or the directories to look at.
GateScan(p) ==
  /\ pc[p] = "g_scan" /\ alive[p]
  /\ \/ /\ \A m \in Mac : ~dir[m]
        /\ round' = [round EXCEPT ![p] = 0]
        /\ Goto(p, "g_cs")
        /\ UNCHANGED todo
     \/ /\ \E m \in Mac : dir[m]
        /\ todo' = [todo EXCEPT ![p] = {m \in Mac : dir[m]}]
        /\ Goto(p, "g_sweep")
        /\ UNCHANGED round
  /\ UNCHANGED <<fs, suspect, alive, tgt, chk, seen, ret, par, env>>

\* One turn of the for loop, or its end and the next round of the while loop.
GateSweep(p) ==
  /\ pc[p] = "g_sweep" /\ alive[p]
  /\ \/ /\ todo[p] = {}
        /\ round' = [round EXCEPT ![p] = @ + 1]
        /\ IF round[p] + 1 < TimeoutRounds
             THEN Goto(p, "g_scan") /\ UNCHANGED ret
             ELSE Goto(p, "rm") /\ ret' = [ret EXCEPT ![p] = "giveup"]
        /\ UNCHANGED <<todo, chk>>
     \/ \E m \in todo[p] :
          /\ todo' = [todo EXCEPT ![p] = @ \ {m}]
          /\ IF dir[m] THEN EnterCheck(p, m, "sweep")
                       ELSE UNCHANGED <<chk, ret, pc, round>>
  /\ UNCHANGED <<fs, suspect, alive, tgt, seen, par, env>>

-----------------------------------------------------------------------------
(* _try_reclaim_stale *)

\* holder=$(cat "$lockdir/pid")
ReadHolder(p) ==
  /\ pc[p] = "read" /\ alive[p]
  /\ seen' = [seen EXCEPT ![p] = pidf[chk[p]]]
  /\ Goto(p, "judge")
  /\ UNCHANGED <<fs, suspect, alive, tgt, round, chk, ret, todo, par, env>>

\* The check returns (its locals vanish) and its caller goes on.
AfterCheck(p) ==
  /\ \/ ret[p] = "mac" /\ NextRound(p, "m_gate1", "fail")
     \/ ret[p] = "gate" /\ NextRound(p, "g_mkdir", "fail")
     \/ ret[p] = "sweep" /\ Goto(p, "g_sweep") /\ UNCHANGED round
  /\ ret' = [ret EXCEPT ![p] = "none"]
  /\ chk' = [chk EXCEPT ![p] = None]

\* Mutant: a directory without a pid is stale at any age.
LooksStaleAnyAge(p) ==
  IF seen[p] = None THEN dir[chk[p]] ELSE ~alive[seen[p]]

\* stat of the directory when there was no pid, kill -0 when there was one.
LooksStale(p) ==
  IF seen[p] = None THEN dir[chk[p]] /\ aged[chk[p]] ELSE ~alive[seen[p]]

Judge(p) ==
  /\ pc[p] = "judge" /\ alive[p]
  /\ \/ /\ LooksStale(p)
        /\ Goto(p, "rm")
        /\ UNCHANGED <<round, chk, ret>>
     \/ /\ ~LooksStale(p)
        /\ AfterCheck(p)
  /\ seen' = [seen EXCEPT ![p] = None]
  /\ UNCHANGED <<fs, suspect, alive, tgt, todo, par, env>>

-----------------------------------------------------------------------------
(* rm -f pid; rmdir: the end of mac_unlock, gate_unlock, the yield, the     *)
(* gate's give-up and the reclaim.  Nothing checks whose directory it is.  *)

Victim(p) == IF ret[p] \in Mine THEN tgt[p] ELSE chk[p]

\* Mutant: the gate holder forks in the background and does not wait.
UnlockNoWait(p) ==
  /\ pc[p] \in {"m_cs", "g_cs"} /\ alive[p]
  /\ ret' = [ret EXCEPT ![p] = "unlock"]
  /\ Goto(p, "rm")
  /\ UNCHANGED <<fs, suspect, alive, tgt, round, chk, seen, todo, par, env>>

\* The script's work is done: mac_unlock, gate_unlock.  A shell waits for the
\* scripts it forked first.
Unlock(p) ==
  /\ pc[p] \in {"m_cs", "g_cs"} /\ alive[p]
  /\ \A c \in Proc : par[c] = p => ~alive[c]
  /\ ret' = [ret EXCEPT ![p] = "unlock"]
  /\ Goto(p, "rm")
  /\ UNCHANGED <<fs, suspect, alive, tgt, round, chk, seen, todo, par, env>>

RmPid(p) ==
  /\ pc[p] = "rm" /\ alive[p]
  /\ pidf' = [pidf EXCEPT ![Victim(p)] = None]
  /\ aged' = IF pidf[Victim(p)] = None
             THEN aged ELSE [aged EXCEPT ![Victim(p)] = FALSE]
  /\ Goto(p, "rmdir")
  /\ UNCHANGED <<dir, suspect, alive, local, par, env>>

\* rmdir fails, silently, on a directory that has a pid file.
Rmdir(p) ==
  /\ pc[p] = "rmdir" /\ alive[p]
  /\ IF pidf[Victim(p)] = None
       THEN /\ dir' = [dir EXCEPT ![Victim(p)] = FALSE]
            /\ aged' = [aged EXCEPT ![Victim(p)] = FALSE]
       ELSE UNCHANGED <<dir, aged>>
  /\ \/ ret[p] = "unlock" /\ Goto(p, "done") /\ UNCHANGED <<round, ret, chk>>
     \/ ret[p] = "giveup" /\ Goto(p, "fail") /\ UNCHANGED <<round, ret, chk>>
     \/ ret[p] = "yield" /\ NextRound(p, "m_gate1", "fail") /\ UNCHANGED <<ret, chk>>
     \/ AfterCheck(p)
  /\ UNCHANGED <<pidf, suspect, alive, tgt, seen, todo, par, env>>

-----------------------------------------------------------------------------
(* The end of a process, and time. *)

Die(p, how) ==
  /\ alive' = [alive EXCEPT ![p] = FALSE]
  /\ suspect' = [l \in Lock |-> suspect[l] \/ Own(p, l) \/ BeingJudged(l, p)]
  /\ Goto(p, how)
  /\ tgt' = [tgt EXCEPT ![p] = None]
  /\ round' = [round EXCEPT ![p] = 0]
  /\ chk' = [chk EXCEPT ![p] = None]
  /\ seen' = [seen EXCEPT ![p] = None]
  /\ ret' = [ret EXCEPT ![p] = "none"]
  /\ todo' = [todo EXCEPT ![p] = {}]
  /\ UNCHANGED <<fs, par, env>>

\* After the unlock, or on rc=11.
Exit(p) == alive[p] /\ pc[p] \in {"done", "fail"} /\ Die(p, pc[p])

\* kill -9: the watchdog's action timeout kills the group, the OOM killer.
Crash(p) ==
  /\ p \in Killable
  /\ alive[p] /\ pc[p] \notin {"new", "done", "fail"}
  /\ Die(p, "killed")

\* The directory's mtime becomes more than 5 seconds old.
Age(l) ==
  /\ l \in Slow /\ dir[l] /\ ~aged[l]
  /\ aged' = [aged EXCEPT ![l] = TRUE]
  /\ suspect' = [suspect EXCEPT ![l] = @ \/ pidf[l] = None \/ BeingJudged(l, None)]
  /\ UNCHANGED <<dir, pidf, alive, pc, local, par, env>>

-----------------------------------------------------------------------------
\* What p does by itself once it was started.
Step(p) ==
  \/ MacGate1(p) \/ MacMkdir(p) \/ MacPid(p) \/ MacGate2(p)
  \/ GateMkdir(p) \/ GatePid(p) \/ GateScan(p) \/ GateSweep(p)
  \/ ReadHolder(p) \/ Judge(p) \/ Unlock(p) \/ RmPid(p) \/ Rmdir(p)
  \/ Exit(p)

Next ==
  \/ \E p \in Proc :
       \/ Step(p)
       \/ \E m \in Mac : StartMac(p, m)
       \/ StartGate(p)
       \/ \E q \in Proc : Fork(p, q)
       \/ Crash(p)
  \/ \E l \in Lock : Age(l)

Spec == Init /\ [][Next]_vars

\* The scheduler runs every live process that can move, and a forked script
\* does make its call; nothing obliges a new script to be started.
Fairness ==
  /\ \A p \in Proc : WF_vars(Step(p))
  /\ \A p \in Proc : WF_vars(par[p] # None /\ \E m \in Mac : StartMac(p, m))

FairSpec == Spec /\ Fairness
-----------------------------------------------------------------------------
(* Properties. *)

\* "One writer per MAC" (header of hnc_lock.sh), and one gate holder: no two
\* scripts are between lock and unlock of the same lock, unless the lock became
\* suspect.
SingleWriter ==
  \A l \in Lock : ~suspect[l] =>
    \A p, q \in Proc : InCS(p, l) /\ InCS(q, l) => p = q

\* gate_lock returns only when every per-MAC section is over and keeps new ones
\* out: the two looks at the gate in mac_lock and the scan in gate_lock leave
\* no window.  Only a script the gate holder exported HNC_GATE_HELD to works
\* beside it.
GateDrains ==
  \A p, q \in Proc, m \in Mac :
    InCS(p, Gate) /\ InCS(q, m) /\ ~suspect[Gate] /\ ~suspect[m]
      => env[q] = p

\* No path through mac_lock and gate_lock (time-out, yield, give-up) leaves a
\* directory behind: one that is there and not suspect has a live owner.
NoOrphan ==
  \A l \in Lock : dir[l] /\ ~suspect[l] =>
    \E p \in Proc : alive[p] /\ Own(p, l)

\* A script to which the gate was passed never waits for that gate: neither
\* look at the gate finds a gate/pid other than HNC_GATE_HELD.
NeverSelfBlocked ==
  \A q \in Proc :
    alive[q] /\ env[q] # None /\ ~suspect[Gate]
      /\ pc[q] \in {"m_gate1", "m_gate2"} => ~Blocked(q)

\* l's recorded holder died.
Stale(l) == dir[l] /\ pidf[l] # None /\ ~alive[pidf[l]]

\* Every script that was started ends: it gets its lock or rc=11 within its
\* rounds, and nobody waits for ever, not even a gate holder for a script it
\* forked that in turn waits for the gate.
ScriptEnds == \A p \in Proc : pc[p] # "new" ~> ~alive[p]

\* The per-MAC lock of a dead holder is reclaimed by the next caller for the
\* same device, whose time-out is long enough for it, unless a gate keeps
\* that caller from looking or it is killed itself.
StaleMacReclaimed ==
  \A p \in Proc, m \in Mac :
    (Stale(m) /\ pc[p] = "m_gate1" /\ tgt[p] = m /\ round[p] = 0)
      ~> (~Stale(m) \/ dir[Gate] \/ pc[p] = "killed")

-----------------------------------------------------------------------------
(* Statements of the repository that the code does not keep. *)

\* Header, line 34: the single-writer invariant is not relaxed.  Without the
\* excuse of a suspect lock.
SingleWriterAlways ==
  \A m \in Mac, p, q \in Proc :
    alive[p] /\ alive[q] /\ InCS(p, m) /\ InCS(q, m) => p = q

\* Header, line 25: a lock whose pid is dead is reclaimed after 20 rounds.
\* For the gate, by a mac_lock caller that waits for it.
StaleGateReclaimed ==
  \A p \in Proc :
    (Stale(Gate) /\ pc[p] = "m_gate1" /\ round[p] = 0)
      ~> (~Stale(Gate) \/ pc[p] = "killed")

\* Header of cleanup_offline_devices.sh, line 17: it takes the gate the way
\* cleanup_stale_rules.sh does, whose forked scripts are not blocked by it.
ForkedNeverBlocked ==
  \A q \in Proc :
    alive[q] /\ par[q] # None /\ ~suspect[Gate]
      /\ pc[q] \in {"m_gate1", "m_gate2"} => ~Blocked(q)
=============================================================================
