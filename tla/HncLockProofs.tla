--------------------------- MODULE HncLockProofs ---------------------------
(***************************************************************************)
(* Proofs about HncLock, for any number of scripts and devices and any     *)
(* time-outs.                                                              *)
(*                                                                         *)
(* None of SingleWriter, GateDrains, NoOrphan and NeverSelfBlocked is      *)
(* inductive.  Inv adds what the scripts rely on without saying so: where  *)
(* in the code a script can be with which arguments (Control), that a lock *)
(* that is not suspect has a directory exactly while one script owns it,   *)
(* with that script's pid in it from the echo to the rm, and that no       *)
(* reclaim of it is under way or about to be decided (LockInv), and that a *)
(* script with HNC_GATE_HELD lives only while the gate holder waits for it *)
(* (ForkInv).                                                              *)
(***************************************************************************)
EXTENDS HncLock, TLAPS

MacPC == {"m_gate1", "m_mkdir", "m_pid", "m_gate2", "m_cs"}
GatePC == {"g_mkdir", "g_pid", "g_scan", "g_sweep", "g_cs"}
CheckPC == {"read", "judge", "rm", "rmdir"}
EndPC == {"done", "fail", "killed"}

\* Which lock and which continuation go with which command.
ControlOf(p) ==
  /\ pc[p] \in MacPC => tgt[p] \in Mac
  /\ pc[p] \in GatePC => tgt[p] = Gate
  /\ pc[p] \in CheckPC =>
       \/ ret[p] = "unlock" /\ tgt[p] \in Lock /\ pc[p] \in {"rm", "rmdir"}
       \/ ret[p] = "yield" /\ tgt[p] \in Mac /\ pc[p] \in {"rm", "rmdir"}
       \/ ret[p] = "giveup" /\ tgt[p] = Gate /\ pc[p] \in {"rm", "rmdir"}
       \/ ret[p] = "mac" /\ tgt[p] \in Mac /\ chk[p] = tgt[p]
       \/ ret[p] = "gate" /\ tgt[p] = Gate /\ chk[p] = Gate
       \/ ret[p] = "sweep" /\ tgt[p] = Gate /\ chk[p] \in Mac
  /\ ~alive[p] => pc[p] \in EndPC

\* A waiting loop has rounds left.
RoundsOf(p) ==
  /\ pc[p] = "new" => round[p] = 0
  /\ pc[p] \in (MacPC \cup GatePC) \/ (pc[p] \in CheckPC /\ ret[p] \notin {"giveup", "unlock"})
       => round[p] < TimeoutRounds

Control == \A p \in Proc : ControlOf(p) /\ RoundsOf(p)

\* p's pid is in the directory it owns.
Wrote(p) ==
  /\ pc[p] \notin {"m_pid", "g_pid"}
  /\ ~(pc[p] = "rmdir" /\ ret[p] \in Mine)

\* The state of a lock that is not suspect.
Sound(l) ==
  /\ \A p, q \in Proc : Own(p, l) /\ Own(q, l) => p = q
  /\ dir[l] => \E p \in Proc : Own(p, l)
  /\ \A p \in Proc : Own(p, l) => dir[l] /\ pidf[l] = IF Wrote(p) THEN p ELSE None
  /\ ~dir[l] => pidf[l] = None
  /\ aged[l] => pidf[l] # None
  /\ \A p \in Proc : pc[p] \in {"rm", "rmdir"} /\ ret[p] \in Checks => chk[p] # l
  /\ \A p \in Proc : pc[p] = "judge" /\ chk[p] = l /\ ret[p] \in Checks =>
       IF seen[p] = None THEN ~aged[l] ELSE alive[seen[p]]

LockInv == \A l \in Lock : ~suspect[l] => Sound(l)

ForkInv ==
  \A q \in Proc : env[q] # None =>
    /\ par[q] = env[q]
    /\ alive[q] /\ ~suspect[Gate] => pc[env[q]] = "g_cs"

Inv == TypeOK /\ Control /\ LockInv /\ GateDrains /\ ForkInv
-----------------------------------------------------------------------------
\* The variables keep their types and the commands their arguments.
LEMMA TypeStep ==
  ASSUME TypeOK, Control, [Next]_vars
  PROVE  TypeOK' /\ Control'
<1> USE LockAssumption DEF Lock, Mine, Checks, Goto, NextRound, local, fs
<1>1. ASSUME NEW p \in Proc, MacGate1(p)
      PROVE  TypeOK' /\ Control'
  BY <1>1 DEF TypeOK, Control, ControlOf, RoundsOf, MacPC, GatePC, CheckPC, EndPC, PC, MacGate1
<1>2. ASSUME NEW p \in Proc, MacMkdir(p)
      PROVE  TypeOK' /\ Control'
  <2>1. ControlOf(p) /\ RoundsOf(p)
    BY DEF Control
  <2>2. TypeOK'
    <3>1. tgt[p] \in Lock
      BY <1>2, <2>1 DEF TypeOK, ControlOf, MacPC, GatePC, CheckPC, MacMkdir, Mkdir, SkipCheck, EnterCheck
    <3>2. round' \in [Proc -> 0 .. TimeoutRounds]
      BY <1>2, <2>1 DEF TypeOK, ControlOf, RoundsOf, MacPC, GatePC, CheckPC, MacMkdir, Mkdir, SkipCheck, EnterCheck
    <3>3. pc' \in [Proc -> PC]
      BY <1>2 DEF TypeOK, PC, MacMkdir, Mkdir, SkipCheck, EnterCheck
    <3>4. dir' \in [Lock -> BOOLEAN] /\ aged' \in [Lock -> BOOLEAN]
      <4>1. \/ UNCHANGED <<dir, aged>>
            \/ /\ dir' = [dir EXCEPT ![tgt[p]] = TRUE]
               /\ aged' = [aged EXCEPT ![tgt[p]] = FALSE]
        BY <1>2 DEF MacMkdir, Mkdir
      <4> QED BY <4>1, <3>1 DEF TypeOK
    <3>5. /\ ret' \in [Proc -> Mine \cup Checks \cup {"none"}]
          /\ chk' \in [Proc -> Lock \cup {None}]
      BY <1>2, <3>1 DEF TypeOK, MacMkdir, Mkdir, SkipCheck, EnterCheck
    <3> QED BY <1>2, <3>2, <3>3, <3>4, <3>5 DEF TypeOK, MacMkdir, Mkdir, SkipCheck, EnterCheck
  <2>3. ControlOf(p)' /\ RoundsOf(p)'
    BY <1>2, <2>1 DEF TypeOK, ControlOf, RoundsOf, MacPC, GatePC, CheckPC, EndPC, PC, MacMkdir, Mkdir, SkipCheck, EnterCheck
  <2>4. ASSUME NEW q \in Proc, q # p PROVE ControlOf(q)' /\ RoundsOf(q)'
    BY <1>2, <2>4 DEF TypeOK, Control, ControlOf, RoundsOf, MacPC, GatePC, CheckPC, EndPC, PC, MacMkdir, Mkdir, SkipCheck, EnterCheck
  <2> QED BY <2>2, <2>3, <2>4 DEF Control
<1>3. ASSUME NEW p \in Proc, MacPid(p)
      PROVE  TypeOK' /\ Control'
  BY <1>3 DEF TypeOK, Control, ControlOf, RoundsOf, MacPC, GatePC, CheckPC, EndPC, PC, MacPid, EchoPid
<1>4. ASSUME NEW p \in Proc, MacGate2(p)
      PROVE  TypeOK' /\ Control'
  <2>1. ControlOf(p) /\ RoundsOf(p)
    BY DEF Control
  <2>2. TypeOK'
    BY <1>4, <2>1 DEF TypeOK, ControlOf, RoundsOf, MacPC, GatePC, CheckPC, PC, MacGate2
  <2>3. ControlOf(p)' /\ RoundsOf(p)'
    BY <1>4, <2>1 DEF TypeOK, ControlOf, RoundsOf, MacPC, GatePC, CheckPC, EndPC, PC, MacGate2
  <2>4. ASSUME NEW q \in Proc, q # p PROVE ControlOf(q)' /\ RoundsOf(q)'
    BY <1>4, <2>4 DEF TypeOK, Control, ControlOf, RoundsOf, MacPC, GatePC, CheckPC, EndPC, PC, MacGate2
  <2> QED BY <2>2, <2>3, <2>4 DEF Control
<1>5. ASSUME NEW p \in Proc, GateMkdir(p)
      PROVE  TypeOK' /\ Control'
  <2>1. ControlOf(p) /\ RoundsOf(p)
    BY DEF Control
  <2>2. TypeOK'
    <3>1. tgt[p] \in Lock
      BY <1>5, <2>1 DEF TypeOK, ControlOf, MacPC, GatePC, CheckPC, GateMkdir, Mkdir, SkipCheck, EnterCheck
    <3>2. round' \in [Proc -> 0 .. TimeoutRounds]
      BY <1>5, <2>1 DEF TypeOK, ControlOf, RoundsOf, MacPC, GatePC, CheckPC, GateMkdir, Mkdir, SkipCheck, EnterCheck
    <3>3. pc' \in [Proc -> PC]
      BY <1>5 DEF TypeOK, PC, GateMkdir, Mkdir, SkipCheck, EnterCheck
    <3>4. dir' \in [Lock -> BOOLEAN] /\ aged' \in [Lock -> BOOLEAN]
      <4>1. \/ UNCHANGED <<dir, aged>>
            \/ /\ dir' = [dir EXCEPT ![tgt[p]] = TRUE]
               /\ aged' = [aged EXCEPT ![tgt[p]] = FALSE]
        BY <1>5 DEF GateMkdir, Mkdir
      <4> QED BY <4>1, <3>1 DEF TypeOK
    <3>5. /\ ret' \in [Proc -> Mine \cup Checks \cup {"none"}]
          /\ chk' \in [Proc -> Lock \cup {None}]
      BY <1>5, <3>1 DEF TypeOK, GateMkdir, Mkdir, SkipCheck, EnterCheck
    <3> QED BY <1>5, <3>2, <3>3, <3>4, <3>5 DEF TypeOK, GateMkdir, Mkdir, SkipCheck, EnterCheck
  <2>3. ControlOf(p)' /\ RoundsOf(p)'
    BY <1>5, <2>1 DEF TypeOK, ControlOf, RoundsOf, MacPC, GatePC, CheckPC, EndPC, PC, GateMkdir, Mkdir, SkipCheck, EnterCheck
  <2>4. ASSUME NEW q \in Proc, q # p PROVE ControlOf(q)' /\ RoundsOf(q)'
    BY <1>5, <2>4 DEF TypeOK, Control, ControlOf, RoundsOf, MacPC, GatePC, CheckPC, EndPC, PC, GateMkdir, Mkdir, SkipCheck, EnterCheck
  <2> QED BY <2>2, <2>3, <2>4 DEF Control
<1>6. ASSUME NEW p \in Proc, GatePid(p)
      PROVE  TypeOK' /\ Control'
  BY <1>6 DEF TypeOK, Control, ControlOf, RoundsOf, MacPC, GatePC, CheckPC, EndPC, PC, GatePid, EchoPid
<1>7. ASSUME NEW p \in Proc, GateScan(p)
      PROVE  TypeOK' /\ Control'
  BY <1>7 DEF TypeOK, Control, ControlOf, RoundsOf, MacPC, GatePC, CheckPC, EndPC, PC, GateScan
<1>8. ASSUME NEW p \in Proc, GateSweep(p)
      PROVE  TypeOK' /\ Control'
  BY <1>8 DEF TypeOK, Control, ControlOf, RoundsOf, MacPC, GatePC, CheckPC, EndPC, PC, GateSweep, EnterCheck
<1>9. ASSUME NEW p \in Proc, ReadHolder(p)
      PROVE  TypeOK' /\ Control'
  BY <1>9 DEF TypeOK, Control, ControlOf, RoundsOf, MacPC, GatePC, CheckPC, EndPC, PC, ReadHolder
<1>10. ASSUME NEW p \in Proc, Judge(p)
      PROVE  TypeOK' /\ Control'
  BY <1>10 DEF TypeOK, Control, ControlOf, RoundsOf, MacPC, GatePC, CheckPC, EndPC, PC, Judge, AfterCheck
<1>11. ASSUME NEW p \in Proc, Unlock(p)
      PROVE  TypeOK' /\ Control'
  BY <1>11 DEF TypeOK, Control, ControlOf, RoundsOf, MacPC, GatePC, CheckPC, EndPC, PC, Unlock
<1>12. ASSUME NEW p \in Proc, RmPid(p)
      PROVE  TypeOK' /\ Control'
  BY <1>12 DEF TypeOK, Control, ControlOf, RoundsOf, MacPC, GatePC, CheckPC, EndPC, PC, RmPid, Victim
<1>13. ASSUME NEW p \in Proc, Rmdir(p)
      PROVE  TypeOK' /\ Control'
  <2>1. ControlOf(p) /\ RoundsOf(p)
    BY DEF Control
  <2>2. TypeOK'
    <3>1. Victim(p) \in Lock
      BY <1>13, <2>1 DEF TypeOK, ControlOf, MacPC, GatePC, CheckPC, Rmdir, AfterCheck, Victim
    <3>2. round' \in [Proc -> 0 .. TimeoutRounds]
      BY <1>13, <2>1 DEF TypeOK, ControlOf, RoundsOf, MacPC, GatePC, CheckPC, Rmdir, AfterCheck, Victim
    <3>3. pc' \in [Proc -> PC]
      BY <1>13 DEF TypeOK, PC, Rmdir, AfterCheck, Victim
    <3>4. dir' \in [Lock -> BOOLEAN] /\ aged' \in [Lock -> BOOLEAN]
      BY <1>13, <3>1 DEF TypeOK, Rmdir
    <3>5. /\ ret' \in [Proc -> Mine \cup Checks \cup {"none"}]
          /\ chk' \in [Proc -> Lock \cup {None}]
      BY <1>13, <3>1 DEF TypeOK, Rmdir, AfterCheck, Victim
    <3> QED BY <1>13, <3>2, <3>3, <3>4, <3>5 DEF TypeOK, Rmdir, AfterCheck, Victim
  <2>3. ControlOf(p)' /\ RoundsOf(p)'
    BY <1>13, <2>1 DEF TypeOK, ControlOf, RoundsOf, MacPC, GatePC, CheckPC, EndPC, PC, Rmdir, AfterCheck, Victim
  <2>4. ASSUME NEW q \in Proc, q # p PROVE ControlOf(q)' /\ RoundsOf(q)'
    BY <1>13, <2>4 DEF TypeOK, Control, ControlOf, RoundsOf, MacPC, GatePC, CheckPC, EndPC, PC, Rmdir, AfterCheck, Victim
  <2> QED BY <2>2, <2>3, <2>4 DEF Control
<1>14. ASSUME NEW p \in Proc, Exit(p)
      PROVE  TypeOK' /\ Control'
  BY <1>14 DEF TypeOK, Control, ControlOf, RoundsOf, MacPC, GatePC, CheckPC, EndPC, PC, Exit, Die
<1>15. ASSUME NEW p \in Proc, StartGate(p)
      PROVE  TypeOK' /\ Control'
  BY <1>15 DEF TypeOK, Control, ControlOf, RoundsOf, MacPC, GatePC, CheckPC, EndPC, PC, StartGate
<1>16. ASSUME NEW p \in Proc, Crash(p)
      PROVE  TypeOK' /\ Control'
  BY <1>16 DEF TypeOK, Control, ControlOf, RoundsOf, MacPC, GatePC, CheckPC, EndPC, PC, Crash, Die
<1>17. ASSUME NEW p \in Proc, NEW m \in Mac, StartMac(p, m)
      PROVE  TypeOK' /\ Control'
  BY <1>17 DEF TypeOK, Control, ControlOf, RoundsOf, MacPC, GatePC, CheckPC, EndPC, PC, StartMac
<1>18. ASSUME NEW p \in Proc, NEW q \in Proc, Fork(p, q)
      PROVE  TypeOK' /\ Control'
  BY <1>18 DEF TypeOK, Control, ControlOf, RoundsOf, MacPC, GatePC, CheckPC, EndPC, PC, Fork
<1>19. ASSUME NEW l \in Lock, Age(l)
      PROVE  TypeOK' /\ Control'
  BY <1>19 DEF TypeOK, Control, ControlOf, RoundsOf, MacPC, GatePC, CheckPC, EndPC, PC, Age
<1>20. CASE UNCHANGED vars
  BY <1>20 DEF TypeOK, Control, ControlOf, RoundsOf, MacPC, GatePC, CheckPC, EndPC, PC, vars
<1> QED
  BY <1>1, <1>2, <1>3, <1>4, <1>5, <1>6, <1>7, <1>8, <1>9, <1>10, <1>11, <1>12, <1>13, <1>14, <1>15, <1>16, <1>17, <1>18, <1>19, <1>20 DEF Next, Step

\* A lock that is not suspect stays sound: only its owner removes its directory.
LEMMA SoundStep ==
  ASSUME TypeOK, Control, LockInv, [Next]_vars,
         NEW l \in Lock, ~suspect'[l]
  PROVE  Sound(l)'
<1> USE LockAssumption DEF Lock, Mine, Checks, Goto, NextRound, local, fs
<1>0. ~suspect[l] /\ Sound(l)
  BY DEF LockInv, TypeOK, Next, Step, vars, MacGate1, MacMkdir, Mkdir, MacPid, MacGate2, GateMkdir, GatePid, GateScan, GateSweep, ReadHolder, Judge, Unlock, RmPid, Rmdir, Exit, Crash, Die, Age, StartMac, StartGate, Fork
<1>1. ASSUME NEW p \in Proc, MacGate1(p) PROVE Sound(l)'
  BY <1>0, <1>1 DEF TypeOK, Control, ControlOf, MacPC, GatePC, CheckPC, EndPC, Sound, Own, Wrote, MacGate1
<1>2. ASSUME NEW p \in Proc, MacMkdir(p) PROVE Sound(l)'
  BY <1>0, <1>2 DEF TypeOK, Control, ControlOf, MacPC, GatePC, CheckPC, EndPC, Sound, Own, Wrote, MacMkdir, Mkdir, SkipCheck, EnterCheck
<1>3. ASSUME NEW p \in Proc, MacPid(p) PROVE Sound(l)'
  BY <1>0, <1>3 DEF TypeOK, Control, ControlOf, MacPC, GatePC, CheckPC, EndPC, Sound, Own, Wrote, MacPid, EchoPid
<1>4. ASSUME NEW p \in Proc, MacGate2(p) PROVE Sound(l)'
  BY <1>0, <1>4 DEF TypeOK, Control, ControlOf, MacPC, GatePC, CheckPC, EndPC, Sound, Own, Wrote, MacGate2
<1>5. ASSUME NEW p \in Proc, GateMkdir(p) PROVE Sound(l)'
  BY <1>0, <1>5 DEF TypeOK, Control, ControlOf, MacPC, GatePC, CheckPC, EndPC, Sound, Own, Wrote, GateMkdir, Mkdir, SkipCheck, EnterCheck
<1>6. ASSUME NEW p \in Proc, GatePid(p) PROVE Sound(l)'
  BY <1>0, <1>6 DEF TypeOK, Control, ControlOf, MacPC, GatePC, CheckPC, EndPC, Sound, Own, Wrote, GatePid, EchoPid
<1>7. ASSUME NEW p \in Proc, GateScan(p) PROVE Sound(l)'
  BY <1>0, <1>7 DEF TypeOK, Control, ControlOf, MacPC, GatePC, CheckPC, EndPC, Sound, Own, Wrote, GateScan
<1>8. ASSUME NEW p \in Proc, GateSweep(p) PROVE Sound(l)'
  <2>1. tgt[p] = Gate /\ pc[p] = "g_sweep" /\ UNCHANGED <<fs, suspect, alive, tgt, seen>>
    BY <1>8 DEF GateSweep, Control, ControlOf, GatePC
  <2>2. CASE Goto(p, "g_scan") /\ UNCHANGED <<ret, chk>>
    BY <1>0, <2>1, <2>2 DEF TypeOK, Sound, Own, Wrote
  <2>3. CASE Goto(p, "rm") /\ ret' = [ret EXCEPT ![p] = "giveup"] /\ UNCHANGED chk
    BY <1>0, <2>1, <2>3 DEF TypeOK, Sound, Own, Wrote
  <2>4. CASE UNCHANGED <<pc, ret, chk>>
    BY <1>0, <2>1, <2>4 DEF TypeOK, Sound, Own, Wrote
  <2>5. ASSUME NEW m \in Mac, EnterCheck(p, m, "sweep") PROVE Sound(l)'
    BY <1>0, <2>1, <2>5 DEF TypeOK, Sound, Own, Wrote, EnterCheck
  <2> QED BY <1>8, <2>2, <2>3, <2>4, <2>5 DEF GateSweep, TypeOK
<1>9. ASSUME NEW p \in Proc, ReadHolder(p) PROVE Sound(l)'
  BY <1>0, <1>9 DEF TypeOK, Control, ControlOf, MacPC, GatePC, CheckPC, EndPC, Sound, Own, Wrote, ReadHolder
<1>10. ASSUME NEW p \in Proc, Judge(p) PROVE Sound(l)'
  BY <1>0, <1>10 DEF TypeOK, Control, ControlOf, MacPC, GatePC, CheckPC, EndPC, Sound, Own, Wrote, Judge, AfterCheck, LooksStale
<1>11. ASSUME NEW p \in Proc, Unlock(p) PROVE Sound(l)'
  BY <1>0, <1>11 DEF TypeOK, Control, ControlOf, MacPC, GatePC, CheckPC, EndPC, Sound, Own, Wrote, Unlock
<1>12. ASSUME NEW p \in Proc, RmPid(p) PROVE Sound(l)'
  BY <1>0, <1>12 DEF TypeOK, Control, ControlOf, MacPC, GatePC, CheckPC, EndPC, Sound, Own, Wrote, RmPid, Victim
<1>13. ASSUME NEW p \in Proc, Rmdir(p) PROVE Sound(l)'
  BY <1>0, <1>13 DEF TypeOK, Control, ControlOf, MacPC, GatePC, CheckPC, EndPC, Sound, Own, Wrote, Rmdir, AfterCheck, Victim
<1>14. ASSUME NEW p \in Proc, Exit(p) PROVE Sound(l)'
  BY <1>0, <1>14 DEF TypeOK, Control, ControlOf, MacPC, GatePC, CheckPC, EndPC, Sound, Own, Wrote, Exit, Die, BeingJudged
<1>15. ASSUME NEW p \in Proc, StartGate(p) PROVE Sound(l)'
  BY <1>0, <1>15 DEF TypeOK, Control, ControlOf, MacPC, GatePC, CheckPC, EndPC, Sound, Own, Wrote, StartGate
<1>16. ASSUME NEW p \in Proc, Crash(p) PROVE Sound(l)'
  BY <1>0, <1>16 DEF TypeOK, Control, ControlOf, MacPC, GatePC, CheckPC, EndPC, Sound, Own, Wrote, Crash, Die, BeingJudged
<1>17. ASSUME NEW p \in Proc, NEW m \in Mac, StartMac(p, m) PROVE Sound(l)'
  BY <1>0, <1>17 DEF TypeOK, Control, ControlOf, MacPC, GatePC, CheckPC, EndPC, Sound, Own, Wrote, StartMac
<1>18. ASSUME NEW p \in Proc, NEW q \in Proc, Fork(p, q) PROVE Sound(l)'
  BY <1>0, <1>18 DEF TypeOK, Control, ControlOf, MacPC, GatePC, CheckPC, EndPC, Sound, Own, Wrote, Fork
<1>19. ASSUME NEW k \in Lock, Age(k) PROVE Sound(l)'
  BY <1>0, <1>19 DEF TypeOK, Control, ControlOf, MacPC, GatePC, CheckPC, EndPC, Sound, Own, Wrote, Age, BeingJudged
<1>20. CASE UNCHANGED vars
  BY <1>0, <1>20 DEF TypeOK, Control, ControlOf, MacPC, GatePC, CheckPC, EndPC, Sound, Own, Wrote, vars
<1> QED
  BY <1>1, <1>2, <1>3, <1>4, <1>5, <1>6, <1>7, <1>8, <1>9, <1>10, <1>11, <1>12, <1>13, <1>14, <1>15, <1>16, <1>17, <1>18, <1>19, <1>20 DEF Next, Step

\* A script that was passed the gate lives only while the holder waits for it.
LEMMA ForkStep ==
  ASSUME TypeOK, Control, LockInv, ForkInv, [Next]_vars
  PROVE  ForkInv'
<1> USE LockAssumption DEF Lock, Goto, NextRound, local, fs
<1>1. ASSUME NEW p \in Proc, Step(p) \/ Crash(p) PROVE ForkInv'
  <2>1. CASE Exit(p) \/ Crash(p)
    BY <2>1 DEF TypeOK, Control, ControlOf, GatePC, ForkInv, Own, Exit, Crash, Die
  <2>2. CASE Unlock(p)
    BY <2>2 DEF TypeOK, ForkInv, Unlock
  <2>3. CASE Step(p) /\ ~Exit(p) /\ ~Unlock(p)
    <3>1. pc[p] # "g_cs" /\ UNCHANGED <<suspect, alive, par, env>>
      BY <2>3 DEF Step, MacGate1, MacMkdir, Mkdir, MacPid, MacGate2, GateMkdir, GatePid, GateScan, GateSweep, ReadHolder, Judge, RmPid, Rmdir
    <3>2. \A q \in Proc \ {p} : pc'[q] = pc[q]
      BY <2>3 DEF TypeOK, Step, MacGate1, MacMkdir, Mkdir, SkipCheck, EnterCheck, MacPid, MacGate2, GateMkdir, GatePid, GateScan, GateSweep, ReadHolder, Judge, AfterCheck, RmPid, Rmdir
    <3> QED BY <3>1, <3>2 DEF TypeOK, ForkInv
  <2> QED BY <1>1, <2>1, <2>2, <2>3
<1>2. ASSUME NEW p \in Proc, NEW m \in Mac, StartMac(p, m) PROVE ForkInv'
  BY <1>2 DEF TypeOK, ForkInv, StartMac
<1>3. ASSUME NEW p \in Proc, StartGate(p) PROVE ForkInv'
  BY <1>3 DEF TypeOK, ForkInv, StartGate
<1>4. ASSUME NEW p \in Proc, NEW q \in Proc, Fork(p, q) PROVE ForkInv'
  BY <1>4 DEF TypeOK, ForkInv, Fork
<1>5. ASSUME NEW k \in Lock, Age(k) PROVE ForkInv'
  BY <1>5 DEF TypeOK, ForkInv, Age
<1>6. CASE UNCHANGED vars
  BY <1>6 DEF ForkInv, vars
<1> QED BY <1>1, <1>2, <1>3, <1>4, <1>5, <1>6 DEF Next

\* The gate and the per-MAC sections stay apart: the scan sees the directory of
\* a script that is inside, and the second look of one that is not sees the gate.
LEMMA DrainStep ==
  ASSUME TypeOK, Control, LockInv, GateDrains, [Next]_vars
  PROVE  GateDrains'
<1> USE LockAssumption DEF Lock, Goto, NextRound, local, fs
<1> SUFFICES ASSUME NEW p \in Proc, NEW q \in Proc, NEW m \in Mac,
                    InCS(p, Gate)', InCS(q, m)', ~suspect'[Gate], ~suspect'[m]
             PROVE  env'[q] = p
  BY DEF GateDrains
<1>1. ASSUME NEW r \in Proc, MacGate2(r) PROVE env'[q] = p
  <2>1. InCS(p, Gate) /\ ~suspect[Gate] /\ ~suspect[m] /\ env' = env
    BY <1>1 DEF MacGate2, TypeOK, InCS
  <2>2. dir[Gate] /\ pidf[Gate] = p
    BY <2>1 DEF LockInv, Sound, Own, InCS, Wrote
  <2>3. CASE r = q
    BY <1>1, <2>1, <2>2, <2>3 DEF MacGate2, TypeOK, InCS, Blocked, GateHeldByCaller
  <2>4. CASE r # q
    BY <1>1, <2>1, <2>4 DEF MacGate2, TypeOK, InCS, GateDrains
  <2> QED BY <2>3, <2>4
<1>2. ASSUME NEW r \in Proc, GateScan(r) PROVE env'[q] = p
  <2>1. InCS(q, m) /\ ~suspect[Gate] /\ ~suspect[m] /\ env' = env
    BY <1>2 DEF GateScan, TypeOK, InCS
  <2>2. dir[m]
    BY <2>1 DEF LockInv, Sound, Own, InCS
  <2> QED BY <1>2, <2>1, <2>2 DEF GateScan, TypeOK, InCS, GateDrains
<1>3. ASSUME NEW r \in Proc, Fork(r, q) PROVE env'[q] = p
  BY <1>3 DEF Fork, TypeOK, InCS
<1>4. ASSUME InCS(p, Gate), InCS(q, m), env'[q] = env[q], ~suspect[Gate], ~suspect[m]
      PROVE  env'[q] = p
  BY <1>4 DEF GateDrains
<1>5. ASSUME NEW r \in Proc, \/ Step(r) /\ ~MacGate2(r) /\ ~GateScan(r)
                             \/ Crash(r) \/ StartGate(r) \/ \E k \in Mac : StartMac(r, k)
      PROVE  InCS(p, Gate) /\ InCS(q, m) /\ env' = env /\ ~suspect[Gate] /\ ~suspect[m]
  <2>1. env' = env /\ ~suspect[Gate] /\ ~suspect[m]
    BY <1>5 DEF TypeOK, Step, MacGate1, MacMkdir, Mkdir, MacPid, GateMkdir, GatePid, GateSweep, ReadHolder, Judge, Unlock, RmPid, Rmdir, Exit, Crash, Die, StartMac, StartGate
  <2>2. \A c \in Proc : pc'[c] \in {"m_cs", "g_cs"} => pc'[c] = pc[c] /\ tgt'[c] = tgt[c]
    BY <1>5 DEF TypeOK, Step, MacGate1, MacMkdir, Mkdir, SkipCheck, EnterCheck, MacPid, GateMkdir, GatePid, GateSweep, ReadHolder, Judge, AfterCheck, Unlock, RmPid, Rmdir, Exit, Crash, Die, StartMac, StartGate
  <2> QED BY <2>1, <2>2 DEF InCS
<1>6. ASSUME NEW r \in Proc, NEW c \in Proc, c # q, Fork(r, c) PROVE env'[q] = p
  BY <1>6 DEF Fork, TypeOK, InCS, GateDrains
<1>7. ASSUME NEW k \in Lock, Age(k) PROVE env'[q] = p
  BY <1>7 DEF Age, TypeOK, InCS, GateDrains
<1>8. CASE UNCHANGED vars
  BY <1>8 DEF vars, InCS, GateDrains
<1> QED BY <1>1, <1>2, <1>3, <1>4, <1>5, <1>6, <1>7, <1>8 DEF Next

-----------------------------------------------------------------------------
\* Inv holds in every state of the scripts that use the lock.
THEOREM Invariance == Spec => []Inv
<1>1. Init => Inv
  BY LockAssumption DEF Init, Inv, TypeOK, Control, ControlOf, RoundsOf, MacPC, GatePC, CheckPC, EndPC, PC, LockInv, Sound, Own, GateDrains, InCS, ForkInv, Lock, Mine, Checks
<1>2. Inv /\ [Next]_vars => Inv'
  <2> SUFFICES ASSUME Inv, [Next]_vars PROVE Inv'
    OBVIOUS
  <2>1. TypeOK' /\ Control'
    BY TypeStep DEF Inv
  <2>2. LockInv'
    BY SoundStep DEF Inv, LockInv
  <2>3. ForkInv'
    BY ForkStep DEF Inv
  <2>4. GateDrains'
    BY DrainStep DEF Inv
  <2> QED BY <2>1, <2>2, <2>3, <2>4 DEF Inv
<1> QED BY <1>1, <1>2, PTL DEF Spec

\* TypeOK: every variable of the lock model keeps its type; in particular no
\* loop counter passes _LOCK_TIMEOUT_ROUNDS.
THEOREM TypeCorrect == Spec => []TypeOK
<1>1. Inv => TypeOK
  BY DEF Inv
<1> QED BY <1>1, Invariance, PTL

\* SingleWriter: two scripts are never inside the same lock that is not suspect.
THEOREM Exclusion == Spec => []SingleWriter
<1>1. Inv => SingleWriter
  BY LockAssumption DEF Inv, LockInv, Sound, SingleWriter, InCS, Own, Lock
<1> QED BY <1>1, Invariance, PTL

\* GateDrains: beside a gate holder only the scripts it passed the gate to are
\* inside a per-MAC lock.
THEOREM GateExclusion == Spec => []GateDrains
<1>1. Inv => GateDrains
  BY DEF Inv
<1> QED BY <1>1, Invariance, PTL

\* NoOrphan: a directory that is there has a live owner, unless it is suspect.
THEOREM NoLeak == Spec => []NoOrphan
<1>1. Inv => NoOrphan
  BY DEF Inv, LockInv, Sound, NoOrphan, Control, ControlOf, EndPC, Own
<1> QED BY <1>1, Invariance, PTL

\* NeverSelfBlocked: HNC_GATE_HELD always opens the gate it was exported for.
THEOREM HandOff == Spec => []NeverSelfBlocked
<1>1. Inv => NeverSelfBlocked
  <2> SUFFICES ASSUME Inv, NEW q \in Proc, alive[q], env[q] # None, ~suspect[Gate]
               PROVE  ~Blocked(q)
    BY DEF NeverSelfBlocked
  <2>1. env[q] \in Proc /\ pc[env[q]] = "g_cs" /\ tgt[env[q]] = Gate
    BY DEF Inv, TypeOK, ForkInv, Control, ControlOf, GatePC
  <2>2. dir[Gate] /\ pidf[Gate] = env[q]
    BY <2>1 DEF Inv, LockInv, Sound, Own, Wrote, Lock
  <2> QED BY <2>2 DEF Blocked, GateHeldByCaller
<1> QED BY <1>1, Invariance, PTL

=============================================================================
