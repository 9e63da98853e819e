----------------------------- MODULE DpidCapture ----------------------------
(* hnc_dpid: the guard against crash loops at its start, and the capture loop *)
(* that follows the hotspot interface (no shared state).                     *)
EXTENDS Integers, Sequences, FiniteSets
-----------------------------------------------------------------------------
(***************************************************************************)
(* The crash-loop guard of hnc_dpid itself (cmd/dpid/main.go): every start *)
(* looks at run/dpid.crashflag first; one that finds too many recent lines *)
(* only idles, and gives up after a while so that the launcher starts it   *)
(* again.  Any other probes the device and only then appends its wall-     *)
(* clock time, which may fail.  The file is removed by a clean exit, by a  *)
(* failed capture and by a capture that stayed healthy.                    *)
(*                                                                         *)
(* Times are kept as ages, so that the clock needs no bound: a line of the *)
(* file has the age wall clock - line, which a clock that is set back      *)
(* makes smaller, below zero too.  A line too old to count again is left   *)
(* out, as is the file's text.                                             *)
(***************************************************************************)
CONSTANTS CrashWindow,      \* maxCrashesWindow (60 s)
          CrashesAllowed,   \* maxCrashesAllowed (3)
          HealthyAfter,     \* 5 min
          IdleFor,          \* 30 min
          StepBack,         \* how far the wall clock is set back
          MaxStepsBack      \* bound: times it is

ASSUME StartAssumption ==
    /\ {CrashWindow, HealthyAfter, IdleFor, StepBack, MaxStepsBack} \subseteq Nat
    /\ CrashesAllowed \in Nat \ {0}

VARIABLES
    crashflag,  \* run/dpid.crashflag: ages of its lines by the wall clock
    dmode,      \* "down", "probing", "capture", "blind", "crash_loop"
    elapsed,    \* monotonic time in this attempt, or in the idling
    backs,      \* times the wall clock was set back
    starts      \* history: true ages of the starts that wrote their line, since the last removal

startVars == <<crashflag, dmode, elapsed, backs, starts>>

StartInit == crashflag = <<>> /\ dmode = "down" /\ elapsed = 0 /\ backs = 0 /\ starts = <<>>

RecentLine(age) == age <= CrashWindow
NoLoop == Cardinality({i \in DOMAIN crashflag : RecentLine(crashflag[i])}) < CrashesAllowed

\* armCrashFlag appends the time of this start.
Arm == crashflag' = Append(crashflag, 0) /\ starts' = Append(starts, 0)

\* The launcher starts dpid again: main up to checkCrashLoop.
StartDpid ==
    /\ dmode = "down" /\ elapsed' = 0
    /\ dmode' = IF NoLoop THEN "probing" ELSE "crash_loop"
    /\ UNCHANGED <<crashflag, backs, starts>>

\* After probe.Run, decideMode and signal.Notify: armCrashFlag, whose error is ignored.
ArmDpid ==
    /\ dmode = "probing" /\ dmode' = "capture" /\ elapsed' = 0 /\ UNCHANGED backs
    /\ \/ Arm
       \/ UNCHANGED <<crashflag, starts>>

\* Until it listens to signals, any of them ends dpid this way too.
DpidCrash == /\ dmode \in {"probing", "capture", "blind"} /\ dmode' = "down"
         /\ UNCHANGED <<crashflag, elapsed, backs, starts>>

ClearFlag == crashflag' = <<>> /\ starts' = <<>>

\* The goroutine of an attempt that has run for five minutes.
Healthy == /\ dmode = "capture" /\ elapsed >= HealthyAfter /\ ClearFlag
           /\ UNCHANGED <<dmode, elapsed, backs>>

\* runCapture starts another attempt after a rebind.
NewAttempt == /\ dmode = "capture" /\ elapsed' = 0 /\ UNCHANGED <<crashflag, dmode, backs, starts>>

\* runCapture fails for good: blind, flag removed, idleWithFlush.
CaptureFails == /\ dmode = "capture" /\ dmode' = "blind" /\ ClearFlag /\ UNCHANGED <<elapsed, backs>>

\* A signal: a clean exit removes the flag, idleUntilSignal returns without.
SignalExit == /\ dmode \in {"capture", "blind", "crash_loop"} /\ dmode' = "down"
              /\ IF dmode = "crash_loop" THEN UNCHANGED <<crashflag, starts>> ELSE ClearFlag
              /\ UNCHANGED <<elapsed, backs>>

\* idleUntilSignal's deadline.
IdleEnds == /\ dmode = "crash_loop" /\ elapsed >= IdleFor
            /\ dmode' = "down" /\ UNCHANGED <<crashflag, elapsed, backs, starts>>

Older(s) == [i \in DOMAIN s |-> s[i] + 1]
\* The list without the lines at its front that are older than top.
AgedOut(s, top) == LET gone == {i \in DOMAIN s : \A j \in 1 .. i : s[j] > top}
                   IN  SubSeq(s, Cardinality(gone) + 1, Len(s))
\* The age at which a line counts no more, however far the clock is still set back.
LastCounts == CrashWindow + (MaxStepsBack - backs) * StepBack
Later == /\ crashflag' = AgedOut(Older(crashflag), LastCounts)
         /\ starts' = AgedOut(Older(starts), CrashWindow)
         /\ elapsed' = IF elapsed < HealthyAfter + IdleFor THEN elapsed + 1 ELSE elapsed
         /\ UNCHANGED <<dmode, backs>>

\* The wall clock is set back.
ClockBack == /\ backs < MaxStepsBack /\ backs' = backs + 1
             /\ crashflag' = [i \in DOMAIN crashflag |-> crashflag[i] - StepBack]
             /\ UNCHANGED <<dmode, elapsed, starts>>

StartNext == StartDpid \/ ArmDpid \/ DpidCrash \/ Healthy \/ NewAttempt \/ CaptureFails \/ SignalExit
             \/ IdleEnds \/ Later \/ ClockBack

\* Time passes, the launcher restarts what ended, timers fire.
StartFairness == /\ WF_startVars(Later) /\ WF_startVars(StartDpid) /\ WF_startVars(ArmDpid)
                 /\ WF_startVars(IdleEnds)
StartSpec == StartInit /\ [][StartNext]_startVars /\ StartFairness

---------------------------------------------------------------------------
StartTypeOK ==
    /\ dmode \in {"down", "probing", "capture", "blind", "crash_loop"} /\ backs \in 0 .. MaxStepsBack
    /\ elapsed \in 0 .. HealthyAfter + IdleFor
    /\ crashflag \in Seq(Int) /\ starts \in Seq(0 .. CrashWindow)

\* However dpid crashes and the launcher restarts it, and even when the wall
\* clock is set back, at most CrashesAllowed starts that wrote their line fall into
\* any window unless the flag was removed in between: the look at the flag and the
\* line are steps apart (checkCrashLoop, armCrashFlag).  A start that dies before its
\* line, or whose line cannot be written, is in no count of dpid's; only the pauses
\* of the launcher bound those.
CrashBound == Len(starts) <= CrashesAllowed

\* "a transient loop self-heals": dpid is not kept in crash_loop mode, restart after
\* restart; after the idling a start passes the guard again, future lines of the flag age too.
SelfHeals == []<>(dmode \notin {"down", "crash_loop"})
-----------------------------------------------------------------------------
(***************************************************************************)
(* The capture loop of hnc_dpid (cmd/dpid/main.go runCapture), the         *)
(* goroutine that follows the hotspot interface (rebindCheckLoop) and the  *)
(* capture handle they share (capture/rawsocket.go).                       *)
(*                                                                         *)
(* runCapture opens a handle on iface and runs it; every handle has its    *)
(* own rebinder, which is told to stop when the handle is closed but may   *)
(* be in the middle of a round then.  Rebind installs a new socket and     *)
(* retires the old one until Close; Run keeps the socket it read until     *)
(* recvfrom returns (at most 500 ms later) and then notices the swap.      *)
(*                                                                         *)
(* External: an interface is absent (index 0) or present with the index of *)
(* its creation; hot is the hotspot interface of iface_detect.json.        *)
(* Data: packets, statistics, the flush goroutines and the retry delays    *)
(* are left out; a condition on silence (3 minutes without a packet while  *)
(* rx_bytes grows) may hold whenever the socket is bound.                  *)
(***************************************************************************)
CONSTANTS Iface,
          MaxAttempts,  \* bound: handles opened
          MaxNet,       \* bound: changes of the interfaces
          MaxSilent,    \* bound: rebinds because of silence
          MaxFatal      \* bound: open errors that are not recoverable

ASSUME CaptureAssumption == {MaxAttempts, MaxNet, MaxSilent, MaxFatal} \subseteq Nat

VARIABLES
    nic, hot,       \* external: [Iface -> index], the hotspot interface
    main,           \* where runCapture is
    ifc,            \* runCapture's iface
    att,            \* number of the current handle
    hd,             \* the handles: [ifname, ifindex, fd, retired, rebound, closed]
    rb,             \* their rebinders: "none", "tick", "check", "bind", "gone"
    target,         \* what a rebinder in "bind" will bind to
    fds,            \* the sockets made so far: [name, index, open]
    held,           \* the socket Run is reading from
    capCnt          \* bounds: [net, silent, fatal]

captureVars == <<nic, hot, main, ifc, att, hd, rb, target, fds, held, capCnt>>

NoFd == 0
Attempts == 1 .. MaxAttempts
NoHandle == [ifname |-> CHOOSE i \in Iface : TRUE, ifindex |-> 0, fd |-> NoFd,
             retired |-> {}, rebound |-> FALSE, closed |-> FALSE]
NewSocket(n) == Append(fds, [name |-> n, index |-> nic[n], open |-> TRUE])

CaptureInit ==
    /\ hot \in Iface /\ nic = [i \in Iface |-> IF i = hot THEN 1 ELSE 0]
    /\ main = "open" /\ ifc = hot /\ att = 0
    /\ hd = [a \in Attempts |-> NoHandle] /\ rb = [a \in Attempts |-> "none"]
    /\ target = [a \in Attempts |-> hot]
    /\ fds = <<>> /\ held = NoFd /\ capCnt = [net |-> 0, silent |-> 0, fatal |-> 0]

---------------------------------------------------------------------------
\* The interfaces.  A device comes with a new index; the hotspot moves to an
\* interface that is there.
NetChange ==
    /\ capCnt.net < MaxNet /\ capCnt' = [capCnt EXCEPT !.net = @ + 1]
    /\ \/ \E i \in Iface : nic[i] # 0 /\ nic' = [nic EXCEPT ![i] = 0] /\ UNCHANGED hot
       \/ \E i \in Iface : nic[i] = 0 /\ nic' = [nic EXCEPT ![i] = capCnt.net + 2] /\ hot' = i
       \/ \E i \in Iface \ {hot} : nic[i] # 0 /\ hot' = i /\ UNCHANGED nic
    /\ UNCHANGED <<main, ifc, att, hd, rb, target, fds, held>>

---------------------------------------------------------------------------
\* runCapture.

\* capture.Open succeeds: a handle with its socket, and its rebinder.
OpenCapture ==
    /\ main = "open" /\ nic[ifc] # 0 /\ att < MaxAttempts
    /\ att' = att + 1 /\ fds' = NewSocket(ifc) /\ held' = Len(fds')
    /\ hd' = [hd EXCEPT ![att'] = [ifname |-> ifc, ifindex |-> nic[ifc], fd |-> Len(fds'),
                                   retired |-> {}, rebound |-> FALSE, closed |-> FALSE]]
    /\ rb' = [rb EXCEPT ![att'] = "tick"]
    /\ main' = "run" /\ UNCHANGED <<nic, hot, ifc, target, capCnt>>

\* The interface is not there: blind, back off, again.
OpenFails ==
    /\ main = "open" /\ nic[ifc] = 0
    /\ main' = "backoff" /\ UNCHANGED <<nic, hot, ifc, att, hd, rb, target, fds, held, capCnt>>

\* Any other error ends runCapture: main goes blind until it is told to stop.
OpenFatal ==
    /\ main = "open" /\ capCnt.fatal < MaxFatal
    /\ main' = "blind" /\ capCnt' = [capCnt EXCEPT !.fatal = @ + 1]
    /\ UNCHANGED <<nic, hot, ifc, att, hd, rb, target, fds, held>>

RetryOpen ==
    /\ main \in {"backoff", "pause"} /\ main' = "open"
    /\ UNCHANGED <<nic, hot, ifc, att, hd, rb, target, fds, held, capCnt>>

\* attemptCancel, rebindCancel, Handle.Close: every socket of the handle.
CloseSockets(a, f) == [s \in DOMAIN f |->
    [f[s] EXCEPT !.open = @ /\ s # hd[a].fd /\ s \notin hd[a].retired]]
CloseHandle ==
    /\ fds' = CloseSockets(att, fds)
    /\ hd' = [hd EXCEPT ![att].fd = NoFd, ![att].retired = {}, ![att].closed = TRUE]
    /\ held' = NoFd

\* Run returns ErrRebound: retry on the interface of the handle.
RunRebound ==
    /\ main = "run" /\ hd[att].rebound /\ hd[att].fd # held
    /\ CloseHandle /\ ifc' = hd[att].ifname
    /\ main' = "pause" /\ UNCHANGED <<nic, hot, att, rb, target, capCnt>>

Gone(s) == nic[fds[s].name] # fds[s].index

\* Run returns ENETDOWN or ENODEV: blind, back off, retry on the same name.
RunFails ==
    /\ main = "run" /\ hd[att].fd = held /\ Gone(held)
    /\ CloseHandle /\ main' = "backoff"
    /\ UNCHANGED <<nic, hot, ifc, att, rb, target, capCnt>>

\* SIGTERM: from a sleep, or when recvfrom returns.
StopCapture ==
    /\ main \in {"backoff", "pause", "run", "blind"}
    /\ main' = "done" /\ IF main = "run" THEN CloseHandle ELSE UNCHANGED <<fds, hd, held>>
    /\ UNCHANGED <<nic, hot, ifc, att, rb, target, capCnt>>

---------------------------------------------------------------------------
\* rebindCheckLoop of handle a.

Cancelled(a) == hd[a].closed

RebinderTick(a) ==
    /\ rb[a] = "tick" /\ ~Cancelled(a) /\ rb' = [rb EXCEPT ![a] = "check"]
    /\ UNCHANGED <<nic, hot, main, ifc, att, hd, target, fds, held, capCnt>>

RebinderExit(a) ==
    /\ rb[a] = "tick" /\ Cancelled(a) /\ rb' = [rb EXCEPT ![a] = "gone"]
    /\ UNCHANGED <<nic, hot, main, ifc, att, hd, target, fds, held, capCnt>>

\* resolveCurrentIface: what iface_detect.json names now.
CurrentIface == hot
\* A round: compare the hotspot interface and its index with the handle's.
Moved(a) == CurrentIface # hd[a].ifname \/ nic[CurrentIface] # hd[a].ifindex
RebinderCheck(a) ==
    /\ rb[a] = "check"
    /\ \/ /\ nic[CurrentIface] # 0 /\ Moved(a)
          /\ rb' = [rb EXCEPT ![a] = "bind"] /\ target' = [target EXCEPT ![a] = CurrentIface]
          /\ UNCHANGED capCnt
       \/ /\ nic[CurrentIface] # 0 /\ ~Moved(a) /\ capCnt.silent < MaxSilent
          /\ rb' = [rb EXCEPT ![a] = "bind"] /\ target' = [target EXCEPT ![a] = CurrentIface]
          /\ capCnt' = [capCnt EXCEPT !.silent = @ + 1]
       \/ /\ nic[CurrentIface] = 0 \/ ~Moved(a)
          /\ rb' = [rb EXCEPT ![a] = "tick"] /\ UNCHANGED <<target, capCnt>>
    /\ UNCHANGED <<nic, hot, main, ifc, att, hd, fds, held>>

\* Mutant: the old socket is closed at once, in use or not.
SwapAndClose(a, f) == [s \in DOMAIN f |-> [f[s] EXCEPT !.open = @ /\ s # hd[a].fd]]

\* Handle.Rebind: the new socket is in, the old one is retired and stays open.
Swap(a, f) == f

RebinderBind(a) ==
    /\ rb[a] = "bind" /\ nic[target[a]] # 0
    /\ fds' = Swap(a, NewSocket(target[a]))
    /\ hd' = [hd EXCEPT ![a] = [ifname |-> target[a], ifindex |-> nic[target[a]], fd |-> Len(fds'),
                 retired |-> hd[a].retired \union ({hd[a].fd} \ {NoFd}),
                 rebound |-> TRUE, closed |-> hd[a].closed]]
    /\ rb' = [rb EXCEPT ![a] = "tick"]
    /\ UNCHANGED <<nic, hot, main, ifc, att, target, held, capCnt>>

RebinderFails(a) ==
    /\ rb[a] = "bind" /\ nic[target[a]] = 0 /\ rb' = [rb EXCEPT ![a] = "tick"]
    /\ UNCHANGED <<nic, hot, main, ifc, att, hd, target, fds, held, capCnt>>

Rebinder(a) == RebinderTick(a) \/ RebinderExit(a) \/ RebinderCheck(a) \/ RebinderBind(a)
               \/ RebinderFails(a)
CaptureLoop == OpenCapture \/ OpenFails \/ RetryOpen \/ RunRebound \/ RunFails
CaptureNext == CaptureLoop \/ OpenFatal \/ StopCapture \/ NetChange
               \/ \E a \in Attempts : Rebinder(a)

\* The loop and every rebinder keep running; an interface need not change,
\* an open need not fail and nobody need stop dpid.
CaptureFairness == WF_captureVars(CaptureLoop) /\ \A a \in Attempts : WF_captureVars(Rebinder(a))
CaptureSpec == CaptureInit /\ [][CaptureNext]_captureVars /\ CaptureFairness

---------------------------------------------------------------------------
CaptureTypeOK ==
    /\ nic \in [Iface -> 0 .. MaxNet + 1] /\ {hot, ifc} \subseteq Iface
    /\ main \in {"open", "backoff", "pause", "run", "blind", "done"}
    /\ att \in 0 .. MaxAttempts /\ held \in 0 .. Len(fds)
    /\ rb \in [Attempts -> {"none", "tick", "check", "bind", "gone"}]
    /\ target \in [Attempts -> Iface]
    /\ \A s \in DOMAIN fds : fds[s].name \in Iface /\ fds[s].index \in 1 .. MaxNet + 1
    /\ \A a \in Attempts : hd[a].fd \in 0 .. Len(fds) /\ hd[a].retired \subseteq DOMAIN fds

\* Run never reads from a socket that is closed: between taking h.fd and the
\* end of recvfrom, a Rebind may retire it but not close it (whose number the
\* process could give to another file).
HeldOpen == main = "run" => fds[held].open

\* Once the interfaces rest, dpid captures on the hotspot interface as it is
\* now, unless the interface it last used is gone (next property), it met a
\* fatal error or it was stopped: a name or an index that changed, a swap the
\* loop has not seen and a rebinder cut short do not leave it on an old socket.
Capturing == main = "run" /\ fds[held].name = hot /\ fds[held].index = nic[hot]
CapturingOrStranded == Capturing \/ nic[hot] = 0 \/ nic[ifc] = 0 \/ main \in {"blind", "done"}
FollowsOrStranded == <>[]CapturingOrStranded

\* NOT kept: CHANGELOG.md 1294 "fixes: the hotspot interface switches and DPI
\* goes blind and never heals by itself".  The rebinder lives only while a
\* handle is open; with the old interface gone, runCapture retries its old
\* name for ever.
FollowsHotspot ==
    <>[](Capturing \/ nic[hot] = 0 \/ main \in {"blind", "done"})

\* NOT kept: Close leaves no socket open.  A rebinder in the middle of a round
\* installs its socket in the handle that has just been closed.
NoSocketLeft == \A a \in Attempts : hd[a].closed /\ rb[a] = "gone" => hd[a].fd = NoFd
=============================================================================
