------------------------------ MODULE MCSettles ------------------------------
(***************************************************************************)
(* The components of hnc_httpd and hnc_dpid that must come to rest or to   *)
(* life again, side by side and without shared state: a behaviour is about *)
(* one of them, part, and the others stand still.  One state graph then    *)
(* answers for all of them what is always kept and what is at last         *)
(* reached, each under the fairness of its own goroutines and scripts.     *)
(***************************************************************************)
EXTENDS RemoteAccess, DnsTakeover, ActionGate, LimitCtl, AppTime,
        AppLimits, V6Sync, DpidCapture, SelfCapture, HelloReasm

\* Hellos that fit and one that is too long, one stream that wraps its sequence numbers.
MCTLen == [c \in {"c", "d", "big"} |-> IF c = "big" THEN 6 ELSE 5]
MCIsn == [c \in {"c", "d", "big"} |-> IF c = "c" THEN 14 ELSE 3]
MCQHello == [u \in {"u", "x", "big"} |->
               IF u = "u" THEN 4 ELSE IF u = "big" THEN 7 ELSE 0]
\* One caller posts every kind of request, the other device actions.
MCPostKinds == [c \in {"t", "u"} |-> IF c = "t" THEN Kinds ELSE {"device"}]

VARIABLE part    \* the component this behaviour is about

\* The variables of a component that does not take part.
TokOff ==
  /\ mem = 0 /\ lastRead = 0 /\ dirty = 0 /\ tokDisk = 0 /\ mtime = 0
  /\ tokMarker = 0 /\ tokWorking = 0 /\ revokeMu = 0 /\ todo = 0 /\ up = 0
  /\ tpc = 0 /\ loc = 0 /\ tokFaults = 0 /\ promise = 0 /\ cleared = 0
RemoteOff ==
  /\ enabled = 0 /\ want = 0 /\ https = 0 /\ gen = 0 /\ sockets = 0
  /\ exited = 0 /\ rpc = 0 /\ toggles = 0 /\ portMishaps = 0
DnsOff ==
  /\ conf = 0 /\ dnsHot = 0 /\ dnsWorking = 0 /\ rules = 0 /\ httpd = 0
  /\ fwd = 0 /\ upstream = 0 /\ upAge = 0 /\ active = 0 /\ ruleSig = 0
  /\ retry = 0 /\ backoff = 0 /\ health = 0 /\ tick = 0 /\ stuck = 0
  /\ changes = 0 /\ dnsFaults = 0
ActOff ==
  /\ actClk = 0 /\ entries = 0 /\ writes = 0 /\ posted = 0 /\ strays = 0
  /\ simMem = 0 /\ simFlag = 0 /\ simFile = 0 /\ unsaved = 0 /\ actCnt = 0
LimitOff ==
  /\ rule = 0 /\ manual = 0 /\ online = 0 /\ window = 0 /\ quota = 0
  /\ counter = 0 /\ ctl = 0 /\ disk = 0 /\ round = 0 /\ period = 0
  /\ limSent = 0 /\ limUnsaved = 0 /\ halfDone = 0 /\ mixed = 0 /\ edits = 0
  /\ mishaps = 0
AppOff ==
  /\ timeToday = 0 /\ trusted = 0 /\ limited = 0 /\ item = 0 /\ usage = 0
  /\ dayFile = 0 /\ flat = 0 /\ kernel = 0 /\ sentDate = 0 /\ sent = 0
  /\ alertFile = 0 /\ loop = 0 /\ used = 0 /\ alerts = 0 /\ missed = 0
  /\ repeats = 0 /\ ctls = 0 /\ hitches = 0
LimOff ==
  /\ limJson = 0 /\ limFlat = 0 /\ inclShared = 0 /\ save = 0 /\ reply = 0
  /\ trigger = 0 /\ marker = 0 /\ ipApp = 0 /\ ipAge = 0 /\ mapJson = 0
  /\ mapFlat = 0 /\ revApp = 0 /\ devOn = 0 /\ hotspotOn = 0 /\ script = 0
  /\ taken = 0 /\ asOf = 0 /\ enforced = 0 /\ limCnt = 0
V6Off ==
  /\ addrs = 0 /\ marked = 0 /\ filt = 0 /\ snap6 = 0 /\ markOf = 0 /\ nlq = 0
  /\ nlLost = 0 /\ sub6 = 0 /\ known6 = 0 /\ pend6 = 0 /\ full6 = 0 /\ kick6 = 0
  /\ qloop = 0 /\ sh6 = 0 /\ fill6 = 0 /\ missed6 = 0 /\ torn6 = 0 /\ v6Cnt = 0
StartOff ==
  /\ crashflag = 0 /\ dmode = 0 /\ elapsed = 0 /\ backs = 0 /\ starts = 0
CaptureOff ==
  /\ nic = 0 /\ hot = 0 /\ main = 0 /\ ifc = 0 /\ att = 0 /\ hd = 0 /\ rb = 0
  /\ target = 0 /\ fds = 0 /\ held = 0 /\ capCnt = 0
SelfOff ==
  /\ selfFlag = 0 /\ cands = 0 /\ caps = 0 /\ sampler = 0 /\ chan = 0 /\ wr = 0
  /\ files = 0 /\ today = 0 /\ selfCnt = 0

Parts == {"tokens", "remote", "dns", "actions", "limits", "apptime",
          "applimits", "v6", "start", "capture", "self", "tls", "quic"}

Init ==
  /\ part \in Parts
  /\ IF part = "tokens" THEN TokInit ELSE TokOff
  /\ IF part = "remote" THEN RemoteInit ELSE RemoteOff
  /\ IF part = "dns" THEN DnsInit ELSE DnsOff
  /\ IF part = "actions" THEN ActInit ELSE ActOff
  /\ IF part = "limits" THEN LimitInit ELSE LimitOff
  /\ IF part = "apptime" THEN AppInit ELSE AppOff
  /\ IF part = "applimits" THEN LimInit ELSE LimOff
  /\ IF part = "v6" THEN V6Init ELSE V6Off
  /\ IF part = "start" THEN StartInit ELSE StartOff
  /\ IF part = "capture" THEN CaptureInit ELSE CaptureOff
  /\ IF part = "self" THEN SelfInit ELSE SelfOff
  /\ TlsInit
  /\ QuicInit

\* A step of component p; all the others stand still.
Only(p) ==
  /\ part = p /\ UNCHANGED part
  /\ p # "tokens" => UNCHANGED tokVars
  /\ p # "remote" => UNCHANGED remoteVars
  /\ p # "dns" => UNCHANGED dnsVars
  /\ p # "actions" => UNCHANGED actVars
  /\ p # "limits" => UNCHANGED limitVars
  /\ p # "apptime" => UNCHANGED appVars
  /\ p # "applimits" => UNCHANGED limVars
  /\ p # "v6" => UNCHANGED v6Vars
  /\ p # "start" => UNCHANGED startVars
  /\ p # "capture" => UNCHANGED captureVars
  /\ p # "self" => UNCHANGED selfVars
  /\ p # "tls" => UNCHANGED tlsVars
  /\ p # "quic" => UNCHANGED quicVars

Next ==
  \/ Only("tokens") /\ TokNext
  \/ Only("remote") /\ RemoteNext
  \/ Only("dns") /\ DnsNext
  \/ Only("actions") /\ ActNext
  \/ Only("limits") /\ LimitNext
  \/ Only("apptime") /\ AppNext
  \/ Only("applimits") /\ LimNext
  \/ Only("v6") /\ V6Next
  \/ Only("start") /\ StartNext
  \/ Only("capture") /\ CaptureNext
  \/ Only("self") /\ SelfNext
  \/ Only("tls") /\ TlsNext
  \/ Only("quic") /\ QuicNext

vars == <<part, tokVars, remoteVars, dnsVars, actVars, limitVars, appVars,
          limVars, v6Vars, startVars, captureVars, selfVars, tlsVars,
          quicVars>>

\* The fairness of each component, for the component that takes part.
Fairness ==
  /\ \A w \in Worker : WF_tokVars(part = "tokens" /\ TokStep(w))
  /\ WF_tokVars(part = "tokens" /\ BeginPoll) /\ WF_tokVars(part = "tokens" /\ FlushIfDirty)
  /\ WF_remoteVars(part = "remote" /\ RemoteLoop)
  /\ WF_remoteVars(part = "remote" /\ \E g \in 1..MaxGen : ReportExit(g))
  /\ WF_dnsVars(part = "dns" /\ TickStart) /\ WF_dnsVars(part = "dns" /\ TickStep)
  /\ WF_dnsVars(part = "dns" /\ WatchdogRestarts)
  /\ \A t \in Caller : WF_actVars(part = "actions" /\ Serve(t))
  /\ WF_limitVars(part = "limits" /\ Round)
  /\ WF_appVars(part = "apptime" /\ AppLoop)
  /\ WF_limVars(part = "applimits" /\ SaveStep) /\ WF_limVars(part = "applimits" /\ WriteMarker)
  /\ WF_limVars(part = "applimits" /\ FlushMap(TRUE)) /\ WF_limVars(part = "applimits" /\ ApplyStep)
  /\ WF_v6Vars(part = "v6" /\ WatchdogRuns)
  /\ \A r \in Runner : WF_v6Vars(part = "v6" /\ ScriptStep(r))
  /\ WF_startVars(part = "start" /\ Later) /\ WF_startVars(part = "start" /\ StartDpid)
  /\ WF_startVars(part = "start" /\ ArmDpid)
  /\ WF_startVars(part = "start" /\ IdleEnds)
  /\ WF_captureVars(part = "capture" /\ CaptureLoop)
  /\ \A a \in Attempts : WF_captureVars(part = "capture" /\ Rebinder(a))
  /\ WF_selfVars(part = "self" /\ ReconcileOn) /\ WF_selfVars(part = "self" /\ ReconcileOff)

Spec == Init /\ [][Next]_vars /\ Fairness

-----------------------------------------------------------------------------
\* The doors of the device stay as their owner set them.  A revocation saved stays
\* whatever is reloaded and an issued token is not lost, unless the map was emptied
\* by a stat from before the first save (tokens.go).  No listener runs
\* that the loop could not stop (remote_listener.go).  DNAT rules lead to an open
\* forwarder (dns_takeover.go).  No script touches a simulated device, no token
\* writes past its window, a restart finds the simulation (action.go, sim.go).
AccessKept ==
  /\ part = "tokens"  => TokTypeOK /\ RevokedStays /\ IssuedKept
  /\ part = "remote"  => RemoteTypeOK /\ NoStrayServer
  /\ part = "dns"     => DnsTypeOK /\ RulesServed
  /\ part = "actions" => ActTypeOK /\ SimUntouched /\ WriteBound /\ SimSaved

\* What is restored, charged and shown is true.  The base is the user's rule and no
\* byte is charged twice (limit_policy.go); a day's use is not counted twice and an
\* alert goes out once (app_time.go); an edit is not lost with its marker and ok
\* means both files (action_app_limit.go, apply_app_limits.sh); an address the
\* event filter suppresses is covered (neigh_v6.go).
PolicyKept ==
  /\ part = "limits"     => LimitTypeOK /\ BaseIsManual /\ NoOvercharge
  /\ part = "apptime"   => AppTypeOK /\ UseCounted /\ AlertOnce
  /\ part = "applimits" => LimTypeOK /\ MarkerCoversEdit /\ OkMeansBoth
  /\ part = "v6"         => V6TypeOK /\ KnownIsCovered

\* dpid starts no storm when the clock is set back (crash flag), never reads from a
\* socket that a rebind closed (rawsocket.go), no day's sample file grows past its
\* cap (label_samples.go), a hello that comes in order is held byte for byte and the
\* list of the received intervals is exact (tls_reasm.go, quic.go).
CaptureKept ==
  /\ part = "start"   => StartTypeOK /\ CrashBound
  /\ part = "capture" => CaptureTypeOK /\ HeldOpen
  /\ part = "self"    => SelfTypeOK /\ DayCapKept
  /\ part = "tls"     => TlsTypeOK /\ InOrderHeld
  /\ part = "quic"    => QuicTypeOK /\ CoveredExact

\* What was asked for happens.  A line in the revocation bridge is applied
\* (server.go); the remote port follows its setting (remote_listener.go); devices
\* do not stay behind DNAT rules that lead nowhere and an enabled takeover comes
\* back (dns_takeover.go); a queued action is answered (action.go).
AccessSettles ==
  /\ \A t \in Tok \cap Lines :
       (part = "tokens" /\ t \in tokMarker) ~> (part = "tokens" => Applied(t))
  /\ <>[](part = "remote" => enabled = (sockets # {}))
  /\ <>[](part = "dns" => Wished("tether")) => []<>(part = "dns" => active)
  /\ \A t \in Caller : []<>(/\ part = "dns" => ~Dark \/ stuck
                            /\ part = "actions" => posted[t].at = "idle")

\* Rules return to what the settings call for once the outside world rests: the
\* overlay of a device (limit_policy.go), the block of an application that is used
\* up (app_time.go), the classes of limited applications (apply_app_limits.sh) and
\* the filters of IPv6 addresses (v6_sync.sh).
PolicySettles ==
  /\ <>[](part = "limits" => online)
       => <>[](/\ part = "limits"  => Enforced \/ Overlooked
               /\ part = "apptime" => kernel = TimeWanted \/ missed
               /\ part = "v6"      => ReconciledUnlessTorn)
  /\ []<>(part = "applimits" => ~hotspotOn \/ enforced = Wanted)

\* dpid finds its way back: out of the crash loop, to the hotspot interface as it is
\* now, and to the captures the flag and the candidates call for (cmd/dpid).
CaptureSettles ==
  /\ []<>(part = "start" => dmode \notin {"down", "crash_loop"})
  /\ <>[](/\ part = "capture" => CapturingOrStranded
          /\ part = "self"    => Followed)
=============================================================================
