---------------------------- MODULE SettlesProofs ----------------------------
(***************************************************************************)
(* The doors of the device, and what hnc_httpd and its scripts restore,    *)
(* charge, promise and cover (AccessKept and PolicyKept of MCSettles), for *)
(* every number of tokens, requests, generations, addresses, callers,      *)
(* devices and applications, every quota and every bound on what may       *)
(* happen.  Each component has an inductive invariant of its own, and      *)
(* since a step of one leaves the others alone, their conjunction is one   *)
(* of the suite.                                                           *)
(*                                                                         *)
(* AppLimits: ok means both files because a save is between them only      *)
(* while it has not answered, and an edit is not lost because a run that   *)
(* has read an older configuration leaves a marker or a trigger behind.    *)
(* AppTime: what was used is what the books of the day hold together.      *)
(* LimitCtl: bytes are charged once because a round never has more pending *)
(* than was sent since the last save; the base is the user's because file  *)
(* and memory agree between rounds.  V6Sync: an address that the event     *)
(* filter suppresses is covered because the filter has forgotten every     *)
(* address whose message is still to come, and a script that would clear a *)
(* device newly marked has another run behind it.                          *)
(***************************************************************************)
EXTENDS MCSettles, FiniteSetTheorems, SequenceTheorems, WellFoundedInduction, TLAPS

-----------------------------------------------------------------------------
(* The remote port.                                                        *)

RemoteInv == /\ RemoteTypeOK /\ NoStrayServer
             /\ https \in {0, gen} /\ sockets \cap exited = {}

\* No server yet.
LEMMA RemoteStart == RemoteInit => RemoteInv
<1> SUFFICES ASSUME RemoteInit PROVE RemoteInv
  OBVIOUS
<1>1. enabled \in BOOLEAN /\ want \in BOOLEAN
  BY Zenon DEF RemoteInit
<1> QED
  BY <1>1, RemoteConstants DEF RemoteInit, RemoteInv, RemoteTypeOK, NoStrayServer

\* Every step of the remote listener keeps the invariant.
LEMMA RemoteStep == ASSUME RemoteInv, [RemoteNext]_remoteVars PROVE RemoteInv'
<1> USE RemoteConstants DEF RemoteInv, RemoteTypeOK, NoStrayServer
<1>1. CASE ToggleRemote
  BY <1>1 DEF ToggleRemote
<1>2. CASE ReadRules
  BY <1>2 DEF ReadRules, Mishap
<1>3. CASE KeepServer
  BY <1>3 DEF KeepServer
<1>4. CASE StartServer
  BY <1>4 DEF StartServer
<1>5. CASE StartFails
  BY <1>5 DEF StartFails, Mishap
<1>6. CASE StopServer
  BY <1>6 DEF StopServer
<1>7. ASSUME NEW g \in 1..MaxGen, ServeExits(g) PROVE RemoteInv'
  BY <1>7 DEF ServeExits, Mishap
<1>8. ASSUME NEW g \in 1..MaxGen, ReportExit(g) PROVE RemoteInv'
  BY <1>8 DEF ReportExit
<1>9. CASE UNCHANGED remoteVars
  BY <1>9 DEF remoteVars
<1> QED
  BY <1>1, <1>2, <1>3, <1>4, <1>5, <1>6, <1>7, <1>8, <1>9 DEF RemoteNext, RemoteLoop

-----------------------------------------------------------------------------
(* The DNS takeover.                                                       *)

Places == {"idle", "conf", "stop", "close", "listen", "upstream", "probe", "act", "apply", "failopen"}
Rounds == [at : Places, on : Addr \cup {0}, ok : BOOLEAN]

DnsNumbers ==
  /\ upAge \in 0..Recheck /\ retry \in 0..BackoffMax
  /\ backoff \in BackoffMin..BackoffMax /\ health \in 0..HealthyReset
  /\ changes \in 0..MaxChanges /\ dnsFaults \in 0..MaxDnsFaults
DnsPlaces ==
  /\ dnsHot \in Addr \cup {0} /\ rules \in Addr \cup {0}
  /\ fwd \in Addr \cup {0} /\ ruleSig \in Addr \cup {0} /\ tick \in Rounds
DnsModes ==
  /\ conf \in [on : BOOLEAN, custom : BOOLEAN] /\ dnsWorking \subseteq Upstreams
  /\ httpd \in {"dead", "new", "booted"} /\ upstream \in Upstreams \cup {""}
  /\ active \in BOOLEAN /\ stuck \in BOOLEAN

DnsProcess ==
  /\ httpd = "dead" => tick.at = "idle"
  /\ httpd = "new" => tick.at \in {"idle", "conf"}
  /\ httpd # "booted" => ~active /\ fwd = 0
DnsKnown ==
  /\ httpd # "dead" /\ rules # 0 /\ ~stuck => active /\ ruleSig = rules
  /\ tick.at \in {"upstream", "probe", "act", "apply"} => fwd = tick.on
  /\ tick.at = "close" /\ rules # 0 => stuck
  /\ httpd # "dead" /\ tick.at \in {"idle", "conf", "stop", "listen"} /\ rules # 0 /\ ~stuck
       => rules = fwd
DnsInv == DnsNumbers /\ DnsPlaces /\ DnsModes /\ DnsProcess /\ DnsKnown

\* The parts of the invariant give the types.
LEMMA DnsTyped == DnsNumbers /\ DnsPlaces /\ DnsModes => DnsTypeOK
BY Zenon DEF DnsTypeOK, DnsNumbers, DnsPlaces, DnsModes, Places, Rounds

\* The stages of a round are rounds.
LEMMA TickRecords ==
  /\ \A T \in Rounds, a \in Places :
       [T EXCEPT !.at = a] \in Rounds /\ [T EXCEPT !.at = a].at = a /\ [T EXCEPT !.at = a].on = T.on
  /\ Idle \in Rounds /\ Idle.at = "idle" /\ Idle.on = 0
BY DEF Idle, Rounds, Places

\* No rules, no forwarder, no round.
LEMMA DnsStart == DnsInit => DnsInv
<1> SUFFICES ASSUME DnsInit PROVE DnsInv
  OBVIOUS
<1>1. DnsModes
  BY Zenon DEF DnsInit, DnsModes
<1>2. DnsNumbers
  <2>1. upAge = 0 /\ retry = 0 /\ backoff = BackoffMin /\ health = 0 /\ changes = 0 /\ dnsFaults = 0
    BY Zenon DEF DnsInit
  <2> QED
    BY <2>1, DnsConstants DEF DnsNumbers
<1>3. DnsPlaces
  BY TickRecords DEF DnsInit, DnsPlaces
<1>4. ~active
  BY Zenon DEF DnsInit
<1>5. DnsProcess /\ DnsKnown
  BY <1>4, TickRecords DEF DnsInit, DnsProcess, DnsKnown
<1> QED
  BY <1>1, <1>2, <1>3, <1>5 DEF DnsInv

\* Every step of the takeover keeps the invariant.
LEMMA DnsStep == ASSUME DnsInv, [DnsNext]_dnsVars PROVE DnsInv'
<1>t. /\ tick \in Rounds /\ tick.on \in Addr \cup {0}
      /\ \A a \in Places : [tick EXCEPT !.at = a] \in Rounds /\ [tick EXCEPT !.at = a].at = a
                           /\ [tick EXCEPT !.at = a].on = tick.on
      /\ Idle \in Rounds /\ Idle.at = "idle" /\ Idle.on = 0
  BY TickRecords DEF DnsInv, DnsPlaces, Rounds
<1>1. CASE TickStart
  <2>1. DnsNumbers'
    BY <1>1, DnsConstants DEF DnsInv, TickStart, dnsEnv, TickTo, Upto, DnsNumbers
  <2>2. DnsPlaces'
    BY <1>1, <1>t DEF DnsInv, TickStart, dnsEnv, TickTo, Upto, DnsPlaces, Places
  <2>3. DnsModes'
    BY <1>1 DEF DnsInv, TickStart, dnsEnv, TickTo, Upto, DnsModes
  <2>4. DnsProcess'
    BY <1>1, <1>t DEF DnsInv, TickStart, dnsEnv, TickTo, Upto, DnsModes, DnsProcess, Places
  <2>5. DnsKnown'
    BY <1>1, <1>t DEF DnsInv, TickStart, dnsEnv, TickTo, Upto, DnsModes, DnsProcess, DnsKnown, Places
  <2> QED
    BY <2>1, <2>2, <2>3, <2>4, <2>5 DEF DnsInv
<1>2. CASE TakeoverSet
  <2>1. DnsNumbers'
    BY <1>2, DnsConstants DEF DnsInv, TakeoverSet, DnsChange, TickTo, DnsNumbers
  <2>2. DnsPlaces'
    BY <1>2, <1>t DEF DnsInv, TakeoverSet, DnsChange, TickTo, DnsPlaces, Places
  <2>3. DnsModes'
    BY <1>2 DEF DnsInv, TakeoverSet, DnsChange, TickTo, DnsModes
  <2>4. DnsProcess'
    BY <1>2, <1>t DEF DnsInv, TakeoverSet, DnsChange, TickTo, DnsModes, DnsProcess, Places
  <2>5. DnsKnown'
    BY <1>2, <1>t DEF DnsInv, TakeoverSet, DnsChange, TickTo, DnsModes, DnsProcess, DnsKnown, Places
  <2> QED
    BY <2>1, <2>2, <2>3, <2>4, <2>5 DEF DnsInv
<1>3. CASE TickConf
  <2>0. /\ tick' \in Rounds /\ tick'.at \in {"listen", "stop", "close"}
        /\ tick'.at = "close" => httpd # "new" /\ ~active
    BY <1>3 DEF DnsInv, TickConf, dnsEnv, dnsMem, TickTo, ListenAddr, DnsPlaces, DnsModes, Rounds, Places
  <2>1. DnsNumbers'
    BY <1>3, DnsConstants DEF DnsInv, TickConf, dnsEnv, dnsMem, TickTo, ListenAddr, DnsNumbers
  <2>2. DnsPlaces'
    BY <1>3, <1>t, <2>0 DEF DnsInv, TickConf, dnsEnv, dnsMem, TickTo, ListenAddr, DnsPlaces, Places
  <2>3. DnsModes'
    BY <1>3, <2>0 DEF DnsInv, TickConf, dnsEnv, dnsMem, TickTo, ListenAddr, DnsModes
  <2>4. DnsProcess'
    BY <1>3, <1>t, <2>0 DEF DnsInv, TickConf, dnsEnv, dnsMem, TickTo, ListenAddr, DnsModes, DnsProcess, Places
  <2>5. DnsKnown'
    BY <1>3, <1>t, <2>0 DEF DnsInv, TickConf, dnsEnv, dnsMem, TickTo, ListenAddr, DnsModes, DnsProcess, DnsKnown, Places
  <2> QED
    BY <2>1, <2>2, <2>3, <2>4, <2>5 DEF DnsInv
<1>4. CASE TickStop
  <2>1. DnsNumbers'
    BY <1>4, DnsConstants DEF DnsInv, TickStop, RemoveRules, ForgetRules, DnsFault, dnsEnv, dnsMem, TickTo, DnsNumbers
  <2>2. DnsPlaces'
    BY <1>4, <1>t DEF DnsInv, TickStop, RemoveRules, ForgetRules, DnsFault, dnsEnv, dnsMem, TickTo, DnsPlaces, Places
  <2>3. DnsModes'
    BY <1>4 DEF DnsInv, TickStop, RemoveRules, ForgetRules, DnsFault, dnsEnv, dnsMem, TickTo, DnsModes
  <2>4. DnsProcess'
    BY <1>4, <1>t DEF DnsInv, TickStop, RemoveRules, ForgetRules, DnsFault, dnsEnv, dnsMem, TickTo, DnsModes, DnsProcess, Places
  <2>5. DnsKnown'
    BY <1>4, <1>t DEF DnsInv, TickStop, RemoveRules, ForgetRules, DnsFault, dnsEnv, dnsMem, TickTo, DnsModes, DnsProcess, DnsKnown, Places
  <2> QED
    BY <2>1, <2>2, <2>3, <2>4, <2>5 DEF DnsInv
<1>5. CASE TickClose
  <2>1. DnsNumbers'
    BY <1>5, DnsConstants DEF DnsInv, TickClose, dnsEnv, dnsMem, DnsNumbers
  <2>2. DnsPlaces'
    BY <1>5, <1>t DEF DnsInv, TickClose, dnsEnv, dnsMem, DnsPlaces, Places
  <2>3. DnsModes'
    BY <1>5 DEF DnsInv, TickClose, dnsEnv, dnsMem, DnsModes
  <2>4. DnsProcess'
    BY <1>5, <1>t DEF DnsInv, TickClose, dnsEnv, dnsMem, DnsModes, DnsProcess, Places
  <2>5. DnsKnown'
    BY <1>5, <1>t DEF DnsInv, TickClose, dnsEnv, dnsMem, DnsModes, DnsProcess, DnsKnown, Places
  <2> QED
    BY <2>1, <2>2, <2>3, <2>4, <2>5 DEF DnsInv
<1>6. CASE TickListen
  <2>0. /\ tick.at = "listen" /\ (DnsFault \/ UNCHANGED dnsFaults)
        /\ fwd' \in {fwd, tick.on, 0}
        /\ \/ tick' = [tick EXCEPT !.at = "upstream"] /\ fwd' = tick.on
           \/ tick' = [tick EXCEPT !.at = "failopen"]
        /\ UNCHANGED <<dnsEnv, rules, httpd, upAge, active, ruleSig, retry, backoff, health, stuck>>
    BY <1>6, Zenon DEF TickListen, TickTo
  <2>1. DnsNumbers'
    BY <2>0, DnsConstants DEF DnsInv, DnsNumbers, DnsFault, dnsEnv
  <2>2. DnsPlaces'
    BY <2>0, <1>t DEF DnsInv, dnsEnv, DnsPlaces, Places
  <2>3. DnsModes'
    BY <1>6 DEF DnsInv, TickListen, dnsEnv, TickTo, DnsModes
  <2>4. DnsProcess'
    BY <2>0, <1>t DEF DnsInv, dnsEnv, DnsModes, DnsProcess, Places
  <2>5. DnsKnown'
    BY <2>0, <1>t DEF DnsInv, dnsEnv, DnsModes, DnsProcess, DnsKnown, Places
  <2> QED
    BY <2>1, <2>2, <2>3, <2>4, <2>5 DEF DnsInv
<1>7. CASE TickUpstream
  <2>0. Chosen \in Upstreams \cup {""}
    <3>1. \A i \in DOMAIN Candidates : Candidates[i] \in Upstreams
      BY DEF Candidates, Upstreams
    <3>2. upstream \in Upstreams \cup {""}
      BY DEF DnsInv, DnsModes
    <3>3. ASSUME \E i \in DOMAIN Candidates : Candidates[i] \in dnsWorking
          PROVE  \E i \in DOMAIN Candidates : /\ Candidates[i] \in dnsWorking
                   /\ \A j \in 1..(i - 1) : Candidates[j] \notin dnsWorking
      <4>1. CASE conf.custom
        BY <3>3, <4>1 DEF Candidates
      <4>2. CASE ~conf.custom
        <5>1. Candidates = <<"tether", "system">> /\ DOMAIN Candidates = 1..2
          BY <4>2 DEF Candidates
        <5>2. CASE Candidates[1] \in dnsWorking
          BY <5>1, <5>2
        <5>3. CASE Candidates[1] \notin dnsWorking
          BY <3>3, <5>1, <5>3
        <5> QED
          BY <5>2, <5>3
      <4> QED
        BY <4>1, <4>2
    <3> QED
      BY <3>1, <3>2, <3>3, Zenon DEF Chosen
  <2>a. (upAge' = 0 \/ upAge' = upAge) /\ UNCHANGED <<retry, backoff, health, changes, dnsFaults>>
    BY <1>7, Zenon DEF TickUpstream, dnsEnv
  <2>1. DnsNumbers'
    BY <2>a, DnsConstants DEF DnsInv, DnsNumbers, DnsFault, dnsEnv
  <2>2. DnsPlaces'
    BY <1>7, <1>t, <2>0 DEF DnsInv, TickUpstream, dnsEnv, TickTo, DnsPlaces, Places
  <2>3. DnsModes'
    BY <1>7, <2>0 DEF DnsInv, TickUpstream, dnsEnv, TickTo, DnsModes
  <2>4. DnsProcess'
    BY <1>7, <1>t, <2>0 DEF DnsInv, TickUpstream, dnsEnv, TickTo, DnsModes, DnsProcess, Places
  <2>5. DnsKnown'
    BY <1>7, <1>t, <2>0 DEF DnsInv, TickUpstream, dnsEnv, TickTo, DnsModes, DnsProcess, DnsKnown, Places
  <2> QED
    BY <2>1, <2>2, <2>3, <2>4, <2>5 DEF DnsInv
<1>8. CASE TickProbe
  <2>0. tick' \in Rounds /\ tick'.at = "act" /\ tick'.on = tick.on
    BY <1>8, <1>t DEF DnsInv, TickProbe, dnsEnv, dnsMem, Rounds, Places
  <2>1. DnsNumbers'
    BY <1>8, DnsConstants DEF DnsInv, TickProbe, dnsEnv, dnsMem, DnsNumbers
  <2>2. DnsPlaces'
    BY <1>8, <1>t, <2>0 DEF DnsInv, TickProbe, dnsEnv, dnsMem, DnsPlaces, Places
  <2>3. DnsModes'
    BY <1>8, <2>0 DEF DnsInv, TickProbe, dnsEnv, dnsMem, DnsModes
  <2>4. DnsProcess'
    BY <1>8, <1>t, <2>0 DEF DnsInv, TickProbe, dnsEnv, dnsMem, DnsModes, DnsProcess, Places
  <2>5. DnsKnown'
    BY <1>8, <1>t, <2>0 DEF DnsInv, TickProbe, dnsEnv, dnsMem, DnsModes, DnsProcess, DnsKnown, Places
  <2> QED
    BY <2>1, <2>2, <2>3, <2>4, <2>5 DEF DnsInv
<1>9. CASE TickAct
  <2>1. DnsNumbers'
    BY <1>9, DnsConstants DEF DnsInv, TickAct, DnsFault, dnsEnv, TickTo, DnsNumbers
  <2>2. DnsPlaces'
    BY <1>9, <1>t DEF DnsInv, TickAct, DnsFault, dnsEnv, TickTo, DnsPlaces, Places
  <2>3. DnsModes'
    BY <1>9 DEF DnsInv, TickAct, DnsFault, dnsEnv, TickTo, DnsModes
  <2>4. DnsProcess'
    BY <1>9, <1>t DEF DnsInv, TickAct, DnsFault, dnsEnv, TickTo, DnsModes, DnsProcess, Places
  <2>5. DnsKnown'
    BY <1>9, <1>t DEF DnsInv, TickAct, DnsFault, dnsEnv, TickTo, DnsModes, DnsProcess, DnsKnown, Places
  <2> QED
    BY <2>1, <2>2, <2>3, <2>4, <2>5 DEF DnsInv
<1>10. CASE TickApply
  <2>1. DnsNumbers'
    BY <1>10, DnsConstants DEF DnsInv, TickApply, ForgetRules, DnsFault, dnsEnv, DnsNumbers
  <2>2. DnsPlaces'
    BY <1>10, <1>t DEF DnsInv, TickApply, ForgetRules, DnsFault, dnsEnv, DnsPlaces, Places
  <2>3. DnsModes'
    BY <1>10 DEF DnsInv, TickApply, ForgetRules, DnsFault, dnsEnv, DnsModes
  <2>4. DnsProcess'
    BY <1>10, <1>t DEF DnsInv, TickApply, ForgetRules, DnsFault, dnsEnv, DnsModes, DnsProcess, Places
  <2>5. DnsKnown'
    BY <1>10, <1>t DEF DnsInv, TickApply, ForgetRules, DnsFault, dnsEnv, DnsModes, DnsProcess, DnsKnown, Places
  <2> QED
    BY <2>1, <2>2, <2>3, <2>4, <2>5 DEF DnsInv
<1>11. CASE TickFailOpen
  <2>1. DnsNumbers'
    BY <1>11, DnsConstants DEF DnsInv, TickFailOpen, RemoveRules, ForgetRules, DnsFault, dnsEnv, DnsNumbers
  <2>2. DnsPlaces'
    BY <1>11, <1>t DEF DnsInv, TickFailOpen, RemoveRules, ForgetRules, DnsFault, dnsEnv, DnsPlaces, Places
  <2>3. DnsModes'
    BY <1>11 DEF DnsInv, TickFailOpen, RemoveRules, ForgetRules, DnsFault, dnsEnv, DnsModes
  <2>4. DnsProcess'
    BY <1>11, <1>t DEF DnsInv, TickFailOpen, RemoveRules, ForgetRules, DnsFault, dnsEnv, DnsModes, DnsProcess, Places
  <2>5. DnsKnown'
    BY <1>11, <1>t DEF DnsInv, TickFailOpen, RemoveRules, ForgetRules, DnsFault, dnsEnv, DnsModes, DnsProcess, DnsKnown, Places
  <2> QED
    BY <2>1, <2>2, <2>3, <2>4, <2>5 DEF DnsInv
<1>12. CASE ShutdownTakeover
  <2>1. DnsNumbers'
    BY <1>12, DnsConstants DEF DnsInv, ShutdownTakeover, ForgetRules, DnsFault, dnsEnv, dnsMem, DnsNumbers
  <2>2. DnsPlaces'
    BY <1>12, <1>t DEF DnsInv, ShutdownTakeover, ForgetRules, DnsFault, dnsEnv, dnsMem, DnsPlaces, Places
  <2>3. DnsModes'
    BY <1>12 DEF DnsInv, ShutdownTakeover, ForgetRules, DnsFault, dnsEnv, dnsMem, DnsModes
  <2>4. DnsProcess'
    BY <1>12, <1>t DEF DnsInv, ShutdownTakeover, ForgetRules, DnsFault, dnsEnv, dnsMem, DnsModes, DnsProcess, Places
  <2>5. DnsKnown'
    BY <1>12, <1>t DEF DnsInv, ShutdownTakeover, ForgetRules, DnsFault, dnsEnv, dnsMem, DnsModes, DnsProcess, DnsKnown, Places
  <2> QED
    BY <2>1, <2>2, <2>3, <2>4, <2>5 DEF DnsInv
<1>13. CASE DnsHttpdDies
  <2>1. DnsNumbers'
    BY <1>13, DnsConstants DEF DnsInv, DnsHttpdDies, ForgetRules, DnsFault, dnsEnv, dnsMem, DnsNumbers
  <2>2. DnsPlaces'
    BY <1>13, <1>t DEF DnsInv, DnsHttpdDies, ForgetRules, DnsFault, dnsEnv, dnsMem, DnsPlaces, Places
  <2>3. DnsModes'
    BY <1>13 DEF DnsInv, DnsHttpdDies, ForgetRules, DnsFault, dnsEnv, dnsMem, DnsModes
  <2>4. DnsProcess'
    BY <1>13, <1>t DEF DnsInv, DnsHttpdDies, ForgetRules, DnsFault, dnsEnv, dnsMem, DnsModes, DnsProcess, Places
  <2>5. DnsKnown'
    BY <1>13, <1>t DEF DnsInv, DnsHttpdDies, ForgetRules, DnsFault, dnsEnv, dnsMem, DnsModes, DnsProcess, DnsKnown, Places
  <2> QED
    BY <2>1, <2>2, <2>3, <2>4, <2>5 DEF DnsInv
<1>14. CASE WatchdogRestarts
  <2>0. /\ DnsFault \/ UNCHANGED dnsFaults
        /\ upAge' = 0 /\ retry' = 0 /\ backoff' = BackoffMin /\ health' = 0 /\ UNCHANGED changes
    BY <1>14, Zenon DEF WatchdogRestarts, RemoveRules, dnsEnv
  <2>1. DnsNumbers'
    BY <2>0, DnsConstants DEF DnsInv, DnsNumbers, DnsFault, dnsEnv
  <2>2. DnsPlaces'
    BY <1>14, <1>t DEF DnsInv, WatchdogRestarts, RemoveRules, DnsFault, dnsEnv, DnsPlaces, Places
  <2>3. DnsModes'
    BY <1>14 DEF DnsInv, WatchdogRestarts, RemoveRules, DnsFault, dnsEnv, DnsModes
  <2>4. DnsProcess'
    BY <1>14, <1>t DEF DnsInv, WatchdogRestarts, RemoveRules, DnsFault, dnsEnv, DnsModes, DnsProcess, Places
  <2>5. DnsKnown'
    BY <1>14, <1>t DEF DnsInv, WatchdogRestarts, RemoveRules, DnsFault, dnsEnv, DnsModes, DnsProcess, DnsKnown, Places
  <2> QED
    BY <2>1, <2>2, <2>3, <2>4, <2>5 DEF DnsInv
<1>15. CASE HotspotChanges
  <2>1. DnsNumbers'
    BY <1>15, DnsConstants DEF DnsInv, HotspotChanges, DnsChange, dnsMem, DnsNumbers
  <2>2. DnsPlaces'
    BY <1>15, <1>t DEF DnsInv, HotspotChanges, DnsChange, dnsMem, DnsPlaces, Places
  <2>3. DnsModes'
    BY <1>15 DEF DnsInv, HotspotChanges, DnsChange, dnsMem, DnsModes
  <2>4. DnsProcess'
    BY <1>15, <1>t DEF DnsInv, HotspotChanges, DnsChange, dnsMem, DnsModes, DnsProcess, Places
  <2>5. DnsKnown'
    BY <1>15, <1>t DEF DnsInv, HotspotChanges, DnsChange, dnsMem, DnsModes, DnsProcess, DnsKnown, Places
  <2> QED
    BY <2>1, <2>2, <2>3, <2>4, <2>5 DEF DnsInv
<1>16. CASE ResolverChanges
  <2>1. DnsNumbers'
    BY <1>16, DnsConstants DEF DnsInv, ResolverChanges, DnsChange, dnsMem, DnsNumbers
  <2>2. DnsPlaces'
    BY <1>16, <1>t DEF DnsInv, ResolverChanges, DnsChange, dnsMem, DnsPlaces, Places
  <2>3. DnsModes'
    BY <1>16 DEF DnsInv, ResolverChanges, DnsChange, dnsMem, DnsModes
  <2>4. DnsProcess'
    BY <1>16, <1>t DEF DnsInv, ResolverChanges, DnsChange, dnsMem, DnsModes, DnsProcess, Places
  <2>5. DnsKnown'
    BY <1>16, <1>t DEF DnsInv, ResolverChanges, DnsChange, dnsMem, DnsModes, DnsProcess, DnsKnown, Places
  <2> QED
    BY <2>1, <2>2, <2>3, <2>4, <2>5 DEF DnsInv
<1>17. CASE RulesFlushed
  <2>1. DnsNumbers'
    BY <1>17, DnsConstants DEF DnsInv, RulesFlushed, DnsFault, dnsEnv, dnsMem, DnsNumbers
  <2>2. DnsPlaces'
    BY <1>17, <1>t DEF DnsInv, RulesFlushed, DnsFault, dnsEnv, dnsMem, DnsPlaces, Places
  <2>3. DnsModes'
    BY <1>17 DEF DnsInv, RulesFlushed, DnsFault, dnsEnv, dnsMem, DnsModes
  <2>4. DnsProcess'
    BY <1>17, <1>t DEF DnsInv, RulesFlushed, DnsFault, dnsEnv, dnsMem, DnsModes, DnsProcess, Places
  <2>5. DnsKnown'
    BY <1>17, <1>t DEF DnsInv, RulesFlushed, DnsFault, dnsEnv, dnsMem, DnsModes, DnsProcess, DnsKnown, Places
  <2> QED
    BY <2>1, <2>2, <2>3, <2>4, <2>5 DEF DnsInv
<1>18. CASE UNCHANGED dnsVars
  <2>1. DnsNumbers'
    BY <1>18, DnsConstants DEF DnsInv, dnsVars, DnsNumbers
  <2>2. DnsPlaces'
    BY <1>18, <1>t DEF DnsInv, dnsVars, DnsPlaces, Places
  <2>3. DnsModes'
    BY <1>18 DEF DnsInv, dnsVars, DnsModes
  <2>4. DnsProcess'
    BY <1>18, <1>t DEF DnsInv, dnsVars, DnsModes, DnsProcess, Places
  <2>5. DnsKnown'
    BY <1>18, <1>t DEF DnsInv, dnsVars, DnsModes, DnsProcess, DnsKnown, Places
  <2> QED
    BY <2>1, <2>2, <2>3, <2>4, <2>5 DEF DnsInv
<1> QED
  BY <1>1, <1>2, <1>3, <1>4, <1>5, <1>6, <1>7, <1>8, <1>9, <1>10, <1>11, <1>12, <1>13, <1>14, <1>15, <1>16, <1>17, <1>18
  DEF DnsNext, TickStep

-----------------------------------------------------------------------------
(* The token store.                                                        *)

Remembered == [work : BOOLEAN, st : Nat, mt : Nat, try : Nat, data : [Tok -> State],
               tok : Tok \cup {"none"}, owed : BOOLEAN]

TokTypes == /\ mem \in [Tok -> State] /\ tokDisk \in [Tok -> State] /\ promise \in [Tok -> State]
            /\ mtime \in Nat /\ lastRead \in 0..mtime
TokTruth == /\ ~cleared => lastRead = mtime
            /\ mtime = 0 => \A t \in Tok : promise[t] = "none"
            /\ ~cleared => \A t \in Tok :
                 /\ promise[t] = "live" => mem[t] # "none" /\ tokDisk[t] # "none"
                 /\ promise[t] = "revoked" => mem[t] # "live" /\ tokDisk[t] # "live"
TokLocs == loc \in [Worker -> Remembered] /\ \A w \in Worker : loc[w].mt <= mtime
TokBridge == /\ tokMarker \subseteq Lines /\ tokWorking \subseteq Lines /\ todo \subseteq tokWorking
             /\ tokFaults \in 0..MaxTokFaults
TokFlags == dirty \in BOOLEAN /\ up \in BOOLEAN /\ cleared \in BOOLEAN
TokLock == /\ revokeMu \in Worker \cup {"none"} /\ tpc \in [Worker -> Steps]
           /\ \A w \in Worker : tpc[w] \in {"redo", "take", "apply"} <=> revokeMu = w

TokInv == TokTypes /\ TokTruth /\ TokLocs /\ TokBridge /\ TokFlags /\ TokLock

\* The parts of the invariant give the types.
LEMMA TokTyped == TokTypes /\ TokBridge /\ TokFlags /\ TokLock => TokTypeOK
BY DEF TokTypeOK, TokTypes, TokBridge, TokFlags, TokLock

\* The free lock is not held by a request.
LEMMA NoneIsNobody == "none" \notin Worker
BY TokenConstants DEF Worker

\* An empty map is a map, and nothing remembered is old.
LEMMA EmptyTyped == Empty \in [Tok -> State] /\ NoLoc \in Remembered /\ NoLoc.mt = 0
BY DEF Empty, State, NoLoc, Remembered

\* What a goroutine remembers after one field is set.
LEMMA RememberedSet ==
  ASSUME NEW r \in Remembered
  PROVE  /\ \A b \in BOOLEAN : [r EXCEPT !.work = b] \in Remembered /\ [r EXCEPT !.work = b].mt = r.mt
         /\ \A b \in BOOLEAN : [r EXCEPT !.owed = b] \in Remembered /\ [r EXCEPT !.owed = b].mt = r.mt
         /\ \A n \in Nat : [r EXCEPT !.st = n] \in Remembered /\ [r EXCEPT !.st = n].mt = r.mt
         /\ \A n \in Nat : [r EXCEPT !.try = n] \in Remembered /\ [r EXCEPT !.try = n].mt = r.mt
         /\ \A n \in Nat : [r EXCEPT !.mt = n] \in Remembered /\ [r EXCEPT !.mt = n].mt = n
         /\ \A d \in [Tok -> State] : [r EXCEPT !.data = d] \in Remembered /\ [r EXCEPT !.data = d].mt = r.mt
         /\ \A t \in Tok \cup {"none"} : [r EXCEPT !.tok = t] \in Remembered /\ [r EXCEPT !.tok = t].mt = r.mt
         /\ r.tok \in Tok \cup {"none"} /\ r.owed \in BOOLEAN /\ r.data \in [Tok -> State]
         /\ r.mt \in Nat /\ r.try \in Nat /\ r.st \in Nat
BY DEF Remembered

\* The map and the file agree at the start.
LEMMA TokStart == TokInit => TokInv
<1> SUFFICES ASSUME TokInit PROVE TokInv
  OBVIOUS
<1>1. TokFlags /\ cleared = FALSE
  BY Zenon DEF TokInit, TokFlags
<1>2. /\ tokDisk = mem /\ promise = mem /\ lastRead = mtime
      /\ \/ mtime = 0 /\ mem = Empty
         \/ mtime = 1 /\ mem \in {[t \in Tok |-> IF t = x THEN "live" ELSE "none"] : x \in Tok}
  BY Zenon DEF TokInit
<1>3. TokTypes
  BY <1>2, EmptyTyped DEF TokTypes, State
<1>4. TokTruth
  BY <1>1, <1>2 DEF TokTruth, Empty
<1>5. TokLocs
  BY <1>3, EmptyTyped DEF TokInit, TokLocs, TokTypes
<1>6. TokBridge
  BY TokenConstants DEF TokInit, TokBridge
<1>7. TokLock
  <2>1. revokeMu = "none" /\ tpc = [w \in Worker |-> "idle"]
    BY Zenon DEF TokInit
  <2> QED
    BY <2>1, NoneIsNobody DEF TokLock, Steps
<1> QED
  BY <1>1, <1>3, <1>4, <1>5, <1>6, <1>7 DEF TokInv

\* One goroutine's memory changes.
LEMMA LocSet ==
  ASSUME TokLocs, mtime' \in Nat, mtime \in Nat, mtime' >= mtime, NEW w \in Worker, NEW r \in Remembered,
         r.mt <= mtime', loc' = [loc EXCEPT ![w] = r]
  PROVE  TokLocs'
BY DEF TokLocs, Remembered

\* What is remembered stays no newer than a file that only grows newer.
LEMMA LocSame ==
  ASSUME TokLocs, mtime' \in Nat, mtime \in Nat, mtime' >= mtime, UNCHANGED loc
  PROVE  TokLocs'
BY DEF TokLocs, Remembered

\* A worker that forgets remembers nothing newer than the file.
LEMMA Forgotten ==
  ASSUME TokLocs, mtime \in Nat, mtime' = mtime, NEW w \in Worker, Forget(w)
  PROVE  TokLocs'
<1> DEFINE a == [NoLoc EXCEPT !.tok = loc[w].tok]
           b == [a EXCEPT !.owed = loc[w].owed]
<1>1. loc[w] \in Remembered
  BY DEF TokLocs
<1>2. a \in Remembered /\ a.mt = 0
  BY <1>1, EmptyTyped, RememberedSet, Zenon
<1> HIDE DEF a
<1>3. b \in Remembered /\ b.mt = 0
  BY <1>1, <1>2, RememberedSet, Zenon
<1>4. loc' = [loc EXCEPT ![w] = b]
  BY Zenon DEF Forget, a
<1> HIDE DEF b
<1>5. b.mt <= mtime' /\ mtime' \in Nat /\ mtime' >= mtime
  BY <1>3
<1> QED
  BY <1>3, <1>4, <1>5, LocSet, Zenon

\* Neither does one that ends.
LEMMA EndForgets ==
  ASSUME TokLocs, mtime \in Nat, mtime' \in Nat, mtime' >= mtime, NEW w \in Worker, End(w)
  PROVE  TokLocs'
<1>1. NoLoc \in Remembered /\ NoLoc.mt <= mtime'
  BY EmptyTyped
<1>2. PICK r \in Remembered : r = NoLoc
  BY <1>1
<1>3. r.mt <= mtime' /\ loc' = [loc EXCEPT ![w] = r]
  BY <1>1, <1>2 DEF End
<1> QED
  BY <1>3, LocSet, Zenon

\* A goroutine that does not hold the revocation lock goes elsewhere.
LEMMA GoesTo ==
  ASSUME TokLock, NEW w \in Worker, NEW s \in Steps, s \notin {"redo", "take", "apply"},
         tpc[w] \notin {"redo", "take", "apply"}, UNCHANGED revokeMu, Goto(w, s)
  PROVE  TokLock'
BY DEF TokLock, Goto

\* A worker that leaves the bridge's section gives its lock back.
LEMMA Releases ==
  ASSUME TokLock, NEW w \in Worker, NEW s \in Steps, s \notin {"redo", "take", "apply"},
         tpc[w] \in {"redo", "take", "apply"}, revokeMu' = "none", Goto(w, s)
  PROVE  TokLock'
BY NoneIsNobody DEF TokLock, Goto

\* A save publishes the map: what it says of a token must be true of the map.
LEMMA SavedTruth ==
  ASSUME TokTypes, SaveOk(mem'), mem' \in [Tok -> State], promise' \in [Tok -> State],
         ~cleared' => \A t \in Tok : /\ promise'[t] = "live" => mem'[t] # "none"
                                     /\ promise'[t] = "revoked" => mem'[t] # "live"
  PROVE  TokTypes' /\ TokTruth'
BY DEF TokTypes, TokTruth, SaveOk


\* Steps that leave the map, the file and the promises alone.
LEMMA QuietTruth ==
  ASSUME TokInv, UNCHANGED <<mem, lastRead, tokDisk, mtime, promise, cleared>>
  PROVE  TokTypes' /\ TokTruth'
BY DEF TokInv, TokTypes, TokTruth

\* Revoke and RevokeAll: the promise is given only for what the save published.
LEMMA RevokeKeeps ==
  ASSUME TokInv, NEW T, RevokeSet(T), UNCHANGED cleared
  PROVE  /\ TokTypes' /\ TokTruth' /\ mtime' \in Nat /\ mtime' >= mtime
         /\ tokFaults' \in 0..MaxTokFaults /\ dirty' \in BOOLEAN
<1> DEFINE hit == {t \in T : mem[t] = "live"}
<1>1. /\ mem' = [t \in Tok |-> IF t \in hit THEN "revoked" ELSE mem[t]]
      /\ \/ hit = {} /\ UNCHANGED <<tokDisk, mtime, lastRead, dirty, tokFaults, promise>>
         \/ hit # {} /\ SaveOk(mem') /\ promise' = [t \in Tok |-> IF t \in hit THEN "revoked" ELSE promise[t]]
         \/ hit # {} /\ TokSaveFails /\ UNCHANGED promise
  BY DEF RevokeSet, Told
<1>h. \A t \in hit : mem[t] = "live"
  OBVIOUS
<1> HIDE DEF hit
<1>2. mem' \in [Tok -> State]
  BY <1>1 DEF TokInv, TokTypes, State
<1>d. dirty \in BOOLEAN /\ tokFaults \in 0..MaxTokFaults
  BY DEF TokInv, TokFlags, TokBridge
<1>3. CASE hit = {} /\ UNCHANGED <<tokDisk, mtime, lastRead, dirty, tokFaults, promise>>
  BY <1>1, <1>2, <1>3, <1>d DEF TokInv, TokTypes, TokTruth
<1>4. CASE SaveOk(mem') /\ promise' = [t \in Tok |-> IF t \in hit THEN "revoked" ELSE promise[t]]
  <2>1. promise' \in [Tok -> State]
    BY <1>4 DEF TokInv, TokTypes, State
  <2>2. TokTypes' /\ TokTruth'
    BY <1>1, <1>2, <1>4, <2>1, SavedTruth DEF TokInv, TokTruth
  <2>3. mtime' = mtime + 1 /\ mtime \in Nat /\ tokFaults' = tokFaults /\ dirty' \in BOOLEAN
    BY <1>4 DEF SaveOk, TokInv, TokTypes
  <2> QED
    BY <2>2, <2>3, <1>d
<1>5. CASE TokSaveFails /\ UNCHANGED promise
  <2>1. UNCHANGED <<tokDisk, mtime, lastRead, dirty>> /\ tokFaults' \in 0..MaxTokFaults
    BY <1>5, <1>d, TokenConstants DEF TokSaveFails, TokFault
  <2> QED
    BY <1>1, <1>2, <1>5, <1>h, <2>1, <1>d DEF TokInv, TokTypes, TokTruth
<1> QED
  BY <1>1, <1>3, <1>4, <1>5

\* Every step of a request keeps the invariant.
LEMMA TokWorkerStep == ASSUME TokInv, NEW w \in Worker, TokStep(w) PROVE TokInv'
<1>m. mtime \in Nat /\ TokLocs /\ TokLock /\ loc[w] \in Remembered /\ loc[w].mt <= mtime
  BY DEF TokInv, TokTypes, TokLocs
<1>1. CASE StatWork(w)
  <2>1. TokTypes' /\ TokTruth'
    BY <1>1, QuietTruth DEF StatWork
  <2>2. TokLocs'
    <3> DEFINE r == [loc[w] EXCEPT !.work = (tokWorking # {})]
    <3>0. (tokWorking # {}) \in BOOLEAN
      BY Zenon DEF TokInv, TokTypes
    <3>1. r \in Remembered /\ r.mt = loc[w].mt
      BY <1>m, <3>0, RememberedSet, Zenon
    <3>2. loc' = [loc EXCEPT ![w] = r] /\ mtime' = mtime
      BY <1>1, Zenon DEF StatWork
    <3> HIDE DEF r
    <3>3. r.mt <= mtime' /\ mtime' \in Nat /\ mtime' >= mtime
      BY <3>1, <3>2, <1>m
    <3> QED
      BY <3>1, <3>2, <3>3, <1>m, LocSet, Zenon
  <2>3. TokBridge'
    BY <1>1 DEF StatWork, TokInv, TokBridge
  <2>4. TokFlags'
    BY <1>1, Zenon DEF StatWork, TokInv, TokFlags
  <2>5. TokLock'
    BY <1>m, <1>1, GoesTo DEF StatWork, Steps
  <2> QED
    BY <2>1, <2>2, <2>3, <2>4, <2>5 DEF TokInv
<1>2. CASE StatMarker(w)
  <2>1. TokTypes' /\ TokTruth'
    BY <1>2, QuietTruth DEF StatMarker
  <2>2. TokLocs'
    BY <1>m, <1>2, Forgotten DEF StatMarker
  <2>3. TokBridge'
    BY <1>2 DEF StatMarker, TokInv, TokBridge
  <2>4. TokFlags'
    BY <1>2, Zenon DEF StatMarker, Leave, TokInv, TokFlags
  <2>5. TokLock'
    <3>1. PICK s \in {"lock", "idle", "sync"} : Goto(w, s)
      BY <1>2 DEF StatMarker, Leave
    <3> QED
      BY <3>1, <1>2, <1>m, GoesTo DEF StatMarker, Steps
  <2> QED
    BY <2>1, <2>2, <2>3, <2>4, <2>5 DEF TokInv
<1>3. CASE LockRevoke(w)
  <2>1. TokTypes' /\ TokTruth'
    BY <1>3, QuietTruth DEF LockRevoke
  <2>2. TokLocs'
    BY <1>m, <1>3, LocSame DEF LockRevoke
  <2>3. TokBridge'
    BY <1>3 DEF LockRevoke, TokInv, TokBridge
  <2>4. TokFlags'
    BY <1>3, Zenon DEF LockRevoke, TokInv, TokFlags
  <2>5. TokLock'
    BY <1>m, <1>3, NoneIsNobody DEF LockRevoke, TokLock, Goto, Steps
  <2> QED
    BY <2>1, <2>2, <2>3, <2>4, <2>5 DEF TokInv
<1>4. CASE TakeMarker(w)
  <2>1. TokTypes' /\ TokTruth'
    BY <1>4, QuietTruth DEF TakeMarker
  <2>2. TokLocs'
    BY <1>m, <1>4, LocSame DEF TakeMarker
  <2>3. TokBridge'
    BY <1>4 DEF TakeMarker, TokInv, TokBridge
  <2>4. TokFlags'
    BY <1>4, Zenon DEF TakeMarker, Leave, TokInv, TokFlags
  <2>5. TokLock'
    <3>1. CASE tokMarker = {}
      <4>1. PICK s \in {"idle", "sync"} : Goto(w, s)
        BY <1>4, <3>1 DEF TakeMarker, Leave
      <4> QED
        BY <3>1, <4>1, <1>4, <1>m, Releases DEF TakeMarker, Steps
    <3>2. CASE tokMarker # {}
      BY <3>2, <1>4, <1>m DEF TakeMarker, Goto, TokLock, Steps
    <3> QED
      BY <3>1, <3>2
  <2> QED
    BY <2>1, <2>2, <2>3, <2>4, <2>5 DEF TokInv
<1>5. ASSUME NEW l \in Lines, ApplyLine(w, l) PROVE TokInv'
  <2>u. UNCHANGED <<tokMarker, tokWorking, revokeMu, up, tpc, loc, cleared>> /\ todo' = todo \ {l}
    BY <1>5 DEF ApplyLine
  <2>0. RevokeSet(IF l = "ALL" THEN Tok ELSE {l})
    BY <1>5 DEF ApplyLine
  <2>1. TokTypes' /\ TokTruth' /\ mtime' \in Nat /\ mtime' >= mtime
        /\ tokFaults' \in 0..MaxTokFaults /\ dirty' \in BOOLEAN
    BY <2>0, <2>u, RevokeKeeps
  <2>2. TokLocs'
    BY <2>1, <2>u, <1>m, LocSame
  <2>3. TokBridge'
    BY <2>1, <2>u DEF TokInv, TokBridge
  <2>4. TokFlags'
    BY <2>1, <2>u DEF TokInv, TokFlags
  <2>5. TokLock'
    BY <2>u DEF TokInv, TokLock
  <2> QED
    BY <2>1, <2>2, <2>3, <2>4, <2>5 DEF TokInv
<1>6. CASE RemoveWorking(w)
  <2>1. TokTypes' /\ TokTruth'
    BY <1>6, QuietTruth DEF RemoveWorking
  <2>2. TokLocs'
    BY <1>m, <1>6, LocSame DEF RemoveWorking
  <2>3. TokBridge'
    BY <1>6 DEF RemoveWorking, TokInv, TokBridge
  <2>4. TokFlags'
    BY <1>6, Zenon DEF RemoveWorking, Leave, TokInv, TokFlags
  <2>5. TokLock'
    <3>1. CASE tpc[w] # "redo"
      <4>1. PICK s \in {"idle", "sync"} : Goto(w, s)
        BY <1>6, <3>1 DEF RemoveWorking, Leave
      <4> QED
        BY <3>1, <4>1, <1>6, <1>m, Releases DEF RemoveWorking, Steps
    <3>2. CASE tpc[w] = "redo"
      BY <3>2, <1>6, <1>m DEF RemoveWorking, Goto, TokLock, Steps
    <3> QED
      BY <3>1, <3>2
  <2> QED
    BY <2>1, <2>2, <2>3, <2>4, <2>5 DEF TokInv
<1>7. CASE SyncStat(w)
  <2>1. TokTypes' /\ TokTruth'
    BY <1>7, QuietTruth DEF SyncStat
  <2>2. TokLocs'
    <3> DEFINE r == [loc[w] EXCEPT !.st = mtime]
    <3>0. mtime \in Nat
      BY Zenon DEF TokInv, TokTypes
    <3>1. r \in Remembered /\ r.mt = loc[w].mt
      BY <1>m, <3>0, RememberedSet, Zenon
    <3>2. loc' = [loc EXCEPT ![w] = r] /\ mtime' = mtime
      BY <1>7, Zenon DEF SyncStat
    <3> HIDE DEF r
    <3>3. r.mt <= mtime' /\ mtime' \in Nat /\ mtime' >= mtime
      BY <3>1, <3>2, <1>m
    <3> QED
      BY <3>1, <3>2, <3>3, <1>m, LocSet, Zenon
  <2>3. TokBridge'
    BY <1>7 DEF SyncStat, TokInv, TokBridge
  <2>4. TokFlags'
    BY <1>7, Zenon DEF SyncStat, TokInv, TokFlags
  <2>5. TokLock'
    BY <1>m, <1>7, GoesTo DEF SyncStat, Steps
  <2> QED
    BY <2>1, <2>2, <2>3, <2>4, <2>5 DEF TokInv
<1>8. CASE SyncAct(w)
  <2>0. UNCHANGED <<dirty, tokDisk, mtime, tokMarker, tokWorking, revokeMu, todo, up, tokFaults, promise>>
        /\ (ForgetAll \/ UNCHANGED <<mem, lastRead, cleared>>)
    BY <1>8, Zenon DEF SyncAct
  <2>1. TokTypes' /\ TokTruth'
    <3>1. CASE ForgetAll
      <4>1. mem' = Empty /\ lastRead' = 0 /\ (~cleared' => ~cleared /\ ~(mtime > 0))
        BY <3>1, Zenon DEF ForgetAll
      <4> QED
        BY <2>0, <4>1, <1>m, EmptyTyped DEF TokInv, TokTypes, TokTruth
    <3>2. CASE UNCHANGED <<mem, lastRead, cleared>>
      BY <2>0, <3>2, QuietTruth
    <3> QED
      BY <2>0, <3>1, <3>2
  <2>2. TokLocs'
    BY <1>m, <1>8, Forgotten DEF SyncAct
  <2>3. TokBridge'
    BY <2>0 DEF TokInv, TokBridge
  <2>4. TokFlags'
    BY <2>0, Zenon DEF TokInv, TokFlags, ForgetAll
  <2>5. TokLock'
    <3>1. PICK s \in {"stat1", "verify"} : Goto(w, s)
      BY <1>8 DEF SyncAct
    <3> QED
      BY <3>1, <1>8, <1>m, GoesTo DEF SyncAct, Steps
  <2> QED
    BY <2>1, <2>2, <2>3, <2>4, <2>5 DEF TokInv
<1>9. CASE ReloadStat1(w)
  <2>1. TokTypes' /\ TokTruth'
    BY <1>9, QuietTruth DEF ReloadStat1
  <2>2. TokLocs'
    <3> DEFINE r == [loc[w] EXCEPT !.st = mtime]
    <3>0. mtime \in Nat
      BY Zenon DEF TokInv, TokTypes
    <3>1. r \in Remembered /\ r.mt = loc[w].mt
      BY <1>m, <3>0, RememberedSet, Zenon
    <3>2. loc' = [loc EXCEPT ![w] = r] /\ mtime' = mtime
      BY <1>9, Zenon DEF ReloadStat1
    <3> HIDE DEF r
    <3>3. r.mt <= mtime' /\ mtime' \in Nat /\ mtime' >= mtime
      BY <3>1, <3>2, <1>m
    <3> QED
      BY <3>1, <3>2, <3>3, <1>m, LocSet, Zenon
  <2>3. TokBridge'
    BY <1>9 DEF ReloadStat1, TokInv, TokBridge
  <2>4. TokFlags'
    BY <1>9, Zenon DEF ReloadStat1, TokInv, TokFlags
  <2>5. TokLock'
    BY <1>m, <1>9, GoesTo DEF ReloadStat1, Steps
  <2> QED
    BY <2>1, <2>2, <2>3, <2>4, <2>5 DEF TokInv
<1>10. CASE ReloadRead(w)
  <2>1. TokTypes' /\ TokTruth'
    BY <1>10, QuietTruth DEF ReloadRead
  <2>2. TokLocs'
    <3> DEFINE r == [loc[w] EXCEPT !.data = tokDisk]
    <3>0. tokDisk \in [Tok -> State]
      BY Zenon DEF TokInv, TokTypes
    <3>1. r \in Remembered /\ r.mt = loc[w].mt
      BY <1>m, <3>0, RememberedSet, Zenon
    <3>2. loc' = [loc EXCEPT ![w] = r] /\ mtime' = mtime
      BY <1>10, Zenon DEF ReloadRead
    <3> HIDE DEF r
    <3>3. r.mt <= mtime' /\ mtime' \in Nat /\ mtime' >= mtime
      BY <3>1, <3>2, <1>m
    <3> QED
      BY <3>1, <3>2, <3>3, <1>m, LocSet, Zenon
  <2>3. TokBridge'
    BY <1>10 DEF ReloadRead, TokInv, TokBridge
  <2>4. TokFlags'
    BY <1>10, Zenon DEF ReloadRead, TokInv, TokFlags
  <2>5. TokLock'
    BY <1>m, <1>10, GoesTo DEF ReloadRead, Steps
  <2> QED
    BY <2>1, <2>2, <2>3, <2>4, <2>5 DEF TokInv
<1>11. CASE ReloadStat2(w)
  <2>1. TokTypes' /\ TokTruth'
    BY <1>11, QuietTruth DEF ReloadStat2
  <2>2. TokLocs'
    <3>1. /\ mtime' = mtime /\ loc[w].try \in Nat
          /\ \/ loc' = [loc EXCEPT ![w].mt = mtime]
             \/ loc' = [loc EXCEPT ![w].try = loc[w].try + 1]
      BY <1>m, <1>11 DEF ReloadStat2, Remembered
    <3>2. CASE loc' = [loc EXCEPT ![w].mt = mtime]
      <4> DEFINE r == [loc[w] EXCEPT !.mt = mtime]
      <4>1. r \in Remembered /\ r.mt <= mtime
        BY <1>m, RememberedSet
      <4>2. loc' = [loc EXCEPT ![w] = r]
        BY <3>2, Zenon
      <4> HIDE DEF r
      <4>3. r.mt <= mtime' /\ mtime' \in Nat /\ mtime' >= mtime
        BY <3>1, <4>1, <1>m
      <4> QED
        BY <4>1, <4>2, <4>3, <1>m, LocSet, Zenon
    <3>3. CASE loc' = [loc EXCEPT ![w].try = loc[w].try + 1]
      <4> DEFINE r == [loc[w] EXCEPT !.try = loc[w].try + 1]
      <4>1. r \in Remembered /\ r.mt <= mtime
        BY <1>m, <3>1, RememberedSet
      <4>2. loc' = [loc EXCEPT ![w] = r]
        BY <3>3, Zenon
      <4> HIDE DEF r
      <4>3. r.mt <= mtime' /\ mtime' \in Nat /\ mtime' >= mtime
        BY <3>1, <4>1, <1>m
      <4> QED
        BY <4>1, <4>2, <4>3, <1>m, LocSet, Zenon
    <3> QED
      BY <3>1, <3>2, <3>3
  <2>3. TokBridge'
    BY <1>11 DEF ReloadStat2, TokInv, TokBridge
  <2>4. TokFlags'
    BY <1>11, Zenon DEF ReloadStat2, TokInv, TokFlags
  <2>5. TokLock'
    <3>1. PICK s \in {"install", "stat1"} : Goto(w, s)
      BY <1>11 DEF ReloadStat2
    <3> QED
      BY <3>1, <1>11, <1>m, GoesTo DEF ReloadStat2, Steps
  <2> QED
    BY <2>1, <2>2, <2>3, <2>4, <2>5 DEF TokInv
<1>12. CASE ReloadInstall(w)
  <2>0. UNCHANGED <<dirty, tokDisk, mtime, tokMarker, tokWorking, revokeMu, todo, up, tokFaults, promise, cleared>>
    BY <1>12 DEF ReloadInstall
  <2>1. TokTypes' /\ TokTruth'
    <3>1. CASE lastRead >= loc[w].mt
      BY <1>12, <2>0, <3>1, QuietTruth DEF ReloadInstall
    <3>2. CASE ~(lastRead >= loc[w].mt)
      <4>1. mem' = loc[w].data /\ lastRead' = loc[w].mt
        BY <1>12, <3>2 DEF ReloadInstall
      <4>2. loc[w].data \in [Tok -> State] /\ loc[w].mt \in Nat
        BY <1>m DEF Remembered
      <4>3. cleared
        BY <1>m, <3>2, <4>2 DEF TokInv, TokTypes, TokTruth
      <4> QED
        BY <2>0, <4>1, <4>2, <4>3, <1>m DEF TokInv, TokTypes, TokTruth
    <3> QED
      BY <3>1, <3>2
  <2>2. TokLocs'
    BY <1>m, <1>12, Forgotten DEF ReloadInstall
  <2>3. TokBridge'
    BY <2>0 DEF TokInv, TokBridge
  <2>4. TokFlags'
    BY <2>0 DEF TokInv, TokFlags
  <2>5. TokLock'
    BY <1>m, <1>12, GoesTo DEF ReloadInstall, Steps
  <2> QED
    BY <2>1, <2>2, <2>3, <2>4, <2>5 DEF TokInv
<1>13. CASE Verify(w)
  <2>1. TokTypes' /\ TokTruth'
    BY <1>13, QuietTruth DEF Verify
  <2>2. TokLocs'
    <3>1. CASE End(w)
      BY <3>1, <1>13, <1>m, EndForgets DEF Verify
    <3>2. CASE UNCHANGED loc
      BY <3>2, <1>13, <1>m, LocSame DEF Verify
    <3> QED
      BY <1>13, <3>1, <3>2 DEF Verify
  <2>3. TokBridge'
    BY <1>13 DEF Verify, TokInv, TokBridge
  <2>4. TokFlags'
    BY <1>13, Zenon DEF Verify, TokInv, TokFlags
  <2>5. TokLock'
    <3>1. PICK s \in {"idle", "touch", "revoke"} : Goto(w, s)
      BY <1>13 DEF Verify, End
    <3> QED
      BY <3>1, <1>13, <1>m, GoesTo DEF Verify, Steps
  <2> QED
    BY <2>1, <2>2, <2>3, <2>4, <2>5 DEF TokInv
<1>14. CASE UpdateLastSeen(w)
  <2>1. TokTypes' /\ TokTruth'
    BY <1>14, QuietTruth DEF UpdateLastSeen
  <2>2. TokLocs'
    BY <1>14, <1>m, EndForgets DEF UpdateLastSeen
  <2>3. TokBridge'
    BY <1>14 DEF UpdateLastSeen, TokInv, TokBridge
  <2>4. TokFlags'
    BY <1>14, Zenon DEF UpdateLastSeen, TokInv, TokFlags
  <2>5. TokLock'
    BY <1>m, <1>14, GoesTo DEF UpdateLastSeen, Steps, End
  <2> QED
    BY <2>1, <2>2, <2>3, <2>4, <2>5 DEF TokInv
<1>15. CASE LogoutRevoke(w)
  <2>u. UNCHANGED <<tokMarker, tokWorking, revokeMu, up, cleared, todo>> /\ End(w) /\ tpc[w] = "revoke"
    BY <1>15 DEF LogoutRevoke
  <2>0. RevokeSet({loc[w].tok})
    BY <1>15 DEF LogoutRevoke
  <2>1. TokTypes' /\ TokTruth' /\ mtime' \in Nat /\ mtime' >= mtime
        /\ tokFaults' \in 0..MaxTokFaults /\ dirty' \in BOOLEAN
    BY <2>0, <2>u, RevokeKeeps
  <2>2. TokLocs'
    BY <2>1, <2>u, <1>m, EndForgets
  <2>3. TokBridge'
    BY <2>1, <2>u DEF TokInv, TokBridge
  <2>4. TokFlags'
    BY <2>1, <2>u DEF TokInv, TokFlags
  <2>5. TokLock'
    BY <2>u, <1>m, GoesTo DEF End, Steps
  <2> QED
    BY <2>1, <2>2, <2>3, <2>4, <2>5 DEF TokInv
<1> QED
  BY <1>1, <1>2, <1>3, <1>4, <1>5, <1>6, <1>7, <1>8, <1>9, <1>10, <1>11, <1>12, <1>13, <1>14, <1>15
  DEF TokStep

\* A save, or its failure, leaves goroutines, bridge and lock alone.
LEMMA RestKept ==
  ASSUME TokInv, TokTypes', TokTruth', mtime' \in Nat, mtime' >= mtime,
         tokFaults' \in 0..MaxTokFaults, dirty' \in BOOLEAN,
         UNCHANGED <<tokMarker, tokWorking, revokeMu, todo, up, tpc, loc, cleared>>
  PROVE  TokInv'
<1>1. TokLocs'
  BY LocSame DEF TokInv, TokTypes
<1> QED
  BY <1>1 DEF TokInv, TokBridge, TokFlags, TokLock

\* So does every step of anybody else.
LEMMA TokOtherSteps ==
  ASSUME TokInv, TokNext, ~(\E w \in Worker : TokStep(w))
  PROVE  TokInv'
<1>m. mtime \in Nat /\ TokLocs /\ TokLock
  BY DEF TokInv, TokTypes
<1>d. dirty \in BOOLEAN /\ up \in BOOLEAN /\ cleared \in BOOLEAN /\ tokFaults \in 0..MaxTokFaults
  BY DEF TokInv, TokFlags, TokBridge
<1>1. ASSUME NEW w \in Req, NEW t \in Tok, BeginRequest(w, t) PROVE TokInv'
  <2>w. w \in Worker
    BY DEF Worker
  <2>1. TokTypes' /\ TokTruth' /\ TokBridge' /\ TokFlags'
    BY <1>1, QuietTruth DEF BeginRequest, TokInv, TokBridge, TokFlags
  <2>2. TokLocs'
    <3> DEFINE o == ({t, "ALL"} \cap (tokMarker \cup tokWorking) # {})
               a == [NoLoc EXCEPT !.tok = t]
               b == [a EXCEPT !.owed = o]
    <3>0. o \in BOOLEAN /\ t \in Tok \cup {"none"}
      BY Zenon
    <3>1. a \in Remembered /\ a.mt = 0
      BY <3>0, EmptyTyped, RememberedSet, Zenon
    <3> HIDE DEF a
    <3>2. b \in Remembered /\ b.mt = 0
      BY <3>0, <3>1, RememberedSet, Zenon
    <3>3. loc' = [loc EXCEPT ![w] = b]
      BY <1>1, Zenon DEF BeginRequest, a
    <3> HIDE DEF b
    <3>4. b.mt <= mtime' /\ mtime' \in Nat /\ mtime' >= mtime
      BY <1>1, <1>m, <3>2 DEF BeginRequest
    <3> QED
      BY <2>w, <3>2, <3>3, <3>4, <1>m, LocSet, Zenon
  <2>3. TokLock'
    BY <1>1, <1>m, <2>w, GoesTo DEF BeginRequest, Steps
  <2> QED
    BY <2>1, <2>2, <2>3 DEF TokInv
<1>2. ASSUME NEW w \in Req, NEW t \in Tok, BeginLogout(w, t) PROVE TokInv'
  <2>w. w \in Worker
    BY DEF Worker
  <2>1. TokTypes' /\ TokTruth' /\ TokBridge' /\ TokFlags'
    BY <1>2, QuietTruth DEF BeginLogout, TokInv, TokBridge, TokFlags
  <2>2. TokLocs'
    <3> DEFINE a == [NoLoc EXCEPT !.tok = t]
    <3>1. a \in Remembered /\ a.mt = 0
      BY EmptyTyped, RememberedSet, Zenon
    <3>3. loc' = [loc EXCEPT ![w] = a]
      BY <1>2, Zenon DEF BeginLogout
    <3> HIDE DEF a
    <3>4. a.mt <= mtime' /\ mtime' \in Nat /\ mtime' >= mtime
      BY <1>2, <1>m, <3>1 DEF BeginLogout
    <3> QED
      BY <2>w, <3>1, <3>3, <3>4, <1>m, LocSet, Zenon
  <2>3. TokLock'
    BY <1>2, <1>m, <2>w, GoesTo DEF BeginLogout, Steps
  <2> QED
    BY <2>1, <2>2, <2>3 DEF TokInv
<1>3. ASSUME NEW t \in Tok, IssueToken(t) PROVE TokInv'
  <2>u. /\ mem[t] = "none" /\ tokDisk[t] = "none" /\ promise[t] = "none"
        /\ mem' = [mem EXCEPT ![t] = "live"]
        /\ UNCHANGED <<tokMarker, tokWorking, revokeMu, todo, up, tpc, loc, cleared>>
        /\ \/ SaveOk(mem') /\ promise' = [x \in Tok |-> IF x = t THEN "live" ELSE promise[x]]
           \/ TokSaveFails /\ UNCHANGED promise
    BY <1>3 DEF IssueToken, Told
  <2>1. mem' \in [Tok -> State]
    BY <2>u DEF TokInv, TokTypes, State
  <2>2. CASE SaveOk(mem') /\ promise' = [x \in Tok |-> IF x = t THEN "live" ELSE promise[x]]
    <3>1. promise' \in [Tok -> State]
      BY <2>2 DEF TokInv, TokTypes, State
    <3>2. TokTypes' /\ TokTruth'
      BY <2>u, <2>1, <2>2, <3>1, SavedTruth DEF TokInv, TokTypes, TokTruth
    <3>3. mtime' = mtime + 1 /\ tokFaults' = tokFaults /\ dirty' \in BOOLEAN
      BY <2>2 DEF SaveOk
    <3> QED
      BY <2>u, <3>2, <3>3, <1>m, <1>d, RestKept
  <2>3. CASE TokSaveFails /\ UNCHANGED promise
    <3>1. UNCHANGED <<tokDisk, mtime, lastRead, dirty>> /\ tokFaults' \in 0..MaxTokFaults
      BY <2>3, <1>d, TokenConstants DEF TokSaveFails, TokFault
    <3>2. TokTypes' /\ TokTruth'
      BY <2>u, <2>1, <2>3, <3>1 DEF TokInv, TokTypes, TokTruth
    <3> QED
      BY <2>u, <3>1, <3>2, <1>m, <1>d, RestKept
  <2> QED
    BY <2>u, <2>2, <2>3
<1>4. ASSUME NEW t \in Tok, Prune(t) PROVE TokInv'
  <2>u. /\ mem' = [mem EXCEPT ![t] = "none"]
        /\ UNCHANGED <<tokMarker, tokWorking, revokeMu, todo, up, tpc, loc, cleared>>
        /\ promise' = [x \in Tok |-> IF x = t THEN "none" ELSE promise[x]]
        /\ SaveOk(mem') \/ TokSaveFails
    BY <1>4 DEF Prune, Told
  <2>1. mem' \in [Tok -> State] /\ promise' \in [Tok -> State]
    BY <2>u DEF TokInv, TokTypes, State
  <2>2. CASE SaveOk(mem')
    <3>2. TokTypes' /\ TokTruth'
      BY <2>u, <2>1, <2>2, SavedTruth DEF TokInv, TokTypes, TokTruth
    <3>3. mtime' = mtime + 1 /\ tokFaults' = tokFaults /\ dirty' \in BOOLEAN
      BY <2>2 DEF SaveOk
    <3> QED
      BY <2>u, <3>2, <3>3, <1>m, <1>d, RestKept
  <2>3. CASE TokSaveFails
    <3>1. UNCHANGED <<tokDisk, mtime, lastRead, dirty>> /\ tokFaults' \in 0..MaxTokFaults
      BY <2>3, <1>d, TokenConstants DEF TokSaveFails, TokFault
    <3>2. TokTypes' /\ TokTruth'
      BY <2>u, <2>1, <3>1 DEF TokInv, TokTypes, TokTruth
    <3> QED
      BY <2>u, <3>1, <3>2, <1>m, <1>d, RestKept
  <2> QED
    BY <2>u, <2>2, <2>3
<1>5. ASSUME NEW l \in Lines, ShellRevoke(l) PROVE TokInv'
  BY <1>5, <1>m, QuietTruth, LocSame DEF ShellRevoke, TokInv, TokBridge, TokFlags, TokLock
<1>6. CASE BeginPoll
  <2>1. TokTypes' /\ TokTruth' /\ TokBridge' /\ TokFlags'
    BY <1>6, QuietTruth DEF BeginPoll, TokInv, TokBridge, TokFlags
  <2>2. TokLocs'
    BY <1>6, <1>m, LocSame DEF BeginPoll
  <2>3. TokLock'
    BY <1>6, <1>m, GoesTo DEF BeginPoll, Steps, Worker
  <2> QED
    BY <2>1, <2>2, <2>3 DEF TokInv
<1>7. CASE FlushIfDirty
  <2>u. UNCHANGED <<mem, tokMarker, tokWorking, revokeMu, todo, up, tpc, loc, promise, cleared>>
    BY <1>7 DEF FlushIfDirty
  <2>2. CASE SaveOk(mem)
    <3>1. SaveOk(mem') /\ mem' \in [Tok -> State] /\ promise' \in [Tok -> State]
      BY <2>u, <2>2 DEF TokInv, TokTypes
    <3>2. TokTypes' /\ TokTruth'
      BY <2>u, <3>1, SavedTruth DEF TokInv, TokTypes, TokTruth
    <3>3. mtime' = mtime + 1 /\ tokFaults' = tokFaults /\ dirty' \in BOOLEAN
      BY <2>2 DEF SaveOk
    <3> QED
      BY <2>u, <3>2, <3>3, <1>m, <1>d, RestKept
  <2>3. CASE TokSaveFails
    <3>1. UNCHANGED <<tokDisk, mtime, lastRead, dirty>> /\ tokFaults' \in 0..MaxTokFaults
      BY <2>3, <1>d, TokenConstants DEF TokSaveFails, TokFault
    <3>2. TokTypes' /\ TokTruth'
      BY <2>u, <3>1, QuietTruth
    <3> QED
      BY <2>u, <3>1, <3>2, <1>m, <1>d, RestKept
  <2> QED
    BY <1>7, <2>2, <2>3 DEF FlushIfDirty
<1>8. ASSUME Die, (mem' = tokDisk /\ tokDisk' = tokDisk) \/ (tokDisk' = mem /\ mem' = mem)
      PROVE  TokInv'
  <2>1. /\ lastRead' = mtime /\ revokeMu' = "none" /\ todo' = {} /\ mtime' = mtime
        /\ tpc' = [w \in Worker |-> "idle"] /\ loc' = [w \in Worker |-> NoLoc]
        /\ UNCHANGED <<tokMarker, tokWorking, promise, cleared>>
    BY <1>8, Zenon DEF Die
  <2>2. dirty' \in BOOLEAN /\ up' \in BOOLEAN /\ TokFault
    BY <1>8, Zenon DEF Die
  <2>3. TokTypes' /\ TokTruth'
    BY <1>8, <2>1 DEF TokInv, TokTypes, TokTruth
  <2>4. TokLocs'
    BY <2>1, <1>m, EmptyTyped DEF TokLocs
  <2>5. TokBridge'
    BY <2>1, <2>2, <1>d, TokenConstants DEF TokInv, TokBridge, TokFault
  <2>6. TokFlags'
    BY <2>1, <2>2 DEF TokInv, TokFlags
  <2>7. TokLock'
    BY <2>1, NoneIsNobody DEF TokLock, Steps
  <2> QED
    BY <2>3, <2>4, <2>5, <2>6, <2>7 DEF TokInv
<1>9. CASE Crash
  BY <1>8, <1>9 DEF Crash
<1>10. CASE Shutdown
  BY <1>8, <1>10 DEF Shutdown
<1> QED
  BY <1>1, <1>2, <1>3, <1>4, <1>5, <1>6, <1>7, <1>9, <1>10 DEF TokNext

\* Every step of the token store keeps the invariant.
LEMMA TokensStep == ASSUME TokInv, [TokNext]_tokVars PROVE TokInv'
<1>1. CASE UNCHANGED tokVars
  BY <1>1 DEF tokVars, TokInv, TokTypes, TokTruth, TokLocs, TokBridge, TokFlags, TokLock
<1> QED
  BY <1>1, TokWorkerStep, TokOtherSteps

-----------------------------------------------------------------------------
(* The write limiter, the simulated devices and the actions.               *)

\* A set of numbers that is not empty has a least one.
LEMMA LeastOf ==
  ASSUME NEW T \in SUBSET Nat, T # {}
  PROVE  \E m \in T : \A n \in T : m <= n
<1> DEFINE R == OpToRel(<, Nat)
<1>1. IsWellFoundedOn(R, Nat)
  BY NatLessThanWellFounded
<1>2. \A x, y \in Nat : y < x => <<y, x>> \in R
  BY DEF OpToRel
<1> HIDE DEF R
<1>3. PICK m \in T : \A y \in T : ~ (<<y, m>> \in R)
  BY <1>1, WFMin
<1>4. ASSUME NEW n \in T PROVE m <= n
  <2>1. m \in Nat /\ n \in Nat
    OBVIOUS
  <2>2. ~ (n < m)
    BY <1>2, <1>3, <2>1
  <2> QED
    BY <2>1, <2>2
<1> QED
  BY <1>4

\* The rest of a sequence after its first k elements.
LEMMA SubSeqFrom ==
  ASSUME NEW S, NEW s \in Seq(S), NEW k \in 0..Len(s)
  PROVE  /\ SubSeq(s, k + 1, Len(s)) \in Seq(S) /\ Len(SubSeq(s, k + 1, Len(s))) = Len(s) - k
         /\ \A i \in 1..(Len(s) - k) : SubSeq(s, k + 1, Len(s))[i] = s[k + i]
<1>1. /\ SubSeq(s, k + 1, Len(s)) \in Seq(S) /\ Len(SubSeq(s, k + 1, Len(s))) = Len(s) - k
      /\ \A i \in 1..(Len(s) - (k + 1) + 1) : SubSeq(s, k + 1, Len(s))[i] = s[(k + 1) + i - 1]
  BY SubSeqProperties
<1>2. ASSUME NEW i \in 1..(Len(s) - k) PROVE SubSeq(s, k + 1, Len(s))[i] = s[k + i]
  <2>1. i \in 1..(Len(s) - (k + 1) + 1) /\ (k + 1) + i - 1 = k + i
    OBVIOUS
  <2> QED
    BY <1>1, <2>1
<1> QED
  BY <1>1, <1>2

Old(s, i, n) == s[i] + WriteWindow <= n

\* Where the window begins.
Starts(s, n, k) == /\ k \in 0..Len(s)
                   /\ \A j \in 1..k : Old(s, j, n)
                   /\ k < Len(s) => ~Old(s, k + 1, n)

\* The window is the rest of the history after the place where it starts.
LEMMA StartsOnce ==
  ASSUME NEW s \in Seq(Nat), NEW n \in Nat, NEW k, Starts(s, n, k)
  PROVE  Sliding(s, n) = SubSeq(s, k + 1, Len(s))
<1> DEFINE gone == {i \in 1..Len(s) : \A j \in 1..i : s[j] + WriteWindow <= n}
<1>0. k \in Nat /\ k <= Len(s) /\ Len(s) \in Nat
  BY DEF Starts
<1>1. gone = 1..k
  <2>1. ASSUME NEW i \in gone PROVE i \in 1..k
    BY <2>1, <1>0 DEF Starts, Old
  <2>2. ASSUME NEW i \in 1..k PROVE i \in gone
    BY <2>2, <1>0 DEF Starts, Old
  <2> QED
    BY <2>1, <2>2
<1>2. Cardinality(gone) = k
  <2>1. Cardinality(1..k) = IF 1 > k THEN 0 ELSE k - 1 + 1
    BY <1>0, FS_Interval
  <2>2. Cardinality(1..k) = k
    BY <1>0, <2>1
  <2> QED
    BY <1>1, <2>2, Zenon
<1> QED
  BY <1>2 DEF Sliding

\* The window starts somewhere.
LEMMA StartsSomewhere ==
  ASSUME NEW s \in Seq(Nat), NEW n \in Nat
  PROVE  \E k \in 0..Len(s) : Starts(s, n, k) /\ Sliding(s, n) = SubSeq(s, k + 1, Len(s))
<1> DEFINE Young == {i \in 1..Len(s) : ~Old(s, i, n)}
<1>1. CASE Young = {}
  <2>1. Starts(s, n, Len(s))
    BY <1>1 DEF Starts
  <2> QED
    BY <2>1, StartsOnce
<1>2. CASE Young # {}
  <2>1. Young \in SUBSET Nat
    OBVIOUS
  <2>2. PICK y \in Young : \A m \in Young : y <= m
    BY <1>2, <2>1, LeastOf
  <2>3. Starts(s, n, y - 1)
    BY <2>2 DEF Starts
  <2>4. y - 1 \in 0..Len(s)
    BY <2>2
  <2> QED
    BY <2>3, <2>4, StartsOnce
<1> QED
  BY <1>1, <1>2

\* The window holds times of the history.
LEMMA SlidingTyped ==
  ASSUME NEW H \in Nat, NEW s \in Seq(0..H), NEW n \in Nat
  PROVE  /\ Sliding(s, n) \in Seq(0..H) /\ Len(Sliding(s, n)) <= Len(s)
         /\ \A i \in 1..Len(Sliding(s, n)) : \E j \in 1..Len(s) : Sliding(s, n)[i] = s[j]
<1>1. s \in Seq(Nat)
  BY SeqDef
<1>2. PICK k \in 0..Len(s) : Sliding(s, n) = SubSeq(s, k + 1, Len(s))
  BY <1>1, StartsSomewhere
<1>3. SubSeq(s, k + 1, Len(s)) \in Seq(0..H) /\ Len(SubSeq(s, k + 1, Len(s))) = Len(s) - k
  BY SubSeqProperties
<1>4. \A i \in 1..(Len(s) - k) : SubSeq(s, k + 1, Len(s))[i] = s[k + i]
  BY SubSeqProperties
<1> QED
  BY <1>2, <1>3, <1>4

\* Sliding twice is sliding to the later time.
LEMMA SlidingAgain ==
  ASSUME NEW s \in Seq(Nat), NEW n \in Nat, NEW m \in Nat, n <= m
  PROVE  Sliding(Sliding(s, n), m) = Sliding(s, m)
<1>1. PICK k \in 0..Len(s) : Starts(s, n, k) /\ Sliding(s, n) = SubSeq(s, k + 1, Len(s))
  BY StartsSomewhere
<1> DEFINE r == SubSeq(s, k + 1, Len(s))
<1>2. r \in Seq(Nat) /\ Len(r) = Len(s) - k /\ \A i \in 1..(Len(s) - k) : r[i] = s[k + i]
  BY SubSeqFrom
<1> HIDE DEF r
<1>3. PICK l \in 0..Len(r) : Starts(r, m, l) /\ Sliding(r, m) = SubSeq(r, l + 1, Len(r))
  BY <1>2, StartsSomewhere
<1>4. Starts(s, m, k + l)
  <2>1. k + l \in 0..Len(s)
    BY <1>2
  <2>2. ASSUME NEW j \in 1..(k + l) PROVE Old(s, j, m)
    <3>1. CASE j <= k
      BY <1>1, <3>1, ActionAssumption DEF Starts, Old
    <3>2. CASE j > k
      <4>1. j - k \in 1..l /\ j - k \in 1..(Len(s) - k)
        BY <1>2, <3>2
      <4>2. r[j - k] = s[k + (j - k)] /\ k + (j - k) = j
        BY <1>2, <4>1
      <4>3. Old(r, j - k, m)
        BY <1>3, <4>1 DEF Starts
      <4> QED
        BY <4>2, <4>3 DEF Old
    <3> QED
      BY <3>1, <3>2
  <2>3. ASSUME k + l < Len(s) PROVE ~Old(s, k + l + 1, m)
    <3>1. l < Len(r) /\ l + 1 \in 1..(Len(s) - k)
      BY <1>2, <2>3
    <3>2. r[l + 1] = s[k + (l + 1)] /\ k + (l + 1) = k + l + 1
      BY <1>2, <3>1
    <3>3. ~Old(r, l + 1, m)
      BY <1>3, <3>1 DEF Starts
    <3> QED
      BY <3>2, <3>3 DEF Old
  <2> QED
    BY <2>1, <2>2, <2>3 DEF Starts
<1>5. Sliding(s, m) = SubSeq(s, k + l + 1, Len(s))
  BY <1>4, StartsOnce
<1> DEFINE a == SubSeq(s, k + l + 1, Len(s))
           b == SubSeq(r, l + 1, Len(r))
<1>p. k + l \in 0..Len(s)
  BY <1>2
<1>6. a \in Seq(Nat) /\ Len(a) = Len(s) - k - l /\ \A i \in 1..(Len(s) - k - l) : a[i] = s[k + l + i]
  <2> DEFINE p == k + l
  <2>1. p \in 0..Len(s)
    BY <1>p
  <2> HIDE DEF p
  <2>2. LET c == SubSeq(s, p + 1, Len(s)) IN
          c \in Seq(Nat) /\ Len(c) = Len(s) - p /\ \A i \in 1..(Len(s) - p) : c[i] = s[p + i]
    BY <2>1, SubSeqFrom
  <2>3. Len(s) - p = Len(s) - k - l
    BY <2>1 DEF p
  <2> QED
    BY <2>2, <2>3 DEF p
<1>7. b \in Seq(Nat) /\ Len(b) = Len(s) - k - l /\ \A i \in 1..(Len(s) - k - l) : b[i] = r[l + i]
  BY <1>2, SubSeqFrom
<1> HIDE DEF a, b
<1>8. \A i \in 1..(Len(s) - k - l) : r[l + i] = s[k + l + i]
  <2> TAKE i \in 1..(Len(s) - k - l)
  <2>1. l + i \in 1..(Len(s) - k) /\ k + (l + i) = k + l + i
    OBVIOUS
  <2> QED
    BY <1>2, <2>1
<1>9. a = b
  BY <1>6, <1>7, <1>8, SeqEqual
<1> QED
  BY <1>1, <1>3, <1>5, <1>9 DEF r, a, b

\* A time that is accepted now is in the window.
LEMMA SlidingAppend ==
  ASSUME NEW s \in Seq(Nat), NEW n \in Nat, Sliding(s, n) = s
  PROVE  Sliding(Append(s, n), n) = Append(s, n)
<1>1. PICK k \in 0..Len(s) : Starts(s, n, k) /\ Sliding(s, n) = SubSeq(s, k + 1, Len(s))
  BY StartsSomewhere
<1>2. Len(SubSeq(s, k + 1, Len(s))) = Len(s) - k
  BY SubSeqProperties
<1>3. k = 0
  BY <1>1, <1>2
<1> DEFINE r == Append(s, n)
<1>4. r \in Seq(Nat) /\ Len(r) = Len(s) + 1 /\ r[Len(s) + 1] = n
      /\ \A i \in 1..Len(s) : r[i] = s[i]
  BY AppendProperties
<1> HIDE DEF r
<1>5. ~Old(r, 1, n)
  <2>1. CASE Len(s) = 0
    BY <1>4, <2>1, ActionAssumption DEF Old
  <2>2. CASE Len(s) > 0
    BY <1>1, <1>3, <1>4, <2>2 DEF Starts, Old
  <2> QED
    BY <2>1, <2>2
<1>6. Starts(r, n, 0)
  BY <1>4, <1>5 DEF Starts
<1>7. Sliding(r, n) = SubSeq(r, 0 + 1, Len(r))
  BY <1>4, <1>6, StartsOnce, Zenon
<1> QED
  BY <1>4, <1>7, SubSeqFull DEF r

Entry == [stamps : Seq(0..ActHorizon), lastSeen : 0..ActHorizon]
Stands == [at : {"idle", "queued", "script", "answer"}, req : Requests \cup {NoRequest}]
SimStore == [on : BOOLEAN, dev : [SimMac -> SimStates]]

ActTimes == /\ actClk \in 0..ActHorizon /\ entries \in [Caller -> Entry]
            /\ writes \in [Caller -> Seq(0..ActHorizon)]
ActWindow == \A t \in Caller :
  /\ writes[t] = Sliding(entries[t].stamps, actClk)
  /\ Len(entries[t].stamps) <= WriteMax
  /\ entries[t].lastSeen <= actClk
  /\ \A i \in 1..Len(entries[t].stamps) : entries[t].stamps[i] <= entries[t].lastSeen
ActPosted ==
  /\ posted \in [Caller -> Stands]
  /\ \A t \in Caller : posted[t].at = "queued" => posted[t].req \in Requests
  /\ \A t \in Caller : posted[t].at = "script" => posted[t].req.mac \in SimMac \cup RealMac
ActSim == /\ simMem \in SimStore /\ simFile \in SimStore
          /\ simFlag \in BOOLEAN /\ unsaved \in BOOLEAN /\ actCnt \in 0..MaxActFaults
ActInv == /\ ActTimes /\ ActWindow /\ ActPosted /\ ActSim /\ strays \subseteq SimMac \cup RealMac
          /\ SimUntouched /\ SimSaved

\* The invariant gives the types.
LEMMA ActTyped == ActInv => ActTypeOK
<1> SUFFICES ASSUME ActInv PROVE ActTypeOK
  OBVIOUS
<1>1. \A t \in Caller : /\ entries[t].stamps \in Seq(0..ActHorizon)
                        /\ entries[t].lastSeen \in 0..ActHorizon
                        /\ writes[t] \in Seq(0..ActHorizon)
  BY DEF ActInv, ActTimes, Entry
<1>2. \A t \in Caller : /\ posted[t].at \in {"idle", "queued", "script", "answer"}
                        /\ posted[t].req \in Requests \cup {NoRequest}
  BY DEF ActInv, ActPosted, Stands
<1> QED
  BY <1>1, <1>2, Zenon DEF ActTypeOK, ActInv, ActTimes, ActSim, SimStore

\* The invariant bounds the writes of a caller.
LEMMA WritesBounded == ActInv => WriteBound
<1> SUFFICES ASSUME ActInv, NEW t \in Caller PROVE Len(writes[t]) <= WriteMax
  BY DEF WriteBound
<1>1. entries[t].stamps \in Seq(0..ActHorizon) /\ actClk \in Nat /\ ActHorizon \in Nat
  BY ActionAssumption DEF ActInv, ActTimes, Entry
<1>2. Len(Sliding(entries[t].stamps, actClk)) <= Len(entries[t].stamps)
      /\ Sliding(entries[t].stamps, actClk) \in Seq(0..ActHorizon)
  BY <1>1, SlidingTyped
<1> QED
  BY <1>1, <1>2, ActionAssumption DEF ActInv, ActWindow

\* The window of no history is empty.
LEMMA NothingInWindow ==
  ASSUME NEW n \in Nat
  PROVE  Sliding(<<>>, n) = <<>>
<1>1. <<>> \in Seq(Nat) /\ Len(<<>>) = 0
  OBVIOUS
<1>2. Starts(<<>>, n, 0)
  BY <1>1 DEF Starts
<1>3. Sliding(<<>>, n) = SubSeq(<<>>, 0 + 1, Len(<<>>))
  BY <1>1, <1>2, StartsOnce, Zenon
<1> QED
  BY <1>1, <1>3, SubSeqFull

\* A new entry of the limiter is empty.
LEMMA FreshTyped == /\ FreshEntry \in Entry /\ FreshEntry.stamps = <<>> /\ FreshEntry.lastSeen = 0
BY ActionAssumption DEF FreshEntry, Entry

\* No request under way.
LEMMA IdlerTyped ==
  /\ Idler \in Stands
  /\ Idler.at = "idle"
BY DEF Idler, Stands

\* No history, no request, no simulated device.
LEMMA ActStart == ActInit => ActInv
<1> SUFFICES ASSUME ActInit PROVE ActInv
  OBVIOUS
<1>0. actClk = 0 /\ entries = [t \in Caller |-> FreshEntry] /\ writes = [t \in Caller |-> <<>>]
  BY Zenon DEF ActInit
<1>1. ActTimes
  BY <1>0, FreshTyped, ActionAssumption DEF ActTimes
<1>2. ActWindow
  BY <1>0, FreshTyped, NothingInWindow, ActionAssumption DEF ActWindow
<1>3. posted = [t \in Caller |-> Idler]
  BY Zenon DEF ActInit
<1>4. ActPosted /\ SimUntouched
  BY <1>3, IdlerTyped DEF ActPosted, SimUntouched
<1>5. NoDevices \in [SimMac -> SimStates]
  BY DEF NoDevices, SimStates
<1>6. simFile \in SimStore /\ simMem = simFile /\ actCnt = 0 /\ strays = {}
  BY <1>5 DEF ActInit, SimStore
<1>7. simFlag = FALSE /\ unsaved = FALSE /\ simFile.on = FALSE
  <2>1. simFile = [on |-> FALSE, dev |-> NoDevices] /\ simFlag = FALSE /\ unsaved = FALSE
    BY Zenon DEF ActInit
  <2> QED
    BY <2>1
<1>8. ActSim
  <2>1. simFlag \in BOOLEAN /\ unsaved \in BOOLEAN
    BY <1>7, Zenon
  <2>2. actCnt \in 0..MaxActFaults
    BY <1>6, ActionAssumption
  <2> QED
    BY <1>6, <2>1, <2>2, Zenon DEF ActSim
<1>9. SimSaved
  <2>1. HasDev(simMem) = FALSE
    BY <1>6, <1>7 DEF HasDev
  <2> QED
    BY <1>6, <1>7, <2>1, Zenon DEF SimSaved
<1> QED
  BY <1>1, <1>2, <1>4, <1>6, <1>8, <1>9 DEF ActInv

\* saveLocked keeps the store, its flag and its file together.
LEMMA SavedSim ==
  ASSUME ActSim, NEW st \in SimStore, SaveSim(st)
  PROVE  ActSim' /\ SimSaved'
<1>1. HasDev(st) \in BOOLEAN
  BY Zenon DEF HasDev
<1>2. simMem' = st /\ simFlag' = HasDev(st)
  BY DEF SaveSim
<1>3. simFlag' = HasDev(simMem')
  BY <1>2, Zenon
<1>4. CASE simFile' = st /\ unsaved' = FALSE /\ UNCHANGED actCnt
  <2>1. ActSim'
    BY <1>1, <1>2, <1>4 DEF ActSim
  <2>2. SimSaved'
    BY <1>2, <1>3, <1>4, Zenon DEF SimSaved, HasDev, Registered
  <2> QED
    BY <2>1, <2>2
<1>5. CASE actCnt < MaxActFaults /\ actCnt' = actCnt + 1 /\ unsaved' = TRUE /\ UNCHANGED simFile
  <2>1. ActSim'
    BY <1>1, <1>2, <1>5, ActionAssumption DEF ActSim
  <2>2. SimSaved'
    BY <1>3, <1>5, Zenon DEF SimSaved, HasDev, Registered
  <2> QED
    BY <2>1, <2>2
<1> QED
  BY <1>4, <1>5 DEF SaveSim

\* A step that leaves the simulation store alone keeps what is said of it.
LEMMA SimStays ==
  ASSUME ActSim, SimSaved, UNCHANGED <<simVars, actCnt>>
  PROVE  ActSim' /\ SimSaved'
BY Zenon DEF ActSim, SimSaved, simVars, HasDev, Registered

\* What a store holds after one of its fields is set.
LEMMA StoreSet ==
  ASSUME NEW st \in SimStore
  PROVE  /\ \A b \in BOOLEAN : [st EXCEPT !.on = b] \in SimStore
         /\ \A s \in SimMac, v \in SimStates : [st EXCEPT !.dev[s] = v] \in SimStore
         /\ [st EXCEPT !.dev = NoDevices] \in SimStore
<1>1. \A b \in BOOLEAN : [st EXCEPT !.on = b] \in SimStore
  BY DEF SimStore
<1>2. \A s \in SimMac, v \in SimStates : [st EXCEPT !.dev[s] = v] \in SimStore
  BY DEF SimStore
<1>3. NoDevices \in [SimMac -> SimStates]
  BY DEF NoDevices, SimStates
<1>4. [st EXCEPT !.dev = NoDevices] \in SimStore
  BY <1>3 DEF SimStore
<1> QED
  BY <1>1, <1>2, <1>4

\* An action on the simulation store saves what it changes, or counts the failure.
LEMMA SimActs ==
  ASSUME ActSim, SimSaved, NEW r \in Requests,
         SimAction(r) \/ (r.mac \in SimMac /\ SimDeviceAction(r)) \/ SimUnchanged
  PROVE  ActSim' /\ SimSaved'
<1>0. simMem \in SimStore /\ {"plain", "held", "absent"} \subseteq SimStates
  BY DEF ActSim, SimStates
<1>s. \A s \in Registered(simMem) : s \in SimMac
  BY DEF Registered
<1>1. ASSUME NEW b \in BOOLEAN, SimSet(b) PROVE ActSim' /\ SimSaved'
  BY <1>0, <1>1, StoreSet, SavedSim DEF SimSet
<1>2. CASE SimUnchanged
  BY <1>2, SimStays DEF SimUnchanged
<1>3. CASE SimAdd
  <2>1. ASSUME NEW s \in SimMac, SaveSim([simMem EXCEPT !.dev[s] = "plain"]) PROVE ActSim' /\ SimSaved'
    BY <1>0, <2>1, StoreSet, SavedSim
  <2> QED
    BY <1>2, <1>3, <2>1 DEF SimAdd, NewMac
<1>4. ASSUME NEW s, SimUpdate(s) PROVE ActSim' /\ SimSaved'
  <2>1. ASSUME NEW v \in {"plain", "held"}, s \in SimMac, SaveSim([simMem EXCEPT !.dev[s] = v])
        PROVE ActSim' /\ SimSaved'
    BY <1>0, <2>1, StoreSet, SavedSim
  <2> QED
    BY <1>2, <1>s, <1>4, <2>1 DEF SimUpdate
<1>5. ASSUME NEW s, SimDel(s) PROVE ActSim' /\ SimSaved'
  <2>1. ASSUME s \in SimMac, SaveSim([simMem EXCEPT !.dev[s] = "absent"])
        PROVE ActSim' /\ SimSaved'
    BY <1>0, <2>1, StoreSet, SavedSim
  <2> QED
    BY <1>2, <1>s, <1>5, <2>1 DEF SimDel
<1>6. CASE SimClear
  BY <1>0, <1>6, StoreSet, SavedSim DEF SimClear
<1>7. CASE SimPreset
  <2>1. PICK d \in [SimMac -> SimStates] : SaveSim([on |-> TRUE, dev |-> d])
    BY <1>7 DEF SimPreset
  <2>2. [on |-> TRUE, dev |-> d] \in SimStore
    BY DEF SimStore
  <2> QED
    BY <2>1, <2>2, SavedSim
<1>8. ASSUME r.mac \in SimMac, SimDeviceAction(r) PROVE ActSim' /\ SimSaved'
  <2>1. ASSUME NEW v \in {"plain", "held"}, SaveSim([simMem EXCEPT !.dev[r.mac] = v])
        PROVE ActSim' /\ SimSaved'
    BY <1>0, <1>8, <2>1, StoreSet, SavedSim
  <2> QED
    BY <1>2, <1>8, <2>1 DEF SimDeviceAction, SimControl
<1>9. (r.kind = "on") \in BOOLEAN
  OBVIOUS
<1> QED
  BY <1>1, <1>2, <1>3, <1>4, <1>5, <1>6, <1>7, <1>8, <1>9 DEF SimAction

\* Times up to a horizon are numbers.
LEMMA StampsNat ==
  ASSUME NEW H \in Nat, NEW s \in Seq(0..H)
  PROVE  s \in Seq(Nat) /\ \A i \in 1..Len(s) : s[i] \in Nat
BY SeqDef

\* A check slides the caller's window and adds the request if it is accepted.
LEMMA WindowAfterCheck ==
  ASSUME ActTimes, ActWindow, NEW t \in Caller, NEW passed \in BOOLEAN, CheckAndIncr(t, passed), UNCHANGED actClk
  PROVE  ActTimes' /\ ActWindow'
<1> DEFINE old == entries[t].stamps
           kept == Sliding(old, actClk)
           new == IF passed THEN Append(kept, actClk) ELSE kept
<1>0. /\ passed <=> Len(kept) < WriteMax
      /\ entries' = [entries EXCEPT ![t] = [stamps |-> new, lastSeen |-> actClk]]
      /\ writes' = IF passed THEN [writes EXCEPT ![t] = Append(writes[t], actClk)] ELSE writes
  BY DEF CheckAndIncr
<1>1. /\ old \in Seq(0..ActHorizon) /\ old \in Seq(Nat) /\ actClk \in 0..ActHorizon /\ actClk \in Nat
      /\ ActHorizon \in Nat /\ WriteMax \in Nat
  BY ActionAssumption DEF ActTimes, Entry
<1>2. /\ kept \in Seq(0..ActHorizon) /\ Len(kept) <= Len(old)
      /\ \A i \in 1..Len(kept) : \E j \in 1..Len(old) : kept[i] = old[j]
  BY <1>1, SlidingTyped
<1>3. Sliding(kept, actClk) = kept /\ kept \in Seq(Nat) /\ kept = writes[t]
  BY <1>1, <1>2, SlidingAgain DEF ActWindow
<1>4. \A i \in 1..Len(kept) : kept[i] \in Nat /\ kept[i] <= actClk
  <2> TAKE i \in 1..Len(kept)
  <2>1. PICK j \in 1..Len(old) : kept[i] = old[j]
    BY <1>2
  <2>2. old[j] \in Nat /\ old[j] <= entries[t].lastSeen /\ entries[t].lastSeen <= actClk /\ entries[t].lastSeen \in Nat
    BY <1>1 DEF ActWindow, ActTimes, Entry
  <2>3. PICK a : a = old[j]
    OBVIOUS
  <2>4. PICK b : b = entries[t].lastSeen
    OBVIOUS
  <2>5. kept[i] = a /\ a \in Nat /\ b \in Nat /\ a <= b /\ b <= actClk
    BY <2>1, <2>2, <2>3, <2>4, Zenon
  <2>6. a <= actClk
    BY <1>1, <2>5
  <2> QED
    BY <2>5, <2>6, Zenon
<1>5. Len(old) <= WriteMax
  BY DEF ActWindow
<1> HIDE DEF old, kept
<1>6. /\ new \in Seq(0..ActHorizon) /\ Len(new) <= WriteMax /\ Sliding(new, actClk) = new
      /\ \A i \in 1..Len(new) : new[i] <= actClk
  <2>1. CASE passed
    <3>1. /\ Append(kept, actClk) \in Seq(0..ActHorizon) /\ Len(Append(kept, actClk)) = Len(kept) + 1
          /\ \A i \in 1..Len(kept) : Append(kept, actClk)[i] = kept[i]
          /\ Append(kept, actClk)[Len(kept) + 1] = actClk
      BY <1>1, <1>2, AppendProperties
    <3>2. Sliding(Append(kept, actClk), actClk) = Append(kept, actClk)
      BY <1>1, <1>3, SlidingAppend
    <3>3. new = Append(kept, actClk)
      BY <2>1
    <3>4. Len(kept) + 1 <= WriteMax
      BY <1>0, <1>1, <1>2, <2>1
    <3>5. \A i \in 1..(Len(kept) + 1) : Append(kept, actClk)[i] <= actClk
      BY <1>1, <1>2, <1>4, <3>1
    <3> HIDE DEF new
    <3> QED
      BY <3>1, <3>2, <3>3, <3>4, <3>5
  <2>2. CASE ~passed
    <3>1. new = kept
      BY <2>2
    <3> HIDE DEF new
    <3>2. Len(kept) <= WriteMax
      BY <1>1, <1>2, <1>5
    <3> QED
      BY <1>2, <1>3, <1>4, <3>1, <3>2
  <2> QED
    BY <2>1, <2>2
<1>7. writes' = [writes EXCEPT ![t] = new]
  <2>1. CASE passed
    BY <1>0, <1>3, <2>1
  <2>2. CASE ~passed
    BY <1>0, <1>3, <2>2 DEF ActTimes
  <2> QED
    BY <2>1, <2>2
<1> DEFINE e == [stamps |-> new, lastSeen |-> actClk]
<1> HIDE DEF new
<1>8. e \in Entry /\ e.stamps = new /\ e.lastSeen = actClk
  BY <1>1, <1>6 DEF Entry
<1>9. entries' = [entries EXCEPT ![t] = e]
  BY <1>0
<1> HIDE DEF e
<1>10. ActTimes'
  BY <1>6, <1>7, <1>8, <1>9 DEF ActTimes
<1>11. ASSUME NEW u \in Caller
       PROVE  /\ writes'[u] = Sliding(entries'[u].stamps, actClk)
              /\ Len(entries'[u].stamps) <= WriteMax
              /\ entries'[u].lastSeen <= actClk
              /\ \A i \in 1..Len(entries'[u].stamps) : entries'[u].stamps[i] <= entries'[u].lastSeen
  <2>1. CASE u = t
    <3>1. writes'[u] = new /\ entries'[u] = e
      BY <1>7, <1>9, <2>1 DEF ActTimes
    <3> QED
      BY <3>1, <1>1, <1>6, <1>8
  <2>2. CASE u # t
    <3>1. writes'[u] = writes[u] /\ entries'[u] = entries[u]
      BY <1>7, <1>9, <2>2 DEF ActTimes
    <3> QED
      BY <3>1 DEF ActWindow
  <2> QED
    BY <2>1, <2>2
<1> QED
  BY <1>10, <1>11 DEF ActWindow

\* Time alone changes no entry.
LEMMA WindowAfterTick ==
  ASSUME ActTimes, ActWindow, ActTick
  PROVE  ActTimes' /\ ActWindow'
<1>1. /\ actClk' \in 0..ActHorizon /\ actClk' \in Nat /\ actClk \in Nat /\ actClk' = actClk + 1
      /\ ActHorizon \in Nat /\ UNCHANGED entries
      /\ writes' = [t \in Caller |-> Sliding(writes[t], actClk')]
  BY ActionAssumption DEF ActTimes, ActTick
<1>2. ASSUME NEW t \in Caller
      PROVE  /\ writes'[t] \in Seq(0..ActHorizon)
             /\ writes'[t] = Sliding(entries[t].stamps, actClk')
  <2>1. /\ entries[t].stamps \in Seq(0..ActHorizon) /\ entries[t].stamps \in Seq(Nat)
        /\ writes[t] = Sliding(entries[t].stamps, actClk)
    BY <1>1, StampsNat DEF ActTimes, Entry, ActWindow
  <2>2. writes'[t] = Sliding(Sliding(entries[t].stamps, actClk), actClk')
    BY <1>1, <2>1
  <2>3. writes'[t] = Sliding(entries[t].stamps, actClk')
    BY <1>1, <2>1, <2>2, SlidingAgain
  <2> QED
    BY <1>1, <2>1, <2>3, SlidingTyped
<1>3. ActTimes'
  BY <1>1, <1>2 DEF ActTimes
<1>4. \A t \in Caller : entries[t].lastSeen \in Nat
  BY DEF ActTimes, Entry
<1> QED
  BY <1>1, <1>2, <1>3, <1>4 DEF ActWindow

\* The collector removes only entries whose window is empty.
LEMMA WindowAfterCollect ==
  ASSUME ActTimes, ActWindow, CollectEntries
  PROVE  ActTimes' /\ ActWindow'
<1>1. /\ entries' = [t \in Caller |-> IF actClk - entries[t].lastSeen > WriteTTL THEN FreshEntry ELSE entries[t]]
      /\ UNCHANGED <<actClk, writes>> /\ actClk \in Nat /\ ActHorizon \in Nat
  BY ActionAssumption DEF CollectEntries, ActTimes
<1>2. ActTimes'
  BY <1>1, FreshTyped DEF ActTimes
<1>3. ASSUME NEW t \in Caller
      PROVE  /\ writes[t] = Sliding(entries'[t].stamps, actClk)
             /\ Len(entries'[t].stamps) <= WriteMax
             /\ entries'[t].lastSeen <= actClk
             /\ \A i \in 1..Len(entries'[t].stamps) : entries'[t].stamps[i] <= entries'[t].lastSeen
  <2>0. entries[t].lastSeen \in Nat /\ entries[t].stamps \in Seq(Nat)
        /\ \A i \in 1..Len(entries[t].stamps) : entries[t].stamps[i] \in Nat
    <3>1. entries[t].lastSeen \in Nat /\ entries[t].stamps \in Seq(0..ActHorizon)
      BY <1>1 DEF ActTimes, Entry
    <3> QED
      BY <1>1, <3>1, StampsNat
  <2>1. CASE actClk - entries[t].lastSeen > WriteTTL
    <3>1. entries'[t] = FreshEntry
      BY <1>1, <2>1
    <3>2. Starts(entries[t].stamps, actClk, Len(entries[t].stamps))
      <4>1. ASSUME NEW i \in 1..Len(entries[t].stamps) PROVE Old(entries[t].stamps, i, actClk)
        <5>1. entries[t].stamps[i] \in Nat /\ entries[t].stamps[i] <= entries[t].lastSeen
          BY <2>0 DEF ActWindow
        <5>2. \A a, l \in Nat : a <= l /\ actClk - l > WriteTTL => a + WriteWindow <= actClk
          BY <1>1, ActionAssumption
        <5> QED
          BY <2>0, <2>1, <5>1, <5>2 DEF Old
      <4> QED
        BY <2>0, <4>1 DEF Starts
    <3>3. Sliding(entries[t].stamps, actClk)
            = SubSeq(entries[t].stamps, Len(entries[t].stamps) + 1, Len(entries[t].stamps))
      BY <1>1, <2>0, <3>2, StartsOnce
    <3>4. SubSeq(entries[t].stamps, Len(entries[t].stamps) + 1, Len(entries[t].stamps)) = <<>>
      BY <2>0, SubSeqEmpty
    <3>5. writes[t] = <<>>
      BY <3>3, <3>4 DEF ActWindow
    <3> QED
      BY <1>1, <3>1, <3>5, FreshTyped, NothingInWindow, ActionAssumption
  <2>2. CASE ~(actClk - entries[t].lastSeen > WriteTTL)
    BY <1>1, <2>2 DEF ActWindow
  <2> QED
    BY <2>1, <2>2
<1> QED
  BY <1>1, <1>2, <1>3 DEF ActWindow

\* A step that leaves the limiter alone keeps what is said of it.
LEMMA WindowStays ==
  ASSUME ActTimes, ActWindow, UNCHANGED <<actClk, entries, writes>>
  PROVE  ActTimes' /\ ActWindow'
<1>1. ActTimes'
  BY DEF ActTimes
<1>2. ActWindow'
  BY Zenon DEF ActWindow, Sliding
<1> QED
  BY <1>1, <1>2

\* Where a request stands after it moved.
LEMMA PostedMoves ==
  ASSUME ActPosted, NEW t \in Caller, NEW p \in Stands,
         p.at = "queued" => p.req \in Requests, p.at = "script" => p.req.mac \in SimMac \cup RealMac,
         posted' = [posted EXCEPT ![t] = p]
  PROVE  ActPosted'
<1>1. posted' \in [Caller -> Stands]
  BY DEF ActPosted
<1>2. \A u \in Caller : posted'[u] = IF u = t THEN p ELSE posted[u]
  BY DEF ActPosted
<1> QED
  BY <1>1, <1>2 DEF ActPosted

\* Every step of the action dispatch keeps the invariant.
LEMMA ActStep == ASSUME ActInv, [ActNext]_actVars PROVE ActInv'
<1>i. ActTimes /\ ActWindow /\ ActPosted /\ ActSim /\ SimUntouched /\ SimSaved /\ strays \subseteq SimMac \cup RealMac
  BY DEF ActInv
<1>1. ASSUME NEW t \in Caller, NEW r \in Requests, Post(t, r) PROVE ActInv'
  <2>0. PICK passed \in BOOLEAN :
          /\ CheckAndIncr(t, passed)
          /\ posted' = IF passed THEN [posted EXCEPT ![t] = [at |-> "queued", req |-> r]] ELSE posted
    BY <1>1 DEF Post
  <2>1. UNCHANGED <<actClk, strays, simVars, actCnt>>
    BY <1>1 DEF Post
  <2>2. ActTimes' /\ ActWindow'
    BY <1>i, <2>0, <2>1, WindowAfterCheck
  <2>3. ActPosted'
    <3> DEFINE p == [at |-> "queued", req |-> r]
    <3>1. p \in Stands /\ p.at = "queued" /\ p.req = r
      BY DEF Stands
    <3>2. posted' = [posted EXCEPT ![t] = p] \/ posted' = posted
      BY <2>0
    <3> HIDE DEF p
    <3>3. CASE posted' = posted
      BY <1>i, <3>3 DEF ActPosted
    <3>4. CASE posted' = [posted EXCEPT ![t] = p]
      BY <1>i, <3>1, <3>4, PostedMoves
    <3> QED
      BY <3>2, <3>3, <3>4
  <2>4. ActSim' /\ SimSaved'
    BY <1>i, <2>1, SimStays
  <2>5. SimUntouched'
    BY <1>i, <2>0, <2>1 DEF SimUntouched, simVars, Registered, ActPosted
  <2> QED
    BY <1>i, <2>1, <2>2, <2>3, <2>4, <2>5 DEF ActInv
<1>2. ASSUME NEW t \in Caller, Dispatch(t) PROVE ActInv'
  <2> DEFINE r == posted[t].req
             way == IF r.kind \in {"device", "policy"} THEN Intercepted(r) ELSE "sim"
  <2>0. /\ posted[t].at = "queued" /\ Free /\ UNCHANGED <<actClk, limiterVars, strays>>
        /\ \/ way = "sim" /\ SimAction(r) /\ To(t, "answer")
           \/ way = "taken" /\ SimDeviceAction(r) /\ To(t, "answer")
           \/ SimUnchanged /\ To(t, "answer")
           \/ way = "passed" /\ r.kind = "device" /\ RuleAction(t) /\ SimUnchanged
    BY <1>2 DEF Dispatch
  <2>1. r \in Requests
    BY <1>i, <2>0 DEF ActPosted
  <2>2. ActTimes' /\ ActWindow'
    BY <1>i, <2>0, WindowStays DEF limiterVars
  <2>3. way = "taken" => r.mac \in SimMac
    BY DEF Intercepted
  <2>4. way = "passed" /\ r.kind = "device" => r.mac \notin Registered(simMem) /\ r.mac \in SimMac \cup RealMac
    BY <2>1 DEF Intercepted, Registered, Requests, Kinds
  <2>5. ActSim' /\ SimSaved'
    BY <1>i, <2>0, <2>1, <2>3, SimActs
  <2> HIDE DEF way
  <2>6. To(t, "answer") \/ (To(t, "script") /\ way = "passed" /\ r.kind = "device" /\ SimUnchanged)
    BY <2>0 DEF RuleAction
  <2>7. ActPosted' /\ SimUntouched'
    <3> DEFINE p == [at |-> "answer", req |-> NoRequest]
               q == [at |-> "script", req |-> r]
    <3>1. p \in Stands /\ p.at = "answer" /\ q \in Stands /\ q.at = "script" /\ q.req = r
      BY <2>1 DEF Stands
    <3>2. CASE To(t, "answer")
      <4>1. posted' = [posted EXCEPT ![t] = p]
        BY <3>2 DEF To
      <4> HIDE DEF p
      <4>2. ActPosted'
        BY <1>i, <3>1, <4>1, PostedMoves
      <4>3. SimUntouched'
        BY <1>i, <2>0, <3>1, <4>1 DEF SimUntouched, Free, ActPosted
      <4> QED
        BY <4>2, <4>3
    <3>3. CASE To(t, "script") /\ way = "passed" /\ r.kind = "device" /\ SimUnchanged
      <4>1. posted' = [posted EXCEPT ![t] = q]
        BY <3>3 DEF To
      <4> HIDE DEF q, r
      <4>2. ActPosted'
        BY <1>i, <2>4, <3>1, <3>3, <4>1, PostedMoves
      <4>4. Registered(simMem)' = Registered(simMem)
        BY <3>3 DEF Registered, SimUnchanged, simVars
      <4>3. SimUntouched'
        BY <1>i, <2>0, <2>4, <3>1, <3>3, <4>1, <4>4 DEF SimUntouched, Free, ActPosted
      <4> QED
        BY <4>2, <4>3
    <3> QED
      BY <2>6, <3>2, <3>3
  <2> QED
    BY <1>i, <2>0, <2>2, <2>5, <2>7 DEF ActInv
<1>3. ASSUME NEW t \in Caller, NEW p \in Stands, p.at \in {"idle", "answer"}, posted' = [posted EXCEPT ![t] = p],
             UNCHANGED <<actClk, limiterVars, simVars, actCnt>>, strays' \subseteq SimMac \cup RealMac
      PROVE  ActInv'
  <2>1. ActTimes' /\ ActWindow'
    BY <1>i, <1>3, WindowStays DEF limiterVars
  <2>2. ActPosted'
    BY <1>i, <1>3, PostedMoves
  <2>3. ActSim' /\ SimSaved'
    BY <1>i, <1>3, SimStays
  <2>4. Registered(simMem)' = Registered(simMem)
    BY <1>3 DEF Registered, simVars
  <2>5. SimUntouched'
    BY <1>i, <1>3, <2>4 DEF SimUntouched, ActPosted
  <2> QED
    BY <1>3, <2>1, <2>2, <2>3, <2>5 DEF ActInv
<1>4. ASSUME NEW t \in Caller, ActScriptEnds(t) \/ DeadlineEnds(t) \/ Answer(t) PROVE ActInv'
  <2>1. PICK p \in {[at |-> "answer", req |-> NoRequest], Idler} : posted' = [posted EXCEPT ![t] = p]
    BY <1>4 DEF ActScriptEnds, DeadlineEnds, Answer, To
  <2>2. p \in Stands /\ p.at \in {"idle", "answer"}
    BY IdlerTyped DEF Stands
  <2>3. UNCHANGED <<actClk, limiterVars, simVars, actCnt>>
    BY <1>4 DEF ActScriptEnds, DeadlineEnds, Answer
  <2>4. strays' \subseteq SimMac \cup RealMac
    BY <1>i, <1>4 DEF ActScriptEnds, DeadlineEnds, Answer, ActPosted
  <2> QED
    BY <1>3, <2>1, <2>2, <2>3, <2>4
<1>5. ASSUME UNCHANGED <<posted, simVars, actCnt>>, strays' \subseteq SimMac \cup RealMac, ActTimes', ActWindow'
      PROVE  ActInv'
  <2>1. ActPosted'
    BY <1>i, <1>5 DEF ActPosted
  <2>3. ActSim' /\ SimSaved'
    BY <1>i, <1>5, SimStays
  <2>4. SimUntouched'
    BY <1>i, <1>5 DEF SimUntouched, Registered, simVars
  <2> QED
    BY <1>5, <2>1, <2>3, <2>4 DEF ActInv
<1>6. ASSUME NEW m, StrayEnds(m) PROVE ActInv'
  BY <1>i, <1>5, <1>6, WindowStays DEF StrayEnds, limiterVars
<1>7. CASE CollectEntries
  BY <1>i, <1>5, <1>7, WindowAfterCollect DEF CollectEntries
<1>8. CASE ActTick
  BY <1>i, <1>5, <1>8, WindowAfterTick DEF ActTick
<1>9. CASE ActCrash
  <2>1. /\ posted' = [t \in Caller |-> Idler] /\ entries' = [t \in Caller |-> FreshEntry]
        /\ writes' = [t \in Caller |-> <<>>] /\ UNCHANGED <<actClk, simFile>>
        /\ simMem' = simFile /\ actCnt < MaxActFaults /\ actCnt' = actCnt + 1
        /\ strays' = strays \cup {posted[t].req.mac : t \in {u \in Caller : posted[u].at = "script"}}
    BY <1>9 DEF ActCrash
  <2>2. simFlag' = HasDev(simFile) /\ unsaved' = FALSE
    BY <1>9 DEF ActCrash
  <2>3. ActTimes' /\ ActWindow'
    BY <1>i, <2>1, FreshTyped, NothingInWindow, ActionAssumption DEF ActTimes, ActWindow
  <2>4. ActPosted' /\ SimUntouched'
    BY <2>1, IdlerTyped DEF ActPosted, SimUntouched
  <2>5. strays' \subseteq SimMac \cup RealMac
    BY <1>i, <2>1 DEF ActPosted
  <2>6. ActSim'
    <3>1. simFlag' \in BOOLEAN /\ unsaved' \in BOOLEAN
      BY <2>2, Zenon DEF HasDev
    <3> QED
      BY <1>i, <2>1, <3>1, ActionAssumption DEF ActSim
  <2>7. SimSaved'
    BY <2>1, <2>2, Zenon DEF SimSaved, HasDev, Registered
  <2> QED
    BY <2>3, <2>4, <2>5, <2>6, <2>7 DEF ActInv
<1>10. CASE UNCHANGED actVars
  BY <1>i, <1>5, <1>10, WindowStays DEF actVars, simVars
<1> QED
  BY <1>1, <1>2, <1>4, <1>6, <1>7, <1>8, <1>9, <1>10 DEF ActNext

-----------------------------------------------------------------------------
(* The suite: the doors.                                                   *)

AccessInv == /\ part = "tokens" => TokInv
             /\ part = "remote" => RemoteInv
             /\ part = "dns" => DnsInv
             /\ part = "actions" => ActInv

\* The invariant says what the doors promise.
LEMMA AccessImplied == AccessInv => AccessKept
<1>1. TokInv => TokTypeOK /\ RevokedStays /\ IssuedKept
  BY TokTyped DEF TokInv, TokTruth, RevokedStays, IssuedKept
<1>2. RemoteInv => RemoteTypeOK /\ NoStrayServer
  BY DEF RemoteInv
<1>3. DnsInv => DnsTypeOK /\ RulesServed
  BY DnsTyped DEF DnsInv, DnsKnown, RulesServed
<1>4. ActInv => ActTypeOK /\ SimUntouched /\ WriteBound /\ SimSaved
  BY ActTyped, WritesBounded DEF ActInv
<1> QED
  BY <1>1, <1>2, <1>3, <1>4, Zenon DEF AccessInv, AccessKept

\* Every component starts in its invariant.
LEMMA AccessStart == Init => AccessInv
BY TokStart, RemoteStart, DnsStart, ActStart, Zenon DEF Init, AccessInv

\* Every step of the suite keeps the invariant.
LEMMA AccessStep == ASSUME AccessInv, [Next]_vars PROVE AccessInv'
<1>1. CASE UNCHANGED vars
  <2>1. UNCHANGED <<part, tokVars, remoteVars, dnsVars, actVars>>
    BY <1>1 DEF vars
  <2> QED
    BY <2>1, TokensStep, RemoteStep, DnsStep, ActStep DEF AccessInv
<1>2. ASSUME NEW p \in Parts, Only(p), p \notin {"tokens", "remote", "dns", "actions"} PROVE AccessInv'
  BY <1>2 DEF Only, AccessInv
<1>3. CASE Only("tokens") /\ TokNext
  BY <1>3, TokensStep DEF Only, AccessInv
<1>4. CASE Only("remote") /\ RemoteNext
  BY <1>4, RemoteStep DEF Only, AccessInv
<1>5. CASE Only("dns") /\ DnsNext
  BY <1>5, DnsStep DEF Only, AccessInv
<1>6. CASE Only("actions") /\ ActNext
  BY <1>6, ActStep DEF Only, AccessInv
<1> QED
  BY <1>1, <1>2, <1>3, <1>4, <1>5, <1>6 DEF Next, Parts

\* The doors of the device stay as their owner set them, whatever the number of
\* tokens, requests, listeners, addresses and callers: tokens.go,
\* remote_listener.go, dns_takeover.go, action.go, writelimit.go and sim.go.
THEOREM DoorsKept == Spec => []AccessKept
<1>1. Init => AccessInv
  BY AccessStart
<1>2. AccessInv /\ [Next]_vars => AccessInv'
  BY AccessStep
<1>3. AccessInv => AccessKept
  BY AccessImplied
<1> QED
  BY <1>1, <1>2, <1>3, PTL DEF Spec

\* A revocation that was saved is not undone and an issued token not lost by any
\* interleaving of reloads, saves and deaths, unless the map was emptied by an old
\* stat (tokens.go reload, SyncIfChanged, Revoke).
THEOREM TokensKept == TokSpec => [](RevokedStays /\ IssuedKept)
<1>1. TokInv => RevokedStays /\ IssuedKept
  BY DEF TokInv, TokTruth, RevokedStays, IssuedKept
<1>2. TokInv /\ [TokNext]_tokVars => TokInv'
  BY TokensStep
<1> QED
  BY <1>1, <1>2, TokStart, PTL DEF TokSpec

\* No listener runs that the loop does not know of, however late an exit is
\* reported (remote_listener.go).
THEOREM ListenersKnown == RemoteSpec => []NoStrayServer
<1>1. RemoteInv => NoStrayServer
  BY DEF RemoteInv
<1>2. RemoteInv /\ [RemoteNext]_remoteVars => RemoteInv'
  BY RemoteStep
<1> QED
  BY <1>1, <1>2, RemoteStart, PTL DEF RemoteSpec

\* Between two rounds DNAT rules lead to the open forwarder (dns_takeover.go),
\* whatever dies, fails or changes, unless the kernel refused a removal.
THEOREM RulesAlwaysServed == DnsSpec => []RulesServed
<1>1. DnsInv => RulesServed
  BY DEF DnsInv, DnsKnown, RulesServed
<1>2. DnsInv /\ [DnsNext]_dnsVars => DnsInv'
  BY DnsStep
<1> QED
  BY <1>1, <1>2, DnsStart, PTL DEF DnsSpec

\* No script touches a simulated device, no token writes past its window, and a
\* restart finds the simulation (action.go, writelimit.go, sim.go).
THEOREM ActionsKept == ActSpec => [](SimUntouched /\ WriteBound /\ SimSaved)
<1>1. ActInv => SimUntouched /\ WriteBound /\ SimSaved
  BY WritesBounded DEF ActInv
<1>2. ActInv /\ [ActNext]_actVars => ActInv'
  BY ActStep
<1> QED
  BY <1>1, <1>2, ActStart, PTL DEF ActSpec

-----------------------------------------------------------------------------
(* Application limits.                                                     *)

Settings == [flat : 0..MaxRate, incl : BOOLEAN]

LimSave ==
  /\ limJson \in 0..MaxRate /\ limFlat \in 0..MaxRate
  /\ save \in [at : {"idle", "json", "flat"}, rate : 0..MaxRate]
  /\ save.at = "idle" => save = NoSave
  /\ save.at = "flat" => limJson = save.rate
  /\ reply \in {"none", "no-op", "saved", "error"} /\ (reply # "none" => save.at = "idle")
  /\ OkMeansBoth
LimWorld ==
  /\ ipApp \in Apps \cup {NoApp} /\ mapJson \in Apps \cup {NoApp}
  /\ mapFlat \in Apps \cup {NoApp} /\ revApp \in Apps \cup {NoApp} /\ ipAge \in 0..2
LimFlags ==
  /\ inclShared \in BOOLEAN /\ trigger \in BOOLEAN /\ marker \in BOOLEAN
  /\ devOn \in BOOLEAN /\ hotspotOn \in BOOLEAN
LimRun ==
  /\ script \in {"idle", "clean", "read", "build"} /\ enforced \in 0..MaxRate
  /\ taken \in [cfg : Settings, rate : 0..MaxRate] /\ asOf \subseteq Settings
LimCount == limCnt \in [edits : Nat, faults : Nat, world : Nat]
\* As long as nothing failed, what the last run (or the one that builds) read is
\* the configuration, or a marker is there or on its way.
LimCovered ==
  limCnt.faults = 0 /\ ~marker /\ ~trigger =>
    /\ script = "idle" /\ asOf # {} => asOf = {Config}
    /\ script = "build" => taken.cfg = Config
LimInv == LimSave /\ LimWorld /\ LimFlags /\ LimRun /\ LimCount /\ LimCovered

\* The invariant says what the application limits promise.
LEMMA LimTyped == LimInv => LimTypeOK /\ MarkerCoversEdit /\ OkMeansBoth
  BY DEF LimInv, LimSave, LimWorld, LimFlags, LimRun, LimCovered, LimTypeOK, MarkerCoversEdit,
         Settings

\* No rates, no files, no marker.
LEMMA LimStart == LimInit => LimInv
<1> SUFFICES ASSUME LimInit PROVE LimInv
  OBVIOUS
<1>1. LimFlags
  BY Zenon DEF LimInit, LimFlags
<1>2. LimSave /\ LimWorld /\ LimCount
  BY LimConstants DEF LimInit, LimSave, LimWorld, LimCount, NoSave, NoApp, OkMeansBoth
<1>3. LimRun /\ LimCovered
  BY LimConstants DEF LimInit, LimRun, LimCovered, NothingRead, Settings
<1> QED
  BY <1>1, <1>2, <1>3 DEF LimInv

\* A save stands between its two files only before it has answered.
LEMMA LimSaveStep ==
  ASSUME LimInv, [LimNext]_limVars
  PROVE  LimSave'
<1> USE LimConstants DEF LimInv, LimSave, LimCount, OkMeansBoth, NoSave
<1>1. ASSUME NEW rate \in 0..MaxRate, SetLimit(rate) PROVE LimSave'
  BY <1>1 DEF SetLimit
<1>2. CASE ClearLimit
  BY <1>2 DEF ClearLimit
<1>3. CASE RenameJson
  BY <1>3 DEF RenameJson
<1>4. CASE RenameFlat
  BY <1>4 DEF RenameFlat
<1>5. CASE SaveFails
  BY <1>5 DEF SaveFails
<1>6. CASE HttpdDies
  BY <1>6 DEF HttpdDies
<1>7. UNCHANGED <<limJson, limFlat, save, reply>> => LimSave'
  OBVIOUS
<1>8. CASE SetShared
  BY <1>7, <1>8 DEF SetShared
<1>9. CASE WriteMarker
  BY <1>7, <1>9 DEF WriteMarker
<1>10. ASSUME NEW app \in Apps, Record(app) PROVE LimSave'
  BY <1>7, <1>10 DEF Record, fileVarsL
<1>11. CASE NotSeenFor
  BY <1>7, <1>11 DEF NotSeenFor, fileVarsL
<1>12. ASSUME NEW ok \in BOOLEAN, FlushMap(ok) PROVE LimSave'
  BY <1>7, <1>12 DEF FlushMap, fileVarsL
<1>13. CASE Elsewhere
  BY <1>7, <1>13 DEF Elsewhere, fileVarsL
<1>14. CASE ApplyScript
  BY <1>7, <1>14 DEF ApplyScript, ScriptStart, ScriptGivesUp, ScriptClean, ScriptRead, ScriptBuild,
     fileVarsL
<1>15. CASE UNCHANGED limVars
  BY <1>7, <1>15 DEF limVars, fileVarsL
<1> HIDE DEF LimInv, LimSave, LimCount, OkMeansBoth, NoSave
<1> QED
  BY <1>1, <1>2, <1>3, <1>4, <1>5, <1>6, <1>8, <1>9, <1>10, <1>11, <1>12, <1>13, <1>14, <1>15, Zenon
     DEF LimNext, Httpd

\* The address map, the devices and the flags keep their types.
LEMMA LimWorldStep == ASSUME LimInv, [LimNext]_limVars PROVE LimWorld' /\ LimFlags'
<1> USE LimConstants DEF LimInv, LimWorld, LimFlags, Apps, NoApp
<1>1. ASSUME NEW rate \in 0..MaxRate, SetLimit(rate) PROVE LimWorld' /\ LimFlags'
  BY <1>1 DEF SetLimit, LimEdit, fileVarsL, worldVars, scriptVars
<1>2. CASE ClearLimit
  BY <1>2 DEF ClearLimit, LimEdit, fileVarsL, worldVars, scriptVars
<1>3. CASE RenameJson
  BY <1>3 DEF RenameJson, fileVarsL, worldVars, scriptVars
<1>4. CASE RenameFlat
  BY <1>4 DEF RenameFlat, fileVarsL, worldVars, scriptVars
<1>5. CASE SaveFails
  BY <1>5 DEF SaveFails, Fault, fileVarsL, worldVars, scriptVars
<1>6. CASE SetShared
  BY <1>6 DEF SetShared, LimEdit, fileVarsL, worldVars, scriptVars
<1>7. CASE WriteMarker
  BY <1>7 DEF WriteMarker, fileVarsL, worldVars, scriptVars
<1>8. CASE HttpdDies
  BY <1>8 DEF HttpdDies, Fault, fileVarsL, worldVars, scriptVars
<1>9. ASSUME NEW app \in Apps, Record(app) PROVE LimWorld' /\ LimFlags'
  BY <1>9 DEF Record, World, fileVarsL, worldVars, scriptVars
<1>10. CASE NotSeenFor
  BY <1>10 DEF NotSeenFor, World, fileVarsL, worldVars, scriptVars
<1>11. ASSUME NEW ok \in BOOLEAN, FlushMap(ok) PROVE LimWorld' /\ LimFlags'
  BY <1>11 DEF FlushMap, Fault, fileVarsL, worldVars, scriptVars
<1>12. CASE Elsewhere
  BY <1>12 DEF Elsewhere, World, fileVarsL, worldVars, scriptVars
<1>13. CASE ScriptStart
  BY <1>13 DEF ScriptStart, MarkerLeft, fileVarsL, worldVars, scriptVars
<1>14. CASE ScriptGivesUp
  BY <1>14 DEF ScriptGivesUp, Fault, fileVarsL, worldVars, scriptVars
<1>15. CASE ScriptClean
  BY <1>15 DEF ScriptClean, fileVarsL, worldVars, scriptVars
<1>16. CASE ScriptRead
  BY <1>16 DEF ScriptRead, Wanted, SharedAway, Config, fileVarsL, worldVars, scriptVars
<1>17. CASE ScriptBuild
  BY <1>17 DEF ScriptBuild, MarkerLeft, fileVarsL, worldVars, scriptVars
<1>18. CASE UNCHANGED limVars
  BY <1>18 DEF limVars, fileVarsL, worldVars, scriptVars
<1> HIDE DEF LimInv, LimWorld, LimFlags, Apps, NoApp
<1> QED
  BY <1>1, <1>2, <1>3, <1>4, <1>5, <1>6, <1>7, <1>8, <1>9, <1>10, <1>11, <1>12, <1>13, <1>14, <1>15, <1>16, <1>17, <1>18, Zenon
     DEF LimNext, Httpd, ApplyScript

\* The script and the counters.
LEMMA LimRunStep == ASSUME LimInv, [LimNext]_limVars PROVE LimRun' /\ LimCount'
<1> USE LimConstants DEF LimInv, LimRun, LimCount, LimSave, LimFlags, Settings, NothingRead
<1>1. ASSUME NEW rate \in 0..MaxRate, SetLimit(rate) PROVE LimRun' /\ LimCount'
  BY <1>1 DEF SetLimit, LimEdit, fileVarsL, worldVars, scriptVars
<1>2. CASE ClearLimit
  BY <1>2 DEF ClearLimit, LimEdit, fileVarsL, worldVars, scriptVars
<1>3. CASE RenameJson
  BY <1>3 DEF RenameJson, fileVarsL, worldVars, scriptVars
<1>4. CASE RenameFlat
  BY <1>4 DEF RenameFlat, fileVarsL, worldVars, scriptVars
<1>5. CASE SaveFails
  BY <1>5 DEF SaveFails, Fault, fileVarsL, worldVars, scriptVars
<1>6. CASE SetShared
  BY <1>6 DEF SetShared, LimEdit, fileVarsL, worldVars, scriptVars
<1>7. CASE WriteMarker
  BY <1>7 DEF WriteMarker, fileVarsL, worldVars, scriptVars
<1>8. CASE HttpdDies
  BY <1>8 DEF HttpdDies, Fault, fileVarsL, worldVars, scriptVars
<1>9. ASSUME NEW app \in Apps, Record(app) PROVE LimRun' /\ LimCount'
  BY <1>9 DEF Record, World, fileVarsL, worldVars, scriptVars
<1>10. CASE NotSeenFor
  BY <1>10 DEF NotSeenFor, World, fileVarsL, worldVars, scriptVars
<1>11. ASSUME NEW ok \in BOOLEAN, FlushMap(ok) PROVE LimRun' /\ LimCount'
  BY <1>11 DEF FlushMap, Fault, fileVarsL, worldVars, scriptVars
<1>12. CASE Elsewhere
  BY <1>12 DEF Elsewhere, World, fileVarsL, worldVars, scriptVars
<1>13. CASE ScriptStart
  BY <1>13 DEF ScriptStart, MarkerLeft, fileVarsL, worldVars, scriptVars
<1>14. CASE ScriptGivesUp
  BY <1>14 DEF ScriptGivesUp, Fault, fileVarsL, worldVars, scriptVars
<1>15. CASE ScriptClean
  BY <1>15 DEF ScriptClean, fileVarsL, worldVars, scriptVars
<1>16. CASE ScriptRead
  BY <1>16 DEF ScriptRead, Wanted, SharedAway, Config, fileVarsL, worldVars, scriptVars
<1>17. CASE ScriptBuild
  BY <1>17 DEF ScriptBuild, MarkerLeft, fileVarsL, worldVars, scriptVars
<1>18. CASE UNCHANGED limVars
  BY <1>18 DEF limVars, fileVarsL, worldVars, scriptVars
<1> HIDE DEF LimInv, LimRun, LimCount, LimSave, LimFlags, Settings, NothingRead
<1> QED
  BY <1>1, <1>2, <1>3, <1>4, <1>5, <1>6, <1>7, <1>8, <1>9, <1>10, <1>11, <1>12, <1>13, <1>14, <1>15, <1>16, <1>17, <1>18, Zenon
     DEF LimNext, Httpd, ApplyScript

\* Whatever changes the configuration leaves a marker or a trigger behind.
LEMMA LimCoveredStep == ASSUME LimInv, [LimNext]_limVars PROVE LimCovered'
<1> USE LimConstants DEF LimInv, LimCovered, LimCount, LimRun, LimFlags, Config
<1>1. ASSUME NEW rate \in 0..MaxRate, SetLimit(rate) PROVE LimCovered'
  BY <1>1 DEF SetLimit, LimEdit, fileVarsL, worldVars, scriptVars
<1>2. CASE ClearLimit
  BY <1>2 DEF ClearLimit, LimEdit, fileVarsL, worldVars, scriptVars
<1>3. CASE RenameJson
  BY <1>3 DEF RenameJson, fileVarsL, worldVars, scriptVars
<1>4. CASE RenameFlat
  BY <1>4 DEF RenameFlat, fileVarsL, worldVars, scriptVars
<1>5. CASE SaveFails
  BY <1>5 DEF SaveFails, Fault, fileVarsL, worldVars, scriptVars
<1>6. CASE SetShared
  BY <1>6 DEF SetShared, LimEdit, fileVarsL, worldVars, scriptVars
<1>7. CASE WriteMarker
  BY <1>7 DEF WriteMarker, fileVarsL, worldVars, scriptVars
<1>8. CASE HttpdDies
  BY <1>8 DEF HttpdDies, Fault, fileVarsL, worldVars, scriptVars
<1>9. ASSUME NEW app \in Apps, Record(app) PROVE LimCovered'
  BY <1>9 DEF Record, World, fileVarsL, worldVars, scriptVars
<1>10. CASE NotSeenFor
  BY <1>10 DEF NotSeenFor, World, fileVarsL, worldVars, scriptVars
<1>11. ASSUME NEW ok \in BOOLEAN, FlushMap(ok) PROVE LimCovered'
  BY <1>11 DEF FlushMap, Fault, fileVarsL, worldVars, scriptVars
<1>12. CASE Elsewhere
  BY <1>12 DEF Elsewhere, World, fileVarsL, worldVars, scriptVars
<1>13. CASE ScriptStart
  BY <1>13 DEF ScriptStart, MarkerLeft, fileVarsL, worldVars, scriptVars
<1>14. CASE ScriptGivesUp
  BY <1>14 DEF ScriptGivesUp, Fault, fileVarsL, worldVars, scriptVars
<1>15. CASE ScriptClean
  BY <1>15 DEF ScriptClean, fileVarsL, worldVars, scriptVars
<1>16. CASE ScriptRead
  BY <1>16 DEF ScriptRead, Wanted, SharedAway, Config, fileVarsL, worldVars, scriptVars
<1>17. CASE ScriptBuild
  BY <1>17 DEF ScriptBuild, MarkerLeft, fileVarsL, worldVars, scriptVars
<1>18. CASE UNCHANGED limVars
  BY <1>18 DEF limVars, fileVarsL, worldVars, scriptVars
<1> HIDE DEF LimInv, LimCovered, LimCount, LimRun, LimFlags, Config
<1> QED
  BY <1>1, <1>2, <1>3, <1>4, <1>5, <1>6, <1>7, <1>8, <1>9, <1>10, <1>11, <1>12, <1>13, <1>14, <1>15, <1>16, <1>17, <1>18, Zenon
     DEF LimNext, Httpd, ApplyScript

\* Every step of the application limits keeps the invariant.
LEMMA LimStep == ASSUME LimInv, [LimNext]_limVars PROVE LimInv'
  BY LimSaveStep, LimWorldStep, LimRunStep, LimCoveredStep DEF LimInv

-----------------------------------------------------------------------------
(* Time budgets of applications.                                           *)

AppDays ==
  /\ timeToday \in Day /\ sentDate \in 0..MaxDays + 1
  /\ usage \in [date : 0..MaxDays + 1, n : 0..MaxUse]
  /\ usage.date <= timeToday \/ usage.date = MaxDays + 1
AppUse ==
  /\ used \in 0..MaxUse /\ dayFile \in 0..MaxUse /\ dayFile <= used
  /\ usage.date = timeToday => usage.n <= used
AppFlags ==
  /\ trusted \in BOOLEAN /\ limited \in BOOLEAN /\ item \in BOOLEAN /\ flat \in BOOLEAN
  /\ kernel \in BOOLEAN /\ missed \in BOOLEAN
  /\ loop \in {"tick", "alert", "refresh", "script", "flush"}
\* An alert that neither memory nor file knows of has gone out only before deaths
\* that made the daemon forget it.
AppAlerts ==
  /\ sent \subseteq Kind /\ alertFile \subseteq Kind
  /\ hitches \in 0..MaxHitches /\ repeats \in 0..hitches /\ alerts \in [Kind -> Nat]
  /\ \A k \in Kind : /\ alerts[k] <= 1 + repeats
                     /\ k \notin SentToday => alerts[k] <= repeats
                     /\ k \notin alertFile => alerts[k] <= repeats
AppInv == AppDays /\ AppUse /\ AppFlags /\ AppAlerts

\* The invariant says what AppTime promises.
LEMMA AppTyped == AppInv => AppTypeOK /\ UseCounted /\ AlertOnce
<1> SUFFICES ASSUME AppInv PROVE AppTypeOK /\ UseCounted /\ AlertOnce
  OBVIOUS
<1> USE AppConstants DEF AppInv
<1>1. UseCounted
  BY DEF AppDays, AppUse, UseCounted, UsedToday
<1>2. AlertOnce /\ alerts \in [Kind -> 0..MaxHitches + 1]
  BY DEF AppAlerts, AlertOnce
<1>3. {limited, item, flat, kernel, missed} \subseteq BOOLEAN /\ trusted \in BOOLEAN
  BY DEF AppFlags
<1> QED
  BY <1>1, <1>2, <1>3 DEF AppTypeOK, AppDays, AppUse, AppFlags, AppAlerts

\* Nothing used and nothing written yet.
LEMMA AppStart == AppInit => AppInv
<1> SUFFICES ASSUME AppInit PROVE AppInv
  OBVIOUS
<1>1. AppFlags
  BY Zenon DEF AppInit, AppFlags
<1>2. AppDays /\ AppUse
  BY AppConstants DEF AppInit, AppDays, AppUse, Nil, Day
<1>3. AppAlerts
  BY AppConstants DEF AppInit, AppAlerts, SentToday
<1> QED
  BY <1>1, <1>2, <1>3 DEF AppInv

\* What is counted for today was used today.
LEMMA AppUseStep == ASSUME AppInv, [AppNext]_appVars PROVE AppDays' /\ AppUse'
<1> USE AppConstants DEF AppInv, AppDays, AppUse, Day, Nil
<1>1. CASE AppTick
  BY <1>1 DEF AppTick, outside, alertVars
<1>2. CASE AppEnforce
  BY <1>2 DEF AppEnforce, outside, alertVars
<1>3. CASE AppRefresh
  BY <1>3 DEF AppRefresh, outside, alertVars
<1>4. CASE AppScript
  BY <1>4 DEF AppScript, Hitch, outside, alertVars
<1>5. CASE AppFlush
  BY <1>5 DEF AppFlush, outside, alertVars
<1>6. CASE LimitSet
  BY <1>6 DEF LimitSet, Ctl, Sync, Hitch, outside, alertVars
<1>7. CASE ItemSet
  BY <1>7 DEF ItemSet, Ctl, Sync, Hitch, outside, alertVars
<1>8. CASE FirewallRebuilt
  BY <1>8 DEF FirewallRebuilt, Hitch, outside, alertVars
<1>9. CASE AppDies
  BY <1>9 DEF AppDies, Hitch, outside, alertVars
<1>10. CASE DiesInEnforce
  BY <1>10 DEF DiesInEnforce, Hitch, outside, alertVars
<1>11. CASE Midnight
  BY <1>11 DEF Midnight, outside, alertVars
<1>12. CASE ClockDoubted
  BY <1>12 DEF ClockDoubted, Ctl, outside, alertVars
<1>13. CASE UNCHANGED appVars
  BY <1>13 DEF appVars
<1> HIDE DEF AppInv, AppDays, AppUse, Day, Nil
<1> QED
  BY <1>1, <1>2, <1>3, <1>4, <1>5, <1>6, <1>7, <1>8, <1>9, <1>10, <1>11, <1>12, <1>13, Zenon DEF AppNext, AppLoop

\* The switches stay switches.
LEMMA AppFlagsStep == ASSUME AppInv, [AppNext]_appVars PROVE AppFlags'
<1> USE AppConstants DEF AppInv, AppFlags, TimeWanted, Exhausted
<1>1. CASE AppTick
  BY <1>1 DEF AppTick, outside, alertVars
<1>2. CASE AppEnforce
  BY <1>2 DEF AppEnforce, outside, alertVars
<1>3. CASE AppRefresh
  BY <1>3 DEF AppRefresh, outside, alertVars
<1>4. CASE AppScript
  BY <1>4 DEF AppScript, Hitch, outside, alertVars
<1>5. CASE AppFlush
  BY <1>5 DEF AppFlush, outside, alertVars
<1>6. CASE LimitSet
  BY <1>6 DEF LimitSet, Ctl, Sync, Hitch, outside, alertVars
<1>7. CASE ItemSet
  BY <1>7 DEF ItemSet, Ctl, Sync, Hitch, outside, alertVars
<1>8. CASE FirewallRebuilt
  BY <1>8 DEF FirewallRebuilt, Hitch, outside, alertVars
<1>9. CASE AppDies
  BY <1>9 DEF AppDies, Hitch, outside, alertVars
<1>10. CASE DiesInEnforce
  BY <1>10 DEF DiesInEnforce, Hitch, outside, alertVars
<1>11. CASE Midnight
  BY <1>11 DEF Midnight, outside, alertVars
<1>12. CASE ClockDoubted
  BY <1>12 DEF ClockDoubted, Ctl, outside, alertVars
<1>13. CASE UNCHANGED appVars
  BY <1>13 DEF appVars
<1> HIDE DEF AppInv, AppFlags, TimeWanted, Exhausted
<1> QED
  BY <1>1, <1>2, <1>3, <1>4, <1>5, <1>6, <1>7, <1>8, <1>9, <1>10, <1>11, <1>12, <1>13, Zenon DEF AppNext, AppLoop

\* An alert goes out only when neither memory nor file knows of it.
LEMMA AppAlertsStep == ASSUME AppInv, [AppNext]_appVars PROVE AppAlerts'
<1> USE AppConstants DEF AppInv, AppDays, AppAlerts, SentToday, TimeDue, Kind, Day
<1>1. CASE AppTick
  BY <1>1 DEF AppTick, outside, alertVars
<1>2. CASE AppEnforce
  <2>1. UNCHANGED <<timeToday, hitches>>
    BY <1>2, Zenon DEF AppEnforce, outside
  <2>2. CASE ~limited \/ ~trusted
    <3>1. UNCHANGED alertVars
      BY <1>2, <2>2, Zenon DEF AppEnforce
    <3> QED
      BY <2>1, <3>1 DEF alertVars
  <2>3. CASE ~(~limited \/ ~trusted)
    <3> DEFINE new == TimeDue \ SentToday
               all == SentToday \cup new \cup (IF "app_time_exhausted" \in new THEN Kind ELSE {})
    <3>1. /\ sentDate' = timeToday /\ sent' = all /\ UNCHANGED repeats
          /\ alerts' = [k \in Kind |-> alerts[k] + IF k \in new THEN 1 ELSE 0]
          /\ alertFile' = (IF new = {} THEN alertFile ELSE all)
      BY <1>2, <2>3, Zenon DEF AppEnforce
    <3>2. SentToday' = all
      BY <2>1, <3>1 DEF SentToday
    <3>3. SentToday \subseteq Kind /\ new \subseteq Kind /\ new \cap SentToday = {}
      BY DEF SentToday, TimeDue, Kind
    <3>4. SentToday \cup new \subseteq all /\ all \subseteq Kind
      BY <3>3
    <3> HIDE DEF new, all
    <3>5. ASSUME NEW k \in Kind
          PROVE  /\ alerts'[k] \in Nat /\ alerts'[k] <= 1 + repeats'
                 /\ k \notin SentToday' => alerts'[k] <= repeats'
                 /\ k \notin alertFile' => alerts'[k] <= repeats'
      <4>1. /\ k \in new => k \notin SentToday /\ alerts'[k] = alerts[k] + 1
            /\ k \notin new => alerts'[k] = alerts[k]
        BY <3>1, <3>3
      <4>2. /\ k \notin all => k \notin new /\ k \notin SentToday
            /\ new = {} => k \notin new
        BY <3>4
      <4> QED
        BY <3>1, <3>2, <4>1, <4>2
    <3>6. alerts' \in [Kind -> Nat] /\ sent' \subseteq Kind /\ alertFile' \subseteq Kind
      BY <3>1, <3>4
    <3> QED
      BY <2>1, <3>1, <3>5, <3>6
  <2> QED
    BY <2>2, <2>3
<1>3. CASE AppRefresh
  BY <1>3 DEF AppRefresh, outside, alertVars
<1>4. CASE AppScript
  BY <1>4 DEF AppScript, Hitch, outside, alertVars
<1>5. CASE AppFlush
  BY <1>5 DEF AppFlush, outside, alertVars
<1>6. CASE LimitSet
  BY <1>6 DEF LimitSet, Ctl, Sync, Hitch, outside, alertVars
<1>7. CASE ItemSet
  BY <1>7 DEF ItemSet, Ctl, Sync, Hitch, outside, alertVars
<1>8. CASE FirewallRebuilt
  BY <1>8 DEF FirewallRebuilt, Hitch, outside, alertVars
<1>9. CASE AppDies
  BY <1>9 DEF AppDies, Hitch, outside, alertVars
<1>10. CASE DiesInEnforce
  BY <1>10 DEF DiesInEnforce, Hitch, outside, alertVars
<1>11. CASE Midnight
  BY <1>11 DEF Midnight, outside, alertVars
<1>12. CASE ClockDoubted
  BY <1>12 DEF ClockDoubted, Ctl, outside, alertVars
<1>13. CASE UNCHANGED appVars
  BY <1>13 DEF appVars
<1> HIDE DEF AppInv, AppDays, AppAlerts, SentToday, TimeDue, Kind, Day
<1> QED
  BY <1>1, <1>2, <1>3, <1>4, <1>5, <1>6, <1>7, <1>8, <1>9, <1>10, <1>11, <1>12, <1>13, Zenon DEF AppNext, AppLoop

\* Every step of the time budgets keeps the invariant.
LEMMA AppStep == ASSUME AppInv, [AppNext]_appVars PROVE AppInv'
  BY AppUseStep, AppFlagsStep, AppAlertsStep DEF AppInv

-----------------------------------------------------------------------------
(* The limit controller.                                                   *)

CtlRounds == [at : {"idle", "apply"}, todo : Seq({"limit", "block", "unblock"}),
              want : Rule, partial : BOOLEAN]

CtlPlaces ==
  /\ rule \in Rule /\ manual \in Rule
  /\ window \in {"none", "free", "slow", "block"} /\ quota \in {"off", "throttle", "block"}
  /\ round \in CtlRounds
CtlFlags == online \in BOOLEAN /\ mixed \in BOOLEAN
CtlBooks ==
  /\ counter \in 0..MaxTraffic /\ limSent \in 0..MaxTraffic /\ limUnsaved \in 0..limSent
  /\ edits \in 0..MaxEdits /\ period \in 0..edits

\* What a round would add to the bytes of c, were it to begin now.
Pending(c) == IF ~c.havePrev THEN 0 ELSE IF counter >= c.prev THEN counter - c.prev ELSE counter
\* Nothing is charged, nor waits to be charged, that was not sent.
Charged(c) ==
  /\ c.key <= period /\ Pending(c) <= limUnsaved
  /\ c.key = period => c.bytes + Pending(c) <= limSent

\* Memory and file say the same of the rule between two rounds.
SameRule(c, d) == c.adopted = d.adopted /\ c.base = d.base /\ c.observed = d.observed
\* A controller that knows c will take the user's rule for the base.
TrueBase(c, now) == IF c.adopted /\ now = c.observed THEN c.base = manual ELSE now = manual
CtlBase ==
  /\ round.at = "idle" => SameRule(ctl, disk)
  /\ ~mixed /\ round.at = "idle" => TrueBase(ctl, rule)
  /\ ~mixed /\ round.at = "apply" =>
       ctl.adopted /\ ctl.base = manual /\ TrueBase(disk, ctl.observed)

\* While a round applies, all that was sent has been counted.
AllCounted == round.at = "apply" => Pending(ctl) = 0

CtlInv ==
  /\ CtlPlaces /\ CtlFlags /\ CtlBooks /\ ctl \in CtlState /\ disk \in CtlState
  /\ Charged(ctl) /\ Charged(disk) /\ AllCounted /\ CtlBase

\* The invariant says what the limit controller promises.
LEMMA CtlTyped == CtlInv => LimitTypeOK /\ BaseIsManual /\ NoOvercharge
<1> SUFFICES ASSUME CtlInv PROVE LimitTypeOK /\ BaseIsManual /\ NoOvercharge
  OBVIOUS
<1> USE LimitConstants DEF CtlInv
<1>1. BaseIsManual
  BY DEF CtlBase, TrueBase, BaseIsManual
<1>2. Pending(ctl) \in Nat /\ ctl.bytes \in Nat /\ limSent \in Nat
  BY DEF Pending, CtlBooks, CtlState
<1>3. NoOvercharge
  BY <1>2 DEF Charged, NoOvercharge
<1>4. {counter, limSent, limUnsaved} \subseteq 0..2 * MaxTraffic
  BY DEF CtlBooks
<1> QED
  BY <1>1, <1>3, <1>4 DEF LimitTypeOK, CtlPlaces, CtlFlags, CtlRounds

\* Having no limit is a rule.
LEMMA FreeIsRule == LimFree \in Rule
  BY DEF LimFree, Rule, Rate

\* Nothing sent, nothing charged, nothing adopted.
LEMMA CtlStart == LimitInit => CtlInv
<1> SUFFICES ASSUME LimitInit PROVE CtlInv
  OBVIOUS
<1> USE LimitConstants DEF LimitInit
<1>1. NewCtl \in CtlState
  BY FreeIsRule DEF NewCtl, CtlState
<1>2. CtlPlaces
  BY FreeIsRule DEF CtlPlaces, NoRound, CtlRounds
<1>3. CtlFlags
  BY Zenon DEF CtlFlags
<1>4. CtlBooks /\ Charged(NewCtl)
  BY DEF CtlBooks, Charged, Pending, NewCtl
<1>5. CtlBase
  BY DEF CtlBase, SameRule, TrueBase, NoRound, NewCtl
<1>6. AllCounted
  BY DEF AllCounted, NoRound
<1> QED
  BY <1>1, <1>2, <1>3, <1>4, <1>5, <1>6, Zenon DEF CtlInv

\* Counting charges what was pending and leaves the rest alone.
LEMMA CountedTrue ==
  ASSUME CtlBooks, NEW c \in CtlState, Charged(c)
  PROVE  /\ Counted(c) \in CtlState /\ SameRule(Counted(c), c) /\ Counted(c).desired = c.desired
         /\ Counted(c).prev = counter /\ Counted(c).key = period
         /\ Counted(c).havePrev = TRUE /\ Counted(c).bytes <= limSent
<1> DEFINE n == Pending(c) + (IF c.key = period THEN c.bytes ELSE 0)
<1>1. Pending(c) \in Nat /\ c.bytes \in Nat
  BY DEF Pending, CtlState, CtlBooks
<1>2. n \in Nat /\ n <= limSent
  BY <1>1 DEF Charged, CtlBooks
<1>3. Counted(c) = [c EXCEPT !.havePrev = TRUE, !.prev = counter, !.key = period, !.bytes = n]
  BY DEF Counted, Pending
<1>4. n \in 0..2 * MaxTraffic /\ counter \in 0..MaxTraffic /\ period \in 0..MaxEdits
  BY <1>2, LimitConstants DEF CtlBooks
<1> HIDE DEF n
<1>5. Counted(c) = [adopted |-> c.adopted, base |-> c.base, desired |-> c.desired, observed |-> c.observed,
                    havePrev |-> TRUE, prev |-> counter, key |-> period, bytes |-> n]
  BY <1>3, <1>4 DEF CtlState
<1> QED
  BY <1>2, <1>4, <1>5 DEF CtlState, SameRule
\* What a round has counted: nothing is pending, and the bytes were sent.
JustCounted(c) == c.havePrev = TRUE /\ c.prev = counter /\ c.key = period /\ c.bytes <= limSent
\* A round keeps what it knew of the rule, or adopts another rule than the one it knew.
Takes(d, c) == \/ SameRule(d, c)
               \/ d.adopted /\ d.base = rule /\ d.observed = rule /\ ~(c.adopted /\ rule = c.observed)

\* Adopting the observed rule changes nothing that is charged.
LEMMA AdoptedTrue ==
  ASSUME CtlPlaces, NEW c \in CtlState, JustCounted(c)
  PROVE  /\ Adopted(c) \in CtlState /\ JustCounted(Adopted(c)) /\ Takes(Adopted(c), c)
         /\ Adopted(c).adopted /\ Adopted(c).observed = rule
<1>1. CASE c.adopted /\ rule = c.observed
  <2>1. Adopted(c) = c
    BY <1>1 DEF Adopted, ReadObserved
  <2> QED
    BY <1>1, <2>1 DEF Takes, SameRule
<1>2. CASE ~(c.adopted /\ rule = c.observed)
  <2>1. Adopted(c) = [c EXCEPT !.adopted = TRUE, !.base = rule, !.desired = rule, !.observed = rule]
    BY <1>2 DEF Adopted, ReadObserved
  <2>2. Adopted(c) = [adopted |-> TRUE, base |-> rule, desired |-> rule, observed |-> rule,
                      havePrev |-> c.havePrev, prev |-> c.prev, key |-> c.key, bytes |-> c.bytes]
    BY <2>1 DEF CtlState
  <2> QED
    BY <1>2, <2>2 DEF CtlState, Takes, JustCounted, CtlPlaces
<1> QED
  BY <1>1, <1>2

\* What the controller wishes for is a rule.
LEMMA EffectiveIsRule ==
  ASSUME NEW c \in CtlState
  PROVE  Effective(c) \in Rule
<1>1. c.base.lim \in Rate /\ c.base \in Rule
  BY DEF CtlState, Rule
<1>2. WindowLimit(c) \in Rate
  BY <1>1 DEF WindowLimit, Rate
<1>3. Stricter(WindowLimit(c), 1) \in Rate
  BY <1>2 DEF Stricter, Rate
<1>4. \/ Effective(c) = [lim |-> c.base.lim, blk |-> TRUE]
      \/ Effective(c) = [lim |-> Stricter(WindowLimit(c), 1), blk |-> FALSE]
      \/ Effective(c) = [lim |-> WindowLimit(c), blk |-> FALSE]
  BY DEF Effective
<1>5. \A n \in Rate, b \in BOOLEAN : [lim |-> n, blk |-> b] \in Rule
  BY DEF Rule
<1>6. TRUE \in BOOLEAN /\ FALSE \in BOOLEAN
  OBVIOUS
<1> QED
  BY <1>1, <1>2, <1>3, <1>4, <1>5, <1>6, Zenon

\* A round that begins, whether it then applies something or not.
LEMMA RoundCounts ==
  ASSUME CtlInv
  PROVE  /\ Counted(ctl) \in CtlState /\ JustCounted(Counted(ctl)) /\ SameRule(Counted(ctl), ctl)
         /\ Adopted(Counted(ctl)) \in CtlState /\ JustCounted(Adopted(Counted(ctl)))
         /\ Takes(Adopted(Counted(ctl)), ctl)
         /\ Adopted(Counted(ctl)).adopted /\ Adopted(Counted(ctl)).observed = rule
<1>1. CtlBooks /\ CtlPlaces /\ ctl \in CtlState /\ Charged(ctl)
  BY Zenon DEF CtlInv
<1>2. /\ Counted(ctl) \in CtlState /\ SameRule(Counted(ctl), ctl) /\ Counted(ctl).prev = counter
      /\ Counted(ctl).key = period /\ Counted(ctl).havePrev = TRUE /\ Counted(ctl).bytes <= limSent
  BY <1>1, CountedTrue
<1>3. JustCounted(Counted(ctl))
  BY <1>2, Zenon DEF JustCounted
<1> DEFINE c == Counted(ctl)
<1> HIDE DEF c
<1>4. c \in CtlState /\ JustCounted(c) /\ SameRule(c, ctl)
  BY <1>2, <1>3, Zenon DEF c
<1>5. /\ Adopted(c) \in CtlState /\ JustCounted(Adopted(c)) /\ Takes(Adopted(c), c)
      /\ Adopted(c).adopted /\ Adopted(c).observed = rule
  BY <1>1, <1>4, AdoptedTrue
<1>6. Takes(Adopted(c), ctl)
  BY <1>4, <1>5 DEF Takes, SameRule
<1> QED
  BY <1>4, <1>5, <1>6, Zenon DEF c

\* A round with nothing to apply counts the traffic, and saves or leaves the
\* rule as it was.
LEMMA QuietRound ==
  ASSUME CtlInv, RoundQuiet
  PROVE  /\ round.at = "idle" /\ ctl' \in CtlState /\ JustCounted(ctl') /\ Takes(ctl', ctl)
         /\ \/ disk' = ctl' /\ limUnsaved' = 0
            \/ disk' = disk /\ limUnsaved' = limUnsaved /\ SameRule(ctl', ctl)
         /\ UNCHANGED <<rule, manual, online, window, quota, counter, round, period, limSent, mixed, edits>>
<1> DEFINE c == IF Concerned(ctl) THEN Adopted(Counted(ctl)) ELSE Counted(ctl)
<1>1. /\ round.at = "idle" /\ ctl' = c
      /\ \/ SaveNow(c)
         \/ c = [ctl EXCEPT !.havePrev = TRUE, !.prev = c.prev, !.key = c.key, !.bytes = c.bytes]
            /\ UNCHANGED <<disk, limUnsaved>>
      /\ UNCHANGED <<rule, manual, online, window, quota, counter, round, period, limSent, hist, edits, mishaps>>
  BY Zenon DEF RoundQuiet
<1>2. c \in CtlState /\ JustCounted(c) /\ Takes(c, ctl)
  BY RoundCounts DEF Takes
<1> HIDE DEF c
<1>3. ctl \in CtlState
  BY Zenon DEF CtlInv
<1>4. c = [ctl EXCEPT !.havePrev = TRUE, !.prev = c.prev, !.key = c.key, !.bytes = c.bytes] => SameRule(c, ctl)
  <2> DEFINE pr == c.prev  ke == c.key  by == c.bytes
             d == [ctl EXCEPT !.havePrev = TRUE, !.prev = pr, !.key = ke, !.bytes = by]
  <2> HIDE DEF pr, ke, by
  <2>1. SameRule(d, ctl)
    BY <1>3 DEF SameRule, CtlState
  <2> HIDE DEF d
  <2>2. c = d => SameRule(c, ctl)
    BY <2>1, Zenon
  <2> QED
    BY <2>2, Zenon DEF d, pr, ke, by
<1> QED
  BY <1>1, <1>2, <1>4 DEF SaveNow, hist

\* A round with something to apply counts the traffic and has adopted the rule
\* it found.
LEMMA ApplyingRound ==
  ASSUME CtlInv, RoundApplies
  PROVE  /\ round.at = "idle" /\ ctl' \in CtlState /\ JustCounted(ctl') /\ Takes(ctl', ctl)
         /\ ctl'.adopted /\ ctl'.observed = rule /\ round' \in CtlRounds /\ round'.at = "apply"
         /\ UNCHANGED <<rule, manual, online, window, quota, disk, counter, period, limSent, limUnsaved, mixed, edits>>
<1> DEFINE c == Adopted(Counted(ctl))  wish == Effective(c)  to == Target(c, wish)
<1>1. /\ round.at = "idle" /\ ctl' = c
      /\ round' = [at |-> "apply", todo |-> Actions(c.observed, to), want |-> wish, partial |-> to # wish]
      /\ UNCHANGED <<rule, manual, online, window, quota, disk, traffic, hist, edits, mishaps>>
  BY Zenon DEF RoundApplies
<1>2. c \in CtlState /\ JustCounted(c) /\ Takes(c, ctl) /\ c.adopted /\ c.observed = rule
  BY RoundCounts
<1> HIDE DEF c
<1>3. wish \in Rule
  BY <1>2, EffectiveIsRule
<1> HIDE DEF wish
<1> HIDE DEF to
<1>4. Actions(c.observed, to) \in Seq({"limit", "block", "unblock"})
  <2> DEFINE Acts == {"limit", "block", "unblock"}  from == c.observed
             limit == IF from.lim # to.lim THEN <<"limit">> ELSE <<>>
  <2>1. limit \in Seq(Acts) /\ <<"block">> \in Seq(Acts) /\ <<"unblock">> \in Seq(Acts) /\ << >> \in Seq(Acts)
    OBVIOUS
  <2>2. \/ Actions(from, to) = <<"block">> \o limit
        \/ Actions(from, to) = limit \o <<"unblock">>
        \/ Actions(from, to) = limit \o <<>>
    BY DEF Actions
  <2> HIDE DEF Acts, from, limit
  <2>3. \A s, t \in Seq(Acts) : s \o t \in Seq(Acts)
    OBVIOUS
  <2>4. Actions(from, to) \in Seq(Acts)
    BY <2>1, <2>2, <2>3, Zenon
  <2> QED
    BY <2>4, Zenon DEF Acts, from
<1>5. (to # wish) \in BOOLEAN
  BY Zenon
<1>6. round' \in CtlRounds /\ round'.at = "apply"
  BY <1>1, <1>3, <1>4, <1>5 DEF CtlRounds
<1> QED
  BY <1>1, <1>2, <1>6 DEF traffic, hist
\* The rest of reconcile: an action of the list, its end, and a death.
LEMMA EndOfRound ==
  ASSUME CtlInv, NEW done \in BOOLEAN, EndRound(done)
  PROVE  /\ ctl' \in CtlState /\ ctl'.adopted = ctl.adopted /\ ctl'.base = ctl.base /\ ctl'.observed = rule
         /\ ctl'.havePrev = ctl.havePrev /\ ctl'.prev = ctl.prev /\ ctl'.key = ctl.key /\ ctl'.bytes = ctl.bytes
         /\ disk' = ctl' /\ limUnsaved' = 0 /\ round' = NoRound
<1> DEFINE w == IF done THEN round.want ELSE ctl.desired
<1>1. ctl \in CtlState /\ rule \in Rule /\ round.want \in Rule
  BY DEF CtlInv, CtlPlaces, CtlRounds
<1>2. w \in Rule
  BY <1>1 DEF CtlState
<1>3. ctl' = [ctl EXCEPT !.observed = rule, !.desired = w] /\ disk' = ctl' /\ limUnsaved' = 0 /\ round' = NoRound
  BY DEF EndRound, SaveNow, ReadObserved
<1> HIDE DEF w
<1>4. ctl' = [adopted |-> ctl.adopted, base |-> ctl.base, desired |-> w, observed |-> rule,
              havePrev |-> ctl.havePrev, prev |-> ctl.prev, key |-> ctl.key, bytes |-> ctl.bytes]
  BY <1>1, <1>3 DEF CtlState
<1> QED
  BY <1>1, <1>2, <1>3, <1>4 DEF CtlState

\* An action of a round changes the kernel's rule alone.
LEMMA RunningRound ==
  ASSUME CtlInv, RunAction
  PROVE  /\ round.at = "apply" /\ round'.at = "apply" /\ round' \in CtlRounds /\ rule' \in Rule
         /\ UNCHANGED <<manual, online, window, quota, ctl, disk, counter, period, limSent, limUnsaved, mixed, edits>>
<1> DEFINE a == Head(round.todo)  b == (a = "block")  acts == {"limit", "block", "unblock"}
<1>1. /\ round.at = "apply" /\ round.todo # <<>>
      /\ rule' = (IF a = "limit" THEN [rule EXCEPT !.lim = round.want.lim] ELSE [rule EXCEPT !.blk = b])
      /\ round' = [round EXCEPT !.todo = Tail(@)]
      /\ UNCHANGED <<manual, online, window, quota, ctl, disk, traffic, hist, edits, mishaps>>
  BY Zenon DEF RunAction
<1>2. round \in CtlRounds /\ rule \in Rule
  BY Zenon DEF CtlInv, CtlPlaces
<1>3. round.want.lim \in Rate /\ round.todo \in Seq(acts) /\ round.want \in Rule
  BY <1>2 DEF CtlRounds, Rule
<1>4. b \in BOOLEAN
  BY Zenon
<1> HIDE DEF b
<1>5. rule' \in Rule
  BY <1>1, <1>2, <1>3, <1>4 DEF Rule
<1>6. Tail(round.todo) \in Seq(acts)
  BY <1>1, <1>3
<1>7. round' = [at |-> round.at, todo |-> Tail(round.todo), want |-> round.want, partial |-> round.partial]
  BY <1>1, <1>2 DEF CtlRounds
<1>8. round' \in CtlRounds /\ round'.at = "apply"
  BY <1>1, <1>2, <1>3, <1>6, <1>7 DEF CtlRounds
<1> QED
  BY <1>1, <1>5, <1>8 DEF traffic, hist

\* A round that ends, well or not, leaves the outside world alone.
LEMMA EndedRound ==
  ASSUME CtlInv, ApplyDone \/ ApplyFails
  PROVE  /\ round.at = "apply" /\ \E done \in BOOLEAN : EndRound(done)
         /\ UNCHANGED <<rule, manual, online, window, quota, counter, period, limSent, mixed, edits>>
<1>1. round.partial \in BOOLEAN
  BY DEF CtlInv, CtlPlaces, CtlRounds
<1>2. (~round.partial) \in BOOLEAN /\ FALSE \in BOOLEAN
  BY <1>1, Zenon
<1> QED
  BY <1>2, Zenon DEF ApplyDone, ApplyFails

\* Between two rounds.
LEMMA IdleIsRound == NoRound \in CtlRounds /\ NoRound.at = "idle"
  BY FreeIsRule DEF NoRound, CtlRounds

\* What a round has counted is charged truly, now and when it is saved.
LEMMA CountedCharged ==
  ASSUME CtlBooks, NEW c \in CtlState, JustCounted(c), UNCHANGED <<counter, period, limSent>>,
         limUnsaved' = limUnsaved \/ limUnsaved' = 0
  PROVE  Charged(c)'
<1>1. Pending(c)' = 0
  BY LimitConstants DEF Pending, CtlBooks, JustCounted
<1>2. c.bytes \in Nat /\ limSent \in Nat /\ period \in Nat /\ limUnsaved \in Nat
  BY LimitConstants DEF CtlState, CtlBooks
<1> QED
  BY <1>1, <1>2 DEF Charged, JustCounted
Outside == QuotaChanges \/ WindowChanges \/ NewPeriod \/ Traffic \/ CounterReset \/ Connects
\* What the user, the clock and the device do between two rounds leaves the
\* controller's state alone.
LEMMA OutsideSteps ==
  ASSUME CtlInv, Outside
  PROVE  UNCHANGED <<rule, manual, ctl, disk, round, mixed>>
  BY DEF Outside, QuotaChanges, WindowChanges, NewPeriod, Traffic, CounterReset, Connects, traffic, hist

\* A user's edit changes rule and wish together, or the history is mixed from
\* then on.
LEMMA UserSteps ==
  ASSUME CtlInv, UserBlock \/ \E l \in {0, 2} : UserLimit(l)
  PROVE  /\ round.at = "idle" /\ rule' \in Rule /\ manual' \in Rule /\ mixed' \in BOOLEAN
         /\ ~mixed' => ~mixed /\ rule' = manual' /\ ~Unseen
         /\ UNCHANGED <<online, window, quota, ctl, disk, round, counter, period, limSent, limUnsaved>> /\ Edit
<1>1. rule \in Rule /\ manual \in Rule /\ mixed \in BOOLEAN
  BY Zenon DEF CtlInv, CtlPlaces, CtlFlags
<1>2. CASE UserBlock
  <2> DEFINE b == ~rule.blk
  <2>1. /\ round.at = "idle" /\ Edit /\ rule' = [rule EXCEPT !.blk = b] /\ manual' = [manual EXCEPT !.blk = b]
        /\ mixed' = (mixed \/ rule.lim # manual.lim \/ Unseen)
        /\ UNCHANGED <<online, window, quota, ctl, disk, round, traffic, halfDone, mishaps>>
    BY <1>2 DEF UserBlock
  <2>2. b \in BOOLEAN
    BY Zenon
  <2>3. mixed' \in BOOLEAN /\ (~mixed' => ~mixed /\ rule.lim = manual.lim /\ ~Unseen)
    BY <2>1, <1>1, Zenon
  <2> HIDE DEF b
  <2>4. rule' \in Rule /\ manual' \in Rule /\ (rule.lim = manual.lim => rule' = manual')
    BY <1>1, <2>1, <2>2 DEF Rule
  <2> QED
    BY <2>1, <2>3, <2>4, Zenon DEF traffic
<1>3. CASE \E l \in {0, 2} : UserLimit(l)
  <2> PICK l \in {0, 2} : UserLimit(l)
    BY <1>3, Zenon
  <2>1. /\ round.at = "idle" /\ Edit /\ rule' = [rule EXCEPT !.lim = l] /\ manual' = [manual EXCEPT !.lim = l]
        /\ mixed' = (mixed \/ rule.blk # manual.blk \/ Unseen)
        /\ UNCHANGED <<online, window, quota, ctl, disk, round, traffic, halfDone, mishaps>>
    BY Zenon DEF UserLimit
  <2>3. mixed' \in BOOLEAN /\ (~mixed' => ~mixed /\ rule.blk = manual.blk /\ ~Unseen)
    BY <2>1, <1>1, Zenon
  <2>4. rule' \in Rule /\ manual' \in Rule /\ (rule.blk = manual.blk => rule' = manual')
    BY <1>1, <2>1 DEF Rule, Rate
  <2> QED
    BY <2>1, <2>3, <2>4, Zenon DEF traffic
<1> QED
  BY <1>2, <1>3

Users == UserBlock \/ \E l \in {0, 2} : UserLimit(l)
Ends == ApplyDone \/ ApplyFails
\* The actions, grouped by what they do to the controller.
LEMMA CtlCases ==
  ASSUME [LimitNext]_limitVars
  PROVE  RoundQuiet \/ RoundApplies \/ RunAction \/ Ends \/ LimitDies \/ Users \/ Outside \/ UNCHANGED limitVars
  BY Zenon DEF LimitNext, Round, Ends, Users, Outside

\* Every step keeps the types and the flags.
LEMMA CtlPlacesStep == CtlInv /\ [LimitNext]_limitVars => CtlPlaces' /\ CtlFlags' /\ ctl' \in CtlState /\ disk' \in CtlState
<1> SUFFICES ASSUME CtlInv, [LimitNext]_limitVars
             PROVE  CtlPlaces' /\ CtlFlags' /\ ctl' \in CtlState /\ disk' \in CtlState
  OBVIOUS
<1>0. CtlPlaces /\ CtlFlags /\ ctl \in CtlState /\ disk \in CtlState
  BY Zenon DEF CtlInv
<1>1. CASE RoundQuiet
  BY <1>0, <1>1, QuietRound, Zenon DEF CtlPlaces, CtlFlags
<1>2. CASE RoundApplies
  BY <1>0, <1>2, ApplyingRound, Zenon DEF CtlPlaces, CtlFlags
<1>3. CASE RunAction
  BY <1>0, <1>3, RunningRound, Zenon DEF CtlPlaces, CtlFlags
<1>4. CASE Ends
  <2>1. PICK done \in BOOLEAN : EndRound(done)
    BY <1>4, EndedRound, Zenon DEF Ends
  <2>2. ctl' \in CtlState /\ disk' = ctl' /\ round' = NoRound
    BY <2>1, EndOfRound
  <2>3. UNCHANGED <<rule, manual, online, window, quota, mixed>>
    BY <1>4, EndedRound, Zenon DEF Ends
  <2> QED
    BY <1>0, <2>2, <2>3, IdleIsRound, Zenon DEF CtlPlaces, CtlFlags
<1>5. CASE LimitDies
  BY <1>0, <1>5, IdleIsRound, Zenon DEF LimitDies, CtlPlaces, CtlFlags
<1>6. CASE Users
  BY <1>0, <1>6, UserSteps, Zenon DEF Users, CtlPlaces, CtlFlags
<1>7. CASE Outside
  <2>1. UNCHANGED <<rule, manual, ctl, disk, round, mixed>>
    BY <1>7, OutsideSteps
  <2>2. window' \in {"none", "free", "slow", "block"} /\ quota' \in {"off", "throttle", "block"} /\ online' \in BOOLEAN
    <3>1. window \in {"none", "free", "slow", "block"} /\ quota \in {"off", "throttle", "block"} /\ online \in BOOLEAN
      BY <1>0, Zenon DEF CtlPlaces, CtlFlags
    <3> QED
      BY <1>7, <3>1, Zenon DEF Outside, QuotaChanges, WindowChanges, NewPeriod, Traffic, CounterReset, Connects
  <2> QED
    BY <1>0, <2>1, <2>2, Zenon DEF CtlPlaces, CtlFlags
<1>8. CASE UNCHANGED limitVars
  BY <1>0, <1>8, Zenon DEF limitVars, CtlPlaces, CtlFlags
<1> QED
  BY <1>1, <1>2, <1>3, <1>4, <1>5, <1>6, <1>7, <1>8, CtlCases

\* Every step keeps the numbers of the books in their ranges.
LEMMA CtlBooksStep == CtlInv /\ [LimitNext]_limitVars => CtlBooks'
<1> SUFFICES ASSUME CtlInv, [LimitNext]_limitVars
             PROVE  CtlBooks'
  OBVIOUS
<1>0. CtlBooks
  BY Zenon DEF CtlInv
<1> USE <1>0, LimitConstants DEF CtlBooks
<1>1. CASE RoundQuiet
  BY <1>1, QuietRound
<1>2. CASE RoundApplies
  BY <1>2, ApplyingRound
<1>3. CASE RunAction
  BY <1>3, RunningRound
<1>4. CASE Ends
  <2>1. PICK done \in BOOLEAN : EndRound(done)
    BY <1>4, EndedRound, Zenon DEF Ends
  <2>2. limUnsaved' = 0
    BY <2>1, EndOfRound
  <2>3. UNCHANGED <<counter, limSent, edits, period>>
    BY <1>4, EndedRound, Zenon DEF Ends
  <2> QED
    BY <2>2, <2>3
<1>5. CASE LimitDies
  BY <1>5 DEF LimitDies, traffic
<1>6. CASE Users
  BY <1>6, UserSteps DEF Users, Edit
<1>7. CASE Outside
  BY <1>7 DEF Outside, QuotaChanges, WindowChanges, NewPeriod, Traffic, CounterReset, Connects, Edit, traffic
<1>8. CASE UNCHANGED limitVars
  BY <1>8 DEF limitVars
<1> QED
  BY <1>1, <1>2, <1>3, <1>4, <1>5, <1>6, <1>7, <1>8, CtlCases

\* The books of a state that no round touches, whoever keeps it.
LEMMA StillCharged ==
  ASSUME CtlBooks, NEW c \in CtlState, Charged(c), Outside
  PROVE  Charged(c)'
<1>1. /\ c.prev \in Nat /\ c.bytes \in Nat /\ c.key \in Nat /\ c.havePrev \in BOOLEAN /\ counter \in Nat
      /\ limSent \in Nat /\ limUnsaved \in Nat /\ period \in Nat /\ limUnsaved <= limSent
  BY LimitConstants DEF CtlState, CtlBooks
<1>2. CASE QuotaChanges \/ WindowChanges \/ Connects
  BY <1>2 DEF QuotaChanges, WindowChanges, Connects, traffic, Charged, Pending
<1>3. CASE NewPeriod
  BY <1>1, <1>3 DEF NewPeriod, Charged, Pending
<1>4. CASE Traffic
  BY <1>1, <1>4 DEF Traffic, Charged, Pending
<1>5. CASE CounterReset
  BY <1>1, <1>5 DEF CounterReset, Charged, Pending
<1> QED
  BY <1>2, <1>3, <1>4, <1>5, Zenon DEF Outside

\* Every step charges no more than was sent, to memory and to the file.
LEMMA ChargedStep == CtlInv /\ [LimitNext]_limitVars => Charged(ctl)' /\ Charged(disk)'
<1> SUFFICES ASSUME CtlInv, [LimitNext]_limitVars
             PROVE  Charged(ctl)' /\ Charged(disk)'
  OBVIOUS
<1>0. CtlBooks /\ ctl \in CtlState /\ disk \in CtlState /\ Charged(ctl) /\ Charged(disk)
  BY Zenon DEF CtlInv
<1> DEFINE Now(c) == /\ c.key <= period'
                     /\ (IF ~c.havePrev THEN 0 ELSE IF counter' >= c.prev THEN counter' - c.prev ELSE counter') <= limUnsaved'
                     /\ c.key = period' => c.bytes + (IF ~c.havePrev THEN 0 ELSE IF counter' >= c.prev THEN counter' - c.prev ELSE counter') <= limSent'
<1> SUFFICES Now(ctl') /\ Now(disk')
  BY DEF Charged, Pending
<1>a. ASSUME NEW c \in CtlState, JustCounted(c), UNCHANGED <<counter, period, limSent>>,
             limUnsaved' = limUnsaved \/ limUnsaved' = 0
      PROVE  Now(c)
  BY <1>0, <1>a, CountedCharged DEF Charged, Pending
<1>b. ASSUME NEW c \in CtlState, Charged(c), UNCHANGED <<counter, period, limSent, limUnsaved>>
      PROVE  Now(c)
  BY <1>b DEF Charged, Pending
<1>c. ASSUME NEW c \in CtlState, Charged(c), Outside
      PROVE  Now(c)
  BY <1>0, <1>c, StillCharged DEF Charged, Pending
<1> HIDE DEF Now
<1>1. CASE RoundQuiet
  <2>1. /\ ctl' \in CtlState /\ JustCounted(ctl') /\ UNCHANGED <<counter, period, limSent>>
        /\ \/ disk' = ctl' /\ limUnsaved' = 0
           \/ disk' = disk /\ limUnsaved' = limUnsaved
    BY <1>1, QuietRound, Zenon
  <2>2. Now(ctl')
    BY <2>1, <1>a, Zenon
  <2> QED
    BY <1>0, <2>1, <2>2, <1>b, Zenon
<1>2. CASE RoundApplies
  <2>1. /\ ctl' \in CtlState /\ JustCounted(ctl') /\ UNCHANGED <<counter, period, limSent, limUnsaved, disk>>
    BY <1>2, ApplyingRound, Zenon
  <2>2. Now(ctl')
    BY <2>1, <1>a, Zenon
  <2> QED
    BY <1>0, <2>1, <2>2, <1>b, Zenon
<1>3. CASE RunAction
  <2>1. UNCHANGED <<counter, period, limSent, limUnsaved, ctl, disk>>
    BY <1>3, RunningRound, Zenon
  <2> QED
    BY <1>0, <2>1, <1>b, Zenon
<1>5. CASE LimitDies
  <2>1. UNCHANGED <<counter, period, limSent, limUnsaved, disk>> /\ ctl' = disk
    BY <1>5, Zenon DEF LimitDies, traffic
  <2> QED
    BY <1>0, <2>1, <1>b, Zenon
<1>6. CASE Users
  <2>1. UNCHANGED <<counter, period, limSent, limUnsaved, ctl, disk>>
    BY <1>6, UserSteps, Zenon DEF Users
  <2> QED
    BY <1>0, <2>1, <1>b, Zenon
<1>7. CASE Outside
  <2>1. UNCHANGED <<ctl, disk>>
    BY <1>7, OutsideSteps, Zenon
  <2> QED
    BY <1>0, <1>7, <2>1, <1>c, Zenon
<1>8. CASE UNCHANGED limitVars
  <2>1. UNCHANGED <<counter, period, limSent, limUnsaved, ctl, disk>>
    BY <1>8, Zenon DEF limitVars
  <2> QED
    BY <1>0, <2>1, <1>b, Zenon
<1>4. CASE Ends
  <2>1. PICK done \in BOOLEAN : EndRound(done)
    BY <1>4, EndedRound, Zenon DEF Ends
  <2>2. /\ round.at = "apply" /\ limUnsaved' = 0 /\ disk' = ctl'
        /\ ctl'.havePrev = ctl.havePrev /\ ctl'.prev = ctl.prev /\ ctl'.key = ctl.key /\ ctl'.bytes = ctl.bytes
    BY <1>4, <2>1, EndOfRound, EndedRound DEF Ends
  <2>3. UNCHANGED <<counter, period, limSent>>
    BY <1>4, EndedRound, Zenon DEF Ends
  <2>4. Pending(ctl) = 0
    BY <2>2 DEF CtlInv, AllCounted
  <2>5. period \in Nat /\ ctl.key \in Nat /\ ctl.bytes \in Nat /\ limSent \in Nat
    BY <1>0, LimitConstants DEF CtlBooks, CtlState
  <2> QED
    BY <1>0, <2>2, <2>3, <2>4, <2>5 DEF Now, Charged, Pending
<1> QED
  BY <1>1, <1>2, <1>3, <1>4, <1>5, <1>6, <1>7, <1>8, CtlCases
\* Nothing is pending while a round applies.
LEMMA AllCountedStep == CtlInv /\ [LimitNext]_limitVars => AllCounted'
<1> SUFFICES ASSUME CtlInv, [LimitNext]_limitVars
             PROVE  AllCounted'
  OBVIOUS
<1>0. CtlBooks /\ ctl \in CtlState /\ AllCounted
  BY Zenon DEF CtlInv
<1> USE DEF AllCounted, Pending
<1>1. CASE RoundQuiet
  BY <1>1, QuietRound
<1>2. CASE RoundApplies
  <2>1. ctl' \in CtlState /\ JustCounted(ctl') /\ counter' = counter
    BY <1>2, ApplyingRound, Zenon
  <2> QED
    BY <1>0, <2>1 DEF JustCounted, CtlBooks
<1>3. CASE RunAction
  BY <1>0, <1>3, RunningRound
<1>4. CASE Ends
  <2>1. PICK done \in BOOLEAN : EndRound(done)
    BY <1>4, EndedRound, Zenon DEF Ends
  <2> QED
    BY <2>1, EndOfRound, IdleIsRound
<1>5. CASE LimitDies
  BY <1>5, IdleIsRound DEF LimitDies
<1>6. CASE Users
  BY <1>6, UserSteps DEF Users
<1>7. CASE Outside
  <2>1. UNCHANGED <<ctl, round>>
    BY <1>7, OutsideSteps, Zenon
  <2>2. round.at = "idle" \/ counter' = counter \/ counter' = 0
    BY <1>7 DEF Outside, QuotaChanges, WindowChanges, NewPeriod, Traffic, CounterReset, Connects, traffic
  <2>3. ctl.prev \in Nat
    BY <1>0 DEF CtlState
  <2> QED
    BY <1>0, <2>1, <2>2, <2>3
<1>8. CASE UNCHANGED limitVars
  BY <1>0, <1>8 DEF limitVars
<1> QED
  BY <1>1, <1>2, <1>3, <1>4, <1>5, <1>6, <1>7, <1>8, CtlCases

\* Every step keeps the base that memory and file lead to the user's rule.
LEMMA CtlBaseStep == CtlInv /\ [LimitNext]_limitVars => CtlBase'
<1> SUFFICES ASSUME CtlInv, [LimitNext]_limitVars
             PROVE  CtlBase'
  OBVIOUS
<1>0. CtlBase /\ mixed \in BOOLEAN /\ round.at \in {"idle", "apply"}
  BY DEF CtlInv, CtlFlags, CtlPlaces, CtlRounds
<1> USE <1>0 DEF CtlBase, SameRule, TrueBase
<1>1. CASE RoundQuiet
  BY <1>1, QuietRound DEF Takes
<1>2. CASE RoundApplies
  BY <1>2, ApplyingRound DEF Takes
<1>3. CASE RunAction
  BY <1>3, RunningRound
<1>4. CASE Ends
  <2>1. PICK done \in BOOLEAN : EndRound(done)
    BY <1>4, EndedRound, Zenon DEF Ends
  <2>2. /\ ctl'.adopted = ctl.adopted /\ ctl'.base = ctl.base /\ ctl'.observed = rule /\ disk' = ctl'
        /\ round'.at = "idle"
    BY <2>1, EndOfRound, IdleIsRound
  <2>3. round.at = "apply" /\ UNCHANGED <<rule, manual, mixed>>
    BY <1>4, EndedRound, Zenon DEF Ends
  <2> QED
    BY <2>2, <2>3
<1>5. CASE LimitDies
  <2>1. ctl' = disk /\ round'.at = "idle" /\ UNCHANGED <<rule, manual, disk>>
    BY <1>5, IdleIsRound DEF LimitDies
  <2>2. ~mixed' => ~mixed /\ (round.at = "apply" => rule = ctl.observed)
    BY <1>5, Zenon DEF LimitDies
  <2> QED
    BY <2>1, <2>2
<1>6. CASE Users
  <2>1. /\ round.at = "idle" /\ UNCHANGED <<ctl, disk, round>>
        /\ ~mixed' => ~mixed /\ rule' = manual' /\ ~Unseen
    BY <1>6, UserSteps, Zenon DEF Users
  <2> QED
    BY <2>1 DEF Unseen
<1>7. CASE Outside
  BY <1>7, OutsideSteps
<1>8. CASE UNCHANGED limitVars
  BY <1>8 DEF limitVars
<1> QED
  BY <1>1, <1>2, <1>3, <1>4, <1>5, <1>6, <1>7, <1>8, CtlCases

\* Every step of the limit controller keeps the invariant.
LEMMA CtlStep == CtlInv /\ [LimitNext]_limitVars => CtlInv'
  BY CtlPlacesStep, CtlBooksStep, ChargedStep, AllCountedStep, CtlBaseStep, Zenon DEF CtlInv

-----------------------------------------------------------------------------
(* The IPv6 filters.                                                       *)

VPair == VMac \X VAddr
Snaps6 == [on : BOOLEAN, mark : {0, 1}, has : SUBSET VPair]
Runs6 == [at : {"no", "waits", "runs"}, todo : SUBSET VMac, marks : SUBSET VMac]
Fills6 == [on : BOOLEAN, dev : VMac \cup {""}, want : SUBSET VPair, left : SUBSET VPair,
           mark : {0, 1}, ok : BOOLEAN]
Events6 == [pair : VPair, del : BOOLEAN]

V6Places ==
  /\ addrs \subseteq VPair /\ filt \subseteq VPair /\ known6 \subseteq VPair
  /\ marked \subseteq VMac /\ pend6 \subseteq VMac
  /\ snap6 \in [VMac -> Snaps6] /\ sh6 \in [Runner -> Runs6] /\ markOf \in {0, 1}
  /\ fill6 \in Fills6
V6Queue == nlq \in Seq(Events6) /\ Len(nlq) <= MaxV6Events

\* One script has the lock; the loop waits for the script it has started.
OneRuns == \A r, s \in Runner : sh6[r].at = "runs" /\ sh6[s].at = "runs" => r = s
LoopWaits == sh6["queue"].at # "no" <=> qloop = "run"

\* A snapshot is of its device's addresses; as long as the device has a filter
\* and none was refused, all of them have one.
OwnSnaps == \A m \in VMac : \A p \in snap6[m].has : p[1] = m
SnapsTrue == \A m \in VMac :
  snap6[m].on /\ m \notin torn6 /\ Of(filt, m) # {} => snap6[m].has \subseteq filt

\* Who fills in the filters of a device has the lock and the device to do.  As
\* long as none was refused and the tree was not rebuilt half-way, those that
\* are not left to add are there, or all were lost after the last; a device
\* that only gets more of them has those of its snapshot.
FillOwn == fill6.on =>
  /\ fill6.dev \in VMac /\ fill6.left \subseteq fill6.want
  /\ \A p \in fill6.want : p[1] = fill6.dev
  /\ \E r \in Runner : sh6[r].at = "runs" /\ fill6.dev \in sh6[r].todo /\ fill6.dev \in sh6[r].marks
FillTrue == fill6.on /\ fill6.ok =>
  \/ fill6.want \ fill6.left \subseteq filt
  \/ fill6.left = {} /\ Of(filt, fill6.dev) = {}
FillSnap == fill6.on /\ fill6.dev \notin torn6 /\ snap6[fill6.dev].on /\ fill6.left # {} =>
  /\ snap6[fill6.dev].has \subseteq filt /\ snap6[fill6.dev].has \subseteq fill6.want
  /\ snap6[fill6.dev].has \cap fill6.left = {}

\* When the first n - 1 messages are handled, the event filter has forgotten p.
FilterForgot(n, p) ==
  \/ \E j \in 1..(n - 1) : /\ nlq[j].pair = p /\ nlq[j].del
                           /\ \A k \in (j + 1)..(n - 1) : nlq[k].pair # p
  \/ p \notin known6 /\ \A k \in 1..(n - 1) : nlq[k].pair # p
\* Unless a message was lost: what appears is not known when its message is
\* handled, and what is gone will be forgotten.
Forgets == \A p \in VPair : p \notin missed6 =>
  /\ \A i \in 1..Len(nlq) : nlq[i].pair = p /\ ~nlq[i].del => FilterForgot(i, p)
  /\ p \notin addrs => FilterForgot(Len(nlq) + 1, p)

\* A script that read the marks before m was marked will clear m, and one that
\* read m's addresses before p appeared, or whose filters were swept away, will
\* leave p without one; a known p is then still in front of another run.
PassesOver(r, p) ==
  \/ p[1] \notin sh6[r].marks
  \/ fill6.on /\ fill6.dev = p[1] /\ fill6.ok /\ p \notin fill6.left /\ p \notin filt
ComesLater(p) == \/ Queued(p) \/ p[1] \in pend6 \/ full6
                 \/ \E s \in Runner : sh6[s].at = "waits" /\ p[1] \in sh6[s].todo
ClearedIsLater == \A r \in Runner : \A p \in known6 \cap addrs :
  /\ sh6[r].at = "runs" /\ p[1] \in sh6[r].todo /\ PassesOver(r, p)
  /\ p[1] \in marked /\ p \notin missed6
  => ComesLater(p)

V6Inv ==
  /\ V6Places /\ V6Queue /\ OneRuns /\ LoopWaits /\ OwnSnaps /\ SnapsTrue
  /\ FillOwn /\ FillTrue /\ FillSnap /\ Forgets /\ ClearedIsLater /\ KnownIsCovered
\* The invariant says what the IPv6 synchronisation promises.
LEMMA V6Typed == V6Inv => V6TypeOK /\ KnownIsCovered
<1> SUFFICES ASSUME V6Inv PROVE V6TypeOK
  BY Zenon DEF V6Inv
<1> DEFINE R == {r \in Runner : sh6[r].at = "runs"}
<1>1. Cardinality(R) <= 1
  <2>1. CASE R = {}
    BY <2>1, FS_EmptySet
  <2>2. CASE R # {}
    <3>1. PICK r : r \in R
      BY <2>2
    <3>2. R = {r}
      BY <3>1 DEF V6Inv, OneRuns
    <3> HIDE DEF R
    <3>3. Cardinality({r}) = 1
      BY FS_Singleton, Zenon
    <3> QED
      BY <3>2, <3>3
  <2> QED
    BY <2>1, <2>2
<1> QED
  BY <1>1 DEF V6TypeOK, V6Inv, V6Places, V6Queue, VPair

\* No filters, snapshots or messages.
LEMMA V6Start == V6Init => V6Inv
<1> SUFFICES ASSUME V6Init PROVE V6Inv
  OBVIOUS
<1> USE V6Constants DEF V6Init, NoSnap6, NoRun6, NoFill, Runner
<1>1. V6Places
  BY DEF V6Places, Snaps6, Runs6, Fills6, VPair
<1>0. nlq = <<>> /\ known6 = {} /\ missed6 = addrs
  BY Zenon
<1>2. V6Queue
  <2> USE DEF V6Queue
  <2> HIDE DEF V6Init
  <2> QED
    BY <1>0
<1>3. OneRuns /\ LoopWaits
  BY DEF OneRuns, LoopWaits
<1>4. OwnSnaps /\ SnapsTrue
  BY DEF OwnSnaps, SnapsTrue, Of
<1>7. FillOwn /\ FillTrue /\ FillSnap
  BY DEF FillOwn, FillTrue, FillSnap
<1>5. Forgets
  <2> HIDE DEF V6Init
  <2>1. Len(nlq) = 0
    BY <1>0
  <2> QED
    BY <1>0, <2>1 DEF Forgets, FilterForgot
<1>6. ClearedIsLater /\ KnownIsCovered
  BY DEF ClearedIsLater, KnownIsCovered
<1> QED
  BY <1>1, <1>2, <1>3, <1>4, <1>5, <1>6, <1>7, Zenon DEF V6Inv

-----------------------------------------------------------------------------
\* A run asked for waits for the lock, with every device to do.
LEMMA AskedRuns ==
  ASSUME sh6 \in [Runner -> Runs6], NEW r \in Runner
  PROVE  /\ Asked(r) \in [Runner -> Runs6] /\ Asked(r)[r].at = "waits" /\ Asked(r)[r].todo = VMac
         /\ \A s \in Runner \ {r} : Asked(r)[s] = sh6[s]
<1> DEFINE w == Waiting6(VMac)
<1>2. w \in Runs6 /\ w.at = "waits" /\ w.todo = VMac
  BY DEF Waiting6, Runs6
<1>3. Asked(r) = [sh6 EXCEPT ![r] = w]
  BY DEF Asked
<1> HIDE DEF w
<1> QED
  BY <1>2, <1>3

\* The kernel's message is queued or lost, and then that is on record.
LEMMA ToldEither ==
  ASSUME V6Queue, NEW ev \in Events6, Told6(ev)
  PROVE  /\ sub6' = sub6
         /\ \/ nlq' = nlq /\ missed6' = missed6 \cup {ev.pair}
            \/ nlq' = Append(nlq, ev) /\ missed6' = missed6 /\ Len(nlq) < MaxV6Events
  BY V6Constants DEF Told6, V6Queue

\* One message, whatever the list of interesting devices said.
LEMMA Handled ==
  ASSUME V6Queue, HandleNeigh
  PROVE  /\ nlq # <<>> /\ nlq[1] \in Events6 /\ nlq' = Tail(nlq)
         /\ \/ nlq[1].del /\ known6' = known6 \ {nlq[1].pair} /\ pend6' = pend6
            \/ ~nlq[1].del /\ known6' = known6 \cup {nlq[1].pair} /\ pend6' = pend6 \cup {nlq[1].pair[1]}
            \/ /\ ~nlq[1].del /\ known6' = known6 /\ pend6' = pend6
         /\ UNCHANGED <<addrs, marked, markOf, filt, snap6, sub6, full6, qloop, sh6, fill6, missed6, torn6>>
<1>1. nlq # <<>> /\ nlq \in Seq(Events6)
  BY Zenon DEF HandleNeigh, V6Queue
<1>2. Head(nlq) = nlq[1] /\ nlq[1] \in Events6
  BY <1>1
<1>3. /\ nlq' = Tail(nlq)
      /\ \/ Head(nlq).del /\ known6' = known6 \ {Head(nlq).pair} /\ pend6' = pend6 /\ missed6' = missed6
         \/ /\ ~Head(nlq).del /\ known6' = known6 \cup {Head(nlq).pair} /\ pend6' = pend6 \cup {Head(nlq).pair[1]}
            /\ missed6' = missed6
         \/ ~Head(nlq).del /\ known6' = known6 /\ pend6' = pend6 /\ missed6' = missed6
      /\ UNCHANGED <<worldVars6, filt, snap6, nlLost, sub6, full6, qloop, sh6, fill6, torn6, v6Cnt>>
  BY Zenon DEF HandleNeigh
<1> QED
  BY <1>1, <1>2, <1>3, Zenon DEF worldVars6

\* What is left of the queue when its first message is gone.
LEMMA TailIs ==
  ASSUME NEW q \in Seq(Events6), q # <<>>
  PROVE  /\ Tail(q) \in Seq(Events6) /\ Len(Tail(q)) = Len(q) - 1 /\ Len(q) \in Nat /\ Len(q) >= 1
         /\ \A i \in 1..(Len(q) - 1) : Tail(q)[i] = q[i + 1]
  OBVIOUS

\* The loop's batch is in the hand of a script, which waits; nothing is dropped.
LEMMA Taken ==
  ASSUME V6Places, LoopWaits, LoopTakes
  PROVE  /\ qloop = "debounce" /\ sh6["queue"].at = "no" /\ pend6' = {} /\ full6' = FALSE
         /\ \/ qloop' = "idle" /\ sh6' = sh6 /\ (full6 => VMac = {}) /\ (~full6 => pend6 = {})
            \/ /\ qloop' = "run" /\ sh6' \in [Runner -> Runs6] /\ sh6'["queue"].at = "waits"
               /\ (full6 => sh6'["queue"].todo = VMac) /\ (~full6 => sh6'["queue"].todo = pend6)
               /\ \A s \in Runner \ {"queue"} : sh6'[s] = sh6[s]
         /\ UNCHANGED <<addrs, marked, markOf, filt, snap6, nlq, sub6, known6, fill6, missed6, torn6>>
<1> DEFINE todo6 == IF full6 THEN VMac ELSE pend6
           w == Waiting6(todo6)
<1>1. /\ qloop = "debounce" /\ pend6' = {} /\ full6' = FALSE
      /\ IF todo6 = {} THEN qloop' = "idle" /\ UNCHANGED sh6
         ELSE qloop' = "run" /\ sh6' = [sh6 EXCEPT !["queue"] = w]
      /\ UNCHANGED <<worldVars6, filt, snap6, sockVars6, known6, kick6, fill6, missed6, torn6, v6Cnt>>
  BY Zenon DEF LoopTakes
<1>2. todo6 \subseteq VMac
  BY DEF V6Places
<1> HIDE DEF todo6
<1>4. w \in Runs6 /\ w.at = "waits" /\ w.todo = todo6
  BY <1>2 DEF Waiting6, Runs6
<1>5. sh6["queue"].at = "no"
  BY <1>1 DEF LoopWaits
<1>6. sh6 \in [Runner -> Runs6] /\ "queue" \in Runner
  BY DEF V6Places, Runner
<1>7. UNCHANGED <<addrs, marked, markOf, filt, snap6, nlq, sub6, known6, fill6, missed6, torn6>>
  BY <1>1, Zenon DEF worldVars6, sockVars6
<1>8. CASE todo6 = {}
  BY <1>1, <1>5, <1>7, <1>8 DEF todo6
<1>9. CASE todo6 # {}
  <2> HIDE DEF w
  <2>1. sh6' = [sh6 EXCEPT !["queue"] = w] /\ qloop' = "run"
    BY <1>1, <1>9
  <2>2. sh6' \in [Runner -> Runs6] /\ sh6'["queue"] = w /\ \A s \in Runner \ {"queue"} : sh6'[s] = sh6[s]
    BY <2>1, <1>4, <1>6
  <2> QED
    BY <1>1, <1>4, <1>5, <1>7, <2>1, <2>2 DEF todo6
<1> QED
  BY <1>8, <1>9

\* A script that takes the lock reads the marks, no more.
LEMMA LocksTakes ==
  ASSUME V6Places, NEW r \in Runner, Locks(r)
  PROVE  /\ sh6[r].at = "waits" /\ LockFree /\ sh6' \in [Runner -> Runs6]
         /\ sh6'[r].at = "runs" /\ sh6'[r].todo = sh6[r].todo /\ sh6'[r].marks = marked
         /\ \A s \in Runner \ {r} : sh6'[s] = sh6[s]
         /\ UNCHANGED <<addrs, marked, markOf, filt, snap6, nlq, sub6, known6, pend6, full6, qloop, fill6, missed6, torn6>>
<1> DEFINE w == [at |-> "runs", todo |-> sh6[r].todo, marks |-> marked]
<1>1. sh6 \in [Runner -> Runs6] /\ marked \subseteq VMac
  BY DEF V6Places
<1>2. w \in Runs6
  BY <1>1 DEF Runs6
<1>4. sh6' = [sh6 EXCEPT ![r] = w]
  BY Zenon DEF Locks
<1>5. w.at = "runs" /\ w.todo = sh6[r].todo /\ w.marks = marked
  OBVIOUS
<1> HIDE DEF w
<1>6. sh6' \in [Runner -> Runs6] /\ sh6'[r] = w /\ \A s \in Runner \ {r} : sh6'[s] = sh6[s]
  BY <1>1, <1>2, <1>4
<1> QED
  BY <1>5, <1>6, Zenon DEF Locks, worldVars6, sockVars6, queueVars6

\* A script that ends gives the lock back and lets the queue's loop go on.
LEMMA EndedLeaves ==
  ASSUME V6Places, NEW r \in Runner, Ended(r)
  PROVE  /\ sh6' \in [Runner -> Runs6] /\ sh6'[r].at = "no" /\ \A s \in Runner \ {r} : sh6'[s] = sh6[s]
         /\ qloop' = IF r = "queue" THEN "idle" ELSE qloop
         /\ UNCHANGED <<pend6, full6>>
<1>1. NoRun6 \in Runs6 /\ NoRun6.at = "no"
  BY DEF NoRun6, Runs6
<1>2. sh6 \in [Runner -> Runs6]
  BY DEF V6Places
<1> QED
  BY <1>1, <1>2 DEF Ended
-----------------------------------------------------------------------------
\* A device that is done with: nothing of the others was touched, and unless its
\* filters are torn every address of its snapshot has one.
DoneWith(r, m) ==
  /\ sh6'[r].at = "runs" /\ sh6'[r].todo = sh6[r].todo \ {m} /\ sh6'[r].marks = sh6[r].marks
  /\ \A s \in Runner \ {r} : sh6'[s] = sh6[s]
  /\ \A k \in VMac \ {m} : snap6'[k] = snap6[k]
  /\ fill6' = fill6 /\ torn6' = torn6
  /\ \/ /\ m \in sh6[r].marks /\ filt' = filt
        /\ \A p \in snap6'[m].has : p[1] = m
        /\ Of(addrs, m) \subseteq snap6'[m].has
        /\ m \notin torn6 => snap6'[m].has \subseteq filt
     \/ m \notin sh6[r].marks /\ snap6'[m] = NoSnap6
\* A device whose filters are about to be added.
Begun(r, m) ==
  /\ UNCHANGED <<sh6, snap6>> /\ m \in sh6[r].marks
  /\ fill6'.on /\ fill6'.dev = m /\ fill6'.left \subseteq fill6'.want
  /\ Of(addrs, m) \subseteq fill6'.want /\ \A p \in fill6'.want : p[1] = m
  /\ fill6'.ok => fill6'.want \ fill6'.left \subseteq filt'
  /\ torn6 \subseteq torn6' /\ torn6' \subseteq torn6 \cup {m}
  /\ m \notin torn6' /\ snap6[m].on =>
       /\ snap6[m].has \subseteq filt' /\ snap6[m].has \subseteq fill6'.want
       /\ snap6[m].has \cap fill6'.left = {}
  /\ filt' \subseteq filt /\ (m \notin torn6' => filt' = filt)

\* sync_one on a marked device.
LEMMA MarkedSynced ==
  ASSUME V6Places, OwnSnaps, SnapsTrue, NEW r \in Runner, NEW m \in VMac,
         NEW keep \in SUBSET (snap6[m].has \ addrs), sh6[r].at = "runs", m \in sh6[r].marks,
         SyncMarked(r, m, keep)
  PROVE  /\ snap6' \in [VMac -> Snaps6] /\ sh6' \in [Runner -> Runs6] /\ fill6' \in Fills6
         /\ filt' \subseteq VPair /\ \A p \in VPair : p[1] # m => (p \in filt' <=> p \in filt)
         /\ DoneWith(r, m) \/ Begun(r, m)
<1> DEFINE prev == snap6[m].has
           want6 == Of(addrs, m) \cup keep
           same == snap6[m].on /\ snap6[m].mark = markOf /\ prev \subseteq want6
           quiet == same /\ want6 = prev /\ (want6 = {} \/ ~FilterMissing(m))
           adds == same /\ want6 # prev /\ (prev = {} \/ ~FilterMissing(m))
           sn == [on |-> TRUE, mark |-> markOf, has |-> want6]
           lf == IF adds THEN want6 \ prev ELSE want6
           okk == adds => m \notin torn6
           fl == [on |-> TRUE, dev |-> m, want |-> want6, mark |-> markOf, left |-> lf, ok |-> okk]
<1>1. \/ quiet /\ Refreshed(r, m, sn)
      \/ /\ ~quiet /\ filt' = IF adds THEN filt ELSE filt \ Of(filt, m)
         /\ torn6' = IF adds THEN torn6 ELSE torn6 \cup {m}
         /\ fill6' = fl /\ UNCHANGED <<snap6, sh6>>
  BY Zenon DEF SyncMarked
<1>2. /\ snap6 \in [VMac -> Snaps6] /\ markOf \in {0, 1} /\ addrs \subseteq VPair /\ filt \subseteq VPair
      /\ sh6 \in [Runner -> Runs6] /\ fill6 \in Fills6
      /\ prev \subseteq VPair /\ \A p \in prev : p[1] = m
  BY DEF V6Places, OwnSnaps, Snaps6
<1>3. want6 \subseteq VPair /\ (\A p \in want6 : p[1] = m) /\ Of(addrs, m) \subseteq want6
  BY <1>2 DEF Of
<1>4. sn \in Snaps6 /\ sn.has = want6
  BY <1>2, <1>3 DEF Snaps6
<1>5. adds \/ quiet => (m \notin torn6 => prev \subseteq filt)
  <2> SUFFICES ASSUME adds \/ quiet, m \notin torn6 PROVE prev \subseteq filt
    OBVIOUS
  <2>1. snap6[m].on /\ (prev = {} \/ Of(filt, m) # {})
    BY DEF FilterMissing
  <2> QED
    BY <2>1 DEF SnapsTrue
<1>6. adds => prev \subseteq want6 /\ lf = want6 \ prev
  OBVIOUS
<1>7. ~adds => lf = want6
  OBVIOUS
<1>8. quiet => want6 = prev
  OBVIOUS
<1>9. okk \in BOOLEAN /\ (okk <=> (adds => m \notin torn6))
  OBVIOUS
<1> HIDE DEF lf, okk, adds, quiet, same, want6, prev
<1>10. CASE quiet /\ Refreshed(r, m, sn)
  <2>1. snap6' = [snap6 EXCEPT ![m] = sn] /\ sh6' = [sh6 EXCEPT ![r].todo = @ \ {m}]
        /\ UNCHANGED <<filt, fill6, torn6>>
    BY <1>10, Zenon DEF Refreshed
  <2> HIDE DEF sn
  <2>2. snap6' \in [VMac -> Snaps6] /\ snap6'[m] = sn /\ \A k \in VMac \ {m} : snap6'[k] = snap6[k]
    BY <1>2, <1>4, <2>1
  <2>3. /\ sh6' \in [Runner -> Runs6] /\ sh6'[r].at = sh6[r].at
        /\ sh6'[r].todo = sh6[r].todo \ {m} /\ sh6'[r].marks = sh6[r].marks
        /\ \A s \in Runner \ {r} : sh6'[s] = sh6[s]
    BY <1>2, <2>1 DEF Runs6
  <2>4. m \notin torn6 => want6 \subseteq filt
    BY <1>5, <1>8, <1>10
  <2>5. DoneWith(r, m)
    BY <1>3, <1>4, <2>1, <2>2, <2>3, <2>4, Zenon DEF DoneWith
  <2> QED
    BY <1>2, <2>1, <2>2, <2>3, <2>5
<1>11. CASE ~quiet /\ fill6' = fl /\ filt' = (IF adds THEN filt ELSE filt \ Of(filt, m))
            /\ torn6' = (IF adds THEN torn6 ELSE torn6 \cup {m}) /\ UNCHANGED <<snap6, sh6>>
  <2>0. lf \subseteq want6
    BY <1>6, <1>7
  <2>1. fl \in Fills6 /\ fl.on /\ fl.dev = m /\ fl.want = want6 /\ fl.left = lf /\ fl.ok = okk
    BY <1>2, <1>3, <1>9, <2>0 DEF Fills6
  <2> HIDE DEF fl
  <2>2. filt' \subseteq VPair /\ filt' \subseteq filt /\ \A p \in VPair : p[1] # m => (p \in filt' <=> p \in filt)
    BY <1>2, <1>11 DEF Of
  <2>3. torn6 \subseteq torn6' /\ torn6' \subseteq torn6 \cup {m} /\ (m \notin torn6' => adds /\ m \notin torn6 /\ filt' = filt)
    BY <1>11
  <2>4. okk => want6 \ lf \subseteq filt'
    BY <1>5, <1>6, <1>7, <1>9, <1>11
  <2>5. m \notin torn6' => prev \subseteq filt' /\ prev \subseteq want6 /\ prev \cap lf = {}
    BY <1>5, <1>6, <2>3
  <2>6. UNCHANGED <<snap6, sh6>> /\ fill6' = fl
    BY <1>11
  <2>7. Begun(r, m)
    BY <1>3, <2>0, <2>1, <2>2, <2>3, <2>4, <2>5, <2>6, Zenon DEF Begun, prev
  <2> QED
    BY <1>2, <2>1, <2>2, <2>6, <2>7
<1> QED
  BY <1>1, <1>10, <1>11, Zenon

\* One device of a run, marked or not when the run began.
LEMMA OneSynced ==
  ASSUME V6Places, OwnSnaps, SnapsTrue, NEW r \in Runner, NEW m \in VMac, SyncOne(r, m)
  PROVE  /\ sh6[r].at = "runs" /\ m \in sh6[r].todo /\ ~fill6.on
         /\ snap6' \in [VMac -> Snaps6] /\ sh6' \in [Runner -> Runs6] /\ fill6' \in Fills6
         /\ filt' \subseteq VPair /\ \A p \in VPair : p[1] # m => (p \in filt' <=> p \in filt)
         /\ DoneWith(r, m) \/ Begun(r, m)
         /\ UNCHANGED <<addrs, marked, markOf, nlq, sub6, known6, pend6, full6, qloop, missed6>>
<1>1. /\ sh6[r].at = "runs" /\ m \in sh6[r].todo /\ ~fill6.on
      /\ \/ m \in sh6[r].marks /\ \E keep \in SUBSET (snap6[m].has \ addrs) : SyncMarked(r, m, keep)
         \/ m \notin sh6[r].marks /\ ClearUnmarked(r, m)
      /\ UNCHANGED <<worldVars6, sockVars6, known6, queueVars6, missed6>>
  BY Zenon DEF SyncOne
<1>2. sh6 \in [Runner -> Runs6] /\ snap6 \in [VMac -> Snaps6] /\ filt \subseteq VPair /\ fill6 \in Fills6
  BY DEF V6Places
<1>4. UNCHANGED <<addrs, marked, markOf, nlq, sub6, known6, pend6, full6, qloop, missed6>>
  BY <1>1, Zenon DEF worldVars6, sockVars6, queueVars6
<1>5. CASE m \in sh6[r].marks
  <2>1. PICK keep \in SUBSET (snap6[m].has \ addrs) : SyncMarked(r, m, keep)
    BY <1>1, <1>5, Zenon
  <2>2. /\ snap6' \in [VMac -> Snaps6] /\ sh6' \in [Runner -> Runs6] /\ fill6' \in Fills6
        /\ filt' \subseteq VPair /\ \A p \in VPair : p[1] # m => (p \in filt' <=> p \in filt)
        /\ DoneWith(r, m) \/ Begun(r, m)
    BY <1>1, <1>5, <2>1, MarkedSynced
  <2> QED
    BY <1>1, <1>4, <2>2, Zenon
<1>6. CASE m \notin sh6[r].marks
  <2>1. /\ filt' = IF snap6[m].on THEN filt \ Of(filt, m) ELSE filt
        /\ snap6' = [snap6 EXCEPT ![m] = NoSnap6] /\ UNCHANGED <<fill6, torn6>>
        /\ sh6' = [sh6 EXCEPT ![r].todo = @ \ {m}]
    BY <1>1, <1>6 DEF ClearUnmarked
  <2>2. NoSnap6 \in Snaps6
    BY DEF NoSnap6, Snaps6
  <2>3. snap6' \in [VMac -> Snaps6] /\ snap6'[m] = NoSnap6 /\ \A k \in VMac \ {m} : snap6'[k] = snap6[k]
    BY <1>2, <2>1, <2>2
  <2>4. filt' \subseteq VPair /\ \A p \in VPair : p[1] # m => (p \in filt' <=> p \in filt)
    BY <1>2, <2>1 DEF Of
  <2>5. /\ sh6' \in [Runner -> Runs6] /\ sh6'[r].at = sh6[r].at
        /\ sh6'[r].todo = sh6[r].todo \ {m} /\ sh6'[r].marks = sh6[r].marks
        /\ \A s \in Runner \ {r} : sh6'[s] = sh6[s]
    BY <1>2, <2>1 DEF Runs6
  <2>6. DoneWith(r, m)
    BY <1>1, <1>6, <2>1, <2>3, <2>5, Zenon DEF DoneWith
  <2> QED
    BY <1>1, <1>2, <1>4, <2>1, <2>3, <2>4, <2>5, <2>6
<1> QED
  BY <1>5, <1>6

\* One tc filter add.
LEMMA OneAdded ==
  ASSUME V6Places, NEW r \in Runner, AddFilter(r)
  PROVE  /\ sh6[r].at = "runs" /\ fill6.on /\ fill6' \in Fills6
         /\ fill6'.on /\ fill6'.dev = fill6.dev /\ fill6'.want = fill6.want
         /\ \E p \in fill6.left :
              /\ fill6'.left = fill6.left \ {p}
              /\ \/ filt' = filt \cup {p} /\ fill6'.ok = fill6.ok
                 \/ filt' = filt /\ ~fill6'.ok
         /\ UNCHANGED <<addrs, marked, markOf, snap6, nlq, sub6, known6, pend6, full6, qloop, sh6, missed6, torn6>>
<1>1. /\ sh6[r].at = "runs" /\ fill6.on
      /\ UNCHANGED <<addrs, marked, markOf, snap6, nlq, sub6, known6, pend6, full6, qloop, sh6, missed6, torn6>>
  BY Zenon DEF AddFilter, worldVars6, sockVars6, queueVars6
<1>2. PICK p \in fill6.left :
         \/ filt' = filt \cup {p} /\ fill6' = [fill6 EXCEPT !.left = @ \ {p}]
         \/ filt' = filt /\ fill6' = [fill6 EXCEPT !.left = @ \ {p}, !.ok = FALSE]
  BY Zenon DEF AddFilter
<1>3. fill6 \in Fills6
  BY Zenon DEF V6Places
<1>4. /\ fill6' \in Fills6 /\ fill6'.on = fill6.on /\ fill6'.dev = fill6.dev /\ fill6'.want = fill6.want
      /\ fill6'.left = fill6.left \ {p}
      /\ \/ filt' = filt \cup {p} /\ fill6'.ok = fill6.ok
         \/ filt' = filt /\ fill6'.ok = FALSE
  BY <1>2, <1>3 DEF Fills6
<1> QED
  BY <1>1, <1>4, Zenon

\* The end of a device's filters.
LEMMA OneWritten ==
  ASSUME V6Places, FillOwn, NEW r \in Runner, WriteSnap(r)
  PROVE  /\ sh6[r].at = "runs" /\ fill6.on /\ fill6.left = {} /\ fill6' = NoFill /\ fill6' \in Fills6
         /\ snap6' \in [VMac -> Snaps6] /\ snap6'[fill6.dev].has = fill6.want
         /\ \A k \in VMac \ {fill6.dev} : snap6'[k] = snap6[k]
         /\ sh6' \in [Runner -> Runs6]
         /\ sh6'[r].at = "runs" /\ sh6'[r].todo = sh6[r].todo \ {fill6.dev} /\ sh6'[r].marks = sh6[r].marks
         /\ \A s \in Runner \ {r} : sh6'[s] = sh6[s]
         /\ torn6' = IF fill6.ok THEN torn6 \ {fill6.dev} ELSE torn6 \cup {fill6.dev}
         /\ UNCHANGED <<addrs, marked, markOf, filt, nlq, sub6, known6, pend6, full6, qloop, missed6>>
<1> DEFINE m == fill6.dev
           sn == [on |-> TRUE, mark |-> fill6.mark, has |-> fill6.want]
<1>1. /\ sh6[r].at = "runs" /\ fill6.on /\ fill6.left = {} /\ fill6' = NoFill
      /\ snap6' = [snap6 EXCEPT ![m] = sn] /\ sh6' = [sh6 EXCEPT ![r].todo = @ \ {m}]
      /\ torn6' = IF fill6.ok THEN torn6 \ {m} ELSE torn6 \cup {m}
      /\ UNCHANGED <<addrs, marked, markOf, filt, nlq, sub6, known6, pend6, full6, qloop, missed6>>
  BY Zenon DEF WriteSnap, worldVars6, sockVars6, queueVars6
<1>2. /\ fill6 \in Fills6 /\ snap6 \in [VMac -> Snaps6] /\ sh6 \in [Runner -> Runs6] /\ m \in VMac
  BY <1>1 DEF V6Places, FillOwn
<1>3. sn \in Snaps6 /\ sn.has = fill6.want
  BY <1>2 DEF Snaps6, Fills6
<1>4. NoFill \in Fills6
  BY DEF NoFill, Fills6
<1> HIDE DEF sn, m
<1>5. snap6' \in [VMac -> Snaps6] /\ snap6'[m] = sn /\ \A k \in VMac \ {m} : snap6'[k] = snap6[k]
  BY <1>1, <1>2, <1>3
<1>6. /\ sh6' \in [Runner -> Runs6] /\ sh6'[r].at = sh6[r].at
      /\ sh6'[r].todo = sh6[r].todo \ {m} /\ sh6'[r].marks = sh6[r].marks
      /\ \A s \in Runner \ {r} : sh6'[s] = sh6[s]
  BY <1>1, <1>2 DEF Runs6
<1> QED
  BY <1>1, <1>3, <1>4, <1>5, <1>6 DEF m

\* A script that failed: the addresses it would have looked at are on record.
LEMMA FailedLeaves ==
  ASSUME V6Places, NEW r \in Runner, ScriptFails(r) \/ ScriptEnds(r)
  PROVE  /\ sh6' \in [Runner -> Runs6] /\ sh6'[r].at = "no" /\ \A s \in Runner \ {r} : sh6'[s] = sh6[s]
         /\ qloop' = IF r = "queue" THEN "idle" ELSE qloop
         /\ \/ missed6' = missed6 \cup {p \in addrs : p[1] \in sh6[r].todo}
            \/ missed6' = missed6 /\ sh6[r].todo = {} /\ sh6[r].at = "runs"
         /\ \/ fill6' = NoFill
            \/ fill6' = fill6 /\ (sh6[r].at = "runs" => sh6[r].todo = {})
         /\ UNCHANGED <<addrs, marked, markOf, filt, snap6, nlq, sub6, known6, pend6, full6, torn6>>
<1>1. Ended(r)
  BY Zenon DEF ScriptFails, ScriptEnds
<1>2. /\ \/ missed6' = missed6 \cup {p \in addrs : p[1] \in sh6[r].todo}
         \/ missed6' = missed6 /\ sh6[r].todo = {} /\ sh6[r].at = "runs"
      /\ \/ fill6' = NoFill
         \/ fill6' = fill6 /\ (sh6[r].at = "runs" => sh6[r].todo = {})
      /\ UNCHANGED <<addrs, marked, markOf, filt, snap6, nlq, sub6, known6, torn6>>
  BY Zenon DEF ScriptFails, ScriptEnds, worldVars6, sockVars6
<1> QED
  BY <1>1, <1>2, EndedLeaves
-----------------------------------------------------------------------------
(* The steps, grouped by what they do to queue, scripts and filters.       *)

Tells6 == \E p \in VPair : AddressAppears(p) \/ AddressGoes(p)
Asks6 == (\E m \in VMac : SetLimit6(m)) \/ TreeRebuilt \/ WatchdogRuns
Plain6 == HandleOverflow \/ Resubscribe \/ LoopKicked \/ UNCHANGED v6Vars
Unmarks6 == \E m \in VMac : Unmark(m)
Locks6 == \E r \in Runner : Locks(r)
Stops6 == \E r \in Runner : ScriptFails(r) \/ ScriptEnds(r)
Syncs6 == \E r \in Runner : \E m \in VMac : SyncOne(r, m)
Adds6 == \E r \in Runner : AddFilter(r)
Writes6 == \E r \in Runner : WriteSnap(r)

\* The kinds of steps.
LEMMA V6Cases ==
  ASSUME [V6Next]_v6Vars
  PROVE  \/ Tells6 \/ Asks6 \/ Plain6 \/ Unmarks6 \/ HandleNeigh \/ LoopTakes \/ SocketFails
         \/ Locks6 \/ Stops6 \/ Syncs6 \/ Adds6 \/ Writes6
<1>1. V6Next => Tells6 \/ Asks6 \/ Plain6 \/ Unmarks6 \/ HandleNeigh \/ LoopTakes \/ SocketFails
                \/ Locks6 \/ Stops6 \/ Syncs6 \/ Adds6 \/ Writes6
  BY Zenon DEF V6Next, HttpdStep, ScriptStep, Tells6, Asks6, Plain6, Unmarks6, Locks6, Stops6, Syncs6, Adds6, Writes6, VPair
<1> QED
  BY <1>1, Zenon DEF Plain6

\* Steps that touch neither addresses nor filters nor messages.
LEMMA PlainSteps ==
  ASSUME Plain6
  PROVE  /\ full6' = full6 \/ full6' = TRUE
         /\ qloop' = "run" <=> qloop = "run"
         /\ UNCHANGED <<addrs, marked, markOf, filt, snap6, nlq, known6, pend6, sh6, fill6, missed6, torn6>>
<1>1. CASE HandleOverflow
  BY <1>1, Zenon DEF HandleOverflow, worldVars6
<1>2. CASE Resubscribe
  BY <1>2, Zenon DEF Resubscribe, worldVars6, queueVars6
<1>3. CASE LoopKicked
  <2>1. /\ UNCHANGED <<addrs, marked, markOf, filt, snap6, nlq, known6, pend6, full6, sh6, fill6, missed6, torn6>>
    BY <1>3, Zenon DEF LoopKicked, worldVars6, sockVars6
  <2>2. qloop \in {"idle", "debounce"} /\ qloop' = "debounce"
    BY <1>3, Zenon DEF LoopKicked
  <2>3. qloop' # "run" /\ qloop # "run"
    BY <2>2
  <2> QED
    BY <2>1, <2>3, Zenon
<1>4. CASE UNCHANGED v6Vars
  BY <1>4, Zenon DEF v6Vars, worldVars6, queueVars6, sockVars6
<1> QED
  BY <1>1, <1>2, <1>3, <1>4, Zenon DEF Plain6

\* The tree is gone, and with it what the script at work has added so far.
HalfBuilt == fill6.on /\ fill6.left # {} /\ fill6.left # fill6.want
TreeSwept ==
  /\ filt' = {}
  /\ fill6'.on = fill6.on /\ fill6'.dev = fill6.dev /\ fill6'.want = fill6.want
  /\ fill6'.left = fill6.left /\ fill6'.ok = (fill6.ok /\ ~HalfBuilt)
  /\ torn6' = IF HalfBuilt THEN torn6 \cup {fill6.dev} ELSE torn6

\* Whoever changes the tree or a mark leaves a script behind that will see it.
LEMMA AskSteps ==
  ASSUME V6Places, Asks6
  PROVE  /\ \E r \in Runner \ {"queue"} :
              /\ sh6[r].at = "no" /\ sh6'[r].at = "waits" /\ sh6'[r].todo = VMac
              /\ \A s \in Runner \ {r} : sh6'[s] = sh6[s]
         /\ sh6' \in [Runner -> Runs6]
         /\ UNCHANGED <<filt, fill6, torn6>> \/ TreeSwept
         /\ fill6' \in Fills6
         /\ marked' \subseteq VMac /\ markOf' \in {0, 1}
         /\ UNCHANGED <<addrs, snap6, nlq, known6, pend6, full6, qloop, missed6>>
<1>1. /\ \E r \in {"rule", "watchdog"} : sh6[r].at = "no" /\ sh6' = Asked(r)
      /\ UNCHANGED <<filt, fill6, torn6>> \/ TreeRebuilt
      /\ UNCHANGED <<addrs, snap6, nlq, known6, pend6, full6, qloop, missed6>>
  BY Zenon DEF Asks6, SetLimit6, TreeRebuilt, WatchdogRuns, worldVars6, sockVars6, queueVars6
<1>f. fill6 \in Fills6
  BY Zenon DEF V6Places
<1>t. TreeRebuilt => TreeSwept /\ fill6' \in Fills6
  <2> SUFFICES ASSUME TreeRebuilt PROVE TreeSwept /\ fill6' \in Fills6
    OBVIOUS
  <2>1. /\ filt' = {} /\ fill6' = [fill6 EXCEPT !.ok = @ /\ ~HalfBuilt]
        /\ torn6' = IF HalfBuilt THEN torn6 \cup {fill6.dev} ELSE torn6
    BY Zenon DEF TreeRebuilt, HalfBuilt
  <2>2. HalfBuilt \in BOOLEAN
    BY DEF HalfBuilt
  <2>3. /\ fill6'.on = fill6.on /\ fill6'.dev = fill6.dev /\ fill6'.want = fill6.want
        /\ fill6'.left = fill6.left /\ fill6'.ok = (fill6.ok /\ ~HalfBuilt) /\ fill6' \in Fills6
    BY <1>f, <2>1, <2>2 DEF Fills6
  <2> QED
    BY <2>1, <2>3, Zenon DEF TreeSwept
<1>u. fill6' = fill6 \/ TreeRebuilt
  BY <1>1, Zenon
<1>v. fill6' \in Fills6
  BY <1>f, <1>t, <1>u
<1>2. PICK r \in {"rule", "watchdog"} : sh6[r].at = "no" /\ sh6' = Asked(r)
  BY <1>1, Zenon
<1>3. r \in Runner \ {"queue"} /\ r \in Runner
  BY DEF Runner
<1>4. sh6 \in [Runner -> Runs6] /\ marked \subseteq VMac /\ markOf \in {0, 1}
  BY Zenon DEF V6Places
<1>5. /\ sh6' \in [Runner -> Runs6] /\ sh6'[r].at = "waits" /\ sh6'[r].todo = VMac
      /\ \A s \in Runner \ {r} : sh6'[s] = sh6[s]
  BY <1>2, <1>3, <1>4, AskedRuns
<1>6. marked' \subseteq VMac /\ markOf' \in {0, 1}
  <2>1. CASE \E m \in VMac : SetLimit6(m)
    BY <1>4, <2>1 DEF SetLimit6
  <2>2. CASE TreeRebuilt \/ WatchdogRuns
    BY <1>4, <2>2 DEF TreeRebuilt, WatchdogRuns, worldVars6
  <2> QED
    BY <2>1, <2>2, Zenon DEF Asks6
<1> QED
  BY <1>1, <1>2, <1>3, <1>5, <1>6, <1>t, <1>v, Zenon

\* A device that loses its mark loses its own filters and snapshot, or nothing yet.
LEMMA UnmarkSteps ==
  ASSUME V6Places, NEW m \in VMac, Unmark(m)
  PROVE  /\ marked' = marked \ {m}
         /\ snap6' \in [VMac -> Snaps6] /\ filt' \subseteq filt
         /\ \/ UNCHANGED <<filt, snap6>>
            \/ /\ snap6'[m] = NoSnap6 /\ \A k \in VMac \ {m} : snap6'[k] = snap6[k]
               /\ filt' = filt \ Of(filt, m) /\ LockFree
         /\ \A p \in VPair : p[1] # m => (p \in filt' <=> p \in filt)
         /\ UNCHANGED <<addrs, markOf, nlq, known6, pend6, full6, qloop, sh6, fill6, missed6, torn6>>
<1>1. NoSnap6 \in Snaps6 /\ snap6 \in [VMac -> Snaps6]
  BY DEF NoSnap6, Snaps6, V6Places
<1>2. /\ marked' = marked \ {m}
      /\ UNCHANGED <<addrs, markOf, nlq, known6, pend6, full6, qloop, sh6, fill6, missed6, torn6>>
      /\ \/ UNCHANGED <<filt, snap6>>
         \/ filt' = filt \ Of(filt, m) /\ snap6' = [snap6 EXCEPT ![m] = NoSnap6] /\ LockFree
  BY Zenon DEF Unmark, sockVars6, queueVars6
<1>3. CASE UNCHANGED <<filt, snap6>>
  BY <1>1, <1>2, <1>3
<1>4. CASE filt' = filt \ Of(filt, m) /\ snap6' = [snap6 EXCEPT ![m] = NoSnap6] /\ LockFree
  <2>1. snap6' \in [VMac -> Snaps6] /\ snap6'[m] = NoSnap6 /\ \A k \in VMac \ {m} : snap6'[k] = snap6[k]
    BY <1>1, <1>4
  <2>2. filt' \subseteq filt /\ \A p \in VPair : p[1] # m => (p \in filt' <=> p \in filt)
    BY <1>4 DEF Of
  <2> QED
    BY <1>2, <1>4, <2>1, <2>2, Zenon
<1> QED
  BY <1>2, <1>3, <1>4, Zenon

\* An address that comes or goes is told to the socket.
LEMMA TellSteps ==
  ASSUME V6Queue, NEW p \in VPair, AddressAppears(p) \/ AddressGoes(p)
  PROVE  /\ \/ nlq' = nlq /\ missed6' = missed6 \cup {p}
            \/ /\ missed6' = missed6 /\ Len(nlq) < MaxV6Events
               /\ \E ev \in Events6 : /\ nlq' = Append(nlq, ev) /\ ev.pair = p
                                      /\ \/ ~ev.del /\ p \notin addrs /\ p \in addrs'
                                         \/ ev.del /\ p \notin addrs'
         /\ \/ p \notin addrs /\ addrs' = addrs \cup {p}
            \/ addrs' = addrs \ {p}
         /\ UNCHANGED <<marked, markOf, filt, snap6, known6, pend6, full6, qloop, sh6, fill6, torn6>>
<1>1. UNCHANGED <<marked, markOf, filt, snap6, known6, pend6, full6, qloop, sh6, fill6, torn6>>
  BY Zenon DEF AddressAppears, AddressGoes, queueVars6
<1>2. CASE AddressAppears(p)
  <2> DEFINE ev == [pair |-> p, del |-> FALSE]
  <2>1. ev \in Events6 /\ ev.pair = p /\ ~ev.del
    BY DEF Events6
  <2>2. Told6(ev) /\ p \notin addrs /\ addrs' = addrs \cup {p} /\ p \in addrs'
    BY <1>2, Zenon DEF AddressAppears
  <2> HIDE DEF ev
  <2>3. \/ nlq' = nlq /\ missed6' = missed6 \cup {ev.pair}
        \/ nlq' = Append(nlq, ev) /\ missed6' = missed6 /\ Len(nlq) < MaxV6Events
    BY <2>1, <2>2, ToldEither
  <2> QED
    BY <1>1, <2>1, <2>2, <2>3, Zenon
<1>3. CASE AddressGoes(p)
  <2> DEFINE ev == [pair |-> p, del |-> TRUE]
  <2>1. ev \in Events6 /\ ev.pair = p /\ ev.del
    BY DEF Events6
  <2>2. Told6(ev) /\ addrs' = addrs \ {p} /\ p \notin addrs'
    BY <1>3, Zenon DEF AddressGoes
  <2> HIDE DEF ev
  <2>3. \/ nlq' = nlq /\ missed6' = missed6 \cup {ev.pair}
        \/ nlq' = Append(nlq, ev) /\ missed6' = missed6 /\ Len(nlq) < MaxV6Events
    BY <2>1, <2>2, ToldEither
  <2> QED
    BY <1>1, <2>1, <2>2, <2>3, Zenon
<1> QED
  BY <1>2, <1>3

\* A socket that is closed takes its messages with it.
LEMMA SocketSteps ==
  ASSUME SocketFails
  PROVE  /\ nlq' = <<>> /\ \A i \in DOMAIN nlq : nlq[i].pair \in missed6'
         /\ missed6 \subseteq missed6'
         /\ UNCHANGED <<addrs, marked, markOf, filt, snap6, known6, pend6, full6, qloop, sh6, fill6, torn6>>
<1>1. nlq' = <<>> /\ missed6' = missed6 \cup {nlq[i].pair : i \in DOMAIN nlq}
  BY Zenon DEF SocketFails
<1>2. UNCHANGED <<addrs, marked, markOf, filt, snap6, known6, pend6, full6, qloop, sh6, fill6, torn6>>
  BY Zenon DEF SocketFails, worldVars6, queueVars6
<1> QED
  BY <1>1, <1>2, Zenon
-----------------------------------------------------------------------------
\* Every step keeps the types.
LEMMA V6PlacesStep == V6Inv /\ [V6Next]_v6Vars => V6Places'
<1> SUFFICES ASSUME V6Inv, [V6Next]_v6Vars PROVE V6Places'
  OBVIOUS
<1>0. V6Places /\ V6Queue /\ LoopWaits /\ OwnSnaps /\ SnapsTrue /\ FillOwn /\ FillTrue /\ FillSnap
  BY Zenon DEF V6Inv
<1> USE <1>0 DEF V6Places
<1>1. CASE Tells6
  <2> PICK p \in VPair : AddressAppears(p) \/ AddressGoes(p)
    BY <1>1, Zenon DEF Tells6
  <2> QED
    BY TellSteps
<1>2. CASE Asks6
  <2>1. /\ sh6' \in [Runner -> Runs6] /\ fill6' \in Fills6 /\ marked' \subseteq VMac /\ markOf' \in {0, 1}
        /\ UNCHANGED <<addrs, snap6, known6, pend6>>
        /\ UNCHANGED <<filt, fill6, torn6>> \/ TreeSwept
    BY <1>2, AskSteps, Zenon
  <2>2. filt' = filt \/ filt' = {}
    BY <2>1, Zenon DEF TreeSwept
  <2> QED
    BY <2>1, <2>2
<1>3. CASE Plain6
  BY <1>3, PlainSteps
<1>4. CASE Unmarks6
  <2> PICK m \in VMac : Unmark(m)
    BY <1>4, Zenon DEF Unmarks6
  <2>1. /\ marked' = marked \ {m} /\ snap6' \in [VMac -> Snaps6] /\ filt' \subseteq filt
        /\ UNCHANGED <<addrs, markOf, known6, pend6, sh6, fill6>>
    BY UnmarkSteps, Zenon
  <2> QED
    BY <2>1
<1>5. CASE HandleNeigh
  <2>1. nlq[1].pair \in VPair /\ nlq[1].pair[1] \in VMac
    BY <1>5, Handled DEF Events6, VPair
  <2> QED
    BY <1>5, <2>1, Handled
<1>6. CASE LoopTakes
  BY <1>6, Taken
<1>7. CASE SocketFails
  BY <1>7, SocketSteps
<1>8. CASE Locks6
  BY <1>8, LocksTakes DEF Locks6
<1>9. CASE Stops6
  <2> PICK q \in Runner : ScriptFails(q) \/ ScriptEnds(q)
    BY <1>9, Zenon DEF Stops6
  <2>1. /\ sh6' \in [Runner -> Runs6]
        /\ fill6' = NoFill \/ fill6' = fill6
        /\ UNCHANGED <<addrs, marked, markOf, filt, snap6, known6, pend6>>
    BY FailedLeaves, Zenon
  <2>2. NoFill \in Fills6
    BY DEF NoFill, Fills6
  <2> QED
    BY <2>1, <2>2
<1>10. CASE Syncs6
  <2> PICK r \in Runner, m \in VMac : SyncOne(r, m)
    BY <1>10, Zenon DEF Syncs6
  <2>1. /\ sh6' \in [Runner -> Runs6] /\ snap6' \in [VMac -> Snaps6] /\ filt' \subseteq VPair
        /\ fill6' \in Fills6 /\ UNCHANGED <<addrs, marked, markOf, known6, pend6>>
    BY OneSynced, Zenon
  <2> QED
    BY <2>1
<1>11. CASE Adds6
  <2> PICK r \in Runner : AddFilter(r)
    BY <1>11, Zenon DEF Adds6
  <2>1. fill6.left \subseteq VPair
    BY DEF Fills6
  <2> QED
    BY <2>1, OneAdded
<1>12. CASE Writes6
  BY <1>12, OneWritten DEF Writes6
<1> QED
  BY <1>1, <1>2, <1>3, <1>4, <1>5, <1>6, <1>7, <1>8, <1>9, <1>10, <1>11, <1>12, V6Cases

\* Every step keeps the queue within its length.
LEMMA V6QueueStep == V6Inv /\ [V6Next]_v6Vars => V6Queue'
<1> SUFFICES ASSUME V6Inv, [V6Next]_v6Vars PROVE V6Queue'
  OBVIOUS
<1>0. V6Places /\ V6Queue /\ LoopWaits /\ OwnSnaps /\ SnapsTrue /\ FillOwn /\ FillTrue /\ FillSnap
  BY Zenon DEF V6Inv
<1> USE <1>0, V6Constants DEF V6Queue
<1>1. CASE Tells6
  <2> PICK p \in VPair : AddressAppears(p) \/ AddressGoes(p)
    BY <1>1, Zenon DEF Tells6
  <2>1. CASE nlq' = nlq
    BY <2>1
  <2>2. CASE nlq' # nlq
    <3>1. PICK ev \in Events6 : nlq' = Append(nlq, ev) /\ Len(nlq) < MaxV6Events
      BY <2>2, TellSteps
    <3> QED
      BY <3>1
  <2> QED
    BY <2>1, <2>2
<1>2. CASE Asks6
  BY <1>2, AskSteps
<1>3. CASE Plain6
  BY <1>3, PlainSteps
<1>4. CASE Unmarks6
  BY <1>4, UnmarkSteps DEF Unmarks6
<1>5. CASE HandleNeigh
  <2>1. nlq # <<>> /\ nlq' = Tail(nlq)
    BY <1>5, Handled, Zenon
  <2>2. Tail(nlq) \in Seq(Events6) /\ Len(Tail(nlq)) = Len(nlq) - 1 /\ Len(nlq) \in Nat
    BY <2>1, TailIs
  <2> QED
    BY <2>1, <2>2
<1>6. CASE LoopTakes
  BY <1>6, Taken
<1>7. CASE SocketFails
  BY <1>7, SocketSteps
<1>8. CASE Locks6
  BY <1>8, LocksTakes DEF Locks6
<1>9. CASE Stops6
  BY <1>9, FailedLeaves DEF Stops6
<1>10. CASE Syncs6
  BY <1>10, OneSynced DEF Syncs6
<1>11. CASE Adds6
  BY <1>11, OneAdded DEF Adds6
<1>12. CASE Writes6
  BY <1>12, OneWritten DEF Writes6
<1> QED
  BY <1>1, <1>2, <1>3, <1>4, <1>5, <1>6, <1>7, <1>8, <1>9, <1>10, <1>11, <1>12, V6Cases

\* One script at a time has the lock, and the loop waits for its own.
LEMMA OneRunsStep == V6Inv /\ [V6Next]_v6Vars => OneRuns' /\ LoopWaits'
<1> SUFFICES ASSUME V6Inv, [V6Next]_v6Vars PROVE OneRuns' /\ LoopWaits'
  OBVIOUS
<1>0. V6Places /\ V6Queue /\ LoopWaits /\ OwnSnaps /\ SnapsTrue /\ FillOwn /\ FillTrue /\ FillSnap /\ OneRuns
  BY Zenon DEF V6Inv
<1>r. "queue" \in Runner
  BY DEF Runner
<1> USE <1>0, <1>r DEF OneRuns, LoopWaits
<1>1. CASE Tells6
  BY <1>1, TellSteps DEF Tells6
<1>2. CASE Asks6
  BY <1>2, AskSteps
<1>3. CASE Plain6
  BY <1>3, PlainSteps
<1>4. CASE Unmarks6
  BY <1>4, UnmarkSteps DEF Unmarks6
<1>5. CASE HandleNeigh
  BY <1>5, Handled
<1>6. CASE LoopTakes
  BY <1>6, Taken
<1>7. CASE SocketFails
  BY <1>7, SocketSteps
<1>8. CASE Locks6
  BY <1>8, LocksTakes DEF Locks6, LockFree
<1>9. CASE Stops6
  BY <1>9, FailedLeaves DEF Stops6
<1>10. CASE Syncs6
  <2> PICK r \in Runner, m \in VMac : SyncOne(r, m)
    BY <1>10, Zenon DEF Syncs6
  <2>1. /\ sh6[r].at = "runs" /\ UNCHANGED qloop
        /\ sh6' = sh6 \/ (sh6'[r].at = "runs" /\ \A s \in Runner \ {r} : sh6'[s] = sh6[s])
    BY OneSynced, Zenon DEF DoneWith, Begun
  <2> QED
    BY <2>1
<1>11. CASE Adds6
  BY <1>11, OneAdded DEF Adds6
<1>12. CASE Writes6
  BY <1>12, OneWritten DEF Writes6
<1> QED
  BY <1>1, <1>2, <1>3, <1>4, <1>5, <1>6, <1>7, <1>8, <1>9, <1>10, <1>11, <1>12, V6Cases

\* Every step keeps snapshots true to the filters.
LEMMA SnapsStep == V6Inv /\ [V6Next]_v6Vars => OwnSnaps' /\ SnapsTrue'
<1> SUFFICES ASSUME V6Inv, [V6Next]_v6Vars PROVE OwnSnaps' /\ SnapsTrue'
  OBVIOUS
<1>0. V6Places /\ V6Queue /\ LoopWaits /\ OwnSnaps /\ SnapsTrue /\ FillOwn /\ FillTrue /\ FillSnap
  BY Zenon DEF V6Inv
<1>f. filt \subseteq VPair
  BY <1>0, Zenon DEF V6Places
<1> USE <1>0 DEF OwnSnaps, SnapsTrue, Of
<1>1. CASE Tells6
  BY <1>1, TellSteps DEF Tells6
<1>2. CASE Asks6
  <2>1. snap6' = snap6 /\ (UNCHANGED <<filt, fill6, torn6>> \/ TreeSwept)
    BY <1>2, AskSteps, Zenon
  <2>2. CASE UNCHANGED <<filt, fill6, torn6>>
    BY <2>1, <2>2
  <2>3. CASE TreeSwept
    BY <2>1, <2>3 DEF TreeSwept
  <2> QED
    BY <2>1, <2>2, <2>3
<1>3. CASE Plain6
  BY <1>3, PlainSteps
<1>4. CASE Unmarks6
  <2> PICK m \in VMac : Unmark(m)
    BY <1>4, Zenon DEF Unmarks6
  <2>1. CASE UNCHANGED <<filt, snap6>>
    BY <2>1, UnmarkSteps
  <2>2. CASE ~UNCHANGED <<filt, snap6>>
    <3>1. /\ snap6'[m] = NoSnap6 /\ \A k \in VMac \ {m} : snap6'[k] = snap6[k]
          /\ \A p \in VPair : p[1] # m => (p \in filt' <=> p \in filt)
          /\ filt' \subseteq filt /\ torn6' = torn6
      BY <2>2, UnmarkSteps
    <3>2. snap6'[m].has = {} /\ ~snap6'[m].on
      BY <3>1 DEF NoSnap6
    <3> QED
      BY <1>f, <3>1, <3>2
  <2> QED
    BY <2>1, <2>2
<1>5. CASE HandleNeigh
  BY <1>5, Handled
<1>6. CASE LoopTakes
  BY <1>6, Taken
<1>7. CASE SocketFails
  BY <1>7, SocketSteps
<1>8. CASE Locks6
  BY <1>8, LocksTakes DEF Locks6
<1>9. CASE Stops6
  BY <1>9, FailedLeaves DEF Stops6
<1>10. CASE Syncs6
  <2> PICK r \in Runner, m \in VMac : SyncOne(r, m)
    BY <1>10, Zenon DEF Syncs6
  <2>0. filt' \subseteq VPair /\ \A p \in VPair : p[1] # m => (p \in filt' <=> p \in filt)
    BY OneSynced, Zenon
  <2>1. CASE DoneWith(r, m)
    <3>1. /\ \A k \in VMac \ {m} : snap6'[k] = snap6[k]
          /\ torn6' = torn6
          /\ \/ /\ \A p \in snap6'[m].has : p[1] = m
                /\ m \notin torn6 => snap6'[m].has \subseteq filt'
             \/ snap6'[m] = NoSnap6
      BY <2>1, Zenon DEF DoneWith
    <3>2. snap6'[m] = NoSnap6 => snap6'[m].has = {} /\ ~snap6'[m].on
      BY DEF NoSnap6
    <3> QED
      BY <1>f, <2>0, <3>1, <3>2
  <2>2. CASE Begun(r, m)
    <3>1. snap6' = snap6 /\ torn6 \subseteq torn6' /\ filt' \subseteq filt /\ (m \notin torn6' => filt' = filt)
      BY <2>2, Zenon DEF Begun
    <3> QED
      BY <1>f, <2>0, <3>1
  <2> QED
    BY <2>1, <2>2, OneSynced, Zenon
<1>11. CASE Adds6
  <2> PICK r \in Runner : AddFilter(r)
    BY <1>11, Zenon DEF Adds6
  <2>1. fill6.on /\ UNCHANGED <<snap6, torn6>>
    BY OneAdded, Zenon
  <2>2. PICK p \in fill6.left : filt' = filt \/ filt' = filt \cup {p}
    BY OneAdded, Zenon
  <2>3. p[1] = fill6.dev /\ fill6.left # {}
    BY <2>1, <2>2 DEF FillOwn
  <2>4. ASSUME NEW k \in VMac, snap6[k].on, k \notin torn6, k # fill6.dev, Of(filt', k) # {}
        PROVE  snap6[k].has \subseteq filt'
    BY <2>2, <2>3, <2>4
  <2>5. ASSUME snap6[fill6.dev].on, fill6.dev \notin torn6
        PROVE  snap6[fill6.dev].has \subseteq filt'
    BY <2>1, <2>2, <2>3, <2>5 DEF FillSnap
  <2>6. \A k \in VMac : snap6[k].on /\ k \notin torn6 /\ Of(filt', k) # {} => snap6[k].has \subseteq filt'
    BY <2>4, <2>5
  <2> QED
    BY <2>1, <2>6
<1>12. CASE Writes6
  <2> PICK r \in Runner : WriteSnap(r)
    BY <1>12, Zenon DEF Writes6
  <2>1. /\ fill6.on /\ fill6.left = {} /\ filt' = filt
        /\ snap6'[fill6.dev].has = fill6.want
        /\ \A k \in VMac \ {fill6.dev} : snap6'[k] = snap6[k]
        /\ torn6' = IF fill6.ok THEN torn6 \ {fill6.dev} ELSE torn6 \cup {fill6.dev}
    BY OneWritten, Zenon
  <2>2. \A p \in fill6.want : p[1] = fill6.dev
    BY <2>1 DEF FillOwn
  <2>3. fill6.ok => fill6.want \subseteq filt \/ Of(filt, fill6.dev) = {}
    BY <2>1 DEF FillTrue
  <2>4. \A k \in VMac \ {fill6.dev} : k \in torn6' <=> k \in torn6
    BY <2>1
  <2>5. fill6.dev \notin torn6' => fill6.ok
    BY <2>1
  <2> QED
    BY <2>1, <2>2, <2>3, <2>4, <2>5
<1> QED
  BY <1>1, <1>2, <1>3, <1>4, <1>5, <1>6, <1>7, <1>8, <1>9, <1>10, <1>11, <1>12, V6Cases

\* Every step keeps the script at work true to what it has still to add.
LEMMA FillsStep == V6Inv /\ [V6Next]_v6Vars => FillOwn' /\ FillTrue' /\ FillSnap'
<1> SUFFICES ASSUME V6Inv, [V6Next]_v6Vars PROVE FillOwn' /\ FillTrue' /\ FillSnap'
  OBVIOUS
<1>0. /\ V6Places /\ V6Queue /\ LoopWaits /\ OwnSnaps /\ SnapsTrue /\ OneRuns
      /\ FillOwn /\ FillTrue /\ FillSnap
  BY Zenon DEF V6Inv
<1> USE <1>0
<1>n. ASSUME fill6' = NoFill PROVE FillOwn' /\ FillTrue' /\ FillSnap'
  BY <1>n DEF NoFill, FillOwn, FillTrue, FillSnap
<1>s. ASSUME UNCHANGED <<fill6, filt, snap6, torn6>>, fill6.on => \A r \in Runner : sh6[r].at = "runs" /\ fill6.dev \in sh6[r].todo => sh6'[r] = sh6[r]
      PROVE  FillOwn' /\ FillTrue' /\ FillSnap'
  <2>1. FillOwn'
    BY <1>s DEF FillOwn
  <2>2. FillTrue' /\ FillSnap'
    BY <1>s DEF FillTrue, FillSnap, Of
  <2> QED
    BY <2>1, <2>2
<1>1. CASE Tells6
  BY <1>1, <1>s, TellSteps DEF Tells6
<1>2. CASE Asks6
  <2>1. PICK r \in Runner : sh6[r].at = "no" /\ \A s \in Runner \ {r} : sh6'[s] = sh6[s]
    BY <1>2, AskSteps
  <2>2. \A s \in Runner : sh6[s].at = "runs" => sh6'[s] = sh6[s]
    BY <2>1
  <2>3. CASE UNCHANGED <<filt, fill6, torn6>>
    <3>1. snap6' = snap6
      BY <1>2, AskSteps, Zenon
    <3> QED
      BY <1>s, <2>2, <2>3, <3>1
  <2>4. CASE TreeSwept
    <3>1. snap6' = snap6
      BY <1>2, AskSteps, Zenon
    <3>2. FillOwn'
      BY <2>2, <2>4 DEF FillOwn, TreeSwept
    <3>3. FillTrue'
      BY <2>4 DEF FillTrue, TreeSwept, HalfBuilt, Of
    <3>4. FillSnap'
      BY <2>4, <3>1 DEF FillSnap, TreeSwept, HalfBuilt
    <3> QED
      BY <3>2, <3>3, <3>4
  <2> QED
    BY <1>2, <2>3, <2>4, AskSteps, Zenon
<1>3. CASE Plain6
  BY <1>3, <1>s, PlainSteps
<1>4. CASE Unmarks6
  <2> PICK m \in VMac : Unmark(m)
    BY <1>4, Zenon DEF Unmarks6
  <2>1. UNCHANGED <<sh6, fill6, torn6>>
    BY UnmarkSteps, Zenon
  <2>2. CASE UNCHANGED <<filt, snap6>>
    BY <1>s, <2>1, <2>2
  <2>3. CASE LockFree
    <3>1. ~fill6'.on
      BY <2>1, <2>3 DEF LockFree, FillOwn
    <3> QED
      BY <3>1 DEF FillOwn, FillTrue, FillSnap
  <2> QED
    BY <2>2, <2>3, UnmarkSteps, Zenon
<1>5. CASE HandleNeigh
  BY <1>5, <1>s, Handled
<1>6. CASE LoopTakes
  <2>1. /\ UNCHANGED <<fill6, filt, snap6, torn6>> /\ sh6["queue"].at = "no"
        /\ sh6' = sh6 \/ \A s \in Runner \ {"queue"} : sh6'[s] = sh6[s]
    BY <1>6, Taken, Zenon
  <2> QED
    BY <1>s, <2>1
<1>7. CASE SocketFails
  BY <1>7, <1>s, SocketSteps
<1>8. CASE Locks6
  <2> PICK q \in Runner : Locks(q)
    BY <1>8, Zenon DEF Locks6
  <2>1. /\ UNCHANGED <<fill6, filt, snap6, torn6>> /\ LockFree
    BY LocksTakes, Zenon
  <2> QED
    BY <1>s, <2>1 DEF LockFree
<1>9. CASE Stops6
  <2> PICK q \in Runner : ScriptFails(q) \/ ScriptEnds(q)
    BY <1>9, Zenon DEF Stops6
  <2>1. /\ fill6' = NoFill \/ (fill6' = fill6 /\ (sh6[q].at = "runs" => sh6[q].todo = {}))
        /\ \A s \in Runner \ {q} : sh6'[s] = sh6[s]
        /\ UNCHANGED <<filt, snap6, torn6>>
    BY FailedLeaves, Zenon
  <2> QED
    BY <1>n, <1>s, <2>1
<1>10. CASE Syncs6
  <2> PICK r \in Runner, m \in VMac : SyncOne(r, m)
    BY <1>10, Zenon DEF Syncs6
  <2>0. sh6[r].at = "runs" /\ m \in sh6[r].todo /\ ~fill6.on
    BY OneSynced, Zenon
  <2>1. CASE DoneWith(r, m)
    <3>1. ~fill6'.on
      BY <2>0, <2>1, Zenon DEF DoneWith
    <3> QED
      BY <3>1 DEF FillOwn, FillTrue, FillSnap
  <2>2. CASE Begun(r, m)
    <3>1. FillOwn'
      BY <2>0, <2>2 DEF Begun, FillOwn
    <3>2. FillTrue'
      BY <2>2 DEF Begun, FillTrue
    <3>3. FillSnap'
      BY <2>2 DEF Begun, FillSnap
    <3> QED
      BY <3>1, <3>2, <3>3
  <2> QED
    BY <2>1, <2>2, OneSynced, Zenon
<1>11. CASE Adds6
  <2> PICK r \in Runner : AddFilter(r)
    BY <1>11, Zenon DEF Adds6
  <2>1. /\ fill6.on /\ fill6'.on /\ fill6'.dev = fill6.dev /\ fill6'.want = fill6.want
        /\ UNCHANGED <<sh6, snap6, torn6>>
    BY OneAdded, Zenon
  <2>2. PICK p \in fill6.left :
              /\ fill6'.left = fill6.left \ {p}
              /\ \/ filt' = filt \cup {p} /\ fill6'.ok = fill6.ok
                 \/ filt' = filt /\ ~fill6'.ok
    BY OneAdded, Zenon
  <2>3. FillOwn'
    BY <2>1, <2>2 DEF FillOwn
  <2>4. FillTrue'
    BY <2>1, <2>2 DEF FillTrue
  <2>5. FillSnap'
    BY <2>1, <2>2 DEF FillSnap
  <2> QED
    BY <2>3, <2>4, <2>5
<1>12. CASE Writes6
  BY <1>12, <1>n, OneWritten DEF Writes6
<1> QED
  BY <1>1, <1>2, <1>3, <1>4, <1>5, <1>6, <1>7, <1>8, <1>9, <1>10, <1>11, <1>12, V6Cases
-----------------------------------------------------------------------------
(* The event filter. *)

\* The first messages are all that FilterForgot looks at.
LEMMA ForgottenAppend ==
  ASSUME V6Queue, NEW ev \in Events6, nlq' = Append(nlq, ev), known6' = known6,
         NEW p, NEW n \in 1..(Len(nlq) + 1)
  PROVE  /\ FilterForgot(n, p)' <=> FilterForgot(n, p)
         /\ Len(nlq') = Len(nlq) + 1 /\ Len(nlq) \in Nat /\ nlq'[Len(nlq) + 1] = ev
         /\ \A k \in 1..Len(nlq) : nlq'[k] = nlq[k]
<1>1. /\ Len(nlq') = Len(nlq) + 1 /\ Len(nlq) \in Nat /\ nlq'[Len(nlq) + 1] = ev
      /\ \A k \in 1..Len(nlq) : nlq'[k] = nlq[k]
  BY DEF V6Queue
<1>2. \A k \in 1..(n - 1) : nlq'[k] = nlq[k]
  BY <1>1
<1>3. n \in Int
  BY <1>1
<1>4. FilterForgot(n, p)' <=> FilterForgot(n, p)
  BY <1>2, <1>3 DEF FilterForgot
<1> QED
  BY <1>1, <1>4

\* One message less, and what it made the filter forget is forgotten.
LEMMA ForgottenTail ==
  ASSUME V6Queue, HandleNeigh, NEW p \in VPair, NEW n \in 1..Len(nlq), FilterForgot(n + 1, p)
  PROVE  FilterForgot(n, p)'
<1>1. /\ nlq # <<>> /\ nlq[1] \in Events6 /\ nlq' = Tail(nlq)
      /\ \/ nlq[1].del /\ known6' = known6 \ {nlq[1].pair}
         \/ ~nlq[1].del /\ known6' = known6 \cup {nlq[1].pair}
         \/ ~nlq[1].del /\ known6' = known6
  BY Handled, Zenon
<1>2. nlq \in Seq(Events6)
  BY Zenon DEF V6Queue
<1>3. /\ Len(nlq) \in Nat /\ Len(nlq) >= 1
      /\ \A i \in 1..(Len(nlq) - 1) : nlq'[i] = nlq[i + 1]
  BY <1>1, <1>2, TailIs
<1>4. n \in Nat /\ n >= 1 /\ n <= Len(nlq)
  BY <1>3
<1>5. CASE \E j \in 1..n : /\ nlq[j].pair = p /\ nlq[j].del
                           /\ \A k \in (j + 1)..n : nlq[k].pair # p
  <2>1. PICK j \in 1..n : /\ nlq[j].pair = p /\ nlq[j].del
                          /\ \A k \in (j + 1)..n : nlq[k].pair # p
    BY <1>5
  <2>2. CASE j = 1
    <3>1. p \notin known6'
      BY <1>1, <2>1, <2>2
    <3>2. \A k \in 1..(n - 1) : nlq'[k].pair # p
      BY <1>3, <1>4, <2>1, <2>2
    <3> QED
      BY <3>1, <3>2 DEF FilterForgot
  <2>3. CASE j # 1
    <3>1. j - 1 \in 1..(n - 1) /\ nlq'[j - 1] = nlq[j]
      BY <1>3, <1>4, <2>1, <2>3
    <3>2. \A k \in ((j - 1) + 1)..(n - 1) : nlq'[k].pair # p
      BY <1>3, <1>4, <2>1, <2>3
    <3> QED
      BY <2>1, <3>1, <3>2 DEF FilterForgot
  <2> QED
    BY <2>2, <2>3
<1>6. CASE p \notin known6 /\ \A k \in 1..n : nlq[k].pair # p
  <2>1. nlq[1].pair # p
    BY <1>4, <1>6
  <2>2. p \notin known6'
    BY <1>1, <1>6, <2>1
  <2>3. \A k \in 1..(n - 1) : nlq'[k].pair # p
    BY <1>3, <1>4, <1>6
  <2> QED
    BY <2>2, <2>3 DEF FilterForgot
<1>7. (n + 1) - 1 = n
  BY <1>4
<1> QED
  BY <1>5, <1>6, <1>7 DEF FilterForgot

\* A removal comes before the next message of the same address.
LEMMA ForgetsStep == V6Inv /\ [V6Next]_v6Vars => Forgets'
<1> SUFFICES ASSUME V6Inv, [V6Next]_v6Vars PROVE Forgets'
  OBVIOUS
<1>0. V6Places /\ V6Queue /\ LoopWaits /\ OwnSnaps /\ SnapsTrue /\ FillOwn /\ FillTrue /\ FillSnap /\ Forgets
  BY Zenon DEF V6Inv
<1>s. ASSUME UNCHANGED <<nlq, known6, addrs>>, missed6 \subseteq missed6'
      PROVE  Forgets'
  BY <1>0, <1>s DEF Forgets, FilterForgot
<1> USE <1>0
<1>1. CASE Tells6
  <2> PICK p \in VPair : AddressAppears(p) \/ AddressGoes(p)
    BY <1>1, Zenon DEF Tells6
  <2>1. CASE nlq' = nlq /\ missed6' = missed6 \cup {p}
    <3>1. known6' = known6 /\ \A q \in VPair : q # p => (q \in addrs' <=> q \in addrs)
      BY TellSteps
    <3> QED
      BY <2>1, <3>1 DEF Forgets, FilterForgot
  <2>2. CASE ~(nlq' = nlq /\ missed6' = missed6 \cup {p})
    <3>1. /\ missed6' = missed6 /\ known6' = known6
          /\ \E ev \in Events6 : /\ nlq' = Append(nlq, ev) /\ ev.pair = p
                                 /\ \/ ~ev.del /\ p \notin addrs /\ p \in addrs'
                                    \/ ev.del /\ p \notin addrs'
          /\ \/ p \notin addrs /\ addrs' = addrs \cup {p}
             \/ addrs' = addrs \ {p}
      BY <2>2, TellSteps
    <3>2. PICK ev \in Events6 : /\ nlq' = Append(nlq, ev) /\ ev.pair = p
                                /\ \/ ~ev.del /\ p \notin addrs /\ p \in addrs'
                                   \/ ev.del /\ p \notin addrs'
      BY <3>1, Zenon
    <3>n. PICK n \in Nat : n = Len(nlq)
      BY DEF V6Queue
    <3>3. /\ Len(nlq') = n + 1 /\ n \in Nat /\ nlq'[n + 1] = ev
          /\ \A k \in 1..n : nlq'[k] = nlq[k]
      <4>1. 1 \in 1..(Len(nlq) + 1)
        BY <3>n
      <4> QED
        BY <3>1, <3>2, <3>n, <4>1, ForgottenAppend
    <3>4. \A q : \A k \in 1..(n + 1) : FilterForgot(k, q)' <=> FilterForgot(k, q)
      BY <3>1, <3>2, <3>n, ForgottenAppend
    <3> SUFFICES ASSUME NEW q \in VPair, q \notin missed6
                 PROVE  /\ \A i \in 1..(n + 1) : nlq'[i].pair = q /\ ~nlq'[i].del => FilterForgot(i, q)'
                        /\ q \notin addrs' => FilterForgot(n + 2, q)'
      <4>1. (Len(nlq) + 1)' = n + 2 /\ Len(nlq)' = n + 1
        BY <3>3
      <4> QED
        BY <3>1, <4>1 DEF Forgets
    <3>5. /\ \A i \in 1..n : nlq[i].pair = q /\ ~nlq[i].del => FilterForgot(i, q)
          /\ q \notin addrs => FilterForgot(n + 1, q)
      BY <3>n DEF Forgets
    <3>6. ASSUME NEW i \in 1..(n + 1), nlq'[i].pair = q, ~nlq'[i].del PROVE FilterForgot(i, q)'
      <4>1. CASE i \in 1..n
        BY <3>3, <3>4, <3>5, <3>6, <4>1
      <4>2. CASE i = n + 1
        <5>1. q = p /\ ~ev.del
          BY <3>2, <3>3, <3>6, <4>2
        <5>2. q \notin addrs
          BY <3>1, <3>2, <5>1
        <5> QED
          BY <3>4, <3>5, <4>2, <5>2
      <4> QED
        BY <3>3, <4>1, <4>2
    <3>7. ASSUME q \notin addrs' PROVE FilterForgot(n + 2, q)'
      <4>0. (n + 2) - 1 = n + 1
        BY <3>3
      <4>1. CASE q = p
        <5>2. ev.del
          BY <3>2, <3>7, <4>1
        <5>3. n + 1 \in 1..(n + 1) /\ nlq'[n + 1].pair = q /\ nlq'[n + 1].del
          BY <3>2, <3>3, <4>1, <5>2
        <5>4. \A k \in ((n + 1) + 1)..(n + 1) : nlq'[k].pair # q
          BY <3>3
        <5> QED
          BY <4>0, <5>3, <5>4 DEF FilterForgot
      <4>2. CASE q # p
        <5>1. q \notin addrs
          BY <3>1, <3>7, <4>2
        <5>2. FilterForgot(n + 1, q)'
          BY <3>3, <3>4, <3>5, <5>1
        <5>3. (n + 1) - 1 = n /\ nlq'[n + 1].pair # q
          BY <3>2, <3>3, <4>2
        <5>4. CASE \E j \in 1..n : /\ nlq'[j].pair = q /\ nlq'[j].del
                                   /\ \A k \in (j + 1)..n : nlq'[k].pair # q
          <6>1. PICK j \in 1..n : /\ nlq'[j].pair = q /\ nlq'[j].del
                                  /\ \A k \in (j + 1)..n : nlq'[k].pair # q
            BY <5>4
          <6>2. j \in 1..(n + 1) /\ \A k \in (j + 1)..(n + 1) : nlq'[k].pair # q
            BY <3>3, <5>3, <6>1
          <6> QED
            BY <4>0, <6>1, <6>2 DEF FilterForgot
        <5>5. CASE q \notin known6' /\ \A k \in 1..n : nlq'[k].pair # q
          <6>1. \A k \in 1..(n + 1) : nlq'[k].pair # q
            BY <3>3, <5>3, <5>5
          <6> QED
            BY <4>0, <5>5, <6>1 DEF FilterForgot
        <5> QED
          BY <5>2, <5>3, <5>4, <5>5 DEF FilterForgot
      <4> QED
        BY <4>1, <4>2
    <3> QED
      BY <3>6, <3>7
  <2> QED
    BY <2>1, <2>2
<1>2. CASE Asks6
  BY <1>2, <1>s, AskSteps
<1>3. CASE Plain6
  BY <1>3, <1>s, PlainSteps
<1>4. CASE Unmarks6
  BY <1>4, <1>s, UnmarkSteps DEF Unmarks6
<1>5. CASE HandleNeigh
  <2>n. PICK n \in Nat : n = Len(nlq)
    BY DEF V6Queue
  <2>1. nlq # <<>> /\ nlq' = Tail(nlq) /\ UNCHANGED <<addrs, missed6>>
    BY <1>5, Handled, Zenon
  <2>2. /\ Len(nlq') = n - 1 /\ n >= 1
        /\ \A i \in 1..(n - 1) : nlq'[i] = nlq[i + 1]
    BY <2>n, <2>1, TailIs DEF V6Queue
  <2> SUFFICES ASSUME NEW q \in VPair, q \notin missed6
               PROVE  /\ \A i \in 1..(n - 1) : nlq'[i].pair = q /\ ~nlq'[i].del => FilterForgot(i, q)'
                      /\ q \notin addrs => FilterForgot(n, q)'
    <3>1. (Len(nlq) + 1)' = n /\ Len(nlq)' = n - 1
      BY <2>2
    <3> QED
      BY <2>1, <3>1 DEF Forgets
  <2>3. /\ \A i \in 1..n : nlq[i].pair = q /\ ~nlq[i].del => FilterForgot(i, q)
        /\ q \notin addrs => FilterForgot(n + 1, q)
    BY <2>n DEF Forgets
  <2>4. \A k \in 1..n : FilterForgot(k + 1, q) => FilterForgot(k, q)'
    BY <1>5, <2>n, ForgottenTail
  <2>5. ASSUME NEW i \in 1..(n - 1), nlq'[i].pair = q, ~nlq'[i].del PROVE FilterForgot(i, q)'
    <3>1. i + 1 \in 1..n /\ i \in 1..n /\ nlq'[i] = nlq[i + 1]
      BY <2>2
    <3> QED
      BY <2>3, <2>4, <2>5, <3>1
  <2>6. n \in 1..n
    BY <2>2
  <2> QED
    BY <2>3, <2>4, <2>5, <2>6
<1>6. CASE LoopTakes
  BY <1>6, <1>s, Taken
<1>7. CASE SocketFails
  <2>1. /\ nlq' = <<>> /\ \A i \in DOMAIN nlq : nlq[i].pair \in missed6'
        /\ missed6 \subseteq missed6' /\ UNCHANGED <<addrs, known6>>
    BY <1>7, SocketSteps, Zenon
  <2>2. DOMAIN nlq = 1..Len(nlq) /\ Len(nlq) \in Nat /\ Len(nlq)' = 0 /\ (Len(nlq) + 1)' = 1
    BY <2>1 DEF V6Queue
  <2>3. ASSUME NEW q \in VPair, q \notin missed6', q \notin addrs PROVE FilterForgot(1, q)'
    <3>1. FilterForgot(Len(nlq) + 1, q)
      BY <2>1, <2>3 DEF Forgets
    <3>2. q \notin known6
      BY <2>1, <2>2, <2>3, <3>1 DEF FilterForgot
    <3> QED
      BY <2>1, <3>2 DEF FilterForgot
  <2> QED
    BY <2>1, <2>2, <2>3 DEF Forgets
<1>8. CASE Locks6
  BY <1>8, <1>s, LocksTakes DEF Locks6
<1>9. CASE Stops6
  BY <1>9, <1>s, FailedLeaves DEF Stops6
<1>10. CASE Syncs6
  BY <1>10, <1>s, OneSynced DEF Syncs6
<1>11. CASE Adds6
  BY <1>11, <1>s, OneAdded DEF Adds6
<1>12. CASE Writes6
  BY <1>12, <1>s, OneWritten DEF Writes6
<1> QED
  BY <1>1, <1>2, <1>3, <1>4, <1>5, <1>6, <1>7, <1>8, <1>9, <1>10, <1>11, <1>12, V6Cases
-----------------------------------------------------------------------------
(* From the event to the filter. *)

\* p, or its device, waits in the socket or in the queue.
OnTheWay(p) == Queued(p) \/ p[1] \in pend6 \/ full6

\* A handled message puts the device into the queue or leaves the address unknown.
LEMMA HandledOnTheWay ==
  ASSUME V6Queue, Forgets, HandleNeigh, NEW p \in VPair, p \in known6', p \notin missed6
  PROVE  OnTheWay(p)' \/ (p \in known6 /\ ~OnTheWay(p))
<1>1. /\ nlq # <<>> /\ nlq[1] \in Events6 /\ nlq' = Tail(nlq) /\ full6' = full6
      /\ \/ nlq[1].del /\ known6' = known6 \ {nlq[1].pair} /\ pend6' = pend6
         \/ ~nlq[1].del /\ known6' = known6 \cup {nlq[1].pair} /\ pend6' = pend6 \cup {nlq[1].pair[1]}
         \/ ~nlq[1].del /\ known6' = known6 /\ pend6' = pend6
  BY Handled, Zenon
<1>2. nlq \in Seq(Events6)
  BY Zenon DEF V6Queue
<1>3. /\ Tail(nlq) \in Seq(Events6) /\ Len(Tail(nlq)) = Len(nlq) - 1 /\ Len(nlq) \in Nat /\ Len(nlq) >= 1
      /\ \A i \in 1..(Len(nlq) - 1) : Tail(nlq)[i] = nlq[i + 1]
  BY <1>1, <1>2, TailIs
<1>4. CASE nlq[1].pair = p
  <2>1. CASE nlq[1].del
    BY <1>1, <1>4, <2>1
  <2>2. CASE ~nlq[1].del
    <3>1. FilterForgot(1, p)
      BY <1>3, <1>4, <2>2 DEF Forgets
    <3>2. p \notin known6
      BY <3>1 DEF FilterForgot
    <3>3. p[1] \in pend6'
      BY <1>1, <1>4, <2>2, <3>2
    <3> QED
      BY <3>3 DEF OnTheWay
  <2> QED
    BY <2>1, <2>2
<1>5. CASE nlq[1].pair # p
  <2>1. p \in known6
    BY <1>1, <1>5
  <2>2. CASE Queued(p)
    <3>1. PICK i \in 1..Len(nlq) : nlq[i].pair = p
      BY <1>2, <2>2 DEF Queued
    <3>2. i # 1
      BY <1>5, <3>1
    <3>3. i - 1 \in 1..Len(nlq') /\ nlq'[i - 1].pair = p
      BY <1>1, <1>3, <3>1, <3>2
    <3>4. DOMAIN nlq' = 1..Len(nlq')
      BY <1>1, <1>3
    <3>5. Queued(p)'
      BY <3>3, <3>4 DEF Queued
    <3> QED
      BY <3>5 DEF OnTheWay
  <2>3. CASE ~Queued(p)
    <3>1. pend6 \subseteq pend6'
      BY <1>1
    <3> QED
      BY <1>1, <2>1, <2>3, <3>1 DEF OnTheWay
  <2> QED
    BY <2>2, <2>3
<1> QED
  BY <1>4, <1>5

\* Nobody leaves socket and queue but into the hand of a script.
LEMMA WayStep ==
  ASSUME V6Inv, [V6Next]_v6Vars, NEW p \in VPair, p \in known6' \cap addrs', p \notin missed6'
  PROVE  \/ OnTheWay(p)'
         \/ p \in known6 \cap addrs /\ p \notin missed6 /\ ~OnTheWay(p)
         \/ sh6'["queue"].at = "waits" /\ p[1] \in sh6'["queue"].todo
<1>0. V6Places /\ V6Queue /\ LoopWaits /\ OwnSnaps /\ SnapsTrue /\ FillOwn /\ FillTrue /\ FillSnap /\ Forgets
  BY Zenon DEF V6Inv
<1>p. p[1] \in VMac
  BY DEF VPair
<1> USE <1>0
<1>s. ASSUME UNCHANGED <<nlq, known6, addrs, pend6>>, full6' = full6 \/ full6' = TRUE, missed6 \subseteq missed6'
      PROVE  OnTheWay(p)' \/ (p \in known6 \cap addrs /\ p \notin missed6 /\ ~OnTheWay(p))
  BY <1>s DEF OnTheWay, Queued
<1>1. CASE Tells6
  <2> PICK q \in VPair : AddressAppears(q) \/ AddressGoes(q)
    BY <1>1, Zenon DEF Tells6
  <2>1. CASE nlq' = nlq /\ missed6' = missed6 \cup {q}
    <3>1. UNCHANGED <<known6, pend6, full6>> /\ p # q /\ p \in addrs
      BY <2>1, TellSteps
    <3> QED
      BY <2>1, <3>1 DEF OnTheWay, Queued
  <2>2. CASE ~(nlq' = nlq /\ missed6' = missed6 \cup {q})
    <3>1. /\ missed6' = missed6 /\ UNCHANGED <<known6, pend6, full6>>
          /\ \E ev \in Events6 : nlq' = Append(nlq, ev) /\ ev.pair = q
          /\ p = q \/ p \in addrs
      BY <2>2, TellSteps
    <3>2. PICK ev \in Events6 : nlq' = Append(nlq, ev) /\ ev.pair = q
      BY <3>1, Zenon
    <3>3. /\ DOMAIN nlq = 1..Len(nlq) /\ DOMAIN nlq' = 1..(Len(nlq) + 1) /\ Len(nlq) \in Nat
          /\ nlq'[Len(nlq) + 1] = ev /\ \A k \in 1..Len(nlq) : nlq'[k] = nlq[k]
      BY <3>2 DEF V6Queue
    <3>4. (p = q => Queued(p)') /\ (Queued(p) => Queued(p)')
      BY <3>2, <3>3 DEF Queued
    <3> QED
      BY <3>1, <3>4 DEF OnTheWay
  <2> QED
    BY <2>1, <2>2
<1>2. CASE Asks6
  BY <1>2, <1>s, AskSteps
<1>3. CASE Plain6
  BY <1>3, <1>s, PlainSteps
<1>4. CASE Unmarks6
  BY <1>4, <1>s, UnmarkSteps DEF Unmarks6
<1>5. CASE HandleNeigh
  <2>1. UNCHANGED <<addrs, missed6>>
    BY <1>5, Handled, Zenon
  <2> QED
    BY <1>5, <2>1, HandledOnTheWay
<1>6. CASE LoopTakes
  <2>1. /\ UNCHANGED <<addrs, nlq, known6, missed6>> /\ full6' = FALSE
        /\ \/ (full6 => VMac = {}) /\ (~full6 => pend6 = {})
           \/ /\ sh6'["queue"].at = "waits"
              /\ (full6 => sh6'["queue"].todo = VMac) /\ (~full6 => sh6'["queue"].todo = pend6)
    BY <1>6, Taken, Zenon
  <2>2. Queued(p)' <=> Queued(p)
    BY <2>1 DEF Queued
  <2> QED
    BY <1>p, <2>1, <2>2 DEF OnTheWay
<1>7. CASE SocketFails
  <2>1. /\ \A i \in DOMAIN nlq : nlq[i].pair \in missed6'
        /\ missed6 \subseteq missed6' /\ UNCHANGED <<addrs, known6, pend6, full6>>
    BY <1>7, SocketSteps, Zenon
  <2>2. ~Queued(p)
    BY <2>1 DEF Queued
  <2> QED
    BY <2>1, <2>2 DEF OnTheWay
<1>8. CASE Locks6
  BY <1>8, <1>s, LocksTakes DEF Locks6
<1>9. CASE Stops6
  BY <1>9, <1>s, FailedLeaves DEF Stops6
<1>10. CASE Syncs6
  BY <1>10, <1>s, OneSynced DEF Syncs6
<1>11. CASE Adds6
  BY <1>11, <1>s, OneAdded DEF Adds6
<1>12. CASE Writes6
  BY <1>12, <1>s, OneWritten DEF Writes6
<1> QED
  BY <1>1, <1>2, <1>3, <1>4, <1>5, <1>6, <1>7, <1>8, <1>9, <1>10, <1>11, <1>12, V6Cases
\* A run that missed a mark is followed by another.
LEMMA LaterStep == V6Inv /\ [V6Next]_v6Vars => ClearedIsLater'
<1> SUFFICES ASSUME V6Inv, [V6Next]_v6Vars, NEW r \in Runner, NEW p \in known6' \cap addrs',
                    sh6'[r].at = "runs", p[1] \in sh6'[r].todo, PassesOver(r, p)',
                    p[1] \in marked', p \notin missed6'
             PROVE  ComesLater(p)'
  BY DEF ClearedIsLater
<1>0. V6Places /\ V6Queue /\ LoopWaits /\ OwnSnaps /\ SnapsTrue /\ FillOwn /\ FillTrue /\ FillSnap /\ OneRuns /\ ClearedIsLater
  BY Zenon DEF V6Inv
<1>p. V6Places'
  BY V6PlacesStep
<1>q. p \in VPair /\ p[1] \in VMac /\ "queue" \in Runner
  BY <1>p DEF V6Places, VPair, Runner
<1> USE <1>0
<1>a. CASE OnTheWay(p)'
  BY <1>a DEF OnTheWay, ComesLater
<1>b. CASE sh6'["queue"].at = "waits" /\ p[1] \in sh6'["queue"].todo
  BY <1>b, <1>q DEF ComesLater
<1>c. CASE p \in known6 \cap addrs /\ p \notin missed6 /\ ~OnTheWay(p)
  <2>w. ASSUME NEW s \in Runner, sh6'[s].at = "waits", p[1] \in sh6'[s].todo
        PROVE  ComesLater(p)'
    BY <2>w DEF ComesLater
  \* A script that had the lock before this step.
  <2>o. ASSUME sh6[r].at = "runs", p[1] \in sh6[r].todo, PassesOver(r, p), p[1] \in marked
        PROVE  \E s \in Runner : sh6[s].at = "waits" /\ p[1] \in sh6[s].todo
    BY <1>c, <2>o DEF ClearedIsLater, ComesLater, OnTheWay
  <2>s. ASSUME UNCHANGED <<sh6, fill6, filt>>, marked' \subseteq marked PROVE ComesLater(p)'
    <3>1. PassesOver(r, p)
      BY <2>s DEF PassesOver
    <3> QED
      BY <2>s, <2>o, <2>w, <3>1
  <2>1. CASE Tells6
    <3>1. UNCHANGED <<sh6, fill6, filt>> /\ marked' = marked
      BY <2>1, TellSteps, Zenon DEF Tells6
    <3> QED
      BY <3>1, <2>s
  <2>2. CASE Asks6
    BY <1>q, <2>2, <2>w, AskSteps
  <2>3. CASE Plain6
    <3>1. UNCHANGED <<sh6, fill6, filt>> /\ marked' = marked
      BY <2>3, PlainSteps, Zenon
    <3> QED
      BY <3>1, <2>s
  <2>4. CASE Unmarks6
    <3> PICK m \in VMac : Unmark(m)
      BY <2>4, Zenon DEF Unmarks6
    <3>1. /\ UNCHANGED <<sh6, fill6>> /\ marked' = marked \ {m}
          /\ UNCHANGED <<filt, snap6>> \/ LockFree
      BY UnmarkSteps, Zenon
    <3>2. ~LockFree
      BY <3>1 DEF LockFree
    <3> QED
      BY <3>1, <3>2, <2>s
  <2>5. CASE HandleNeigh
    <3>1. UNCHANGED <<sh6, fill6, filt>> /\ marked' = marked
      BY <2>5, Handled, Zenon
    <3> QED
      BY <3>1, <2>s
  <2>6. CASE LoopTakes
    <3>1. /\ marked' = marked /\ sh6["queue"].at = "no" /\ UNCHANGED <<fill6, filt>>
          /\ \/ sh6' = sh6
             \/ sh6'["queue"].at = "waits" /\ \A s \in Runner \ {"queue"} : sh6'[s] = sh6[s]
      BY <2>6, Taken, Zenon
    <3>2. CASE sh6' = sh6
      BY <3>1, <3>2, <2>s
    <3>3. CASE sh6'["queue"].at = "waits" /\ \A s \in Runner \ {"queue"} : sh6'[s] = sh6[s]
      <4>1. r # "queue" /\ sh6'[r] = sh6[r]
        BY <3>3
      <4>p. PassesOver(r, p)
        BY <3>1, <4>1 DEF PassesOver
      <4>2. PICK s \in Runner : sh6[s].at = "waits" /\ p[1] \in sh6[s].todo
        BY <2>o, <3>1, <4>1, <4>p
      <4>3. s # "queue" /\ sh6'[s] = sh6[s]
        BY <3>1, <3>3, <4>2
      <4> QED
        BY <2>w, <4>2, <4>3
    <3> QED
      BY <3>1, <3>2, <3>3
  <2>7. CASE SocketFails
    <3>1. UNCHANGED <<sh6, fill6, filt>> /\ marked' = marked
      BY <2>7, SocketSteps, Zenon
    <3> QED
      BY <3>1, <2>s
  <2>8. CASE Locks6
    <3> PICK q \in Runner : Locks(q)
      BY <2>8, Zenon DEF Locks6
    <3>1. /\ LockFree /\ sh6'[q].marks = marked /\ marked' = marked /\ UNCHANGED fill6
          /\ \A s \in Runner \ {q} : sh6'[s] = sh6[s]
      BY LocksTakes, Zenon
    <3>2. ~fill6.on
      BY <3>1 DEF LockFree, FillOwn
    <3> QED
      BY <3>1, <3>2 DEF LockFree, PassesOver
  <2>9. CASE Stops6
    <3> PICK q \in Runner : ScriptFails(q) \/ ScriptEnds(q)
      BY <2>9, Zenon DEF Stops6
    <3>1. /\ sh6'[q].at = "no" /\ \A s \in Runner \ {q} : sh6'[s] = sh6[s]
          /\ \/ missed6' = missed6 \cup {t \in addrs : t[1] \in sh6[q].todo}
             \/ sh6[q].todo = {}
          /\ marked' = marked /\ filt' = filt /\ (fill6' = fill6 \/ fill6' = NoFill)
      BY FailedLeaves, Zenon
    <3>2. sh6'[r] = sh6[r]
      BY <3>1
    <3>n. ~NoFill.on
      BY DEF NoFill
    <3>p. PassesOver(r, p)
      BY <3>1, <3>2, <3>n DEF PassesOver
    <3>3. PICK s \in Runner : sh6[s].at = "waits" /\ p[1] \in sh6[s].todo
      BY <2>o, <3>1, <3>2, <3>p
    <3>4. s # q
      BY <1>c, <3>1, <3>3
    <3> QED
      BY <2>w, <3>1, <3>3, <3>4
  <2>10. CASE Syncs6
    <3> PICK q \in Runner, m \in VMac : SyncOne(q, m)
      BY <2>10, Zenon DEF Syncs6
    <3>0. sh6[q].at = "runs" /\ marked' = marked /\ ~fill6.on
      BY OneSynced, Zenon
    <3>1. CASE DoneWith(q, m)
      <4>1. /\ sh6'[q].todo = sh6[q].todo \ {m} /\ sh6'[q].marks = sh6[q].marks
            /\ fill6' = fill6 /\ \A s \in Runner \ {q} : sh6'[s] = sh6[s]
        BY <3>1, Zenon DEF DoneWith
      <4>2. r = q
        BY <3>0, <4>1 DEF OneRuns
      <4>p. PassesOver(r, p)
        BY <3>0, <4>1, <4>2 DEF PassesOver
      <4>3. PICK s \in Runner : sh6[s].at = "waits" /\ p[1] \in sh6[s].todo
        BY <2>o, <3>0, <4>1, <4>2, <4>p
      <4>4. s # q
        BY <3>0, <4>3
      <4> QED
        BY <2>w, <4>1, <4>3, <4>4
    <3>2. CASE Begun(q, m)
      <4>1. /\ sh6' = sh6 /\ fill6'.dev = m /\ Of(addrs, m) \subseteq fill6'.want
            /\ (fill6'.ok => fill6'.want \ fill6'.left \subseteq filt')
        BY <3>2, Zenon DEF Begun
      <4>2. p[1] \notin sh6'[r].marks
        BY <1>c, <4>1 DEF PassesOver, Of
      <4>p. PassesOver(r, p)
        BY <4>1, <4>2 DEF PassesOver
      <4>3. PICK s \in Runner : sh6[s].at = "waits" /\ p[1] \in sh6[s].todo
        BY <2>o, <3>0, <4>1, <4>p
      <4> QED
        BY <2>w, <4>1, <4>3
    <3> QED
      BY <3>1, <3>2, OneSynced, Zenon
  <2>11. CASE Adds6
    <3> PICK q \in Runner : AddFilter(q)
      BY <2>11, Zenon DEF Adds6
    <3>1. /\ fill6.on /\ fill6'.on /\ fill6'.dev = fill6.dev /\ UNCHANGED <<sh6, marked>>
      BY OneAdded, Zenon
    <3>2. PICK t \in fill6.left :
              /\ fill6'.left = fill6.left \ {t}
              /\ \/ filt' = filt \cup {t} /\ fill6'.ok = fill6.ok
                 \/ filt' = filt /\ ~fill6'.ok
      BY OneAdded, Zenon
    <3>p. PassesOver(r, p)
      BY <3>1, <3>2 DEF PassesOver
    <3>3. PICK s \in Runner : sh6[s].at = "waits" /\ p[1] \in sh6[s].todo
      BY <2>o, <3>1, <3>p
    <3> QED
      BY <2>w, <3>1, <3>3
  <2>12. CASE Writes6
    <3> PICK q \in Runner : WriteSnap(q)
      BY <2>12, Zenon DEF Writes6
    <3>1. /\ sh6[q].at = "runs" /\ sh6'[q].todo = sh6[q].todo \ {fill6.dev} /\ sh6'[q].marks = sh6[q].marks
          /\ fill6' = NoFill /\ marked' = marked /\ \A s \in Runner \ {q} : sh6'[s] = sh6[s]
      BY OneWritten, Zenon
    <3>2. r = q
      BY <3>1 DEF OneRuns
    <3>n. ~NoFill.on
      BY DEF NoFill
    <3>p. PassesOver(r, p)
      BY <3>1, <3>2, <3>n DEF PassesOver
    <3>3. PICK s \in Runner : sh6[s].at = "waits" /\ p[1] \in sh6[s].todo
      BY <2>o, <3>1, <3>2, <3>p
    <3>4. s # q
      BY <3>1, <3>3
    <3> QED
      BY <2>w, <3>1, <3>3, <3>4
  <2> QED
    BY <2>1, <2>2, <2>3, <2>4, <2>5, <2>6, <2>7, <2>8, <2>9, <2>10, <2>11, <2>12, V6Cases
<1> QED
  BY <1>a, <1>b, <1>c, <1>q, WayStep

\* Every step keeps suppressed addresses covered.
LEMMA CoveredStep == V6Inv /\ [V6Next]_v6Vars => KnownIsCovered'
<1> SUFFICES ASSUME V6Inv, [V6Next]_v6Vars, NEW p \in known6' \cap addrs',
                    p[1] \in marked', p \notin missed6', p[1] \notin torn6'
             PROVE  p \in filt' \/ OnTheWay(p)' \/ InHand(p[1])'
  BY DEF KnownIsCovered, OnTheWay
<1>0. V6Places /\ V6Queue /\ LoopWaits /\ OwnSnaps /\ SnapsTrue /\ FillOwn /\ FillTrue /\ FillSnap /\ OneRuns /\ ClearedIsLater /\ KnownIsCovered
  BY Zenon DEF V6Inv
<1>p. V6Places'
  BY V6PlacesStep
<1>q. p \in VPair /\ p[1] \in VMac /\ "queue" \in Runner
  BY <1>p DEF V6Places, VPair, Runner
<1> USE <1>0
<1>b. CASE sh6'["queue"].at = "waits" /\ p[1] \in sh6'["queue"].todo
  BY <1>b, <1>q DEF InHand
<1>c. CASE p \in known6 \cap addrs /\ p \notin missed6 /\ ~OnTheWay(p)
  <2>w. ASSUME NEW s \in Runner, sh6'[s].at # "no", p[1] \in sh6'[s].todo
        PROVE  InHand(p[1])'
    BY <2>w DEF InHand
  <2>o. ASSUME p[1] \in marked, p[1] \notin torn6
        PROVE  p \in filt \/ \E s \in Runner : sh6[s].at # "no" /\ p[1] \in sh6[s].todo
    BY <1>c, <2>o DEF KnownIsCovered, OnTheWay, InHand
  <2>s. ASSUME UNCHANGED <<sh6, torn6>>, marked' \subseteq marked, p \in filt => p \in filt'
        PROVE  p \in filt' \/ InHand(p[1])'
    BY <2>s, <2>o, <2>w
  <2>1. CASE Tells6
    <3>1. UNCHANGED <<sh6, torn6, marked, filt>>
      BY <2>1, TellSteps, Zenon DEF Tells6
    <3> QED
      BY <3>1, <2>s
  <2>2. CASE Asks6
    BY <1>q, <2>2, <2>w, AskSteps
  <2>3. CASE Plain6
    <3>1. UNCHANGED <<sh6, torn6, marked, filt>>
      BY <2>3, PlainSteps, Zenon
    <3> QED
      BY <3>1, <2>s
  <2>4. CASE Unmarks6
    <3> PICK m \in VMac : Unmark(m)
      BY <2>4, Zenon DEF Unmarks6
    <3>1. /\ UNCHANGED <<sh6, torn6>> /\ marked' = marked \ {m}
          /\ \A t \in VPair : t[1] # m => (t \in filt' <=> t \in filt)
      BY UnmarkSteps, Zenon
    <3> QED
      BY <1>q, <3>1, <2>s
  <2>5. CASE HandleNeigh
    <3>1. UNCHANGED <<sh6, torn6, marked, filt>>
      BY <2>5, Handled, Zenon
    <3> QED
      BY <3>1, <2>s
  <2>6. CASE LoopTakes
    <3>1. /\ UNCHANGED <<torn6, marked, filt>> /\ sh6["queue"].at = "no"
          /\ \/ sh6' = sh6
             \/ \A s \in Runner \ {"queue"} : sh6'[s] = sh6[s]
      BY <2>6, Taken, Zenon
    <3> QED
      BY <2>o, <2>w, <3>1
  <2>7. CASE SocketFails
    <3>1. UNCHANGED <<sh6, torn6, marked, filt>>
      BY <2>7, SocketSteps, Zenon
    <3> QED
      BY <3>1, <2>s
  <2>8. CASE Locks6
    <3> PICK q \in Runner : Locks(q)
      BY <2>8, Zenon DEF Locks6
    <3>1. /\ sh6'[q].at = "runs" /\ sh6'[q].todo = sh6[q].todo /\ UNCHANGED <<torn6, marked, filt>>
          /\ \A s \in Runner \ {q} : sh6'[s] = sh6[s]
      BY LocksTakes, Zenon
    <3> QED
      BY <2>o, <2>w, <3>1
  <2>9. CASE Stops6
    <3> PICK q \in Runner : ScriptFails(q) \/ ScriptEnds(q)
      BY <2>9, Zenon DEF Stops6
    <3>1. /\ \A s \in Runner \ {q} : sh6'[s] = sh6[s]
          /\ \/ missed6' = missed6 \cup {t \in addrs : t[1] \in sh6[q].todo}
             \/ sh6[q].todo = {}
          /\ UNCHANGED <<torn6, marked, filt>>
      BY FailedLeaves, Zenon
    <3>2. p[1] \notin sh6[q].todo
      BY <1>c, <3>1
    <3> QED
      BY <2>o, <2>w, <3>1, <3>2
  <2>10. CASE Syncs6
    <3> PICK q \in Runner, m \in VMac : SyncOne(q, m)
      BY <2>10, Zenon DEF Syncs6
    <3>0. /\ sh6[q].at = "runs" /\ m \in sh6[q].todo /\ marked' = marked
          /\ \A t \in VPair : t[1] # m => (t \in filt' <=> t \in filt)
      BY OneSynced, Zenon
    <3>1. CASE DoneWith(q, m)
      <4>1. /\ sh6'[q].at = "runs" /\ sh6'[q].todo = sh6[q].todo \ {m}
            /\ torn6' = torn6 /\ \A s \in Runner \ {q} : sh6'[s] = sh6[s]
            /\ \/ /\ m \in sh6[q].marks /\ Of(addrs, m) \subseteq snap6'[m].has
                  /\ m \notin torn6 => snap6'[m].has \subseteq filt'
               \/ m \notin sh6[q].marks
        BY <3>1, Zenon DEF DoneWith
      <4>2. CASE p[1] # m
        <5>2. p \in filt => p \in filt'
          BY <1>q, <3>0, <4>2
        <5>3. ASSUME NEW s \in Runner, sh6[s].at # "no", p[1] \in sh6[s].todo PROVE InHand(p[1])'
          BY <2>w, <4>1, <4>2, <5>3
        <5> QED
          BY <2>o, <3>0, <4>1, <5>2, <5>3
      <4>3. CASE p[1] = m /\ m \in sh6[q].marks
        <5>1. p \in Of(addrs, m)
          BY <1>c, <4>3 DEF Of
        <5> QED
          BY <4>1, <4>3, <5>1
      <4>4. CASE p[1] = m /\ m \notin sh6[q].marks
        <5>1. ComesLater(p)
          BY <1>c, <3>0, <4>4 DEF ClearedIsLater, PassesOver
        <5>2. PICK s \in Runner : sh6[s].at = "waits" /\ p[1] \in sh6[s].todo
          BY <1>c, <5>1 DEF ComesLater, OnTheWay
        <5>3. s # q
          BY <3>0, <5>2
        <5> QED
          BY <2>w, <4>1, <5>2, <5>3
      <4> QED
        BY <4>2, <4>3, <4>4
    <3>2. CASE Begun(q, m)
      <4>1. sh6' = sh6 /\ torn6 \subseteq torn6'
        BY <3>2, Zenon DEF Begun
      <4>2. CASE p[1] = m
        BY <2>w, <3>0, <4>1, <4>2
      <4>3. CASE p[1] # m
        <5>1. p \in filt => p \in filt'
          BY <1>q, <3>0, <4>3
        <5> QED
          BY <2>o, <2>w, <3>0, <4>1, <5>1
      <4> QED
        BY <4>2, <4>3
    <3> QED
      BY <3>1, <3>2, OneSynced, Zenon
  <2>11. CASE Adds6
    <3> PICK q \in Runner : AddFilter(q)
      BY <2>11, Zenon DEF Adds6
    <3>1. UNCHANGED <<sh6, marked, torn6>>
      BY OneAdded, Zenon
    <3>2. PICK t \in fill6.left : filt' = filt \/ filt' = filt \cup {t}
      BY OneAdded, Zenon
    <3>3. p \in filt => p \in filt'
      BY <3>2
    <3> QED
      BY <2>s, <3>1, <3>3
  <2>12. CASE Writes6
    <3> PICK q \in Runner : WriteSnap(q)
      BY <2>12, Zenon DEF Writes6
    <3>1. /\ sh6[q].at = "runs" /\ fill6.on /\ fill6.left = {}
          /\ sh6'[q].at = "runs" /\ sh6'[q].todo = sh6[q].todo \ {fill6.dev}
          /\ \A s \in Runner \ {q} : sh6'[s] = sh6[s]
          /\ torn6' = IF fill6.ok THEN torn6 \ {fill6.dev} ELSE torn6 \cup {fill6.dev}
          /\ UNCHANGED <<filt, marked>>
      BY OneWritten, Zenon
    <3>2. CASE p[1] # fill6.dev
      <4>1. p[1] \notin torn6
        BY <3>1, <3>2
      <4>2. ASSUME NEW s \in Runner, sh6[s].at # "no", p[1] \in sh6[s].todo PROVE InHand(p[1])'
        BY <2>w, <3>1, <3>2, <4>2
      <4> QED
        BY <2>o, <3>1, <4>1, <4>2
    <3>3. CASE p[1] = fill6.dev /\ p \notin filt
      <4>1. fill6.ok
        BY <3>1, <3>3
      <4>2. PICK t \in Runner : sh6[t].at = "runs" /\ fill6.dev \in sh6[t].todo
        BY <3>1 DEF FillOwn
      <4>3. t = q
        BY <3>1, <4>2 DEF OneRuns
      <4>4. PassesOver(q, p)
        BY <3>1, <3>3, <4>1 DEF PassesOver
      <4>5. ComesLater(p)
        BY <1>c, <3>1, <3>3, <4>2, <4>3, <4>4 DEF ClearedIsLater
      <4>6. PICK s \in Runner : sh6[s].at = "waits" /\ p[1] \in sh6[s].todo
        BY <1>c, <4>5 DEF ComesLater, OnTheWay
      <4>7. s # q
        BY <3>1, <4>6
      <4> QED
        BY <2>w, <3>1, <4>6, <4>7
    <3> QED
      BY <3>1, <3>2, <3>3
  <2> QED
    BY <2>1, <2>2, <2>3, <2>4, <2>5, <2>6, <2>7, <2>8, <2>9, <2>10, <2>11, <2>12, V6Cases
<1> QED
  BY <1>b, <1>c, <1>q, WayStep

\* Every step of the IPv6 synchronisation keeps the invariant.
LEMMA V6Step == V6Inv /\ [V6Next]_v6Vars => V6Inv'
  BY V6PlacesStep, V6QueueStep, OneRunsStep, SnapsStep, FillsStep, ForgetsStep, LaterStep, CoveredStep, Zenon DEF V6Inv

-----------------------------------------------------------------------------
(* The suite: the policies.                                                *)

PolicyInv == /\ part = "limits" => CtlInv
             /\ part = "apptime" => AppInv
             /\ part = "applimits" => LimInv
             /\ part = "v6" => V6Inv

\* A step of one component leaves the others alone.
LEMMA PolicyStep == ASSUME PolicyInv, [Next]_vars PROVE PolicyInv'
<1>1. CASE UNCHANGED vars
  <2>1. UNCHANGED <<part, limitVars, appVars, limVars, v6Vars>>
    BY <1>1, Zenon DEF vars
  <2> QED
    BY <2>1, CtlStep, AppStep, LimStep, V6Step DEF PolicyInv
<1>2. ASSUME NEW p \in Parts, Only(p), p \notin {"limits", "apptime", "applimits", "v6"} PROVE PolicyInv'
  BY <1>2 DEF Only, PolicyInv
<1>3. CASE Only("limits") /\ LimitNext
  BY <1>3, CtlStep DEF Only, PolicyInv
<1>4. CASE Only("apptime") /\ AppNext
  BY <1>4, AppStep DEF Only, PolicyInv
<1>5. CASE Only("applimits") /\ LimNext
  BY <1>5, LimStep DEF Only, PolicyInv
<1>6. CASE Only("v6") /\ V6Next
  BY <1>6, V6Step DEF Only, PolicyInv
<1> QED
  BY <1>1, <1>2, <1>3, <1>4, <1>5, <1>6 DEF Next, Parts

\* What is restored, charged and shown is true, for every value of the constants:
\* limit_policy.go, app_time.go, action_app_limit.go, apply_app_limits.sh,
\* neigh_v6.go and v6_sync.sh.
THEOREM PoliciesKept == Spec => []PolicyKept
<1>1. Init => PolicyInv
  BY CtlStart, AppStart, LimStart, V6Start, Zenon DEF Init, PolicyInv
<1>2. PolicyInv /\ [Next]_vars => PolicyInv'
  BY PolicyStep
<1>3. PolicyInv => PolicyKept
  BY CtlTyped, AppTyped, LimTyped, V6Typed, Zenon DEF PolicyInv, PolicyKept
<1> QED
  BY <1>1, <1>2, <1>3, PTL DEF Spec

\* The base is the user's rule and no byte is charged twice, whatever fails or
\* dies in a round (limit_policy.go tick, reconcile, saveStateLocked).
THEOREM LimitsKept == LimitSpec => [](BaseIsManual /\ NoOvercharge)
<1>1. CtlInv => BaseIsManual /\ NoOvercharge
  BY CtlTyped, Zenon
<1> QED
  BY <1>1, CtlStart, CtlStep, PTL DEF LimitSpec

\* A day's use of an application is not counted twice and an alert goes out once,
\* whatever clock, deaths and failed writes do (app_time.go).
THEOREM BudgetsKept == AppSpec => [](UseCounted /\ AlertOnce)
<1>1. AppInv => UseCounted /\ AlertOnce
  BY AppTyped, Zenon
<1>2. AppInv /\ [AppNext]_appVars => AppInv'
  BY AppStep
<1> QED
  BY <1>1, <1>2, AppStart, PTL DEF AppSpec

\* An edit is not lost with its marker, and ok after a save means both files
\* (action_app_limit.go, apply_app_limits.sh).
THEOREM EditsKept == LimSpec => [](MarkerCoversEdit /\ OkMeansBoth)
<1>1. LimInv => MarkerCoversEdit /\ OkMeansBoth
  BY LimTyped, Zenon
<1>2. LimInv /\ [LimNext]_limVars => LimInv'
  BY LimStep
<1> QED
  BY <1>1, <1>2, LimStart, PTL DEF LimSpec

\* An address that the event filter suppresses has its filter, or its device is on
\* the way through socket, queue or script, for any number of devices and addresses
\* and whatever happens to tree and script between two tc commands, unless a
\* message or a run was lost or the device's last set of filters was refused in
\* part, cut short or swept away half-way (neigh_v6.go Handle, take, Loop;
\* v6_sync.sh sync_one).
THEOREM AddressesCovered == V6Spec => []KnownIsCovered
<1>1. V6Inv => KnownIsCovered
  BY V6Typed, Zenon
<1> QED
  BY <1>1, V6Start, V6Step, PTL DEF V6Spec
=============================================================================
