---------------------------- MODULE DnsTakeover ----------------------------
(***************************************************************************)
(* The DNS takeover of hnc_httpd (dns_takeover.go, dns_takeover.sh).  Each *)
(* round, and each dns_takeover_set, runs tickLocked under tickMu: open    *)
(* the forwarder on the hotspot's address, choose an upstream, test the    *)
(* way through, then put DNAT rules in place or, when something is wrong,  *)
(* take them out again (fail open).  The hotspot, the resolvers and the    *)
(* firewall change beside it, and the process may die at any step, which   *)
(* leaves rules that only the watchdog removes.  Times are rounds.         *)
(***************************************************************************)
EXTENDS Naturals

CONSTANTS Addr,          \* addresses the hotspot may get, not 0
          BackoffMin, BackoffMax, \* dnsTKBackoffMin and Max
          Recheck,       \* the minute after which a non-tether upstream is chosen again
          HealthyReset,  \* the ten minutes of health that forget the backoff
          MaxChanges,    \* bound on changes of hotspot, configuration and resolvers
          MaxDnsFaults      \* bound on failing commands, flushed rules, deaths

ASSUME DnsConstants == /\ 0 \notin Addr /\ BackoffMin \in Nat \ {0} /\ BackoffMax \in Nat
                       /\ BackoffMin <= BackoffMax /\ Recheck \in Nat /\ HealthyReset \in Nat \ {0}
                       /\ MaxChanges \in Nat /\ MaxDnsFaults \in Nat

Upstreams == {"custom", "tether", "system"}

VARIABLES conf,     \* data/dns_takeover.json: enabled, a custom upstream is set
          dnsHot,      \* address of the hotspot interface, 0 when it is down
          dnsWorking,  \* resolvers that answer
          rules,    \* address the DNAT rules lead to, 0 without rules
          httpd,    \* the process: alive, and t.booted
          fwd,      \* t.fwd and t.listen: where the forwarder listens, 0 for nil
          upstream, \* t.upstreamKind, "" while none was chosen
          upAge,    \* rounds since upCheckedAt, up to Recheck
          active, ruleSig,
          retry,    \* rounds until retryAt
          backoff,
          health,   \* rounds since healthySince, up to HealthyReset; 0 when it is zero
          tick,     \* tickLocked: where it is, its listen address, its self-test
          stuck,    \* a removal has failed
          changes, dnsFaults

dnsVars == <<conf, dnsHot, dnsWorking, rules, httpd, fwd, upstream, upAge, active, ruleSig, retry,
             backoff, health, tick, stuck, changes, dnsFaults>>
dnsEnv == <<conf, dnsHot, dnsWorking, changes>>
dnsMem == <<upstream, upAge, retry, backoff, health>>

DnsTypeOK ==
  /\ conf \in [on : BOOLEAN, custom : BOOLEAN] /\ dnsWorking \subseteq Upstreams
  /\ {dnsHot, rules, fwd, ruleSig} \subseteq Addr \cup {0}
  /\ httpd \in {"dead", "new", "booted"} /\ upstream \in Upstreams \cup {""}
  /\ upAge \in 0..Recheck /\ active \in BOOLEAN /\ retry \in 0..BackoffMax
  /\ backoff \in BackoffMin..BackoffMax /\ health \in 0..HealthyReset
  /\ tick \in [at : {"idle", "conf", "stop", "close", "listen", "upstream", "probe", "act", "apply", "failopen"},
               on : Addr \cup {0}, ok : BOOLEAN]
  /\ stuck \in BOOLEAN /\ changes \in 0..MaxChanges /\ dnsFaults \in 0..MaxDnsFaults

Idle == [at |-> "idle", on |-> 0, ok |-> FALSE]
DnsInit == /\ conf \in [on : BOOLEAN, custom : BOOLEAN] /\ dnsHot \in Addr \cup {0} /\ dnsWorking = Upstreams
           /\ rules = 0 /\ httpd = "new" /\ fwd = 0 /\ upstream = "" /\ upAge = 0 /\ active = FALSE
           /\ ruleSig = 0 /\ retry = 0 /\ backoff = BackoffMin /\ health = 0 /\ tick = Idle
           /\ stuck = FALSE /\ changes = 0 /\ dnsFaults = 0

DnsFault == dnsFaults < MaxDnsFaults /\ dnsFaults' = dnsFaults + 1
DnsChange == changes < MaxChanges /\ changes' = changes + 1
TickTo(at) == tick' = [tick EXCEPT !.at = at]
Upto(n, bound) == IF n < bound THEN n + 1 ELSE bound

\* dns_takeover.sh remove exits 0 whether or not iptables could delete the rules;
\* removeRulesLocked forgets them either way.
RemoveRules ==
  \/ rules' = 0 /\ UNCHANGED <<stuck, dnsFaults>>
  \/ rules # 0 /\ UNCHANGED rules /\ stuck' = TRUE /\ DnsFault
ForgetRules == active' = FALSE /\ ruleSig' = 0

\* DNSTakeoverLoop's round: time has passed.
TickStart ==
  /\ httpd # "dead" /\ tick.at = "idle" /\ TickTo("conf")
  /\ retry' = (IF retry > 0 THEN retry - 1 ELSE 0) /\ upAge' = Upto(upAge, Recheck)
  /\ health' = (IF health > 0 THEN Upto(health, HealthyReset) ELSE 0)
  /\ UNCHANGED <<dnsEnv, rules, httpd, fwd, upstream, active, ruleSig, backoff, stuck, dnsFaults>>
\* actionDNSTakeoverSet waits for tickMu, writes the file, forgets the backoff and runs tickLocked.
TakeoverSet ==
  /\ httpd # "dead" /\ tick.at = "idle" /\ TickTo("conf") /\ DnsChange
  /\ conf' \in [on : BOOLEAN, custom : BOOLEAN] \ {conf} /\ retry' = 0 /\ backoff' = BackoffMin
  /\ UNCHANGED <<dnsHot, dnsWorking, rules, httpd, fwd, upstream, upAge, active, ruleSig, health, stuck, dnsFaults>>

\* dnsIfaceAddrs: where the forwarder is to listen, 0 while the interface has no address.
ListenAddr == dnsHot
\* tickLocked up to the forwarder.
TickConf ==
  /\ tick.at = "conf" /\ httpd' = "booted"
  /\ IF conf.on /\ ListenAddr # 0 THEN tick' = [tick EXCEPT !.at = "listen", !.on = ListenAddr]
     ELSE TickTo(IF httpd = "new" \/ active THEN "stop" ELSE "close")
  /\ UNCHANGED <<dnsEnv, dnsMem, rules, fwd, active, ruleSig, stuck, dnsFaults>>
\* stopLocked (and the removal of the first round): rules first, then the forwarder.
TickStop ==
  /\ tick.at = "stop" /\ RemoveRules /\ ForgetRules /\ TickTo("close")
  /\ UNCHANGED <<dnsEnv, dnsMem, httpd, fwd>>
TickClose ==
  /\ tick.at = "close" /\ fwd' = 0 /\ tick' = Idle
  /\ UNCHANGED <<dnsEnv, dnsMem, rules, httpd, active, ruleSig, stuck, dnsFaults>>

\* openForwarder: a changed address restarts it, and the upstream is chosen anew.
\* Listening on the IPv6 addresses is best effort and left out.
TickListen ==
  /\ tick.at = "listen"
  /\ \/ fwd = tick.on /\ TickTo("upstream") /\ UNCHANGED <<fwd, upstream, dnsFaults>>
     \/ fwd # tick.on /\ upstream' = ""
        /\ \/ dnsHot = tick.on /\ fwd' = tick.on /\ TickTo("upstream") /\ UNCHANGED dnsFaults
           \/ fwd' = 0 /\ TickTo("failopen") /\ IF dnsHot = tick.on THEN DnsFault ELSE UNCHANGED dnsFaults
  /\ UNCHANGED <<dnsEnv, rules, httpd, upAge, active, ruleSig, retry, backoff, health, stuck>>

\* chooseUpstream, and when tickLocked calls it.
Candidates == IF conf.custom THEN <<"custom">> ELSE <<"tether", "system">>
Chosen == IF \E i \in DOMAIN Candidates : Candidates[i] \in dnsWorking
          THEN Candidates[CHOOSE i \in DOMAIN Candidates :
                 /\ Candidates[i] \in dnsWorking
                 /\ \A j \in 1..(i - 1) : Candidates[j] \notin dnsWorking]
          ELSE upstream
MustChoose == \/ upstream = "" \/ (upstream = "custom") # conf.custom
              \/ upstream # "tether" /\ upAge = Recheck
TickUpstream ==
  /\ tick.at = "upstream"
  /\ IF MustChoose THEN upstream' = Chosen /\ upAge' = 0 ELSE UNCHANGED <<upstream, upAge>>
  /\ IF upstream' = "" THEN TickTo("failopen")
     ELSE IF retry > 0 /\ ~active THEN tick' = Idle
     ELSE TickTo("probe")
  /\ UNCHANGED <<dnsEnv, rules, httpd, fwd, active, ruleSig, retry, backoff, health, stuck, dnsFaults>>

\* The self-test goes to the hotspot's address and through the forwarder to the upstream.
TickProbe ==
  /\ tick.at = "probe"
  /\ tick' = [tick EXCEPT !.at = "act", !.ok = (upstream \in dnsWorking /\ dnsHot = tick.on)]
  /\ UNCHANGED <<dnsEnv, dnsMem, rules, httpd, fwd, active, ruleSig, stuck, dnsFaults>>
\* The decision; dnsHealthEval may also object to the forwarder's own counters.
TickAct ==
  /\ tick.at = "act"
  /\ \/ ~active /\ ~tick.ok /\ tick' = Idle /\ UNCHANGED <<backoff, dnsFaults>>
     \/ ~active /\ tick.ok /\ TickTo("apply") /\ UNCHANGED <<backoff, dnsFaults>>
     \/ active /\ (ruleSig # tick.on \/ rules = 0) /\ TickTo("apply") /\ UNCHANGED <<backoff, dnsFaults>>
     \/ active /\ ruleSig = tick.on /\ rules # 0
        /\ \/ tick.ok /\ tick' = Idle /\ UNCHANGED dnsFaults
              /\ backoff' = IF health = HealthyReset THEN BackoffMin ELSE backoff
           \/ TickTo("failopen") /\ UNCHANGED backoff /\ IF tick.ok THEN DnsFault ELSE UNCHANGED dnsFaults
  /\ UNCHANGED <<dnsEnv, rules, httpd, fwd, upstream, upAge, active, ruleSig, retry, health, stuck>>
\* applyLocked; the script that fails takes its own rules down again.
TickApply ==
  /\ tick.at = "apply" /\ tick' = Idle
  /\ \/ rules' = tick.on /\ active' = TRUE /\ ruleSig' = tick.on /\ health' = 1 /\ UNCHANGED dnsFaults
     \/ rules' = 0 /\ ForgetRules /\ DnsFault /\ UNCHANGED health
  /\ UNCHANGED <<dnsEnv, httpd, fwd, upstream, upAge, retry, backoff, stuck>>
\* failOpenLocked.
TickFailOpen ==
  /\ tick.at = "failopen" /\ tick' = Idle
  /\ retry' = backoff /\ backoff' = (IF 2 * backoff > BackoffMax THEN BackoffMax ELSE 2 * backoff)
  /\ health' = 0
  /\ IF active THEN RemoveRules /\ ForgetRules ELSE UNCHANGED <<rules, active, ruleSig, stuck, dnsFaults>>
  /\ UNCHANGED <<dnsEnv, httpd, fwd, upstream, upAge>>

\* Shutdown on SIGTERM waits for the round and stops in the same order.
ShutdownTakeover ==
  /\ httpd # "dead" /\ tick.at = "idle" /\ DnsFault /\ httpd' = "dead" /\ fwd' = 0
  /\ IF active THEN rules' = 0 /\ ForgetRules ELSE UNCHANGED <<rules, active, ruleSig>>
  /\ UNCHANGED <<dnsEnv, dnsMem, tick, stuck>>
\* A kill or a crash; the script it was running goes on to its end.
DnsHttpdDies ==
  /\ httpd # "dead" /\ DnsFault /\ httpd' = "dead" /\ fwd' = 0 /\ tick' = Idle /\ ForgetRules
  /\ rules' \in {rules} \cup (IF tick.at = "apply" THEN {tick.on} ELSE {})
                        \cup (IF tick.at = "stop" \/ (tick.at = "failopen" /\ active) THEN {0} ELSE {})
  /\ UNCHANGED <<dnsEnv, dnsMem, stuck>>
\* The watchdog removes the rules before it starts httpd again (main.go:472).
WatchdogRestarts ==
  /\ httpd = "dead" /\ RemoveRules /\ httpd' = "new" /\ upstream' = "" /\ upAge' = 0
  /\ retry' = 0 /\ backoff' = BackoffMin /\ health' = 0
  /\ UNCHANGED <<dnsEnv, fwd, active, ruleSig, tick>>

\* The surroundings: hotspot, resolvers, and another program flushing the tables.
HotspotChanges == /\ DnsChange /\ dnsHot' \in (Addr \cup {0}) \ {dnsHot}
                  /\ UNCHANGED <<conf, dnsWorking, rules, httpd, fwd, dnsMem, active, ruleSig, tick, stuck, dnsFaults>>
ResolverChanges == /\ DnsChange
                   /\ \E u \in Upstreams : dnsWorking' = IF u \in dnsWorking THEN dnsWorking \ {u} ELSE dnsWorking \cup {u}
                   /\ UNCHANGED <<conf, dnsHot, rules, httpd, fwd, dnsMem, active, ruleSig, tick, stuck, dnsFaults>>
RulesFlushed == /\ rules # 0 /\ rules' = 0 /\ DnsFault
                /\ UNCHANGED <<dnsEnv, httpd, fwd, dnsMem, active, ruleSig, tick, stuck>>

TickStep == \/ TickConf \/ TickStop \/ TickClose \/ TickListen \/ TickUpstream \/ TickProbe
            \/ TickAct \/ TickApply \/ TickFailOpen
DnsNext == \/ TickStart \/ TakeoverSet \/ TickStep \/ ShutdownTakeover \/ DnsHttpdDies
           \/ WatchdogRestarts \/ HotspotChanges \/ ResolverChanges \/ RulesFlushed

\* The loop's ticker goes on while httpd lives, and the watchdog's rounds when it does not.
DnsFairness == WF_dnsVars(TickStart) /\ WF_dnsVars(TickStep) /\ WF_dnsVars(WatchdogRestarts)
DnsSpec == DnsInit /\ [][DnsNext]_dnsVars /\ DnsFairness
-----------------------------------------------------------------------------
\* Between two rounds DNAT rules exist only while the takeover knows of them and
\* the forwarder they lead to is open (dns_takeover.go:899); a removal that the
\* kernel refused is never tried again, and is excepted.
RulesServed == httpd = "booted" /\ tick.at = "idle" /\ rules # 0 /\ ~stuck
               => active /\ rules = fwd

\* Devices never stay behind rules that lead nowhere: a missing forwarder, a
\* dead httpd or a resolver that stopped answering ends in fail open or in repair.
Dark == rules # 0 /\ (rules # fwd \/ upstream \notin dnsWorking)
DarkEnds == []<>(~Dark \/ stuck)

\* While the hotspot's own resolver works, an enabled takeover comes (back) into
\* force whatever failed before: no backoff or state keeps it away for ever.
Wished(u) == conf = [on |-> TRUE, custom |-> FALSE] /\ dnsHot # 0 /\ u \in dnsWorking
TakesOver == <>[]Wished("tether") => []<>active

\* The choice of upstream in the file's header (dns_takeover.go:14-19): "system"
\* serves when the gateway's resolver does not answer.
TakesOverAnyway == <>[]Wished("system") => []<>active
=============================================================================
