----------------------------- MODULE DeviceScan -----------------------------
(***************************************************************************)
(* The device table of hnc_watchdog: package devscan (the table), package  *)
(* neigh (the kernel's neighbour entries, by netlink) and m4_owner.go (the *)
(* one writer of devices.json).  The kernel tells a subscriber of every    *)
(* change of an entry; a full dump every Sync makes up for lost events; a  *)
(* device silent for more than Offline leaves the table.  A read error of  *)
(* the subscription (an overrun socket) ends it until the next runner.     *)
(*                                                                         *)
(* One unit of time is the FullSync period scaled to Sync.  The writer's   *)
(* coalescing (at most 500 ms) and the queues are far faster than one      *)
(* unit, so time waits for them.                                           *)
(***************************************************************************)
EXTENDS Integers, Sequences

CONSTANTS ScanMac, ScanIp,      \* devices and IPv4 addresses (numbers, for the order)
          Sync,         \* m4FullSyncEvery
          Offline,      \* OfflineThreshold
          ReResolve,    \* ReResolveWindow
          MaxScanClk, MaxKern, MaxScanMishaps, MaxAsks, MaxQueue   \* bounds of the model

ASSUME ScanAssumption ==
  /\ ScanIp \subseteq Nat \ {0}
  /\ {Sync, Offline, MaxScanClk} \subseteq Nat \ {0}
  /\ {ReResolve, MaxKern, MaxScanMishaps, MaxAsks, MaxQueue} \subseteq Nat

VARIABLES
  scanClk,
  nb,        \* the kernel's entry of each address
  kIdx,      \* the kernel's index of the hotspot interface
  evq,       \* changes the kernel has told and the loop has not yet taken
  subOn,     \* the subscription is being read
  runIdx,    \* ifIdx of the runner, 0 before it is known
  devs,      \* Table.devs
  cand,      \* Table.cands
  rsv,       \* the name resolution in flight for a device
  rsvSig,    \* the channel resolved
  dirtyW,    \* dirty
  lastSync,
  devFile,   \* devices.json
  lastW,     \* lastWritten, empty before the first write
  lostW,     \* the last write failed
  asks,      \* refreshes asked for so far
  scanCnt,   \* [kern, mis]: changes and stops so far, mishaps so far
  gap        \* since when a device with a usable entry is not in the table
scanVars == <<scanClk, nb, kIdx, evq, subOn, runIdx, devs, cand, rsv, rsvSig,
              dirtyW, lastSync, devFile, lastW, lostW, asks, scanCnt, gap>>
kernVars == <<nb, kIdx>>
writerVars == <<dirtyW, devFile, lastW, lostW>>

Never == MaxScanClk + 1
\* The bound on what befalls the system: changes, stops, refreshes, mishaps.
MayAct == scanCnt.kern + scanCnt.mis + asks < MaxKern
MayFail == MayAct /\ scanCnt.mis < MaxScanMishaps
NoEntry == [st |-> "none", mac |-> "-", conf |-> 0, chg |-> 0]
NoDev == [ip |-> 0, seen |-> 0, name |-> "-", res |-> 0]
NoCand == [st |-> "none", at |-> 0]
NoCands == [i \in ScanIp |-> NoCand]
Usable == {"reach", "probe", "stale"}

stateRank(st) == CASE st = "reach" -> 4 [] st = "probe" -> 2
                   [] st = "stale" -> 1 [] OTHER -> 0

\* The address the kernel confirmed last; ties go to the better state, then to
\* the smaller address.
pickIP(cs) ==
  LET has == {i \in ScanIp : cs[i].st # "none"}
      key(i) == <<cs[i].at, stateRank(cs[i].st), -i>>
      beats(i, j) == \/ key(i)[1] > key(j)[1]
                     \/ /\ key(i)[1] = key(j)[1]
                        /\ \/ key(i)[2] > key(j)[2]
                           \/ key(i)[2] = key(j)[2] /\ key(i)[3] >= key(j)[3]
  IN IF has = {} THEN 0 ELSE CHOOSE i \in has : \A j \in has : beats(i, j)

-----------------------------------------------------------------------------
(* The table.  A table is a record [d |-> devs, c |-> cands].              *)

table == [d |-> devs, c |-> cand]
HasDevice(t, m) == t.d[m].ip # 0

\* Fast answers from the manual names, or the device waits for Full.
applyOnline(t, m, i, st, at) ==
  LET cs == [t.c[m] EXCEPT ![i] = [st |-> st, at |-> at]]
      old == t.d[m]
      anew == ~HasDevice(t, m) \/ scanClk - old.res >= ReResolve
  IN [d |-> [t.d EXCEPT ![m] =
               [ip |-> pickIP(cs), seen |-> scanClk,
                name |-> IF anew THEN "pending" ELSE old.name,
                res |-> IF anew THEN scanClk ELSE old.res]],
      c |-> [t.c EXCEPT ![m] = cs]]

\* A FAILED entry carries no MAC: every device that knows the address loses it.
failIP(t, i) ==
  LET hit == {m \in ScanMac : HasDevice(t, m) /\ (t.c[m][i].st # "none" \/ t.d[m].ip = i)}
      rest == [m \in ScanMac |-> IF m \in hit THEN [t.c[m] EXCEPT ![i] = NoCand] ELSE t.c[m]]
  IN [d |-> [m \in ScanMac |->
               IF m \notin hit THEN t.d[m]
               ELSE IF rest[m] = NoCands THEN NoDev
               ELSE [t.d[m] EXCEPT !.ip = pickIP(rest[m])]],
      c |-> rest]

\* An event: [ip, st, mac, conf, idx, del].
ApplyEvent(t, e) ==
  IF e.idx # runIdx THEN t
  ELSE IF ~e.del /\ e.st \in Usable THEN applyOnline(t, e.mac, e.ip, e.st, e.conf)
  ELSE IF e.st = "failed" THEN failIP(t, e.ip)
  ELSE IF e.del THEN [t EXCEPT !.c[e.mac][e.ip] = NoCand]
  ELSE t
EventChanges(t, e) ==
  /\ e.idx = runIdx
  /\ \/ ~e.del /\ e.st \in Usable
     \/ e.st = "failed" /\ failIP(t, e.ip).d # t.d

\* One entry of a dump: an unchanged one is passed over.
SyncEntry(t, i) ==
  LET e == nb[i]
  IN IF e.st = "failed" THEN failIP(t, i)
     ELSE IF e.st \notin Usable \/ t.c[e.mac][i].st = e.st THEN t
     ELSE applyOnline(t, e.mac, i, e.st, e.conf)
FullSync(t, idx) ==
  LET at[k \in Nat] == IF k = 0 THEN t
                       ELSE IF k \in ScanIp THEN SyncEntry(at[k - 1], k) ELSE at[k - 1]
  IN IF idx # kIdx THEN t
     ELSE at[CHOOSE k \in ScanIp : \A j \in ScanIp : j <= k]

Silent(t, m) == HasDevice(t, m) /\ scanClk - t.d[m].seen > Offline

EvictOffline(t) ==
  [d |-> [m \in ScanMac |-> IF Silent(t, m) THEN NoDev ELSE t.d[m]],
   c |-> [m \in ScanMac |-> IF Silent(t, m) THEN NoCands ELSE t.c[m]]]

\* RenderJSON, without traffic and the blacklist.
Rendered(d) == [m \in ScanMac |-> [ip |-> d[m].ip, seen |-> d[m].seen, name |-> d[m].name]]

-----------------------------------------------------------------------------
(* The kernel and the subscription.                                        *)

\* The kernel tells the change; an overrun ends the subscription for good.
Tell(e) ==
  /\ MayAct
  /\ Len(evq) < MaxQueue
  /\ \/ subOn /\ evq' = Append(evq, e) /\ subOn' = TRUE
        /\ scanCnt' = [scanCnt EXCEPT !.kern = @ + 1]
     \/ ~subOn /\ UNCHANGED <<evq, subOn>>
        /\ scanCnt' = [scanCnt EXCEPT !.kern = @ + 1]
     \/ subOn /\ MayFail /\ subOn' = FALSE /\ UNCHANGED evq
        /\ scanCnt' = [kern |-> scanCnt.kern + 1, mis |-> scanCnt.mis + 1]
Message(i, e, del) ==
  [ip |-> i, st |-> e.st, mac |-> e.mac, conf |-> e.conf, idx |-> kIdx, del |-> del]
KernelRest ==
  UNCHANGED <<scanClk, kIdx, runIdx, devs, cand, rsv, rsvSig, lastSync, writerVars>>

\* An entry is confirmed, ages, is probed, or fails.
Turn(i, m, st) ==
  LET e == [st |-> st, mac |-> IF st = "failed" THEN "-" ELSE m,
            conf |-> IF st = "reach" THEN scanClk ELSE nb[i].conf, chg |-> scanClk]
  IN /\ nb[i].st # "none" /\ nb[i].mac # "-" => m = nb[i].mac
     /\ <<nb[i].st, st>> \in {<<"none", "reach">>, <<"failed", "reach">>,
          <<"stale", "reach">>, <<"probe", "reach">>, <<"reach", "stale">>,
          <<"stale", "probe">>, <<"probe", "failed">>}
     /\ nb' = [nb EXCEPT ![i] = e]
     /\ Tell(Message(i, e, FALSE))
     /\ KernelRest

\* The kernel drops an entry; the message carries its last state.
Collect(i) ==
  /\ nb[i].st \in {"stale", "failed"}
  /\ nb' = [nb EXCEPT ![i] = NoEntry]
  /\ Tell(Message(i, nb[i], TRUE))
  /\ KernelRest

\* The hotspot interface is made anew: another index, no entries.
RebuildIface ==
  /\ MayAct
  /\ kIdx' = kIdx + 1
  /\ nb' = [i \in ScanIp |-> NoEntry]
  /\ scanCnt' = [scanCnt EXCEPT !.kern = @ + 1]
  /\ UNCHANGED <<scanClk, evq, subOn, runIdx, devs, cand, rsv, rsvSig, lastSync, writerVars>>

-----------------------------------------------------------------------------
(* The runner's loop: one action for each case of its select.              *)

SetTable(t) == devs' = t.d /\ cand' = t.c

\* writeOut: an unchanged rendering is not written unless it is forced; a
\* failed write keeps lastWritten, and the caller clears dirty all the same.
WriteOut(d, force) ==
  LET b == Rendered(d)
  IN \/ ~force /\ <<b>> = lastW /\ UNCHANGED <<devFile, lastW, lostW, scanCnt>>
     \/ /\ force \/ <<b>> # lastW
        /\ devFile' = b /\ lastW' = <<b>> /\ lostW' = FALSE /\ UNCHANGED scanCnt
     \/ /\ force \/ <<b>> # lastW
        /\ MayFail
        /\ lostW' = TRUE
        /\ scanCnt' = [scanCnt EXCEPT !.mis = @ + 1]
        /\ UNCHANGED <<devFile, lastW>>

TakeEvent ==
  /\ runIdx # 0 /\ evq # <<>>
  /\ SetTable(ApplyEvent(table, Head(evq)))
  /\ dirtyW' = (dirtyW \/ EventChanges(table, Head(evq)))
  /\ evq' = Tail(evq)
  /\ UNCHANGED <<scanClk, kernVars, subOn, runIdx, rsv, rsvSig, lastSync, devFile, lastW, lostW, scanCnt>>

TakeResolved ==
  /\ runIdx # 0 /\ rsvSig
  /\ rsvSig' = FALSE /\ dirtyW' = TRUE
  /\ UNCHANGED <<scanClk, kernVars, evq, subOn, runIdx, devs, cand, rsv, lastSync, devFile, lastW, lostW, scanCnt>>

\* The tick's FullSync: the index is refreshed first, when it can be looked up; a
\* failed dump only loses this round.
SyncDue == runIdx # 0 /\ scanClk - lastSync >= Sync
TickSync ==
  /\ SyncDue
  /\ lastSync' = scanClk
  /\ \E found \in BOOLEAN, dumped \in BOOLEAN :
       LET t == IF dumped THEN FullSync(table, runIdx') ELSE table
           u == EvictOffline(t)
       IN /\ runIdx' = (IF found THEN kIdx ELSE runIdx)
          /\ (found /\ dumped) \/ MayFail
          /\ scanCnt' = [scanCnt EXCEPT !.mis = IF found /\ dumped THEN @ ELSE @ + 1]
          /\ SetTable(u)
          /\ dirtyW' = (dirtyW \/ u.d # devs)
  /\ UNCHANGED <<scanClk, kernVars, evq, subOn, rsv, rsvSig, devFile, lastW, lostW>>

\* The tick's write of a dirty table.
TickWrite ==
  /\ runIdx # 0 /\ dirtyW
  /\ WriteOut(devs, FALSE)
  /\ dirtyW' = FALSE
  /\ UNCHANGED <<scanClk, kernVars, evq, subOn, runIdx, devs, cand, rsv, rsvSig, lastSync>>

\* A refresh asked for by a nonce: dump with the index at hand, evict, write;
\* the next FullSync, which alone looks up the index again, is put off.
TickRefresh ==
  /\ runIdx # 0 /\ MayAct /\ asks < MaxAsks
  /\ asks' = asks + 1
  /\ LET t == EvictOffline(FullSync(table, runIdx))
     IN SetTable(t) /\ WriteOut(t.d, TRUE)
  /\ dirtyW' = FALSE
  /\ lastSync' = scanClk
  /\ UNCHANGED <<scanClk, kernVars, evq, subOn, runIdx, rsv, rsvSig>>

\* The tick's dispatch of one waiting name.
TickResolve(m) ==
  /\ runIdx # 0 /\ devs[m].name = "pending" /\ rsv[m] = "idle"
  /\ rsv' = [rsv EXCEPT ![m] = "busy"]
  /\ UNCHANGED <<scanClk, kernVars, evq, subOn, runIdx, devs, cand, rsvSig, lastSync, writerVars, scanCnt>>

\* The resolving goroutine: the table first, the signal next.
Resolve(m) ==
  /\ rsv[m] = "busy"
  /\ IF devs[m].ip # 0
     THEN /\ devs' = [devs EXCEPT ![m].name = "known", ![m].res = scanClk]
          /\ rsv' = [rsv EXCEPT ![m] = "told"]
     ELSE rsv' = [rsv EXCEPT ![m] = "idle"] /\ UNCHANGED devs
  /\ UNCHANGED <<scanClk, kernVars, evq, subOn, runIdx, cand, rsvSig, lastSync, writerVars, scanCnt>>
SignalResolved(m) ==
  /\ rsv[m] = "told"
  /\ rsv' = [rsv EXCEPT ![m] = "idle"] /\ rsvSig' = TRUE
  /\ UNCHANGED <<scanClk, kernVars, evq, subOn, runIdx, devs, cand, lastSync, writerVars, scanCnt>>

\* The manager stops the runner (hotspot down, another interface): it waits for
\* the resolvers, takes their signal and writes what is dirty.
StopRunner ==
  /\ runIdx # 0 /\ MayAct /\ \A m \in ScanMac : rsv[m] = "idle"
  /\ IF dirtyW \/ rsvSig THEN WriteOut(devs, TRUE)
     ELSE UNCHANGED <<devFile, lastW, lostW, scanCnt>>
  /\ runIdx' = 0 /\ subOn' = FALSE /\ evq' = <<>>
  /\ dirtyW' = FALSE /\ rsvSig' = FALSE
  /\ devs' = [m \in ScanMac |-> NoDev] /\ cand' = [m \in ScanMac |-> NoCands]
  /\ lastSync' = -Sync
  /\ UNCHANGED <<scanClk, kernVars, rsv>>

\* A new runner has an empty table and syncs at its first tick.
StartRunner ==
  /\ runIdx = 0
  /\ runIdx' = kIdx /\ subOn' = TRUE
  /\ lastW' = <<>> /\ lostW' = FALSE
  /\ scanCnt' = [scanCnt EXCEPT !.kern = @ + 1]
  /\ UNCHANGED <<scanClk, kernVars, evq, devs, cand, rsv, rsvSig, dirtyW, lastSync, devFile>>

\* Time passes when the loop has nothing at hand.
Passes ==
  /\ scanClk < MaxScanClk
  /\ runIdx # 0 /\ ~SyncDue /\ ~dirtyW /\ ~rsvSig /\ evq = <<>>
  /\ \A m \in ScanMac : rsv[m] = "idle"
  /\ scanClk' = scanClk + 1
  /\ UNCHANGED <<kernVars, evq, subOn, runIdx, devs, cand, rsv, rsvSig, lastSync, writerVars, scanCnt>>

-----------------------------------------------------------------------------
\* A device the kernel can reach and the table does not list.
Missing(m) == (\E i \in ScanIp : nb[i].mac = m) /\ devs[m].ip = 0

ScanInit ==
  /\ scanClk = 0 /\ kIdx = 1
  /\ \E i \in ScanIp, m \in ScanMac, st \in {"none", "stale"} :
       nb = [j \in ScanIp |-> IF j = i /\ st = "stale" THEN [NoEntry EXCEPT !.st = st, !.mac = m]
                          ELSE NoEntry]
  /\ evq = <<>> /\ subOn = TRUE /\ runIdx = 1
  /\ devs = [m \in ScanMac |-> NoDev] /\ cand = [m \in ScanMac |-> NoCands]
  /\ rsv = [m \in ScanMac |-> "idle"] /\ rsvSig = FALSE
  /\ dirtyW = FALSE /\ lastSync = -Sync
  /\ devFile = Rendered([m \in ScanMac |-> NoDev]) /\ lastW = <<>> /\ lostW = FALSE
  /\ asks = 0 /\ scanCnt = [kern |-> 0, mis |-> 0]
  /\ gap = [m \in ScanMac |-> IF Missing(m) THEN 0 ELSE Never]

ScanStep ==
  \/ \E i \in ScanIp, m \in ScanMac, st \in {"reach", "stale", "probe", "failed"} : Turn(i, m, st)
  \/ \E i \in ScanIp : Collect(i)
  \/ RebuildIface
  \/ TakeEvent \/ TakeResolved
  \/ TickSync \/ TickWrite
  \/ \E m \in ScanMac : TickResolve(m) \/ Resolve(m) \/ SignalResolved(m)
  \/ StopRunner \/ StartRunner \/ Passes

\* gap is a history variable: it takes no part in any guard.
ScanNext ==
  /\ (ScanStep /\ UNCHANGED asks) \/ TickRefresh
  /\ gap' = [m \in ScanMac |-> IF ~Missing(m)' \/ runIdx' = 0 THEN Never
                           ELSE IF Missing(m) /\ runIdx # 0 THEN gap[m] ELSE scanClk']
ScanSpec == ScanInit /\ [][ScanNext]_scanVars

-----------------------------------------------------------------------------
ScanTypeOK ==
  /\ scanClk \in 0..MaxScanClk /\ kIdx \in 1..MaxKern + 1 /\ runIdx \in 0..kIdx
  /\ \A i \in ScanIp : nb[i].st \in Usable \union {"none", "failed"} /\ nb[i].mac \in ScanMac \union {"-"}
  /\ Len(evq) <= MaxQueue
  /\ \A m \in ScanMac : /\ devs[m].ip \in ScanIp \union {0} /\ devs[m].seen \in 0..scanClk
                        /\ \A i \in ScanIp : cand[m][i].st \in Usable \union {"none"}
  /\ rsv \in [ScanMac -> {"idle", "busy", "told"}]
  /\ asks \in 0..MaxAsks
  /\ {rsvSig, dirtyW, lostW, subOn} \subseteq BOOLEAN

\* A device with a usable entry is out of the table for at most one FullSync
\* period (and one more for each failed dump or look at the index and each refresh,
\* which puts that look off), although events are lost, the subscription has ended,
\* or the interface got another index
\* (devscan.go FullSync, EvictOffline; m4_owner.go run).
MissBound == \A m \in ScanMac : scanClk - gap[m] <= Sync * (1 + scanCnt.mis + asks)

\* An address whose entry has been FAILED for longer than a FullSync period is
\* reported for no device, whether or not the FAILED event arrived and although
\* FAILED entries name no device (devscan.go failIPLocked).
FailedIpGone ==
  runIdx = kIdx => \A i \in ScanIp, m \in ScanMac :
    nb[i].st = "failed" /\ scanClk - nb[i].chg > Sync * (1 + scanCnt.mis)
      => devs[m].ip # i

\* When nothing is marked dirty, no resolver has a result the loop has not
\* heard of, and the last write of this runner succeeded, devices.json is the
\* table (m4_owner.go run, writeOut).
CleanMeansWritten ==
  /\ runIdx # 0 /\ ~dirtyW /\ ~rsvSig /\ ~lostW /\ lastW # <<>>
  /\ \A m \in ScanMac : rsv[m] # "told"
  => devFile = Rendered(devs)

\* NOT kept: a device whose entries have not changed for longer than the
\* offline threshold and a sync is not in the table (devscan.go:14-18, 323-327).
OfflineStays ==
  \A m \in ScanMac :
    /\ devs[m].ip # 0 /\ evq = <<>> /\ scanCnt.mis = 0
    /\ \A i \in ScanIp : nb[i].mac = m => scanClk - nb[i].chg > Offline + Sync
    => \E i \in ScanIp : nb[i].st # "none" /\ nb[i].mac # m
=============================================================================
