# HNC: formal models of its daemons and scripts

HNC (Hotspot Network Control) is a root module for Android phones that share
their connection: it limits, delays, marks and blocks the devices of the
hotspot with `tc`, `iptables` and BPF, classifies their traffic, keeps books
about it and serves a WebUI. It consists of five long-lived processes and a few
dozen shell scripts that work on the same kernel tables, the same files in
`run/` and `data/`, and each other. There is no central transaction:
correctness rests on directory locks, pid files, marker files, modification
times, throttles, fuses, renames and periodic rounds that put things right
again. That machinery is what these modules model, and what unit tests reach
least.

Source paths below are relative to the repository root (`bin/...`,
`src/launcher/...`, `src/dpid/...`, `daemon/...`).

## 1. Inventory

### Components, their state and operations

`PROJECT.json` names the source files of each component and says what of it is
left out.

| Component | State it keeps | Operations | Status here |
|---|---|---|---|
| `bin/hnc_lock.sh` | directories `run/lock/mac/<mac>` and `run/lock/gate`, each with a file `pid`; `HNC_GATE_HELD` in the environment | `mac_lock`, `mac_unlock`, `gate_lock`, `gate_unlock`, `_try_reclaim_stale` | modelled: `HncLock` |
| `hnc_launcher.c` | `g_shutdown`, `g_child_pid`, back-off, two crash trackers, `dpid.pid`, the crash flag | start, fork/exec, wait, restart, cool-down, stop on a signal | modelled: `Launcher` |
| dpid supervision (`m5.go`), `dpi_rebind.sh` | two `spawnGate`s, `run/dpid_launcher.choice`, the launcher's logs | round, start launcher, start dpid, rescue; manual rebind | modelled: `DpidGuard`, `DpidGuardProofs` |
| `restoreThrottle` (`main.go` of the watchdog) | window start, count, doublings, passive mode, time of the last exit from it | `onHealthFail`, `onRestoreDone`, `currentWindowDur` | modelled: `Throttle`, `RestoreThrottle` |
| watchdog state machine and the actions of `bin/watchdog.sh` | `run/hnc_state`, `run/tc_restore_pending`, `run/cleanup_rules.marker`, the repair fuse, `capabilities.json` | `handlePending`, `handleActive`, `full_init`, `migrate`, `full_restore`, health check, kill on time-out | partly: `Watchdog` |
| `tc_manager.sh`, `iptables_manager.sh` | qdiscs, classes, filters, chains; `tc_action_lock` with a lease | `init`, `cleanup`, `restore`, per-device rules | partly: `Watchdog` (what init, cleanup and restore leave behind), `V6Sync` |
| `cleanup.sh` | (removes) chains, qdiscs, state files; writes the marker | `rules`, `all`, `restart` | partly: `rules`, in `Watchdog` |
| boot scripts | clear `run/` at boot, start the daemons, choose how dpid is run | boot sequence | partly: initial states and `Reboot` |
| device discovery (`m4_owner.go`, `devscan`, `neigh`) | device table with candidates and misses, `devices.json` | events, full scans, eviction, refresh, debounced writes | modelled: `DeviceScan` |
| online minutes | minutes per day in memory, pending lines, the file | sample, split at midnight, flush | modelled: `OnlineMinutes` |
| power scheduling of httpd and watchdog | last activity, waiters, the activity file, link signature | wait, wake, probe, nudge | modelled: `PowerPace` |
| application limits | `app_limits.json`, `.flat`, `app_limit.dirty`, the address map, tc rules | save, mark dirty, apply | modelled: `AppLimits` |
| application priorities, offload scheduling | command lists derived in one pass | apply | not modelled |
| IPv6 address synchronisation | known sets, queue, snapshots, filters | neighbour events, runs of `v6_sync.sh` | modelled: `V6Sync` |
| per-device rules (`apply_device_rule.sh`, collectors) | `mark_id` of each device, its class and filters | apply, clear, collect | partly: their locking, in `HncLock` |
| JSON store (`hnc_json`, `json_set*.sh`) | `rules.json`, its lock and backup | set, batch, recover | partly: single writes, in `MacMerge` |
| httpd: token store | token map, `remote_tokens.json`, the revocation bridge | issue, revoke, log out, look up, reload, prune, save | modelled: `RemoteAccess` |
| httpd: pairing, PIN guard, rate limiter | codes, guesses, lock-outs, entries per address | generate, claim, verify, lock, forget | modelled: `Pairing` |
| httpd: remote listener | server, generation | start, stop, end by itself | modelled: `RemoteAccess` |
| httpd: action dispatch, simulated devices | write windows, `actionMu`, simulation store and file | limit, queue, intercept, run a script, kill it | partly: `ActionGate` |
| httpd: limit policy | base and overlay per device, counters, state file | rounds, user edits, quota periods | modelled: `LimitCtl` |
| httpd: application time budgets | seconds per application and day, blocks, their expansion | count, warn, block, synchronise | modelled: `AppTime` |
| httpd: MAC merges and suggestions | profiles, suggestions, alias table, every store of a device | propose, dismiss, merge, undo | modelled: `MacSuggest`, `MacMerge` |
| httpd: rule packs | `_imported.json`, `fp_imported.json`, ownership | import, remove | modelled: `RulePack` |
| httpd: DNS takeover, forwarder | DNAT rules, back-off, health, cache, limiter, connections | round, fail open; query, close | modelled: `DnsTakeover`, `DnsForward` |
| httpd: WebUI access list | the file, its cache, the chain `HNC_WEBUI` | judge a request, save, rebuild the chain | modelled: `WebAccess` |
| httpd: clock guard | high-water mark, a guard per writer | check, heal, persist | modelled: `ClockGuard` |
| httpd: usage books | counters, day files, readings, alerts | read, book, save | partly: `PhoneUsage`, `AppUsage` |
| httpd: fingerprints, starts, IP owners | ring and cursor, counts, segments, owner ranges | learn, attribute, recognise, look up | partly: `FpLearn`, `SelfCapture` |
| dpid: alerts | `known_devices.json`, `alerts.jsonl` | scan, alert, mark as known | modelled: `AlertStore` |
| dpid: start, capture, rebind | crash flag, sockets, interface, sample files | start, capture loop, rebinder, self-capture | modelled: `DpidCapture`, `SelfCapture` |
| dpid: reassembly of ClientHello | fragments per connection | add, complete, evict, expire | modelled: `HelloReasm`, abstractly `HelloBytes` |
| dpid: client and flow tables | clients, MAC index, flows | upsert, merge, evict, tick | partly: `ClientTable` |
| dpid: rules, discovery, automatic rules | rule index and cache, graph of names, promoted rules, exclusions | load, look up, group, promote, demote | partly: `AppRules`, `Discover`, `Flywheel` |
| dpid: device identification, parsers | none of their own | packet bytes to facts | not modelled |
| httpd: self-check, calibration, foreground model, flow evaluation | floating-point statistics | diagnosis, classification | not modelled |
| httpd: roll-back slots, live and export APIs | read what others write | one script call; reads | not modelled |
| statistics and maintenance scripts | logs and statistics files | sequential text processing | not modelled |
| `hotspotd`, `clsact_ctl`, `tc_netlink` | BPF maps, netlink sockets | kernel calls | not modelled |
| WebUI, rule data, build and diagnosis | none of their own | presentation | not modelled |

### How they interact

* `hnc_httpd` and the watchdog **run scripts**; the scripts take the locks of
  `hnc_lock.sh`. A script that holds the gate may fork per-device scripts and
  passes `HNC_GATE_HELD` so that they are not blocked by it.
* The watchdog **kills** a script's process group after `actionTimeout`, httpd
  kills the shell only; both go on from what they find in the next round.
* Watchdog, httpd, dpid and the scripts share **files**: state and marker files
  (`hnc_state`, `tc_restore_pending`, `app_limit.dirty`, the revocation bridge),
  settings (`rules.json`, `app_limits.json`, `webui_access.json`), tables
  (`devices.json`, `dpi_flows.json`, the address map) and ledgers
  (`known_devices.json`). Most are written to a temporary file and renamed, and
  read again when `stat` says that they changed.
* The watchdog starts the **launcher**, the launcher forks **dpid**; when the
  launcher's log says that it aborts, the watchdog starts dpid itself.
  `dpi_rebind.sh` kills dpid and starts a launcher next to all this.
* Inside httpd, **goroutines** share maps under mutexes that are released
  between a `stat`, a read and the use of what was read.
* The ROM (netd, vendor scripts) and the user (hotspot on, off, another
  interface, the clock) change kernel tables and time behind HNC's back.

### What is hard, and what has to be true

* **Interleaving of shell commands.** `mkdir`, `echo $$ > pid`, `cat pid`,
  `kill -0`, `rm`, `rmdir` are separate steps. *One writer per MAC; the gate
  excludes everybody but the holder's own children; everybody ends.*
* **Signals against fork and wait.** *A stop leaves no orphan; a crash storm is
  bounded; dpid always comes back, whoever else starts it.*
* **Throttles on throttles.** *Restores are bounded, and still nothing stays
  silent for good.*
* **Half-done repairs and edits.** A repair flushes first and fills last; an
  edit writes two files; a merge moves a dozen settings. *After the last fault
  the system settles; ok means done; a failed merge leaves nothing behind.*
* **Stale reads.** Caches keyed by modification time, results of a `stat` used
  after the mutex was released. *A revocation is not undone; a request is judged
  by the latest list; rules are fresh.*
* **Restarts.** Counters in memory, readings in one file and sums in another.
  *Nothing is booked twice or lost; an alert goes out once.*
* **Lost and repeated events.** Netlink overruns, conntrack events beside table
  reads, rings that wrap, retransmitted segments. *Tables agree with the kernel
  again; a connection is counted once; a hello is handed over exactly when it is
  complete.*

`PROJECT.json` lists the hazards line by line with the properties that cover
each, or the reason why none does.

## 2. Modules and how they correspond to the code

Time stamps are kept as ages where the code compares them with the present, up
to the largest age it tells apart. Definitions whose comment begins with
"Mutant:" are plausible mistakes, kept to show that each property notices one;
they are used by nothing else.

### HncLock (`bin/hnc_lock.sh`)

One process is one script run; one step is one command that touches the file
system or probes a process. `dir`, `pidf`, `aged` are the lock directories,
their `pid` files and whether `stat` finds them older than 5 seconds; `pc`,
`round`, `chk`, `seen`, `todo` are the position and the locals of `mac_lock`,
`gate_lock` and `_try_reclaim_stale`; `par` and `env` are the forking gate
holder and `HNC_GATE_HELD`.

| Action | Code |
|---|---|
| `MacGate1`, `MacMkdir`, `MacPid`, `MacGate2` | the loop of `mac_lock`: look at the gate, `mkdir`, write the pid, look again and yield or enter |
| `GateMkdir`, `GatePid`, `GateScan`, `GateSweep` | `gate_lock`: take the gate, scan the per-MAC directories, sweep dead ones, time out |
| `ReadHolder`, `Judge`, `RmPid`, `Rmdir` | `_try_reclaim_stale`, and the pair `rm -f pid; rmdir` that ends every unlock, yield, give-up and reclaim |
| `Fork` | a gate holder runs a per-MAC script, with `HNC_GATE_HELD` (`tc_manager.sh restore`, `cleanup_stale_rules.sh`) or without (`cleanup_offline_devices.sh`) |
| `Crash`, `Age` | `kill -9` by the watchdog or the OOM killer; more than 5 seconds pass |

The code's reclaim is unsound in a narrow window (finding 1). `suspect[l]` is a
history variable that turns true exactly when something happened to lock `l`
that the reclaim can mistake: its owner died, a process died between another
one's `cat pid` and `kill -0`, or the directory grew old without a pid. The
safety properties hold for locks that are not suspect; without that excuse
`SingleWriterAlways` is refuted.

### Launcher (`src/launcher/hnc_launcher.c`)

A step is a stretch of the main thread between two points at which a signal
handler or the child can make a difference; `OnTerm` may run between any two,
and interrupts a blocked `waitpid`. `child` distinguishes a child that has not
yet reached `execv`, which still has the launcher's handler. `crashes` and
`forkfails` are the two trackers as sequences of ages (`crash_tracker_record`
compresses and appends), `spawns` is history. Left out: logging, `--help`, the
flock of `check_singleton`.

### DpidGuard (`m5.go`, `dpi_rebind.sh`)

`gate[n]` is a `spawnGate` (last start, failures, already judged), `abort[f]`
the age of a log with an abort line at its end, `choice` and `bin` what
`service.sh` chose and what the launcher's binary is like on this device. A
round first looks (`Round`) and later acts (`Launch`, `Direct`, `Rescue`), so
that a rebind (`RebindKill`, `RebindStart`), a death or the launcher's own fork
may come between. Matching a pid with a command line is "the process is there".
`Rescue` may fail to write the choice (`writeLauncherChoice` returns an error that
is only logged); the history `unsaved` remembers it. `starts[n]` are the ages of
the starts in the window, the oldest first; `Tick` drops those that leave it.

### Throttle, RestoreThrottle (`restoreThrottle` in `main.go`)

`Throttle` holds the data type and its operations as operators (`OnHealthFail`,
`OnRestoreDone`, `CurrentWindowDur`); `RestoreThrottle` puts the rounds around
it (`Minute`, `Untroubled`, `FoundLost`, `Done`); `Watchdog` has the same variables
`thr` and `gap` and uses the same operators. The history `recent[a]` counts the
restores of the last `a` minutes.

### Watchdog (`main.go`, `native.go`, `budget.go`, `watchdog.sh`, `cleanup.sh`)

`state`, `pend`, `marker`, `fuse`, `core` are files; `tc`, `chains`, `ctrl`, `block` is
the kernel: which interfaces carry HNC's root qdisc, whether the mangle chains exist,
whether the filter chain `HNC_CTRL` does (no health check looks at it), whether every
blacklisted device is blocked. `full_init`, `migrate` and
`full_restore` are sequences of steps (`FullInitChains`, `FullInitTc`, ...,
`FullRestoreRules`); each step of a script that takes a lock may be refused, do
its work or fail, with the exit code the code would give. `DelayedRestore` is
the second restore 15 seconds after `full_init`, which runs in the background.
Faults are bounded by the constant `Faults`, and `Kinds` says which may happen:
the ROM flushes rules, those that the health check looks for or the others, the hotspot moves or goes off, a lock is busy, a step
fails, the action is killed, `cleanup.sh rules` runs, the watchdog is
restarted, the phone reboots, the capability probe changes its mind, a health
check cannot tell. Not in it: `ensure_tc_uplink_healthy` and its cool-down, the
supervision of httpd and hotspotd, doze, the side scripts (whitelist, QUIC,
connection blocks, encrypted DNS), statistics and log rotation.

### The three suites

The other components share no state with each other, so three suites check them
side by side: a variable `part` names the component a behaviour is about, its
`Init` and `Next` are the component's own, and the variables of the others are 0
throughout. One state graph then answers for a dozen components, each with its
own constants, and a property of the suite is a conjunction `part = "x" => ...`
of the components' properties.

**MCSettles**: components that must come to rest, or to life again.

| Module | Code | What a step is, what is abstracted | Properties |
|---|---|---|---|
| `RemoteAccess` | `tokens.go`, bridge in `server.go`, `middleware.go` | a request stats the bridge, consumes it, compares modification times, reloads, looks up: separate steps of separate goroutines; httpd may die between any two | `RevokedStays`, `IssuedKept`, `QueuedApplied` |
| `RemoteAccess` | `remote_listener.go` | one loop; a server that ends reports late, when the loop may have moved on; `gen` is its generation | `NoStrayServer`, `PortFollows` |
| `DnsTakeover` | `dns_takeover.go`, `dns_takeover.sh` | `tickLocked` in its stages: configuration, listen, upstream, probe, rules; hotspot, resolvers and firewall change beside it | `RulesServed`, `DarkEnds`, `TakesOver` |
| `ActionGate` | `action.go`, `writelimit.go`, `sim.go` | a request passes the window, waits for `actionMu`, is offered to the simulation, runs a script with a deadline; children of a killed shell go on as strays | `SimUntouched`, `WriteBound`, `SimSaved`, `Answered` |
| `LimitCtl` | `limit_policy.go` | a round for one device: compare, adopt, overlay, apply through the user's own actions, save | `BaseIsManual`, `NoOvercharge` and convergence |
| `AppTime` | `app_time.go`, `conn_blocks.go` | one device, one application: rounds count, warn and block; the watchdog runs the same script | `UseCounted`, `AlertOnce` and convergence |
| `AppLimits` | `action_app_limit.go`, `ip_app_map.go`, `apply_app_limits.sh` | one device, one address; the script with its early exits | `MarkerCoversEdit`, `OkMeansBoth` and convergence |
| `V6Sync` | `neigh_v6.go`, `v6_sync.sh` | events may be lost; runs exclude each other; each `tc filter add` is a step that may be refused, at which the script may be killed and before which the tree may be rebuilt; the grace period may be over or not | `KnownIsCovered` and convergence |
| `DpidCapture` | `main.go`, `rawsocket.go` of dpid | two machines: the crash-loop guard at the start (the look at the flag and the line are two steps; dpid may die between them, and the line may fail to be written), the capture loop with its rebinder | `CrashBound`, `HeldOpen` and convergence |
| `SelfCapture` | `self_capture.go`, `label_samples.go` | a reconciling round is one step; a sample is the time it was taken | `DayCapKept` and convergence |
| `HelloReasm` | `tls_reasm.go`, `quic.go` | two machines: TCP segments with sequence numbers that wrap (`SeqSpace`), QUIC CRYPTO fragments; decryption and the parse of a hello are external | `InOrderHeld`, `CoveredExact`; both implement `HelloBytes` |

`HelloBytes` says what a reassembler promises whatever it is built from: it
collects bytes, may forget a connection at any time, and hands a hello over in
the very step that completes it. `TlsKeepsPromise` and `QuicKeepsPromise` are
the refinements, with the bytes held as the mapping.

**MCBooks**: who may come in, what the user said, and what is booked.

| Module | Code | What a step is, what is abstracted | Properties |
|---|---|---|---|
| `Pairing` | `pair.go`, `pair_guard.go`, `ratelimit.go`, `pair_gen.sh` | two machines: codes with claims by rename and concurrent answers, their counters wiped when there are too many of them (`MaxSids`) or when httpd restarts; the limiter with lock-outs that double, its entries evicted, collected and reset | `TokensPerCodes`, `GuessBound`, `LockHolds`, `SlidingBound`, `Doubles` |
| `WebAccess` | `webui_access.go`, `webui_guard.sh` | stat, read and installation of the cache entry are three steps, the read may fail; two guests; the chain is built by two runners without a lock, a rule of which may fail and be skipped | `JudgedByLatest`, `NoSelfLockout`, `FirewallExact` |
| `DnsForward` | `dns_forwarder.go` | two machines: a goroutine per query whose time stamp is older than the mutex; TCP connections that `Close` must end | `StaleBound`, `RateBound`, `BlockedRefused`, `CloseEndsAll` |
| `MacMerge` | `mac_merge_action.go`, `mac_alias.go` | every step of the merge and its undo, each of which may fail, an action also half-way; a setting is a small number, one file stands for four of the same shape | `RolledBack`, `SettingsKept`, `CleanMerge`, `FlatAliases` |
| `MacSuggest` | `mac_merge.go` | a round observes first and locks later; a score is an input | `DismissedStays`, `MergedNotProposed`, `OneAlertPerMac` |
| `RulePack` | `rulepack.go` | the domains above a host are given by the constant `Ups`; an entry with one suffix and one fingerprint; two files, one after the other | `LocalLabelsKept`, `CoversOnlyOwn`, `OkMeansStored` |
| `AlertStore` | `alert.go`, `anomaly.go` | a scan reads, walks, reads again, merges and writes; two processes, one ledger; a read that fails is an empty ledger, a write may fail | `CooldownKept`, `LedgerMeansTold`, `KnownStaysApart` |
| `ClockGuard` | `clock_guard.go`, `clockhwm.go` | wall clock set at will, boot clock, sleep, restarts; the write of the mark may fail, which nobody notices | `BooksForward`, `NoLump`, `HealsInTime` |
| `PhoneUsage` | `phone_usage.go` | one interface, one counter; book and readings are two files | `NothingInvented`, `NothingLost`, `AlertedOnce` |
| `OnlineMinutes` | `online_minutes.go` | time in half minutes, the step at which it rounds | `MinutesKept`, `OldDaysWritten`, `SplitExact` |

**MCTraffic**: what is held and learnt of the traffic, of the devices and of their
applications.

| Module | Code | What a step is, what is abstracted | Properties |
|---|---|---|---|
| `ClientTable` | `state.go`, `flow.go` | operations under `Writer.mu`; any flow may be the least active | `IndexExact`, `FlowCount` |
| `AppRules` | `rule.go`, `classify.go` | two machines: the index with inheritance; the cache that decides when to read again, with lookups that list, stat and read the files one by one while others do the same and files come and go | `SuffixesArrive`, `LookupIsScan`, `FreshRules` |
| `Flywheel` | `self_attrib.go`, `candidate.go`, `auto_expand.go`, `flywheel_exclude.go` and the actions of httpd | one name stands for all names of an apex; the write of the rules, the save of the records and the process may fail each on its own | `PromotedSingle`, `ConduitOut`, `DemotedStaysOut`, `RulesOnDisk` |
| `Discover` | `discover.go`, `cluster.go`, `shared_infra.go` | weights halve every tick; a tick is one half-life; a family is marked for saving at every `FamStep`th sample only | `EdgesJoinNodes`, `FileCurrent`, `SmallKept`, `GroupsKept` |
| `FpLearn` | `flowlog.go`, `fp_learn.go` | ring, file, cursor; connections of two devices, so that both ways to have seen enough occur (many samples, or fewer from two devices); behaviours within one half-life | `IndexOwn`, `FileLearned`, `CountedOnce`, `AttributionEarned`, `TotalIsSum` |
| `FpLearn` (starts) | `startup_fp.go` | two machines: learner and recogniser | `StartsTrue`, `StartsComplete`, `LeadIsReal`, `OneEventPerStart` |
| `FpLearn` (owners) | `ip_owner.go` | one address family | `OwnerExact`, `OwnerCurrent` |
| `DeviceScan` | `m4_owner.go`, `devscan.go`, `neigh.go` | events, dumps, candidates, misses; the writer is faster than one unit | `MissBound`, `FailedIpGone`, `CleanMeansWritten` |
| `PowerPace` | `power_sched.go`, `power_activity.go`, `activity.go`, `power.go` | two machines, one per daemon; the phone may be in doze or not at every round | `QuickAfterChange`, `UiSeen`, `FoundInTime`, `OldPaceWithoutHttpd`, `BoundaryOnTime` |
| `AppUsage` | `app_usage.go`, `ct_events.go` | table readings beside DESTROY events; a five-tuple may be used again; bytes of a new connection without a name are held back for a tick, and lost at a jump of the clock | `NoDoubleCount`, `NothingMissing` |

## 3. Runs

| Run | Question | Bounds, and why they are enough |
|---|---|---|
| `lock_safety` | `SingleWriter`, `GateDrains`, `NoOrphan`, `NeverSelfBlocked` | Three scripts, one device and the gate: two contenders and a third party to interfere; one may be killed anywhere, both locks may grow old. Two rounds per loop, each of which may look for a dead holder: every branch and the time-out are reached. The theorems cover the rest. |
| `lock_live` | `ScriptEnds`, `StaleMacReclaimed` | The same three scripts, one of which may be killed. |
| `lock_writer` | refutes `SingleWriterAlways` (finding 1) | Nobody is killed; a holder that ends normally at the wrong moment is enough. |
| `launcher_supervise` | `StormBound`, `NoOrphan`, `FlagMeansNoDpid`, `Respawns`, `StopsOutsideWindow` | The code's own constants; a dpid that lives 0, 7, 25 or 61 seconds: at once, inside, near the edge of and outside the 60 s window. |
| `guard` | `NoStorm`, `StillbornCounts`, `Recovers` | Every choice of `service.sh`, every kind of launcher binary, a choice that cannot be written, two deaths and a rebind. Times are scaled down and keep their order; the gaps between rounds are both shorter and longer than `QuickDeath` (a normal round; an idle probe or doze). |
| `throttle_budget` | `RestoreBound`, `SilenceBounded`, `TriedAgain` | The code's own constants in minutes, rounds up to 3 minutes (doze) apart. Fewer than ten restores fall into any five minutes, and less than thirteen minutes pass without one. |
| `throttle_escalates` | refutes `WindowEscalates` (finding 3) | The same constants, a fault that lasts. |
| `watchdog_converge` | `Converges`, `BlacklistReturns` | Two interfaces, any three faults of fourteen kinds, the flush of the blacklist's chain alone among them. Times are scaled down and keep their order (window < doubled window = cap, fuse, suppression longer than a window). One fault makes a repair necessary, a second may hit it half-way, a third what is done about that. |
| `settles` | `AccessKept`, `PolicyKept`, `CaptureKept` in every state; `AccessSettles`, `PolicySettles`, `CaptureSettles` at last; the refinements of `HelloBytes` | 0.4 million states. One fault (death, failing write or script, lost event) and two or three changes of the outside world per component; limits of one or two so that they are reached. |
| `books` | `GatesKept`, `WordKept`, `BooksKept`, and the action property `LocksGrow` | 5.3 million states. Two concurrent requests or verifiers, two guests, one or two faults (two in a merge: an action may fail and then an undo), a table of one counter so that a second code wipes it, one restart, counters and windows small enough to be passed within the horizon. |
| `traffic` | `TablesKept`, `LearningKept`, and the action property `GroupsKept` | 2.5 million states. Tables one entry smaller than what is put into them, so that eviction happens; two loaders with three edits of two rule files (three files and five edits, with the inductive invariant, went 15 million states without an error before it was proved), two faults of the learned rules, so that a restart can follow a failed write, two uids, three registrable domains, two devices, families saved at every second of up to three samples. The ring of the flow log holds one entry here; with two entries and three hellos the same properties hold (1.5 million states for this component alone). |
| `merge_carries` | refutes `MergesUnlessBroken` (finding 2) | One merge, no fault. |

`StormBound` rests on two things together: the doubling pauses keep the starts
within `CRASH_LIMIT` as long as they are not set back, and the storm path, which
sets them back, sleeps longer than the window before it does.

The launcher, the scripts and the components of the suites may come to an end
of their bounded inputs, so their runs do not check for deadlock; the others do.

### Fairness

* `HncLock`: weak fairness of every live script's own steps (the kernel
  schedules it), and of the call of a forked script. No script has to be
  started and none has to be killed.
* `Launcher`: weak fairness of the main thread, of `execv` after `fork`, and of
  dpid's way out after SIGTERM (which may be to hang, `MayHang`).
* `DpidGuard`: time passes, the main loop goes round (its sleep is a timer), a
  live launcher gets round to forking.
* `RestoreThrottle`, `Watchdog`: time passes, the loop goes round, an action
  ends (`runAction` kills it otherwise), background jobs go on.
* `MCSettles`: weak fairness, for each component, of the goroutines, tickers and
  script steps that the code starts by itself: steps of a request under way, the
  bridge poll and the token flush; the listener's loop and the report of an
  ended server; the takeover's ticker and the watchdog's restart of a dead
  httpd; the serving of queued actions; the rounds of the limit controller and
  of application time; the apply loop and its script; runs of `v6_sync.sh`; the
  start, the capture loop and the rebinder of dpid; the reconciler.

Nowhere is strong fairness assumed, nor that a lock is ever got, a fork
succeeds, a dpid lives, a user acts or a fault happens.

## 4. Proofs

Theorems hold for every value of the constants that satisfies the assumptions
named in the modules (`LockAssumption`, `LauncherAssumption`,
`CooldownAssumption`, `GuardAssumption`, `StormAssumption`, `ThrottleAssumption`,
`WatchdogAssumption`, `TokenConstants`,
`RemoteConstants`, `DnsConstants`, `ActionAssumption`, `LimitConstants`,
`AppConstants`, `LimConstants`, `V6Constants`, `AlertAssumption`, `PackAssumption`,
`SuggestAssumption`, `MergeAssumption`, `PairConstants`, `RateConstants`,
`AccConstants`, `ForwardAssumption`, `ClockConstants`, `PhoneAssumption`, `OnlineConstants`, `StartAssumption`,
`CaptureAssumption`, `SelfAssumption`, `TlsAssumption`, `QuicAssumption`, `TableAssumption`, `OwnerAssumption`,
`WaitAssumption`, `LinkAssumption`): numbers are natural, the gate is
not a device, a cap is at least two windows, the cool-down is longer than the
crash window, "none" is not the name of a request, an entry of the limiter
outlives its window, a hello fits into half the sequence space, the domains above a
host form a chain, an alert's cool-down is no longer than a day, the limiter grants at least one
attempt in a window and its longest lock is no shorter than the first, the clock can be
set past `MinUnix`, a day has a length, the phone's warning level is below its plan, no
interface is called none, a MAC is no address, a table holds at least one client and one
flow, the probe of the WebUI comes more often than its window (15 s, 60 s), each quick
interval is shorter than its slow one (10 s, 120 s, 180 s in doze), and the activity file is believed for
at least as long as it takes to be written again. Nothing else is assumed about sizes.

* **HncLockProofs**: `TypeCorrect`, `Exclusion` (`SingleWriter`),
  `GateExclusion` (`GateDrains`), `NoLeak` (`NoOrphan`) and `HandOff`
  (`NeverSelfBlocked`), for any number of scripts and devices and any time-outs.
  None of them is inductive. The invariant is
  `TypeOK /\ Control /\ LockInv /\ GateDrains /\ ForkInv`: `Control` ties the
  position of a process to its locals; `LockInv` says that a lock that is not
  suspect is *sound* (its directory is there exactly while one live process owns
  it, the pid in it is the owner's or missing, and no check under way can judge
  it stale); `ForkInv` says that the parent of a forked script that lives is
  still in its gate section. `GateDrains` is inductive beside these: a process
  past its second look at the gate owns its directory, and the gate holder passed
  a scan that found no directory.
* **DpidGuardProofs**: `StormBounded` (`NoStorm`), `StillbornCounted`
  (`StillbornCounts`) and `TypeCorrect`, for every rhythm of the rounds and any
  number of deaths and rebinds. The gate alone does not bound the starts: after a
  start that outlived `m5QuickDeath` the next pause is short again. `Rhythm` relates
  the history to the gate: going back from the last start, the starts take half of
  `FirstPause + QuickDeath` each on the average, and at most one first failure is
  ahead of its share, by `QuickDeath - FirstPause`. `Watched` says that who is about to be
  started has been judged, and that dpid's gate is untouched as long as the launcher
  is looked after. `StormAssumption` is the arithmetic that makes `StartLimit` the
  right number; with the times of `m5.go` (30 s, 2 min, 8 min, four doublings) and ten
  minutes it gives seven. `ShiftedGrows` proves of the recursive function behind the shift what the
  pauses need. The invariant of the second (`Stillborn`): a start that died at once and is
  not judged was made since the last look. It holds for every rhythm of the rounds: a
  start after which the guard slept `m5QuickDeath` or longer before it looked again
  (`slept`; `intervalIdleProbe` and `intervalDoze`, 120 and 180 s) is excepted in the
  property itself, since such a death is not counted (`QuickDeathCounts` in section 5).
  Both except a rescue whose choice could not be written: the proof attempt found that the
  bound fails then (section 5).
  The first half of the module is about `Launcher`: `NoOrphanLeft` (`NoOrphan`), `FlagSound`
  (`FlagMeansNoDpid`), `StartsBounded` (`StormBound`) and `LauncherTyped`
  (`LauncherTypeOK`). For the
  first two the invariant gives, for each position of the main thread, the states
  the child, `g_child_pid`, the pid file and the flag can be in. `StormBound`
  needs a relation between the history of starts and the crash tracker that the
  code never computes: going back from the last, the starts in the window and the
  recorded crashes are paired (`Tracker`), each crash at least as old as the start
  that followed it, so as many starts as `CrashLimit` in one window would have been
  noticed by the tracker before the last of them. Compressing and ageing the
  two sequences keeps the pairing.
* **WatchdogProofs**: `DoubledOnce`, `NeverSilentLong`
  (`SilenceBounded`), `RestoresBounded` (`RestoreBound`) and `TypeCorrect`
  (`RoundsTypeOK`) of `RestoreThrottle`, for every window, cap, number of restores
  and longest sleep. The invariant (`Ages`,
  `Quiet`) says that the current window began no later than the last return from
  passive mode; a doubled window is therefore over only when that return is two
  windows old, too old to count as a repeat, and the number of doublings goes
  back to zero: the documented series 5, 10, 20, 40, 60 cannot happen, which is finding 3. For the bound, `Budget` splits the restores of any stretch at the
  start of the current window: those after it are the throttle's count, those
  before it fit into the window before.
  `WatchdogTyped` (`TypeOK`) and `WatchdogDoublesOnce` are about
  `Watchdog`, where an action may be killed half-way, the process restarted
  and the phone rebooted. That the throttle's count stays within its limit and the
  fuse below the number that opens it is not a matter of one step: `WatchInv` says
  besides that an action runs on an interface (`Given`) and that, outside
  `full_restore`, a window that is not passive has room for one more restore
  (`Room`). `handleActive` asks for a restore only there, and one that was killed is
  reported to the throttle all the same.
* **SettlesProofs**: `DoorsKept` (`AccessKept` of the suite), `PoliciesKept`
  (`PolicyKept`) and, for the components by themselves, `TokensKept`,
  `ListenersKnown`, `RulesAlwaysServed`, `ActionsKept`, `LimitsKept`, `BudgetsKept`,
  `EditsKept` and `AddressesCovered`. The components' invariants:
  * `RemoteInv`: the server the loop knows has the newest generation or is none,
    and what has ended is no socket.
  * `DnsInv`: what each stage of a round knows (`DnsKnown`: rules exist only where
    `ruleSig` says, and beyond the stage that opens it the forwarder is on the
    address the round began with) and which stages a dead process can be in.
  * `TokInv`: unless the map was emptied, `lastRead` is the file's modification
    time and the map agrees with the file but for a save under way; whoever holds
    data read from the file remembers a modification time no newer than the
    file's, so that it is refused if the file changed (`TokTruth`, `TokLocs`).
    The proof found that the earlier form of `RevokedStays`, without the exception
    for an emptied map, is false with three requests (section 5).
  * `ActInv`: the limiter's window is what sliding the history of accepted
    requests to the present gives, whatever the collector removed in between; the
    request under way is not for a registered device.
  * `CtlInv`: what a controller with the state in memory, or with the one in the
    file, has still to charge (`Pending`) is at most what was sent since the last
    save, and with what it has charged at most what was sent (`Charged`); nothing is
    pending while a round applies (`AllCounted`). Between rounds file and memory say
    the same of the rule; in a round the file must still lead a controller that
    starts from it to the user's rule (`TrueBase`), unless the history is `mixed`.
  * `AppInv`: the use in memory, when it is dated today, and the use in the day's file
    never exceed the real use of the day; an alert that neither memory nor the file
    knows of went out before a death that `repeats` counts.
  * `LimInv`: a save stands between its two files only before it has answered; what
    the last run read is the configuration, or a marker or a trigger is there. The
    proof found that `actionAppLimitClear` saves always, while `actionAppLimitSet`
    with rate 0 answers at once when the JSON has no entry (section 5).
  * `V6Inv`: one script at a time has the lock and the queue's loop waits for its own;
    a snapshot's addresses all have filters as long as the device has one and its last set
    is not torn (`SnapsTrue`); of the device a script is working on, the filters that are
    not left to add are there, or all were swept away after the last (`FillTrue`), and
    who is only given more of them has those of its snapshot (`FillSnap`). `Forgets` is what makes suppression harmless: unless a
    message was lost, an address whose message is queued will not be known any more
    when that message is handled, since its removal comes first. `ClearedIsLater`
    covers the script that read the marks before a device was marked, or a device's
    addresses before one of them appeared: it will leave that address without a filter,
    and another run is then still to come.
* **GateProofs**: the components that decide who comes in and how often, each by
  itself: `CodesBounded`, `LimiterHolds`, `LimiterEscalates`, `AccessKeeps` and
  `ForwarderKeeps`. The invariants:
  * `PairInv`: every token, every request about to issue one and the code in the file
    stand for a code of their own or for a rename that failed (`TokenBudget`). The
    wrong guesses at the code in the file are a count below the limit for the present
    and for each failed rename, plus a request about to burn the code for each guess
    beyond (`PendingGuesses`), and as much again for each time the counters were wiped or
    httpd restarted (`Slack`); once the code is gone only requests that had read it
    can still guess (`PastGuesses`).
  * `RateInv`: a lock that is not over and a back-off that is remembered are in the
    entry, since an eviction passes over locked entries; an entry has been granted
    fewer attempts since its window started than it counts, and the window before has
    left less than a window's worth (`EntrySound`). Both are about an entry that is remembered: an
    eviction, a collection or a reset begins a new history. What then bounds an address is the
    cap for all addresses together.
  * `AccInv`: the setting a request has read is no older than the one in force when it
    arrived, whoever fills the cache in between (`VisitsOk`, `CacheOk`); a run of the
    script that met no other has left the chain as its stage says (`FireOk`); the list
    in the file lets in the guest who saved it (`NbrOk`).
  * `ForwardInv`: the record a query holds, or the cache, was current when the query
    came or later (`QueryOk`, `EntOk`); tokens left in a bucket and queries allowed by
    it are together covered by the burst and the refill (`BucketOk`).
* **BooksProofs**: `GatesStay` (`GatesKept` of the suite, which `GateProofs` carries
  over to it), `LocksEscalate` (`LocksGrow`), `WordsKept` (`WordKept`), `BooksStay`
  (`BooksKept`) and, for the components by themselves, `MergesKeep`, `DismissalsStay`,
  `ImportsKeepLabels`, `AlertsKept`, `ClockBooks`, `PhoneBooks` and `OnlineBooks`.
  The components' invariants:
  * `MergeInv`: what the stores hold in the middle of a merge, relative to what
    `deviceMerge` read at its start. Stores whose step has not come, or was undone,
    are as they were, but for what a failing action or undo left behind (`mg.left`), which
    the code neither notices nor reports (`Restored`); the others hold the copies (`Copies`); no MAC but
    the target is touched (`OnlyTarget`), and without force only what was not set is
    filled in (`FillsOnly`), which the conflict check justifies (`NoClash`). What the
    user is owed is therefore in the stores before the merge (`SeenKept`), after it
    (`NowKept`) and, for a policy, in memory as in the file (`Paired`).
  * `AlertInv`: the ledger, the walk's copy of it and the copy under a mark hold only
    devices that somebody was told of, or whose append failed (`AllTold`); what a walk
    has still to tell is past its cool-down at the time the walk began (`AlertTimes`).
  * `PackInv`: no imported suffix lies at or below a host of this phone's rules
    (`ImportsFree`), and a running import knows what it read and what it wrote.
  * `SuggestInv`: a MAC that was told of has the time of its alert on record
    (`ToldAlerted`).
  * `ClockInv`: what was booked is covered by the mark in memory and by the one in the
    file, but for less than the interval between two saves (`Covered`), so a restart
    that reads an old mark books no further back than that. The mark in the file covers only
    as long as its last write has not failed (`unwritten`): after a restart that follows a
    failed write `booked` starts from the file, which is all the code can know. The drift of a writer is the
    wall clock's gain over the monotonic one since its last booking (`Drifts`), which
    refused rounds do not reset; a lag that lasts began no earlier than `behindSince`.
  * `PhoneInv`: the books with the unsaved day, plus what the next tick would add, never
    exceed what was carried and what is counted twice (`Covered0`); the same holds of the
    books on disk and of what a tick after a death would add, since every death starts
    from the readings file. `ahead`, the bytes in the day's file that the readings do not
    know of yet, is what such a death counts again. `Calm0` is the other direction while
    nothing was reset, `Alerts0` the same for the alerts. What the running sum over the
    days does when one day changes is shown by the least-number principle.
  * `OnlineInv`: the equation between file, memory, loss and credit holds day by day
    (`Even`), over a flush that fails between two days; the remainders of a credit that is split
    at midnight are related by the arithmetic of the division (`SplitExact`).
* **CaptureProofs**: `CapturesKept` (`CaptureKept` of the suite), the refinements
  `SegmentsKeepPromise` (`TlsKeepsPromise`) and `FragmentsKeepPromise`
  (`QuicKeepsPromise`), and for the components by themselves `SamplesCapped`,
  `ReadsOpen` and `StartsCounted`. The components' invariants:
  * `StartInv`: the starts that count are the last lines of the crash flag, in the
    order of time, and no line is older than its start (a clock that is set back
    makes it younger), so a guard that counts lines counts at least the starts that
    wrote one; a start that passed the guard still finds room for its line, because
    only its own step adds one.
  * `CapInv`: the socket that `Run` reads from is one of the process and open; a
    rebind only retires the socket it replaces, and the loop that holds it closes it.
  * `SelfInv`: a file that the writer has open and nobody removed has the size the
    writer counts.
  * `TlsInv`: an entry holds a beginning of its stream, each byte in its place, and
    waits for the sequence number of the next one; with hellos shorter than half the
    sequence space (`TlsAssumption`) a retransmission and a gap are told apart across
    the wrap-around.
  * `QuicInv`: the list of intervals is in order, its intervals do not touch, and it
    covers exactly the bytes received. `AddFragExact` proves that of `addFrag` for any
    list and fragment; the loop is a recursive function (`MergePass`) whose invariant
    `Passing` is shown for every prefix by the least-number principle.
  The refinement map takes the bytes held of each connection for `got` and what was
  handed over for `told`. Initial states map to the initial state; every outcome of a
  segment or an Initial (entered, grown, dropped, handed over, others swept or
  evicted) maps to `Receive` or `Forget`. `QuicAssumption` says that a hello is no
  shorter than its header, which holds because its length is computed as 4 plus a
  field (`quic.go:459`).
* **TrafficProofs**: `TablesStay` (`TablesKept` of the suite) and, for the components by
  themselves, `ClientsIndexed`, `OwnersFound`, `RulesFresh`, `RulesEarned`,
  `PaceAnswers` and `SleepBounded`. The
  components' invariants:
  * `TableInv`: the index and the clients lead to each other (`Indexed`), the counter is
    the number of flows held, and a client kept under a MAC has that MAC. The last is
    what lets `clientLocked` create a client under its MAC: were that key taken, the
    index would have led to it.
  * `OwnerInv`: the table is one that `parseIPOwner` accepted (`Sorted`). It compares
    neighbours only; `Ascending` derives that every range ends before all later ones
    start, so the first range that starts after an address is the one behind the range
    that holds it (`SortedExact`), for tables of any length. The stamp noted of a file is
    no newer than the file's, and where they are equal the table is that file's, unless
    a read failed (`OwnerNoted`).
  * `RuleInv`: rules kept under a key, in the cache or by a lookup that has not installed
    them yet, are of no file older than it is or was when a lookup in progress began,
    unless their key is older than that file (`NotOlder`); a lookup's key has the
    mtime of every file it found at its start, or that file is still to be looked at
    (`LoadsInv`). So a key that is met again cannot bring back what was replaced. An
    edit has a later mtime than every edit before it; that the clock does not go back
    between two edits is an assumption of the model.
  * `FlyInv`: while a rule is on disk its apex is not observed, so its record stays
    single, and a rule that memory has given up is not made again (`Frozen`); the
    record on disk is part of the one in memory, or too old to survive the loading
    (`Older`). With these a restart cannot turn an application into a conduit or give
    a rule a second application, whichever of the two writes was the last.
    `PromotedSingle` and `ConduitOut` except rules that memory and disk have once
    disagreed on (`unsaved`): the proof attempt without the exception failed, and two
    faults in one behaviour show why (section 5).
  * `WaitInv`: a loop that waits on the channel that is open computed its interval from
    what is published (`Paced`), since `activityPublish` stores the value before it closes
    the channel and `powerWait` takes the channel before it computes the interval; the
    ticker has not been missed, and a hit before the last probe is published as long as
    it counts (`HitKnown`).
  * `LinkInv`: the sleep ends within an idle interval, or within `intervalDoze` when it began in doze (`SleepNear`); what a dead httpd said
    is believed no longer than its age and the cache allow (`Believed`); while the
    hotspot is up and not found, and while a boundary is ahead, the next round is near
    enough (`SoughtIdle`, `SoughtOld`, `Scheduled`). `RoundBy` says for the three places of
    the loop what is left of the way to it, the settling time of an event included.

Where an argument is an induction over data (positions in a sequence, a sliding
window), it is made by the least-number principle on a set of counter-examples
(`LeastNumber`, `LeastOf`), which needs no operator as a parameter.

Only model-checked: all liveness properties and everything under fairness (they
need `ENABLED`), the action property `GroupsKept` and the invariant `LearningKept`. The
latter two are about connected components of a graph, decaying counts, longest
common suffixes and the readings of a table beside its events: they count elements
that `SelectSeq` or a fold picks, which are recursive in a way the provers cannot
unfold. Every other invariant and action property of the runs is stated by a theorem.

## 5. Findings

Each has a run that TLC must refute, and quotes the line it contradicts in
`PROJECT.json`.

1. `hnc_lock.sh:146` (`lock_writer`): two waiters read the same pid, the holder
   ends, the first removes the directory and takes the lock, the second removes
   the new one. Two scripts write for one MAC.
2. `mac_merge_action.go:96` (`merge_carries`): the merge hands `app_qos_set` to a
   dispatcher that has no such case; every merge of a device with priorities per
   application is rolled back although nothing is broken.
3. `hnc_watchdog/main.go:620` (`throttle_escalates`): whether a passive phase repeats
   is judged within two plain windows of the last return. A doubled window is longer
   than that by itself, so a lasting fault makes the window go 5, 10, 5, 10 minutes
   where the changelog says 5, 10, 20, 40, 60.

### Further statements the code does not keep

These formulas say what a comment or a document says. Where they are defined in
a module it is in the section of that name; TLC refutes each of them with small
constants; they have no run of their own.

| Formula | Said at | What happens |
|---|---|---|
| `HncLock!StaleGateReclaimed` | `hnc_lock.sh:25` | `mac_lock` waits for the gate with `continue` before its stale check (line 175), so it never reclaims a dead holder's gate and returns 11; only another `gate_lock` does. |
| `HncLock!ForkedNeverBlocked` | `cleanup_offline_devices.sh:17` | Line 60 runs `apply_device_rule.sh clear` under the gate without exporting `HNC_GATE_HELD`: the child waits for its own parent until it times out. |
| `Launcher!StopsAlways` | `hnc_launcher.c:437` | The SIGTERM sent again after `fork` may hit a child that has not reached `execv`; its inherited handler swallows it, and the launcher blocks in `waitpid`. |
| `Launcher!ForkRetriesEnd` | `hnc_launcher.c:416` | Earlier restarts have raised the shared pause to 32 s; failed forks 32 s apart never make five in 60 s. |
| `DpidGuard!QuickDeathCounts` | `m5.go:190` | A process that died within `m5QuickDeath` is judged by its age when the death is noticed; with rounds a minute or three apart it is not counted. |
| `NoStorm` without the exception for `unsaved` | `m5.go:30` | The rescue starts dpid and only logs that `run/dpid_launcher.choice` could not be written (326-329); the next round is about the launcher again, nobody calls `observe` for dpid's gate, and a dpid that dies is started every 30 s without doubling. |
| `Watchdog!BlacklistAlwaysReturns` | `watchdog.sh:311` | A restore that fails with rc 1 removes the pending note after the chains were flushed; the next check sees chains and qdisc and is content; blacklisted devices stay unblocked. The same when `HNC_CTRL`, which holds the blacklist, is flushed alone: no health check looks at it (`native.go:258`). |
| `Watchdog!CleanupRespected` | `cleanup.sh:246` | `rules` mode removes `run/hnc_state` too, so the watchdog goes through PENDING and `full_init`, which does not look at the marker. |
| `Watchdog!NoLoopWithoutTc` | `watchdog.sh:273` | Without htb `full_restore` returns before it removes `tc_restore_pending`; a note from earlier makes every check fail. |
| `Watchdog!ContentionNeverFuses` | `watchdog.sh:298` | A busy lock at tc init alone counts as a failed repair (line 318), and three open the fuse. |
| `RemoteAccess!NextRequestRefused` | `middleware.go:225` | The look at the bridge and the look-up are separate steps, and a file that another goroutine is working through is not waited for: a request that starts after the line was written may still find the token live. |
| `RemoteAccess!RevocationSaved` | `tokens.go:261` | `Flush` writes only when `dirty` is set, and a save that failed does not set it: the revocation stays in memory and is gone with the process. |
| `RevokedStays` without the exception for `cleared` | `tokens.go:153` | Two requests stat "no file" before the first save. One empties the map, another reloads, a revocation is saved, the second empties the map again, and a stale reload installs the live token. Three concurrent requests are needed. |
| `Pairing!OneTokenPerCode` | `pair.go:232` | When the claim's rename fails for another reason than a missing file, both of two concurrent correct answers go on as before v5.11. |
| `Pairing!GuessLimit` | `pair_guard.go:13` | The comparison comes before the count: requests under way when the code is burned add a wrong guess each, and a claim whose rename failed clears the count while the code is still on disk, as do a wipe of the counters (above 64 of them, line 122) and a restart of httpd. `GuessBound` says how many. |
| `Pairing!FreshCodeStays` | `pair.go:232` | A request that read an older code purges or burns the file of the one that took its place. |
| `Pairing!MemoryAlways` | `ratelimit.go:28` | A full table evicts an entry whose lock is over, and the next failure starts with the shortest lock again. |
| `DnsTakeover!TakesOverAnyway` | `dns_takeover.go:14` | An upstream of kind tether is not chosen again as long as it is set, however long it does not answer; system is never asked (1077-1078). |
| `ClockGuard!HealsAcrossRestarts` | `clock_guard.go:207` | `behindSince` is a field in memory: the time it is measured with survives a restart of httpd, the time it began at does not. |
| `LimitCtl!AlwaysConverges` | `limit_policy.go:13` | When a round ended half done and the wish then goes back to what was last applied in full, the comparison with `LastDesired` finds nothing to do (833, 903). |
| `AppTime!BlockAlwaysSettles` | `app_time.go:12` | The expansion is written before the script runs; when the script fails, the files already say the new thing and nothing runs it again (`conn_blocks.go:150`). |
| `AppLimits!FilesAgree` | `action_app_limit.go:178` | The two files are written one after the other (220); a death in between leaves them apart. |
| `AppLimits!NothingToClear` | `action_app_limit.go:96` | After a save that failed between the two files the JSON has no entry and the flat file still has one: setting the rate to 0 answers "no-op" and the device stays limited. |
| `ActionGate!OneScript` | `action.go:226` | Children of a shell that was killed at its deadline run beside the next action (755). |
| `V6Sync!V6AlwaysReconciled` | `neigh_v6.go:14` | An address whose `tc filter add` failed is in the snapshot all the same, so no later run tries it again while another filter of the device is there (`v6_sync.sh:262`). The same holds after a run that was killed between two adds of a rebuild (`neigh_v6.go:391`), or that a rebuild of the tree, which does not take the script's lock, overtook half-way. |
| `DpidCapture!FollowsHotspot` | `CHANGELOG.md:1294` | The rebinder lives only while a handle is open; with the old interface gone, the capture loop retries its old name for ever (`main.go:491`, 771). |
| `DpidCapture!NoSocketLeft` | `rawsocket.go:275` | A rebinder in the middle of a round installs its socket in the handle that has just been closed (291). |
| `WebAccess!FirewallAlwaysExact` | `webui_guard.sh:24` | Two runs at once leave the rules of both. |
| `RulePack!CoversOnlyOwnAlways` | `rulepack.go:28` | An entry whose id is already there is filtered for its own `attach_to` and then merged under the parent of the first import (792, 843). |
| `AlertStore!KnownStays` | `alert.go:447` | The mutex is one per process: a mark by httpd between the scan's second read and its write is lost. |
| `MacSuggest!OverlapExcluded` | `mac_merge.go:15` | After the window of a new MAC its suggestions are kept and not judged again, also when both devices are seen together later (750). |
| `AppUsage!NeverTwice` | `app_usage.go:277` | An event of a device that is left out at the moment is dropped with its time of death, and the dead connection's reading in the table is booked as a new one (319-338). |
| `ClientTable!GlobalFlowLimit` | `state.go:821` | The budget per client is `maxFlowsPerClient`, which every tracker keeps anyway (851). |
| `AppRules!NewFileSuffices` | `auto_expand.go:489` | The key is the latest mtime and the sum of the sizes. A lookup that listed the files before one was made keeps its set under a key that is met again when another file of that size goes: the new file's rules are missing until the next edit (`rule.go:318`). |
| `PromotedSingle` without the exception for `unsaved` | `candidate.go:319` | A write that failed is logged and not tried again before something else changes (352). The apex is then not covered on disk and is observed on; once its record has aged out it is recorded under another application, while the rule in memory keeps the first and is written with the next change. |
| `ConduitOut` without the exception for `unsaved` | `candidate.go:274` | A demotion whose write failed is undone by a restart; the rule labels traffic until a tick demotes it again. |
| `Flywheel!SelfCorrects` | `candidate.go:30` | The rule itself keeps a promoted apex out of the queue, and `apexHasRule` keeps it out of the accumulator (209; `self_attrib.go:407`). |
| `Discover!GroupsSurviveRestart` | `discover.go:794` | The centre of a restored star may look like a hub of shared infrastructure, which is left out, and the group falls apart (887; `shared_infra.go:246`). `SmallKept` says for which groups it holds. |
| `FpLearn!EachHelloOnce` | `fp_learn.go:7` | Counts are saved, the cursor is not: after a restart of httpd the ring is learnt again (274, 310, 538). |
| `DeviceScan!OfflineStays` | `devscan.go:14` | Eviction removes the candidates with the device, so the next full dump takes the silent entry for a new one (349, 361). |
| `PowerPace!WokenAtOnce` | `power.go:34` | A signal within `eventMinGap` of the last event round is dropped, and nothing looks again before the timer (152). |

Seen while reading, with no property: the launcher's pause goes 2, 4, 8, 16, 32
where the comment at `hnc_launcher.c:72` says at most 30; its header (lines
20-23) says the crash flag stays until removed by hand, while line 474 removes
it; the watchdog writes `run/passive.marker` (`main.go:63`) and httpd reads
`run/watchdog_passive.marker` (`daemon/hnc_httpd/server.go:362`); bytes that were held
back and are released in a round that books nothing else do not mark the day as changed
(`app_usage.go:166`), so they are lost when the day ends or httpd stops before the next
booking; `FileCurrent` allows a family's last samples to be missing from the file, since
only every twentieth marks it (`ja4family.go:189`).

### Not modelled

Device identification and the packet parsers are functions from bytes to facts.
Self-check, calibration, the foreground model and flow evaluation are read-only
statistics over floating-point data, out of TLC's reach. Roll-back is one call of
a script; the live and export APIs read what others write. Application
priorities and offload scheduling derive command lists in one pass. The
statistics scripts are sequential text processing, the C helpers are thin layers
over netlink and BPF, and the rest is presentation and data. Of the modelled
components, `PROJECT.json` says what is left out of each.

Smaller things left out, each named in its module: steps of the wall clock under the
launcher (`hnc_launcher.c:218` uses `time(NULL)`); an append to the revocation bridge
that races its rename (`server.go:1271`); a failed write of the limit controller's state
(`limit_policy.go:470`), tried again in a later round; the missing `clockSane` in
`conn_blocks.go:171`; a promoted-rules file that cannot be read (`auto_expand.go:259`);
the cut at 1024 compiled rules (`rule.go:467`); a query whose client has no MAC
(`dns_forwarder.go:400`); the 50 KB tail of the alert log that
the WebUI reads (`alert.go:482`); the case that all hosts of a
node are listed while its domain is not (`shared_infra.go:189`).

## 6. Plan

Next, in this order:

1. The parts of `LearningKept` whose operations are single steps: `CleanMeansWritten`
   and `MissBound` of the device list.
2. Models still missing: the lease of `tc_action_lock`, the allocation of
   `mark_id`, the lock and recovery of `rules.json`, the take-over of the pid file
   by a second watchdog, the uplink repair.
