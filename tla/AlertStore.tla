----------------------------- MODULE AlertStore -----------------------------
(***************************************************************************)
(* Alerts about unknown devices and unusual traffic (src/dpid/alert): the  *)
(* scan of hnc_watchdog every five minutes, and hnc_httpd that marks a     *)
(* device as known.  The two programs share                                *)
(* known_devices.json (tmp and rename, no lock between the processes:      *)
(* ledgerMu is a mutex of each process) and alerts.jsonl (flock, append).  *)
(*                                                                         *)
(* A scan reads the devices, the ledger and the recent alerts, walks over  *)
(* the devices (an append and a notification of up to ten seconds each),   *)
(* and then reads the ledger again, merges and writes it.                  *)
(*                                                                         *)
(* Left out: the texts, the quiet hours (they silence the notification,    *)
(* not the alert) and the traffic sums: "a MAC has unusual traffic" is an  *)
(* input.  alerts.jsonl can be read, and the 50 KB of its tail that are    *)
(* read reach back over the cooldown.                                      *)
(***************************************************************************)
EXTENDS Naturals, FiniteSets

CONSTANTS Dev,              \* MACs
          Cooldown,         \* min_interval_sec
          Day,              \* 24 h, the cooldown of the traffic alert
          Odd,              \* MACs whose traffic may be unusual
          MaxTime, MaxScanCrash, MaxMarks,
          MaxAppendErr      \* failing appends, and reads and writes of the ledger

ASSUME AlertAssumption ==
    /\ {Cooldown, Day, MaxTime, MaxAppendErr, MaxScanCrash, MaxMarks} \subseteq Nat
    /\ Cooldown <= Day /\ Odd \subseteq Dev

VARIABLES
    time,
    ledger,     \* known_devices.json: [Dev -> Entry]
    alog,       \* alerts.jsonl: set of <<kind, mac, ts>>
    scan,       \* the scan of the watchdog
    mark,       \* MarkKnown in httpd
    acked,      \* history: devices whose MarkKnown reported success
    crossed,    \* history: the two read-modify-writes overlapped, or one began with a failed read
    dropped,    \* history: devices whose alert could not be appended
    alertCnt

alertVars == <<time, ledger, alog, scan, mark, acked, crossed, dropped,
               alertCnt>>

None == 0       \* not in the ledger
Seen == 1       \* in the ledger, marked_known_at = 0
Known == 2      \* marked as known
NoScan == [pc |-> "idle"]
NoMark == [pc |-> "idle"]

AlertInit ==
    /\ time = 0 /\ ledger = [d \in Dev |-> None] /\ alog = {}
    /\ scan = NoScan /\ mark = NoMark /\ acked = {} /\ crossed = FALSE /\ dropped = {}
    /\ alertCnt = [err |-> 0, crash |-> 0, marks |-> 0]

\* loadRecentAlerts(now - span)
Recent(kind, at, span) == {a[2] : a \in {a \in alog : a[1] = kind /\ a[3] + span >= at}}

\* loadKnownLedger: a file that cannot be read or parsed is an empty ledger.
LoadLedger(bad) == IF bad THEN [d \in Dev |-> None] ELSE ledger
Tallied(bad) == [alertCnt EXCEPT !.err = IF bad THEN @ + 1 ELSE @]
MayFail(bad) == bad => alertCnt.err < MaxAppendErr

\* Run: devices.json (the devices that are not blocked), the ledger and the
\* recent alerts are read once.
ScanStart ==
    \E online \in SUBSET Dev, bad \in BOOLEAN :
        /\ scan.pc = "idle" /\ MayFail(bad) /\ alertCnt' = Tallied(bad)
        /\ scan' = [pc |-> "walk", now |-> time, todo |-> online, led |-> LoadLedger(bad),
                    recent |-> Recent("unknown", time, Cooldown), dirty |-> FALSE]
        /\ UNCHANGED <<time, ledger, alog, mark, acked, crossed, dropped>>

\* appendAlert: a line per device at the end of alerts.jsonl.
AppendAlert(kind, D, at) == alog' = alog \union {<<kind, d, at>> : d \in D}

\* One device of detectUnknownDevices.
ScanDevice ==
    \E d \in Dev :
        /\ scan.pc = "walk" /\ d \in scan.todo
        /\ LET new  == scan.led[d] = None
               next == [scan EXCEPT !.todo = @ \ {d}, !.led[d] = IF new THEN Seen ELSE @, !.dirty = @ \/ new]
           IN  /\ scan' = next
               /\ IF new /\ d \notin scan.recent
                  THEN \/ AppendAlert("unknown", {d}, scan.now) /\ UNCHANGED <<dropped, alertCnt>>
                       \/ /\ alertCnt.err < MaxAppendErr
                          /\ alertCnt' = [alertCnt EXCEPT !.err = @ + 1]
                          /\ dropped' = dropped \union {d} /\ UNCHANGED alog
                  ELSE UNCHANGED <<alog, dropped, alertCnt>>
        /\ UNCHANGED <<time, ledger, mark, acked, crossed>>

\* The end of the walk: the ledger is read again (its own copy only adds).
Merge(cur, own) == [d \in Dev |-> IF cur[d] = None THEN own[d] ELSE cur[d]]
ScanReload ==
    \E bad \in BOOLEAN :
        /\ scan.pc = "walk" /\ scan.todo = {} /\ (bad => scan.dirty) /\ MayFail(bad) /\ alertCnt' = Tallied(bad)
        /\ scan' = IF scan.dirty THEN [scan EXCEPT !.pc = "save", !.led = Merge(LoadLedger(bad), @)]
                   ELSE [scan EXCEPT !.pc = "traffic"]
        /\ crossed' = (crossed \/ (scan.dirty /\ (bad \/ mark.pc = "save")))
        /\ UNCHANGED <<time, ledger, alog, mark, acked, dropped>>

\* saveKnownLedger; its error is ignored.
ScanSave ==
    \E bad \in BOOLEAN :
        /\ scan.pc = "save" /\ MayFail(bad) /\ alertCnt' = Tallied(bad)
        /\ ledger' = (IF bad THEN ledger ELSE scan.led) /\ scan' = [scan EXCEPT !.pc = "traffic"]
        /\ UNCHANGED <<time, alog, mark, acked, crossed, dropped>>

\* detectAnomalyTraffic: one alert per MAC and day.
ScanTraffic ==
    /\ scan.pc = "traffic" /\ scan' = NoScan
    /\ \E odd \in SUBSET Odd :
        AppendAlert("traffic", odd \ Recent("traffic", time, Day), time)
    /\ UNCHANGED <<time, ledger, mark, acked, crossed, dropped, alertCnt>>

\* The watchdog is killed during a scan.
ScanCrash ==
    /\ scan.pc # "idle" /\ alertCnt.crash < MaxScanCrash
    /\ scan' = NoScan /\ alertCnt' = [alertCnt EXCEPT !.crash = @ + 1]
    /\ UNCHANGED <<time, ledger, alog, mark, acked, crossed, dropped>>

\* alert_mark_known: read, change, write.
MarkLoad ==
    \E d \in Dev, bad \in BOOLEAN :
        /\ mark.pc = "idle" /\ alertCnt.marks < MaxMarks /\ MayFail(bad)
        /\ mark' = [pc |-> "save", d |-> d, led |-> [LoadLedger(bad) EXCEPT ![d] = Known]]
        /\ alertCnt' = [Tallied(bad) EXCEPT !.marks = @ + 1]
        /\ crossed' = (crossed \/ bad \/ scan.pc = "save")
        /\ UNCHANGED <<time, ledger, alog, scan, acked, dropped>>

\* A failed write is reported.
MarkSave ==
    \E bad \in BOOLEAN :
        /\ mark.pc = "save" /\ mark' = NoMark /\ MayFail(bad) /\ alertCnt' = Tallied(bad)
        /\ ledger' = (IF bad THEN ledger ELSE mark.led)
        /\ acked' = (IF bad THEN acked ELSE acked \union {mark.d})
        /\ UNCHANGED <<time, alog, scan, crossed, dropped>>

\* Time passes.
Pass == /\ time < MaxTime /\ time' = time + 1
        /\ UNCHANGED <<ledger, alog, scan, mark, acked, crossed, dropped, alertCnt>>

AlertNext == \/ ScanStart \/ ScanDevice \/ ScanReload \/ ScanSave \/ ScanTraffic \/ ScanCrash
             \/ MarkLoad \/ MarkSave \/ Pass
AlertSpec == AlertInit /\ [][AlertNext]_alertVars

-----------------------------------------------------------------------------
AlertTypeOK ==
    /\ time \in 0..MaxTime /\ ledger \in [Dev -> None..Known]
    /\ \A a \in alog : a[1] \in {"unknown", "traffic"} /\ a[2] \in Dev /\ a[3] \in 0..MaxTime
    /\ scan.pc \in {"idle", "walk", "save", "traffic"} /\ mark.pc \in {"idle", "save"}

(* Two alerts of a kind for a MAC are further apart than the cooldown,     *)
(* whatever scans are killed before they save the ledger, and although the *)
(* ledger may lose entries to a concurrent write or a failed read.         *)
CooldownKept ==
    \A a, b \in alog : a[1] = b[1] /\ a[2] = b[2] /\ a[3] < b[3] =>
        b[3] - a[3] > (IF a[1] = "unknown" THEN Cooldown ELSE Day)

(* A device gets into the ledger only with an alert, a mark of the user or *)
(* a failed append: the scan saves the ledger last, so a kill in between   *)
(* never makes a device known that nobody was told about.                  *)
LedgerMeansTold ==
    \A d \in Dev : ledger[d] # None =>
        \/ \E a \in alog : a[1] = "unknown" /\ a[2] = d
        \/ ledger[d] = Known \/ d \in dropped

(* A device the user marked as known stays known while the two programs    *)
(* do not read and write the ledger at the same moment and no read before  *)
(* a write fails (alert.go:189-193, 447-449).                              *)
KnownStaysApart == crossed \/ \A d \in acked : ledger[d] = Known

(* The same as the comment says it: the merge before the save keeps what   *)
(* MarkKnown of httpd wrote during the scan.                               *)
KnownStays == \A d \in acked : ledger[d] = Known
=============================================================================
