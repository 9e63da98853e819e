----------------------------- MODULE BooksProofs -----------------------------
(***************************************************************************)
(* Proofs about the suite MCBooks: who may come in, that what the user set *)
(* or said is kept, and that bytes, minutes and days are booked once, for  *)
(* every value of the constants.                                           *)
(*                                                                         *)
(* The gates are proved one by one in GateProofs.  Every other component   *)
(* has an inductive invariant here (AlertInv, PackInv, SuggestInv,         *)
(* MergeInv, ClockInv, OnlineInv, PhoneInv) with three lemmas: it holds at *)
(* the start, every step keeps it, and it implies what the suite checks.   *)
(***************************************************************************)
EXTENDS MCBooks, GateProofs, FiniteSetTheorems, TLAPS

-----------------------------------------------------------------------------
(* The alerts.                                                             *)

Ledgers == [Dev -> None..Known]
Alarms == {"unknown", "traffic"} \X Dev \X (0..MaxTime)
Scans == [pc : {"walk", "save", "traffic"}, now : 0..MaxTime, todo : SUBSET Dev,
          led : Ledgers, recent : SUBSET Dev, dirty : BOOLEAN]
Marks == [pc : {"save"}, d : Dev, led : Ledgers]

AlertPlaces ==
  /\ time \in 0..MaxTime /\ ledger \in Ledgers /\ alog \subseteq Alarms
  /\ scan \in Scans \cup {NoScan} /\ mark \in Marks \cup {NoMark}
  /\ acked \subseteq Dev /\ crossed \in BOOLEAN

\* The times of the alerts: nothing lies in the future, and what a walk has still
\* to tell is past its cooldown.
AlertTimes ==
  /\ \A a \in alog : a[3] <= time
  /\ scan.pc # "idle" => scan.now <= time
  /\ scan.pc = "walk" => \A a \in alog : a[1] = "unknown" =>
       a[3] <= scan.now /\ (a[2] \in scan.todo \ scan.recent => a[3] + Cooldown < scan.now)

\* Somebody was told of the device, or the append failed.
Told(d) == d \in dropped \/ \E a \in alog : a[1] = "unknown" /\ a[2] = d
TrueLedger(l) == \A d \in Dev : l[d] # None => Told(d) \/ l[d] = Known
AllTold ==
  /\ TrueLedger(ledger)
  /\ scan.pc # "idle" => TrueLedger(scan.led) /\ \A d \in scan.recent : Told(d)
  /\ mark.pc # "idle" => TrueLedger(mark.led)

\* The two read-modify-writes of the ledger, as long as they have not met.
Apart ==
  crossed \/ /\ \A d \in acked : ledger[d] = Known
             /\ scan.pc = "save" => mark.pc = "idle" /\ \A d \in acked : scan.led[d] = Known
             /\ mark.pc = "save" => mark.led = [ledger EXCEPT ![mark.d] = Known]

AlertInv == AlertPlaces /\ AlertTimes /\ CooldownKept /\ AllTold /\ Apart

\* The invariant says what the suite checks.
LEMMA AlertTyped == AlertInv => AlertTypeOK /\ CooldownKept /\ LedgerMeansTold /\ KnownStaysApart
<1> SUFFICES ASSUME AlertInv PROVE AlertTypeOK /\ CooldownKept /\ LedgerMeansTold /\ KnownStaysApart
  OBVIOUS
<1>1. AlertTypeOK
  BY DEF AlertInv, AlertPlaces, AlertTypeOK, Alarms, Ledgers, Scans, Marks, NoScan, NoMark
<1>2. LedgerMeansTold
  BY DEF AlertInv, AllTold, TrueLedger, Told, LedgerMeansTold
<1>3. KnownStaysApart
  BY DEF AlertInv, Apart, KnownStaysApart
<1> QED
  BY <1>1, <1>2, <1>3 DEF AlertInv

\* No device, no alert.
LEMMA AlertStart == AlertInit => AlertInv
<1> SUFFICES ASSUME AlertInit PROVE AlertInv
  OBVIOUS
<1> USE AlertAssumption DEF AlertInit, Ledgers, NoScan, NoMark, None, Known
<1>1. AlertPlaces
  <2>1. time \in 0..MaxTime /\ ledger \in Ledgers /\ alog \subseteq Alarms
    OBVIOUS
  <2>2. scan = NoScan /\ mark = NoMark /\ acked = {} /\ crossed \in BOOLEAN
    BY Zenon
  <2> QED
    BY <2>1, <2>2 DEF AlertPlaces
<1>2. AlertTimes /\ CooldownKept
  BY DEF AlertTimes, CooldownKept
<1>3. AllTold
  BY DEF AllTold, TrueLedger
<1>4. Apart
  BY DEF Apart
<1> QED
  BY <1>1, <1>2, <1>3, <1>4 DEF AlertInv

\* What a step does to the scan's record.
LEMMA ScanFields ==
  ASSUME AlertPlaces, scan.pc # "idle"
  PROVE  scan \in Scans
  BY DEF AlertPlaces, NoScan
LEMMA MarkFields ==
  ASSUME AlertPlaces, mark.pc # "idle"
  PROVE  mark \in Marks
  BY DEF AlertPlaces, NoMark

\* One device of the walk: it joins the scan's ledger, with an alert unless one is recent.
LEMMA WalkedDevice ==
  ASSUME AlertPlaces, ScanDevice
  PROVE  \E d \in Dev :
           /\ scan \in Scans /\ scan.pc = "walk" /\ d \in scan.todo /\ scan' \in Scans
           /\ scan'.pc = "walk" /\ scan'.now = scan.now /\ scan'.recent = scan.recent
           /\ scan'.todo = scan.todo \ {d}
           /\ scan'.led = [scan.led EXCEPT ![d] = IF scan.led[d] = None THEN Seen ELSE scan.led[d]]
           /\ UNCHANGED <<time, ledger, mark, acked, crossed>>
           /\ \/ /\ d \notin scan.recent /\ alog' = alog \cup {<<"unknown", d, scan.now>>} /\ dropped' = dropped
              \/ alog' = alog /\ dropped' = dropped \cup {d}
              \/ alog' = alog /\ dropped' = dropped /\ (scan.led[d] # None \/ d \in scan.recent)
<1> DEFINE Now(d) == [scan EXCEPT !.todo = @ \ {d}, !.led[d] = IF scan.led[d] = None THEN Seen ELSE @,
                                  !.dirty = @ \/ (scan.led[d] = None)]
<1> PICK d \in Dev :
      /\ scan.pc = "walk" /\ d \in scan.todo /\ scan' = Now(d)
      /\ IF scan.led[d] = None /\ d \notin scan.recent
         THEN \/ AppendAlert("unknown", {d}, scan.now) /\ UNCHANGED <<dropped, alertCnt>>
              \/ dropped' = dropped \cup {d} /\ UNCHANGED alog
         ELSE UNCHANGED <<alog, dropped, alertCnt>>
      /\ UNCHANGED <<time, ledger, mark, acked, crossed>>
  BY Zenon DEF ScanDevice
<1>1. scan \in Scans
  BY ScanFields
<1>2. /\ Now(d).pc = scan.pc /\ Now(d).now = scan.now /\ Now(d).recent = scan.recent /\ Now(d).todo = scan.todo \ {d}
      /\ Now(d).led = [scan.led EXCEPT ![d] = IF scan.led[d] = None THEN Seen ELSE scan.led[d]]
  BY <1>1 DEF Scans
<1>3. (scan.dirty \/ scan.led[d] = None) \in BOOLEAN
  BY Zenon
<1>4. [scan.led EXCEPT ![d] = IF scan.led[d] = None THEN Seen ELSE @] \in Ledgers
  BY <1>1 DEF Scans, Ledgers, None, Seen, Known
<1>5. Now(d) \in Scans
  BY <1>1, <1>3, <1>4 DEF Scans
<1>6. AppendAlert("unknown", {d}, scan.now) => alog' = alog \cup {<<"unknown", d, scan.now>>}
  BY DEF AppendAlert
<1> HIDE DEF Now
<1> QED
  BY <1>1, <1>2, <1>5, <1>6

\* Every step of the scan, the marks and the clock keeps the invariant.
LEMMA AlertPlacesStep == ASSUME AlertInv, [AlertNext]_alertVars PROVE AlertPlaces'
<1> USE AlertAssumption DEF AlertInv, Ledgers, None, Seen, Known
<1>0. AlertPlaces
  OBVIOUS
<1>1. CASE ScanStart
  <2>1. Recent("unknown", time, Cooldown) \subseteq Dev
    BY <1>0 DEF AlertPlaces, Recent, Alarms
  <2>2. \A lapse \in BOOLEAN : LoadLedger(lapse) \in Ledgers
    BY <1>0 DEF LoadLedger, AlertPlaces
  <2> QED
    BY <1>1, <2>1, <2>2 DEF ScanStart, AlertPlaces, Scans
<1>2. CASE ScanDevice
  <2> PICK d \in Dev :
        /\ scan \in Scans /\ scan' \in Scans /\ UNCHANGED <<time, ledger, mark, acked, crossed>>
        /\ alog' = alog \cup {<<"unknown", d, scan.now>>} \/ alog' = alog
    BY <1>0, <1>2, WalkedDevice, Zenon
  <2>3. alog' \subseteq Alarms
    BY DEF AlertPlaces, Alarms, Scans
  <2> QED
    BY <2>3 DEF AlertPlaces
<1>3. CASE ScanReload
  <2>1. scan \in Scans
    BY <1>3, ScanFields DEF ScanReload
  <2>2. \A lapse \in BOOLEAN : Merge(LoadLedger(lapse), scan.led) \in Ledgers
    BY <2>1 DEF Merge, LoadLedger, AlertPlaces, Scans
  <2>3. scan' \in Scans
    BY <1>3, <2>1, <2>2 DEF ScanReload, Scans
  <2>4. crossed' \in BOOLEAN
    BY <1>3, Zenon DEF ScanReload
  <2> QED
    BY <1>3, <2>3, <2>4 DEF ScanReload, AlertPlaces
<1>4. CASE ScanSave
  <2>1. scan \in Scans
    BY <1>4, ScanFields DEF ScanSave
  <2> QED
    BY <1>4, <2>1 DEF ScanSave, AlertPlaces, Scans
<1>5. CASE ScanTraffic
  BY <1>5 DEF ScanTraffic, AlertPlaces, AppendAlert, Alarms
<1>6. CASE ScanCrash
  BY <1>6 DEF ScanCrash, AlertPlaces
<1>7. CASE MarkLoad
  <2>1. crossed' \in BOOLEAN
    BY <1>7, Zenon DEF MarkLoad
  <2>2. mark' \in Marks
    BY <1>7 DEF MarkLoad, LoadLedger, AlertPlaces, Marks
  <2> QED
    BY <1>7, <2>1, <2>2 DEF MarkLoad, AlertPlaces
<1>8. CASE MarkSave
  <2>1. mark \in Marks
    BY <1>8, MarkFields DEF MarkSave
  <2> QED
    BY <1>8, <2>1 DEF MarkSave, AlertPlaces, Marks
<1>9. CASE Pass
  BY <1>9 DEF Pass, AlertPlaces
<1>10. CASE UNCHANGED alertVars
  BY <1>10 DEF alertVars, AlertPlaces
<1> QED
  BY <1>1, <1>2, <1>3, <1>4, <1>5, <1>6, <1>7, <1>8, <1>9, <1>10 DEF AlertNext

\* A mark's own steps, the clock and a killed scan.
LEMMA AlertTimesStep == ASSUME AlertInv, [AlertNext]_alertVars PROVE AlertTimes' /\ CooldownKept'
<1> USE AlertAssumption DEF AlertInv
<1>0. AlertPlaces /\ time \in Nat /\ Cooldown \in Nat /\ Day \in Nat /\ \A a \in alog : a[3] \in Nat
  BY DEF AlertPlaces, Alarms
<1>n. scan.pc # "idle" => scan \in Scans /\ scan.now \in Nat
  BY <1>0, ScanFields DEF Scans
<1>1. CASE ScanStart
  <2> PICK online \in SUBSET Dev, lapse \in BOOLEAN :
        /\ scan' = [pc |-> "walk", now |-> time, todo |-> online, led |-> LoadLedger(lapse),
                    recent |-> Recent("unknown", time, Cooldown), dirty |-> FALSE]
        /\ UNCHANGED <<time, alog>>
    BY <1>1, Zenon DEF ScanStart
  <2>1. scan'.now = time /\ scan'.todo = online /\ scan'.recent = Recent("unknown", time, Cooldown)
    OBVIOUS
  <2>2. ASSUME NEW a \in alog, a[1] = "unknown", a[2] \notin Recent("unknown", time, Cooldown)
        PROVE  a[3] + Cooldown < time
    BY <1>0, <2>2 DEF Recent
  <2> QED
    BY <1>0, <2>1, <2>2 DEF AlertTimes, CooldownKept
<1>2. CASE ScanDevice
  <2> PICK d \in Dev :
        /\ scan \in Scans /\ scan.pc = "walk" /\ d \in scan.todo /\ scan'.pc = "walk" /\ scan'.now = scan.now
        /\ scan'.recent = scan.recent /\ scan'.todo = scan.todo \ {d} /\ UNCHANGED time
        /\ \/ d \notin scan.recent /\ alog' = alog \cup {<<"unknown", d, scan.now>>}
           \/ alog' = alog
    BY <1>0, <1>2, WalkedDevice, Zenon
  <2>1. CASE alog' = alog
    BY <2>1 DEF AlertTimes, CooldownKept
  <2>2. CASE d \notin scan.recent /\ alog' = alog \cup {<<"unknown", d, scan.now>>}
    <3>1. \A a \in alog : a[1] = "unknown" /\ a[2] = d => a[3] + Cooldown < scan.now
      BY <2>2 DEF AlertTimes
    <3>2. CooldownKept'
      BY <1>0, <1>n, <2>2, <3>1 DEF CooldownKept
    <3> QED
      BY <1>0, <1>n, <2>2, <3>2 DEF AlertTimes
  <2> QED
    BY <2>1, <2>2
<1>3. CASE ScanReload
  <2>1. scan'.pc # "walk" /\ scan'.now = scan.now /\ scan.pc # "idle" /\ UNCHANGED <<time, alog>>
    BY <1>3, <1>n DEF ScanReload, Scans
  <2> QED
    BY <2>1 DEF AlertTimes, CooldownKept
<1>4. CASE ScanSave
  <2>1. scan'.pc # "walk" /\ scan'.now = scan.now /\ scan.pc # "idle" /\ UNCHANGED <<time, alog>>
    BY <1>4, <1>n DEF ScanSave, Scans
  <2> QED
    BY <2>1 DEF AlertTimes, CooldownKept
<1>5. CASE ScanTraffic
  <2> PICK odd \in SUBSET Odd : alog' = alog \cup {<<"traffic", d, time>> : d \in odd \ Recent("traffic", time, Day)}
    BY <1>5, Zenon DEF ScanTraffic, AppendAlert
  <2>1. scan'.pc = "idle" /\ UNCHANGED time
    BY <1>5 DEF ScanTraffic, NoScan
  <2>2. \A a \in alog : a[1] = "traffic" /\ a[2] \notin Recent("traffic", time, Day) => a[3] + Day < time
    BY <1>0 DEF Recent
  <2>3. ASSUME NEW b \in alog' PROVE b \in alog \/ (b[1] = "traffic" /\ b[3] = time /\ b[2] \notin Recent("traffic", time, Day))
    OBVIOUS
  <2>4. CooldownKept'
    <3> SUFFICES ASSUME NEW a \in alog', NEW b \in alog', a[1] = b[1], a[2] = b[2], a[3] < b[3]
                 PROVE  b[3] - a[3] > (IF a[1] = "unknown" THEN Cooldown ELSE Day)
      BY DEF CooldownKept
    <3>1. a \in alog
      BY <1>0, <2>3 DEF AlertTimes
    <3>2. CASE b \in alog
      BY <3>1, <3>2 DEF CooldownKept
    <3>3. CASE b \notin alog
      BY <1>0, <2>2, <2>3, <3>1, <3>3
    <3> QED
      BY <3>2, <3>3
  <2> QED
    BY <1>0, <2>1, <2>3, <2>4 DEF AlertTimes
<1>6. CASE ScanCrash
  BY <1>6 DEF ScanCrash, AlertTimes, CooldownKept, NoScan
<1>7. CASE MarkLoad
  BY <1>7 DEF MarkLoad, AlertTimes, CooldownKept
<1>8. CASE MarkSave
  BY <1>8 DEF MarkSave, AlertTimes, CooldownKept
<1>9. CASE Pass
  BY <1>0, <1>n, <1>9 DEF Pass, AlertTimes, CooldownKept
<1>10. CASE UNCHANGED alertVars
  BY <1>10 DEF alertVars, AlertTimes, CooldownKept
<1> QED
  BY <1>1, <1>2, <1>3, <1>4, <1>5, <1>6, <1>7, <1>8, <1>9, <1>10 DEF AlertNext

\* Nobody is untold of.
LEMMA ToldStays ==
  ASSUME AlertPlaces, [AlertNext]_alertVars
  PROVE  alog \subseteq alog' /\ \A d : Told(d) => Told(d)'
<1>1. alog \subseteq alog' /\ dropped \subseteq dropped'
  <2>1. CASE ScanDevice
    BY <2>1, WalkedDevice
  <2>2. CASE ~ScanDevice
    BY <2>2 DEF AlertNext, ScanStart, ScanReload, ScanSave, ScanTraffic, ScanCrash, MarkLoad, MarkSave, Pass,
       alertVars, AppendAlert
  <2> QED
    BY <2>1, <2>2
<1> QED
  BY <1>1 DEF Told

\* The ledgers stay true, the copies of the scan and of the mark too.
LEMMA AllToldStep == ASSUME AlertInv, [AlertNext]_alertVars PROVE AllTold'
<1> USE DEF AlertInv
<1>0. AlertPlaces
  OBVIOUS
<1>n. scan.pc # "idle" => scan \in Scans
  BY <1>0, ScanFields
<1>m. mark.pc # "idle" => mark \in Marks
  BY <1>0, MarkFields
<1>t. alog \subseteq alog' /\ \A d : Told(d) => Told(d)'
  BY <1>0, ToldStays
<1>1. CASE ScanStart
  <2> PICK online \in SUBSET Dev, lapse \in BOOLEAN :
        /\ scan' = [pc |-> "walk", now |-> time, todo |-> online, led |-> LoadLedger(lapse),
                    recent |-> Recent("unknown", time, Cooldown), dirty |-> FALSE]
        /\ UNCHANGED <<ledger, mark>>
    BY <1>1, Zenon DEF ScanStart
  <2>1. scan'.led = LoadLedger(lapse) /\ scan'.recent = Recent("unknown", time, Cooldown)
    OBVIOUS
  <2>2. \A d \in Recent("unknown", time, Cooldown) : Told(d)
    BY DEF Recent, Told
  <2>3. TrueLedger(LoadLedger(lapse))
    BY DEF AllTold, TrueLedger, LoadLedger
  <2> QED
    BY <1>t, <2>1, <2>2, <2>3 DEF AllTold, TrueLedger
<1>2. CASE ScanDevice
  <2> PICK d \in Dev :
        /\ scan \in Scans /\ scan.pc = "walk" /\ scan' \in Scans /\ scan'.recent = scan.recent
        /\ scan'.led = [scan.led EXCEPT ![d] = IF scan.led[d] = None THEN Seen ELSE scan.led[d]]
        /\ UNCHANGED <<ledger, mark>>
        /\ \/ alog' = alog \cup {<<"unknown", d, scan.now>>}
           \/ dropped' = dropped \cup {d}
           \/ scan.led[d] # None \/ d \in scan.recent
    BY <1>0, <1>2, WalkedDevice, Zenon
  <2>1. scan.led \in [Dev -> None..Known]
    BY DEF Scans, Ledgers
  <2>2. scan.led[d] # None \/ Told(d)'
    <3>1. CASE alog' = alog \cup {<<"unknown", d, scan.now>>}
      <4> DEFINE a == <<"unknown", d, scan.now>>
      <4>1. a \in alog' /\ a[1] = "unknown" /\ a[2] = d
        BY <3>1
      <4> HIDE DEF a
      <4> QED
        BY <4>1, Zenon DEF Told
    <3>2. CASE dropped' = dropped \cup {d}
      BY <3>2 DEF Told
    <3>3. CASE d \in scan.recent
      BY <1>t, <3>3 DEF AllTold
    <3> QED
      BY <3>1, <3>2, <3>3
  <2>3. ASSUME NEW e \in Dev, scan'.led[e] # None PROVE Told(e)' \/ scan'.led[e] = Known
    BY <1>t, <2>1, <2>2, <2>3 DEF AllTold, TrueLedger
  <2> QED
    BY <1>t, <2>3 DEF AllTold, TrueLedger
<1>3. CASE ScanReload
  <2>1. scan \in Scans /\ UNCHANGED <<ledger, mark>> /\ scan.pc # "idle"
    BY <1>3, <1>n DEF ScanReload
  <2>2. PICK lapse \in BOOLEAN : scan'.led \in {scan.led, Merge(LoadLedger(lapse), scan.led)} /\ scan'.recent = scan.recent
    BY <1>3, <2>1 DEF ScanReload, Scans
  <2>3. TrueLedger(scan.led) /\ TrueLedger(LoadLedger(lapse))
    BY <2>1 DEF AllTold, TrueLedger, LoadLedger
  <2>4. TrueLedger(Merge(LoadLedger(lapse), scan.led))
    BY <2>3 DEF TrueLedger, Merge
  <2> QED
    BY <1>t, <2>1, <2>2, <2>3, <2>4 DEF AllTold, TrueLedger
<1>4. CASE ScanSave
  <2>1. scan \in Scans /\ UNCHANGED mark /\ ledger' \in {scan.led, ledger} /\ scan.pc # "idle"
    BY <1>4, <1>n DEF ScanSave
  <2>2. scan'.led = scan.led /\ scan'.recent = scan.recent
    BY <1>4, <2>1 DEF ScanSave, Scans
  <2> QED
    BY <1>t, <2>1, <2>2 DEF AllTold, TrueLedger
<1>5. CASE ScanTraffic \/ ScanCrash
  <2>1. scan' = NoScan /\ UNCHANGED <<ledger, mark>>
    BY <1>5 DEF ScanTraffic, ScanCrash
  <2> QED
    BY <1>t, <2>1 DEF AllTold, TrueLedger, NoScan
<1>7. CASE MarkLoad
  <2> PICK d \in Dev, lapse \in BOOLEAN :
        /\ mark' = [pc |-> "save", d |-> d, led |-> [LoadLedger(lapse) EXCEPT ![d] = Known]]
        /\ UNCHANGED <<ledger, scan>>
    BY <1>7, Zenon DEF MarkLoad
  <2>1. mark'.led = [LoadLedger(lapse) EXCEPT ![d] = Known] /\ LoadLedger(lapse) \in [Dev -> None..Known]
    BY <1>0 DEF AlertPlaces, Ledgers, LoadLedger, None, Known
  <2>2. TrueLedger(LoadLedger(lapse))
    BY DEF AllTold, TrueLedger, LoadLedger
  <2> QED
    BY <1>t, <2>1, <2>2 DEF AllTold, TrueLedger
<1>8. CASE MarkSave
  <2>1. ledger' \in {mark.led, ledger} /\ mark' = NoMark /\ UNCHANGED scan /\ mark.pc # "idle"
    BY <1>8 DEF MarkSave
  <2> QED
    BY <1>t, <2>1 DEF AllTold, TrueLedger, NoMark
<1>9. CASE Pass \/ UNCHANGED alertVars
  <2>1. UNCHANGED <<ledger, scan, mark>>
    BY <1>9 DEF Pass, alertVars
  <2> QED
    BY <1>t, <2>1 DEF AllTold, TrueLedger
<1> QED
  BY <1>1, <1>2, <1>3, <1>4, <1>5, <1>7, <1>8, <1>9 DEF AlertNext

\* While the two writers do not meet, what one acknowledged survives the other.
LEMMA ApartStep == ASSUME AlertInv, [AlertNext]_alertVars PROVE Apart'
<1> USE DEF AlertInv
<1>0. AlertPlaces /\ ledger \in [Dev -> None..Known] /\ acked \subseteq Dev
  BY DEF AlertPlaces, Ledgers
<1>n. scan.pc # "idle" => scan \in Scans
  BY <1>0, ScanFields
<1>m. mark.pc # "idle" => mark \in Marks
  BY <1>0, MarkFields
<1>p. scan.pc \in {"idle", "walk", "save", "traffic"} /\ mark.pc \in {"idle", "save"}
  BY <1>0 DEF AlertPlaces, Scans, Marks, NoScan, NoMark
<1>c. crossed => crossed'
  <2>1. CASE ScanDevice
    BY <1>0, <2>1, WalkedDevice, Zenon
  <2>2. CASE ~ScanDevice
    BY <2>2, Zenon DEF AlertNext, ScanStart, ScanReload, ScanSave, ScanTraffic, ScanCrash, MarkLoad, MarkSave, Pass, alertVars
  <2> QED
    BY <2>1, <2>2
<1> SUFFICES ASSUME ~crossed', ~crossed PROVE Apart'
  BY <1>c DEF Apart
<1>a. /\ \A d \in acked : ledger[d] = Known
      /\ scan.pc = "save" => mark.pc = "idle" /\ \A d \in acked : scan.led[d] = Known
      /\ mark.pc = "save" => mark.led = [ledger EXCEPT ![mark.d] = Known]
  BY DEF Apart
<1>1. CASE ScanStart \/ ScanDevice
  <2>1. scan'.pc = "walk" /\ UNCHANGED <<ledger, mark, acked>>
    <3>1. CASE ScanStart
      BY <3>1 DEF ScanStart
    <3>2. CASE ScanDevice
      BY <1>0, <3>2, WalkedDevice
    <3> QED
      BY <1>1, <3>1, <3>2
  <2> QED
    BY <1>a, <2>1 DEF Apart
<1>3. CASE ScanReload
  <2>1. UNCHANGED <<ledger, mark, acked>> /\ scan \in Scans
    BY <1>3, <1>n DEF ScanReload
  <2>2. CASE ~scan.dirty
    <3>1. scan'.pc = "traffic"
      BY <1>3, <2>1, <2>2 DEF ScanReload, Scans
    <3> QED
      BY <1>a, <2>1, <3>1 DEF Apart
  <2>3. CASE scan.dirty
    <3>0. PICK lapse \in BOOLEAN :
            /\ scan' = [scan EXCEPT !.pc = "save", !.led = Merge(LoadLedger(lapse), @)]
            /\ crossed' = (crossed \/ (scan.dirty /\ (lapse \/ mark.pc = "save")))
      BY <1>3, <2>3, Zenon DEF ScanReload
    <3>2. mark.pc # "save" /\ ~lapse
      BY <2>3, <3>0, Zenon
    <3>1. scan'.led = Merge(ledger, scan.led)
      BY <2>1, <3>0, <3>2 DEF Scans, LoadLedger
    <3>3. \A d \in acked : Merge(ledger, scan.led)[d] = Known
      BY <1>0, <1>a DEF Merge, Known, None
    <3> QED
      BY <1>a, <1>p, <2>1, <3>1, <3>2, <3>3 DEF Apart
  <2> QED
    BY <2>2, <2>3
<1>4. CASE ScanSave
  <2>1. UNCHANGED <<mark, acked>> /\ scan.pc = "save" /\ scan \in Scans /\ ledger' \in {scan.led, ledger}
    BY <1>4, <1>n DEF ScanSave
  <2>2. scan'.pc = "traffic"
    BY <1>4, <2>1 DEF ScanSave, Scans
  <2>3. mark.pc = "idle" /\ \A d \in acked : ledger'[d] = Known
    BY <1>a, <2>1
  <2> QED
    BY <2>1, <2>2, <2>3 DEF Apart
<1>5. CASE ScanTraffic \/ ScanCrash
  <2>1. scan' = NoScan /\ UNCHANGED <<ledger, mark, acked>>
    BY <1>5 DEF ScanTraffic, ScanCrash
  <2> QED
    BY <1>a, <2>1 DEF Apart, NoScan
<1>7. CASE MarkLoad
  <2> PICK d \in Dev, lapse \in BOOLEAN :
        /\ mark' = [pc |-> "save", d |-> d, led |-> [LoadLedger(lapse) EXCEPT ![d] = Known]]
        /\ UNCHANGED <<ledger, scan, acked>> /\ crossed' = (crossed \/ lapse \/ scan.pc = "save")
    BY <1>7, Zenon DEF MarkLoad
  <2>1. scan.pc # "save" /\ ~lapse
    BY Zenon
  <2>2. mark'.led = [ledger EXCEPT ![mark'.d] = Known]
    BY <2>1 DEF LoadLedger
  <2> QED
    BY <1>a, <2>1, <2>2 DEF Apart
<1>8. CASE MarkSave
  <2>1. /\ (ledger' = mark.led /\ acked' = acked \cup {mark.d}) \/ UNCHANGED <<ledger, acked>>
        /\ mark' = NoMark /\ UNCHANGED scan /\ mark.pc = "save" /\ mark \in Marks
    BY <1>8, <1>m DEF MarkSave
  <2>2. scan.pc # "save" /\ mark.d \in Dev
    BY <1>a, <2>1 DEF Marks
  <2>3. \A d \in acked' : ledger'[d] = Known
    BY <1>0, <1>a, <2>1, <2>2
  <2> QED
    BY <2>1, <2>2, <2>3 DEF Apart, NoMark
<1>9. CASE Pass \/ UNCHANGED alertVars
  <2>1. UNCHANGED <<ledger, scan, mark, acked>>
    BY <1>9 DEF Pass, alertVars
  <2> QED
    BY <1>a, <2>1 DEF Apart
<1> QED
  BY <1>1, <1>3, <1>4, <1>5, <1>7, <1>8, <1>9 DEF AlertNext

\* Every step of the two programs keeps the invariant.
LEMMA AlertStep == ASSUME AlertInv, [AlertNext]_alertVars PROVE AlertInv'
  BY AlertPlacesStep, AlertTimesStep, AllToldStep, ApartStep, Zenon DEF AlertInv

-----------------------------------------------------------------------------
(* The rule packs.                                                         *)

\* The host or domain of a set that no other one of it lies below.
Nearest(x, L) == x \in L /\ \A y \in L : y = x \/ y \in Ups[x]

\* Among hosts at or above one host there is a nearest.
LEMMA NearestExists ==
  ASSUME NEW h \in Host, NEW L \in SUBSET (Ups[h] \cup {h}), L # {}
  PROVE  \E x \in L : Nearest(x, L)
<1>a. /\ Ups[h] \in SUBSET Host /\ IsFiniteSet(Ups[h])
      /\ \A x, y \in Ups[h] : x = y \/ x \in Ups[y] \/ y \in Ups[x]
      /\ \A x \in Ups[h] : Ups[x] \subseteq Ups[h] /\ x \notin Ups[x] /\ IsFiniteSet(Ups[x])
      /\ \A x, y \in Ups[h] : x \in Ups[y] => Ups[x] \subseteq Ups[y]
  BY PackAssumption
<1>1. CASE h \in L
  BY <1>1 DEF Nearest
<1>2. CASE h \notin L
  <2>1. L \subseteq Ups[h]
    BY <1>2
  <2> DEFINE n == Cardinality(Ups[h])
             T == {n - Cardinality(Ups[x]) : x \in L}
  <2>2. n \in Nat /\ \A x \in L : Cardinality(Ups[x]) \in Nat /\ Cardinality(Ups[x]) <= n
    BY <1>a, <2>1, FS_Subset, FS_CardinalityType
  <2>3. T \subseteq Nat /\ T # {}
    BY <2>2
  <2>4. PICK m \in T : \A k \in T : m <= k
    BY <2>3, LeastOf
  <2>5. PICK x \in L : m = n - Cardinality(Ups[x])
    OBVIOUS
  <2>6. \A y \in L : Cardinality(Ups[y]) <= Cardinality(Ups[x])
    <3> SUFFICES ASSUME NEW y \in L PROVE Cardinality(Ups[y]) <= Cardinality(Ups[x])
      OBVIOUS
    <3>1. m <= n - Cardinality(Ups[y])
      BY <2>4
    <3> HIDE DEF n
    <3> QED
      BY <2>2, <2>5, <3>1
  <2> HIDE DEF T, n
  <2>7. ASSUME NEW y \in L, y # x, x \in Ups[y] PROVE FALSE
    <3>1. Ups[x] \subseteq Ups[y] /\ x \notin Ups[x] /\ IsFiniteSet(Ups[y])
      BY <1>a, <2>1, <2>7
    <3>2. Cardinality(Ups[x]) <= Cardinality(Ups[y])
      BY <3>1, FS_Subset
    <3>3. Cardinality(Ups[x]) = Cardinality(Ups[y])
      BY <2>2, <2>6, <3>2
    <3>4. Ups[x] = Ups[y]
      BY <3>1, <3>3, FS_Subset
    <3> QED
      BY <2>7, <3>1, <3>4
  <2> QED
    BY <1>a, <2>1, <2>7 DEF Nearest
<1> QED
  BY <1>1, <1>2

\* There is only one.
LEMMA NearestUnique ==
  ASSUME NEW L \in SUBSET Host, NEW x, NEW y, Nearest(x, L), Nearest(y, L)
  PROVE  x = y
  BY PackAssumption DEF Nearest

Line(h) == Ups[h] \cup {h}
OwnLine(h) == {x \in Line(h) : owned[x] # NoApp}

\* longestOwner finds an owner exactly if a host at or above h has one.
LEMMA OwnerOf ==
  ASSUME NEW h \in Host
  PROVE  /\ LongestOwner(owned, h) # NoApp <=> OwnLine(h) # {}
         /\ OwnLine(h) # {} => \E x \in OwnLine(h) : Nearest(x, OwnLine(h)) /\ LongestOwner(owned, h) = owned[x]
<1>1. LongestOwner(owned, h) = IF OwnLine(h) = {} THEN NoApp
                               ELSE owned[CHOOSE x \in OwnLine(h) : \A y \in OwnLine(h) : y = x \/ y \in Ups[x]]
  BY Zenon DEF LongestOwner, OwnLine, Line
<1>2. CASE OwnLine(h) # {}
  <2>1. \E x \in OwnLine(h) : Nearest(x, OwnLine(h))
    <3>1. OwnLine(h) \in SUBSET (Ups[h] \cup {h})
      BY DEF OwnLine, Line
    <3> QED
      BY <1>2, <3>1, NearestExists
  <2> DEFINE c == CHOOSE x \in OwnLine(h) : \A y \in OwnLine(h) : y = x \/ y \in Ups[x]
  <2>2. c \in OwnLine(h) /\ Nearest(c, OwnLine(h))
    BY <2>1 DEF Nearest
  <2>3. LongestOwner(owned, h) = owned[c]
    BY <1>1, <1>2
  <2> HIDE DEF c
  <2>4. owned[c] # NoApp
    BY <2>2 DEF OwnLine
  <2> QED
    BY <1>2, <2>2, <2>3, <2>4
<1> QED
  BY <1>1, <1>2

Imported == [parent : App \cup {Foreign}, sufs : SUBSET Host]
Jobs == [pc : {"dom", "fp"}, e : Entries]
ParentOf(e) == IF e.attach = NoApp THEN Foreign ELSE e.attach
StoredDom(e) == Kept(owned, e) # {} => e.id \in DOMAIN imp /\ Kept(owned, e) \subseteq imp[e.id].sufs

PackTypes ==
  /\ owned \in [Host -> App \cup {NoApp}]
  /\ DOMAIN imp \subseteq App /\ \A i \in DOMAIN imp : imp[i] \in Imported
  /\ job \in Jobs \cup {[pc |-> "idle"]} /\ okPack \in Entries \cup {NoPack}

\* No imported suffix lies at or below a host of this phone's rules.
ImportsFree == \A i \in DOMAIN imp : \A h \in imp[i].sufs : LongestOwner(owned, h) = NoApp

\* A running import for an id that is there has its parent, or the id is mixed.
JobParent == job.pc = "dom" /\ job.e.id \in DOMAIN imp => imp[job.e.id].parent = ParentOf(job.e) \/ job.e.id \in mixed
JobStored == job.pc = "fp" => StoredDom(job.e)

PackInv == PackTypes /\ ImportsFree /\ CoversOnlyOwn /\ JobParent /\ JobStored /\ OkMeansStored

\* The label of a host that has a local one is the local one.
LEMMA LabelsLocal == PackTypes /\ ImportsFree => LocalLabelsKept
<1> SUFFICES ASSUME PackTypes, ImportsFree, NEW h \in Host, LongestOwner(owned, h) # NoApp
             PROVE  Labels(h) = {LongestOwner(owned, h)}
  BY DEF LocalLabelsKept
<1> DEFINE all == OwnLine(h) \cup {x \in Line(h) : \E i \in DOMAIN imp : x \in imp[i].sufs}
           c == CHOOSE x \in all : \A y \in all : y = x \/ y \in Ups[x]
<1>h. Line(h) \subseteq Host /\ all \subseteq Line(h)
  BY PackAssumption DEF Line, OwnLine
<1>1. PICK o \in OwnLine(h) : Nearest(o, OwnLine(h)) /\ LongestOwner(owned, h) = owned[o]
  BY OwnerOf
<1>2. PICK x \in all : Nearest(x, all)
  <2>1. all \in SUBSET (Ups[h] \cup {h}) /\ all # {}
    BY <1>1, <1>h DEF Line
  <2> QED
    BY <2>1, NearestExists
<1>3. c \in all /\ Nearest(c, all)
  BY <1>2 DEF Nearest
<1>4. Labels(h) = (IF owned[c] # NoApp THEN {owned[c]} ELSE {})
                    \cup {imp[i].parent : i \in {i \in DOMAIN imp : c \in imp[i].sufs}}
  BY DEF Labels, Line, OwnLine
<1> HIDE DEF c
<1>5. ASSUME NEW i \in DOMAIN imp, c \in imp[i].sufs PROVE FALSE
  <2>1. LongestOwner(owned, c) = NoApp /\ c \in Host
    BY <1>3, <1>5, <1>h DEF ImportsFree
  <2>2. OwnLine(c) = {}
    BY <2>1, OwnerOf
  <2>3. o \in all
    OBVIOUS
  <2>4. o = c \/ o \in Ups[c]
    BY <1>3, <2>3 DEF Nearest
  <2>5. o \in OwnLine(c)
    BY <1>1, <2>4 DEF OwnLine, Line
  <2> QED
    BY <2>2, <2>5
<1>6. c \in OwnLine(h)
  BY <1>3, <1>5
<1>7. Nearest(c, OwnLine(h))
  BY <1>3, <1>6 DEF Nearest
<1>8. c = o
  BY <1>1, <1>7, <1>h, NearestUnique
<1>9. {i \in DOMAIN imp : c \in imp[i].sufs} = {}
  BY <1>5
<1> QED
  BY <1>1, <1>4, <1>6, <1>8, <1>9 DEF OwnLine

\* The invariant says what the suite checks.
LEMMA PackTyped == PackInv => PackTypeOK /\ LocalLabelsKept /\ CoversOnlyOwn /\ OkMeansStored
<1> SUFFICES ASSUME PackInv PROVE PackTypeOK
  BY LabelsLocal DEF PackInv
<1> QED
  BY DEF PackInv, PackTypes, PackTypeOK, Imported, Jobs

\* Nothing is imported yet.
LEMMA PackStart == PackInit => PackInv
<1> SUFFICES ASSUME PackInit PROVE PackInv
  OBVIOUS
<1>1. DOMAIN imp = {} /\ job = [pc |-> "idle"] /\ okPack = NoPack /\ owned \in [Host -> App \cup {NoApp}]
  BY DEF PackInit
<1> QED
  BY <1>1 DEF PackInv, PackTypes, ImportsFree, CoversOnlyOwn, JobParent, JobStored, OkMeansStored

\* What an import may keep is a host without an owner at or above it, and below it
\* are only hosts of the entry's parent.
LEMMA KeptIs ==
  ASSUME PackTypes, NEW e \in Entries
  PROVE  /\ Kept(owned, e) \subseteq Host /\ e.id \in App /\ ParentOf(e) \in App \cup {Foreign}
         /\ \A h \in Kept(owned, e) : LongestOwner(owned, h) = NoApp /\ BelowOwners(owned, h) \subseteq {ParentOf(e)}
<1>1. e.id \in App /\ e.attach \in App \cup {NoApp} /\ e.sufs \subseteq Host
  BY DEF Entries
<1>2. Kept(owned, e) \subseteq e.sufs
  BY DEF Kept
<1>3. ASSUME NEW h \in Kept(owned, e)
      PROVE  LongestOwner(owned, h) = NoApp /\ BelowOwners(owned, h) \subseteq {e.attach, Foreign}
             /\ (BelowOwners(owned, h) \subseteq {Foreign} \/ (e.attach # NoApp /\ BelowOwners(owned, h) \subseteq {e.attach}))
  BY DEF Kept
<1>4. \A h : BelowOwners(owned, h) \subseteq App
  BY DEF BelowOwners, PackTypes
<1>5. Foreign \notin App
  BY PackAssumption
<1>6. \A h \in Kept(owned, e) : BelowOwners(owned, h) \subseteq {ParentOf(e)}
  BY <1>3, <1>4, <1>5 DEF ParentOf
<1> QED
  BY <1>1, <1>2, <1>3, <1>6 DEF ParentOf

\* The merge of an entry: its id gets what may be kept, the rest stays.
LEMMA MergedDom ==
  ASSUME PackTypes, NEW e \in Entries
  PROVE  /\ DOMAIN imp \subseteq DOMAIN MergeDom(e) /\ DOMAIN MergeDom(e) \subseteq DOMAIN imp \cup {e.id}
         /\ Kept(owned, e) # {} => e.id \in DOMAIN MergeDom(e)
         /\ \A i \in DOMAIN MergeDom(e) : MergeDom(e)[i] \in Imported
         /\ \A i \in DOMAIN imp : MergeDom(e)[i].parent = imp[i].parent /\ imp[i].sufs \subseteq MergeDom(e)[i].sufs
         /\ \A i \in DOMAIN imp : i # e.id => MergeDom(e)[i] = imp[i]
         /\ e.id \in DOMAIN imp => MergeDom(e)[e.id].sufs = imp[e.id].sufs \cup Kept(owned, e)
         /\ e.id \in DOMAIN MergeDom(e) \ DOMAIN imp =>
              MergeDom(e)[e.id].parent = ParentOf(e) /\ MergeDom(e)[e.id].sufs = Kept(owned, e)
<1> DEFINE keep == Kept(owned, e)
           old(i) == [imp[i] EXCEPT !.sufs = @ \cup keep]
           new == [parent |-> ParentOf(e), sufs |-> keep]
<1>1. keep \subseteq Host /\ e.id \in App /\ ParentOf(e) \in App \cup {Foreign}
  BY KeptIs
<1>2. \A i \in DOMAIN imp : imp[i] \in Imported
  BY DEF PackTypes
<1>3. ASSUME NEW i \in DOMAIN imp
      PROVE  old(i) \in Imported /\ old(i).parent = imp[i].parent /\ old(i).sufs = imp[i].sufs \cup keep
  BY <1>1, <1>2 DEF Imported
<1>4. new \in Imported /\ new.parent = ParentOf(e) /\ new.sufs = keep
  BY <1>1 DEF Imported
<1>5. MergeDom(e) = IF keep = {} THEN imp
                    ELSE [i \in DOMAIN imp \cup {e.id} |-> IF i # e.id THEN imp[i] ELSE IF i \in DOMAIN imp THEN old(i) ELSE new]
  BY Zenon DEF MergeDom, ParentOf
<1> HIDE DEF keep, old, new
<1>6. CASE keep = {}
  <2>1. MergeDom(e) = imp
    BY <1>5, <1>6
  <2> QED
    BY <1>2, <1>6, <2>1 DEF keep
<1>7. CASE keep # {}
  <2> DEFINE M == [i \in DOMAIN imp \cup {e.id} |-> IF i # e.id THEN imp[i] ELSE IF i \in DOMAIN imp THEN old(i) ELSE new]
  <2>1. MergeDom(e) = M
    BY <1>5, <1>7
  <2>2. DOMAIN M = DOMAIN imp \cup {e.id}
    OBVIOUS
  <2>3. \A i \in DOMAIN imp : i # e.id => M[i] = imp[i]
    OBVIOUS
  <2>4. M[e.id] = IF e.id \in DOMAIN imp THEN old(e.id) ELSE new
    OBVIOUS
  <2> HIDE DEF M
  <2>5. \A i \in DOMAIN M : M[i] \in Imported
    BY <1>2, <1>3, <1>4, <2>2, <2>3, <2>4
  <2> QED
    BY <1>3, <1>4, <2>1, <2>2, <2>3, <2>4, <2>5 DEF keep
<1> QED
  BY <1>6, <1>7

\* Every step of an import and of a removal keeps the invariant.
LEMMA PackStep == ASSUME PackInv, [PackNext]_packVars PROVE PackInv'
<1> USE DEF PackInv
<1>0. PackTypes
  OBVIOUS
<1>w. ASSUME WriteErr, UNCHANGED <<owned, imp, mixed>> PROVE PackInv'
  <2>1. job' = [pc |-> "idle"] /\ okPack' = NoPack
    BY <1>w DEF WriteErr
  <2> QED
    BY <1>w, <2>1 DEF PackTypes, ImportsFree, CoversOnlyOwn, JobParent, JobStored, OkMeansStored
<1>1. CASE StartImport
  <2> PICK e \in Entries :
        /\ job' = [pc |-> "dom", e |-> e] /\ UNCHANGED <<owned, imp, fpImp, okPack>>
        /\ mixed' = IF e.id \in DOMAIN imp /\ imp[e.id].parent # ParentOf(e) THEN mixed \cup {e.id} ELSE mixed
    BY <1>1, Zenon DEF StartImport, ParentOf
  <2>1. job' \in Jobs /\ job'.pc = "dom" /\ job'.e = e
    BY DEF Jobs
  <2>2. mixed \subseteq mixed' /\ (e.id \in DOMAIN imp => imp[e.id].parent = ParentOf(e) \/ e.id \in mixed')
    OBVIOUS
  <2>3. PackTypes' /\ ImportsFree' /\ OkMeansStored' /\ CoversOnlyOwn'
    BY <2>1, <2>2 DEF PackTypes, ImportsFree, OkMeansStored, CoversOnlyOwn
  <2>4. JobParent' /\ JobStored'
    BY <2>1, <2>2 DEF JobParent, JobStored, ParentOf
  <2> QED
    BY <2>3, <2>4
<1>2. CASE WriteDom
  <2>1. CASE WriteErr /\ UNCHANGED imp
    BY <1>2, <1>w, <2>1 DEF WriteDom
  <2>2. CASE imp' = MergeDom(job.e) /\ job' = [job EXCEPT !.pc = "fp"] /\ UNCHANGED okPack
    <3> DEFINE e == job.e
    <3>1. job \in Jobs /\ job.pc = "dom" /\ UNCHANGED <<owned, fpImp, mixed>>
      BY <1>0, <1>2 DEF WriteDom, PackTypes
    <3>2. e \in Entries /\ job' \in Jobs /\ job'.pc = "fp" /\ job'.e = e
      BY <2>2, <3>1 DEF Jobs
    <3>3. /\ e.id \in App /\ \A h \in Kept(owned, e) : LongestOwner(owned, h) = NoApp
          /\ \A h \in Kept(owned, e) : BelowOwners(owned, h) \subseteq {ParentOf(e)}
      BY <1>0, <3>2, KeptIs
    <3>4. /\ DOMAIN imp \subseteq DOMAIN imp' /\ DOMAIN imp' \subseteq DOMAIN imp \cup {e.id}
          /\ Kept(owned, e) # {} => e.id \in DOMAIN imp'
          /\ \A i \in DOMAIN imp' : imp'[i] \in Imported
          /\ \A i \in DOMAIN imp : imp'[i].parent = imp[i].parent /\ imp[i].sufs \subseteq imp'[i].sufs
          /\ \A i \in DOMAIN imp : i # e.id => imp'[i] = imp[i]
          /\ e.id \in DOMAIN imp => imp'[e.id].sufs = imp[e.id].sufs \cup Kept(owned, e)
          /\ e.id \in DOMAIN imp' \ DOMAIN imp => imp'[e.id].parent = ParentOf(e) /\ imp'[e.id].sufs = Kept(owned, e)
      BY <1>0, <2>2, <3>2, MergedDom, Zenon
    <3>5. e.id \in DOMAIN imp => imp[e.id].parent = ParentOf(e) \/ e.id \in mixed
      BY <3>1 DEF JobParent
    <3> HIDE DEF e
    <3>7. PackTypes'
      BY <1>0, <2>2, <3>1, <3>2, <3>3, <3>4 DEF PackTypes
    <3>8. ImportsFree'
      BY <3>1, <3>3, <3>4 DEF ImportsFree
    <3>9. CoversOnlyOwn'
      <4> SUFFICES ASSUME NEW i \in DOMAIN imp' \ mixed, NEW h \in imp'[i].sufs
                   PROVE  BelowOwners(owned, h) \subseteq {imp'[i].parent}
        BY <3>1 DEF CoversOnlyOwn
      <4>1. CASE i \in DOMAIN imp /\ h \in imp[i].sufs
        BY <3>4, <4>1 DEF CoversOnlyOwn
      <4>2. CASE ~(i \in DOMAIN imp /\ h \in imp[i].sufs)
        <5>1. i = e.id /\ h \in Kept(owned, e) /\ imp'[i].parent = ParentOf(e)
          BY <3>4, <3>5, <4>2
        <5> QED
          BY <3>3, <5>1
      <4> QED
        BY <4>1, <4>2
    <3>10. Kept(owned, e) # {} => e.id \in DOMAIN imp' /\ Kept(owned, e) \subseteq imp'[e.id].sufs
      BY <3>4
    <3>11. JobParent' /\ JobStored'
      BY <3>1, <3>2, <3>10 DEF JobParent, JobStored, StoredDom
    <3>12. OkMeansStored'
      <4> SUFFICES ASSUME okPack # NoPack
                   PROVE  /\ Kept(owned, okPack) # {} => okPack.id \in DOMAIN imp' /\ Kept(owned, okPack) \subseteq imp'[okPack.id].sufs
                          /\ "k" \in DOMAIN fpImp /\ fpImp["k"] = okPack.id
        BY <2>2, <3>1 DEF OkMeansStored
      <4> QED
        BY <3>4 DEF OkMeansStored
    <3> QED
      BY <3>7, <3>8, <3>9, <3>11, <3>12
  <2> QED
    BY <1>2, <2>1, <2>2 DEF WriteDom
<1>3. CASE WriteFp
  <2>1. CASE WriteErr /\ UNCHANGED fpImp
    BY <1>3, <1>w, <2>1 DEF WriteFp
  <2>2. CASE fpImp' = NewFps /\ job' = [pc |-> "idle"] /\ okPack' = job.e
    <3>1. job \in Jobs /\ job.pc = "fp" /\ UNCHANGED <<owned, imp, mixed>>
      BY <1>0, <1>3 DEF WriteFp, PackTypes
    <3>2. job.e \in Entries /\ StoredDom(job.e)
      BY <3>1 DEF Jobs, JobStored
    <3>3. "k" \in DOMAIN fpImp' /\ fpImp'["k"] = job.e.id
      BY <2>2 DEF NewFps
    <3>4. OkMeansStored'
      BY <2>2, <3>1, <3>2, <3>3 DEF OkMeansStored, StoredDom
    <3> QED
      BY <1>0, <2>2, <3>1, <3>2, <3>4 DEF PackTypes, ImportsFree, CoversOnlyOwn, JobParent, JobStored
  <2> QED
    BY <1>3, <2>1, <2>2 DEF WriteFp
<1>4. CASE ClearPack
  <2>1. DOMAIN imp' = {} /\ okPack' = NoPack /\ UNCHANGED <<owned, job>> /\ job.pc = "idle"
    BY <1>4 DEF ClearPack
  <2> QED
    BY <1>0, <2>1 DEF PackTypes, ImportsFree, CoversOnlyOwn, JobParent, JobStored, OkMeansStored
<1>5. CASE UNCHANGED packVars
  BY <1>5 DEF packVars, PackTypes, ImportsFree, CoversOnlyOwn, JobParent, JobStored, StoredDom, OkMeansStored
<1> QED
  BY <1>1, <1>2, <1>3, <1>4, <1>5 DEF PackNext

-----------------------------------------------------------------------------
(* The suggestions.                                                        *)

Profiles(t) == [first : Int, last : -1..t, new : BOOLEAN]

SuggestPlaces ==
  /\ clk \in 1..MaxClk /\ score \in [Pairs -> {0, 40, 60}]
  /\ prof \in [Macs -> Profiles(clk)] /\ sugg \in [Macs -> SUBSET Macs]
  /\ \A m \in Macs : m \notin sugg[m]
  /\ dismissed \in [Pairs -> Int] /\ alerted \in [Macs -> -1..clk]
  /\ gone \subseteq Macs /\ booted \in BOOLEAN
  /\ tickObs \in [on : BOOLEAN, now : 0..clk, seen : SUBSET Macs, gone : SUBSET Macs]

\* Who has not been alerted about has been told nothing of.
ToldAlerted == /\ told \in [Macs -> 0..1]
               /\ \A m \in Macs : alerted[m] < 0 => told[m] = 0

SuggestInv == SuggestPlaces /\ DismissedStays /\ MergedNotProposed /\ ToldAlerted

\* The invariant says what the suite checks.
LEMMA SuggestTyped == SuggestInv => SuggestTypeOK /\ DismissedStays /\ MergedNotProposed /\ OneAlertPerMac
<1> SUFFICES ASSUME SuggestInv PROVE SuggestTypeOK /\ OneAlertPerMac
  BY DEF SuggestInv
<1> USE DEF SuggestInv
<1>1. OneAlertPerMac
  BY DEF ToldAlerted, OneAlertPerMac
<1>2. \A m \in Macs : prof[m].last \in -1..clk
  BY DEF SuggestPlaces, Profiles
<1>3. \A m \in Macs : sugg[m] \subseteq Macs \ {m} /\ alerted[m] \in -1..clk
  BY DEF SuggestPlaces
<1> QED
  BY <1>1, <1>2, <1>3 DEF SuggestPlaces, SuggestTypeOK

\* No profile, no suggestion.
LEMMA SuggestStart == SuggestInit => SuggestInv
<1> SUFFICES ASSUME SuggestInit PROVE SuggestInv
  OBVIOUS
<1>1. clk = 1 /\ score \in [Pairs -> {0, 40, 60}] /\ clk \in 1..MaxClk
  BY SuggestAssumption DEF SuggestInit
<1>2. NoProfile \in Profiles(clk)
  BY <1>1 DEF NoProfile, Profiles
<1>3. prof \in [Macs -> Profiles(clk)]
  BY <1>2 DEF SuggestInit
<1>4. NoObs \in [on : BOOLEAN, now : 0..clk, seen : SUBSET Macs, gone : SUBSET Macs]
  BY <1>1 DEF NoObs
<1>5. SuggestPlaces
  <2>1. booted \in BOOLEAN /\ tickObs = NoObs /\ gone = {}
    BY Zenon DEF SuggestInit
  <2>2. sugg \in [Macs -> SUBSET Macs] /\ dismissed \in [Pairs -> Int] /\ alerted \in [Macs -> -1..clk]
    BY <1>1 DEF SuggestInit
  <2>3. \A m \in Macs : m \notin sugg[m]
    BY DEF SuggestInit
  <2> QED
    BY <1>1, <1>3, <1>4, <2>1, <2>2, <2>3 DEF SuggestPlaces
<1>6. DismissedStays /\ MergedNotProposed
  BY DEF SuggestInit, DismissedStays, MergedNotProposed, Pairs
<1>7. ToldAlerted
  BY DEF SuggestInit, ToldAlerted
<1> QED
  BY <1>5, <1>6, <1>7 DEF SuggestInv

\* A profile stays one when the clock goes on.
LEMMA LaterProfile ==
  ASSUME NEW s \in Nat, NEW t \in Nat, s <= t
  PROVE  Profiles(s) \subseteq Profiles(t)
  BY DEF Profiles

\* What a round does, with the names of its parts.
RoundSaves(P, S1, there, loud) ==
  /\ prof' = [m \in Macs |-> IF m \in there THEN P[m] ELSE NoProfile]
  /\ sugg' = Pruned(S1, there)
  /\ dismissed' = [p \in Pairs |-> IF dismissed[p] >= 0 /\ tickObs.now - dismissed[p] > DismissTTL
                                   THEN -1 ELSE dismissed[p]]
  /\ alerted' = [m \in Macs |->
        LET a == IF m \in loud THEN tickObs.now ELSE alerted[m]
        IN  IF m \notin there /\ a >= 0 /\ tickObs.now - a > NewWindow THEN -1 ELSE a]
  /\ booted' = TRUE /\ behind' = (tickObs.gone # gone)
  /\ AlertsAfterSave(TRUE, loud, there)
RoundFails == /\ told' = [m \in Macs |-> told[m]] /\ UNCHANGED <<prof, sugg, dismissed, alerted, booted, behind>>

\* What is computed or kept for a MAC never names the MAC itself.
LEMMA RoundIs ==
  ASSUME SuggestInv, RoundStep
  PROVE  /\ tickObs.on /\ tickObs' = NoObs /\ UNCHANGED <<clk, score, gone>>
         /\ \E S1 \in [Macs -> SUBSET Macs], there \in SUBSET Macs, loud \in SUBSET Macs :
              /\ \A m \in Macs : m \notin S1[m]
              /\ \A m \in loud : alerted[m] < 0
              /\ RoundSaves([m \in Macs |-> Observed(m)], S1, there, loud) \/ RoundFails
<1> DEFINE P == [m \in Macs |-> Observed(m)]
           re(m) == Recomputed(P, m) /\ m \notin tickObs.gone
<1> PICK S1 \in [Macs -> SUBSET Macs], there \in Survivors(P) :
      /\ \A m \in Macs :
            IF re(m) THEN S1[m] \in Best(m, Candidates(P, m))
            ELSE S1[m] = IF IsRandomised(m) /\ P[m].new /\ m \in tickObs.gone THEN {} ELSE sugg[m]
      /\ LET loud == {m \in Macs : re(m) /\ Loud(S1, m)}
         IN  \/ RoundSaves(P, S1, there, loud)
             \/ AlertsAfterSave(FALSE, loud, Macs) /\ UNCHANGED <<fileVars, behind>>
  BY Zenon DEF RoundStep, RoundSaves
<1> DEFINE loud == {m \in Macs : re(m) /\ Loud(S1, m)}
<1>1. there \in SUBSET Macs
  BY DEF Survivors
<1>2. \A m \in Macs : m \notin Candidates(P, m)
  BY DEF Candidates
<1>3. \A m \in Macs : m \notin S1[m]
  BY <1>2 DEF Best, SuggestInv, SuggestPlaces
<1>4. \A m \in loud : alerted[m] < 0
  BY DEF Loud
<1>5. AlertsAfterSave(FALSE, loud, Macs) => told' = [m \in Macs |-> told[m]]
  <2>1. \A m \in Macs : told[m] + 0 = told[m]
    BY DEF SuggestInv, ToldAlerted
  <2> QED
    BY <2>1 DEF AlertsAfterSave
<1>6. RoundSaves(P, S1, there, loud) \/ RoundFails
  BY <1>5, Zenon DEF RoundFails, fileVars
<1>7. tickObs.on /\ tickObs' = NoObs /\ UNCHANGED <<clk, score, gone>>
  BY DEF RoundStep
<1>8. loud \in SUBSET Macs
  OBVIOUS
<1> HIDE DEF P, re, loud
<1> QED
  BY <1>1, <1>3, <1>4, <1>6, <1>7, <1>8 DEF P

\* What a round observes of a MAC is a profile.
LEMMA ObservedTyped == SuggestPlaces => \A m \in Macs : Observed(m) \in Profiles(clk)
<1> SUFFICES ASSUME SuggestPlaces, NEW m \in Macs PROVE Observed(m) \in Profiles(clk)
  OBVIOUS
<1>1. prof[m] \in Profiles(clk) /\ tickObs.now \in 0..clk /\ booted \in BOOLEAN
  BY DEF SuggestPlaces
<1>2. tickObs.now \in -1..clk /\ tickObs.now \in Int
  BY <1>1 DEF SuggestPlaces
<1>3. [prof[m] EXCEPT !.last = tickObs.now] \in Profiles(clk)
  BY <1>1, <1>2 DEF Profiles
<1>4. [first |-> tickObs.now, last |-> tickObs.now, new |-> booted] \in Profiles(clk)
  BY <1>1, <1>2 DEF Profiles
<1> QED
  BY <1>1, <1>3, <1>4 DEF Observed

\* Every round, dismissal, merge and signal keeps the invariant.
LEMMA SuggestStep == ASSUME SuggestInv, [SuggestNext]_suggVars PROVE SuggestInv'
<1> USE SuggestAssumption DEF SuggestInv
<1>n. NoProfile \in Profiles(clk) /\ clk \in Nat
  BY DEF NoProfile, Profiles, SuggestPlaces
<1>o. NoObs \in [on : BOOLEAN, now : 0..clk, seen : SUBSET Macs, gone : SUBSET Macs]
  BY <1>n DEF NoObs
<1>1. CASE Observe
  <2> PICK online \in SUBSET Macs :
        /\ clk < MaxClk /\ clk' = clk + 1
        /\ tickObs' = [on |-> TRUE, now |-> clk', seen |-> online, gone |-> gone]
        /\ UNCHANGED <<score, prof, sugg, dismissed, alerted, booted, gone, told, behind>>
    BY <1>1, Zenon DEF Observe
  <2>1. clk \in Nat /\ clk' \in 1..MaxClk /\ clk <= clk' /\ clk' \in Nat
    BY DEF SuggestPlaces
  <2>2. prof' \in [Macs -> Profiles(clk')]
    BY <2>1, LaterProfile DEF SuggestPlaces
  <2>3. alerted' \in [Macs -> -1..clk']
    BY <2>1 DEF SuggestPlaces
  <2>4. tickObs' \in [on : BOOLEAN, now : 0..clk', seen : SUBSET Macs, gone : SUBSET Macs]
    BY <2>1 DEF SuggestPlaces
  <2>5. SuggestPlaces'
    BY <2>1, <2>2, <2>3, <2>4 DEF SuggestPlaces
  <2> QED
    BY <2>5 DEF DismissedStays, MergedNotProposed, ToldAlerted
<1>2. CASE RoundStep
  <2> DEFINE P == [m \in Macs |-> Observed(m)]
  <2>1. tickObs' = NoObs /\ UNCHANGED <<clk, score, gone>>
    BY <1>2, RoundIs, Zenon
  <2>2. PICK S1 \in [Macs -> SUBSET Macs], there \in SUBSET Macs, loud \in SUBSET Macs :
          /\ \A m \in Macs : m \notin S1[m]
          /\ \A m \in loud : alerted[m] < 0
          /\ RoundSaves(P, S1, there, loud) \/ RoundFails
    BY <1>2, RoundIs, Zenon
  <2>3. CASE RoundFails
    <3>1. told' = told
      BY <2>3 DEF RoundFails, ToldAlerted
    <3>2. SuggestPlaces'
      BY <1>o, <2>1, <2>3 DEF RoundFails, SuggestPlaces
    <3> QED
      BY <2>1, <2>3, <3>1, <3>2 DEF RoundFails, DismissedStays, MergedNotProposed, ToldAlerted
  <2>4. CASE RoundSaves(P, S1, there, loud)
    <3>1. prof' \in [Macs -> Profiles(clk')]
      BY <1>n, <2>1, <2>4, ObservedTyped DEF RoundSaves
    <3>2. sugg' \in [Macs -> SUBSET Macs] /\ \A m \in Macs : sugg'[m] \subseteq S1[m]
      BY <2>4 DEF RoundSaves, Pruned
    <3>3. dismissed' \in [Pairs -> Int] /\ \A p \in Pairs : dismissed'[p] >= 0 => dismissed[p] >= 0
      BY <2>4 DEF RoundSaves, SuggestPlaces
    <3>t. tickObs.now \in 0..clk /\ clk \in Nat /\ NewWindow \in Nat
      BY DEF SuggestPlaces
    <3>4. alerted' \in [Macs -> -1..clk]
      BY <2>4, <3>t DEF RoundSaves, SuggestPlaces
    <3>5. SuggestPlaces'
      BY <1>o, <2>1, <2>2, <2>4, <3>1, <3>2, <3>3, <3>4 DEF RoundSaves, SuggestPlaces
    <3>6. DismissedStays'
      <4> SUFFICES ASSUME NEW p \in Pairs, dismissed'[p] >= 0, p[2] \in sugg'[p[1]] PROVE FALSE
        BY DEF DismissedStays
      <4>1. dismissed[p] >= 0 /\ p = <<p[1], p[2]>> /\ p[1] \in Macs /\ p[2] \in Macs
        BY <3>3 DEF Pairs
      <4>2. dismissed[<<p[1], p[2]>>] < 0
        BY <2>4, <4>1 DEF RoundSaves, Pruned
      <4> QED
        BY <4>1, <4>2 DEF SuggestPlaces
    <3>7. MergedNotProposed'
      <4>1. behind' = (tickObs.gone # gone) /\ gone' = gone
        BY <2>1, <2>4, Zenon DEF RoundSaves
      <4>2. \A n, o \in Macs : o \in sugg'[n] => o \notin tickObs.gone
        BY <2>4 DEF RoundSaves, Pruned
      <4>3. CASE tickObs.gone # gone
        BY <4>1, <4>3, Zenon DEF MergedNotProposed
      <4>4. CASE tickObs.gone = gone
        BY <4>1, <4>2, <4>4 DEF MergedNotProposed
      <4> QED
        BY <4>3, <4>4
    <3>8. ToldAlerted'
      <4>1. ASSUME NEW m \in Macs
            PROVE  told'[m] = (IF m \in there THEN told[m] ELSE 0) + (IF m \in loud THEN 1 ELSE 0)
        BY <2>4 DEF RoundSaves, AlertsAfterSave
      <4>2. ASSUME NEW m \in Macs
            PROVE  /\ m \in loud => alerted'[m] = tickObs.now
                   /\ m \notin loud /\ alerted'[m] < 0 => alerted[m] < 0 \/ m \notin there
        BY <2>4, <3>t DEF RoundSaves, SuggestPlaces
      <4>3. \A m \in Macs : told[m] \in 0..1 /\ (alerted[m] < 0 => told[m] = 0)
        BY DEF ToldAlerted
      <4>4. ASSUME NEW m \in Macs PROVE told'[m] \in 0..1 /\ (alerted'[m] < 0 => told'[m] = 0)
        <5>1. CASE m \in loud
          BY <2>2, <3>t, <4>1, <4>2, <4>3, <5>1
        <5>2. CASE m \notin loud
          BY <4>1, <4>2, <4>3, <5>2
        <5> QED
          BY <5>1, <5>2
      <4>5. told' \in [Macs -> 0..1]
        BY <2>4, <4>4 DEF RoundSaves, AlertsAfterSave
      <4> QED
        BY <4>4, <4>5 DEF ToldAlerted
    <3> QED
      BY <3>5, <3>6, <3>7, <3>8
  <2> QED
    BY <2>2, <2>3, <2>4
<1>3. CASE Dismiss
  <2> PICK p \in Pairs :
        /\ dismissed' = [dismissed EXCEPT ![p] = clk] /\ sugg' = WithoutPair(p[1], p[2])
        /\ UNCHANGED <<clk, score, prof, alerted, booted, gone, tickObs, told, behind>>
    BY <1>3, Zenon DEF Dismiss
  <2>1. p = <<p[1], p[2]>> /\ p[1] \in Macs /\ p[2] \in Macs
    BY DEF Pairs
  <2>2. /\ sugg' \in [Macs -> SUBSET Macs] /\ \A m \in Macs : sugg'[m] \subseteq sugg[m]
        /\ p[2] \notin sugg'[p[1]]
    BY <2>1 DEF WithoutPair, SuggestPlaces
  <2>3. dismissed' \in [Pairs -> Int] /\ \A q \in Pairs : q # p => dismissed'[q] = dismissed[q]
    BY DEF SuggestPlaces
  <2>4. SuggestPlaces'
    BY <2>2, <2>3 DEF SuggestPlaces
  <2>5. DismissedStays'
    <3> SUFFICES ASSUME NEW q \in Pairs, dismissed'[q] >= 0 PROVE q[2] \notin sugg'[q[1]]
      BY DEF DismissedStays
    <3>1. q = <<q[1], q[2]>> /\ q[1] \in Macs /\ q[2] \in Macs
      BY DEF Pairs
    <3>2. CASE q = p
      BY <2>2, <3>2
    <3>3. CASE q # p
      BY <2>2, <2>3, <3>1, <3>3 DEF DismissedStays
    <3> QED
      BY <3>2, <3>3
  <2> QED
    BY <2>2, <2>4, <2>5 DEF MergedNotProposed, ToldAlerted
<1>4. CASE UserMerges
  <2> PICK p \in Pairs :
        /\ gone' = (gone \ {p[1]}) \cup {p[2]}
        /\ prof' = [prof EXCEPT ![p[1]] = FoldProfile(p[2], p[1]), ![p[2]] = NoProfile]
        /\ sugg' = [m \in Macs |-> IF m \in {p[2], p[1]} THEN {} ELSE sugg[m] \ {p[2], p[1]}]
        /\ told' = [told EXCEPT ![p[2]] = 0]
        /\ UNCHANGED <<clk, score, dismissed, alerted, booted, tickObs, behind>>
    BY <1>4, Zenon DEF UserMerges
  <2> DEFINE new == p[1]
             old == p[2]
  <2>1. new \in Macs /\ old \in Macs
    BY DEF Pairs
  <2>2. FoldProfile(old, new) \in Profiles(clk)
    <3>1. prof[old] \in Profiles(clk) /\ prof[new] \in Profiles(clk)
      BY <2>1 DEF SuggestPlaces
    <3>2. [prof[old] EXCEPT !.new = FALSE] \in Profiles(clk)
      BY <3>1 DEF Profiles
    <3>3. prof[old].first \in Int /\ prof[new].first \in Int
      BY <3>1 DEF Profiles
    <3>4. \A f \in Int : [prof[new] EXCEPT !.new = FALSE, !.first = f] \in Profiles(clk)
      BY <3>1 DEF Profiles
    <3>5. [prof[new] EXCEPT !.new = FALSE, !.first = IF prof[old].first < prof[new].first THEN prof[old].first ELSE prof[new].first]
             \in Profiles(clk)
      BY <3>3, <3>4
    <3>6. FoldProfile(old, new) = IF prof[old] = NoProfile THEN prof[new]
             ELSE IF prof[new] = NoProfile THEN [prof[old] EXCEPT !.new = FALSE]
             ELSE [prof[new] EXCEPT !.new = FALSE,
                       !.first = IF prof[old].first < prof[new].first THEN prof[old].first ELSE prof[new].first]
      BY <3>1 DEF FoldProfile, Profiles
    <3> HIDE DEF old, new
    <3> QED
      BY <3>1, <3>2, <3>5, <3>6
  <2> HIDE DEF old, new
  <2>3. prof' \in [Macs -> Profiles(clk)]
    BY <1>n, <2>1, <2>2 DEF SuggestPlaces, old, new
  <2>4. sugg' \in [Macs -> SUBSET Macs] /\ \A m \in Macs : sugg'[m] \subseteq sugg[m] /\ p[2] \notin sugg'[m]
    BY DEF SuggestPlaces
  <2>5. SuggestPlaces'
    BY <2>1, <2>3, <2>4 DEF SuggestPlaces, old, new
  <2>6. DismissedStays'
    BY <2>4 DEF DismissedStays, Pairs
  <2>7. MergedNotProposed'
    BY <2>4 DEF MergedNotProposed
  <2>8. ToldAlerted'
    BY <2>1 DEF ToldAlerted, old
  <2> QED
    BY <2>5, <2>6, <2>7, <2>8
<1>5. CASE Evidence
  <2>1. /\ score' \in [Pairs -> {0, 40, 60}]
        /\ UNCHANGED <<clk, prof, sugg, dismissed, alerted, booted, gone, tickObs, told, behind>>
    BY <1>5 DEF Evidence, SuggestPlaces
  <2> QED
    BY <2>1 DEF SuggestPlaces, DismissedStays, MergedNotProposed, ToldAlerted
<1>6. CASE UNCHANGED suggVars
  <2>1. UNCHANGED <<clk, score, prof, sugg, dismissed, alerted, booted, gone, tickObs, told, behind>>
    BY <1>6 DEF suggVars
  <2> QED
    BY <2>1 DEF SuggestPlaces, DismissedStays, MergedNotProposed, ToldAlerted
<1> QED
  BY <1>1, <1>2, <1>3, <1>4, <1>5, <1>6 DEF SuggestNext

-----------------------------------------------------------------------------
(* The merge of two MACs.                                                  *)

Running == mg.pc \in {"do", "undo", "failed"}
Removing == mg.pc \in {"clean", "done"}
Switches == [Mac -> 0..1]
Bases == [Mac -> 0..2 \cup {NoBase}]
Leavable == Setting \cup {"live"}
Merges == [pc : {"idle", "do", "undo", "clean", "failed", "done"}, from : Mac, to : Mac, force : BOOLEAN,
           i : 0..5, op : 0..6, warned : BOOLEAN, broke : BOOLEAN, left : SUBSET Leavable]

MergePlaces ==
  /\ rules \in [Mac -> RuleState] /\ base \in Bases
  /\ names \in NameFile /\ conn \in Switches /\ live \in Switches /\ polFile \in NameFile /\ polMem \in NameFile
  /\ alias \in AliasFile /\ mg \in Merges /\ owed \in [Mac -> [Setting -> 0..2]] /\ forced \subseteq Mac
  /\ mg.pc = "do" \/ mg.pc = "undo" \/ Removing => mg.i >= 1
  /\ (mg.pc = "failed" => mg.i = 0) /\ (mg.pc = "done" => mg.i = 5) /\ (mg.pc # "idle" => mg.from # mg.to)

\* What deviceMerge read at its start.
SeenPlaces ==
  Running =>
    /\ seen.rules \in [Mac -> RuleState] /\ seen.names \in NameFile /\ seen.conn \in Switches /\ seen.live \in Switches
    /\ seen.pol \in NameFile /\ seen.polFile \in NameFile /\ seen.forced \subseteq Mac /\ seen.old \in RuleState
    /\ seen.new = seen.rules[mg.to] /\ seen.old = Want(mg.from) /\ base[mg.to] = NoBase
    /\ alias = seen.alias /\ forced = seen.forced \cup (IF mg.force THEN {mg.to} ELSE {})

\* Without force there was no conflict.
NoClash ==
  Running /\ ~mg.force =>
    /\ ~(seen.old["lim"] # 0 /\ seen.new["lim"] # 0 /\ seen.old["lim"] # seen.new["lim"])
    /\ \A x \in {"dly", "qos"} : ~(seen.old[Rival(x)] # 0 /\ seen.old[x] = 0 /\ seen.new[x] # 0)
    /\ ~(seen.names[mg.from] # 0 /\ seen.names[mg.to] # 0 /\ seen.names[mg.from] # seen.names[mg.to])
    /\ ~(seen.pol[mg.from] # 0 /\ seen.pol[mg.to] # 0 /\ seen.pol[mg.from] # seen.pol[mg.to])

\* The other MACs are left alone, but for a policy that only the file still has.
OnlyTarget ==
  Running =>
    /\ seen.conn[mg.from] = 0 => conn = seen.conn /\ live = seen.live
    /\ \A m \in Mac \ {mg.to} :
         /\ rules[m] = seen.rules[m] /\ names[m] = seen.names[m] /\ conn[m] = seen.conn[m]
         /\ polMem[m] = seen.pol[m] /\ polFile[m] \in {seen.pol[m], seen.polFile[m]}

\* Without force only what is not set is filled in.
FillsOnly ==
  Running /\ ~mg.force =>
    /\ \A x \in Field : seen.new[x] # 0 => rules[mg.to][x] = seen.new[x]
    /\ seen.names[mg.to] # 0 => names[mg.to] = seen.names[mg.to]
    /\ seen.conn[mg.to] # 0 => conn[mg.to] = seen.conn[mg.to]
    /\ seen.pol[mg.to] # 0 => /\ polMem[mg.to] = seen.pol[mg.to]
                             /\ polFile[mg.to] \in {seen.pol[mg.to], seen.polFile[mg.to]}

\* A store is as it was before its step, and after its undoing but for what is left.
Reached(n) == mg.i > n \/ (mg.i = n /\ (mg.pc # "do" \/ n = 1))
Restored ==
  Running =>
    /\ mg.pc = "do" => mg.left = {}
    /\ ~Reached(1) => \A x \in Field : x \notin mg.left => rules[mg.to][x] = seen.new[x]
    /\ ~Reached(2) => "name" \in mg.left \/ names = seen.names
    /\ ~Reached(3) => /\ "conn" \in mg.left \/ conn = seen.conn
                      /\ "live" \in mg.left \/ live \in {conn, seen.live}
    /\ ~Reached(4) => polMem = seen.pol /\ ("pol" \in mg.left \/ polFile = seen.polFile)

\* What the steps so far have copied.
Copies ==
  mg.pc = "do" =>
    /\ \A x \in Field : seen.old[x] # 0 /\ (mg.i > 1 \/ \A k \in RuleOps(seen.old, seen.new) : OpField[k] = x => k <= mg.op)
         => rules[mg.to][x] = seen.old[x]
    /\ mg.i > 2 /\ names[mg.from] # 0 => names[mg.to] = names[mg.from]
    /\ mg.i > 3 /\ conn[mg.from] # 0 => conn[mg.to] = conn[mg.from]
    /\ mg.i > 4 /\ polMem[mg.from] # 0 => polMem[mg.to] = polMem[mg.from] /\ polFile[mg.to] = polMem[mg.from]
    /\ mg.i > 4 /\ polMem[mg.from] = 0 => polMem = seen.pol /\ polFile = seen.polFile

\* What the user is owed was stored when the merge began ...
Stored1(b, r, n, c, p, m) ==
  /\ \A x \in Field : owed[m][x] # 0 => owed[m][x] = (IF x = "lim" /\ b[m] # NoBase THEN b[m] ELSE r[m][x])
  /\ owed[m]["name"] # 0 => owed[m]["name"] = n[m]
  /\ owed[m]["conn"] # 0 => owed[m]["conn"] = c[m]
  /\ owed[m]["pol"] # 0 => owed[m]["pol"] = p[m]
SeenKept == Running => \A m \in Mac \ seen.forced : Stored1(base, seen.rules, seen.names, seen.conn, seen.polFile, m)
NowKept == ~Running => \A m \in Mac \ forced : Stored1(base, rules, names, conn, polFile, m)

\* ... and a policy he is owed was the same in memory and file.
Paired == \A m \in Mac : owed[m]["pol"] # 0 =>
  IF Running THEN seen.pol[m] = seen.polFile[m] ELSE polMem[m] = polFile[m]

\* What the removal has taken from the old MAC.
Removals ==
  Removing =>
    /\ mg.from \in DOMAIN alias /\ alias[mg.from] = mg.to /\ owed[mg.from] = Nothing
    /\ ~mg.warned => /\ mg.i > 1 => rules[mg.from] = Empty
                     /\ mg.i > 2 => names[mg.from] = 0
                     /\ mg.i > 3 => conn[mg.from] = 0
                     /\ mg.i > 4 => polMem[mg.from] = 0 /\ base[mg.from] = NoBase

MergeInv == /\ MergePlaces /\ SeenPlaces /\ NoClash /\ OnlyTarget /\ FillsOnly /\ Restored /\ Copies
            /\ SeenKept /\ NowKept /\ Paired /\ Removals /\ FlatAliases

\* The steps by number, and the fields of the rule actions.
LEMMA StepNames ==
  ASSUME NEW i \in 1..5
  PROVE  /\ Step[i] = "rules" <=> i = 1 
         /\ Step[i] = "names" <=> i = 2 
         /\ Step[i] = "conn" <=> i = 3
         /\ Step[i] = "policy" <=> i = 4
         /\ Step[i] = "alias" <=> i = 5
  BY DEF Step

\* The fields the rule actions write, one of them for each setting.
LEMMA OpFields ==
  /\ OpField[1] = "bl" /\ OpField[2] = "lim" /\ OpField[3] = "qos" /\ OpField[4] = "dly" /\ OpField[5] = "dly" /\ OpField[6] = "qos"
  /\ \A k \in 1..6 : OpField[k] \in Field
  BY DEF OpField, Field

\* What a MAC holds, setting by setting.
LEMMA HeldIs ==
  ASSUME MergePlaces, NEW m \in Mac
  PROVE  /\ Want(m) \in RuleState
         /\ \A x \in Field : Want(m)[x] = IF x = "lim" /\ base[m] # NoBase THEN base[m] ELSE rules[m][x]
         /\ \A x \in Field : Held(m)[x] = Want(m)[x]
         /\ Held(m)["name"] = names[m] /\ Held(m)["conn"] = conn[m] /\ Held(m)["pol"] = polFile[m]
         /\ Held(m) \in [Setting -> 0..2]
<1>1. rules[m] \in [Field -> 0..2] /\ rules[m]["bl"] <= 1 /\ rules[m]["dly"] <= 1 /\ rules[m]["qos"] <= 1
  BY DEF MergePlaces, RuleState
<1>2. base[m] = NoBase \/ base[m] \in 0..2
  BY DEF MergePlaces, Bases
<1>3. \A x \in Field : Want(m)[x] = IF x = "lim" /\ base[m] # NoBase THEN base[m] ELSE rules[m][x]
  BY <1>1 DEF Want, Field
<1>4. Want(m) \in [Field -> 0..2]
  BY <1>1, <1>2 DEF Want, Field
<1>5. Want(m) \in RuleState
  BY <1>1, <1>3, <1>4 DEF RuleState, Field
<1>6. names[m] \in 0..2 /\ conn[m] \in 0..2 /\ polFile[m] \in 0..2
  BY DEF MergePlaces, NameFile, Switches
<1>7. /\ \A x \in Field : Held(m)[x] = Want(m)[x]
      /\ Held(m)["name"] = names[m] /\ Held(m)["conn"] = conn[m] /\ Held(m)["pol"] = polFile[m]
  BY DEF Held, Setting, Field
<1>8. Held(m) \in [Setting -> 0..2]
  BY <1>4, <1>6 DEF Held, Setting, Field
<1> QED
  BY <1>3, <1>5, <1>7, <1>8

\* What is owed is stored, seen through Held.
LEMMA StoredHeld ==
  ASSUME MergePlaces, NEW m \in Mac
  PROVE  (\A x \in Setting : owed[m][x] # 0 => Held(m)[x] = owed[m][x]) <=> Stored1(base, rules, names, conn, polFile, m)
<1>1. /\ \A x \in Field : Held(m)[x] = IF x = "lim" /\ base[m] # NoBase THEN base[m] ELSE rules[m][x]
      /\ Held(m)["name"] = names[m] /\ Held(m)["conn"] = conn[m] /\ Held(m)["pol"] = polFile[m]
  BY HeldIs
<1> QED
  BY <1>1 DEF Stored1, Setting

\* The invariant says what the suite checks.
LEMMA MergeTyped == MergeInv => MergeTypeOK /\ RolledBack /\ SettingsKept /\ CleanMerge /\ FlatAliases
<1> SUFFICES ASSUME MergeInv PROVE MergeTypeOK /\ RolledBack /\ SettingsKept /\ CleanMerge
  BY DEF MergeInv
<1> USE DEF MergeInv
<1>p. MergePlaces
  OBVIOUS
<1>1. MergeTypeOK
  <2>1. Switches \subseteq NameFile
    BY DEF Switches, NameFile
  <2>2. mg.pc \in {"idle", "do", "undo", "clean", "failed", "done"}
    BY DEF MergePlaces, Merges
  <2> QED
    BY <2>1, <2>2 DEF MergeTypeOK, MergePlaces
<1>2. RolledBack
  <2> SUFFICES ASSUME mg.pc = "failed"
               PROVE  RolledBack
    BY DEF RolledBack
  <2>1. Running /\ mg.i = 0
    BY DEF Running, MergePlaces
  <2>2. ~Reached(1) /\ ~Reached(2) /\ ~Reached(3) /\ ~Reached(4)
    BY <2>1 DEF Reached
  <2>3. /\ polMem = seen.pol /\ alias = seen.alias /\ seen.new = seen.rules[mg.to]
        /\ \A x \in Field : x \notin mg.left => rules[mg.to][x] = seen.new[x]
        /\ "name" \in mg.left \/ names = seen.names
        /\ "conn" \in mg.left \/ conn = seen.conn
        /\ "live" \in mg.left \/ live \in {conn, seen.live}
        /\ "pol" \in mg.left \/ polFile = seen.polFile
    BY <2>1, <2>2 DEF Restored, SeenPlaces
  <2>4. \A m \in Mac \ {mg.to} : rules[m] = seen.rules[m] /\ names[m] = seen.names[m] /\ conn[m] = seen.conn[m]
    BY <2>1 DEF OnlyTarget
  <2> QED
    BY <2>3, <2>4 DEF RolledBack
<1>3. SettingsKept
  <2> SUFFICES ASSUME NEW m \in Mac \ forced PROVE Stored1(base, rules, names, conn, polFile, m)
    BY <1>p, StoredHeld DEF SettingsKept
  <2>1. CASE ~Running
    BY <2>1 DEF NowKept
  <2>2. CASE Running
    <3>1. m \notin seen.forced /\ (m = mg.to => ~mg.force)
      BY <2>2 DEF SeenPlaces
    <3>2. Stored1(base, seen.rules, seen.names, seen.conn, seen.polFile, m)
      BY <2>2, <3>1 DEF SeenKept
    <3>3. owed[m]["pol"] # 0 => seen.pol[m] = seen.polFile[m]
      BY <2>2 DEF Paired
    <3>4. CASE m # mg.to
      <4>1. /\ rules[m] = seen.rules[m] /\ names[m] = seen.names[m] /\ conn[m] = seen.conn[m]
            /\ polFile[m] \in {seen.pol[m], seen.polFile[m]}
        BY <2>2, <3>4 DEF OnlyTarget
      <4> QED
        BY <3>2, <3>3, <4>1 DEF Stored1
    <3>5. CASE m = mg.to
      <4>1. /\ \A x \in Field : seen.rules[m][x] # 0 => rules[m][x] = seen.rules[m][x]
            /\ seen.names[m] # 0 => names[m] = seen.names[m]
            /\ seen.conn[m] # 0 => conn[m] = seen.conn[m]
            /\ seen.pol[m] # 0 => polFile[m] \in {seen.pol[m], seen.polFile[m]}
        BY <2>2, <3>1, <3>5 DEF FillsOnly, SeenPlaces
      <4>2. base[m] = NoBase
        BY <2>2, <3>5 DEF SeenPlaces
      <4> QED
        BY <3>2, <3>3, <4>1, <4>2 DEF Stored1
    <3> QED
      BY <3>4, <3>5
  <2> QED
    BY <2>1, <2>2
<1>4. CleanMerge
  <2> SUFFICES ASSUME mg.pc = "done", ~mg.warned
               PROVE  /\ \A x \in Setting \ {"pol"} : Held(mg.from)[x] = 0
                      /\ polMem[mg.from] = 0 /\ alias[mg.from] = mg.to
    BY DEF CleanMerge
  <2>1. Removing /\ mg.i = 5 /\ mg.from \in Mac
    BY DEF Removing, MergePlaces, Merges
  <2>2. /\ alias[mg.from] = mg.to /\ rules[mg.from] = Empty /\ names[mg.from] = 0 /\ conn[mg.from] = 0
        /\ polMem[mg.from] = 0 /\ base[mg.from] = NoBase
    BY <2>1 DEF Removals
  <2>3. \A x \in Field : Held(mg.from)[x] = 0
    BY <1>p, <2>1, <2>2, HeldIs DEF Empty
  <2>4. Held(mg.from)["name"] = 0 /\ Held(mg.from)["conn"] = 0
    BY <1>p, <2>1, <2>2, HeldIs
  <2> QED
    BY <2>2, <2>3, <2>4 DEF Setting
<1> QED
  BY <1>1, <1>2, <1>3, <1>4

\* Before the first merge.
LEMMA MergeStart == MergeInit => MergeInv
<1> SUFFICES ASSUME MergeInit PROVE MergeInv
  OBVIOUS
<1> PICK r1 \in Rule, r2 \in Rule, x \in 0..1, y \in {0, 2}, b \in {NoBase, 1} :
        /\ r1["lim"] \in {0, x} /\ r1["bl"] = x /\ b = (IF r1["lim"] = 1 /\ y = 0 THEN 1 ELSE NoBase)
        /\ r2["lim"] \in {0, y} /\ r2["bl"] = 0
        /\ rules = [m \in Mac |-> IF m = Old THEN IF b = 1 THEN [r1 EXCEPT !["lim"] = 2] ELSE r1
                                  ELSE IF m = New THEN r2 ELSE Empty]
        /\ base = [m \in Mac |-> IF m = Old THEN b ELSE NoBase]
        /\ names = [m \in Mac |-> IF m = Old THEN x ELSE IF m = New THEN y ELSE 0]
        /\ conn = [m \in Mac |-> IF m = Old THEN x ELSE 0] /\ live = conn
        /\ polFile = names /\ polMem = polFile
        /\ alias = << >> /\ mg = IdleMerge /\ seen = << >> /\ forced = {}
        /\ owed = [m \in Mac |-> Held(m)]
        /\ spent = [merges |-> 0, fail |-> 0, crash |-> 0]
  BY DEF MergeInit
<1>1. Empty \in RuleState /\ r1 \in RuleState /\ r2 \in RuleState
  BY DEF Empty, RuleState, Field, Rule
<1>2. [r1 EXCEPT !["lim"] = 2] \in RuleState
  BY <1>1 DEF RuleState, Field
<1>3. rules \in [Mac -> RuleState]
  BY <1>1, <1>2
<1>4. base \in Bases /\ names \in NameFile /\ conn \in Switches /\ live \in Switches /\ polFile \in NameFile /\ polMem \in NameFile
  BY DEF Bases, NameFile, Switches
<1>5. alias \in AliasFile /\ DOMAIN alias = {}
  <2>1. alias \in [{} -> Mac]
    OBVIOUS
  <2> QED
    BY <2>1 DEF AliasFile
<1>6. mg \in Merges /\ mg.pc = "idle"
  BY MergeAssumption DEF Merges, IdleMerge
<1>7. \A m \in Mac : Held(m) \in [Setting -> 0..2]
  <2>1. ASSUME NEW m \in Mac PROVE Held(m) \in [Setting -> 0..2]
    <3>1. rules[m] \in [Field -> 0..2] /\ (base[m] = NoBase \/ base[m] \in 0..2)
      BY <1>3, <1>4 DEF RuleState, Bases
    <3>2. Want(m) \in [Field -> 0..2]
      BY <3>1 DEF Want, Field
    <3>3. names[m] \in 0..2 /\ conn[m] \in 0..2 /\ polFile[m] \in 0..2
      BY <1>4 DEF NameFile, Switches
    <3> QED
      BY <3>2, <3>3 DEF Held
  <2> QED
    BY <2>1
<1>8. owed \in [Mac -> [Setting -> 0..2]]
  BY <1>7
<1>9. MergePlaces
  BY <1>3, <1>4, <1>5, <1>6, <1>8 DEF MergePlaces, Removing
<1>10. ~Running /\ ~Removing /\ mg.pc # "do"
  BY <1>6 DEF Running, Removing
<1>11. NowKept
  BY <1>9, StoredHeld DEF NowKept
<1>12. Paired
  BY <1>10 DEF Paired
<1>13. FlatAliases
  BY <1>5 DEF FlatAliases
<1>14. SeenPlaces /\ NoClash /\ OnlyTarget /\ FillsOnly /\ Restored /\ Copies /\ SeenKept /\ Removals
  BY <1>10 DEF SeenPlaces, NoClash, OnlyTarget, FillsOnly, Restored, Copies, SeenKept, Removals
<1> QED
  BY <1>9, <1>11, <1>12, <1>13, <1>14 DEF MergeInv

\* The record of a merge whose step is done, and of one whose step failed.
LEMMA StepDoneIs ==
  ASSUME mg \in Merges, mg.i \in 1..4, StepDone
  PROVE  /\ mg' \in Merges /\ mg'.i = mg.i + 1 /\ mg'.pc = mg.pc /\ mg'.op = mg.op
         /\ mg'.from = mg.from /\ mg'.to = mg.to /\ mg'.force = mg.force /\ mg'.left = mg.left
<1>1. mg.i + 1 \in 0..5
  OBVIOUS
<1> QED
  BY <1>1 DEF StepDone, Merges

\* The record of a merge whose step failed.
LEMMA StepFailsIs ==
  ASSUME mg \in Merges, NEW b \in BOOLEAN, NEW torn \in SUBSET Leavable, StepFails(b, torn)
  PROVE  /\ mg' \in Merges /\ mg'.i = mg.i /\ mg'.pc = "undo" /\ mg'.op = mg.op
         /\ mg'.from = mg.from /\ mg'.to = mg.to /\ mg'.force = mg.force /\ mg'.left = torn
  BY DEF StepFails, Merges

\* A step inside a merge leaves alone what the merge read and what is owed.
LEMMA InsideStep ==
  ASSUME MergeInv, Running, Running', mg'.from = mg.from, mg'.to = mg.to, mg'.force = mg.force,
         UNCHANGED <<base, seen, owed, forced, alias>>, rules'[mg.from] = rules[mg.from]
  PROVE  /\ SeenPlaces' /\ NoClash' /\ SeenKept' /\ NowKept'
         /\ Paired' /\ Removals' /\ FlatAliases'
<1>1. Want(mg.from)' = Want(mg.from)
  BY DEF Want
<1>2. SeenPlaces'
  BY <1>1 DEF MergeInv, SeenPlaces
<1>3. NoClash'
  BY DEF MergeInv, NoClash
<1>4. SeenKept'
  BY DEF MergeInv, SeenKept, Stored1
<1>5. NowKept'
  BY DEF NowKept
<1>6. Paired'
  BY DEF MergeInv, Paired
<1>7. Removals'
  BY DEF Removals, Removing, Running
<1>8. FlatAliases'
  BY DEF MergeInv, FlatAliases
<1> QED
  BY <1>2, <1>3, <1>4, <1>5, <1>6, <1>7, <1>8

\* The record of a merge that begins.
LEMMA BegunIs ==
  ASSUME NEW f \in Mac, NEW t \in Mac, NEW force \in BOOLEAN
  PROVE  [IdleMerge EXCEPT !.pc = "do", !.from = f, !.to = t, !.force = force, !.i = 1] \in Merges
<1>1. IdleMerge \in Merges
  BY MergeAssumption DEF IdleMerge, Merges
<1>2. \A m \in Merges : [m EXCEPT !.pc = "do", !.from = f] \in Merges
  BY DEF Merges
<1>3. \A m \in Merges : [m EXCEPT !.to = t, !.i = 1] \in Merges
  <2>1. \A m \in Merges : [m EXCEPT !.to = t] \in Merges
    BY DEF Merges
  <2>2. 1 \in 0..5
    OBVIOUS
  <2>3. \A m \in Merges, i \in 0..5 : [m EXCEPT !.i = i] \in Merges
    BY DEF Merges
  <2>4. \A m \in Merges : [m EXCEPT !.to = t, !.i = 1] = [[m EXCEPT !.to = t] EXCEPT !.i = 1]
    BY DEF Merges
  <2> QED
    BY <2>1, <2>2, <2>3, <2>4
<1>4. \A m \in Merges : [m EXCEPT !.force = force] \in Merges
  BY DEF Merges
<1>5. [IdleMerge EXCEPT !.pc = "do", !.from = f, !.to = t, !.force = force, !.i = 1]
        = [[[IdleMerge EXCEPT !.pc = "do", !.from = f] EXCEPT !.to = t, !.i = 1] EXCEPT !.force = force]
  BY <1>1 DEF Merges
<1> QED
  BY <1>1, <1>2, <1>3, <1>4, <1>5

\* A merge starts.
LEMMA MergeBegins == MergeInv /\ StartMerge => MergeInv'
<1> SUFFICES ASSUME MergeInv, StartMerge PROVE MergeInv'
  OBVIOUS
<1>p. MergePlaces
  BY DEF MergeInv
<1> PICK f \in Mac, t \in Mac, force \in BOOLEAN :
        /\ mg.pc = "idle" /\ f # t /\ base[t] = NoBase /\ spent.merges < MaxMerges
        /\ force = Conflict(f, t)
        /\ spent' = [spent EXCEPT !.merges = @ + 1]
        /\ seen' = [old |-> Want(f), new |-> rules[t], rules |-> rules,
                    names |-> names, conn |-> conn, pol |-> polMem, polFile |-> polFile, alias |-> alias,
                    live |-> live, forced |-> forced]
        /\ mg' = [IdleMerge EXCEPT !.pc = "do", !.from = f, !.to = t, !.force = force, !.i = 1]
        /\ forced' = IF force THEN forced \union {t} ELSE forced
        /\ UNCHANGED <<stores, base, alias, owed>>
  BY DEF StartMerge
<1>1. /\ mg' \in Merges /\ mg'.pc = "do" /\ mg'.from = f /\ mg'.to = t /\ mg'.force = force /\ mg'.i = 1 /\ mg'.op = 0
      /\ mg'.left = {}
  <2>1. IdleMerge \in Merges /\ IdleMerge.op = 0 /\ IdleMerge.left = {}
    BY MergeAssumption DEF IdleMerge, Merges
  <2>2. mg' \in Merges
    BY BegunIs
  <2>3. mg'.pc = "do" /\ mg'.from = f /\ mg'.to = t /\ mg'.i = 1 /\ mg'.op = 0
    BY <2>1 DEF Merges
  <2>4. mg'.force = force /\ mg'.left = {}
    BY <2>1 DEF Merges
  <2> QED
    BY <2>2, <2>3, <2>4
<1>2. /\ seen'.old = Want(f) /\ seen'.new = rules[t] /\ seen'.rules = rules /\ seen'.names = names /\ seen'.conn = conn
      /\ seen'.pol = polMem /\ seen'.polFile = polFile /\ seen'.alias = alias /\ seen'.live = live /\ seen'.forced = forced
  OBVIOUS
<1>3. UNCHANGED <<rules, names, conn, live, polFile, polMem, base, alias, owed>>
  BY DEF stores
<1>4. Running' /\ ~Removing' /\ ~Running
  BY <1>1 DEF Running, Removing
<1>5. MergePlaces'
  BY <1>p, <1>1, <1>3, <1>4 DEF MergePlaces
<1>6. Want(f) \in RuleState /\ \A x \in Field : Want(f)[x] = IF x = "lim" /\ base[f] # NoBase THEN base[f] ELSE rules[f][x]
  BY <1>p, HeldIs
<1>7. rules[t] \in RuleState /\ Want(t)["lim"] = rules[t]["lim"]
  BY <1>p, HeldIs DEF MergePlaces, Field
<1>8. SeenPlaces'
  <2>1. Want(mg.from)' = Want(f)
    BY <1>1, <1>3 DEF Want
  <2> QED
    BY <1>p, <1>1, <1>2, <1>3, <1>6, <2>1 DEF SeenPlaces, MergePlaces
<1>9. NoClash'
  <2> SUFFICES ASSUME ~force PROVE ~Conflict(f, t) => NoClash'
    BY <1>1 DEF NoClash
  <2>1. \A x \in {"dly", "qos"} : Rival(x) \in {"dly", "qos"} /\ Want(f)[x] = rules[f][x]
    BY <1>6 DEF Rival, Field
  <2> QED
    BY <1>1, <1>2, <1>7, <2>1 DEF NoClash, Conflict
<1>10. OnlyTarget' /\ FillsOnly' /\ Restored'
  BY <1>1, <1>2, <1>3, <1>4 DEF OnlyTarget, FillsOnly, Restored
<1>11. Copies'
  <2> SUFFICES ASSUME NEW x \in Field, seen'.old[x] # 0, \A k \in RuleOps(seen'.old, seen'.new) : OpField[k] = x => k <= 0
               PROVE  rules'[t][x] = seen'.old[x]
    BY <1>1 DEF Copies
  <2>1. PICK k \in 1..6 : OpField[k] = x /\ k \notin Clears
    BY OpFields DEF Clears, Field
  <2>2. k \notin RuleOps(Want(f), rules[t])
    BY <1>2, <2>1
  <2> QED
    BY <1>2, <1>3, <2>1, <2>2 DEF RuleOps
<1>12. SeenKept'
  BY <1>2, <1>3, <1>4 DEF MergeInv, SeenKept, NowKept, Stored1
<1>13. NowKept'
  BY <1>4 DEF NowKept
<1>14. Paired'
  BY <1>2, <1>3, <1>4 DEF MergeInv, Paired
<1>15. Removals'
  BY <1>4 DEF Removals
<1>16. FlatAliases'
  BY <1>3 DEF MergeInv, FlatAliases
<1> QED
  BY <1>5, <1>8, <1>9, <1>10, <1>11, <1>12, <1>13, <1>14, <1>15, <1>16 DEF MergeInv

\* A step of the rules.
LEMMA RulesMoves == MergeInv /\ RulesStep => MergeInv'
<1> SUFFICES ASSUME MergeInv, RulesStep PROVE MergeInv'
  OBVIOUS
<1> DEFINE left == {k \in RuleOps(seen.old, seen.new) : k > mg.op}
<1>p. MergePlaces /\ mg \in Merges /\ mg.pc = "do"
  BY DEF MergeInv, RulesStep, MergePlaces
<1>i. mg.i = 1 /\ mg.to \in Mac /\ mg.from \in Mac /\ mg.from # mg.to /\ mg.op \in 0..6 /\ mg.force \in BOOLEAN
  <2>1. mg.i \in 1..5
    BY <1>p DEF MergePlaces, Merges
  <2> QED
    BY <1>p, <2>1, StepNames DEF RulesStep, MergePlaces, Merges
<1>u. UNCHANGED <<base, names, conn, live, polFile, polMem, alias, seen, owed, forced>>
  BY DEF RulesStep
<1>r. Running
  BY <1>p DEF Running
<1>s. /\ seen.old \in RuleState /\ seen.new = seen.rules[mg.to] /\ seen.new \in RuleState /\ seen.rules \in [Mac -> RuleState]
  BY <1>r, <1>i DEF MergeInv, SeenPlaces
<1>c. \/ left = {} /\ StepDone /\ UNCHANGED rules
      \/ \E k \in left :
            /\ \A j \in left : k <= j
            /\ Dispatches(OpField[k])
            /\ rules' = [rules EXCEPT ![mg.to][OpField[k]] = OpValue(seen.old, k)]
            /\ mg' = [mg EXCEPT !.op = k] \/ StepFails(TRUE, {OpField[k]})
      \/ \E b \in BOOLEAN : StepFails(b, {}) /\ UNCHANGED rules
  BY Zenon DEF RulesStep
<1>1. CASE left = {} /\ StepDone /\ UNCHANGED rules
  <2>1. /\ mg' \in Merges /\ mg'.i = 2 /\ mg'.pc = "do" /\ mg'.op = mg.op
        /\ mg'.from = mg.from /\ mg'.to = mg.to /\ mg'.force = mg.force /\ mg'.left = mg.left
    BY <1>1, <1>p, <1>i, StepDoneIs
  <2>2. Running'
    BY <2>1 DEF Running
  <2>3. SeenPlaces' /\ NoClash' /\ SeenKept' /\ NowKept' /\ Paired' /\ Removals' /\ FlatAliases'
    BY <1>1, <1>u, <1>r, <2>1, <2>2, InsideStep
  <2>4. MergePlaces'
    BY <1>1, <1>p, <1>u, <2>1 DEF MergePlaces, Removing
  <2>5. OnlyTarget' /\ FillsOnly'
    BY <1>1, <1>u, <1>r, <2>1, <2>2 DEF MergeInv, OnlyTarget, FillsOnly
  <2>6. Restored'
    BY <1>1, <1>p, <1>i, <1>u, <1>r, <2>1, <2>2 DEF MergeInv, Restored, Reached
  <2>7. Copies'
    <3>1. \A k \in RuleOps(seen.old, seen.new) : k <= mg.op
      <4>1. \A k \in RuleOps(seen.old, seen.new) : k \in Int
        BY DEF RuleOps
      <4> QED
        BY <1>1, <1>i, <4>1
    <3>2. \A x \in Field : seen.old[x] # 0 => rules[mg.to][x] = seen.old[x]
      BY <1>p, <3>1 DEF MergeInv, Copies
    <3> QED
      BY <1>1, <1>u, <2>1, <3>2 DEF Copies
  <2> QED
    BY <2>3, <2>4, <2>5, <2>6, <2>7 DEF MergeInv
<1>2. CASE \E k \in left :
            /\ \A j \in left : k <= j
            /\ Dispatches(OpField[k])
            /\ rules' = [rules EXCEPT ![mg.to][OpField[k]] = OpValue(seen.old, k)]
            /\ mg' = [mg EXCEPT !.op = k] \/ StepFails(TRUE, {OpField[k]})
  <2> PICK k \in left : /\ \A j \in left : k <= j
                        /\ rules' = [rules EXCEPT ![mg.to][OpField[k]] = OpValue(seen.old, k)]
                        /\ mg' = [mg EXCEPT !.op = k] \/ StepFails(TRUE, {OpField[k]})
    BY <1>2
  <2>k. k \in 1..6 /\ k \in RuleOps(seen.old, seen.new) /\ k > mg.op /\ OpField[k] \in Field
    BY OpFields DEF RuleOps
  <2>1. /\ mg' \in Merges /\ mg'.i = 1 /\ ((mg'.pc = "do" /\ mg'.op = k) \/ mg'.pc = "undo")
        /\ mg'.from = mg.from /\ mg'.to = mg.to /\ mg'.force = mg.force /\ (mg'.pc = "do" => mg'.left = mg.left)
    <3>1. CASE mg' = [mg EXCEPT !.op = k]
      BY <3>1, <1>p, <1>i, <2>k DEF Merges
    <3>2. CASE StepFails(TRUE, {OpField[k]})
      <4>1. {OpField[k]} \in SUBSET Leavable
        BY <2>k DEF Leavable, Setting
      <4> QED
        BY <3>2, <4>1, <1>p, <1>i, StepFailsIs
    <3> QED
      BY <3>1, <3>2
  <2>2. Running'
    BY <2>1 DEF Running
  <2>m. rules \in [Mac -> RuleState] /\ \A m \in Mac : rules[m] \in [Field -> 0..2]
    BY <1>p DEF MergePlaces, RuleState
  <2>n. /\ DOMAIN rules' = Mac
        /\ \A m \in Mac : m # mg.to => rules'[m] = rules[m]
        /\ rules'[mg.to] = [rules[mg.to] EXCEPT ![OpField[k]] = OpValue(seen.old, k)]
    BY <1>i, <2>m
  <2>o. \A x \in Field : rules'[mg.to][x] = IF x = OpField[k] THEN OpValue(seen.old, k) ELSE rules[mg.to][x]
    BY <1>i, <2>k, <2>m, <2>n
  <2>v. OpValue(seen.old, k) \in 0..2 /\ (OpField[k] # "lim" => OpValue(seen.old, k) <= 1)
    BY <1>s, <2>k DEF OpValue, RuleState, Field
  <2>3. SeenPlaces' /\ NoClash' /\ SeenKept' /\ NowKept' /\ Paired' /\ Removals' /\ FlatAliases'
    BY <1>i, <1>u, <1>r, <2>1, <2>2, <2>n, InsideStep
  <2>4. MergePlaces'
    <3>1. rules'[mg.to] \in RuleState
      <4>1. rules'[mg.to] \in [Field -> 0..2]
        BY <1>i, <2>k, <2>m, <2>n, <2>v
      <4>2. rules[mg.to]["bl"] <= 1 /\ rules[mg.to]["dly"] <= 1 /\ rules[mg.to]["qos"] <= 1
        BY <1>i, <2>m DEF RuleState
      <4>3. rules'[mg.to]["bl"] <= 1 /\ rules'[mg.to]["dly"] <= 1 /\ rules'[mg.to]["qos"] <= 1
        BY <2>o, <2>v, <4>2 DEF Field
      <4> QED
        BY <4>1, <4>3 DEF RuleState
    <3>2. rules' \in [Mac -> RuleState]
      <4>1. rules' = [m \in Mac |-> rules'[m]]
        BY <2>m
      <4>2. \A m \in Mac : rules'[m] \in RuleState
        BY <2>m, <2>n, <3>1
      <4> QED
        BY <4>1, <4>2
    <3> QED
      BY <1>p, <1>u, <2>1, <3>2 DEF MergePlaces, Removing
  <2>5. OnlyTarget'
    BY <1>u, <1>r, <2>1, <2>2, <2>n DEF MergeInv, OnlyTarget
  <2>6. FillsOnly'
    <3> SUFFICES ASSUME ~mg.force, NEW x \in Field, seen.new[x] # 0 PROVE rules'[mg.to][x] = seen.new[x]
      BY <1>u, <1>r, <2>1 DEF MergeInv, FillsOnly
    <3>1. rules[mg.to][x] = seen.new[x]
      BY <1>r DEF MergeInv, FillsOnly
    <3>2. x # OpField[k]
      <4> SUFFICES ASSUME x = OpField[k] PROVE FALSE
        OBVIOUS
      <4>1. CASE k \in Clears
        <5>1. x \in {"dly", "qos"}
          BY <4>1, OpFields DEF Clears
        <5>2. seen.old[x] = 0 /\ seen.old[Rival(x)] # 0
          BY <2>k, <4>1 DEF RuleOps
        <5> QED
          BY <1>r, <5>1, <5>2 DEF MergeInv, NoClash
      <4>2. CASE k \notin Clears
        <5>1. seen.old[x] # 0 /\ seen.old[x] # seen.new[x]
          BY <2>k, <4>2 DEF RuleOps
        <5>2. x = "lim"
          BY <1>s, <5>1 DEF RuleState, Field
        <5> QED
          BY <1>r, <5>1, <5>2 DEF MergeInv, NoClash
      <4> QED
        BY <4>1, <4>2
    <3> QED
      BY <2>o, <3>1, <3>2
  <2>7. Restored'
    BY <1>p, <1>i, <1>u, <1>r, <2>1, <2>2 DEF MergeInv, Restored, Reached
  <2>8. Copies'
    <3> SUFFICES ASSUME NEW x \in Field, seen.old[x] # 0, \A j \in RuleOps(seen.old, seen.new) : OpField[j] = x => j <= k,
                        mg'.pc = "do"
                 PROVE  rules'[mg.to][x] = seen.old[x]
      BY <1>u, <2>1 DEF Copies
    <3>1. CASE x = OpField[k]
      <4>1. k \notin Clears
        BY <2>k, <3>1 DEF RuleOps
      <4> QED
        BY <2>o, <3>1, <4>1 DEF OpValue
    <3>2. CASE x # OpField[k]
      <4>1. ASSUME NEW j \in RuleOps(seen.old, seen.new), OpField[j] = x PROVE j <= mg.op
        <5>1. j \in 1..6 /\ j <= k /\ j # k
          BY <3>2, <4>1 DEF RuleOps
        <5>2. j \notin left
          BY <5>1, <2>k
        <5> QED
          BY <1>i, <5>1, <5>2
      <4>2. rules[mg.to][x] = seen.old[x]
        BY <1>p, <4>1 DEF MergeInv, Copies
      <4> QED
        BY <2>o, <3>2, <4>2
    <3> QED
      BY <3>1, <3>2
  <2> QED
    BY <2>3, <2>4, <2>5, <2>6, <2>7, <2>8 DEF MergeInv
<1>3. CASE \E b \in BOOLEAN : StepFails(b, {}) /\ UNCHANGED rules
  <2>1. /\ mg' \in Merges /\ mg'.i = 1 /\ mg'.pc = "undo" /\ mg'.op = mg.op
        /\ mg'.from = mg.from /\ mg'.to = mg.to /\ mg'.force = mg.force
    BY <1>3, <1>p, <1>i, StepFailsIs
  <2>2. Running'
    BY <2>1 DEF Running
  <2>3. SeenPlaces' /\ NoClash' /\ SeenKept' /\ NowKept' /\ Paired' /\ Removals' /\ FlatAliases'
    BY <1>3, <1>u, <1>r, <2>1, <2>2, InsideStep
  <2>4. MergePlaces'
    BY <1>3, <1>p, <1>u, <2>1 DEF MergePlaces, Removing
  <2>5. OnlyTarget' /\ FillsOnly'
    BY <1>3, <1>u, <1>r, <2>1, <2>2 DEF MergeInv, OnlyTarget, FillsOnly
  <2>6. Restored'
    BY <1>3, <1>p, <1>i, <1>u, <1>r, <2>1, <2>2 DEF MergeInv, Restored, Reached
  <2>7. Copies'
    BY <2>1 DEF Copies
  <2> QED
    BY <2>3, <2>4, <2>5, <2>6, <2>7 DEF MergeInv
<1> QED
  BY <1>c, <1>1, <1>2, <1>3

\* The snapshot file.
LEMMA NamesMoves == MergeInv /\ NamesStep => MergeInv'
<1> SUFFICES ASSUME MergeInv, NamesStep PROVE MergeInv'
  OBVIOUS
<1>p. MergePlaces /\ mg \in Merges /\ mg.pc = "do"
  BY DEF MergeInv, NamesStep, MergePlaces
<1>i. mg.i = 2 /\ mg.to \in Mac /\ mg.from \in Mac /\ mg.from # mg.to /\ mg.force \in BOOLEAN
  <2>1. mg.i \in 1..5
    BY <1>p DEF MergePlaces, Merges
  <2> QED
    BY <1>p, <2>1, StepNames DEF NamesStep, MergePlaces, Merges
<1>u. UNCHANGED <<rules, base, conn, live, polFile, polMem, alias, seen, owed, forced>>
  BY DEF NamesStep
<1>r. Running
  BY <1>p DEF Running
<1>n. names = seen.names /\ names \in NameFile
  BY <1>p, <1>i, <1>r DEF MergeInv, Restored, Reached, MergePlaces
<1>c. \/ /\ StepDone
         /\ \/ names[mg.from] # 0 /\ (names[mg.to] = 0 \/ mg.force) /\ names' = Copied(names)
            \/ ~(names[mg.from] # 0 /\ (names[mg.to] = 0 \/ mg.force)) /\ UNCHANGED names
      \/ StepFails(TRUE, {}) /\ UNCHANGED names
  BY DEF NamesStep
<1>1. mg'.from = mg.from /\ mg'.to = mg.to /\ mg'.force = mg.force /\ mg' \in Merges /\ mg'.i >= 1 /\ (mg'.pc = "do" \/ mg'.pc = "undo")
  <2>1. CASE StepDone
    BY <2>1, <1>p, <1>i, StepDoneIs
  <2>2. CASE StepFails(TRUE, {})
    <3>1. mg' \in Merges /\ mg'.i = mg.i /\ mg'.pc = "undo" /\ mg'.from = mg.from /\ mg'.to = mg.to /\ mg'.force = mg.force
      BY <2>2, <1>p, StepFailsIs, Zenon
    <3> QED
      BY <3>1, <1>i
  <2> QED
    BY <1>c, <2>1, <2>2
<1>2. Running'
  BY <1>1 DEF Running
<1>3. SeenPlaces' /\ NoClash' /\ SeenKept' /\ NowKept' /\ Paired' /\ Removals' /\ FlatAliases'
  BY <1>u, <1>r, <1>1, <1>2, InsideStep
<1>4. names' \in NameFile /\ \A m \in Mac \ {mg.to} : names'[m] = names[m]
  BY <1>c, <1>i, <1>n DEF NameFile, Copied
<1>5. MergePlaces'
  BY <1>p, <1>u, <1>1, <1>4 DEF MergePlaces, Removing
<1>6. OnlyTarget'
  BY <1>u, <1>r, <1>1, <1>2, <1>4 DEF MergeInv, OnlyTarget
<1>7. FillsOnly'
  <2>1. ~mg.force /\ names[mg.to] # 0 => names'[mg.to] = names[mg.to]
    BY <1>c
  <2> QED
    BY <1>u, <1>r, <1>n, <1>1, <2>1 DEF MergeInv, FillsOnly
<1>8. CASE StepDone
  <2>1. mg'.i = 3 /\ mg'.pc = "do" /\ mg'.left = {}
    BY <1>8, <1>p, <1>i, <1>r, StepDoneIs DEF MergeInv, Restored
  <2>2. Restored'
    BY <1>p, <1>i, <1>u, <1>r, <1>1, <2>1 DEF MergeInv, Restored, Reached
  <2>3. names[mg.from] # 0 => names'[mg.to] = names[mg.from] 
    <3>1. CASE names[mg.from] # 0 /\ (names[mg.to] = 0 \/ mg.force) /\ names' = Copied(names)
      BY <3>1, <1>i, <1>n DEF Copied, NameFile
    <3>2. CASE ~(names[mg.from] # 0 /\ (names[mg.to] = 0 \/ mg.force)) /\ UNCHANGED names
      BY <3>2, <1>r, <1>n DEF MergeInv, NoClash
    <3>3. CASE StepFails(TRUE, {})
      BY <3>3, <2>1, <1>p, StepFailsIs
    <3> QED
      BY <1>c, <3>1, <3>2, <3>3
  <2>4. Copies'
    BY <1>p, <1>i, <1>u, <1>1, <1>4, <2>1, <2>3 DEF MergeInv, Copies
  <2> QED
    BY <1>3, <1>5, <1>6, <1>7, <2>2, <2>4 DEF MergeInv
<1>9. CASE StepFails(TRUE, {})
  <2>1. mg'.i = 2 /\ mg'.pc = "undo" /\ mg'.left = {}
    BY <1>9, <1>p, <1>i, StepFailsIs
  <2>2. Restored'
    BY <1>p, <1>i, <1>u, <1>r, <1>1, <2>1 DEF MergeInv, Restored, Reached
  <2>3. Copies'
    BY <2>1 DEF Copies
  <2> QED
    BY <1>3, <1>5, <1>6, <1>7, <2>2, <2>3 DEF MergeInv
<1> QED
  BY <1>c, <1>8, <1>9

\* The connection blocks, file and script.
LEMMA ConnMoves == MergeInv /\ ConnStep => MergeInv'
<1> SUFFICES ASSUME MergeInv, ConnStep PROVE MergeInv'
  OBVIOUS
<1>p. MergePlaces /\ mg \in Merges /\ mg.pc = "do"
  BY DEF MergeInv, ConnStep, MergePlaces
<1>i. mg.i = 3 /\ mg.to \in Mac /\ mg.from \in Mac /\ mg.from # mg.to /\ mg.force \in BOOLEAN
  <2>1. mg.i \in 1..5
    BY <1>p DEF MergePlaces, Merges
  <2> QED
    BY <1>p, <2>1, StepNames DEF ConnStep, MergePlaces, Merges
<1>u. UNCHANGED <<rules, base, names, polFile, polMem, alias, seen, owed, forced>>
  BY DEF ConnStep
<1>r. Running
  BY <1>p DEF Running
<1>n. conn \in Switches /\ live \in Switches
  BY <1>p DEF MergePlaces
<1>c. /\ \/ StepDone /\ (conn[mg.from] # 0 => conn' = [conn EXCEPT ![mg.to] = 1])
         \/ StepFails(TRUE, {})
         \/ mg' = [mg EXCEPT !.pc = "undo", !.i = @ - 1, !.broke = TRUE] /\ conn' = conn /\ live' = live
      /\ conn' = [conn EXCEPT ![mg.to] = 1] \/ conn' = conn
      /\ conn[mg.from] = 0 => conn' = conn /\ live' = live
      /\ live' = conn' \/ live' = live
  BY DEF ConnStep
<1>w. ASSUME mg' = [mg EXCEPT !.pc = "undo", !.i = @ - 1, !.broke = TRUE]
      PROVE  /\ mg' \in Merges /\ mg'.i = 2 /\ mg'.pc = "undo" /\ mg'.left = mg.left
             /\ mg'.from = mg.from /\ mg'.to = mg.to /\ mg'.force = mg.force
  <2>1. mg' = [mg EXCEPT !.pc = "undo", !.i = 2, !.broke = TRUE] /\ 2 \in 0..5
    BY <1>w, <1>p, <1>i DEF Merges
  <2> QED
    BY <2>1, <1>p DEF Merges
<1>1. mg'.from = mg.from /\ mg'.to = mg.to /\ mg'.force = mg.force /\ mg' \in Merges /\ mg'.i >= 1 /\ (mg'.pc = "do" \/ mg'.pc = "undo")
  <2>1. CASE StepDone
    BY <2>1, <1>p, <1>i, StepDoneIs
  <2>2. CASE StepFails(TRUE, {})
    <3>1. mg' \in Merges /\ mg'.i = mg.i /\ mg'.pc = "undo" /\ mg'.from = mg.from /\ mg'.to = mg.to /\ mg'.force = mg.force
      BY <2>2, <1>p, StepFailsIs, Zenon
    <3> QED
      BY <3>1, <1>i
  <2>3. CASE mg' = [mg EXCEPT !.pc = "undo", !.i = @ - 1, !.broke = TRUE]
    BY <2>3, <1>w
  <2> QED
    BY <1>c, <2>1, <2>2, <2>3
<1>2. Running'
  BY <1>1 DEF Running
<1>3. SeenPlaces' /\ NoClash' /\ SeenKept' /\ NowKept' /\ Paired' /\ Removals' /\ FlatAliases'
  BY <1>u, <1>r, <1>1, <1>2, InsideStep
<1>4. conn' \in Switches /\ live' \in Switches /\ \A m \in Mac \ {mg.to} : conn'[m] = conn[m]
  BY <1>c, <1>i, <1>n DEF Switches
<1>5. MergePlaces'
  BY <1>p, <1>u, <1>1, <1>4 DEF MergePlaces, Removing
<1>6. OnlyTarget'
  BY <1>c, <1>i, <1>u, <1>r, <1>1, <1>2, <1>4 DEF MergeInv, OnlyTarget
<1>7. FillsOnly'
  <2>1. conn[mg.to] # 0 => conn'[mg.to] = conn[mg.to]
    BY <1>c, <1>i, <1>n DEF Switches
  <2> QED
    BY <1>u, <1>r, <1>n, <1>1, <2>1 DEF MergeInv, FillsOnly
<1>8. CASE StepDone /\ (conn[mg.from] # 0 => conn' = [conn EXCEPT ![mg.to] = 1])
  <2>1. mg'.i = 4 /\ mg'.pc = "do" /\ mg'.left = {}
    BY <1>8, <1>p, <1>i, <1>r, StepDoneIs DEF MergeInv, Restored
  <2>2. Restored'
    BY <1>p, <1>i, <1>u, <1>r, <1>1, <2>1 DEF MergeInv, Restored, Reached
  <2>3. conn[mg.from] # 0 => conn'[mg.to] = conn[mg.from]
    BY <1>8, <1>i, <1>n DEF Switches
  <2>4. Copies'
    BY <1>p, <1>i, <1>u, <1>1, <1>4, <2>1, <2>3 DEF MergeInv, Copies
  <2> QED
    BY <1>3, <1>5, <1>6, <1>7, <2>2, <2>4 DEF MergeInv
<1>9. CASE StepFails(TRUE, {})
  <2>1. mg'.i = 3 /\ mg'.pc = "undo" /\ mg'.left = {}
    BY <1>9, <1>p, <1>i, StepFailsIs
  <2>2. Restored'
    BY <1>p, <1>i, <1>u, <1>r, <1>1, <2>1 DEF MergeInv, Restored, Reached
  <2>3. Copies'
    BY <2>1 DEF Copies
  <2> QED
    BY <1>3, <1>5, <1>6, <1>7, <2>2, <2>3 DEF MergeInv
<1>10. CASE mg' = [mg EXCEPT !.pc = "undo", !.i = @ - 1, !.broke = TRUE] /\ conn' = conn /\ live' = live
  <2>1. mg'.i = 2 /\ mg'.pc = "undo" /\ mg'.left = mg.left
    BY <1>10, <1>w
  <2>2. Restored'
    BY <1>p, <1>i, <1>u, <1>r, <1>1, <1>10, <2>1 DEF MergeInv, Restored, Reached
  <2>3. Copies'
    BY <2>1 DEF Copies
  <2> QED
    BY <1>3, <1>5, <1>6, <1>7, <2>2, <2>3 DEF MergeInv
<1> QED
  BY <1>c, <1>8, <1>9, <1>10

\* The policies, memory and file.
LEMMA PolicyMoves == MergeInv /\ PolicyStep => MergeInv'
<1> SUFFICES ASSUME MergeInv, PolicyStep PROVE MergeInv'
  OBVIOUS
<1>p. MergePlaces /\ mg \in Merges /\ mg.pc = "do"
  BY DEF MergeInv, PolicyStep, MergePlaces
<1>i. mg.i = 4 /\ mg.to \in Mac /\ mg.from \in Mac /\ mg.from # mg.to /\ mg.force \in BOOLEAN
  <2>1. mg.i \in 1..5
    BY <1>p DEF MergePlaces, Merges
  <2> QED
    BY <1>p, <2>1, StepNames DEF PolicyStep, MergePlaces, Merges
<1>u. UNCHANGED <<rules, base, names, conn, live, alias, seen, owed, forced>>
  BY DEF PolicyStep
<1>r. Running
  BY <1>p DEF Running
<1>n. polMem = seen.pol /\ polFile = seen.polFile /\ polMem \in NameFile /\ polFile \in NameFile
  BY <1>p, <1>i, <1>r DEF MergeInv, Restored, Reached, MergePlaces
<1>c. \/ /\ polMem[mg.from] # 0 /\ ((StepDone /\ polFile' = polMem') \/ (StepFails(TRUE, {}) /\ UNCHANGED polFile))
         /\ polMem' = [polMem EXCEPT ![mg.to] = IF @ = 0 \/ mg.force THEN polMem[mg.from] ELSE @]
      \/ polMem[mg.from] = 0 /\ StepDone /\ UNCHANGED <<polMem, polFile>>
  BY DEF PolicyStep
<1>1. mg'.from = mg.from /\ mg'.to = mg.to /\ mg'.force = mg.force /\ mg' \in Merges /\ mg'.i >= 1 /\ (mg'.pc = "do" \/ mg'.pc = "undo")
  <2>1. CASE StepDone
    BY <2>1, <1>p, <1>i, StepDoneIs
  <2>2. CASE StepFails(TRUE, {})
    <3>1. mg' \in Merges /\ mg'.i = mg.i /\ mg'.pc = "undo" /\ mg'.from = mg.from /\ mg'.to = mg.to /\ mg'.force = mg.force
      BY <2>2, <1>p, StepFailsIs, Zenon
    <3> QED
      BY <3>1, <1>i
  <2> QED
    BY <1>c, <2>1, <2>2
<1>2. Running'
  BY <1>1 DEF Running
<1>3. SeenPlaces' /\ NoClash' /\ SeenKept' /\ NowKept' /\ Paired' /\ Removals' /\ FlatAliases'
  BY <1>u, <1>r, <1>1, <1>2, InsideStep
<1>4. /\ polMem' \in NameFile /\ polFile' \in NameFile
      /\ \A m \in Mac \ {mg.to} : polMem'[m] = polMem[m]
      /\ polFile' \in {polMem', polFile}
      /\ ~mg.force /\ polMem[mg.to] # 0 => polMem'[mg.to] = polMem[mg.to]
      /\ polMem[mg.from] # 0 => polMem'[mg.to] = (IF polMem[mg.to] = 0 \/ mg.force THEN polMem[mg.from] ELSE polMem[mg.to])
  <2>1. polMem' \in NameFile /\ polFile' \in NameFile
    <3>1. polMem[mg.to] \in 0..2 /\ polMem[mg.from] \in 0..2
      BY <1>i, <1>n DEF NameFile
    <3>2. \A v \in 0..2 : [polMem EXCEPT ![mg.to] = v] \in NameFile
      BY <1>n DEF NameFile
    <3>3. \/ polMem' = polMem
          \/ polMem' = [polMem EXCEPT ![mg.to] = polMem[mg.from]]
          \/ polMem' = [polMem EXCEPT ![mg.to] = polMem[mg.to]]
      BY <1>c
    <3>4. polMem' \in NameFile
      BY <1>n, <3>1, <3>2, <3>3
    <3> QED
      BY <1>c, <1>n, <3>4
  <2>2. \A m \in Mac \ {mg.to} : polMem'[m] = polMem[m]
    BY <1>c, <1>i, <1>n DEF NameFile
  <2>3. polMem[mg.from] # 0 => polMem'[mg.to] = (IF polMem[mg.to] = 0 \/ mg.force THEN polMem[mg.from] ELSE polMem[mg.to])
    BY <1>c, <1>i, <1>n DEF NameFile
  <2>4. polFile' = polMem' \/ polFile' = polFile
    BY <1>c
  <2>5. ~mg.force /\ polMem[mg.to] # 0 => polMem'[mg.to] = polMem[mg.to]
    BY <1>c, <2>3
  <2> QED
    BY <2>1, <2>2, <2>3, <2>4, <2>5
<1>5. MergePlaces'
  BY <1>p, <1>u, <1>1, <1>4 DEF MergePlaces, Removing
<1>6. OnlyTarget'
  BY <1>u, <1>r, <1>n, <1>1, <1>2, <1>4 DEF MergeInv, OnlyTarget
<1>7. FillsOnly'
  BY <1>u, <1>r, <1>n, <1>1, <1>4 DEF MergeInv, FillsOnly
<1>8. CASE StepDone
  <2>1. mg'.i = 5 /\ mg'.pc = "do" /\ mg'.left = {}
    BY <1>8, <1>p, <1>i, <1>r, StepDoneIs DEF MergeInv, Restored
  <2>2. Restored'
    BY <1>p, <1>i, <1>u, <1>r, <1>1, <2>1 DEF MergeInv, Restored, Reached
  <2>3. polMem[mg.from] # 0 => polMem'[mg.to] = polMem[mg.from]
    BY <1>4, <1>r, <1>n DEF MergeInv, NoClash
  <2>4. ~StepFails(TRUE, {})
    BY <1>p, <2>1, StepFailsIs
  <2>5. IF polMem[mg.from] # 0 THEN polFile' = polMem' ELSE polMem' = polMem /\ polFile' = polFile
    BY <1>c, <2>4
  <2>6. polMem'[mg.from] = polMem[mg.from]
    BY <1>4, <1>i
  <2>7. Copies'
    BY <1>p, <1>i, <1>u, <1>n, <1>1, <2>1, <2>3, <2>5, <2>6 DEF MergeInv, Copies
  <2> QED
    BY <1>3, <1>5, <1>6, <1>7, <2>2, <2>7 DEF MergeInv
<1>9. CASE StepFails(TRUE, {})
  <2>1. mg'.i = 4 /\ mg'.pc = "undo" /\ mg'.left = {}
    BY <1>9, <1>p, <1>i, StepFailsIs
  <2>2. Restored'
    BY <1>p, <1>i, <1>u, <1>r, <1>1, <2>1 DEF MergeInv, Restored, Reached
  <2>3. Copies'
    BY <2>1 DEF Copies
  <2> QED
    BY <1>3, <1>5, <1>6, <1>7, <2>2, <2>3 DEF MergeInv
<1> QED
  BY <1>c, <1>8, <1>9

\* Undoing a step.
LEMMA MergeUndoes == MergeInv /\ Undo => MergeInv'
<1> SUFFICES ASSUME MergeInv, Undo PROVE MergeInv'
  OBVIOUS
<1>p. MergePlaces /\ mg \in Merges /\ mg.pc = "undo"
  BY DEF MergeInv, Undo, MergePlaces
<1>i. mg.i \in 1..5 /\ mg.to \in Mac /\ mg.from \in Mac /\ mg.from # mg.to /\ mg.force \in BOOLEAN
  BY <1>p DEF MergePlaces, Merges
<1>r. Running
  BY <1>p DEF Running
<1>s. /\ seen.rules \in [Mac -> RuleState] /\ seen.names \in NameFile /\ seen.conn \in Switches
      /\ seen.pol \in NameFile /\ seen.polFile \in NameFile /\ seen.new = seen.rules[mg.to] /\ alias = seen.alias
  BY <1>r DEF MergeInv, SeenPlaces
<1>t. rules \in [Mac -> RuleState]
  BY <1>p DEF MergePlaces
<1>o. \A m \in Mac \ {mg.to} : rules[m] = seen.rules[m]
  BY <1>r DEF MergeInv, OnlyTarget
<1>l. mg.left \subseteq Leavable
  BY <1>p DEF Merges
<1> PICK stay \in SUBSET Undone(Step[mg.i]) :
        /\ rules' = IF Step[mg.i] = "rules"
                    THEN [rules EXCEPT ![mg.to] = [x \in Field |-> IF x \in stay THEN @[x] ELSE seen.new[x]]]
                    ELSE rules
        /\ names' = IF Step[mg.i] = "names" /\ stay = {} THEN seen.names ELSE names
        /\ conn'  = IF Step[mg.i] = "conn" /\ "conn" \notin stay THEN seen.conn ELSE conn
        /\ live' = IF Step[mg.i] = "conn" /\ conn[mg.from] # 0 /\ "live" \notin stay THEN conn' ELSE live
        /\ polMem' = IF Step[mg.i] = "policy" THEN seen.pol ELSE polMem
        /\ polFile' = IF Step[mg.i] = "policy" /\ stay = {} THEN seen.polFile ELSE polFile
        /\ mg' = [mg EXCEPT !.i = @ - 1, !.pc = IF mg.i = 1 THEN "failed" ELSE @,
                            !.left = IF Step[mg.i] = "rules" THEN (@ \ Field) \cup stay ELSE @ \cup stay]
  BY Zenon DEF Undo
<1>n. /\ Step[mg.i] = "rules" <=> mg.i = 1
      /\ Step[mg.i] = "names" <=> mg.i = 2
      /\ Step[mg.i] = "conn" <=> mg.i = 3
      /\ Step[mg.i] = "policy" <=> mg.i = 4
  BY <1>i, StepNames
<1>y. /\ stay \subseteq Leavable
      /\ mg.i = 2 => stay \subseteq {"name"}
      /\ mg.i = 3 => stay \subseteq {"conn", "live"} /\ (conn[mg.from] = 0 => stay = {})
      /\ mg.i = 4 => stay \subseteq {"pol"}
  <2>1. /\ mg.i = 1 => Undone(Step[mg.i]) \subseteq Field
        /\ mg.i = 2 => Undone(Step[mg.i]) \subseteq {"name"}
        /\ mg.i = 3 => Undone(Step[mg.i]) \subseteq {"conn", "live"} /\ (conn[mg.from] = 0 => Undone(Step[mg.i]) = {})
        /\ mg.i = 4 => Undone(Step[mg.i]) \subseteq {"pol"}
        /\ mg.i = 5 => Undone(Step[mg.i]) = {}
    BY DEF Undone, Step
  <2> QED
    BY <1>i, <2>1 DEF Leavable, Setting
<1>u. UNCHANGED <<base, alias, seen, owed, forced>>
  BY DEF Undo
<1>1. /\ mg' \in Merges /\ mg'.i = mg.i - 1 /\ mg'.pc = (IF mg.i = 1 THEN "failed" ELSE "undo")
      /\ mg'.from = mg.from /\ mg'.to = mg.to /\ mg'.force = mg.force
      /\ mg'.left = (IF mg.i = 1 THEN (mg.left \ Field) \cup stay ELSE mg.left \cup stay)
  <2> DEFINE l == IF mg.i = 1 THEN (mg.left \ Field) \cup stay ELSE mg.left \cup stay
  <2>1. mg' = [mg EXCEPT !.i = mg.i - 1, !.pc = IF mg.i = 1 THEN "failed" ELSE "undo", !.left = l]
    BY <1>p, <1>n DEF Merges
  <2>2. mg.i - 1 \in 0..5 /\ l \in SUBSET Leavable
    BY <1>i, <1>l, <1>y
  <2> HIDE DEF l
  <2>3. mg' \in Merges /\ mg'.i = mg.i - 1 /\ mg'.pc = (IF mg.i = 1 THEN "failed" ELSE "undo")
        /\ mg'.from = mg.from /\ mg'.to = mg.to /\ mg'.force = mg.force /\ mg'.left = l
    BY <1>p, <2>1, <2>2 DEF Merges
  <2> QED
    BY <2>3 DEF l
<1>2. Running' /\ ~Removing' /\ mg'.pc # "do"
  BY <1>1 DEF Running, Removing
<1>c. /\ rules' \in [Mac -> RuleState] /\ \A m \in Mac \ {mg.to} : rules'[m] = rules[m]
      /\ mg.i # 1 => rules' = rules
      /\ mg.i = 1 => \A x \in Field : rules'[mg.to][x] = IF x \in stay THEN rules[mg.to][x] ELSE seen.new[x]
  <2>1. CASE mg.i # 1
    BY <2>1, <1>n, <1>t
  <2>2. CASE mg.i = 1
    <3> DEFINE r == [x \in Field |-> IF x \in stay THEN rules[mg.to][x] ELSE seen.new[x]]
    <3>1. rules' = [rules EXCEPT ![mg.to] = r]
      BY <2>2, <1>n, <1>i, <1>t
    <3>2. rules[mg.to] \in RuleState /\ seen.new \in RuleState
      BY <1>i, <1>s, <1>t
    <3>3. r \in RuleState
      BY <3>2 DEF RuleState, Field
    <3>4. \A x \in Field : r[x] = IF x \in stay THEN rules[mg.to][x] ELSE seen.new[x]
      OBVIOUS
    <3> HIDE DEF r
    <3> QED
      BY <2>2, <3>1, <3>3, <3>4, <1>i, <1>t
  <2> QED
    BY <2>1, <2>2
<1>f. rules'[mg.from] = rules[mg.from]
  BY <1>c, <1>i
<1>3. SeenPlaces' /\ NoClash' /\ SeenKept' /\ NowKept' /\ Paired' /\ Removals' /\ FlatAliases'
  BY <1>u, <1>r, <1>f, <1>1, <1>2, InsideStep
<1>4. MergePlaces'
  <2>1. names' \in NameFile /\ conn' \in Switches /\ live' \in Switches
        /\ polMem' \in NameFile /\ polFile' \in NameFile
    BY <1>p, <1>s DEF MergePlaces
  <2>2. /\ mg'.pc = "undo" => mg'.i >= 1
        /\ mg'.pc = "failed" => mg'.i = 0
        /\ mg'.pc # "done"
    BY <1>1, <1>i
  <2> QED
    BY <1>p, <1>i, <1>u, <1>c, <1>1, <1>2, <2>1, <2>2 DEF MergePlaces
<1>z. conn[mg.from] = seen.conn[mg.from] /\ (seen.conn[mg.from] = 0 => conn = seen.conn /\ live = seen.live)
  BY <1>i, <1>r DEF MergeInv, OnlyTarget
<1>5. OnlyTarget'
  <2>1. seen.conn[mg.from] = 0 => conn' = seen.conn /\ live' = seen.live
    BY <1>z
  <2> QED
    BY <1>u, <1>c, <1>r, <1>1, <2>1 DEF MergeInv, OnlyTarget
<1>6. FillsOnly'
  <2>1. \A x \in Field : ~mg.force /\ seen.new[x] # 0 => rules'[mg.to][x] = seen.new[x]
    BY <1>c, <1>r DEF MergeInv, FillsOnly
  <2> QED
    BY <1>u, <1>s, <1>r, <1>1, <2>1 DEF MergeInv, FillsOnly
<1>7. Restored'
  <2>1. \A n \in 1..4 : ~Reached(n)' => mg.i <= n
    BY <1>1, <1>i DEF Reached
  <2>2. \A n \in 1..4 : mg.i < n => ~Reached(n)
    BY <1>i DEF Reached
  <2>0. \A x \in {"name", "conn", "live", "pol"} : x \in mg.left => x \in mg'.left
    BY <1>1 DEF Field
  <2>9. stay \subseteq mg'.left
    BY <1>1
  <2>3. ~Reached(1)' => \A x \in Field : x \notin mg'.left => rules'[mg.to][x] = seen.new[x]
    BY <1>i, <1>c, <2>1, <2>9
  <2>4. ~Reached(2)' => "name" \in mg'.left \/ names' = seen.names
    <3>1. CASE mg.i = 2
      BY <3>1, <1>n, <1>y, <2>9
    <3>2. CASE mg.i # 2
      <4> SUFFICES ASSUME ~Reached(2)' PROVE "name" \in mg'.left \/ names' = seen.names
        OBVIOUS
      <4>1. ~Reached(2) /\ names' = names
        BY <3>2, <1>i, <1>n, <2>1, <2>2
      <4> QED
        BY <4>1, <2>0, <1>r DEF MergeInv, Restored
    <3> QED
      BY <3>1, <3>2
  <2>5. ~Reached(3)' => /\ "conn" \in mg'.left \/ conn' = seen.conn
                        /\ "live" \in mg'.left \/ live' \in {conn', seen.live}
    <3>1. CASE mg.i = 3 /\ conn[mg.from] # 0
      BY <3>1, <1>n, <1>y, <2>9
    <3>2. CASE mg.i = 3 /\ conn[mg.from] = 0
      BY <3>2, <1>n, <1>y, <1>z
    <3>3. CASE mg.i # 3
      <4> SUFFICES ASSUME ~Reached(3)'
                   PROVE  /\ "conn" \in mg'.left \/ conn' = seen.conn
                          /\ "live" \in mg'.left \/ live' \in {conn', seen.live}
        OBVIOUS
      <4>1. ~Reached(3) /\ conn' = conn /\ live' = live
        BY <3>3, <1>i, <1>n, <2>1, <2>2
      <4> QED
        BY <4>1, <2>0, <1>r DEF MergeInv, Restored
    <3> QED
      BY <3>1, <3>2, <3>3
  <2>6. ~Reached(4)' => polMem' = seen.pol /\ ("pol" \in mg'.left \/ polFile' = seen.polFile)
    <3>1. CASE mg.i = 4
      BY <3>1, <1>n, <1>y, <2>9
    <3>2. CASE mg.i # 4
      <4> SUFFICES ASSUME ~Reached(4)' PROVE polMem' = seen.pol /\ ("pol" \in mg'.left \/ polFile' = seen.polFile)
        OBVIOUS
      <4>1. ~Reached(4) /\ polMem' = polMem /\ polFile' = polFile
        BY <3>2, <1>i, <1>n, <2>1, <2>2
      <4> QED
        BY <4>1, <2>0, <1>r DEF MergeInv, Restored
    <3> QED
      BY <3>1, <3>2
  <2> QED
    BY <1>u, <1>1, <1>2, <2>3, <2>4, <2>5, <2>6 DEF Restored
<1>8. Copies'
  BY <1>2 DEF Copies
<1> QED
  BY <1>3, <1>4, <1>5, <1>6, <1>7, <1>8 DEF MergeInv

\* The alias table cannot be written.
LEMMA AliasFails == MergeInv /\ AliasStep /\ StepFails(TRUE, {}) /\ UNCHANGED <<alias, owed, forced>> => MergeInv'
<1> SUFFICES ASSUME MergeInv, AliasStep, StepFails(TRUE, {}), UNCHANGED <<alias, owed, forced>> PROVE MergeInv'
  OBVIOUS
<1>p. MergePlaces /\ mg \in Merges /\ mg.pc = "do"
  BY DEF MergeInv, AliasStep, MergePlaces
<1>i. mg.i = 5
  <2>1. mg.i \in 1..5
    BY <1>p DEF MergePlaces, Merges
  <2> QED
    BY <1>p, <2>1, StepNames DEF AliasStep
<1>u. UNCHANGED <<rules, names, conn, live, polFile, polMem, base, seen>>
  BY DEF AliasStep, stores
<1>r. Running
  BY <1>p DEF Running
<1>1. mg' \in Merges /\ mg'.i = 5 /\ mg'.pc = "undo" /\ mg'.from = mg.from /\ mg'.to = mg.to /\ mg'.force = mg.force
  BY <1>p, <1>i, StepFailsIs
<1>2. Running' /\ mg'.pc # "do"
  BY <1>1 DEF Running
<1>3. SeenPlaces' /\ NoClash' /\ SeenKept' /\ NowKept' /\ Paired' /\ Removals' /\ FlatAliases'
  BY <1>u, <1>r, <1>1, <1>2, InsideStep
<1>4. MergePlaces'
  BY <1>p, <1>u, <1>1 DEF MergePlaces, Removing
<1>5. OnlyTarget' /\ FillsOnly'
  BY <1>u, <1>r, <1>1 DEF MergeInv, OnlyTarget, FillsOnly
<1>6. Restored'
  BY <1>1 DEF Restored, Reached
<1>7. Copies'
  BY <1>2 DEF Copies
<1> QED
  BY <1>3, <1>4, <1>5, <1>6, <1>7 DEF MergeInv

\* A flat table stays flat.
LEMMA FlatStays ==
  ASSUME NEW al \in AliasFile, NEW f \in Mac, NEW t \in Mac, f # t, \A m \in DOMAIN al : al[m] \notin DOMAIN al
  PROVE  /\ AddAlias(al, f, t) \in AliasFile /\ f \in DOMAIN AddAlias(al, f, t) /\ AddAlias(al, f, t)[f] = t
         /\ \A m \in DOMAIN AddAlias(al, f, t) : AddAlias(al, f, t)[m] \notin DOMAIN AddAlias(al, f, t)
<1> DEFINE S == (DOMAIN al \ {t}) \cup {f}
           new == AddAlias(al, f, t)
<1>1. new = [m \in S |-> IF m = f \/ al[m] = f THEN t ELSE al[m]]
  BY DEF AddAlias
<1>2. PICK D \in SUBSET Mac : al \in [D -> Mac]
  BY DEF AliasFile
<1>3. \A m \in S : (IF m = f \/ al[m] = f THEN t ELSE al[m]) \in Mac
  BY <1>2
<1>4. S \in SUBSET Mac
  BY <1>2
<1>5. new \in [S -> Mac]
  BY <1>1, <1>3
<1>6. new \in AliasFile
  BY <1>4, <1>5 DEF AliasFile
<1>7. DOMAIN new = S /\ \A m \in S : new[m] = IF m = f \/ al[m] = f THEN t ELSE al[m]
  BY <1>1
<1>8. f \in S /\ t \notin S
  OBVIOUS
<1>9. ASSUME NEW m \in S PROVE new[m] \notin S
  <2>1. CASE m = f \/ al[m] = f
    BY <2>1, <1>7, <1>8
  <2>2. CASE ~(m = f \/ al[m] = f)
    BY <2>2, <1>7
  <2> QED
    BY <2>1, <2>2
<1> HIDE DEF S, new
<1>10. \A m \in DOMAIN new : new[m] \notin DOMAIN new
  BY <1>7, <1>9
<1>11. f \in DOMAIN new /\ new[f] = t
  BY <1>7, <1>8
<1> QED
  BY <1>6, <1>10, <1>11 DEF new

\* What the user may count on under a MAC is stored there.
LEMMA DueHeld ==
  ASSUME MergeInv, NEW m \in Mac
  PROVE  /\ Due(m) \in [Setting -> 0..2]
         /\ \A x \in Setting : Due(m)[x] # 0 => Due(m)[x] = Held(m)[x] /\ owed[m][x] # 0
<1>1. SettingsKept
  BY MergeTyped
<1>2. Held(m) \in [Setting -> 0..2] /\ owed[m] \in [Setting -> 0..2]
  BY HeldIs DEF MergeInv, MergePlaces
<1>3. \A x \in Setting : Due(m)[x] = IF m \in forced /\ owed[m][x] # 0 THEN Held(m)[x] ELSE owed[m][x]
  BY DEF Due
<1>4. Due(m) \in [Setting -> 0..2]
  BY <1>2 DEF Due
<1>5. \A x \in Setting : Due(m)[x] # 0 => Due(m)[x] = Held(m)[x] /\ owed[m][x] # 0
  BY <1>1, <1>3 DEF SettingsKept
<1> QED
  BY <1>4, <1>5

\* The commit.
LEMMA AliasCommits ==
  ASSUME MergeInv, AliasStep, alias' = AddAlias(alias, mg.from, mg.to), mg' = [mg EXCEPT !.pc = "clean", !.i = 1],
         owed' = [owed EXCEPT ![mg.to] = Merged(Due(mg.from), Due(mg.to)), ![mg.from] = Nothing],
         forced' = forced \ {mg.to, mg.from}
  PROVE  MergeInv'
<1> DEFINE f == mg.from
           t == mg.to
<1>p. MergePlaces /\ mg \in Merges /\ mg.pc = "do"
  BY DEF MergeInv, AliasStep, MergePlaces
<1>i. mg.i = 5 /\ f \in Mac /\ t \in Mac /\ f # t
  <2>1. mg.i \in 1..5
    BY <1>p DEF MergePlaces, Merges
  <2> QED
    BY <1>p, <2>1, StepNames DEF AliasStep, MergePlaces, Merges
<1>u. UNCHANGED <<rules, names, conn, live, polFile, polMem, base, seen>>
  BY DEF AliasStep, stores
<1>r. Running
  BY <1>p DEF Running
<1>1. /\ mg' \in Merges /\ mg'.pc = "clean" /\ mg'.i = 1 /\ mg'.from = f /\ mg'.to = t
  <2>1. \A m \in Merges, k \in 0..5 : [m EXCEPT !.pc = "clean", !.i = k] \in Merges
    BY DEF Merges
  <2>2. 1 \in 0..5
    OBVIOUS
  <2>3. mg' \in Merges
    BY <1>p, <2>1, <2>2
  <2> QED
    BY <1>p, <2>3 DEF Merges
<1>2. ~Running' /\ Removing' /\ mg'.pc # "do"
  BY <1>1 DEF Running, Removing
<1>3. /\ alias' \in AliasFile /\ f \in DOMAIN alias' /\ alias'[f] = t /\ \A m \in DOMAIN alias' : alias'[m] \notin DOMAIN alias'
  BY <1>p, <1>i, FlatStays DEF MergeInv, MergePlaces, FlatAliases
<1>d. /\ Due(f) \in [Setting -> 0..2] /\ Due(t) \in [Setting -> 0..2]
      /\ \A x \in Setting : Due(f)[x] # 0 => Due(f)[x] = Held(f)[x] /\ owed[f][x] # 0
      /\ \A x \in Setting : Due(t)[x] # 0 => Due(t)[x] = Held(t)[x] /\ owed[t][x] # 0
  BY <1>i, DueHeld
<1>4. /\ Merged(Due(f), Due(t)) \in [Setting -> 0..2]
      /\ \A x \in Setting : Merged(Due(f), Due(t))[x] = IF Due(f)[x] # 0 THEN Due(f)[x] ELSE Due(t)[x]
  BY <1>d DEF Merged
<1>5. /\ owed \in [Mac -> [Setting -> 0..2]] /\ Nothing \in [Setting -> 0..2]
  BY <1>p DEF MergePlaces, Nothing
<1>6. /\ owed' \in [Mac -> [Setting -> 0..2]] /\ owed'[f] = Nothing /\ owed'[t] = Merged(Due(f), Due(t))
      /\ \A m \in Mac \ {f, t} : owed'[m] = owed[m]
  BY <1>i, <1>4, <1>5
<1>7. MergePlaces'
  BY <1>p, <1>i, <1>u, <1>1, <1>3, <1>6 DEF MergePlaces
<1>8. \A x \in Setting : Nothing[x] = 0
  BY DEF Nothing
<1>h. \A m \in Mac : /\ \A x \in Field : Held(m)[x] = Want(m)[x]
                     /\ \A x \in Field : Want(m)[x] = IF x = "lim" /\ base[m] # NoBase THEN base[m] ELSE rules[m][x]
                     /\ Held(m)["name"] = names[m] /\ Held(m)["conn"] = conn[m] /\ Held(m)["pol"] = polFile[m]
  BY <1>p, HeldIs
<1>q. \A m \in Mac \ {t} : owed[m]["pol"] # 0 => polMem[m] = polFile[m]
  BY <1>r DEF MergeInv, Paired, OnlyTarget
<1>s. "pol" \in Setting /\ "name" \in Setting /\ "conn" \in Setting /\ Field \subseteq Setting
  BY DEF Setting
<1>c. /\ \A x \in Field : seen.old[x] # 0 => rules[t][x] = seen.old[x]
      /\ names[f] # 0 => names[t] = names[f]
      /\ conn[f] # 0 => conn[t] = conn[f]
      /\ polMem[f] # 0 => polMem[t] = polMem[f] /\ polFile[t] = polMem[f]
      /\ polMem[f] = 0 => polMem = seen.pol /\ polFile = seen.polFile
  BY <1>p, <1>i DEF MergeInv, Copies
<1>e. seen.old = Want(f) /\ base[t] = NoBase
  BY <1>r DEF MergeInv, SeenPlaces
<1>9. \A x \in Setting : Due(f)[x] # 0 => Held(t)[x] = Due(f)[x]
  <2> SUFFICES ASSUME NEW x \in Setting, Due(f)[x] # 0 PROVE Held(t)[x] = Held(f)[x]
    BY <1>d
  <2>1. Held(f)[x] # 0 /\ owed[f][x] # 0
    BY <1>d
  <2>2. CASE x \in Field
    BY <2>1, <2>2, <1>c, <1>e, <1>h, <1>i
  <2>3. CASE x = "name"
    BY <2>1, <2>3, <1>c, <1>h, <1>i
  <2>4. CASE x = "conn"
    BY <2>1, <2>4, <1>c, <1>h, <1>i
  <2>5. CASE x = "pol"
    BY <2>1, <2>5, <1>c, <1>h, <1>i, <1>q
  <2> QED
    BY <2>2, <2>3, <2>4, <2>5 DEF Setting
<1>10. \A x \in Setting : owed'[t][x] # 0 => owed'[t][x] = Held(t)[x]
  <2> TAKE x \in Setting
  <2>1. owed'[t][x] = IF Due(f)[x] # 0 THEN Due(f)[x] ELSE Due(t)[x]
    BY <1>4, <1>6
  <2>2. Due(f)[x] # 0 => Held(t)[x] = Due(f)[x]
    BY <1>9
  <2>3. Due(t)[x] # 0 => Due(t)[x] = Held(t)[x]
    BY <1>d
  <2> QED
    BY <2>1, <2>2, <2>3
<1>11. NowKept'
  <2> SUFFICES ASSUME NEW m \in Mac \ forced' PROVE Stored1(base, rules, names, conn, polFile, m)'
    BY DEF NowKept
  <2>1. CASE m = f
    BY <2>1, <1>6, <1>8, <1>s DEF Stored1
  <2>2. CASE m = t
    <3>1. /\ \A x \in Field : owed'[t][x] # 0 => owed'[t][x] = (IF x = "lim" /\ base[t] # NoBase THEN base[t] ELSE rules[t][x])
          /\ owed'[t]["name"] # 0 => owed'[t]["name"] = names[t]
          /\ owed'[t]["conn"] # 0 => owed'[t]["conn"] = conn[t]
          /\ owed'[t]["pol"] # 0 => owed'[t]["pol"] = polFile[t]
      <4>1. ASSUME NEW x \in Field, owed'[t][x] # 0
            PROVE  owed'[t][x] = (IF x = "lim" /\ base[t] # NoBase THEN base[t] ELSE rules[t][x])
        <5>1. owed'[t][x] = Held(t)[x]
          BY <4>1, <1>10, <1>s
        <5>2. Held(t)[x] = Want(t)[x] /\ Want(t)[x] = (IF x = "lim" /\ base[t] # NoBase THEN base[t] ELSE rules[t][x])
          BY <1>h, <1>i
        <5> QED
          BY <5>1, <5>2
      <4>2. owed'[t]["name"] # 0 => owed'[t]["name"] = names[t]
        <5>1. owed'[t]["name"] # 0 => owed'[t]["name"] = Held(t)["name"]
          BY <1>10, <1>s
        <5> QED
          BY <1>h, <1>i, <5>1
      <4>3. owed'[t]["conn"] # 0 => owed'[t]["conn"] = conn[t]
        <5>1. owed'[t]["conn"] # 0 => owed'[t]["conn"] = Held(t)["conn"]
          BY <1>10, <1>s
        <5> QED
          BY <1>h, <1>i, <5>1
      <4>4. owed'[t]["pol"] # 0 => owed'[t]["pol"] = polFile[t]
        <5>1. owed'[t]["pol"] # 0 => owed'[t]["pol"] = Held(t)["pol"]
          BY <1>10, <1>s
        <5> QED
          BY <1>h, <1>i, <5>1
      <4> QED
        BY <4>1, <4>2, <4>3, <4>4
    <3> QED
      BY <2>2, <3>1, <1>u DEF Stored1
  <2>3. CASE m \notin {f, t}
    <3>1. m \notin forced /\ owed'[m] = owed[m]
      BY <2>3, <1>6
    <3>2. \A x \in Setting : owed[m][x] # 0 => Held(m)[x] = owed[m][x]
      BY <3>1, MergeTyped DEF SettingsKept
    <3>3. Stored1(base, rules, names, conn, polFile, m)
      BY <3>2, <1>p, StoredHeld
    <3> QED
      BY <3>1, <3>3, <1>u DEF Stored1
  <2> QED
    BY <2>1, <2>2, <2>3
<1>12. Paired'
  <2> SUFFICES ASSUME NEW m \in Mac, owed'[m]["pol"] # 0 PROVE polMem[m] = polFile[m]
    BY <1>2, <1>u DEF Paired
  <2>1. m # f
    BY <1>6, <1>8, <1>s
  <2>2. CASE m = t
    <3>1. CASE polMem[f] # 0
      BY <2>2, <3>1, <1>c
    <3>2. CASE polMem[f] = 0
      <4>1. polMem = seen.pol /\ polFile = seen.polFile
        BY <3>2, <1>c
      <4>2. owed[t]["pol"] # 0 \/ owed[f]["pol"] # 0
        BY <2>2, <1>4, <1>6, <1>d, <1>s
      <4>3. owed[f]["pol"] # 0 /\ Due(f)["pol"] # 0 => FALSE
        BY <3>2, <1>q, <1>d, <1>h, <1>i, <1>s
      <4>4. owed[t]["pol"] # 0
        BY <2>2, <4>3, <1>4, <1>6, <1>d, <1>s
      <4> QED
        BY <2>2, <4>1, <4>4, <1>r DEF MergeInv, Paired
    <3> QED
      BY <3>1, <3>2
  <2>3. CASE m # t
    BY <2>1, <2>3, <1>6, <1>q
  <2> QED
    BY <2>2, <2>3
<1>13. Removals'
  BY <1>1, <1>3, <1>6 DEF Removals
<1>14. FlatAliases'
  BY <1>3 DEF FlatAliases
<1>15. SeenPlaces' /\ NoClash' /\ OnlyTarget' /\ FillsOnly' /\ Restored' /\ Copies' /\ SeenKept'
  BY <1>2 DEF SeenPlaces, NoClash, OnlyTarget, FillsOnly, Restored, Copies, SeenKept
<1> QED
  BY <1>7, <1>11, <1>12, <1>13, <1>14, <1>15 DEF MergeInv

\* The alias step, committed or not.
LEMMA AliasMoves == MergeInv /\ AliasStep => MergeInv'
<1> SUFFICES ASSUME MergeInv, AliasStep PROVE MergeInv'
  OBVIOUS
<1>1. \/ /\ alias' = AddAlias(alias, mg.from, mg.to) /\ mg' = [mg EXCEPT !.pc = "clean", !.i = 1]
         /\ owed' = [owed EXCEPT ![mg.to] = Merged(Due(mg.from), Due(mg.to)), ![mg.from] = Nothing]
         /\ forced' = forced \ {mg.to, mg.from}
      \/ StepFails(TRUE, {}) /\ UNCHANGED <<alias, owed, forced>>
  BY DEF AliasStep
<1> QED
  BY <1>1, AliasFails, AliasCommits

\* Removing the settings of the old MAC.
LEMMA MergeCleans == MergeInv /\ Clean => MergeInv'
<1> SUFFICES ASSUME MergeInv, Clean PROVE MergeInv'
  OBVIOUS
<1> DEFINE f == mg.from
<1>p. MergePlaces /\ mg \in Merges /\ mg.pc = "clean"
  BY DEF MergeInv, Clean, MergePlaces
<1>r. ~Running /\ Removing
  BY <1>p DEF Running, Removing
<1>i. mg.i \in 1..4 /\ f \in Mac /\ f # mg.to /\ mg.warned \in BOOLEAN
  BY <1>p, <1>r DEF MergePlaces, Merges, Clean
<1>u. UNCHANGED <<alias, seen, owed, forced>>
  BY DEF Clean
<1>t. /\ rules \in [Mac -> RuleState] /\ base \in Bases /\ names \in NameFile /\ conn \in Switches
      /\ live \in Switches /\ polFile \in NameFile /\ polMem \in NameFile
  BY <1>p DEF MergePlaces
<1>o. owed[f] = Nothing /\ f \in DOMAIN alias /\ alias[f] = mg.to
  BY <1>r DEF MergeInv, Removals
<1>c. \/ /\ rules' = IF mg.i = 1 THEN [rules EXCEPT ![f] = Empty] ELSE rules
         /\ names' = IF mg.i = 2 THEN [names EXCEPT ![f] = 0] ELSE names
         /\ conn'  = IF mg.i = 3 THEN [conn EXCEPT ![f] = 0] ELSE conn
         /\ live' = IF mg.i = 3 THEN conn' ELSE live
         /\ polMem' = IF mg.i = 4 THEN [polMem EXCEPT ![f] = 0] ELSE polMem
         /\ polFile' = IF mg.i = 4 /\ polMem[f] # 0 THEN polMem' ELSE polFile
         /\ base' = IF mg.i = 4 THEN [base EXCEPT ![f] = NoBase] ELSE base
         /\ mg' = [mg EXCEPT !.i = @ + 1]
      \/ /\ mg' = [mg EXCEPT !.i = @ + 1, !.warned = TRUE]
         /\ polMem' = IF mg.i = 4 THEN [polMem EXCEPT ![f] = 0] ELSE polMem
         /\ base' = IF mg.i = 4 THEN [base EXCEPT ![f] = NoBase] ELSE base
         /\ \/ rules' = rules
            \/ \E some \in SUBSET Field : rules' = [rules EXCEPT ![f] = [x \in Field |-> IF x \in some THEN 0 ELSE @[x]]]
         /\ UNCHANGED <<names, conn, live, polFile>>
  <2>1. /\ Step[mg.i] = "rules" <=> mg.i = 1
        /\ Step[mg.i] = "names" <=> mg.i = 2
        /\ Step[mg.i] = "conn" <=> mg.i = 3
        /\ Step[mg.i] = "policy" <=> mg.i = 4
    BY <1>i, StepNames
  <2>2. \A S \in SUBSET {x \in Field : rules[f][x] # 0} : S \in SUBSET Field
    OBVIOUS
  <2> QED
    BY <2>1, <2>2, Zenon DEF Clean, Removed
<1>1. /\ mg' \in Merges /\ mg'.i = mg.i + 1 /\ mg'.pc = "clean" /\ mg'.from = f /\ mg'.to = mg.to
  <2>1. \A k \in 0..5 : [mg EXCEPT !.i = k] \in Merges /\ [mg EXCEPT !.i = k, !.warned = TRUE] \in Merges
    BY <1>p DEF Merges
  <2>2. mg.i + 1 \in 0..5
    BY <1>i
  <2>3. mg' = [mg EXCEPT !.i = mg.i + 1] \/ mg' = [mg EXCEPT !.i = mg.i + 1, !.warned = TRUE]
    BY <1>c
  <2>4. mg' \in Merges
    BY <2>1, <2>2, <2>3
  <2> QED
    BY <1>p, <2>3, <2>4 DEF Merges
<1>2. ~Running' /\ Removing' /\ mg'.pc # "do"
  BY <1>1 DEF Running, Removing
<1>e. Empty \in RuleState
  BY DEF Empty, RuleState, Field
<1>3. /\ rules' \in [Mac -> RuleState] /\ base' \in Bases /\ names' \in NameFile /\ conn' \in Switches
      /\ live' \in Switches /\ polFile' \in NameFile /\ polMem' \in NameFile
  <2>0. ASSUME NEW some \in SUBSET Field
        PROVE  [rules EXCEPT ![f] = [x \in Field |-> IF x \in some THEN 0 ELSE @[x]]] \in [Mac -> RuleState]
    <3>1. rules[f] \in RuleState
      BY <1>i, <1>t
    <3>2. [x \in Field |-> IF x \in some THEN 0 ELSE rules[f][x]] \in RuleState
      BY <3>1 DEF RuleState, Field
    <3> QED
      BY <3>2, <1>i, <1>t
  <2>1. rules' \in [Mac -> RuleState]
    BY <1>c, <1>t, <1>e, <2>0
  <2>2. base' \in Bases
    BY <1>c, <1>t DEF Bases
  <2>3. names' \in NameFile
    BY <1>c, <1>t DEF NameFile
  <2>4. conn' \in Switches /\ live' \in Switches
    BY <1>c, <1>t DEF Switches
  <2>5. polMem' \in NameFile
    BY <1>c, <1>t DEF NameFile
  <2>6. polFile' \in NameFile
    BY <1>c, <1>t, <2>5
  <2> QED
    BY <2>1, <2>2, <2>3, <2>4, <2>5, <2>6
<1>4. MergePlaces'
  BY <1>p, <1>i, <1>u, <1>1, <1>2, <1>3 DEF MergePlaces
<1>5. \A m \in Mac \ {f} : /\ rules'[m] = rules[m] /\ base'[m] = base[m] /\ names'[m] = names[m] /\ conn'[m] = conn[m]
                          /\ polMem'[m] = polMem[m] /\ polFile'[m] \in {polMem[m], polFile[m]}
  <2> TAKE m \in Mac \ {f}
  <2>1. rules'[m] = rules[m] /\ base'[m] = base[m]
    BY <1>c, <1>t DEF Bases
  <2>2. names'[m] = names[m] /\ conn'[m] = conn[m] /\ polMem'[m] = polMem[m]
    BY <1>c, <1>t DEF NameFile, Switches
  <2>3. polFile'[m] \in {polMem[m], polFile[m]}
    BY <1>c, <2>2
  <2> QED
    BY <2>1, <2>2, <2>3
<1>6. owed[f]["name"] = 0 /\ owed[f]["conn"] = 0 /\ owed[f]["pol"] = 0 /\ \A x \in Field : owed[f][x] = 0
  BY <1>o DEF Nothing, Setting
<1>7. \A m \in Mac : owed[m]["pol"] # 0 => polMem[m] = polFile[m]
  BY <1>r DEF MergeInv, Paired
<1>8. NowKept'
  <2> SUFFICES ASSUME NEW m \in Mac \ forced PROVE Stored1(base, rules, names, conn, polFile, m)'
    BY <1>u DEF NowKept
  <2>1. CASE m = f
    BY <2>1, <1>6, <1>u DEF Stored1
  <2>2. CASE m # f
    <3>1. Stored1(base, rules, names, conn, polFile, m)
      BY <1>r DEF MergeInv, NowKept
    <3> QED
      BY <2>2, <3>1, <1>5, <1>7, <1>u DEF Stored1
  <2> QED
    BY <2>1, <2>2
<1>9. Paired'
  <2> SUFFICES ASSUME NEW m \in Mac, owed[m]["pol"] # 0 PROVE polMem'[m] = polFile'[m]
    BY <1>2, <1>u DEF Paired
  <2> QED
    BY <1>5, <1>6, <1>7
<1>10. Removals'
  <2> SUFFICES ASSUME ~mg'.warned
               PROVE  /\ mg'.i > 1 => rules'[f] = Empty
                      /\ mg'.i > 2 => names'[f] = 0
                      /\ mg'.i > 3 => conn'[f] = 0
                      /\ mg'.i > 4 => polMem'[f] = 0 /\ base'[f] = NoBase
    BY <1>o, <1>u, <1>1 DEF Removals
  <2>1. mg' # [mg EXCEPT !.i = mg.i + 1, !.warned = TRUE]
    BY <1>p DEF Merges
  <2>2. mg' = [mg EXCEPT !.i = mg.i + 1]
    BY <1>c, <2>1
  <2>3. ~mg.warned
    BY <1>p, <2>2 DEF Merges
  <2>4. /\ rules' = IF mg.i = 1 THEN [rules EXCEPT ![f] = Empty] ELSE rules
        /\ names' = IF mg.i = 2 THEN [names EXCEPT ![f] = 0] ELSE names
        /\ conn'  = IF mg.i = 3 THEN [conn EXCEPT ![f] = 0] ELSE conn
        /\ polMem' = IF mg.i = 4 THEN [polMem EXCEPT ![f] = 0] ELSE polMem
        /\ base' = IF mg.i = 4 THEN [base EXCEPT ![f] = NoBase] ELSE base
    BY <1>c, <2>1
  <2>5. /\ mg.i > 1 => rules[f] = Empty
        /\ mg.i > 2 => names[f] = 0
        /\ mg.i > 3 => conn[f] = 0
    BY <1>r, <2>3 DEF MergeInv, Removals
  <2>6. rules'[f] = Empty
    BY <1>i, <1>t, <2>4, <2>5
  <2>7. mg.i > 1 => names'[f] = 0
    BY <1>i, <1>t, <2>4, <2>5 DEF NameFile
  <2>8. mg.i > 2 => conn'[f] = 0
    BY <1>i, <1>t, <2>4, <2>5 DEF Switches
  <2>9. mg.i > 3 => polMem'[f] = 0 /\ base'[f] = NoBase
    BY <1>i, <1>t, <2>4 DEF NameFile, Bases
  <2> QED
    BY <1>1, <1>i, <2>6, <2>7, <2>8, <2>9
<1>11. FlatAliases'
  BY <1>u DEF MergeInv, FlatAliases
<1>12. SeenPlaces' /\ NoClash' /\ OnlyTarget' /\ FillsOnly' /\ Restored' /\ Copies' /\ SeenKept'
  BY <1>2 DEF SeenPlaces, NoClash, OnlyTarget, FillsOnly, Restored, Copies, SeenKept
<1> QED
  BY <1>4, <1>8, <1>9, <1>10, <1>11, <1>12 DEF MergeInv

\* A roll back that could not put back a policy has left it to the target of a forced merge.
LEMMA PairedAgain ==
  ASSUME MergeInv, mg.pc = "failed", NEW m \in Mac, owed[m]["pol"] # 0,
         m = mg.to /\ m \in forced => "pol" \notin mg.left
  PROVE  polMem[m] = polFile[m]
<1>1. Running /\ mg.i = 0 /\ mg.to \in Mac
  BY DEF Running, MergeInv, MergePlaces, Merges
<1>2. ~Reached(4)
  BY <1>1 DEF Reached
<1>3. polMem = seen.pol /\ ("pol" \in mg.left \/ polFile = seen.polFile)
  BY <1>1, <1>2 DEF MergeInv, Restored
<1>4. seen.pol[m] = seen.polFile[m]
  BY <1>1 DEF MergeInv, Paired
<1>5. CASE "pol" \notin mg.left
  BY <1>3, <1>4, <1>5
<1>6. CASE m # mg.to
  <2>1. polFile[m] \in {seen.pol[m], seen.polFile[m]}
    BY <1>1, <1>6 DEF MergeInv, OnlyTarget
  <2> QED
    BY <1>3, <1>4, <2>1
<1>7. CASE m = mg.to /\ m \notin forced
  <2>1. ~mg.force /\ m \notin seen.forced
    BY <1>1, <1>7 DEF MergeInv, SeenPlaces
  <2>2. owed[m]["pol"] = seen.polFile[m]
    BY <1>1, <2>1 DEF MergeInv, SeenKept, Stored1
  <2>3. polFile[m] \in {seen.pol[m], seen.polFile[m]}
    BY <1>1, <1>4, <1>7, <2>1, <2>2 DEF MergeInv, FillsOnly
  <2> QED
    BY <1>3, <1>4, <2>3
<1> QED
  BY <1>5, <1>6, <1>7

\* The end of the removal, the answer and a kill: what is stored stays.
LEMMA MergeEnds ==
  ASSUME MergeInv, UNCHANGED <<rules, base, names, conn, live, polFile, alias>>,
         polMem' = polFile \/ (polMem' = polMem /\ (mg.pc # "do" /\ mg.pc # "undo")),
         mg' = IdleMerge,
         \/ forced' = forced /\ owed' = owed /\ (polMem' = polFile \/ mg.pc # "failed")
         \/ /\ mg.pc = "failed" /\ polMem' = polMem /\ forced' = seen.forced
            /\ owed' = IF mg.to \in forced
                       THEN [owed EXCEPT ![mg.to] = [x \in Setting |-> IF x \in mg.left THEN 0 ELSE @[x]]]
                       ELSE owed
  PROVE  MergeInv'
<1>p. MergePlaces
  BY DEF MergeInv
<1>1. mg' \in Merges /\ mg'.pc = "idle"
  BY MergeAssumption DEF Merges, IdleMerge
<1>2. ~Running' /\ ~Removing' /\ mg'.pc # "do"
  BY <1>1 DEF Running, Removing
<1>t. mg.to \in Mac /\ owed \in [Mac -> [Setting -> 0..2]]
  BY <1>p DEF MergePlaces, Merges
<1>f. mg.pc = "failed" => /\ RolledBack /\ Running /\ seen.forced \subseteq forced
                          /\ forced \subseteq seen.forced \cup {mg.to} /\ seen.rules \in [Mac -> RuleState]
  BY MergeTyped, Zenon DEF Running, MergeInv, SeenPlaces
<1>w. /\ owed' \in [Mac -> [Setting -> 0..2]]
      /\ \A m \in Mac, x \in Setting : owed'[m][x] # 0 => owed'[m][x] = owed[m][x]
      /\ \A m \in Mac : forced' # forced /\ m = mg.to /\ m \in forced => \A x \in mg.left \cap Setting : owed'[m][x] = 0
      /\ mg.pc = "failed" /\ polMem' # polFile => \A x \in mg.left \cap Setting : mg.to \in forced => owed'[mg.to][x] = 0
  <2> DEFINE w == [x \in Setting |-> IF x \in mg.left THEN 0 ELSE owed[mg.to][x]]
  <2>1. CASE owed' = owed /\ ~(mg.pc = "failed" /\ mg.to \in forced /\ (forced' # forced \/ polMem' # polFile))
    BY <1>t, <2>1
  <2>2. CASE owed' = [owed EXCEPT ![mg.to] = w]
    <3>1. w \in [Setting -> 0..2] /\ \A x \in Setting : w[x] = IF x \in mg.left THEN 0 ELSE owed[mg.to][x]
      BY <1>t
    <3> HIDE DEF w
    <3>2. /\ owed' \in [Mac -> [Setting -> 0..2]] /\ owed'[mg.to] = w
          /\ \A m \in Mac : m # mg.to => owed'[m] = owed[m]
      BY <1>t, <2>2, <3>1
    <3> QED
      BY <3>1, <3>2
  <2>3. \/ owed' = owed /\ ~(mg.pc = "failed" /\ mg.to \in forced /\ (forced' # forced \/ polMem' # polFile))
        \/ owed' = [owed EXCEPT ![mg.to] = w]
    OBVIOUS
  <2> QED
    BY <2>1, <2>2, <2>3
<1>3. MergePlaces'
  <2>1. forced' \subseteq Mac
    BY <1>p, <1>f DEF MergePlaces
  <2>2. polMem' \in NameFile
    BY <1>p DEF MergePlaces
  <2> QED
    BY <1>p, <1>w, <1>1, <1>2, <2>1, <2>2 DEF MergePlaces
<1>4. NowKept'
  <2> SUFFICES ASSUME NEW m \in Mac \ forced' PROVE Stored1(base, rules, names, conn, polFile, m)'
    BY DEF NowKept
  <2>1. CASE m \notin forced
    <3>1. \A x \in Setting : owed[m][x] # 0 => Held(m)[x] = owed[m][x]
      BY <2>1, MergeTyped DEF SettingsKept
    <3>2. Stored1(base, rules, names, conn, polFile, m)
      BY <3>1, <1>p, StoredHeld
    <3> QED
      BY <3>2, <1>w DEF Stored1, Setting
  <2>2. CASE m \in forced
    <3>1. mg.pc = "failed" /\ m \notin seen.forced /\ forced' # forced /\ m = mg.to
      BY <2>2, <1>f
    <3>2. Stored1(base, seen.rules, seen.names, seen.conn, seen.polFile, m)
      BY <3>1, <1>f DEF MergeInv, SeenKept
    <3>3. \A x \in mg.left \cap Setting : owed'[m][x] = 0
      BY <2>2, <3>1, <1>w
    <3>4. /\ \A x \in Field : x \notin mg.left => rules[m][x] = seen.rules[m][x]
          /\ "name" \notin mg.left => names[m] = seen.names[m]
          /\ "conn" \notin mg.left => conn[m] = seen.conn[m]
          /\ "pol" \notin mg.left => polFile[m] = seen.polFile[m]
      BY <3>1, <1>f DEF RolledBack
    <3>5. /\ \A x \in Field : owed'[m][x] # 0 => x \notin mg.left /\ owed'[m][x] = owed[m][x]
          /\ \A x \in {"name", "conn", "pol"} : owed'[m][x] # 0 => x \notin mg.left /\ owed'[m][x] = owed[m][x]
      BY <3>3, <1>w DEF Setting
    <3> QED
      BY <3>2, <3>4, <3>5 DEF Stored1
  <2> QED
    BY <2>1, <2>2
<1>5. Paired'
  <2> SUFFICES ASSUME NEW m \in Mac, owed'[m]["pol"] # 0, polMem' = polMem, polMem' # polFile, mg.pc # "do" /\ mg.pc # "undo"
               PROVE  polMem[m] = polFile[m]
    BY <1>2 DEF Paired
  <2>0. owed[m]["pol"] # 0
    BY <1>w DEF Setting
  <2>1. CASE mg.pc = "failed"
    <3>1. m = mg.to /\ m \in forced => "pol" \notin mg.left
      BY <2>1, <1>w DEF Setting
    <3> QED
      BY <2>0, <2>1, <3>1, PairedAgain
  <2>2. CASE mg.pc # "failed"
    <3>1. ~Running
      BY <2>2 DEF Running
    <3> QED
      BY <3>1, <2>0 DEF MergeInv, Paired
  <2> QED
    BY <2>1, <2>2
<1>6. FlatAliases'
  BY DEF MergeInv, FlatAliases
<1>7. SeenPlaces' /\ NoClash' /\ OnlyTarget' /\ FillsOnly' /\ Restored' /\ Copies' /\ SeenKept' /\ Removals'
  BY <1>2 DEF SeenPlaces, NoClash, OnlyTarget, FillsOnly, Restored, Copies, SeenKept, Removals
<1> QED
  BY <1>3, <1>4, <1>5, <1>6, <1>7 DEF MergeInv

\* Every step of a merge keeps the invariant.
LEMMA MergeStep == MergeInv /\ [MergeNext]_mergeVars => MergeInv'
<1> SUFFICES ASSUME MergeInv, [MergeNext]_mergeVars PROVE MergeInv'
  OBVIOUS
<1>1. CASE StartMerge
  BY <1>1, MergeBegins
<1>2. CASE RulesStep
  BY <1>2, RulesMoves
<1>3. CASE NamesStep
  BY <1>3, NamesMoves
<1>4. CASE ConnStep
  BY <1>4, ConnMoves
<1>5. CASE PolicyStep
  BY <1>5, PolicyMoves
<1>6. CASE AliasStep
  BY <1>6, AliasMoves
<1>7. CASE Undo
  BY <1>7, MergeUndoes
<1>8. CASE Clean
  BY <1>8, MergeCleans
<1>9. CASE CleanEnds
  <2>1. mg \in Merges /\ mg.pc = "clean" /\ mg.i = 5 /\ mg' = [mg EXCEPT !.pc = "done"]
    BY <1>9 DEF MergeInv, MergePlaces, CleanEnds
  <2>2. UNCHANGED <<rules, names, conn, live, polFile, polMem, base, alias, seen, owed, forced>>
    BY <1>9 DEF CleanEnds, stores
  <2>3. /\ mg' \in Merges /\ mg'.pc = "done" /\ mg'.i = 5 /\ mg'.from = mg.from /\ mg'.to = mg.to /\ mg'.warned = mg.warned
    BY <2>1 DEF Merges
  <2>4. ~Running' /\ ~Running /\ Removing /\ Removing' /\ mg'.pc # "do"
    BY <2>1, <2>3 DEF Running, Removing
  <2>5. MergePlaces'
    BY <2>1, <2>2, <2>3 DEF MergeInv, MergePlaces
  <2>6. NowKept' /\ Paired' /\ FlatAliases'
    BY <2>2, <2>4 DEF MergeInv, NowKept, Stored1, Paired, FlatAliases
  <2>7. Removals'
    BY <2>1, <2>2, <2>3, <2>4 DEF MergeInv, Removals
  <2>8. SeenPlaces' /\ NoClash' /\ OnlyTarget' /\ FillsOnly' /\ Restored' /\ Copies' /\ SeenKept'
    BY <2>4 DEF SeenPlaces, NoClash, OnlyTarget, FillsOnly, Restored, Copies, SeenKept
  <2> QED
    BY <2>5, <2>6, <2>7, <2>8 DEF MergeInv
<1>10. CASE Answer
  <2>1. /\ UNCHANGED <<rules, base, names, conn, live, polFile, polMem, alias>> /\ mg' = IdleMerge
        /\ mg.pc # "do" /\ mg.pc # "undo"
    BY <1>10 DEF Answer, stores
  <2>2. CASE mg.pc = "failed"
    <3>1. /\ forced' = seen.forced
          /\ owed' = IF mg.to \in forced
                     THEN [owed EXCEPT ![mg.to] = [x \in Setting |-> IF x \in mg.left THEN 0 ELSE @[x]]]
                     ELSE owed
      BY <1>10, <2>2 DEF Answer
    <3> QED
      BY <2>1, <2>2, <3>1, MergeEnds
  <2>3. CASE mg.pc # "failed"
    <3>1. forced' = forced /\ owed' = owed
      BY <1>10, <2>3 DEF Answer
    <3> QED
      BY <2>1, <2>3, <3>1, MergeEnds
  <2> QED
    BY <2>2, <2>3
<1>11. CASE Crash
  <2>1. UNCHANGED <<rules, base, names, conn, live, polFile, alias, owed, forced>> /\ mg' = IdleMerge /\ polMem' = polFile
    BY <1>11 DEF Crash
  <2> QED
    BY <2>1, MergeEnds
<1>12. CASE UNCHANGED mergeVars
  <2>1. UNCHANGED <<rules, names, conn, live, polFile, polMem, base, alias, mg, seen, owed, forced>>
    BY <1>12 DEF mergeVars, stores
  <2>2. MergePlaces' /\ SeenPlaces' /\ NoClash' /\ OnlyTarget'
    BY <2>1 DEF MergeInv, MergePlaces, SeenPlaces, NoClash, OnlyTarget, Running, Removing, Want
  <2>3. FillsOnly' /\ Restored' /\ Copies'
    BY <2>1 DEF MergeInv, FillsOnly, Restored, Copies, Running, Reached
  <2>4. SeenKept' /\ NowKept' /\ Paired' /\ Removals' /\ FlatAliases'
    BY <2>1 DEF MergeInv, SeenKept, NowKept, Paired, Removals, FlatAliases, Running, Removing, Stored1
  <2> QED
    BY <2>2, <2>3, <2>4 DEF MergeInv
<1> QED
  BY <1>1, <1>2, <1>3, <1>4, <1>5, <1>6, <1>7, <1>8, <1>9, <1>10, <1>11, <1>12 DEF MergeNext

-----------------------------------------------------------------------------
(* The suite.                                                              *)

WordInv == /\ part = "merge" => MergeInv
           /\ part = "suggest" => SuggestInv
           /\ part = "pack" => PackInv
           /\ part = "alerts" => AlertInv

\* A step of one component leaves the others alone.
LEMMA WordStep == ASSUME WordInv, [Next]_vars PROVE WordInv'
<1>1. CASE UNCHANGED vars
  <2>1. UNCHANGED <<part, mergeVars, suggVars, packVars, alertVars>>
    BY <1>1, Zenon DEF vars
  <2> QED
    BY <2>1, MergeStep, SuggestStep, PackStep, AlertStep DEF WordInv
<1>2. ASSUME NEW p \in Parts, Only(p), p \notin {"merge", "suggest", "pack", "alerts"} PROVE WordInv'
  BY <1>2 DEF Only, WordInv
<1>3. CASE Only("merge") /\ MergeNext
  BY <1>3, MergeStep DEF Only, WordInv
<1>4. CASE Only("suggest") /\ SuggestNext
  BY <1>4, SuggestStep DEF Only, WordInv
<1>5. CASE Only("pack") /\ PackNext
  BY <1>5, PackStep DEF Only, WordInv
<1>6. CASE Only("alerts") /\ AlertNext
  BY <1>6, AlertStep DEF Only, WordInv
<1> QED
  BY <1>1, <1>2, <1>3, <1>4, <1>5, <1>6 DEF Next, Parts

\* What the user set or said is kept, for every value of the constants:
\* mac_merge_action.go, mac_merge.go, rulepack.go and alert.go.
THEOREM WordsKept == Spec => []WordKept
<1>1. Init => WordInv
  BY MergeStart, SuggestStart, PackStart, AlertStart, Zenon DEF Init, WordInv
<1>2. WordInv /\ [Next]_vars => WordInv'
  BY WordStep
<1>3. WordInv => WordKept
  BY MergeTyped, SuggestTyped, PackTyped, AlertTyped, Zenon DEF WordInv, WordKept
<1> QED
  BY <1>1, <1>2, <1>3, PTL DEF Spec

\* A merge is complete or rolled back, but for settings of the new MAC whose own action
\* failed half-way or whose undo failed, and loses no setting on the way, whichever of its
\* writes, scripts, actions and undos fails and wherever hnc_httpd is killed
\* (mac_merge_action.go deviceMerge).
THEOREM MergesKeep == MergeSpec => [](RolledBack /\ SettingsKept /\ CleanMerge /\ FlatAliases)
<1>1. MergeInv => RolledBack /\ SettingsKept /\ CleanMerge /\ FlatAliases
  BY MergeTyped, Zenon
<1>2. MergeInv /\ [MergeNext]_mergeVars => MergeInv'
  BY MergeStep
<1> QED
  BY <1>1, <1>2, MergeStart, PTL DEF MergeSpec

\* A pair the user dismissed is not proposed again in its time, a merged MAC is not
\* proposed, and a MAC is announced once (mac_merge.go tick, dismiss).
THEOREM DismissalsStay == SuggestSpec => [](DismissedStays /\ MergedNotProposed /\ OneAlertPerMac)
<1>1. SuggestInv => DismissedStays /\ MergedNotProposed /\ OneAlertPerMac
  BY SuggestTyped, Zenon
<1>2. SuggestInv /\ [SuggestNext]_suggVars => SuggestInv'
  BY SuggestStep
<1> QED
  BY <1>1, <1>2, SuggestStart, PTL DEF SuggestSpec

\* An import changes no label the user gave, covers only hosts of its own
\* application and reports ok only for what is in the file (rulepack.go).
THEOREM ImportsKeepLabels == PackSpec => [](LocalLabelsKept /\ CoversOnlyOwn /\ OkMeansStored)
<1>1. PackInv => LocalLabelsKept /\ CoversOnlyOwn /\ OkMeansStored
  BY PackTyped, Zenon
<1>2. PackInv /\ [PackNext]_packVars => PackInv'
  BY PackStep
<1> QED
  BY <1>1, <1>2, PackStart, PTL DEF PackSpec

\* No alert is repeated in its cooldown and what the ledger holds was told of, unless the
\* alert could not be appended, whatever scan dies or write fails; what the user marked
\* as known stays known until a scan and a mark meet on the ledger file or a read of it
\* before a write fails (alert.go).
THEOREM AlertsKept == AlertSpec => [](CooldownKept /\ LedgerMeansTold /\ KnownStaysApart)
<1>1. AlertInv => CooldownKept /\ LedgerMeansTold /\ KnownStaysApart
  BY AlertTyped, Zenon
<1>2. AlertInv /\ [AlertNext]_alertVars => AlertInv'
  BY AlertStep
<1> QED
  BY <1>1, <1>2, AlertStart, PTL DEF AlertSpec

GateInv == /\ part = "pairing" => PairInv
           /\ part = "rate" => RateInv
           /\ part = "access" => AccInv
           /\ part \in {"udp", "tcp"} => ForwardInv

\* A step of one component leaves the others alone.
LEMMA GateStep == ASSUME GateInv, [Next]_vars PROVE GateInv'
<1>1. CASE UNCHANGED vars
  <2>1. UNCHANGED <<part, pairVars, rateVars, accVars, forwardVars>>
    BY <1>1, Zenon DEF vars
  <2> QED
    BY <2>1, PairStepKeeps, RateStepKeeps, AccStepKeeps, ForwardStepKeeps DEF GateInv
<1>2. ASSUME NEW p \in Parts, Only(p), p \notin {"pairing", "rate", "access", "udp", "tcp"} PROVE GateInv'
  BY <1>2 DEF Only, GateInv
<1>3. CASE Only("pairing") /\ PairNext
  BY <1>3, PairStepKeeps DEF Only, GateInv
<1>4. CASE Only("rate") /\ RateNext
  BY <1>4, RateStepKeeps DEF Only, GateInv
<1>5. CASE Only("access") /\ AccNext
  BY <1>5, AccStepKeeps DEF Only, GateInv
<1>6. ASSUME ForwardInv, ForwardUdp \/ ForwardTcp \/ CloseForwarder PROVE ForwardInv'
  BY <1>6, ForwardStepKeeps, Zenon DEF ForwardNext
<1>7. CASE Only("udp") /\ (ForwardUdp \/ CloseForwarder)
  BY <1>6, <1>7 DEF Only, GateInv
<1>8. CASE Only("tcp") /\ (ForwardTcp \/ CloseForwarder)
  BY <1>6, <1>8 DEF Only, GateInv
<1> QED
  BY <1>1, <1>2, <1>3, <1>4, <1>5, <1>7, <1>8 DEF Next, Parts

\* Who may come in and how often, for every value of the constants: the codes of
\* pair.go and pair_guard.go, the locks and the window of ratelimit.go, the list
\* and the firewall of webui_access.go, the forwarder of dns_forwarder.go.
THEOREM GatesStay == Spec => []GatesKept
<1>1. Init => GateInv
  BY PairStart, RateStart, AccStart, ForwardStart, Zenon DEF Init, GateInv
<1>2. GateInv /\ [Next]_vars => GateInv'
  BY GateStep
<1>3. GateInv => GatesKept
  BY PairTyped, RateTyped, AccTyped, ForwardTyped, Zenon DEF GateInv, GatesKept
<1> QED
  BY <1>1, <1>2, <1>3, PTL DEF Spec

\* Each lock of an address is twice as long as the one before, up to the longest, as long
\* as its entry is remembered (ratelimit.go RecordPinFailure).
THEOREM LocksEscalate == Spec => LocksGrow
<1>1. Init => GateInv
  BY PairStart, RateStart, AccStart, ForwardStart, Zenon DEF Init, GateInv
<1>2. GateInv /\ [Next]_vars => GateInv'
  BY GateStep
<1>3. GateInv /\ [Next]_vars => [part = "rate" => Doubles]_vars
  <2> SUFFICES ASSUME GateInv, [Next]_vars, part = "rate" PROVE Doubles
    BY Zenon
  <2>1. RateInv
    BY Zenon DEF GateInv
  <2>2. [RateNext]_rateVars
    BY DEF Next, Only, vars
  <2> QED
    BY <2>1, <2>2, RateDoubles
<1> QED
  BY <1>1, <1>2, <1>3, PTL DEF Spec, LocksGrow

-----------------------------------------------------------------------------
(* The clock guard.                                                        *)

\* The types, the counters that the runs bound included.
ClockGuards == [have : BOOLEAN, lastWall : 0..MaxWall, lastMono : 0..MaxBoot,
                insane : BOOLEAN, insaneSince : 0..MaxBoot]
ClockPlaced ==
  /\ wall \in 0..MaxWall /\ boot \in 0..MaxBoot /\ mono \in 0..boot /\ autoTime \in BOOLEAN
  /\ hwm \in 0..MaxWall /\ savedHWM \in 0..MaxWall /\ booked \in 0..MaxWall /\ slip \in 0..MaxWall
  /\ behindSince \in -1..boot /\ lagging \in -1..boot /\ waited \in 0..boot
  /\ clockGuard \in [Writer -> ClockGuards] /\ drift \in [Writer -> Int] /\ lumped \in BOOLEAN /\ unwritten \in BOOLEAN
  /\ restarts \in Nat

\* What was booked is covered by the mark, and by the mark in the file when its last
\* write has not failed, but for less than the interval between two saves.
Covered(b, m, s, u) ==
  /\ m = 0 => b = 0 /\ s = 0
  /\ m > 0 => b < m + PersistEvery
  /\ ~u => (m > 0 => s > 0 /\ b < s + PersistEvery)

\* The drift of a writer with guard g is the wall clock's gain over the monotonic one
\* since some moment of this run of httpd: since the last booking, when there was one.
Drifts(g, d, w, m) ==
  /\ g.have => g.lastMono <= m /\ d = (w - g.lastWall) - (m - g.lastMono)
  /\ \E a \in 0..MaxWall, b \in 0..m : d = (w - a) - (m - b)

ClockInv ==
  /\ ClockPlaced /\ Covered(booked, hwm, savedHWM, unwritten) /\ BooksForward /\ NoLump /\ HealsInTime
  /\ \A w \in Writer : Drifts(clockGuard[w], drift[w], wall, mono)
  /\ restarts = 0 /\ lagging >= 0 => 0 <= behindSince /\ behindSince <= lagging

\* The constants of the guard, one by one.
LEMMA ClockParams ==
  /\ MinWall \in Nat /\ MinWall > 0 /\ BackTolerance \in Nat /\ JumpThreshold \in Nat
  /\ PersistEvery \in Nat /\ PersistEvery > 0 /\ HealAfter \in Nat /\ HealAfter > 0
  /\ TrustAfterBoot \in Nat /\ MaxWall \in Nat /\ MaxBoot \in Nat /\ MinWall <= MaxWall
BY ClockConstants

\* A writer's drift is within the bounds of the types.
LEMMA DriftTyped ==
  ASSUME NEW d, NEW w \in 0..MaxWall, NEW m \in 0..MaxBoot,
         \E a \in 0..MaxWall, b \in 0..m : d = (w - a) - (m - b)
  PROVE  d \in -(MaxWall + MaxBoot)..MaxWall
<1>1. PICK a \in 0..MaxWall, b \in 0..m : d = (w - a) - (m - b)
  OBVIOUS
<1> QED
  BY <1>1, ClockParams

\* The invariant says what the runs check.
LEMMA ClockTyped ==
  ASSUME ClockInv
  PROVE  ClockTypeOK /\ BooksForward /\ NoLump /\ HealsInTime
<1>1. ClockPlaced
  BY DEF ClockInv
<1>2. ASSUME NEW w \in Writer PROVE drift[w] \in -(MaxWall + MaxBoot)..MaxWall
  <2>1. mono \in 0..MaxBoot /\ wall \in 0..MaxWall
    BY <1>1, ClockParams DEF ClockPlaced
  <2>2. \E a \in 0..MaxWall, b \in 0..mono : drift[w] = (wall - a) - (mono - b)
    BY Zenon DEF ClockInv, Drifts
  <2> QED
    BY <2>1, <2>2, DriftTyped, Zenon
<1>3. drift \in [Writer -> -(MaxWall + MaxBoot)..MaxWall]
  BY <1>1, <1>2 DEF ClockPlaced
<1>4. /\ {wall, hwm, savedHWM, booked, slip} \subseteq 0..MaxWall /\ {boot, mono, waited} \subseteq 0..MaxBoot
      /\ {behindSince, lagging} \subseteq -1..MaxBoot
  BY <1>1, ClockParams DEF ClockPlaced
<1>5. autoTime \in BOOLEAN /\ lumped \in BOOLEAN /\ unwritten \in BOOLEAN /\ clockGuard \in [Writer -> ClockGuards]
  BY <1>1 DEF ClockPlaced
<1>6. ClockTypeOK
  BY <1>3, <1>4, <1>5, Zenon DEF ClockTypeOK, ClockGuards
<1> QED
  BY <1>6 DEF ClockInv

\* Nothing booked, no mark, no baseline.
LEMMA ClockStart == ClockInit => ClockInv
<1> SUFFICES ASSUME ClockInit PROVE ClockInv
  OBVIOUS
<1>1. ClockPlaced
  <2>1. wall \in 0..MaxWall
    BY ClockParams DEF ClockInit
  <2>2. autoTime \in BOOLEAN /\ lumped \in BOOLEAN /\ unwritten \in BOOLEAN
    BY Zenon DEF ClockInit
  <2>3. NewGuard \in ClockGuards
    BY ClockParams DEF ClockGuards, NewGuard
  <2>4. clockGuard \in [Writer -> ClockGuards] /\ drift \in [Writer -> Int]
    BY <2>3 DEF ClockInit
  <2>5. /\ boot \in 0..MaxBoot /\ mono \in 0..boot /\ hwm \in 0..MaxWall /\ savedHWM \in 0..MaxWall
        /\ booked \in 0..MaxWall /\ slip \in 0..MaxWall
        /\ behindSince \in -1..boot /\ lagging \in -1..boot /\ waited \in 0..boot /\ restarts \in Nat
    BY ClockParams DEF ClockInit
  <2> QED
    BY <2>1, <2>2, <2>4, <2>5, Zenon DEF ClockPlaced
<1>2. Covered(booked, hwm, savedHWM, unwritten) /\ BooksForward /\ NoLump /\ HealsInTime
  BY ClockParams DEF ClockInit, Covered, BooksForward, NoLump, HealsInTime
<1>3. ASSUME NEW w \in Writer PROVE Drifts(clockGuard[w], drift[w], wall, mono)
  <2>1. ~clockGuard[w].have /\ drift[w] = 0 /\ wall \in 0..MaxWall /\ mono = 0
    BY <1>1 DEF ClockInit, NewGuard, ClockPlaced
  <2>2. 0 \in 0..mono /\ drift[w] = (wall - wall) - (mono - 0)
    BY <2>1, ClockParams
  <2> QED
    BY <2>1, <2>2, Zenon DEF Drifts
<1>4. lagging = -1
  BY DEF ClockInit
<1> QED
  BY <1>1, <1>2, <1>3, <1>4 DEF ClockInv

\* Time that passes, asleep or awake.
LEMMA PassesKeeps == ClockInv /\ TimePasses => ClockInv'
<1> SUFFICES ASSUME ClockInv, TimePasses PROVE ClockInv'
  OBVIOUS
<1>0. /\ wall' = wall + 1 /\ wall < MaxWall /\ boot' = boot + 1 /\ boot < MaxBoot /\ mono' \in {mono, mono + 1}
      /\ autoTime' = autoTime /\ hwm' = hwm /\ savedHWM' = savedHWM /\ unwritten' = unwritten /\ behindSince' = behindSince
      /\ clockGuard' = clockGuard /\ booked' = booked /\ slip' = slip /\ lagging' = lagging
      /\ waited' = waited /\ lumped' = lumped /\ restarts' = restarts
  BY DEF TimePasses
<1>1. ClockPlaced /\ mono \in Int /\ wall \in Int /\ drift \in [Writer -> Int]
  BY ClockParams DEF ClockInv, ClockPlaced
<1>2. drift' \in [Writer -> Int] /\ \A w \in Writer : drift'[w] = drift[w] + (1 - (mono' - mono))
  BY <1>1 DEF TimePasses
<1>3. ClockPlaced'
  BY <1>0, <1>1, <1>2, ClockParams DEF ClockPlaced
<1>4. ASSUME NEW w \in Writer PROVE Drifts(clockGuard[w], drift'[w], wall', mono')
  <2>1. Drifts(clockGuard[w], drift[w], wall, mono)
    BY DEF ClockInv
  <2>2. PICK g : g = clockGuard[w]
    OBVIOUS
  <2>3. g \in ClockGuards
    BY <1>1, <2>2 DEF ClockPlaced
  <2>4. PICK d \in Int : d = drift[w] /\ drift'[w] = d + (1 - (mono' - mono))
    BY <1>1, <1>2
  <2>5. g.have => g.lastMono <= mono' /\ drift'[w] = (wall' - g.lastWall) - (mono' - g.lastMono)
    BY <1>0, <1>1, <2>1, <2>2, <2>3, <2>4, ClockParams DEF Drifts, ClockGuards
  <2>6. PICK a \in 0..MaxWall, b \in 0..mono : d = (wall - a) - (mono - b)
    BY <2>1, <2>4, Zenon DEF Drifts
  <2>7. b \in 0..mono' /\ drift'[w] = (wall' - a) - (mono' - b)
    BY <1>0, <1>1, <2>4, <2>6, ClockParams
  <2> QED
    BY <2>2, <2>5, <2>7, Zenon DEF Drifts
<1>5. Covered(booked', hwm', savedHWM', unwritten') /\ BooksForward' /\ NoLump' /\ HealsInTime'
  BY <1>0 DEF ClockInv, Covered, BooksForward, NoLump, HealsInTime
<1>6. restarts' = 0 /\ lagging' >= 0 => 0 <= behindSince' /\ behindSince' <= lagging'
  BY <1>0 DEF ClockInv
<1> QED
  BY <1>0, <1>3, <1>4, <1>5, <1>6, Zenon DEF ClockInv

\* The clock is set.
LEMMA WallSetKeeps == ClockInv /\ WallSet => ClockInv'
<1> SUFFICES ASSUME ClockInv, WallSet PROVE ClockInv'
  OBVIOUS
<1>0. /\ wall' \in 0..MaxWall /\ boot' = boot /\ mono' = mono
      /\ autoTime' = autoTime /\ hwm' = hwm /\ savedHWM' = savedHWM /\ unwritten' = unwritten /\ behindSince' = behindSince
      /\ clockGuard' = clockGuard /\ booked' = booked /\ slip' = slip /\ lagging' = lagging
      /\ waited' = waited /\ lumped' = lumped /\ restarts' = restarts
  BY DEF WallSet
<1>1. ClockPlaced /\ mono \in Int /\ wall \in Int /\ wall' \in Int /\ drift \in [Writer -> Int]
  BY <1>0, ClockParams DEF ClockInv, ClockPlaced
<1>2. drift' \in [Writer -> Int] /\ \A w \in Writer : drift'[w] = drift[w] + (wall' - wall)
  BY <1>1 DEF WallSet
<1>3. ClockPlaced'
  BY <1>0, <1>1, <1>2, ClockParams DEF ClockPlaced
<1>4. ASSUME NEW w \in Writer PROVE Drifts(clockGuard[w], drift'[w], wall', mono')
  <2>1. Drifts(clockGuard[w], drift[w], wall, mono)
    BY DEF ClockInv
  <2>2. PICK g : g = clockGuard[w]
    OBVIOUS
  <2>3. g \in ClockGuards
    BY <1>1, <2>2 DEF ClockPlaced
  <2>4. PICK d \in Int : d = drift[w] /\ drift'[w] = d + (wall' - wall)
    BY <1>1, <1>2
  <2>5. g.have => g.lastMono <= mono' /\ drift'[w] = (wall' - g.lastWall) - (mono' - g.lastMono)
    BY <1>0, <1>1, <2>1, <2>2, <2>3, <2>4, ClockParams DEF Drifts, ClockGuards
  <2>6. PICK a \in 0..MaxWall, b \in 0..mono : d = (wall - a) - (mono - b)
    BY <2>1, <2>4, Zenon DEF Drifts
  <2>7. b \in 0..mono' /\ drift'[w] = (wall' - a) - (mono' - b)
    BY <1>0, <1>1, <2>4, <2>6, ClockParams
  <2> QED
    BY <2>2, <2>5, <2>7, Zenon DEF Drifts
<1>5. Covered(booked', hwm', savedHWM', unwritten') /\ BooksForward' /\ NoLump' /\ HealsInTime'
  BY <1>0 DEF ClockInv, Covered, BooksForward, NoLump, HealsInTime
<1>6. restarts' = 0 /\ lagging' >= 0 => 0 <= behindSince' /\ behindSince' <= lagging'
  BY <1>0 DEF ClockInv
<1> QED
  BY <1>0, <1>3, <1>4, <1>5, <1>6, Zenon DEF ClockInv

\* A writer without a baseline has drifted from here.
LEMMA NoDrift ==
  ASSUME NEW w \in 0..MaxWall, NEW m \in Nat, NEW g, g.have => g.lastWall = w /\ g.lastMono = m
  PROVE  Drifts(g, 0, w, m)
<1>1. m \in 0..m /\ 0 = (w - w) - (m - m) /\ m <= m
  BY ClockParams
<1> QED
  BY <1>1, Zenon DEF Drifts

\* httpd starts again with the mark of the file.
LEMMA ClockRestartKeeps == ClockInv /\ ClockRestart => ClockInv'
<1> SUFFICES ASSUME ClockInv, ClockRestart PROVE ClockInv'
  OBVIOUS
<1>0. /\ wall' = wall /\ boot' = boot /\ mono' = mono /\ autoTime' = autoTime
      /\ hwm' = savedHWM /\ savedHWM' = savedHWM /\ unwritten' = FALSE /\ behindSince' = -1
      /\ clockGuard' = [w \in Writer |-> NewGuard] /\ drift' = [w \in Writer |-> 0]
      /\ booked' = (IF unwritten /\ booked > savedHWM THEN savedHWM ELSE booked) /\ slip' = slip /\ lagging' = lagging
      /\ waited' = waited /\ lumped' = lumped /\ restarts' = restarts + 1
  BY DEF ClockRestart
<1>1. ClockPlaced
  BY DEF ClockInv
<1>2. ClockPlaced'
  <2>1. booked' \in 0..MaxWall
    BY <1>0, <1>1, ClockParams DEF ClockPlaced
  <2>2. unwritten' \in BOOLEAN
    BY <1>0, Zenon
  <2>3. clockGuard' \in [Writer -> ClockGuards] /\ drift' \in [Writer -> Int]
    BY <1>0, <1>1, ClockParams DEF ClockPlaced, ClockGuards, NewGuard
  <2>4. behindSince' \in -1..boot' /\ restarts' \in Nat
    BY <1>0, <1>1, ClockParams DEF ClockPlaced
  <2>5. /\ wall' \in 0..MaxWall /\ boot' \in 0..MaxBoot /\ mono' \in 0..boot' /\ autoTime' \in BOOLEAN
        /\ hwm' \in 0..MaxWall /\ savedHWM' \in 0..MaxWall /\ slip' \in 0..MaxWall
        /\ lagging' \in -1..boot' /\ waited' \in 0..boot' /\ lumped' \in BOOLEAN
    BY <1>0, <1>1 DEF ClockPlaced
  <2> QED
    BY <2>1, <2>2, <2>3, <2>4, <2>5, Zenon DEF ClockPlaced
<1>3. ASSUME NEW w \in Writer PROVE Drifts(clockGuard'[w], drift'[w], wall', mono')
  <2>1. drift'[w] = 0 /\ ~clockGuard'[w].have /\ wall' \in 0..MaxWall /\ mono' \in Nat
    BY <1>0, <1>2, ClockParams DEF NewGuard, ClockPlaced
  <2> QED
    BY <2>1, NoDrift, Zenon
<1>4. Covered(booked', hwm', savedHWM', unwritten')
  BY <1>0, <1>1, ClockParams DEF ClockInv, Covered, ClockPlaced
<1>5. BooksForward' /\ NoLump' /\ restarts' > 0 /\ restarts' \in Nat
  BY <1>0, <1>1 DEF ClockInv, BooksForward, NoLump, ClockPlaced
<1> QED
  BY <1>2, <1>3, <1>4, <1>5 DEF ClockInv, HealsInTime

\* A refused check.
LEMMA InsaneKeeps ==
  ASSUME ClockInv, NEW v \in Writer, CheckInsane(v)
  PROVE  ClockInv'
<1>0. /\ wall' = wall /\ boot' = boot /\ mono' = mono /\ autoTime' = autoTime
      /\ hwm' = hwm /\ savedHWM' = savedHWM /\ unwritten' = unwritten /\ drift' = drift
      /\ booked' = booked /\ slip' = slip /\ lumped' = lumped /\ restarts' = restarts
      /\ ~Believed /\ NoteLag /\ behindSince' = (IF Behind /\ behindSince < 0 THEN boot ELSE behindSince)
      /\ waited' = IF wall < MinWall THEN 0 ELSE boot - lagging'
  BY DEF CheckInsane, clockEnv
<1>1. ClockPlaced
  BY DEF ClockInv
<1>2. lagging' = IF wall < MinWall THEN -1 ELSE IF lagging < 0 THEN boot ELSE lagging
  BY <1>0 DEF NoteLag
<1>3. clockGuard' \in [Writer -> ClockGuards] /\ \A w \in Writer : /\ clockGuard'[w].have = clockGuard[w].have
                                                                 /\ clockGuard'[w].lastWall = clockGuard[w].lastWall
                                                                 /\ clockGuard'[w].lastMono = clockGuard[w].lastMono
  <2>1. PICK g : g = clockGuard[v]
    OBVIOUS
  <2>2. g \in ClockGuards /\ mono \in 0..MaxBoot /\ clockGuard \in [Writer -> ClockGuards]
    BY <1>1, <2>1, ClockParams DEF ClockPlaced
  <2>3. PICK h : h = IF g.insane THEN g ELSE [g EXCEPT !.insane = TRUE, !.insaneSince = mono]
    OBVIOUS
  <2>4. clockGuard' = [clockGuard EXCEPT ![v] = h]
    BY <2>1, <2>3, Zenon DEF CheckInsane
  <2>5. h \in ClockGuards /\ h.have = g.have /\ h.lastWall = g.lastWall /\ h.lastMono = g.lastMono
    BY <2>2, <2>3 DEF ClockGuards
  <2> QED
    BY <2>1, <2>2, <2>4, <2>5
<1>4. ClockPlaced'
  BY <1>0, <1>1, <1>2, <1>3, ClockParams DEF ClockPlaced
<1>5. wall >= MinWall => Behind /\ ~Heals
  BY <1>0, <1>1, ClockParams DEF Believed, Behind, Sane, ClockPlaced
<1>6. restarts' = 0 /\ lagging' >= 0 => 0 <= behindSince' /\ behindSince' <= lagging'
  BY <1>0, <1>1, <1>2, <1>5, ClockParams DEF ClockInv, ClockPlaced
<1>7. HealsInTime'
  <2> SUFFICES ASSUME restarts' = 0, wall >= MinWall PROVE waited' < HealAfter
    BY <1>0, <1>1, ClockParams DEF HealsInTime, ClockPlaced
  <2>1. ~(behindSince >= 0 /\ boot - behindSince >= HealAfter)
    BY <1>0, <1>5 DEF Heals, Believed
  <2>2. waited' = boot - lagging'
    BY <1>0, <1>1, ClockParams DEF ClockPlaced
  <2>3. CASE lagging < 0
    BY <1>1, <1>2, <2>2, <2>3, ClockParams DEF ClockPlaced
  <2>4. CASE ~(lagging < 0)
    BY <1>0, <1>1, <1>2, <2>1, <2>2, <2>4, ClockParams DEF ClockPlaced, ClockInv
  <2> QED
    BY <2>3, <2>4
<1>8. ASSUME NEW w \in Writer PROVE Drifts(clockGuard'[w], drift'[w], wall', mono')
  <2>1. Drifts(clockGuard[w], drift[w], wall, mono)
    BY DEF ClockInv
  <2> QED
    BY <1>0, <1>3, <2>1, Zenon DEF Drifts
<1>9. Covered(booked', hwm', savedHWM', unwritten') /\ BooksForward' /\ NoLump'
  BY <1>0 DEF ClockInv, Covered, BooksForward, NoLump
<1> QED
  BY <1>4, <1>6, <1>7, <1>8, <1>9, Zenon DEF ClockInv

\* A check that books.
LEMMA SaneKeeps ==
  ASSUME ClockInv, NEW v \in Writer, CheckSane(v)
  PROVE  ClockInv'
<1>0. /\ wall' = wall /\ boot' = boot /\ mono' = mono /\ autoTime' = autoTime /\ restarts' = restarts
      /\ Believed /\ NoteLag /\ waited' = 0 /\ behindSince' = -1 /\ hwm' = Mark /\ Persist
      /\ drift' = [drift EXCEPT ![v] = 0]
  BY DEF CheckSane, clockEnv
<1>1. ClockPlaced
  BY DEF ClockInv
<1>2. lagging' = -1 /\ wall >= MinWall
  BY <1>0, <1>1, ClockParams DEF NoteLag, Believed, TrustsSystem, Heals, Behind, Sane, ClockPlaced
<1>3. clockGuard' = [clockGuard EXCEPT ![v] = [have |-> TRUE, lastWall |-> wall, lastMono |-> mono,
                                    insane |-> FALSE, insaneSince |-> @.insaneSince]]
  BY DEF CheckSane
<1>4. clockGuard' \in [Writer -> ClockGuards] /\ drift' \in [Writer -> Int]
  BY <1>0, <1>1, <1>3, ClockParams DEF ClockPlaced, ClockGuards
<1>5. PICK from : /\ from = (IF Sane(wall, hwm) THEN booked ELSE wall)
                  /\ booked' = (IF wall > from THEN wall ELSE from)
                  /\ slip' = (IF from > wall THEN from - wall ELSE 0)
  BY DEF CheckSane
<1>w. \/ Persists /\ savedHWM' = Mark /\ unwritten' = FALSE
      \/ ~Persists /\ savedHWM' = savedHWM /\ unwritten' = unwritten
      \/ savedHWM' = savedHWM /\ unwritten' = TRUE
  BY <1>0 DEF Persist
<1>6. /\ booked' \in 0..MaxWall /\ slip' \in 0..MaxWall /\ hwm' \in 0..MaxWall /\ savedHWM' \in 0..MaxWall
  BY <1>0, <1>1, <1>5, <1>w, ClockParams DEF ClockPlaced, Mark
<1>7. lumped' = (lumped \/ (clockGuard[v].have /\ ~Jumped(clockGuard[v]) /\ drift[v] \notin -JumpThreshold..JumpThreshold))
  BY DEF CheckSane
<1>8. lumped' = FALSE
  <2>1. Drifts(clockGuard[v], drift[v], wall, mono) /\ lumped = FALSE
    BY <1>1 DEF ClockInv, NoLump, ClockPlaced
  <2>2. ASSUME clockGuard[v].have, ~Jumped(clockGuard[v]) PROVE drift[v] \in -JumpThreshold..JumpThreshold
    <3>1. drift[v] = (wall - clockGuard[v].lastWall) - (mono - clockGuard[v].lastMono)
      BY <2>1, <2>2, Zenon DEF Drifts
    <3>2. (wall - clockGuard[v].lastWall) - (mono - clockGuard[v].lastMono) \in -JumpThreshold..JumpThreshold
      BY <2>2, Zenon DEF Jumped
    <3> QED
      BY <3>1, <3>2, Zenon
  <2> QED
    BY <1>7, <2>1, <2>2, Zenon
<1>9. ClockPlaced'
  <2>1. /\ wall' \in 0..MaxWall /\ boot' \in 0..MaxBoot /\ mono' \in 0..boot' /\ restarts' \in Nat
        /\ behindSince' \in -1..boot' /\ lagging' \in -1..boot' /\ waited' \in 0..boot'
    BY <1>0, <1>1, <1>2, ClockParams DEF ClockPlaced
  <2>2. autoTime' \in BOOLEAN /\ lumped' \in BOOLEAN /\ unwritten' \in BOOLEAN
    BY <1>0, <1>1, <1>8, <1>w, Zenon DEF ClockPlaced
  <2> QED
    BY <1>4, <1>6, <2>1, <2>2, Zenon DEF ClockPlaced
<1>10. /\ Covered(booked, hwm, savedHWM, unwritten) /\ wall \in 0..MaxWall /\ hwm \in 0..MaxWall /\ savedHWM \in 0..MaxWall
       /\ booked \in 0..MaxWall
  BY <1>1 DEF ClockInv, ClockPlaced
<1>11. ASSUME Sane(wall, hwm) PROVE Covered(booked', hwm', savedHWM', unwritten') /\ BooksForward'
  <2>1. from = booked /\ Mark = (IF hwm > wall THEN hwm ELSE wall)
    BY <1>5, <1>11 DEF Mark
  <2>2. booked' < Mark + PersistEvery
    BY <1>2, <1>5, <1>10, <2>1, ClockParams DEF Covered
  <2>3. slip' <= BackTolerance + PersistEvery - 1
    <3>1. hwm > 0 => wall >= hwm - BackTolerance
      BY <1>11 DEF Sane
    <3> QED
      BY <1>5, <1>10, <2>1, <3>1, ClockParams DEF Covered
  <2>m. Mark > 0 /\ hwm' = Mark
    BY <1>0, <1>2, <1>10, <2>1, ClockParams
  <2>4. CASE Persists /\ savedHWM' = Mark
    BY <2>2, <2>3, <2>4, <2>m, <1>10 DEF Covered, BooksForward
  <2>5. CASE ~Persists /\ savedHWM' = savedHWM /\ unwritten' = unwritten
    <3>1. savedHWM # 0 /\ Mark - savedHWM < PersistEvery
      BY <1>10, <2>1, <2>5, ClockParams DEF Persists
    <3>2. CASE unwritten
      BY <2>2, <2>3, <2>5, <2>m, <3>2 DEF Covered, BooksForward
    <3>3. CASE ~unwritten
      <4>1. booked' < savedHWM + PersistEvery
        BY <1>5, <1>10, <2>1, <3>1, <3>3, ClockParams DEF Covered
      <4> QED
        BY <2>2, <2>3, <2>5, <2>m, <3>1, <4>1, <1>10 DEF Covered, BooksForward
    <3> QED
      BY <3>2, <3>3
  <2>6. CASE unwritten' = TRUE
    BY <2>2, <2>3, <2>6, <2>m DEF Covered, BooksForward
  <2> QED
    BY <1>w, <2>4, <2>5, <2>6
<1>12. ASSUME ~Sane(wall, hwm) PROVE Covered(booked', hwm', savedHWM', unwritten') /\ BooksForward'
  <2>1. from = wall /\ Mark = wall /\ Persists
    BY <1>5, <1>12 DEF Mark, Persists
  <2>2. (savedHWM' = wall \/ unwritten' = TRUE) /\ hwm' = wall /\ booked' = wall /\ slip' = 0 /\ wall > 0
    BY <1>0, <1>2, <1>5, <1>10, <1>w, <2>1, ClockParams
  <2> QED
    BY <1>10, <2>2, ClockParams DEF Covered, BooksForward
<1>13. Covered(booked', hwm', savedHWM', unwritten') /\ BooksForward'
  BY <1>11, <1>12
<1>14. ASSUME NEW w \in Writer PROVE Drifts(clockGuard'[w], drift'[w], wall', mono')
  <2>1. CASE w = v
    <3>1. drift'[w] = 0 /\ clockGuard'[w].lastWall = wall' /\ clockGuard'[w].lastMono = mono'
      BY <1>0, <1>1, <1>3, <2>1 DEF ClockPlaced
    <3>2. wall' \in 0..MaxWall /\ mono' \in Nat
      BY <1>9, ClockParams DEF ClockPlaced
    <3> QED
      BY <3>1, <3>2, NoDrift, Zenon
  <2>2. CASE w # v
    <3>1. drift'[w] = drift[w] /\ clockGuard'[w] = clockGuard[w]
      BY <1>0, <1>1, <1>3, <2>2 DEF ClockPlaced
    <3>2. Drifts(clockGuard[w], drift[w], wall, mono)
      BY DEF ClockInv
    <3> QED
      BY <1>0, <3>1, <3>2, Zenon
  <2> QED
    BY <2>1, <2>2
<1>15. NoLump' /\ HealsInTime'
  BY <1>0, <1>8, ClockParams DEF NoLump, HealsInTime
<1> QED
  BY <1>2, <1>9, <1>13, <1>14, <1>15 DEF ClockInv

\* Every step keeps the invariant.
LEMMA ClockStep == ClockInv /\ [ClockNext]_clockVars => ClockInv'
<1> SUFFICES ASSUME ClockInv, [ClockNext]_clockVars PROVE ClockInv'
  OBVIOUS
<1>1. CASE UNCHANGED clockVars
  <2>1. /\ wall' = wall /\ boot' = boot /\ mono' = mono /\ autoTime' = autoTime /\ hwm' = hwm
        /\ savedHWM' = savedHWM /\ unwritten' = unwritten /\ behindSince' = behindSince /\ clockGuard' = clockGuard
        /\ booked' = booked /\ slip' = slip /\ lagging' = lagging /\ waited' = waited
        /\ drift' = drift /\ lumped' = lumped /\ restarts' = restarts
    BY <1>1 DEF clockVars
  <2> QED
    BY <2>1, Zenon DEF ClockInv, ClockPlaced, BooksForward, NoLump, HealsInTime
<1>2. CASE ClockNext
  BY <1>2, PassesKeeps, WallSetKeeps, ClockRestartKeeps, InsaneKeeps, SaneKeeps, Zenon DEF ClockNext
<1> QED
  BY <1>1, <1>2

-----------------------------------------------------------------------------
(* The online minutes.                                                     *)

\* Minutes per day, and the same taken on every day.
Minutes == [Day0 -> Nat]
Even(file, pend, astray, given, torn) ==
  \A d \in Day0 : file[d] + pend[d] + astray[d] = given[d] + torn[d]

OnlinePlaced ==
  /\ omClk \in 0..MaxOnlineTime /\ omLast \in 0..omClk \cup {Never0} /\ omFlushed \in 0..omClk \cup {Never0}
  /\ omPend \in Minutes /\ omFile \in Minutes /\ omGiven \in Minutes
  /\ omOff \in [twice : Minutes, lost : Minutes] /\ omBehind \in BOOLEAN
OnlineInv ==
  OnlinePlaced /\ Even(omFile, omPend, omOff.lost, omGiven, omOff.twice) /\ OldDaysWritten

\* The constants, one by one.
LEMMA OnlineParams ==
  /\ SampleEvery \in Nat /\ CreditMax \in Nat /\ FlushEvery \in Nat /\ MaxOnlineTime \in Nat
  /\ DayLen \in Nat /\ DayLen > 0 /\ Never0 \in Nat /\ Never0 = MaxOnlineTime + 1
BY OnlineConstants DEF Never0

\* Minutes are added day by day.
LEMMA PlusTyped ==
  ASSUME NEW f \in Minutes, NEW g \in Minutes
  PROVE  Plus(f, g) \in Minutes /\ \A d \in Day0 : Plus(f, g)[d] = f[d] + g[d]
BY DEF Plus, Minutes

\* No minutes.
LEMMA NothingTyped == Nothing1 \in Minutes /\ \A d \in Day0 : Nothing1[d] = 0
BY DEF Nothing1, Minutes

\* A larger number of equal parts is no smaller.
LEMMA TimesMore ==
  ASSUME NEW k \in Nat, NEW a \in Nat, NEW b \in Nat, a <= b
  PROVE  k * a <= k * b
<1>1. PICK d \in Nat : b = a + d
  <2>1. b - a \in Nat /\ b = a + (b - a)
    OBVIOUS
  <2> QED
    BY <2>1
<1>2. k * b = k * a + k * d
  BY <1>1
<1>3. k * d \in Nat /\ k * a \in Nat
  BY <1>1
<1> QED
  BY <1>2, <1>3

\* The day of a time within the bound is one of the days.
LEMMA DayOfTime ==
  ASSUME NEW c \in 0..MaxOnlineTime
  PROVE  c \div DayLen \in Day0
<1>0. DayLen \in Nat /\ DayLen > 0 /\ MaxOnlineTime \in Nat /\ c \in Nat /\ c <= MaxOnlineTime
  BY OnlineParams
<1>1. PICK q : q = c \div DayLen
  OBVIOUS
<1>2. PICK p : p = MaxOnlineTime \div DayLen
  OBVIOUS
<1>3. q \in Nat /\ DayLen * q <= c
  BY <1>0, <1>1
<1>4. p \in Nat /\ MaxOnlineTime < DayLen * (p + 1)
  BY <1>0, <1>2
<1>5. q <= p
  <2> SUFFICES ASSUME p + 1 <= q PROVE FALSE
    BY <1>3, <1>4
  <2>1. DayLen * (p + 1) <= DayLen * q
    BY <1>0, <1>3, <1>4, TimesMore
  <2>2. DayLen * (p + 1) \in Nat /\ DayLen * q \in Nat
    BY <1>0, <1>3, <1>4
  <2> QED
    BY <1>0, <1>3, <1>4, <2>1, <2>2
<1> QED
  BY <1>1, <1>2, <1>3, <1>4, <1>5 DEF Day0

\* What creditSplit gives: minutes, and no more before midnight than there are.
LEMMA SplitTyped ==
  ASSUME omClk \in 0..MaxOnlineTime, NEW c \in Nat
  PROVE  /\ CreditSplit(c) \in Minutes
         /\ \A d \in Day0 : d = omClk \div DayLen /\ d > 0 /\ d - 1 \in Day0
              => CreditSplit(c)[d] + CreditSplit(c)[d - 1] = RoundMin(c)
<1>1. PICK mid \in Int : mid = (omClk \div DayLen) * DayLen
  <2>1. omClk \div DayLen \in Int /\ DayLen \in Int
    BY OnlineParams
  <2> QED
    BY <2>1
<1>2. PICK total \in Nat : total = RoundMin(c)
  BY DEF RoundMin
<1>3. PICK early \in Nat : early = IF c > omClk - mid THEN RoundMin(c - (omClk - mid)) ELSE 0
  BY <1>1, OnlineParams DEF RoundMin
<1>4. PICK before \in Nat : before = (IF early > total THEN total ELSE early) /\ before <= total
  BY <1>2, <1>3
<1>5. PICK today : today = omClk \div DayLen
  OBVIOUS
<1>6. CreditSplit(c) = [d \in Day0 |-> IF d = today THEN total - before ELSE IF d + 1 = today THEN before ELSE 0]
  BY <1>1, <1>2, <1>3, <1>4, <1>5, Zenon DEF CreditSplit
<1>7. CreditSplit(c) \in Minutes
  BY <1>2, <1>4, <1>6 DEF Minutes
<1>8. ASSUME NEW d \in Day0, d = today, d > 0, d - 1 \in Day0
      PROVE  CreditSplit(c)[d] + CreditSplit(c)[d - 1] = RoundMin(c)
  <2>1. d \in Int /\ (d - 1) + 1 = d /\ d - 1 # d
    BY DEF Day0
  <2>2. CreditSplit(c)[d] = total - before /\ CreditSplit(c)[d - 1] = before
    BY <1>6, <1>8, <2>1
  <2> QED
    BY <1>2, <1>4, <2>2
<1> QED
  BY <1>5, <1>7, <1>8

\* The invariant says what the runs check.
LEMMA OnlineTyped ==
  ASSUME OnlineInv
  PROVE  OnlineTypeOK /\ MinutesKept /\ OldDaysWritten /\ SplitExact
<1>0. /\ omClk \in 0..MaxOnlineTime /\ omPend \in Minutes /\ omFile \in Minutes /\ omGiven \in Minutes
      /\ omOff.twice \in Minutes /\ omOff.lost \in Minutes
  BY DEF OnlineInv, OnlinePlaced
<1>1. OnlineTypeOK
  BY OnlineParams DEF OnlineInv, OnlinePlaced, OnlineTypeOK
<1>2. MinutesKept
  <2>1. PICK f : f = Plus(omFile, omPend)
    OBVIOUS
  <2>2. f \in Minutes /\ \A d \in Day0 : f[d] = omFile[d] + omPend[d]
    BY <1>0, <2>1, PlusTyped, Zenon
  <2>3. PICK l \in Minutes : l = omOff.lost
    BY <1>0, Zenon
  <2>4. PICK t \in Minutes : t = omOff.twice
    BY <1>0, Zenon
  <2>5. Plus(f, l) \in Minutes /\ \A d \in Day0 : Plus(f, l)[d] = f[d] + l[d]
    BY <2>2, PlusTyped, Zenon
  <2>6. Plus(omGiven, t) \in Minutes /\ \A d \in Day0 : Plus(omGiven, t)[d] = omGiven[d] + t[d]
    BY <1>0, PlusTyped, Zenon
  <2>7. \A d \in Day0 : omFile[d] + omPend[d] + l[d] = omGiven[d] + t[d]
    BY <2>3, <2>4, Zenon DEF OnlineInv, Even
  <2>8. \A d \in Day0 : Plus(f, l)[d] = Plus(omGiven, t)[d]
    BY <2>2, <2>5, <2>6, <2>7, Zenon
  <2>9. Plus(f, l) = Plus(omGiven, t)
    BY <2>5, <2>6, <2>8 DEF Minutes
  <2> QED
    BY <2>1, <2>3, <2>4, <2>9, Zenon DEF MinutesKept
<1>3. SplitExact
  <2> SUFFICES ASSUME NEW c \in 1..CreditMax, omClk \div DayLen > 0
               PROVE  CreditSplit(c)[omClk \div DayLen] + CreditSplit(c)[omClk \div DayLen - 1] = RoundMin(c)
    BY DEF SplitExact
  <2>1. PICK d : d = omClk \div DayLen
    OBVIOUS
  <2>2. d \in Day0
    BY <1>0, <2>1, DayOfTime, Zenon
  <2>3. d > 0 /\ d - 1 \in Day0 /\ c \in Nat
    BY <2>1, <2>2, OnlineParams DEF Day0
  <2> QED
    BY <1>0, <2>1, <2>2, <2>3, SplitTyped, Zenon
<1> QED
  BY <1>1, <1>2, <1>3 DEF OnlineInv

\* Nothing given, nothing written.
LEMMA OnlineStart == OnlineInit => OnlineInv
<1> SUFFICES ASSUME OnlineInit PROVE OnlineInv
  OBVIOUS
<1>1. /\ omClk = 0 /\ omLast = Never0 /\ omFlushed = Never0 /\ omBehind = FALSE
      /\ omPend = Nothing1 /\ omFile = Nothing1 /\ omGiven = Nothing1
      /\ omOff = [twice |-> Nothing1, lost |-> Nothing1]
  BY DEF OnlineInit
<1>2. PICK z \in Minutes : z = Nothing1 /\ \A d \in Day0 : z[d] = 0
  BY NothingTyped
<1>3. OnlinePlaced
  <2>1. omClk \in 0..MaxOnlineTime /\ omLast \in 0..omClk \cup {Never0} /\ omFlushed \in 0..omClk \cup {Never0}
    BY <1>1, OnlineParams
  <2>2. omPend \in Minutes /\ omFile \in Minutes /\ omGiven \in Minutes
    BY <1>1, <1>2, Zenon
  <2>3. omOff = [twice |-> z, lost |-> z]
    BY <1>1, <1>2, Zenon
  <2>4. omOff \in [twice : Minutes, lost : Minutes]
    BY <2>3
  <2> QED
    BY <1>1, <2>1, <2>2, <2>4, Zenon DEF OnlinePlaced
<1>4. Even(z, z, z, z, z)
  BY <1>2 DEF Even
<1>5. omOff.lost = z /\ omOff.twice = z
  BY <1>1, <1>2
<1>6. Even(omFile, omPend, omOff.lost, omGiven, omOff.twice)
  BY <1>1, <1>2, <1>4, <1>5, Zenon
<1>7. omLast # omClk
  BY <1>1, OnlineParams
<1> QED
  BY <1>3, <1>6, <1>7, Zenon DEF OnlineInv, OldDaysWritten

\* The books stay even: minutes that are credited and pending, that go from there to
\* the file, stay there although they are in the file, or are lost.
LEMMA EvenMoves ==
  ASSUME NEW f \in Minutes, NEW p \in Minutes, NEW l \in Minutes, NEW g \in Minutes, NEW t \in Minutes,
         Even(f, p, l, g, t), NEW m \in Minutes
  PROVE  /\ Even(f, Plus(p, m), l, Plus(g, m), t)
         /\ Even(Plus(f, p), Nothing1, l, g, t)
         /\ Even(Plus(f, p), p, l, g, Plus(t, p))
         /\ Even(f, Nothing1, Plus(l, p), g, t)
<1> DEFINE N(h) == \A d \in Day0 : h[d] \in Nat
<1>0. N(f) /\ N(p) /\ N(l) /\ N(g) /\ N(t) /\ N(m)
  BY DEF Minutes
<1>a. \A d \in Day0 : Plus(p, m)[d] = p[d] + m[d]
  BY DEF Plus
<1>b. \A d \in Day0 : Plus(g, m)[d] = g[d] + m[d]
  BY DEF Plus
<1>c. \A d \in Day0 : Plus(f, p)[d] = f[d] + p[d]
  BY DEF Plus
<1>d. \A d \in Day0 : Plus(t, p)[d] = t[d] + p[d]
  BY DEF Plus
<1>e. \A d \in Day0 : Plus(l, p)[d] = l[d] + p[d]
  BY DEF Plus
<1>2. \A d \in Day0 : Nothing1[d] = 0
  BY NothingTyped
<1>3. \A d \in Day0 : f[d] + p[d] + l[d] = g[d] + t[d]
  BY Zenon DEF Even
<1>4. ASSUME NEW d \in Day0
      PROVE  /\ f[d] + Plus(p, m)[d] + l[d] = Plus(g, m)[d] + t[d]
             /\ Plus(f, p)[d] + Nothing1[d] + l[d] = g[d] + t[d]
             /\ Plus(f, p)[d] + p[d] + l[d] = g[d] + Plus(t, p)[d]
             /\ f[d] + Nothing1[d] + Plus(l, p)[d] = g[d] + t[d]
  <2>1. f[d] \in Nat /\ p[d] \in Nat /\ l[d] \in Nat /\ g[d] \in Nat /\ t[d] \in Nat /\ m[d] \in Nat
    BY <1>0
  <2>2. /\ Plus(p, m)[d] = p[d] + m[d] /\ Plus(g, m)[d] = g[d] + m[d] /\ Plus(f, p)[d] = f[d] + p[d]
        /\ Plus(t, p)[d] = t[d] + p[d] /\ Plus(l, p)[d] = l[d] + p[d] /\ Nothing1[d] = 0
        /\ f[d] + p[d] + l[d] = g[d] + t[d]
    BY <1>a, <1>b, <1>c, <1>d, <1>e, <1>2, <1>3, Zenon
  <2> QED
    BY <2>1, <2>2
<1> QED
  BY <1>4, Zenon DEF Even

\* A flush of pending minutes p that have been credited, on the books as they are.
LEMMA OnlineFlushKeeps ==
  ASSUME OnlinePlaced, NEW p \in Minutes, NEW g \in Minutes, Even(omFile, p, omOff.lost, g, omOff.twice),
         Flush0(p)
  PROVE  /\ omPend' \in Minutes /\ omFile' \in Minutes /\ omOff' \in [twice : Minutes, lost : Minutes]
         /\ Even(omFile', omPend', omOff'.lost, g, omOff'.twice)
         /\ omBehind' \in BOOLEAN /\ (omBehind' \/ \A d \in Day0 : omPend'[d] = 0) /\ omFlushed' = omClk
<1>0. PICK l \in Minutes, t \in Minutes : omOff = [twice |-> t, lost |-> l]
  BY DEF OnlinePlaced
<1>1. omOff.lost = l /\ omOff.twice = t /\ omFile \in Minutes
  BY <1>0 DEF OnlinePlaced
<1>2. /\ Plus(omFile, p) \in Minutes /\ Plus(t, p) \in Minutes /\ Nothing1 \in Minutes
      /\ \A d \in Day0 : Nothing1[d] = 0
  BY <1>1, PlusTyped, NothingTyped, Zenon
<1>3. Even(omFile, p, l, g, t)
  BY <1>1, Zenon
<1>4. Even(Plus(omFile, p), Nothing1, l, g, t) /\ Even(Plus(omFile, p), p, l, g, Plus(t, p))
  BY <1>1, <1>3, EvenMoves, Zenon
<1>f. omFlushed' = omClk
  BY DEF Flush0
<1>5. CASE omFile' = Plus(omFile, p) /\ omPend' = Nothing1 /\ omBehind' = FALSE /\ omOff' = omOff
  <2>1. omOff' \in [twice : Minutes, lost : Minutes]
    BY <1>5 DEF OnlinePlaced
  <2> QED
    BY <1>1, <1>2, <1>4, <1>5, <1>f, <2>1, Zenon
<1>6. CASE omBehind' = TRUE /\ omPend' = p /\ omFile' = omFile /\ omOff' = omOff
  <2>1. omOff' \in [twice : Minutes, lost : Minutes]
    BY <1>6 DEF OnlinePlaced
  <2> QED
    BY <1>1, <1>3, <1>6, <1>f, <2>1, Zenon
<1>7. CASE omBehind' = TRUE /\ omPend' = p /\ omFile' = Plus(omFile, p) /\ omOff' = [omOff EXCEPT !.twice = Plus(@, p)]
  <2>1. omOff' = [twice |-> Plus(t, p), lost |-> l]
    BY <1>0, <1>7
  <2>2. omOff' \in [twice : Minutes, lost : Minutes] /\ omOff'.lost = l /\ omOff'.twice = Plus(t, p)
    BY <1>2, <2>1
  <2> QED
    BY <1>2, <1>4, <1>7, <1>f, <2>2, Zenon
<1> QED
  BY <1>5, <1>6, <1>7, Zenon DEF Flush0, KeptPending

\* A sample credits, and flushes when it is time.
LEMMA SampleKeeps ==
  ASSUME OnlineInv, NEW b \in BOOLEAN, Sample(b)
  PROVE  OnlineInv'
<1>0. /\ OnlinePlaced /\ Even(omFile, omPend, omOff.lost, omGiven, omOff.twice)
      /\ omClk \in 0..MaxOnlineTime /\ omPend \in Minutes /\ omFile \in Minutes /\ omGiven \in Minutes
      /\ omOff.lost \in Minutes /\ omOff.twice \in Minutes /\ omOff \in [twice : Minutes, lost : Minutes]
      /\ omBehind \in BOOLEAN
  BY DEF OnlineInv, OnlinePlaced
<1> DEFINE long == IF omLast = Never0 THEN SampleEvery ELSE omClk - omLast
           credit == IF long > CreditMax THEN CreditMax ELSE long
<1>1. credit \in Nat
  <2>1. omLast = Never0 \/ omClk - omLast >= SampleEvery
    BY DEF Sample
  <2> QED
    BY <1>0, <2>1, OnlineParams DEF OnlinePlaced
<1>2. PICK m \in Minutes : m = IF b THEN CreditSplit(credit) ELSE Nothing1
  BY <1>0, <1>1, SplitTyped, NothingTyped, Zenon
<1>3. PICK p \in Minutes : p = Plus(omPend, m)
  BY <1>0, PlusTyped, Zenon
<1>4. PICK g \in Minutes : g = Plus(omGiven, m)
  BY <1>0, PlusTyped, Zenon
<1>5. PICK fl : fl = IF omFlushed = Never0 THEN omClk ELSE omFlushed
  OBVIOUS
<1>6. /\ omLast' = omClk /\ omGiven' = g /\ omClk' = omClk
      /\ IF FlushDue(p, fl) THEN Flush0(p)
         ELSE /\ omPend' = p /\ omFlushed' = fl /\ omFile' = omFile /\ omOff' = omOff
              /\ omBehind' = omBehind
  BY <1>2, <1>3, <1>4, <1>5, Zenon DEF Sample
<1>7. fl \in 0..omClk
  BY <1>0, <1>5, OnlineParams DEF OnlinePlaced
<1>8. Even(omFile, p, omOff.lost, g, omOff.twice)
  BY <1>0, <1>3, <1>4, EvenMoves, Zenon
<1>9. /\ omPend' \in Minutes /\ omFile' \in Minutes /\ omOff' \in [twice : Minutes, lost : Minutes]
      /\ Even(omFile', omPend', omOff'.lost, g, omOff'.twice) /\ omFlushed' \in 0..omClk
      /\ omBehind' \in BOOLEAN
      /\ omBehind' \/ \A d \in Day0 : d < omClk \div DayLen => omPend'[d] = 0
  <2>1. CASE FlushDue(p, fl)
    <3>1. /\ omPend' \in Minutes /\ omFile' \in Minutes /\ omOff' \in [twice : Minutes, lost : Minutes]
          /\ Even(omFile', omPend', omOff'.lost, g, omOff'.twice)
          /\ omBehind' \in BOOLEAN /\ (omBehind' \/ \A d \in Day0 : omPend'[d] = 0) /\ omFlushed' = omClk
      BY <1>0, <1>6, <1>8, <2>1, OnlineFlushKeeps, Zenon
    <3>2. omClk \in 0..omClk
      BY <1>0, OnlineParams
    <3> QED
      BY <3>1, <3>2, Zenon
  <2>2. CASE ~FlushDue(p, fl)
    <3>1. omPend' = p /\ omFlushed' = fl /\ omFile' = omFile /\ omOff' = omOff /\ omBehind' = omBehind
      BY <1>6, <2>2, Zenon
    <3>2. ASSUME NEW d \in Day0, d < omClk \div DayLen PROVE p[d] = 0
      <4>1. p = Nothing1 \/ ~(p[d] > 0) \/ d = omClk \div DayLen
        BY <2>2, Zenon DEF FlushDue
      <4>2. p[d] \in Nat
        BY DEF Minutes
      <4>3. p = Nothing1 => p[d] = 0
        BY NothingTyped, Zenon
      <4>4. PICK today : today = omClk \div DayLen
        OBVIOUS
      <4>5. today \in Day0
        BY <1>0, <4>4, DayOfTime, Zenon
      <4>6. d # today
        BY <3>2, <4>4, <4>5 DEF Day0
      <4>7. p[d] = 0 \/ ~(p[d] > 0)
        BY <4>1, <4>3, <4>4, <4>6, Zenon
      <4> QED
        BY <4>2, <4>7
    <3> QED
      BY <1>0, <1>7, <1>8, <3>1, <3>2, Zenon
  <2> QED
    BY <2>1, <2>2
<1>10. OnlinePlaced'
  <2>1. omClk' \in 0..MaxOnlineTime /\ omLast' \in 0..omClk' /\ omFlushed' \in 0..omClk'
    BY <1>0, <1>6, <1>9, OnlineParams
  <2>2. omGiven' \in Minutes
    BY <1>6
  <2> QED
    BY <1>9, <2>1, <2>2, Zenon DEF OnlinePlaced
<1>11. OldDaysWritten'
  BY <1>6, <1>9, Zenon DEF OldDaysWritten
<1> QED
  BY <1>6, <1>9, <1>10, <1>11, Zenon DEF OnlineInv

\* Every step keeps the invariant.
LEMMA OnlineStep == OnlineInv /\ [OnlineNext]_onlineVars => OnlineInv'
<1> SUFFICES ASSUME OnlineInv, [OnlineNext]_onlineVars PROVE OnlineInv'
  OBVIOUS
<1>0. OnlinePlaced /\ Even(omFile, omPend, omOff.lost, omGiven, omOff.twice)
  BY DEF OnlineInv
<1>1. CASE OnlineTick
  <2>1. /\ omClk < MaxOnlineTime /\ omClk' = omClk + 1 /\ omLast' = omLast /\ omFlushed' = omFlushed
        /\ omPend' = omPend /\ omFile' = omFile /\ omGiven' = omGiven /\ omOff' = omOff /\ omBehind' = omBehind
    BY <1>1 DEF OnlineTick
  <2>2. /\ omClk' \in 0..MaxOnlineTime /\ omLast' \in 0..omClk' \cup {Never0}
        /\ omFlushed' \in 0..omClk' \cup {Never0} /\ omLast' # omClk'
    BY <1>0, <2>1, OnlineParams DEF OnlinePlaced
  <2>3. OnlinePlaced'
    BY <1>0, <2>1, <2>2, Zenon DEF OnlinePlaced
  <2> QED
    BY <1>0, <2>1, <2>2, <2>3, Zenon DEF OnlineInv, OldDaysWritten
<1>2. CASE ExitsAndRestarts
  <2>0. PICK l \in Minutes, t \in Minutes : omOff = [twice |-> t, lost |-> l]
    BY <1>0 DEF OnlinePlaced
  <2>1. /\ omClk' = omClk /\ omGiven' = omGiven /\ omPend' = Nothing1 /\ omLast' = Never0 /\ omFlushed' = Never0
        /\ omBehind' = FALSE
        /\ \/ omFile' = Plus(omFile, omPend) /\ omOff' = omOff
           \/ omOff' = [omOff EXCEPT !.lost = Plus(@, omPend)] /\ omFile' = omFile
    BY <1>2 DEF ExitsAndRestarts
  <2>2. omOff.lost = l /\ omOff.twice = t /\ omFile \in Minutes /\ omPend \in Minutes /\ omGiven \in Minutes
    BY <1>0, <2>0 DEF OnlinePlaced
  <2>3. Even(omFile, omPend, l, omGiven, t)
    BY <1>0, <2>2, Zenon
  <2>4. Even(Plus(omFile, omPend), Nothing1, l, omGiven, t) /\ Even(omFile, Nothing1, Plus(l, omPend), omGiven, t)
    BY <2>2, <2>3, EvenMoves, Zenon
  <2>5. Plus(omFile, omPend) \in Minutes /\ Plus(l, omPend) \in Minutes /\ Nothing1 \in Minutes
    BY <2>2, PlusTyped, NothingTyped, Zenon
  <2>6. /\ omFile' \in Minutes /\ omOff' \in [twice : Minutes, lost : Minutes]
        /\ Even(omFile', omPend', omOff'.lost, omGiven', omOff'.twice)
    <3>1. CASE omFile' = Plus(omFile, omPend) /\ omOff' = omOff
      BY <1>0, <2>1, <2>2, <2>4, <2>5, <3>1, Zenon DEF OnlinePlaced
    <3>2. CASE omOff' = [omOff EXCEPT !.lost = Plus(@, omPend)] /\ omFile' = omFile
      <4>1. omOff' = [twice |-> t, lost |-> Plus(l, omPend)]
        BY <2>0, <3>2
      <4>2. omOff' \in [twice : Minutes, lost : Minutes] /\ omOff'.lost = Plus(l, omPend) /\ omOff'.twice = t
        BY <2>5, <4>1
      <4> QED
        BY <2>1, <2>2, <2>4, <3>2, <4>2, Zenon
    <3> QED
      BY <2>1, <3>1, <3>2
  <2>7. omLast' # omClk'
    BY <1>0, <2>1, OnlineParams DEF OnlinePlaced
  <2>8. OnlinePlaced'
    BY <1>0, <2>1, <2>2, <2>5, <2>6 DEF OnlinePlaced
  <2> QED
    BY <2>6, <2>7, <2>8, Zenon DEF OnlineInv, OldDaysWritten
<1>3. CASE UNCHANGED onlineVars
  <2>1. /\ omClk' = omClk /\ omLast' = omLast /\ omFlushed' = omFlushed
        /\ omPend' = omPend /\ omFile' = omFile /\ omGiven' = omGiven /\ omOff' = omOff /\ omBehind' = omBehind
    BY <1>3 DEF onlineVars
  <2> QED
    BY <2>1, Zenon DEF OnlineInv, OnlinePlaced, OldDaysWritten
<1> QED
  BY <1>1, <1>2, <1>3, SampleKeeps, Zenon DEF OnlineNext

-----------------------------------------------------------------------------
(* The phone's own traffic.                                                *)

\* The books of the days, and their running sum.
Books == [1 .. PuDays -> Nat]
Sums(s, v) == s = [d \in 0 .. PuDays |-> IF d = 0 THEN 0 ELSE s[d - 1] + v[d]]

\* The constants, one by one.
LEMMA PhoneParams ==
  PuDays \in Nat /\ PuDays > 0 /\ Plan \in Nat /\ Warn \in Nat /\ MaxBytes \in Nat /\ MaxBad \in Nat
BY PhoneAssumption

\* The running sum is defined: each follows from the one before.
LEMMA SumsDefined ==
  ASSUME NEW v \in Books
  PROVE  \E s : Sums(s, v) /\ SumOf(v) = s[PuDays]
<1> DEFINE Is(f, n) == f = [d \in 0 .. n |-> IF d = 0 THEN 0 ELSE f[d - 1] + v[d]]
           T == {n \in Nat : ~\E f : Is(f, n)}
<1>1. SumOf(v) = (CHOOSE f : Is(f, PuDays))[PuDays]
  BY Zenon DEF SumOf
<1>2. T = {}
  <2> SUFFICES ASSUME T # {} PROVE FALSE
    OBVIOUS
  <2>1. PICK n \in T : \A m \in T : n <= m
    BY LeastOf
  <2>2. n \in Nat /\ ~\E f : Is(f, n)
    BY <2>1
  <2>3. n # 0
    <3> SUFFICES ASSUME n = 0 PROVE FALSE
      OBVIOUS
    <3>1. PICK f : f = [i \in 0 .. 0 |-> 0]
      OBVIOUS
    <3>2. f = [i \in 0 .. 0 |-> IF i = 0 THEN 0 ELSE f[i - 1] + v[i]]
      BY <3>1
    <3> QED
      BY <2>2, <3>2
  <2>4. n - 1 \in Nat /\ ~(n <= n - 1)
    BY <2>2, <2>3
  <2>5. \E f : Is(f, n - 1)
    BY <2>1, <2>4
  <2>6. PICK f : f = [i \in 0 .. n - 1 |-> IF i = 0 THEN 0 ELSE f[i - 1] + v[i]]
    BY <2>5
  <2>7. PICK g : g = [i \in 0 .. n |-> IF i = n THEN f[n - 1] + v[n] ELSE f[i]]
    OBVIOUS
  <2>8. \A i \in 0 .. n - 1 : g[i] = f[i]
    BY <2>2, <2>7
  <2>9. ASSUME NEW i \in 0 .. n PROVE g[i] = IF i = 0 THEN 0 ELSE g[i - 1] + v[i]
    <3>1. CASE i = 0
      BY <2>2, <2>3, <2>6, <2>8, <3>1
    <3>2. CASE i # 0 /\ i # n
      <4>1. i \in 0 .. n - 1 /\ i - 1 \in 0 .. n - 1
        BY <2>2, <3>2
      <4>2. g[i] = f[i] /\ g[i - 1] = f[i - 1]
        BY <2>8, <4>1
      <4>3. f[i] = f[i - 1] + v[i]
        BY <2>6, <3>2, <4>1
      <4> QED
        BY <3>2, <4>2, <4>3, Zenon
    <3>3. CASE i = n
      <4>1. g[n - 1] = f[n - 1] /\ g[n] = f[n - 1] + v[n]
        BY <2>2, <2>3, <2>4, <2>7, <2>8
      <4> QED
        BY <2>3, <3>3, <4>1, Zenon
    <3> QED
      BY <3>1, <3>2, <3>3
  <2>10. g = [i \in 0 .. n |-> IF i = 0 THEN 0 ELSE g[i - 1] + v[i]]
    BY <2>7, <2>9
  <2> QED
    BY <2>2, <2>10
<1>3. \E f : Is(f, PuDays)
  BY <1>2, PhoneParams
<1>4. Is(CHOOSE f : Is(f, PuDays), PuDays)
  <2> HIDE DEF Is
  <2> QED
    BY <1>3, Zenon
<1>5. PICK s : s = (CHOOSE f : Is(f, PuDays))
  OBVIOUS
<1>6. Is(s, PuDays) /\ SumOf(v) = s[PuDays]
  <2> HIDE DEF Is
  <2> QED
    BY <1>1, <1>4, <1>5, Zenon
<1> QED
  BY <1>6, Zenon DEF Sums

\* A running sum is a number from each day to the next.
LEMMA SumsTyped ==
  ASSUME NEW v \in Books, NEW s, Sums(s, v)
  PROVE  /\ s[0] = 0 /\ \A d \in 1 .. PuDays : s[d] = s[d - 1] + v[d]
         /\ \A d \in 0 .. PuDays : s[d] \in Nat
<1>0. PuDays \in Nat
  BY PhoneParams
<1>1. s[0] = 0
  BY <1>0 DEF Sums
<1>2. \A d \in 1 .. PuDays : s[d] = s[d - 1] + v[d]
  <2> SUFFICES ASSUME NEW d \in 1 .. PuDays PROVE s[d] = s[d - 1] + v[d]
    OBVIOUS
  <2>1. d \in 0 .. PuDays /\ d # 0
    BY <1>0
  <2>2. s[d] = IF d = 0 THEN 0 ELSE s[d - 1] + v[d]
    BY <2>1 DEF Sums
  <2> QED
    BY <2>1, <2>2
<1>3. \A d \in 0 .. PuDays : s[d] \in Nat
  <2> DEFINE T == {d \in 0 .. PuDays : s[d] \notin Nat}
  <2> SUFFICES ASSUME T # {} PROVE FALSE
    OBVIOUS
  <2>0. T \in SUBSET Nat
    BY <1>0
  <2>1. PICK n \in T : \A m \in T : n <= m
    BY <2>0, LeastOf
  <2>2. n \in 1 .. PuDays /\ s[n] \notin Nat
    BY <1>0, <1>1, <2>1
  <2>3. n - 1 \in 0 .. PuDays /\ ~(n <= n - 1)
    BY <1>0, <2>2
  <2>4. s[n - 1] \in Nat
    BY <2>1, <2>3
  <2>5. v[n] \in Nat
    BY <2>2 DEF Books
  <2> QED
    BY <1>2, <2>2, <2>4, <2>5
<1> QED
  BY <1>1, <1>2, <1>3

\* The sum of the books, and what becomes of it when one book changes.
LEMMA SumChanges ==
  ASSUME NEW v \in Books, NEW w \in Books, NEW k \in 1 .. PuDays,
         \A d \in 1 .. PuDays : d # k => w[d] = v[d]
  PROVE  SumOf(v) \in Nat /\ SumOf(w) \in Nat /\ SumOf(w) + v[k] = SumOf(v) + w[k]
<1>0. PuDays \in Nat /\ k \in Nat /\ k <= PuDays /\ k >= 1 /\ v[k] \in Nat /\ w[k] \in Nat
  BY PhoneParams DEF Books
<1>1. PICK s : Sums(s, v) /\ SumOf(v) = s[PuDays]
  BY SumsDefined
<1>2. PICK u : Sums(u, w) /\ SumOf(w) = u[PuDays]
  BY SumsDefined
<1>3. /\ s[0] = 0 /\ \A d \in 1 .. PuDays : s[d] = s[d - 1] + v[d]
      /\ \A d \in 0 .. PuDays : s[d] \in Nat
  BY <1>1, SumsTyped, Zenon
<1>4. /\ u[0] = 0 /\ \A d \in 1 .. PuDays : u[d] = u[d - 1] + w[d]
      /\ \A d \in 0 .. PuDays : u[d] \in Nat
  BY <1>2, SumsTyped, Zenon
<1> DEFINE Right(d) == IF d < k THEN u[d] = s[d] ELSE u[d] + v[k] = s[d] + w[k]
           T == {d \in 0 .. PuDays : ~Right(d)}
<1>5. T = {}
  <2> SUFFICES ASSUME T # {} PROVE FALSE
    OBVIOUS
  <2>0. T \in SUBSET Nat
    BY <1>0
  <2>1. PICK n \in T : \A m \in T : n <= m
    BY <2>0, LeastOf
  <2>2. n \in 0 .. PuDays /\ ~Right(n)
    BY <2>1
  <2>3. n # 0
    BY <1>0, <1>3, <1>4, <2>2
  <2>4. n \in 1 .. PuDays /\ n - 1 \in 0 .. PuDays /\ ~(n <= n - 1) /\ n \in Nat
    BY <1>0, <2>2, <2>3
  <2>5. Right(n - 1)
    <3> HIDE DEF Right
    <3> QED
      BY <2>1, <2>4
  <2>6. /\ s[n] = s[n - 1] + v[n] /\ u[n] = u[n - 1] + w[n]
        /\ s[n - 1] \in Nat /\ u[n - 1] \in Nat /\ v[n] \in Nat /\ w[n] \in Nat
    BY <1>3, <1>4, <2>4 DEF Books
  <2>7. CASE n < k
    <3>1. w[n] = v[n] /\ n - 1 < k
      BY <1>0, <2>4, <2>7
    <3>2. u[n - 1] = s[n - 1]
      BY <2>5, <3>1
    <3> QED
      BY <2>2, <2>6, <2>7, <3>1, <3>2
  <2>8. CASE n = k
    <3>1. n - 1 < k
      BY <1>0, <2>4, <2>8
    <3>2. u[n - 1] = s[n - 1]
      BY <2>5, <3>1
    <3>3. u[n] + v[k] = s[n] + w[k] /\ ~(n < k)
      BY <1>0, <2>6, <2>8, <3>2
    <3> QED
      BY <2>2, <3>3
  <2>9. CASE n > k
    <3>1. w[n] = v[n] /\ ~(n - 1 < k) /\ ~(n < k)
      BY <1>0, <2>4, <2>9
    <3>2. u[n - 1] + v[k] = s[n - 1] + w[k]
      BY <2>5, <3>1
    <3>3. u[n] + v[k] = s[n] + w[k]
      BY <1>0, <2>6, <3>1, <3>2
    <3> QED
      BY <2>2, <3>1, <3>3
  <2> QED
    BY <1>0, <2>4, <2>7, <2>8, <2>9
<1>6. PuDays \in 0 .. PuDays /\ ~(PuDays < k)
  BY <1>0
<1>7. Right(PuDays)
  <2> HIDE DEF Right
  <2> QED
    BY <1>5, <1>6
<1> QED
  BY <1>1, <1>2, <1>3, <1>4, <1>6, <1>7

\* The engine as the next tick finds it (Cur), the books on disk, and what a counter that
\* now stands at cur has gained since it stood at was (Past).
Engine == [loaded : BOOLEAN, baseline : BOOLEAN, idx : Nat, ctr : Nat,
           day : 0 .. PuDays, val : Nat, dirty : BOOLEAN]
Readings0 == [has : BOOLEAN, boot : Nat, idx : Nat, ctr : Nat, fired : SUBSET Level]
Steps0 == {"idle", "read", "flush", "state", "alerts", "emit", "saveFired"}
Cur == IF eng.loaded THEN eng ELSE LoadState
Disk == SumOf(dayFile)
Past(cur, was) == IF cur >= was THEN cur - was ELSE cur

PhonePlaced ==
  /\ kern \in NetDev /\ date \in 1 .. PuDays /\ eng \in Engine /\ stateFile \in Readings0
  /\ dayFile \in Books /\ bytes \in Nat /\ ahead \in Nat /\ twice \in Nat /\ slips \in Nat
  /\ pc \in Steps0 /\ raw \in Nat /\ calm \in BOOLEAN
  /\ puFired \subseteq Level /\ outs \subseteq Level /\ alertsOut \in [Level -> Nat]

\* An engine that is loaded has a baseline, and shows no less than its file does; an
\* alert is told before it is emitted.
PhoneShape ==
  /\ eng.loaded => eng.baseline
  /\ ~eng.loaded => eng = Blank /\ ahead = 0 /\ puFired = {} /\ pc \in {"idle", "read"}
  /\ eng.day # 0 => dayFile[eng.day] <= eng.val /\ (eng.dirty \/ dayFile[eng.day] = eng.val)
  /\ eng.dirty => eng.day # 0
  /\ outs \subseteq puFired

\* What is booked, what the next tick would book, and what one after a death would.
Covered0 ==
  /\ pc # "read" => Total + Delta(Cur, kern.ctr, kern.idx) <= bytes + twice
  /\ pc = "read" => /\ Total + Delta(Cur, raw, kern.idx) + Past(kern.ctr, raw) <= bytes + twice
                    /\ kern.ctr < raw => raw <= twice
  /\ Disk + Delta(LoadState, kern.ctr, kern.idx) <= bytes + twice + ahead

\* As long as nothing was given up on.
Calm0 ==
  calm =>
  /\ eng.loaded => eng.idx = kern.idx /\ eng.ctr <= kern.ctr /\ bytes <= Total + (kern.ctr - eng.ctr)
  /\ stateFile.has => /\ stateFile.boot = kern.boot /\ stateFile.idx = kern.idx
                      /\ stateFile.ctr <= kern.ctr /\ bytes <= Disk + (kern.ctr - stateFile.ctr)
  /\ pc = "read" => raw <= kern.ctr /\ (Cur.baseline => Cur.ctr <= raw)
  /\ pc \in {"state", "alerts", "emit", "saveFired"} => ~eng.dirty

\* Which levels the engine holds for told, or will when it is loaded.
Announced == IF eng.loaded THEN puFired ELSE stateFile.fired
Alerts0 ==
  \A l \in Level : /\ alertsOut[l] <= 1 + slips
                   /\ l \notin Announced \/ l \in outs => alertsOut[l] <= slips

PhoneInv == PhonePlaced /\ PhoneShape /\ Covered0 /\ Calm0 /\ Alerts0

\* What a reading makes of the counter.
LEMMA DeltaOf ==
  ASSUME NEW e \in Engine, NEW cur \in Nat, NEW i \in Nat
  PROVE  /\ Delta(e, cur, i) \in Nat /\ Delta(e, cur, i) <= cur /\ Delta(e, 0, i) = 0
         /\ Delta(e, cur + 1, i) <= Delta(e, cur, i) + 1
         /\ e.baseline /\ e.idx = i => Delta(e, cur, i) = Past(cur, e.ctr)
         /\ ~e.baseline => Delta(e, cur, i) = 0
<1>1. e.ctr \in Nat /\ e.idx \in Nat
  BY DEF Engine
<1> QED
  BY <1>1 DEF Delta, Past

\* What Past is.
LEMMA PastOf ==
  ASSUME NEW cur \in Nat, NEW was \in Nat
  PROVE  /\ Past(cur, was) \in Nat /\ Past(cur, was) <= cur /\ Past(0, was) = 0 /\ Past(cur, cur) = 0
         /\ Past(cur + 1, was) <= Past(cur, was) + 1
         /\ (was <= cur => Past(cur, was) = cur - was) /\ (cur < was => Past(cur, was) = cur)
BY DEF Past

\* The engine after loadState, for a state file and a boot.
LoadedOf(st, b) ==
  IF ~st.has THEN [Blank EXCEPT !.loaded = TRUE]
  ELSE IF st.boot # b THEN [Blank EXCEPT !.loaded = TRUE, !.baseline = TRUE]
  ELSE [Blank EXCEPT !.loaded = TRUE, !.baseline = TRUE, !.idx = st.idx, !.ctr = st.ctr]
LEMMA LoadOf ==
  ASSUME NEW st \in Readings0, NEW b, NEW ls, ls = LoadedOf(st, b)
  PROVE  /\ ls \in Engine /\ ls.loaded = TRUE /\ ls.day = 0 /\ ls.dirty = FALSE /\ ls.baseline = st.has
         /\ st.has /\ st.boot = b => ls.idx = st.idx /\ ls.ctr = st.ctr
<1>1. 0 \in 0 .. PuDays /\ 0 \in Nat /\ st.idx \in Nat /\ st.ctr \in Nat /\ st.has \in BOOLEAN
  BY PhoneParams DEF Readings0
<1>0. Blank \in Engine /\ Blank.day = 0 /\ Blank.dirty = FALSE /\ Blank.baseline = FALSE
  BY <1>1 DEF Blank, Engine
<1>2. PICK en \in Engine : en = Blank /\ en.day = 0 /\ en.dirty = FALSE /\ en.baseline = FALSE
  BY <1>0, Zenon
<1>3. \/ ~st.has /\ ls = [en EXCEPT !.loaded = TRUE]
      \/ st.has /\ st.boot # b /\ ls = [en EXCEPT !.loaded = TRUE, !.baseline = TRUE]
      \/ /\ st.has /\ st.boot = b
         /\ ls = [en EXCEPT !.loaded = TRUE, !.baseline = TRUE, !.idx = st.idx, !.ctr = st.ctr]
  BY <1>2, Zenon DEF LoadedOf
<1>4. CASE ~st.has /\ ls = [en EXCEPT !.loaded = TRUE]
  BY <1>1, <1>2, <1>4 DEF Engine
<1>5. CASE st.has /\ st.boot # b /\ ls = [en EXCEPT !.loaded = TRUE, !.baseline = TRUE]
  BY <1>1, <1>2, <1>5 DEF Engine
<1>6. CASE /\ st.has /\ st.boot = b
           /\ ls = [en EXCEPT !.loaded = TRUE, !.baseline = TRUE, !.idx = st.idx, !.ctr = st.ctr]
  BY <1>1, <1>2, <1>6 DEF Engine
<1> QED
  BY <1>3, <1>4, <1>5, <1>6, Zenon

\* The engine a tick works on.
LEMMA CurTyped ==
  ASSUME PhonePlaced, PhoneShape
  PROVE  /\ LoadState \in Engine /\ LoadState.loaded = TRUE /\ LoadState.day = 0 /\ LoadState.dirty = FALSE
         /\ LoadState.baseline = stateFile.has
         /\ stateFile.has /\ stateFile.boot = kern.boot
              => LoadState.idx = stateFile.idx /\ LoadState.ctr = stateFile.ctr
         /\ Cur \in Engine /\ Cur.loaded = TRUE /\ Cur.day = eng.day /\ Cur.dirty = eng.dirty
         /\ (eng.loaded => Cur = eng) /\ (~eng.loaded => Cur = LoadState)
         /\ Blank \in Engine /\ (eng.day # 0 => Cur = eng)
<1>1. PICK st \in Readings0 : st = stateFile
  BY DEF PhonePlaced
<1>b. Blank \in Engine /\ Blank.day = 0 /\ Blank.dirty = FALSE
  BY PhoneParams DEF Blank, Engine
<1>4. PICK ls : ls = LoadState
  OBVIOUS
<1>6. /\ ls \in Engine /\ ls.loaded = TRUE /\ ls.day = 0 /\ ls.dirty = FALSE /\ ls.baseline = st.has
      /\ st.has /\ st.boot = kern.boot => ls.idx = st.idx /\ ls.ctr = st.ctr
  <2>1. PICK bt : bt = kern.boot
    OBVIOUS
  <2>2. ls = LoadedOf(st, bt)
    BY <1>1, <1>4, <2>1, Zenon DEF LoadState, LoadedOf
  <2>3. ls \in Engine /\ ls.loaded = TRUE /\ ls.day = 0 /\ ls.dirty = FALSE /\ ls.baseline = st.has
    BY <2>2, LoadOf, Zenon
  <2>4. st.has /\ st.boot = bt => ls.idx = st.idx /\ ls.ctr = st.ctr
    BY <2>2 DEF LoadedOf, Blank
  <2> QED
    BY <2>1, <2>3, <2>4, Zenon
<1>7. (eng.loaded => Cur = eng) /\ (~eng.loaded => Cur = ls /\ eng = Blank)
  BY <1>4 DEF Cur, PhoneShape
<1>8. PICK en \in Engine : en = eng
  BY DEF PhonePlaced
<1>9. en.loaded \in BOOLEAN
  BY DEF Engine
<1>10. /\ Cur \in Engine /\ Cur.loaded = TRUE /\ Cur.day = eng.day /\ Cur.dirty = eng.dirty
       /\ (eng.day # 0 => Cur = eng)
  BY <1>b, <1>6, <1>7, <1>8, <1>9, Zenon
<1> QED
  BY <1>1, <1>b, <1>4, <1>6, <1>7, <1>10, Zenon

\* The books as shown: of the day in memory, and of the files.
LEMMA ShownSum ==
  ASSUME NEW e \in Engine, NEW f \in Books
  PROVE  /\ Shown(e, f) \in Books /\ SumOf(Shown(e, f)) \in Nat /\ SumOf(f) \in Nat
         /\ e.day = 0 => SumOf(Shown(e, f)) = SumOf(f)
         /\ e.day # 0 => /\ e.day \in 1 .. PuDays
                         /\ SumOf(Shown(e, f)) + f[e.day] = SumOf(f) + e.val
<1>0. e.day \in 0 .. PuDays /\ e.val \in Nat /\ PuDays \in Nat /\ 1 \in 1 .. PuDays
  BY PhoneParams DEF Engine
<1>1. PICK w : w = Shown(e, f)
  OBVIOUS
<1>2. w \in Books /\ \A d \in 1 .. PuDays : w[d] = IF d = e.day THEN e.val ELSE f[d]
  BY <1>0, <1>1 DEF Shown, Books
<1>3. CASE e.day = 0
  <2>1. w = f
    <3>1. \A d \in 1 .. PuDays : w[d] = f[d]
      BY <1>0, <1>2, <1>3
    <3>2. w = [d \in 1 .. PuDays |-> w[d]] /\ f = [d \in 1 .. PuDays |-> f[d]]
      BY <1>2 DEF Books
    <3> QED
      BY <3>1, <3>2, Zenon
  <2>2. SumOf(f) \in Nat
    BY <1>0, SumChanges
  <2> QED
    BY <1>1, <1>2, <1>3, <2>1, <2>2, Zenon
<1>4. CASE e.day # 0
  <2>1. e.day \in 1 .. PuDays
    BY <1>0, <1>4
  <2>2. w[e.day] = e.val /\ \A d \in 1 .. PuDays : d # e.day => w[d] = f[d]
    BY <1>2, <2>1
  <2>3. SumOf(f) \in Nat /\ SumOf(w) \in Nat /\ SumOf(w) + f[e.day] = SumOf(f) + w[e.day]
    BY <1>2, <2>1, <2>2, SumChanges
  <2> QED
    BY <1>1, <1>2, <1>4, <2>1, <2>2, <2>3, Zenon
<1> QED
  BY <1>3, <1>4

\* A book that is saved.
SavedBook(f, k, x) == [f EXCEPT ![k] = x]
LEMMA SavedSum ==
  ASSUME NEW f \in Books, NEW k \in 1 .. PuDays, NEW x \in Nat
  PROVE  /\ SavedBook(f, k, x) \in Books /\ SumOf(SavedBook(f, k, x)) \in Nat /\ SumOf(f) \in Nat
         /\ SumOf(SavedBook(f, k, x)) + f[k] = SumOf(f) + x
         /\ SavedBook(f, k, x)[k] = x
<1>1. PICK w : w = SavedBook(f, k, x)
  OBVIOUS
<1>2. w \in Books /\ w[k] = x /\ \A d \in 1 .. PuDays : d # k => w[d] = f[d]
  BY <1>1 DEF Books, SavedBook
<1>3. SumOf(f) \in Nat /\ SumOf(w) \in Nat /\ SumOf(w) + f[k] = SumOf(f) + w[k]
  BY <1>2, SumChanges
<1> QED
  BY <1>1, <1>2, <1>3, Zenon
LEMMA SavedOther ==
  ASSUME NEW f \in Books, NEW k \in 1 .. PuDays, NEW x \in Nat, NEW d \in 1 .. PuDays, d # k
  PROVE  SavedBook(f, k, x)[d] = f[d]
BY DEF Books, SavedBook

\* The sums of a state: what is shown is no less than what is in the files.
LEMMA PhoneSums ==
  ASSUME PhonePlaced, PhoneShape
  PROVE  /\ Total \in Nat /\ Disk \in Nat /\ Disk <= Total
         /\ eng.day = 0 \/ ~eng.dirty => Total = Disk
         /\ eng.day # 0 => Total + dayFile[eng.day] = Disk + eng.val
<1>1. PICK e \in Engine : e = eng
  BY DEF PhonePlaced
<1>2. PICK f \in Books : f = dayFile
  BY DEF PhonePlaced
<1>3. e.day \in 0 .. PuDays /\ e.val \in Nat /\ e.dirty \in BOOLEAN
  BY DEF Engine
<1>4. PICK t : t = SumOf(Shown(e, f))
  OBVIOUS
<1>5. PICK d : d = SumOf(f)
  OBVIOUS
<1>6. /\ t \in Nat /\ d \in Nat /\ (e.day = 0 => t = d)
      /\ e.day # 0 => e.day \in 1 .. PuDays /\ t + f[e.day] = d + e.val
  BY <1>4, <1>5, ShownSum, Zenon
<1>7. e.day # 0 => f[e.day] <= e.val /\ (e.dirty \/ f[e.day] = e.val)
  BY <1>1, <1>2, Zenon DEF PhoneShape
<1>8. e.day # 0 => f[e.day] \in Nat
  BY <1>6 DEF Books
<1>9. d <= t
  BY <1>3, <1>6, <1>7, <1>8
<1>10. e.day = 0 \/ f[e.day] = e.val => t = d
  BY <1>3, <1>6, <1>8
<1>11. e.day = 0 \/ ~e.dirty => t = d
  BY <1>7, <1>10, Zenon
<1>12. Total = t /\ Disk = d
  BY <1>1, <1>2, <1>4, <1>5, Zenon DEF Total, Disk
<1> QED
  BY <1>1, <1>2, <1>6, <1>9, <1>11, <1>12, Zenon

\* The numbers of a state.
LEMMA PhoneNumbers ==
  ASSUME PhonePlaced, PhoneShape
  PROVE  /\ kern.ctr \in Nat /\ kern.idx \in Nat /\ kern.boot \in Nat
         /\ Delta(Cur, kern.ctr, kern.idx) \in Nat /\ Delta(Cur, raw, kern.idx) \in Nat
         /\ Delta(LoadState, kern.ctr, kern.idx) \in Nat /\ Past(kern.ctr, raw) \in Nat
         /\ Total \in Nat /\ Disk \in Nat /\ Disk <= Total
         /\ eng.ctr \in Nat /\ stateFile.ctr \in Nat /\ eng.loaded \in BOOLEAN /\ stateFile.has \in BOOLEAN
<1>1. kern.ctr \in Nat /\ kern.idx \in Nat /\ kern.boot \in Nat /\ raw \in Nat
  BY DEF PhonePlaced, NetDev
<1>2. LoadState \in Engine /\ Cur \in Engine
  BY CurTyped
<1>3. /\ Delta(Cur, kern.ctr, kern.idx) \in Nat /\ Delta(Cur, raw, kern.idx) \in Nat
      /\ Delta(LoadState, kern.ctr, kern.idx) \in Nat
  BY <1>1, <1>2, DeltaOf
<1>4. Past(kern.ctr, raw) \in Nat
  BY <1>1, PastOf
<1>5. Total \in Nat /\ Disk \in Nat /\ Disk <= Total
  BY PhoneSums
<1>6. eng.ctr \in Nat /\ stateFile.ctr \in Nat /\ eng.loaded \in BOOLEAN /\ stateFile.has \in BOOLEAN
  BY DEF PhonePlaced, Engine, Readings0
<1> QED
  BY <1>1, <1>3, <1>4, <1>5, <1>6, Zenon

\* The invariant says what the runs check.
LEMMA PhoneTyped ==
  ASSUME PhoneInv
  PROVE  PhoneTypeOK /\ NothingInvented /\ NothingLost /\ AlertedOnce
<1>0. PhonePlaced /\ PhoneShape /\ Covered0 /\ Calm0 /\ Alerts0
  BY Zenon DEF PhoneInv
<1>1. PhoneTypeOK
  BY <1>0, Zenon DEF PhoneTypeOK, PhonePlaced, Engine, Readings0, Books, DayFiles, Steps0
<1>n. /\ kern.ctr \in Nat /\ Delta(Cur, kern.ctr, kern.idx) \in Nat /\ Delta(Cur, raw, kern.idx) \in Nat
      /\ Past(kern.ctr, raw) \in Nat /\ Total \in Nat /\ Disk \in Nat
      /\ eng.ctr \in Nat /\ stateFile.ctr \in Nat /\ eng.loaded \in BOOLEAN /\ stateFile.has \in BOOLEAN
      /\ bytes \in Nat /\ twice \in Nat
  BY <1>0, PhoneNumbers, Zenon DEF PhonePlaced
<1>2. NothingInvented
  <2>1. CASE pc = "read"
    <3>1. Total + Delta(Cur, raw, kern.idx) + Past(kern.ctr, raw) <= bytes + twice
      BY <1>0, <2>1, Zenon DEF Covered0
    <3> QED
      BY <1>n, <3>1 DEF NothingInvented
  <2>2. CASE pc # "read"
    <3>1. Total + Delta(Cur, kern.ctr, kern.idx) <= bytes + twice
      BY <1>0, <2>2, Zenon DEF Covered0
    <3> QED
      BY <1>n, <3>1 DEF NothingInvented
  <2> QED
    BY <2>1, <2>2
<1>3. NothingLost
  <2> SUFFICES ASSUME calm PROVE Total + PuMissing >= bytes
    BY DEF NothingLost
  <2>1. CASE eng.loaded
    <3>1. eng.ctr <= kern.ctr /\ bytes <= Total + (kern.ctr - eng.ctr) /\ eng.baseline
      BY <1>0, <2>1, Zenon DEF Calm0, PhoneShape
    <3>2. PuMissing = kern.ctr - eng.ctr
      BY <1>n, <2>1, <3>1 DEF PuMissing, Pending
    <3> QED
      BY <1>n, <3>1, <3>2
  <2>2. CASE ~eng.loaded /\ stateFile.has
    <3>1. stateFile.ctr <= kern.ctr /\ bytes <= Disk + (kern.ctr - stateFile.ctr) /\ eng = Blank
      BY <1>0, <2>2, Zenon DEF Calm0, PhoneShape
    <3>2. PuMissing = kern.ctr - stateFile.ctr
      BY <1>n, <2>2, <3>1 DEF PuMissing, Pending
    <3>3. Disk <= Total
      BY <1>0, PhoneSums
    <3> QED
      BY <1>n, <3>1, <3>2, <3>3
  <2>3. CASE ~eng.loaded /\ ~stateFile.has
    <3>1. PuMissing = bytes
      BY <2>3, Zenon DEF PuMissing
    <3> QED
      BY <1>n, <3>1
  <2> QED
    BY <2>1, <2>2, <2>3
<1>4. AlertedOnce
  BY <1>0, Zenon DEF Alerts0, AlertedOnce
<1> QED
  BY <1>1, <1>2, <1>3, <1>4

\* Nothing booked and nothing saved.
LEMMA PhoneStart == PhoneInit => PhoneInv
<1> SUFFICES ASSUME PhoneInit PROVE PhoneInv
  OBVIOUS
<1>1. /\ kern = [boot |-> 1, idx |-> 1, ctr |-> 0] /\ date = 1 /\ eng = Blank /\ puFired = {}
      /\ stateFile = [has |-> FALSE, boot |-> 0, idx |-> 0, ctr |-> 0, fired |-> {}]
      /\ dayFile = [d \in 1 .. PuDays |-> 0]
      /\ pc = "idle" /\ raw = 0 /\ outs = {} /\ alertsOut = [l \in Level |-> 0]
      /\ bytes = 0 /\ ahead = 0 /\ twice = 0 /\ slips = 0 /\ calm = TRUE
  BY DEF PhoneInit
<1>2. /\ Blank \in Engine /\ Blank.loaded = FALSE /\ Blank.baseline = FALSE /\ Blank.dirty = FALSE /\ Blank.day = 0
  BY PhoneParams DEF Blank, Engine
<1>3. kern \in NetDev /\ kern.ctr = 0 /\ kern.idx = 1 /\ kern.boot = 1
  BY <1>1 DEF NetDev
<1>4. stateFile \in Readings0 /\ stateFile.has = FALSE
  BY <1>1 DEF Readings0
<1>5. date \in 1 .. PuDays /\ dayFile \in Books /\ \A d \in 1 .. PuDays : dayFile[d] = 0
  BY <1>1, PhoneParams DEF Books
<1>6. alertsOut \in [Level -> Nat] /\ \A l \in Level : alertsOut[l] = 0
  BY <1>1
<1>7. PhonePlaced
  <2>1. bytes \in Nat /\ ahead \in Nat /\ twice \in Nat /\ slips \in Nat /\ raw \in Nat
    BY <1>1
  <2>2. pc \in Steps0 /\ puFired \subseteq Level /\ outs \subseteq Level
    BY <1>1 DEF Steps0
  <2> QED
    BY <1>1, <1>2, <1>3, <1>4, <1>5, <1>6, <2>1, <2>2, Zenon DEF PhonePlaced
<1>8. PhoneShape
  BY <1>1, <1>2, Zenon DEF PhoneShape
<1>9. Disk = 0 /\ Total = 0
  <2>1. PICK f \in Books : f = dayFile /\ \A d \in 1 .. PuDays : f[d] = 0
    BY <1>5
  <2>2. PICK s : Sums(s, f) /\ SumOf(f) = s[PuDays]
    BY SumsDefined
  <2>3. s[0] = 0 /\ \A d \in 1 .. PuDays : s[d] = s[d - 1] + f[d]
    BY <2>2, SumsTyped, Zenon
  <2> DEFINE T == {d \in 0 .. PuDays : s[d] # 0}
  <2>4. T = {}
    <3> SUFFICES ASSUME T # {} PROVE FALSE
      OBVIOUS
    <3>0. T \in SUBSET Nat
      BY PhoneParams
    <3>1. PICK n \in T : \A m \in T : n <= m
      BY <3>0, LeastOf
    <3>2. n \in 1 .. PuDays /\ s[n] # 0
      BY PhoneParams, <2>3, <3>1
    <3>3. n - 1 \in 0 .. PuDays /\ ~(n <= n - 1)
      BY PhoneParams, <3>2
    <3>4. s[n - 1] = 0
      BY <3>1, <3>3
    <3> QED
      BY <2>1, <2>3, <3>2, <3>4
  <2>5. PuDays \in 0 .. PuDays
    BY PhoneParams
  <2>6. Disk = 0
    BY <2>1, <2>2, <2>4, <2>5 DEF Disk
  <2>7. eng.day = 0
    BY <1>1, <1>2
  <2> QED
    BY <1>7, <1>8, <2>6, <2>7, PhoneSums, Zenon
<1>10. Covered0
  <2>1. Cur \in Engine /\ LoadState \in Engine
    BY <1>7, <1>8, CurTyped
  <2>2. Delta(Cur, 0, 1) = 0 /\ Delta(LoadState, 0, 1) = 0
    BY <2>1, DeltaOf
  <2>3. Delta(Cur, kern.ctr, kern.idx) = 0 /\ Delta(LoadState, kern.ctr, kern.idx) = 0
    BY <1>3, <2>2, Zenon
  <2> QED
    BY <1>1, <1>9, <2>3 DEF Covered0
<1>11. Calm0
  BY <1>1, <1>2, <1>4, Zenon DEF Calm0
<1>12. Alerts0
  BY <1>1, <1>6 DEF Alerts0
<1> QED
  BY <1>7, <1>8, <1>10, <1>11, <1>12, Zenon DEF PhoneInv

\* A byte is carried: it is not booked, and the next tick books no more than one more.
LEMMA CarryKeeps == ASSUME PhoneInv, Carry PROVE PhoneInv'
<1>0. PhonePlaced /\ PhoneShape /\ Covered0 /\ Calm0 /\ Alerts0
  BY Zenon DEF PhoneInv
<1>1. /\ bytes' = bytes + 1 /\ kern' = [kern EXCEPT !.ctr = @ + 1]
      /\ date' = date /\ eng' = eng /\ puFired' = puFired /\ pc' = pc /\ raw' = raw /\ outs' = outs
      /\ stateFile' = stateFile /\ dayFile' = dayFile /\ alertsOut' = alertsOut /\ ahead' = ahead
      /\ twice' = twice /\ slips' = slips /\ calm' = calm
  BY DEF Carry, puMem
<1>2. kern' \in NetDev /\ kern'.ctr = kern.ctr + 1 /\ kern'.idx = kern.idx /\ kern'.boot = kern.boot
  BY <1>0, <1>1 DEF PhonePlaced, NetDev
<1>3. /\ kern.ctr \in Nat /\ kern.idx \in Nat /\ raw \in Nat /\ bytes \in Nat /\ twice \in Nat /\ ahead \in Nat
      /\ Total \in Nat /\ Disk \in Nat /\ eng.ctr \in Nat /\ stateFile.ctr \in Nat
  BY <1>0, PhoneNumbers, Zenon DEF PhonePlaced
<1>4. LoadState' = LoadState
  BY <1>1, <1>2, Zenon DEF LoadState
<1>5. Cur' = Cur /\ Total' = Total /\ Disk' = Disk
  BY <1>1, <1>4, Zenon DEF Cur, Total, Disk
<1>6. PhonePlaced'
  <2>1. bytes' \in Nat
    BY <1>1, <1>3
  <2> QED
    BY <1>0, <1>1, <1>2, <2>1, Zenon DEF PhonePlaced
<1>7. PhoneShape'
  BY <1>0, <1>1, Zenon DEF PhoneShape
<1>8. PICK c \in Nat, i \in Nat : c = kern.ctr /\ i = kern.idx
  BY <1>3
<1>9. PICK cu \in Engine, ls \in Engine : cu = Cur /\ ls = LoadState
  BY <1>0, CurTyped
<1>10. /\ Delta(cu, c, i) \in Nat /\ Delta(cu, c + 1, i) <= Delta(cu, c, i) + 1 /\ Delta(cu, raw, i) \in Nat
       /\ Delta(ls, c, i) \in Nat /\ Delta(ls, c + 1, i) <= Delta(ls, c, i) + 1
       /\ Past(c, raw) \in Nat /\ Past(c + 1, raw) <= Past(c, raw) + 1
       /\ Past(c + 1, raw) \in Nat /\ Delta(cu, c + 1, i) \in Nat /\ Delta(ls, c + 1, i) \in Nat
  <2>1. c + 1 \in Nat
    OBVIOUS
  <2> QED
    BY <1>3, <2>1, DeltaOf, PastOf
<1>11. Covered0'
  <2>1. pc # "read" => Total + Delta(cu, c, i) <= bytes + twice
    BY <1>0, <1>8, <1>9, Zenon DEF Covered0
  <2>2. pc = "read" => Total + Delta(cu, raw, i) + Past(c, raw) <= bytes + twice /\ (c < raw => raw <= twice)
    BY <1>0, <1>8, <1>9, Zenon DEF Covered0
  <2>3. Disk + Delta(ls, c, i) <= bytes + twice + ahead
    BY <1>0, <1>8, <1>9, Zenon DEF Covered0
  <2>4. pc # "read" => Total + Delta(cu, c + 1, i) <= bytes + 1 + twice
    BY <1>3, <1>10, <2>1
  <2>5. pc = "read" => Total + Delta(cu, raw, i) + Past(c + 1, raw) <= bytes + 1 + twice /\ (c + 1 < raw => raw <= twice)
    BY <1>3, <1>10, <2>2
  <2>6. Disk + Delta(ls, c + 1, i) <= bytes + 1 + twice + ahead
    BY <1>3, <1>10, <2>3
  <2> QED
    BY <1>1, <1>2, <1>4, <1>5, <1>8, <1>9, <2>4, <2>5, <2>6, Zenon DEF Covered0
<1>12. Calm0'
  <2> SUFFICES ASSUME calm PROVE
        /\ eng.loaded => /\ eng.idx = kern.idx /\ eng.ctr <= kern.ctr + 1
                         /\ bytes + 1 <= Total + ((kern.ctr + 1) - eng.ctr)
        /\ stateFile.has => /\ stateFile.boot = kern.boot /\ stateFile.idx = kern.idx
                            /\ stateFile.ctr <= kern.ctr + 1
                            /\ bytes + 1 <= Disk + ((kern.ctr + 1) - stateFile.ctr)
        /\ pc = "read" => raw <= kern.ctr + 1 /\ (Cur.baseline => Cur.ctr <= raw)
        /\ pc \in {"state", "alerts", "emit", "saveFired"} => ~eng.dirty
    BY <1>1, <1>2, <1>5, Zenon DEF Calm0
  <2>1. eng.loaded => /\ eng.idx = kern.idx /\ eng.ctr <= kern.ctr + 1
                      /\ bytes + 1 <= Total + ((kern.ctr + 1) - eng.ctr)
    BY <1>0, <1>3 DEF Calm0
  <2>2. stateFile.has => /\ stateFile.boot = kern.boot /\ stateFile.idx = kern.idx
                         /\ stateFile.ctr <= kern.ctr + 1
                         /\ bytes + 1 <= Disk + ((kern.ctr + 1) - stateFile.ctr)
    BY <1>0, <1>3 DEF Calm0
  <2>3. pc = "read" => raw <= kern.ctr + 1 /\ (Cur.baseline => Cur.ctr <= raw)
    BY <1>0, <1>3 DEF Calm0
  <2>4. pc \in {"state", "alerts", "emit", "saveFired"} => ~eng.dirty
    BY <1>0, Zenon DEF Calm0
  <2> QED
    BY <2>1, <2>2, <2>3, <2>4
<1>13. Alerts0'
  BY <1>0, <1>1, Zenon DEF Alerts0, Announced
<1> QED
  BY <1>6, <1>7, <1>11, <1>12, <1>13, Zenon DEF PhoneInv

\* The interface is rebuilt: nothing is left to book, except a reading that was taken.
LEMMA RebuildKeeps == ASSUME PhoneInv, Rebuild PROVE PhoneInv'
<1>0. PhonePlaced /\ PhoneShape /\ Covered0 /\ Calm0 /\ Alerts0
  BY Zenon DEF PhoneInv
<1>1. PICK j \in {kern.idx, kern.idx + 1} : kern' = [kern EXCEPT !.idx = j, !.ctr = 0]
  BY DEF Rebuild
<1>2. /\ twice' = (IF pc = "read" THEN twice + raw ELSE twice) /\ calm' = FALSE /\ bytes' = bytes
      /\ date' = date /\ eng' = eng /\ puFired' = puFired /\ pc' = pc /\ raw' = raw /\ outs' = outs
      /\ stateFile' = stateFile /\ dayFile' = dayFile /\ alertsOut' = alertsOut /\ ahead' = ahead
      /\ slips' = slips
  BY DEF Rebuild, puMem
<1>3. /\ kern.ctr \in Nat /\ kern.idx \in Nat /\ raw \in Nat /\ bytes \in Nat /\ twice \in Nat /\ ahead \in Nat
      /\ Total \in Nat /\ Disk \in Nat
      /\ Delta(Cur, kern.ctr, kern.idx) \in Nat /\ Delta(Cur, raw, kern.idx) \in Nat
      /\ Delta(LoadState, kern.ctr, kern.idx) \in Nat /\ Past(kern.ctr, raw) \in Nat
  BY <1>0, PhoneNumbers, Zenon DEF PhonePlaced
<1>4. j \in Nat
  BY <1>3
<1>5. kern' \in NetDev /\ kern'.ctr = 0 /\ kern'.idx = j /\ kern'.boot = kern.boot
  BY <1>0, <1>1, <1>4 DEF PhonePlaced, NetDev
<1>6. LoadState' = LoadState
  BY <1>2, <1>5, Zenon DEF LoadState
<1>7. Cur' = Cur /\ Total' = Total /\ Disk' = Disk
  BY <1>2, <1>6, Zenon DEF Cur, Total, Disk
<1>8. twice' \in Nat /\ (pc = "read" => twice' = twice + raw) /\ (pc # "read" => twice' = twice) /\ twice <= twice'
  BY <1>2, <1>3
<1>9. PhonePlaced'
  BY <1>0, <1>2, <1>5, <1>8, Zenon DEF PhonePlaced
<1>10. PhoneShape'
  BY <1>0, <1>2, Zenon DEF PhoneShape
<1>11. PICK cu \in Engine, ls \in Engine : cu = Cur /\ ls = LoadState
  BY <1>0, CurTyped
<1>12. /\ Delta(cu, 0, j) = 0 /\ Delta(ls, 0, j) = 0 /\ Delta(cu, raw, j) \in Nat /\ Delta(cu, raw, j) <= raw
       /\ Past(0, raw) = 0
  BY <1>3, <1>4, DeltaOf, PastOf
<1>13. Total <= bytes + twice /\ Disk <= bytes + twice + ahead
  BY <1>0, <1>3 DEF Covered0
<1>14. Covered0'
  <2>1. pc # "read" => Total + Delta(cu, 0, j) <= bytes + twice'
    BY <1>3, <1>8, <1>12, <1>13
  <2>2. pc = "read" => Total + Delta(cu, raw, j) + Past(0, raw) <= bytes + twice' /\ (0 < raw => raw <= twice')
    BY <1>3, <1>8, <1>12, <1>13
  <2>3. Disk + Delta(ls, 0, j) <= bytes + twice' + ahead
    BY <1>3, <1>8, <1>12, <1>13
  <2> QED
    BY <1>2, <1>5, <1>6, <1>7, <1>11, <2>1, <2>2, <2>3, Zenon DEF Covered0
<1>15. Calm0'
  BY <1>2, Zenon DEF Calm0
<1>16. Alerts0'
  BY <1>0, <1>2, Zenon DEF Alerts0, Announced
<1> QED
  BY <1>9, <1>10, <1>14, <1>15, <1>16, Zenon DEF PhoneInv

\* A death: what is shown is what is in the files, and what the state file does not know
\* of may be booked again.
LEMMA DiesKeeps ==
  ASSUME PhoneInv, Dies, NEW k \in NetDev, kern' = k, date' = date, stateFile' = stateFile, dayFile' = dayFile,
         alertsOut' = alertsOut, bytes' = bytes,
         \/ k = kern /\ calm' = calm
         \/ k.ctr = 0 /\ calm' = FALSE
  PROVE  PhoneInv'
<1>0. PhonePlaced /\ PhoneShape /\ Covered0 /\ Calm0 /\ Alerts0
  BY Zenon DEF PhoneInv
<1>1. /\ eng' = Blank /\ puFired' = {} /\ pc' = "idle" /\ raw' = 0 /\ outs' = {}
      /\ twice' = twice + ahead /\ ahead' = 0
      /\ slips' = IF \E l \in puFired \ stateFile.fired : alertsOut[l] > 0 THEN slips + 1 ELSE slips
  BY DEF Dies
<1>2. /\ bytes \in Nat /\ twice \in Nat /\ ahead \in Nat /\ slips \in Nat /\ Total \in Nat /\ Disk \in Nat
      /\ kern.ctr \in Nat /\ kern.idx \in Nat
      /\ Delta(LoadState, kern.ctr, kern.idx) \in Nat
  BY <1>0, PhoneNumbers, Zenon DEF PhonePlaced
<1>3. /\ Blank \in Engine /\ Blank.loaded = FALSE /\ Blank.dirty = FALSE /\ Blank.day = 0
  BY PhoneParams DEF Blank, Engine
<1>4. slips' \in Nat /\ slips <= slips'
      /\ ((\E l \in puFired \ stateFile.fired : alertsOut[l] > 0) => slips' = slips + 1)
  BY <1>1, <1>2
<1>5. PhonePlaced'
  <2>1. twice' \in Nat /\ ahead' \in Nat /\ raw' \in Nat
    BY <1>1, <1>2
  <2>2. pc' \in Steps0 /\ puFired' \subseteq Level /\ outs' \subseteq Level
    BY <1>1 DEF Steps0
  <2>3. calm' \in BOOLEAN
    BY <1>0, Zenon DEF PhonePlaced
  <2> QED
    BY <1>0, <1>1, <1>3, <1>4, <2>1, <2>2, <2>3, Zenon DEF PhonePlaced
<1>6. PhoneShape'
  BY <1>1, <1>3, Zenon DEF PhoneShape
<1>7. Cur' = LoadState' /\ Disk' = Disk
  BY <1>1, <1>3, Zenon DEF Cur, Disk
<1>8. Total' = Disk
  <2>1. PICK f \in Books : f = dayFile
    BY <1>0, Zenon DEF PhonePlaced
  <2>2. SumOf(Shown(Blank, f)) = SumOf(f)
    BY <1>3, ShownSum
  <2> QED
    BY <1>1, <2>1, <2>2, Zenon DEF Total, Disk
<1>9. Disk + Delta(LoadState', kern'.ctr, kern'.idx) <= bytes + twice + ahead
  <2>0. Disk + Delta(LoadState, kern.ctr, kern.idx) <= bytes + twice + ahead
    BY <1>0, Zenon DEF Covered0
  <2>1. CASE k = kern
    <3>1. LoadState' = LoadState
      BY <2>1, Zenon DEF LoadState
    <3> QED
      BY <2>0, <2>1, <3>1, Zenon
  <2>2. CASE k.ctr = 0
    <3>0. PICK st, bt, ls : st \in Readings0 /\ st = stateFile /\ bt = k.boot /\ ls = LoadState'
      BY <1>0, Zenon DEF PhonePlaced
    <3>a. ls = LoadedOf(st, bt)
      BY <3>0, Zenon DEF LoadState, LoadedOf, Blank
    <3>1. ls \in Engine
      BY <3>0, <3>a, LoadOf, Zenon
    <3>2. k.idx \in Nat
      BY DEF NetDev
    <3>3. Delta(ls, 0, k.idx) = 0
      BY <3>1, <3>2, DeltaOf
    <3>4. Delta(LoadState', kern'.ctr, kern'.idx) = 0
      BY <2>2, <3>0, <3>3, Zenon
    <3> QED
      BY <1>2, <2>0, <3>4
  <2> QED
    BY <2>1, <2>2
<1>10. Covered0'
  <2>1. bytes + twice + ahead = bytes + (twice + ahead) /\ bytes + (twice + ahead) = bytes + (twice + ahead) + 0
    BY <1>2
  <2>2. Disk + Delta(LoadState', kern'.ctr, kern'.idx) <= bytes' + twice'
    BY <1>1, <1>9, <2>1, Zenon
  <2>3. Disk + Delta(LoadState', kern'.ctr, kern'.idx) <= bytes' + twice' + ahead'
    BY <1>1, <1>9, <2>1, Zenon
  <2> QED
    BY <1>1, <1>7, <1>8, <2>2, <2>3 DEF Covered0
<1>11. Calm0'
  <2>1. CASE k = kern /\ calm' = calm
    BY <1>0, <1>1, <1>3, <1>7, <2>1, Zenon DEF Calm0
  <2>2. CASE calm' = FALSE
    BY <2>2, Zenon DEF Calm0
  <2> QED
    BY <2>1, <2>2
<1>12. Alerts0'
  <2> SUFFICES ASSUME NEW l \in Level
               PROVE  alertsOut[l] <= 1 + slips' /\ (l \notin stateFile.fired => alertsOut[l] <= slips')
    BY <1>1, <1>3, Zenon DEF Alerts0, Announced
  <2>1. alertsOut[l] \in Nat /\ alertsOut[l] <= 1 + slips /\ (l \notin Announced => alertsOut[l] <= slips)
    BY <1>0, Zenon DEF Alerts0, PhonePlaced
  <2>2. alertsOut[l] <= 1 + slips'
    BY <1>2, <1>4, <2>1
  <2>3. ASSUME l \notin stateFile.fired PROVE alertsOut[l] <= slips'
    <3>1. CASE l \in Announced
      <4>1. l \in puFired \ stateFile.fired
        BY <2>3, <3>1, Zenon DEF Announced
      <4>2. alertsOut[l] > 0 => slips' = slips + 1
        BY <1>4, <4>1
      <4> QED
        BY <1>2, <1>4, <2>1, <4>2
    <3>2. CASE l \notin Announced
      BY <1>2, <1>4, <2>1, <3>2
    <3> QED
      BY <3>1, <3>2
  <2> QED
    BY <2>2, <2>3
<1> QED
  BY <1>5, <1>6, <1>10, <1>11, <1>12, Zenon DEF PhoneInv

\* A step that books nothing, reads nothing and saves nothing.
LEMMA QuietKeeps ==
  ASSUME Covered0, Calm0, kern' = kern, eng' = eng, stateFile' = stateFile, dayFile' = dayFile, raw' = raw,
         bytes' = bytes, ahead' = ahead, twice' = twice, calm' = calm, pc # "read", pc' # "read",
         pc' \in {"state", "alerts", "emit", "saveFired"} => pc \in {"state", "alerts", "emit", "saveFired"}
  PROVE  Covered0' /\ Calm0'
<1>1. LoadState' = LoadState
  BY Zenon DEF LoadState
<1>2. Cur' = Cur /\ Total' = Total /\ Disk' = Disk
  BY <1>1, Zenon DEF Cur, Total, Disk
<1>3. Covered0'
  BY <1>1, <1>2, Zenon DEF Covered0
<1>4. Calm0'
  BY <1>2, Zenon DEF Calm0
<1> QED
  BY <1>3, <1>4

\* The date changes, or the alerts of a tick are passed over.
LEMMA IdleKeeps == ASSUME PhoneInv, Midnight \/ SkipAlerts PROVE PhoneInv'
<1>0. PhonePlaced /\ PhoneShape /\ Covered0 /\ Calm0 /\ Alerts0
  BY Zenon DEF PhoneInv
<1>1. /\ kern' = kern /\ eng' = eng /\ puFired' = puFired /\ raw' = raw /\ outs' = outs
      /\ stateFile' = stateFile /\ dayFile' = dayFile /\ alertsOut' = alertsOut /\ ahead' = ahead
      /\ bytes' = bytes /\ twice' = twice /\ slips' = slips /\ calm' = calm
      /\ pc \in {"idle", "alerts"} /\ pc' = "idle"
  BY DEF Midnight, SkipAlerts, puMem
<1>2. date' \in 1 .. PuDays
  <2>1. date \in 1 .. PuDays
    BY <1>0, Zenon DEF PhonePlaced
  <2> QED
    BY <2>1, PhoneParams DEF Midnight, SkipAlerts
<1>3. PhonePlaced'
  <2>1. pc' \in Steps0
    BY <1>1 DEF Steps0
  <2> QED
    BY <1>0, <1>1, <1>2, <2>1, Zenon DEF PhonePlaced
<1>4. PhoneShape'
  BY <1>0, <1>1, Zenon DEF PhoneShape
<1>5. pc # "read" /\ pc' # "read" /\ pc' \notin {"state", "alerts", "emit", "saveFired"}
  BY <1>1
<1>6. Covered0' /\ Calm0'
  BY <1>0, <1>1, <1>5, QuietKeeps, Zenon
<1>7. Alerts0'
  BY <1>0, <1>1, Zenon DEF Alerts0, Announced
<1> QED
  BY <1>3, <1>4, <1>6, <1>7, Zenon DEF PhoneInv

\* An alert is decided when its level is not told, and only then.
LEMMA PhoneCheckKeeps == ASSUME PhoneInv, CheckAlerts PROVE PhoneInv'
<1>0. PhonePlaced /\ PhoneShape /\ Covered0 /\ Calm0 /\ Alerts0
  BY Zenon DEF PhoneInv
<1>1. PICK dn : dn = Decision
  OBVIOUS
<1>2. /\ kern' = kern /\ eng' = eng /\ raw' = raw /\ outs' = dn /\ date' = date
      /\ stateFile' = stateFile /\ dayFile' = dayFile /\ alertsOut' = alertsOut /\ ahead' = ahead
      /\ bytes' = bytes /\ twice' = twice /\ slips' = slips /\ calm' = calm
      /\ pc = "alerts" /\ pc' = (IF dn = {} THEN "idle" ELSE "emit")
      /\ puFired' = puFired \union dn \union (IF dn = {"over"} THEN {"warn"} ELSE {})
  BY <1>1, Zenon DEF CheckAlerts
<1>3. dn \subseteq Level /\ \A l \in dn : l \notin puFired
  BY <1>1 DEF Decision, Level
<1>4. puFired' \subseteq Level /\ puFired \subseteq puFired'
  <2>1. puFired \subseteq Level
    BY <1>0, Zenon DEF PhonePlaced
  <2> QED
    BY <1>2, <1>3, <2>1 DEF Level
<1>5. PhonePlaced'
  <2>1. pc' \in Steps0
    BY <1>2 DEF Steps0
  <2> QED
    BY <1>0, <1>2, <1>3, <1>4, <2>1, Zenon DEF PhonePlaced
<1>6. eng.loaded
  BY <1>0, <1>2 DEF PhoneShape
<1>7. PhoneShape'
  <2>1. outs' \subseteq puFired'
    BY <1>2, Zenon
  <2> QED
    BY <1>0, <1>2, <1>6, <2>1, Zenon DEF PhoneShape
<1>8. pc # "read" /\ pc' # "read" /\ pc \in {"state", "alerts", "emit", "saveFired"}
  BY <1>2
<1>9. Covered0' /\ Calm0'
  BY <1>0, <1>2, <1>8, QuietKeeps, Zenon
<1>10. Alerts0'
  <2>1. Announced = puFired /\ Announced' = puFired'
    BY <1>2, <1>6, Zenon DEF Announced
  <2> QED
    BY <1>0, <1>2, <1>3, <1>4, <2>1, Zenon DEF Alerts0
<1> QED
  BY <1>5, <1>7, <1>9, <1>10, Zenon DEF PhoneInv

\* The alert is appended.
LEMMA EmitKeeps == ASSUME PhoneInv, EmitAlert PROVE PhoneInv'
<1>0. PhonePlaced /\ PhoneShape /\ Covered0 /\ Calm0 /\ Alerts0
  BY Zenon DEF PhoneInv
<1>1. PICK l \in outs :
      /\ pc = "emit" /\ outs' = outs \ {l} /\ pc' = "saveFired"
      /\ \/ alertsOut' = [alertsOut EXCEPT ![l] = @ + 1]
         \/ alertsOut' = alertsOut
      /\ kern' = kern /\ eng' = eng /\ raw' = raw /\ date' = date /\ puFired' = puFired
      /\ stateFile' = stateFile /\ dayFile' = dayFile /\ ahead' = ahead
      /\ bytes' = bytes /\ twice' = twice /\ slips' = slips /\ calm' = calm
  BY Zenon DEF EmitAlert
<1>2. l \in Level /\ outs \subseteq Level /\ alertsOut \in [Level -> Nat] /\ slips \in Nat
  BY <1>0, Zenon DEF PhonePlaced
<1>3. alertsOut' \in [Level -> Nat] /\ outs' \subseteq Level
  BY <1>1, <1>2
<1>4. PhonePlaced'
  <2>1. pc' \in Steps0
    BY <1>1 DEF Steps0
  <2> QED
    BY <1>0, <1>1, <1>3, <2>1, Zenon DEF PhonePlaced
<1>5. eng.loaded
  BY <1>0, <1>1 DEF PhoneShape
<1>6. PhoneShape'
  <2>1. outs' \subseteq puFired'
    BY <1>0, <1>1, Zenon DEF PhoneShape
  <2> QED
    BY <1>0, <1>1, <1>5, <2>1, Zenon DEF PhoneShape
<1>7. pc # "read" /\ pc' # "read" /\ pc \in {"state", "alerts", "emit", "saveFired"}
  BY <1>1
<1>8. Covered0' /\ Calm0'
  BY <1>0, <1>1, <1>7, QuietKeeps, Zenon
<1>9. Alerts0'
  <2> SUFFICES ASSUME NEW m \in Level
               PROVE  /\ alertsOut'[m] <= 1 + slips'
                      /\ m \notin Announced' \/ m \in outs' => alertsOut'[m] <= slips'
    BY Zenon DEF Alerts0
  <2>0. Announced' = puFired /\ Announced = puFired /\ slips' = slips
    BY <1>1, <1>5, Zenon DEF Announced
  <2>1. alertsOut[m] \in Nat /\ alertsOut[m] <= 1 + slips /\ (m \notin Announced \/ m \in outs => alertsOut[m] <= slips)
    BY <1>0, <1>2 DEF Alerts0
  <2>2. CASE alertsOut'[m] = alertsOut[m]
    BY <1>1, <2>0, <2>1, <2>2
  <2>3. CASE m = l /\ alertsOut'[m] = alertsOut[m] + 1
    <3>1. alertsOut[m] <= slips
      BY <1>1, <2>1, <2>3
    <3>2. m \in puFired
      <4>1. outs \subseteq puFired
        BY <1>0 DEF PhoneShape
      <4> QED
        BY <4>1, <2>3
    <3> QED
      BY <1>1, <1>2, <2>0, <2>1, <2>3, <3>1, <3>2
  <2>4. alertsOut'[m] = alertsOut[m] \/ (m = l /\ alertsOut'[m] = alertsOut[m] + 1)
    BY <1>1, <1>2
  <2> QED
    BY <2>2, <2>3, <2>4
<1> QED
  BY <1>4, <1>6, <1>8, <1>9, Zenon DEF PhoneInv

\* The counters are read.
LEMMA ReadKeeps == ASSUME PhoneInv, ReadCounters PROVE PhoneInv'
<1>0. PhonePlaced /\ PhoneShape /\ Covered0 /\ Calm0 /\ Alerts0
  BY Zenon DEF PhoneInv
<1>1. /\ kern' = kern /\ eng' = eng /\ puFired' = puFired /\ raw' = kern.ctr /\ outs' = outs /\ date' = date
      /\ stateFile' = stateFile /\ dayFile' = dayFile /\ alertsOut' = alertsOut /\ ahead' = ahead
      /\ bytes' = bytes /\ twice' = twice /\ slips' = slips /\ calm' = calm
      /\ pc = "idle" /\ pc' = "read"
  BY DEF ReadCounters
<1>2. /\ kern.ctr \in Nat /\ Total \in Nat /\ Delta(Cur, kern.ctr, kern.idx) \in Nat
      /\ eng.loaded \in BOOLEAN /\ bytes \in Nat /\ twice \in Nat
  BY <1>0, PhoneNumbers, Zenon DEF PhonePlaced
<1>3. PhonePlaced'
  <2>1. pc' \in Steps0 /\ raw' \in Nat
    BY <1>1, <1>2 DEF Steps0
  <2> QED
    BY <1>0, <1>1, <2>1, Zenon DEF PhonePlaced
<1>4. PhoneShape'
  BY <1>0, <1>1, Zenon DEF PhoneShape
<1>5. LoadState' = LoadState
  BY <1>1, Zenon DEF LoadState
<1>6. Cur' = Cur /\ Total' = Total /\ Disk' = Disk
  BY <1>1, <1>5, Zenon DEF Cur, Total, Disk
<1>7. Covered0'
  <2>1. Total + Delta(Cur, kern.ctr, kern.idx) <= bytes + twice
    BY <1>0, <1>1 DEF Covered0
  <2>2. PICK c \in Nat : c = kern.ctr
    BY <1>2
  <2>3. Past(c, c) = 0 /\ ~(c < c)
    BY PastOf
  <2>4. Total + Delta(Cur, kern.ctr, kern.idx) + Past(kern.ctr, kern.ctr) <= bytes + twice /\ ~(kern.ctr < kern.ctr)
    BY <1>2, <2>1, <2>2, <2>3
  <2>5. Disk + Delta(LoadState, kern.ctr, kern.idx) <= bytes + twice + ahead
    BY <1>0, Zenon DEF Covered0
  <2> QED
    BY <1>1, <1>5, <1>6, <2>4, <2>5 DEF Covered0
<1>8. Calm0'
  <2> SUFFICES ASSUME calm PROVE
        /\ eng.loaded => eng.idx = kern.idx /\ eng.ctr <= kern.ctr /\ bytes <= Total + (kern.ctr - eng.ctr)
        /\ stateFile.has => /\ stateFile.boot = kern.boot /\ stateFile.idx = kern.idx
                            /\ stateFile.ctr <= kern.ctr /\ bytes <= Disk + (kern.ctr - stateFile.ctr)
        /\ kern.ctr <= kern.ctr /\ (Cur.baseline => Cur.ctr <= kern.ctr)
    BY <1>1, <1>6 DEF Calm0
  <2>1. /\ eng.loaded => eng.idx = kern.idx /\ eng.ctr <= kern.ctr /\ bytes <= Total + (kern.ctr - eng.ctr)
        /\ stateFile.has => /\ stateFile.boot = kern.boot /\ stateFile.idx = kern.idx
                            /\ stateFile.ctr <= kern.ctr /\ bytes <= Disk + (kern.ctr - stateFile.ctr)
    BY <1>0, Zenon DEF Calm0
  <2>2. kern.ctr <= kern.ctr
    BY <1>2
  <2>3. ASSUME Cur.baseline PROVE Cur.ctr <= kern.ctr
    <3>1. CASE eng.loaded
      <4>1. Cur = eng
        BY <1>0, <3>1, CurTyped
      <4> QED
        BY <2>1, <3>1, <4>1, Zenon
    <3>2. CASE ~eng.loaded
      <4>1. Cur = LoadState /\ LoadState.baseline = stateFile.has
        BY <1>0, <3>2, CurTyped, Zenon
      <4>2. stateFile.has
        BY <2>3, <4>1, Zenon
      <4>3. LoadState.ctr = stateFile.ctr
        BY <1>0, <2>1, <4>2, CurTyped, Zenon
      <4> QED
        BY <2>1, <4>1, <4>2, <4>3, Zenon
    <3> QED
      BY <3>1, <3>2
  <2> QED
    BY <2>1, <2>2, <2>3
<1>9. Alerts0'
  BY <1>0, <1>1, Zenon DEF Alerts0, Announced
<1> QED
  BY <1>3, <1>4, <1>7, <1>8, <1>9, Zenon DEF PhoneInv

\* What the engine shows when a tick has loaded it.
LEMMA CurShows ==
  ASSUME PhonePlaced, PhoneShape
  PROVE  SumOf(Shown(Cur, dayFile)) = Total
<1>1. PICK cu \in Engine, en \in Engine, f \in Books : cu = Cur /\ en = eng /\ f = dayFile
  BY CurTyped DEF PhonePlaced
<1>2. en.day # 0 => cu = en
  BY <1>1, CurTyped, Zenon
<1>3. cu.day = en.day
  BY <1>1, CurTyped, Zenon
<1>4. en.day = 0 => SumOf(Shown(cu, f)) = SumOf(f) /\ SumOf(Shown(en, f)) = SumOf(f)
  BY <1>3, ShownSum
<1>5. SumOf(Shown(cu, f)) = SumOf(Shown(en, f))
  BY <1>2, <1>4, Zenon
<1> QED
  BY <1>1, <1>5, Zenon DEF Total

\* The same day and the same bytes show the same.
LEMMA SameShown ==
  ASSUME NEW x, NEW y, NEW f, x.day = y.day, x.val = y.val
  PROVE  Shown(x, f) = Shown(y, f)
BY Zenon DEF Shown

\* The levels told when a tick has loaded the engine.
LEMMA ToldKeeps ==
  ASSUME PhonePlaced, PhoneShape, Alerts0, eng'.loaded = TRUE,
         puFired' = IF eng.loaded THEN puFired ELSE stateFile.fired,
         outs' = outs, alertsOut' = alertsOut, slips' = slips
  PROVE  Alerts0' /\ puFired' \subseteq Level /\ outs' \subseteq puFired'
<1>1. Announced' = Announced /\ puFired' = Announced
  BY Zenon DEF Announced
<1>2. Alerts0'
  BY <1>1, Zenon DEF Alerts0
<1>3. puFired' \subseteq Level
  <2>1. stateFile.fired \subseteq Level
    BY DEF PhonePlaced, Readings0
  <2> QED
    BY <2>1, Zenon DEF PhonePlaced
<1>4. outs' \subseteq puFired'
  BY Zenon DEF PhoneShape
<1> QED
  BY <1>2, <1>3, <1>4

\* The clock jumped: the reading is a new baseline.
LEMMA JumpKeeps == ASSUME PhoneInv, ClockJump PROVE PhoneInv'
<1>0. PhonePlaced /\ PhoneShape /\ Covered0 /\ Calm0 /\ Alerts0
  BY Zenon DEF PhoneInv
<1>1. /\ pc = "read" /\ pc' = "flush" /\ raw' = 0 /\ calm' = FALSE
      /\ eng' = [Cur EXCEPT !.idx = kern.idx, !.ctr = raw, !.baseline = TRUE]
      /\ puFired' = (IF eng.loaded THEN puFired ELSE stateFile.fired)
      /\ kern' = kern /\ date' = date /\ stateFile' = stateFile /\ dayFile' = dayFile /\ outs' = outs
      /\ alertsOut' = alertsOut /\ bytes' = bytes /\ ahead' = ahead /\ twice' = twice /\ slips' = slips
  BY DEF ClockJump, Cur
<1>2. PICK c \in Nat, i \in Nat, r \in Nat : c = kern.ctr /\ i = kern.idx /\ r = raw
  BY <1>0, PhoneNumbers DEF PhonePlaced
<1>3. PICK cu \in Engine : /\ cu = Cur /\ cu.day = eng.day /\ cu.dirty = eng.dirty /\ cu.loaded = TRUE
                          /\ (eng.day # 0 => cu = eng)
  <2>1. PICK cu : cu = Cur
    OBVIOUS
  <2> QED
    BY <1>0, <2>1, CurTyped, Zenon
<1>4. PICK x : x = [cu EXCEPT !.idx = i, !.ctr = r, !.baseline = TRUE]
  OBVIOUS
<1>5. /\ x \in Engine /\ x.loaded = TRUE /\ x.baseline = TRUE /\ x.idx = i /\ x.ctr = r
      /\ x.day = cu.day /\ x.val = cu.val /\ x.dirty = cu.dirty
  BY <1>3, <1>4 DEF Engine
<1>6. eng' = x
  BY <1>1, <1>2, <1>3, <1>4, Zenon
<1>7. LoadState' = LoadState /\ Cur' = x /\ Disk' = Disk
  BY <1>1, <1>5, <1>6, Zenon DEF LoadState, Cur, Disk
<1>8. Total' = Total
  <2>1. PICK f : f = dayFile
    OBVIOUS
  <2>2. Shown(x, f) = Shown(cu, f)
    BY <1>5, SameShown
  <2>3. SumOf(Shown(cu, f)) = Total
    BY <1>0, <1>3, <2>1, CurShows, Zenon
  <2> QED
    BY <1>1, <1>6, <2>1, <2>2, <2>3, Zenon DEF Total
<1>9. Alerts0' /\ puFired' \subseteq Level /\ outs' \subseteq puFired'
  BY <1>0, <1>1, <1>5, <1>6, ToldKeeps, Zenon
<1>10. PhonePlaced'
  <2>1. pc' \in Steps0 /\ raw' \in Nat
    BY <1>1 DEF Steps0
  <2>2. outs' \subseteq Level
    BY <1>9
  <2> QED
    BY <1>0, <1>1, <1>5, <1>6, <1>9, <2>1, <2>2, Zenon DEF PhonePlaced
<1>11. PhoneShape'
  <2>1. x.day # 0 => dayFile[x.day] <= x.val /\ (x.dirty \/ dayFile[x.day] = x.val)
    BY <1>0, <1>3, <1>5, Zenon DEF PhoneShape
  <2>2. x.dirty => x.day # 0
    BY <1>0, <1>3, <1>5, Zenon DEF PhoneShape
  <2> QED
    BY <1>1, <1>5, <1>6, <1>9, <2>1, <2>2, Zenon DEF PhoneShape
<1>12. Covered0'
  <2>1. Total + Delta(cu, r, i) + Past(c, r) <= bytes + twice
    BY <1>0, <1>1, <1>2, <1>3, Zenon DEF Covered0
  <2>2. Delta(x, c, i) = Past(c, r) /\ Delta(cu, r, i) \in Nat /\ Past(c, r) \in Nat
    BY <1>5, DeltaOf, PastOf
  <2>3. Total \in Nat /\ bytes \in Nat /\ twice \in Nat
    BY <1>0, PhoneNumbers, Zenon DEF PhonePlaced
  <2>4. Total + Delta(x, c, i) <= bytes + twice
    BY <2>1, <2>2, <2>3
  <2>5. Disk + Delta(LoadState, kern.ctr, kern.idx) <= bytes + twice + ahead
    BY <1>0, Zenon DEF Covered0
  <2> QED
    BY <1>1, <1>2, <1>7, <1>8, <2>4, <2>5 DEF Covered0
<1>13. Calm0'
  BY <1>1, Zenon DEF Calm0
<1> QED
  BY <1>9, <1>10, <1>11, <1>12, <1>13, Zenon DEF PhoneInv

\* Today's book is saved.
LEMMA SaveDayKeeps == ASSUME PhoneInv, SaveDay PROVE PhoneInv'
<1>0. PhonePlaced /\ PhoneShape /\ Covered0 /\ Calm0 /\ Alerts0
  BY Zenon DEF PhoneInv
<1>1. /\ pc = "flush" /\ pc' = "state"
      /\ kern' = kern /\ date' = date /\ puFired' = puFired /\ stateFile' = stateFile /\ raw' = raw
      /\ outs' = outs /\ alertsOut' = alertsOut /\ bytes' = bytes /\ twice' = twice /\ slips' = slips
  BY DEF SaveDay
<1>2. \/ (eng.day = 0 \/ ~eng.dirty) /\ dayFile' = dayFile /\ ahead' = ahead /\ eng' = eng /\ calm' = calm
      \/ /\ eng.day # 0 /\ dayFile' = [dayFile EXCEPT ![eng.day] = eng.val]
         /\ ahead' = ahead + (eng.val - dayFile[eng.day])
         /\ eng' = [eng EXCEPT !.dirty = FALSE] /\ calm' = calm
      \/ calm' = FALSE /\ dayFile' = dayFile /\ ahead' = ahead /\ eng' = eng
  BY DEF SaveDay
<1>3. eng.loaded /\ eng.baseline
  BY <1>0, <1>1 DEF PhoneShape
<1>4. PICK en \in Engine, f \in Books : en = eng /\ f = dayFile
  BY <1>0 DEF PhonePlaced
<1>5. pc' \in Steps0
  BY <1>1 DEF Steps0
<1>6. LoadState' = LoadState
  BY <1>1, Zenon DEF LoadState
<1>7. CASE dayFile' = dayFile /\ ahead' = ahead /\ eng' = eng /\ (calm' = FALSE \/ (calm' = calm /\ (eng.day = 0 \/ ~eng.dirty)))
  <2>1. PhonePlaced'
    <3>1. calm' \in BOOLEAN
      BY <1>0, <1>7, Zenon DEF PhonePlaced
    <3> QED
      BY <1>0, <1>1, <1>5, <1>7, <3>1, Zenon DEF PhonePlaced
  <2>2. PhoneShape'
    BY <1>0, <1>1, <1>3, <1>7, Zenon DEF PhoneShape
  <2>3. Cur' = Cur /\ Total' = Total /\ Disk' = Disk
    BY <1>6, <1>7, Zenon DEF Cur, Total, Disk
  <2>4. Covered0'
    BY <1>0, <1>1, <1>6, <1>7, <2>3 DEF Covered0
  <2>5. Calm0'
    <3>1. CASE calm' = FALSE
      BY <3>1, Zenon DEF Calm0
    <3>2. CASE calm' = calm /\ (eng.day = 0 \/ ~eng.dirty)
      <4>1. ~eng.dirty
        BY <1>0, <3>2, Zenon DEF PhoneShape
      <4>2. pc' # "read"
        BY <1>1
      <4> QED
        BY <1>0, <1>1, <1>7, <2>3, <3>2, <4>1, <4>2, Zenon DEF Calm0
    <3> QED
      BY <1>7, <3>1, <3>2
  <2>6. Alerts0'
    BY <1>0, <1>1, <1>7, Zenon DEF Alerts0, Announced
  <2> QED
    BY <2>1, <2>2, <2>4, <2>5, <2>6, Zenon DEF PhoneInv
<1>8. CASE /\ eng.day # 0 /\ dayFile' = [dayFile EXCEPT ![eng.day] = eng.val]
           /\ ahead' = ahead + (eng.val - dayFile[eng.day])
           /\ eng' = [eng EXCEPT !.dirty = FALSE] /\ calm' = calm
  <2>1. PICK k \in 1 .. PuDays, v \in Nat : k = en.day /\ v = en.val
    BY <1>4, <1>8, PhoneParams DEF Engine
  <2>2. PICK x : x = [en EXCEPT !.dirty = FALSE]
    OBVIOUS
  <2>3. /\ x \in Engine /\ x.loaded = en.loaded /\ x.baseline = en.baseline /\ x.idx = en.idx /\ x.ctr = en.ctr
        /\ x.day = k /\ x.val = v /\ x.dirty = FALSE
    BY <2>1, <2>2 DEF Engine
  <2>4. PICK w : w = SavedBook(f, k, v)
    OBVIOUS
  <2>5. w \in Books /\ SumOf(w) \in Nat /\ SumOf(f) \in Nat /\ SumOf(w) + f[k] = SumOf(f) + v /\ w[k] = v
    BY <2>4, SavedSum, Zenon
  <2>6. eng' = x /\ dayFile' = w /\ ahead' = ahead + (v - f[k])
    BY <1>4, <1>8, <2>1, <2>2, <2>4, Zenon DEF SavedBook
  <2>7. f[k] \in Nat /\ f[k] <= v /\ k # 0
    <3>1. f[k] <= v
      BY <1>0, <1>4, <1>8, <2>1, Zenon DEF PhoneShape
    <3> QED
      BY <3>1, PhoneParams DEF Books
  <2>8. ahead \in Nat /\ Total \in Nat /\ Disk \in Nat /\ Disk <= Total /\ Total + f[k] = Disk + v
        /\ bytes \in Nat /\ twice \in Nat
    <3>1. Total + dayFile[eng.day] = Disk + eng.val
      BY <1>0, <1>8, PhoneSums
    <3> QED
      BY <1>0, <1>4, <2>1, <3>1, PhoneNumbers, Zenon DEF PhonePlaced
  <2>9. ahead' \in Nat
    BY <2>6, <2>7, <2>8
  <2>10. Disk' = SumOf(w) /\ Disk = SumOf(f)
    BY <1>4, <2>6, Zenon DEF Disk
  <2>11. Total' = Total
    <3>1. SumOf(Shown(x, w)) \in Nat /\ SumOf(Shown(x, w)) + w[k] = SumOf(w) + v
      BY <2>3, <2>5, <2>7, ShownSum, Zenon
    <3>2. Total' = SumOf(Shown(x, w))
      BY <2>6, Zenon DEF Total
    <3> QED
      BY <2>5, <2>7, <2>8, <2>10, <3>1, <3>2
  <2>12. PhonePlaced'
    BY <1>0, <1>1, <1>5, <1>8, <2>3, <2>5, <2>6, <2>9, Zenon DEF PhonePlaced
  <2>13. x.loaded /\ x.baseline
    BY <1>3, <1>4, <2>3, Zenon
  <2>14. PhoneShape'
    <3>1. w[x.day] <= x.val /\ w[x.day] = x.val
      BY <2>3, <2>5
    <3> QED
      BY <1>0, <1>1, <2>3, <2>6, <2>13, <3>1, Zenon DEF PhoneShape
  <2>15. Cur' = x /\ Cur = en
    BY <1>3, <1>4, <2>6, <2>13, Zenon DEF Cur
  <2>16. Covered0'
    <3>1. Total + Delta(en, kern.ctr, kern.idx) <= bytes + twice
      BY <1>0, <1>1, <2>15 DEF Covered0
    <3>2. Delta(x, kern.ctr, kern.idx) = Delta(en, kern.ctr, kern.idx)
      BY <2>3, Zenon DEF Delta
    <3>3. Disk + Delta(LoadState, kern.ctr, kern.idx) <= bytes + twice + ahead
      BY <1>0, Zenon DEF Covered0
    <3>4. Delta(LoadState, kern.ctr, kern.idx) \in Nat
      BY <1>0, PhoneNumbers
    <3>5. Disk' + Delta(LoadState, kern.ctr, kern.idx) <= bytes + twice + ahead'
      BY <2>5, <2>6, <2>7, <2>8, <2>10, <3>3, <3>4
    <3>6. pc' # "read"
      BY <1>1
    <3> QED
      BY <1>1, <1>6, <2>11, <2>15, <3>1, <3>2, <3>5, <3>6, Zenon DEF Covered0
  <2>17. Calm0'
    <3> SUFFICES ASSUME calm PROVE
        /\ x.idx = kern.idx /\ x.ctr <= kern.ctr /\ bytes <= Total + (kern.ctr - x.ctr)
        /\ stateFile.has => /\ stateFile.boot = kern.boot /\ stateFile.idx = kern.idx
                            /\ stateFile.ctr <= kern.ctr /\ bytes <= Disk' + (kern.ctr - stateFile.ctr)
        /\ ~x.dirty
      <4>1. pc' # "read"
        BY <1>1
      <4> QED
        BY <1>1, <1>8, <2>6, <2>11, <4>1, Zenon DEF Calm0
    <3>1. x.idx = kern.idx /\ x.ctr <= kern.ctr /\ bytes <= Total + (kern.ctr - x.ctr)
      BY <1>0, <1>3, <1>4, <2>3, Zenon DEF Calm0
    <3>2. kern.ctr \in Nat /\ stateFile.ctr \in Nat
      BY <1>0, PhoneNumbers
    <3>3. stateFile.has => /\ stateFile.boot = kern.boot /\ stateFile.idx = kern.idx
                           /\ stateFile.ctr <= kern.ctr /\ bytes <= Disk + (kern.ctr - stateFile.ctr)
      BY <1>0, Zenon DEF Calm0
    <3>4. Disk <= Disk' /\ Disk' \in Nat
      BY <2>5, <2>7, <2>10
    <3>5. stateFile.has => bytes <= Disk' + (kern.ctr - stateFile.ctr)
      BY <2>8, <3>2, <3>3, <3>4
    <3> QED
      BY <2>3, <3>1, <3>3, <3>5, Zenon
  <2>18. Alerts0'
    <3>1. Announced' = Announced
      BY <1>1, <1>3, <2>6, <2>13, Zenon DEF Announced
    <3> QED
      BY <1>0, <1>1, <3>1, Zenon DEF Alerts0
  <2> QED
    BY <2>12, <2>14, <2>16, <2>17, <2>18, Zenon DEF PhoneInv
<1> QED
  BY <1>2, <1>7, <1>8, Zenon

\* The readings are saved: they know of all that is in the files.
LEMMA SaveStateKeeps == ASSUME PhoneInv, SaveState PROVE PhoneInv'
<1>0. PhonePlaced /\ PhoneShape /\ Covered0 /\ Calm0 /\ Alerts0
  BY Zenon DEF PhoneInv
<1>1. /\ pc \in {"state", "saveFired"} /\ pc' = (IF pc = "state" THEN "alerts" ELSE "idle")
      /\ kern' = kern /\ date' = date /\ eng' = eng /\ puFired' = puFired /\ dayFile' = dayFile /\ raw' = raw
      /\ outs' = outs /\ alertsOut' = alertsOut /\ bytes' = bytes /\ twice' = twice /\ slips' = slips
      /\ calm' = calm
      /\ (stateFile' = StateOf /\ ahead' = 0) \/ (stateFile' = stateFile /\ ahead' = ahead)
  BY DEF SaveState
<1>2. eng.loaded /\ eng.baseline /\ pc # "read" /\ pc' # "read" /\ pc' \in Steps0
      /\ pc \in {"state", "alerts", "emit", "saveFired"}
  BY <1>0, <1>1 DEF PhoneShape, Steps0
<1>3. CASE stateFile' = stateFile /\ ahead' = ahead
  <2>1. PhonePlaced' /\ PhoneShape'
    BY <1>0, <1>1, <1>2, <1>3, Zenon DEF PhonePlaced, PhoneShape
  <2>2. Covered0' /\ Calm0'
    BY <1>0, <1>1, <1>2, <1>3, QuietKeeps, Zenon
  <2>3. Alerts0'
    BY <1>0, <1>1, <1>3, Zenon DEF Alerts0, Announced
  <2> QED
    BY <2>1, <2>2, <2>3, Zenon DEF PhoneInv
<1>4. CASE stateFile' = StateOf /\ ahead' = 0
  <2>1. PICK en \in Engine, kn \in NetDev, fi \in SUBSET Level : en = eng /\ kn = kern /\ fi = puFired
    BY <1>0 DEF PhonePlaced
  <2>2. PICK st : st = [has |-> TRUE, boot |-> kn.boot, idx |-> en.idx, ctr |-> en.ctr, fired |-> fi]
    OBVIOUS
  <2>3. /\ st \in Readings0 /\ st.has = TRUE /\ st.boot = kn.boot /\ st.idx = en.idx /\ st.ctr = en.ctr
    BY <2>2 DEF Readings0, Engine, NetDev
  <2>4. stateFile' = st
    BY <1>4, <2>1, <2>2, Zenon DEF StateOf
  <2>5. PICK ls, bt : ls = LoadState' /\ bt = kn.boot
    OBVIOUS
  <2>6. ls = LoadedOf(st, bt)
    BY <1>1, <2>1, <2>4, <2>5, Zenon DEF LoadState, LoadedOf, Blank
  <2>7. ls.baseline = st.has
    BY <2>3, <2>6, LoadOf, Zenon
  <2>8. ls.idx = st.idx /\ ls.ctr = st.ctr
    BY <2>3, <2>5, <2>6, LoadOf
  <2>9. PhonePlaced'
    <3>1. ahead' \in Nat
      BY <1>4
    <3> QED
      BY <1>0, <1>1, <1>2, <2>3, <2>4, <3>1, Zenon DEF PhonePlaced
  <2>10. PhoneShape'
    BY <1>0, <1>1, <1>2, Zenon DEF PhoneShape
  <2>11. Cur' = en /\ Cur = en /\ Total' = Total /\ Disk' = Disk
    BY <1>1, <1>2, <2>1, Zenon DEF Cur, Total, Disk
  <2>12. Covered0'
    <3>1. Total + Delta(en, kern.ctr, kern.idx) <= bytes + twice
      BY <1>0, <1>2, <2>11, Zenon DEF Covered0
    <3>2. Delta(ls, kern.ctr, kern.idx) = Delta(en, kern.ctr, kern.idx)
      BY <1>2, <2>1, <2>3, <2>7, <2>8, Zenon DEF Delta
    <3>3. /\ Delta(Cur, kern.ctr, kern.idx) \in Nat /\ Total \in Nat /\ Disk \in Nat /\ Disk <= Total
          /\ bytes \in Nat /\ twice \in Nat
      BY <1>0, PhoneNumbers, Zenon DEF PhonePlaced
    <3>4. Disk + Delta(en, kern.ctr, kern.idx) <= bytes + twice + 0
      BY <2>11, <3>1, <3>3
    <3> QED
      BY <1>1, <1>2, <1>4, <2>5, <2>11, <3>1, <3>2, <3>4, Zenon DEF Covered0
  <2>13. Calm0'
    <3> SUFFICES ASSUME calm PROVE
        /\ eng.idx = kern.idx /\ eng.ctr <= kern.ctr /\ bytes <= Total + (kern.ctr - eng.ctr)
        /\ st.boot = kern.boot /\ st.idx = kern.idx
        /\ st.ctr <= kern.ctr /\ bytes <= Disk + (kern.ctr - st.ctr)
        /\ ~eng.dirty
      BY <1>1, <1>2, <2>4, <2>11, Zenon DEF Calm0
    <3>1. /\ eng.idx = kern.idx /\ eng.ctr <= kern.ctr /\ bytes <= Total + (kern.ctr - eng.ctr)
          /\ ~eng.dirty
      BY <1>0, <1>2, Zenon DEF Calm0
    <3>2. Total = Disk
      BY <1>0, <3>1, PhoneSums, Zenon
    <3> QED
      BY <2>1, <2>3, <3>1, <3>2, Zenon
  <2>14. Alerts0'
    BY <1>0, <1>1, <1>2, Zenon DEF Alerts0, Announced
  <2> QED
    BY <2>9, <2>10, <2>12, <2>13, <2>14, Zenon DEF PhoneInv
<1> QED
  BY <1>1, <1>3, <1>4, Zenon

\* A tick that books d on a day, with the reading r of interface i: whether it leaves
\* the day it was on, and what becomes of the files, of ahead and of the engine.
Turns(cu, day, d) == d > 0 /\ cu.day # day /\ cu.dirty
FilesThen(cu, f, day, d, ok) ==
  IF Turns(cu, day, d) /\ ok THEN [f EXCEPT ![cu.day] = cu.val] ELSE f
AheadThen(cu, f, day, d, ok, ah) ==
  IF Turns(cu, day, d) /\ ok THEN ah + (cu.val - f[cu.day]) ELSE ah
EngineThen(cu, f, day, d, i, r) ==
  IF d = 0 THEN [cu EXCEPT !.idx = i, !.ctr = r, !.baseline = TRUE]
  ELSE [cu EXCEPT !.idx = i, !.ctr = r, !.baseline = TRUE, !.day = day,
                  !.val = d + (IF d > 0 /\ cu.day # day THEN f[day] ELSE cu.val), !.dirty = TRUE]
\* The book of a day shows no less than its file.
Shows(e, f) ==
  /\ e.day # 0 => f[e.day] <= e.val /\ (e.dirty \/ f[e.day] = e.val)
  /\ e.dirty => e.day # 0

\* The sums are right: t was shown before, d is booked, ok says whether a save succeeded.
BooksRight(cu, day, f, ah, t, d, i, r, ok, g, ag, x) ==
  /\ x \in Engine /\ x.loaded = TRUE /\ x.baseline = TRUE /\ x.idx = i /\ x.ctr = r
  /\ Shows(x, g)
  /\ g \in Books /\ ag \in Nat /\ SumOf(g) \in Nat /\ SumOf(f) \in Nat
  /\ SumOf(g) + ah = SumOf(f) + ag /\ ah <= ag
  /\ SumOf(Shown(x, g)) \in Nat /\ t \in Nat /\ SumOf(Shown(x, g)) <= t + d
  /\ ok => SumOf(Shown(x, g)) = t + d
  /\ d = 0 => ok /\ g = f /\ ag = ah

\* When a tick books.
Books0(cu, day, f, ah, d, i, r, ok) ==
  /\ cu \in Engine /\ f \in Books /\ day \in 1 .. PuDays /\ d \in Nat /\ i \in Nat /\ r \in Nat
  /\ ah \in Nat /\ ok \in BOOLEAN
  /\ cu.loaded = TRUE /\ Shows(cu, f) /\ (ok \/ Turns(cu, day, d))

\* What a tick that books leaves: the difference d is in the book of the day, unless a
\* book of another day could not be saved; what went to a file went to ahead.
LEMMA BookSums ==
  ASSUME NEW cu, NEW day, NEW f, NEW ah, NEW d, NEW i, NEW r, NEW ok, Books0(cu, day, f, ah, d, i, r, ok)
  PROVE  BooksRight(cu, day, f, ah, SumOf(Shown(cu, f)), d, i, r, ok, FilesThen(cu, f, day, d, ok),
                    AheadThen(cu, f, day, d, ok, ah), EngineThen(cu, f, day, d, i, r))
<1> SUFFICES ASSUME cu \in Engine, f \in Books, day \in 1 .. PuDays, d \in Nat, i \in Nat, r \in Nat,
                    ah \in Nat, ok \in BOOLEAN, cu.loaded = TRUE, Shows(cu, f), ok \/ Turns(cu, day, d),
                    NEW t, t = SumOf(Shown(cu, f)), NEW g, g = FilesThen(cu, f, day, d, ok),
                    NEW ag, ag = AheadThen(cu, f, day, d, ok, ah), NEW x, x = EngineThen(cu, f, day, d, i, r)
             PROVE  BooksRight(cu, day, f, ah, t, d, i, r, ok, g, ag, x)
  BY Zenon DEF Books0
<1>0. /\ PuDays \in Nat /\ day \in Nat /\ day # 0 /\ day \in 0 .. PuDays
      /\ cu.day \in 0 .. PuDays /\ cu.val \in Nat /\ cu.dirty \in BOOLEAN /\ f[day] \in Nat
  BY PhoneParams DEF Engine, Books
<1>1. /\ t \in Nat /\ SumOf(f) \in Nat /\ (cu.day = 0 => t = SumOf(f))
      /\ cu.day # 0 => cu.day \in 1 .. PuDays /\ t + f[cu.day] = SumOf(f) + cu.val
  BY ShownSum, Zenon
<1>2. cu.day # 0 => f[cu.day] \in Nat
  BY <1>1 DEF Books
<1>3. CASE d = 0
  <2>1. x = [cu EXCEPT !.idx = i, !.ctr = r, !.baseline = TRUE]
    BY <1>3, Zenon DEF EngineThen
  <2>2. /\ x \in Engine /\ x.loaded = TRUE /\ x.baseline = TRUE /\ x.idx = i /\ x.ctr = r
        /\ x.day = cu.day /\ x.val = cu.val /\ x.dirty = cu.dirty
    BY <2>1 DEF Engine
  <2>3. ~(d > 0)
    BY <1>3
  <2>4. ok /\ g = f /\ ag = ah
    BY <2>3, Zenon DEF Turns, FilesThen, AheadThen
  <2>5. Shown(x, f) = Shown(cu, f)
    <3>1. x.day = cu.day /\ x.val = cu.val
      BY <2>2, Zenon
    <3> QED
      BY <3>1, Zenon DEF Shown
  <2>6. SumOf(Shown(x, g)) = t
    BY <2>4, <2>5, Zenon
  <2>7. t + d = t /\ t <= t /\ ah <= ah
    BY <1>1, <1>3
  <2>8. Shows(x, g)
    BY <2>2, <2>4, Zenon DEF Shows
  <2> QED
    BY <1>1, <2>2, <2>4, <2>6, <2>7, <2>8, Zenon DEF BooksRight
<1>4. CASE d # 0
  <2>0. d > 0
    BY <1>4
  <2>1. PICK v \in Nat : v = d + (IF cu.day # day THEN f[day] ELSE cu.val)
    BY <1>0
  <2>2. x = [cu EXCEPT !.idx = i, !.ctr = r, !.baseline = TRUE, !.day = day, !.val = v, !.dirty = TRUE]
    BY <1>4, <2>0, <2>1, Zenon DEF EngineThen
  <2>3. /\ x \in Engine /\ x.loaded = TRUE /\ x.baseline = TRUE /\ x.idx = i /\ x.ctr = r
        /\ x.day = day /\ x.val = v /\ x.dirty = TRUE
    BY <1>0, <2>2 DEF Engine
  <2>4. /\ g \in Books /\ ag \in Nat /\ SumOf(g) \in Nat /\ SumOf(g) + ah = SumOf(f) + ag /\ ah <= ag
        /\ (cu.day # day => SumOf(g) <= t /\ g[day] = f[day] /\ (ok => SumOf(g) = t))
        /\ (cu.day = day => g = f /\ ok)
    <3>1. CASE cu.day = day
      <4>1. g = f /\ ag = ah /\ ok
        BY <3>1, Zenon DEF Turns, FilesThen, AheadThen
      <4>2. ah <= ah
        OBVIOUS
      <4> QED
        BY <1>1, <3>1, <4>1, <4>2, Zenon
    <3>2. CASE cu.day # day /\ ~cu.dirty
      <4>1. g = f /\ ag = ah /\ ok
        BY <3>2, Zenon DEF Turns, FilesThen, AheadThen
      <4>2. cu.day # 0 => f[cu.day] = cu.val
        BY <3>2, Zenon DEF Shows
      <4>3. SumOf(f) = t
        BY <1>0, <1>1, <1>2, <4>2
      <4>4. ah <= ah /\ t <= t
        BY <1>1
      <4> QED
        BY <1>1, <3>2, <4>1, <4>3, <4>4, Zenon
    <3>3. CASE cu.day # day /\ cu.dirty /\ ok
      <4>1. cu.day # 0
        BY <3>3, Zenon DEF Shows
      <4>2. PICK k \in 1 .. PuDays, u \in Nat : k = cu.day /\ u = cu.val
        BY <1>0, <1>1, <4>1
      <4>3. g = SavedBook(f, k, u) /\ ag = ah + (u - f[k])
        BY <2>0, <3>3, <4>2, Zenon DEF SavedBook, Turns, FilesThen, AheadThen
      <4>4. g \in Books /\ SumOf(g) \in Nat /\ SumOf(g) + f[k] = SumOf(f) + u
        <5>1. /\ SavedBook(f, k, u) \in Books /\ SumOf(SavedBook(f, k, u)) \in Nat
              /\ SumOf(SavedBook(f, k, u)) + f[k] = SumOf(f) + u
          BY SavedSum
        <5> QED
          BY <4>3, <5>1, Zenon
      <4>5. f[k] <= u /\ f[k] \in Nat /\ t + f[k] = SumOf(f) + u
        BY <1>1, <1>2, <4>1, <4>2, Zenon DEF Shows
      <4>6. ag \in Nat /\ ah <= ag /\ SumOf(g) + ah = SumOf(f) + ag /\ SumOf(g) = t
        BY <1>1, <4>3, <4>4, <4>5
      <4>7. g[day] = f[day]
        <5>1. day # k
          BY <3>3, <4>2, Zenon
        <5>2. SavedBook(f, k, u)[day] = f[day]
          BY <5>1, SavedOther
        <5> QED
          BY <4>3, <5>2, Zenon
      <4>8. t <= t
        BY <1>1
      <4> QED
        BY <1>1, <3>3, <4>4, <4>6, <4>7, <4>8, Zenon
    <3>4. CASE cu.day # day /\ cu.dirty /\ ~ok
      <4>1. g = f /\ ag = ah
        BY <3>4, Zenon DEF FilesThen, AheadThen
      <4>2. cu.day # 0 => f[cu.day] <= cu.val
        BY Zenon DEF Shows
      <4>3. SumOf(f) <= t
        BY <1>0, <1>1, <1>2, <4>2
      <4> QED
        BY <1>1, <3>4, <4>1, <4>3
    <3> QED
      BY <1>0, <3>1, <3>2, <3>3, <3>4, Zenon
  <2>5. SumOf(Shown(x, g)) \in Nat /\ SumOf(Shown(x, g)) + g[day] = SumOf(g) + v
    <3>1. x.day # 0
      BY <1>0, <2>3, Zenon
    <3>2. SumOf(Shown(x, g)) \in Nat /\ SumOf(Shown(x, g)) + g[x.day] = SumOf(g) + x.val
      BY <2>3, <2>4, <3>1, ShownSum
    <3> QED
      BY <2>3, <3>2, Zenon
  <2>6. g[day] \in Nat
    BY <2>4 DEF Books
  <2>7. CASE cu.day = day
    <3>1. v = d + cu.val /\ g = f /\ ok /\ t + f[day] = SumOf(f) + cu.val /\ f[day] <= cu.val
      BY <1>0, <1>1, <2>1, <2>4, <2>7, Zenon DEF Shows
    <3>2. SumOf(Shown(x, g)) = t + d /\ g[day] <= v
      <4>1. PICK s1 \in Nat, s2 \in Nat, fd \in Nat, u \in Nat, tt \in Nat :
              s1 = SumOf(Shown(x, g)) /\ s2 = SumOf(f) /\ fd = f[day] /\ u = cu.val /\ tt = t
        BY <1>0, <1>1, <2>5, Zenon
      <4>2. s1 + fd = s2 + v /\ v = d + u /\ tt + fd = s2 + u /\ fd <= u
        BY <1>1, <2>5, <3>1, <4>1, Zenon
      <4>3. s1 = tt + d /\ fd <= v
        BY <4>2
      <4> QED
        BY <3>1, <4>1, <4>3, Zenon
    <3>3. t + d <= t + d
      BY <1>1
    <3> QED
      BY <1>0, <1>1, <1>4, <2>3, <2>4, <2>5, <3>1, <3>2, <3>3, Zenon DEF Shows, BooksRight
  <2>8. CASE cu.day # day
    <3>1. v = d + f[day] /\ SumOf(g) <= t /\ g[day] = f[day] /\ (ok => SumOf(g) = t)
      BY <2>1, <2>4, <2>8, Zenon
    <3>2. SumOf(Shown(x, g)) = SumOf(g) + d /\ g[day] <= v
      BY <1>0, <2>4, <2>5, <3>1
    <3>3. SumOf(Shown(x, g)) <= t + d
      BY <1>1, <2>4, <3>1, <3>2
    <3>4. ok => SumOf(Shown(x, g)) = t + d
      BY <3>1, <3>2, Zenon
    <3> QED
      BY <1>0, <1>1, <1>4, <2>3, <2>4, <2>5, <3>2, <3>3, <3>4, Zenon DEF Shows, BooksRight
  <2> QED
    BY <2>7, <2>8
<1> QED
  BY <1>3, <1>4

\* A tick books what it has read.
LEMMA BookKeeps == ASSUME PhoneInv, BookDelta PROVE PhoneInv'
<1>0. PhonePlaced /\ PhoneShape /\ Covered0 /\ Calm0 /\ Alerts0
  BY Zenon DEF PhoneInv
<1>1. PICK c \in Nat, i \in Nat, r \in Nat, b \in Nat, tw \in Nat, ah \in Nat :
        c = kern.ctr /\ i = kern.idx /\ r = raw /\ b = bytes /\ tw = twice /\ ah = ahead
  BY <1>0, PhoneNumbers, Zenon DEF PhonePlaced
<1>2. PICK cu \in Engine : /\ cu = Cur /\ cu.day = eng.day /\ cu.dirty = eng.dirty /\ cu.loaded = TRUE
                          /\ (eng.day # 0 => cu = eng) /\ (eng.loaded => cu = eng) /\ (~eng.loaded => cu = LoadState)
  <2>1. PICK cu : cu = Cur
    OBVIOUS
  <2> QED
    BY <1>0, <2>1, CurTyped, Zenon
<1>3. PICK f \in Books, day \in 1 .. PuDays : f = dayFile /\ day = date
  BY <1>0, Zenon DEF PhonePlaced
<1>4. PICK d \in Nat : d = Delta(cu, r, i)
  BY DeltaOf
<1>5. PICK t \in Nat : t = Total
  BY <1>0, PhoneSums
<1>6. t = SumOf(Shown(cu, f))
  BY <1>0, <1>2, <1>3, <1>5, CurShows, Zenon
<1>7. PICK ok \in BOOLEAN :
      /\ ok \/ Turns(cu, day, d)
      /\ dayFile' = FilesThen(cu, f, day, d, ok)
      /\ ahead' = AheadThen(cu, f, day, d, ok, ah)
      /\ calm' = (calm /\ ok)
  <2>1. cu = IF eng.loaded THEN eng ELSE LoadState
    BY <1>2, Zenon DEF Cur
  <2> QED
    BY <1>1, <1>3, <1>4, <2>1, Zenon DEF BookDelta, Turns, FilesThen, AheadThen
<1>8. /\ pc = "read" /\ pc' = "flush" /\ raw' = 0
      /\ puFired' = (IF eng.loaded THEN puFired ELSE stateFile.fired)
      /\ kern' = kern /\ date' = date /\ stateFile' = stateFile /\ outs' = outs /\ alertsOut' = alertsOut
      /\ twice' = twice /\ slips' = slips
  BY Zenon DEF BookDelta
<1>9. /\ eng' = EngineThen(cu, f, day, d, i, r)
      /\ bytes' = IF cu.baseline THEN b ELSE t + Pending(r)
  <2>1. cu = IF eng.loaded THEN eng ELSE LoadState
    BY <1>2, Zenon DEF Cur
  <2> QED
    BY <1>1, <1>3, <1>4, <1>5, <2>1, Zenon DEF BookDelta, EngineThen, Booked, LoadedDay
<1>10. PICK g, ag, x : g = dayFile' /\ ag = ahead' /\ x = eng'
  OBVIOUS
<1>11. Shows(cu, f)
  BY <1>0, <1>2, <1>3, Zenon DEF Shows, PhoneShape
<1>12. /\ x \in Engine /\ x.loaded = TRUE /\ x.baseline = TRUE /\ x.idx = i /\ x.ctr = r
       /\ Shows(x, g)
       /\ g \in Books /\ ag \in Nat /\ SumOf(g) \in Nat /\ SumOf(f) \in Nat
       /\ SumOf(g) + ah = SumOf(f) + ag /\ ah <= ag
       /\ SumOf(Shown(x, g)) \in Nat /\ SumOf(Shown(x, g)) <= t + d
       /\ ok => SumOf(Shown(x, g)) = t + d
       /\ d = 0 => ok /\ g = f /\ ag = ah
  <2>1. g = FilesThen(cu, f, day, d, ok) /\ ag = AheadThen(cu, f, day, d, ok, ah) /\ x = EngineThen(cu, f, day, d, i, r)
    BY <1>7, <1>9, <1>10, Zenon
  <2>2. cu.loaded = TRUE /\ (ok \/ Turns(cu, day, d))
    BY <1>2, <1>7, Zenon
  <2>3. BooksRight(cu, day, f, ah, SumOf(Shown(cu, f)), d, i, r, ok, FilesThen(cu, f, day, d, ok),
                   AheadThen(cu, f, day, d, ok, ah), EngineThen(cu, f, day, d, i, r))
    <3>1. Books0(cu, day, f, ah, d, i, r, ok)
      BY <1>11, <2>2, Zenon DEF Books0
    <3> QED
      BY <3>1, BookSums, Zenon
  <2>4. BooksRight(cu, day, f, ah, t, d, i, r, ok, g, ag, x)
    BY <1>6, <2>1, <2>3, Zenon
  <2> QED
    BY <2>4, Zenon DEF BooksRight
<1>13. PICK T1 \in Nat, D1 \in Nat, D \in Nat, bb \in Nat :
         T1 = Total' /\ D1 = Disk' /\ D = Disk /\ bb = bytes'
  <2>1. Total' = SumOf(Shown(x, g)) /\ Disk' = SumOf(g) /\ Disk = SumOf(f)
    BY <1>3, <1>10, Zenon DEF Total, Disk
  <2>2. Pending(r) \in Nat
    BY <1>1 DEF Pending
  <2>3. t + Pending(r) \in Nat
    BY <2>2
  <2>4. bytes' \in Nat
    BY <1>9, <2>3, Zenon
  <2> QED
    BY <1>12, <2>1, <2>4, Zenon
<1>14. /\ D1 + ah = D + ag /\ T1 <= t + d /\ (ok => T1 = t + d) /\ (d = 0 => D1 = D /\ ag = ah) /\ D <= t /\ ag \in Nat
       /\ ah <= ag
  <2>1. Total' = SumOf(Shown(x, g)) /\ Disk' = SumOf(g) /\ Disk = SumOf(f)
    BY <1>3, <1>10, Zenon DEF Total, Disk
  <2>2. Disk <= Total
    BY <1>0, PhoneSums
  <2> QED
    BY <1>5, <1>12, <1>13, <2>1, <2>2, Zenon
<1>15. Alerts0' /\ puFired' \subseteq Level /\ outs' \subseteq puFired'
  BY <1>0, <1>8, <1>10, <1>12, ToldKeeps, Zenon
<1>16. PhonePlaced'
  <2>1. pc' \in Steps0 /\ raw' \in Nat
    BY <1>8 DEF Steps0
  <2>2. outs' \subseteq Level
    BY <1>15
  <2>3. calm' \in BOOLEAN
    BY <1>0, <1>7, Zenon DEF PhonePlaced
  <2>4. bytes' \in Nat
    BY <1>13, Zenon
  <2> QED
    BY <1>0, <1>8, <1>10, <1>12, <1>15, <2>1, <2>2, <2>3, <2>4, Zenon DEF PhonePlaced
<1>17. PhoneShape'
  BY <1>8, <1>10, <1>12, <1>15, Zenon DEF PhoneShape, Shows
<1>18. LoadState' = LoadState /\ Cur' = x
  BY <1>8, <1>10, <1>12, Zenon DEF LoadState, Cur
<1>19. PICK ls \in Engine : ls = LoadState /\ ls.baseline = stateFile.has
  <2>1. PICK ls : ls = LoadState
    OBVIOUS
  <2> QED
    BY <1>0, <2>1, CurTyped, Zenon
<1>20. ~cu.baseline => ~eng.loaded /\ cu = ls /\ ~stateFile.has
  BY <1>0, <1>2, <1>19, Zenon DEF PhoneShape
<1>21. /\ t + d + Past(c, r) <= b + tw /\ (c < r => r <= tw)
       /\ D + Delta(ls, c, i) <= b + tw + ah
  BY <1>0, <1>1, <1>2, <1>4, <1>5, <1>8, <1>13, <1>19, Zenon DEF Covered0
<1>22. /\ Past(c, r) \in Nat /\ (r <= c => Past(c, r) = c - r) /\ (c < r => Past(c, r) = c)
       /\ Delta(x, c, i) = Past(c, r) /\ Delta(ls, c, i) \in Nat /\ (~ls.baseline => Delta(ls, c, i) = 0)
       /\ (~cu.baseline => d = 0)
  <2>1. Past(c, r) \in Nat /\ (r <= c => Past(c, r) = c - r) /\ (c < r => Past(c, r) = c)
    BY PastOf
  <2>2. Delta(x, c, i) = Past(c, r)
    BY <1>12, DeltaOf
  <2>3. Delta(ls, c, i) \in Nat /\ (~ls.baseline => Delta(ls, c, i) = 0)
    BY DeltaOf
  <2>4. ~cu.baseline => d = 0
    BY <1>4, Zenon DEF Delta
  <2> QED
    BY <2>1, <2>2, <2>3, <2>4, Zenon
<1>23. (r <= c => Pending(r) = c - r) /\ (c < r => Pending(r) = 0)
  BY <1>1 DEF Pending
<1>24. Covered0'
  <2>1. T1 + Past(c, r) <= bb + tw /\ D1 + Delta(ls, c, i) <= bb + tw + ag
    <3>1. CASE cu.baseline
      <4>1. bb = b
        BY <1>9, <1>13, <3>1, Zenon
      <4> QED
        BY <1>14, <1>21, <1>22, <4>1
    <3>2. CASE ~cu.baseline
      <4>1. bb = t + Pending(r) /\ d = 0 /\ Delta(ls, c, i) = 0
        BY <1>9, <1>13, <1>20, <1>22, <3>2, Zenon
      <4> QED
        BY <1>14, <1>21, <1>22, <1>23, <4>1
    <3> QED
      BY <3>1, <3>2
  <2>2. pc' # "read"
    BY <1>8
  <2> QED
    BY <1>1, <1>8, <1>10, <1>13, <1>18, <1>19, <1>22, <2>1, <2>2, Zenon DEF Covered0
<1>25. Calm0'
  <2> SUFFICES ASSUME calm, ok PROVE
      /\ r <= c /\ bb <= T1 + (c - r)
      /\ stateFile.has => /\ stateFile.boot = kern.boot /\ stateFile.idx = kern.idx
                          /\ stateFile.ctr <= kern.ctr /\ bb <= D1 + (kern.ctr - stateFile.ctr)
    <3>1. pc' \notin {"read", "state", "alerts", "emit", "saveFired"}
      BY <1>8
    <3> QED
      BY <1>1, <1>7, <1>8, <1>10, <1>12, <1>13, <3>1, Zenon DEF Calm0
  <2>1. r <= c /\ (cu.baseline => cu.ctr <= r)
    BY <1>0, <1>1, <1>2, <1>8, Zenon DEF Calm0
  <2>2. stateFile.has => /\ stateFile.boot = kern.boot /\ stateFile.idx = kern.idx
                         /\ stateFile.ctr <= kern.ctr /\ b <= D + (kern.ctr - stateFile.ctr)
    BY <1>0, <1>1, <1>13, Zenon DEF Calm0
  <2>3. cu.baseline => cu.idx = i /\ b <= t + (c - cu.ctr)
    <3> SUFFICES ASSUME cu.baseline PROVE cu.idx = i /\ b <= t + (c - cu.ctr)
      OBVIOUS
    <3>1. CASE eng.loaded
      BY <1>0, <1>1, <1>2, <1>5, <3>1, Zenon DEF Calm0
    <3>2. CASE ~eng.loaded
      <4>1. cu = ls /\ stateFile.has
        BY <1>2, <1>19, <3>2, Zenon
      <4>2. ls.idx = stateFile.idx /\ ls.ctr = stateFile.ctr
        BY <1>0, <1>19, <2>2, <4>1, CurTyped, Zenon
      <4>3. cu.idx = i /\ b <= D + (c - cu.ctr)
        BY <1>1, <2>2, <4>1, <4>2, Zenon
      <4>4. cu.ctr \in Nat
        BY DEF Engine
      <4> QED
        BY <1>14, <4>3, <4>4
    <3> QED
      BY <3>1, <3>2
  <2>4. bb <= T1 + (c - r)
    <3>1. CASE cu.baseline
      <4>1. bb = b
        BY <1>9, <1>13, <3>1, Zenon
      <4>2. d = Past(r, cu.ctr)
        BY <1>4, <2>3, <3>1, DeltaOf
      <4>3. cu.ctr \in Nat
        BY DEF Engine
      <4>4. d = r - cu.ctr
        BY <2>1, <3>1, <4>2, <4>3 DEF Past
      <4> QED
        BY <1>14, <2>1, <2>3, <3>1, <4>1, <4>3, <4>4
    <3>2. CASE ~cu.baseline
      <4>1. bb = t + Pending(r) /\ d = 0
        BY <1>9, <1>13, <1>22, <3>2, Zenon
      <4> QED
        BY <1>14, <1>23, <2>1, <4>1
    <3> QED
      BY <3>1, <3>2
  <2>5. stateFile.has => bb <= D1 + (kern.ctr - stateFile.ctr)
    <3> SUFFICES ASSUME stateFile.has PROVE bb <= D1 + (kern.ctr - stateFile.ctr)
      OBVIOUS
    <3>1. cu.baseline
      BY <1>20, Zenon
    <3>2. bb = b
      BY <1>9, <1>13, <3>1, Zenon
    <3>3. kern.ctr \in Nat /\ stateFile.ctr \in Nat
      BY <1>0, PhoneNumbers
    <3> QED
      BY <1>14, <2>2, <3>2, <3>3
  <2> QED
    BY <2>1, <2>2, <2>4, <2>5
<1> QED
  BY <1>15, <1>16, <1>17, <1>24, <1>25, Zenon DEF PhoneInv

\* Every step keeps the invariant.
LEMMA PhoneStep == PhoneInv /\ [PhoneNext]_phoneVars => PhoneInv'
<1> SUFFICES ASSUME PhoneInv, [PhoneNext]_phoneVars PROVE PhoneInv'
  OBVIOUS
<1>1. kern \in NetDev
  BY Zenon DEF PhoneInv, PhonePlaced
<1>2. CASE ProcessDies
  <2>1. PICK k \in NetDev : k = kern
    BY <1>1
  <2>2. /\ Dies /\ kern' = k /\ date' = date /\ stateFile' = stateFile /\ dayFile' = dayFile
        /\ alertsOut' = alertsOut /\ bytes' = bytes /\ calm' = calm
    BY <1>2, <2>1 DEF ProcessDies
  <2> QED
    BY <2>1, <2>2, DiesKeeps, Zenon
<1>3. CASE Reboots
  <2>1. PICK k : k = [boot |-> kern.boot + 1, idx |-> 1, ctr |-> 0]
    OBVIOUS
  <2>2. k \in NetDev /\ k.ctr = 0
    BY <1>1, <2>1 DEF NetDev
  <2>3. /\ Dies /\ kern' = k /\ date' = date /\ stateFile' = stateFile /\ dayFile' = dayFile
        /\ alertsOut' = alertsOut /\ bytes' = bytes /\ calm' = FALSE
    BY <1>3, <2>1 DEF Reboots
  <2> QED
    BY <2>2, <2>3, DiesKeeps, Zenon
<1>4. CASE UNCHANGED phoneVars
  <2>1. /\ kern' = kern /\ date' = date /\ eng' = eng /\ puFired' = puFired /\ stateFile' = stateFile
        /\ dayFile' = dayFile /\ pc' = pc /\ raw' = raw /\ outs' = outs /\ alertsOut' = alertsOut
        /\ bytes' = bytes /\ ahead' = ahead /\ twice' = twice /\ slips' = slips /\ calm' = calm
    BY <1>4 DEF phoneVars
  <2>2. LoadState' = LoadState
    BY <2>1, Zenon DEF LoadState
  <2>3. Cur' = Cur /\ Total' = Total /\ Disk' = Disk /\ Announced' = Announced
    BY <2>1, <2>2, Zenon DEF Cur, Total, Disk, Announced
  <2>4. PhonePlaced /\ PhoneShape /\ Covered0 /\ Calm0 /\ Alerts0
    BY Zenon DEF PhoneInv
  <2>5. PhonePlaced' /\ PhoneShape'
    BY <2>1, <2>4, Zenon DEF PhonePlaced, PhoneShape
  <2>6. Covered0'
    BY <2>1, <2>2, <2>3, <2>4, Zenon DEF Covered0
  <2>7. Calm0' /\ Alerts0'
    BY <2>1, <2>3, <2>4, Zenon DEF Calm0, Alerts0
  <2> QED
    BY <2>5, <2>6, <2>7, Zenon DEF PhoneInv
<1> QED
  BY <1>2, <1>3, <1>4, CarryKeeps, RebuildKeeps, IdleKeeps, PhoneCheckKeeps, EmitKeeps, ReadKeeps, JumpKeeps,
     BookKeeps, SaveDayKeeps, SaveStateKeeps, Zenon DEF PhoneNext

-----------------------------------------------------------------------------
(* The three books, each by itself and in the suite.                       *)

\* Nothing is booked further back than the tolerance and the saving interval, no writer
\* books over a jump of the clock, and while httpd does not restart a wrong mark is
\* given up in time, however the clock is set (clock_guard.go).  After a restart that
\* follows a failed write of the mark, bookings are held against the mark in the file.
THEOREM ClockBooks == ClockSpec => [](BooksForward /\ NoLump /\ HealsInTime)
<1>1. ClockInv => BooksForward /\ NoLump /\ HealsInTime
  BY ClockTyped, Zenon
<1>2. ClockInv /\ [ClockNext]_clockVars => ClockInv'
  BY ClockStep
<1>3. ClockInit => ClockInv
  BY ClockStart
<1> QED
  BY <1>1, <1>2, <1>3, PTL DEF ClockSpec

\* The phone's books never show more than it carried but for what a death between the
\* two saves, or an interface rebuilt between the two reads, counts again; nothing
\* is missing while no counter, clock or write failed; and an alert is repeated only
\* after a death between its append and the ledger (phone_usage.go).
THEOREM PhoneBooks == PhoneSpec => [](NothingInvented /\ NothingLost /\ AlertedOnce)
<1>1. PhoneInv => NothingInvented /\ NothingLost /\ AlertedOnce
  BY PhoneTyped, Zenon
<1>2. PhoneInv /\ [PhoneNext]_phoneVars => PhoneInv'
  BY PhoneStep
<1>3. PhoneInit => PhoneInv
  BY PhoneStart
<1> QED
  BY <1>1, <1>2, <1>3, PTL DEF PhoneSpec

\* Every credited minute is in the file, pending, or lost with a kill, on its day; no day
\* that is over stays in memory unless a write failed; and splitting at midnight
\* neither makes nor loses a minute (online_minutes.go).
THEOREM OnlineBooks == OnlineSpec => [](MinutesKept /\ OldDaysWritten /\ SplitExact)
<1>1. OnlineInv => MinutesKept /\ OldDaysWritten /\ SplitExact
  BY OnlineTyped, Zenon
<1>2. OnlineInv /\ [OnlineNext]_onlineVars => OnlineInv'
  BY OnlineStep
<1>3. OnlineInit => OnlineInv
  BY OnlineStart
<1> QED
  BY <1>1, <1>2, <1>3, PTL DEF OnlineSpec

BookInv ==
  /\ part = "clock"  => ClockInv
  /\ part = "phone"  => PhoneInv
  /\ part = "online" => OnlineInv

LEMMA BookStep == ASSUME BookInv, [Next]_vars PROVE BookInv'
<1>1. CASE UNCHANGED vars
  <2>1. UNCHANGED <<part, clockVars, phoneVars, onlineVars>>
    BY <1>1, Zenon DEF vars
  <2> QED
    BY <2>1, ClockStep, PhoneStep, OnlineStep DEF BookInv
<1>2. ASSUME NEW p \in Parts, Only(p), p \notin {"clock", "phone", "online"} PROVE BookInv'
  BY <1>2 DEF Only, BookInv
<1>3. CASE Only("clock") /\ ClockNext
  BY <1>3, ClockStep DEF Only, BookInv
<1>4. CASE Only("phone") /\ PhoneNext
  BY <1>4, PhoneStep DEF Only, BookInv
<1>5. CASE Only("online") /\ OnlineNext
  BY <1>5, OnlineStep DEF Only, BookInv
<1> QED
  BY <1>1, <1>2, <1>3, <1>4, <1>5 DEF Next, Parts

\* Bytes, minutes and days are booked once, whatever the clock, a restart or a failed
\* write does in between (clock_guard.go, phone_usage.go, online_minutes.go).
THEOREM BooksStay == Spec => []BooksKept
<1>1. Init => BookInv
  BY ClockStart, PhoneStart, OnlineStart, Zenon DEF Init, BookInv
<1>2. BookInv /\ [Next]_vars => BookInv'
  BY BookStep
<1>3. BookInv => BooksKept
  BY ClockTyped, PhoneTyped, OnlineTyped, Zenon DEF BookInv, BooksKept
<1> QED
  BY <1>1, <1>2, <1>3, PTL DEF Spec
=============================================================================
