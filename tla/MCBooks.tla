------------------------------ MODULE MCBooks ------------------------------
(***************************************************************************)
(* Who may come in, what the user said, and what is booked: components of  *)
(* hnc_httpd side by side and without shared state; a behaviour is about   *)
(* one of them, part, and the others stand still.                          *)
(***************************************************************************)
EXTENDS Pairing, WebAccess, DnsForward, MacMerge, MacSuggest, RulePack,
        AlertStore, ClockGuard, PhoneUsage, OnlineMinutes

\* The host aw lies under w.
MCUps == [h \in {"w", "aw", "v", "u"} |-> IF h = "aw" THEN {"w"} ELSE {}]

VARIABLE part    \* the component this behaviour is about

\* The variables of a component that does not take part.
PairOff ==
  /\ pending = 0 /\ expired = 0 /\ codes = 0 /\ sidFails = 0 /\ ppc = 0
  /\ held = 0 /\ issued = 0 /\ success = 0 /\ wrong = 0 /\ renameErrs = 0
  /\ lost = 0
RateOff ==
  /\ now = 0 /\ lru = 0 /\ entry = 0 /\ globalTS = 0 /\ spare = 0 /\ granted = 0
  /\ locks = 0
AccOff ==
  /\ accFile = 0 /\ accCache = 0 /\ visit = 0 /\ latest = 0 /\ nbr = 0
  /\ neighSnap = 0 /\ turned = 0 /\ chain = 0 /\ guard = 0 /\ exact = 0
  /\ accCnt = 0
ForwardOff ==
  /\ sec = 0 /\ version = 0 /\ replaced = 0 /\ lruCache = 0 /\ bucket = 0
  /\ allowed = 0 /\ blockSet = 0 /\ query = 0 /\ conns = 0 /\ closing = 0
  /\ fwCnt = 0
MergeOff ==
  /\ rules = 0 /\ base = 0 /\ names = 0 /\ conn = 0 /\ live = 0 /\ polFile = 0
  /\ polMem = 0 /\ alias = 0 /\ mg = 0 /\ seen = 0 /\ owed = 0 /\ forced = 0
  /\ spent = 0
SuggestOff ==
  /\ clk = 0 /\ score = 0 /\ prof = 0 /\ sugg = 0 /\ dismissed = 0
  /\ alerted = 0 /\ booted = 0 /\ gone = 0 /\ tickObs = 0 /\ told = 0
  /\ behind = 0 /\ sgCnt = 0
PackOff ==
  /\ owned = 0 /\ imp = 0 /\ fpImp = 0 /\ job = 0 /\ okPack = 0 /\ mixed = 0
  /\ packCnt = 0
AlertOff ==
  /\ time = 0 /\ ledger = 0 /\ alog = 0 /\ scan = 0 /\ mark = 0 /\ acked = 0
  /\ crossed = 0 /\ dropped = 0 /\ alertCnt = 0
ClockOff ==
  /\ wall = 0 /\ boot = 0 /\ mono = 0 /\ autoTime = 0 /\ hwm = 0 /\ savedHWM = 0 /\ unwritten = FALSE
  /\ behindSince = 0 /\ clockGuard = 0 /\ booked = 0 /\ slip = 0 /\ lagging = 0
  /\ waited = 0 /\ drift = 0 /\ lumped = 0 /\ sets = 0 /\ restarts = 0
PhoneOff ==
  /\ kern = 0 /\ date = 0 /\ eng = 0 /\ puFired = 0 /\ stateFile = 0
  /\ dayFile = 0 /\ pc = 0 /\ raw = 0 /\ outs = 0 /\ alertsOut = 0 /\ bytes = 0
  /\ ahead = 0 /\ twice = 0 /\ slips = 0 /\ calm = 0 /\ bad = 0
OnlineOff ==
  /\ omClk = 0 /\ omLast = 0 /\ omFlushed = 0 /\ omPend = 0 /\ omFile = 0
  /\ omGiven = 0 /\ omOff = 0 /\ omBehind = 0 /\ omFaults = 0

Parts == {"pairing", "rate", "access", "udp", "tcp", "merge", "suggest",
          "pack", "alerts", "clock", "phone", "online"}

\* Guests and hardware addresses are interchangeable: one way to tell them apart will do.
FirstNbr == CHOOSE f \in [Guest -> Hw] : IsInjective(f)

Init ==
  /\ part \in Parts
  /\ IF part = "pairing" THEN PairInit ELSE PairOff
  /\ IF part = "rate" THEN RateInit ELSE RateOff
  /\ IF part = "access" THEN AccInit /\ nbr = FirstNbr ELSE AccOff
  /\ IF part \in {"udp", "tcp"} THEN ForwardInit ELSE ForwardOff
  /\ IF part = "merge" THEN MergeInit ELSE MergeOff
  /\ IF part = "suggest" THEN SuggestInit ELSE SuggestOff
  /\ IF part = "pack" THEN PackInit ELSE PackOff
  /\ IF part = "alerts" THEN AlertInit ELSE AlertOff
  /\ IF part = "clock" THEN ClockInit ELSE ClockOff
  /\ IF part = "phone" THEN PhoneInit ELSE PhoneOff
  /\ IF part = "online" THEN OnlineInit ELSE OnlineOff

\* A step of component p; all the others stand still.
Only(p) ==
  /\ part = p /\ UNCHANGED part
  /\ p # "pairing" => UNCHANGED pairVars
  /\ p # "rate" => UNCHANGED rateVars
  /\ p # "access" => UNCHANGED accVars
  /\ p \notin {"udp", "tcp"} => UNCHANGED forwardVars
  /\ p # "merge" => UNCHANGED mergeVars
  /\ p # "suggest" => UNCHANGED suggVars
  /\ p # "pack" => UNCHANGED packVars
  /\ p # "alerts" => UNCHANGED alertVars
  /\ p # "clock" => UNCHANGED clockVars
  /\ p # "phone" => UNCHANGED phoneVars
  /\ p # "online" => UNCHANGED onlineVars

Next ==
  \/ Only("pairing") /\ PairNext
  \/ Only("rate") /\ RateNext
  \/ Only("access") /\ AccNext
  \/ Only("udp") /\ (ForwardUdp \/ CloseForwarder)
  \/ Only("tcp") /\ (ForwardTcp \/ CloseForwarder)
  \/ Only("merge") /\ MergeNext
  \/ Only("suggest") /\ SuggestNext
  \/ Only("pack") /\ PackNext
  \/ Only("alerts") /\ AlertNext
  \/ Only("clock") /\ ClockNext
  \/ Only("phone") /\ PhoneNext
  \/ Only("online") /\ OnlineNext

vars == <<part, pairVars, rateVars, accVars, forwardVars, mergeVars,
          suggVars, packVars, alertVars, clockVars, phoneVars,
          onlineVars>>

Spec == Init /\ [][Next]_vars

-----------------------------------------------------------------------------
\* Who may come in and how often.  A code gives no more tokens than its renames and
\* takes no more guesses than it may (pair.go, pair_guard.go); a lock lasts and the
\* window bounds the attempts of an address that is remembered (ratelimit.go); a visit is judged by the last
\* setting, nobody locks himself out, the firewall says the same (webui_access.go,
\* webui_guard.sh); a name is not answered past its time, no client past its rate, a
\* blocked name not at all, and Close ends every connection (dns_forwarder.go).
GatesKept ==
  /\ part = "pairing" => PairTypeOK /\ TokensPerCodes /\ GuessBound
  /\ part = "rate"    => RateTypeOK /\ LockHolds /\ SlidingBound
  /\ part = "access"  => AccTypeOK /\ JudgedByLatest /\ NoSelfLockout /\ FirewallExact
  /\ part \in {"udp", "tcp"} =>
       ForwardTypeOK /\ StaleBound /\ RateBound /\ BlockedRefused /\ CloseEndsAll

\* Each lock of an address is twice as long as the one before, up to the longest, while
\* its entry is remembered (ratelimit.go).
LocksGrow == [][part = "rate" => Doubles]_vars

\* What the user set or said is kept.  A merge is complete or undone, but for what a failed
\* action or a failed undo leaves at the new MAC, and keeps every setting of the user's
\* (mac_merge_action.go); a dismissed suggestion stays away (mac_merge.go);
\* an import leaves local labels alone (rulepack.go); an alert is not repeated, and
\* a device marked as known stays apart from an unknown one (alert.go).
WordKept ==
  /\ part = "merge"   => MergeTypeOK /\ RolledBack /\ SettingsKept /\ CleanMerge /\ FlatAliases
  /\ part = "suggest" => SuggestTypeOK /\ DismissedStays /\ MergedNotProposed /\ OneAlertPerMac
  /\ part = "pack"    => PackTypeOK /\ LocalLabelsKept /\ CoversOnlyOwn /\ OkMeansStored
  /\ part = "alerts"  => AlertTypeOK /\ CooldownKept /\ LedgerMeansTold /\ KnownStaysApart

\* Bytes, minutes and days are booked once, whatever the clock, a restart or a failed
\* write does in between (clock_guard.go, phone_usage.go, online_minutes.go).
BooksKept ==
  /\ part = "clock"  => ClockTypeOK /\ BooksForward /\ NoLump /\ HealsInTime
  /\ part = "phone"  => PhoneTypeOK /\ NothingInvented /\ NothingLost /\ AlertedOnce
  /\ part = "online" => OnlineTypeOK /\ MinutesKept /\ OldDaysWritten /\ SplitExact
=============================================================================
