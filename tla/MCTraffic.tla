------------------------------ MODULE MCTraffic ------------------------------
(***************************************************************************)
(* What hnc_dpid, hnc_watchdog and hnc_httpd hold and learn of the traffic *)
(* and of the devices behind it, side by side and without shared state: a  *)
(* behaviour is about one component, part, and the others stand still.     *)
(***************************************************************************)
EXTENDS ClientTable, AppRules, Flywheel, Discover, FpLearn,
        DeviceScan, PowerPace, AppUsage

MCTails == [h \in {"w", "aw"} |-> IF h = "aw" THEN <<"aw", "w">> ELSE <<"w">>]
MCConnDev == [c \in {"k", "l"} |-> IF c = "k" THEN "d" ELSE "e"]
MCSApp == <<"a", "b">>
MCCand == <<"etc", "data">>
MCOwnerTables == UNION {{<<a>>, <<a, [s |-> TopAddr, e |-> TopAddr, o |-> "y"]>>} : a \in Range0}

VARIABLE part    \* the component this behaviour is about

\* The variables of a component that does not take part.
TableOff ==
  /\ clients = 0 /\ macIndex = 0 /\ totalFlows = 0 /\ unix = 0
IndexOff ==
  /\ ruleIn = 0 /\ ruleOut = 0
RuleOff ==
  /\ dir = 0 /\ edits = 0 /\ cache = 0 /\ index = 0 /\ ld = 0 /\ begun = 0
FlyOff ==
  /\ fwDay = 0 /\ unmatched = 0 /\ acc = 0 /\ accFile = 0 /\ prom = 0
  /\ promFile = 0 /\ ruleHits = 0 /\ subSeen = 0 /\ expd = 0 /\ expFile = 0
  /\ userSaid = 0 /\ exMem = 0 /\ lostProm = 0 /\ unsaved = 0 /\ barred = 0 /\ second = 0
  /\ tick2 = 0 /\ fwCnt = 0
DiscOff ==
  /\ discClk = 0 /\ discNodes = 0 /\ discEdges = 0 /\ wins = 0 /\ sticky = 0
  /\ discDirty = 0 /\ famSamples = 0 /\ famDirty = 0 /\ flushing = 0
  /\ groupsFile = 0 /\ famFile = 0 /\ wrote = 0 /\ discCnt = 0
FpOff ==
  /\ fclk = 0 /\ hellos = 0 /\ flog = 0 /\ flogTs = 0 /\ flushed = 0
  /\ flowFile = 0 /\ fp = 0 /\ tab = 0 /\ binds = 0 /\ pairB = 0 /\ ftick = 0
  /\ learnedFile = 0 /\ times = 0 /\ timesFile = 0 /\ heard = 0 /\ misread = 0
  /\ fpRes = 0 /\ fpCnt = 0
StartOff ==
  /\ sfClk = 0 /\ sfDay = 0 /\ smp = 0 /\ st = 0 /\ stFile = 0 /\ lrn = 0
  /\ late = 0 /\ missed = 0 /\ sfFaults = 0
SeenOff ==
  /\ freq = 0 /\ seenClk = 0 /\ devToks = 0 /\ lastEvt = 0 /\ events = 0
  /\ fed = 0
OwnerOff ==
  /\ owFile = 0 /\ owDb = 0 /\ owKey = 0 /\ owChecked = 0 /\ owClk = 0
  /\ owBest = 0 /\ owFaulty = 0 /\ owCnt = 0
ScanOff ==
  /\ scanClk = 0 /\ nb = 0 /\ kIdx = 0 /\ evq = 0 /\ subOn = 0 /\ runIdx = 0
  /\ devs = 0 /\ cand = 0 /\ rsv = 0 /\ rsvSig = 0 /\ dirtyW = 0 /\ lastSync = 0
  /\ devFile = 0 /\ lastW = 0 /\ lostW = 0 /\ asks = 0 /\ scanCnt = 0 /\ gap = 0
WaitOff ==
  /\ clk = 0 /\ lastHit = 0 /\ req = 0 /\ poke = 0 /\ nextProbe = 0 /\ prb = 0
  /\ cur = 0 /\ chNo = 0 /\ since = 0 /\ wait = 0
LinkOff ==
  /\ tk = 0 /\ apUp = 0 /\ probedUp = 0 /\ linkSig = 0 /\ noise = 0 /\ wdg = 0
  /\ lastEv = 0 /\ act = 0 /\ httpdDead = 0 /\ snapC = 0 /\ cfgAt = 0
  /\ lastSched = 0
UsageOff ==
  /\ ct = 0 /\ inflight = 0 /\ evBuf = 0 /\ evOn = 0 /\ ctSnap = 0 /\ prevB = 0
  /\ baseSet = 0 /\ heldBack = 0 /\ known = 0 /\ useDay = 0 /\ dayMem = 0 /\ dayDisk = 0
  /\ moved = 0 /\ born = 0 /\ waived = 0 /\ lapsed = 0 /\ overtaken = 0
  /\ excused = 0 /\ useFaults = 0

Parts == {"clients", "index", "rules", "fly", "discover", "fp", "starts",
          "seen", "owner", "scan", "wait", "link", "usage"}

Init ==
  /\ part \in Parts
  /\ IF part = "clients" THEN TableInit ELSE TableOff
  /\ IF part = "index" THEN IndexInit ELSE IndexOff
  /\ IF part = "rules" THEN RuleInit ELSE RuleOff
  /\ IF part = "fly" THEN FlyInit ELSE FlyOff
  /\ IF part = "discover" THEN DiscInit ELSE DiscOff
  /\ IF part = "fp" THEN FpInit ELSE FpOff
  /\ IF part = "starts" THEN StartInit ELSE StartOff
  /\ IF part = "seen" THEN SeenInit ELSE SeenOff
  /\ IF part = "owner" THEN OwnerInit ELSE OwnerOff
  /\ IF part = "scan" THEN ScanInit ELSE ScanOff
  /\ IF part = "wait" THEN WaitInit ELSE WaitOff
  /\ IF part = "link" THEN LinkInit ELSE LinkOff
  /\ IF part = "usage" THEN UsageInit ELSE UsageOff

\* A step of component p; all the others stand still.
Only(p) ==
  /\ part = p /\ UNCHANGED part
  /\ p # "clients" => UNCHANGED tableVars
  /\ p # "index" => UNCHANGED indexVars
  /\ p # "rules" => UNCHANGED ruleVars
  /\ p # "fly" => UNCHANGED flyVars
  /\ p # "discover" => UNCHANGED discVars
  /\ p # "fp" => UNCHANGED fpVars
  /\ p # "starts" => UNCHANGED startVars
  /\ p # "seen" => UNCHANGED seenVars
  /\ p # "owner" => UNCHANGED ownerVars
  /\ p # "scan" => UNCHANGED scanVars
  /\ p # "wait" => UNCHANGED waitVars
  /\ p # "link" => UNCHANGED linkVars
  /\ p # "usage" => UNCHANGED usageVars

Next ==
  \/ Only("clients") /\ TableNext
  \/ Only("index") /\ IndexNext
  \/ Only("rules") /\ RuleNext
  \/ Only("fly") /\ FlyNext
  \/ Only("discover") /\ DiscNext
  \/ Only("fp") /\ FpNext
  \/ Only("starts") /\ StartNext
  \/ Only("seen") /\ SeenNext
  \/ Only("owner") /\ OwnerNext
  \/ Only("scan") /\ ScanNext
  \/ Only("wait") /\ WaitNext
  \/ Only("link") /\ LinkNext
  \/ Only("usage") /\ UsageNext

vars == <<part, tableVars, indexVars, ruleVars, flyVars, discVars, fpVars,
          startVars, seenVars, ownerVars, scanVars, waitVars, linkVars,
          usageVars>>

Spec == Init /\ [][Next]_vars

-----------------------------------------------------------------------------
\* What is held is in the right place and looked at in time.  The client table's index
\* and flow count are exact (state.go); an address has the owner of its range in the
\* newest table (ip_owner.go); a lookup never uses rules older than the files were when
\* it began (rule.go); an automatic rule has one application, is no conduit's, and a
\* demoted one stays out (candidate.go, auto_expand.go); no loop sleeps through a change
\* (power.go, budget.go).
TablesKept ==
  /\ part = "clients" => TableTypeOK /\ IndexExact /\ FlowCount
  /\ part = "owner"   => OwnerTypeOK /\ OwnerExact /\ OwnerCurrent
  /\ part = "rules"   => RuleTypeOK /\ FreshRules
  /\ part = "fly"     => FlyTypeOK /\ PromotedSingle /\ ConduitOut /\ DemotedStaysOut /\ RulesOnDisk
  /\ part = "wait"    => WaitTypeOK /\ QuickAfterChange /\ UiSeen
  /\ part = "link"    => LinkTypeOK /\ FoundInTime /\ OldPaceWithoutHttpd /\ BoundaryOnTime

\* What is found, booked and learned is true.  A device that leaves is noticed and the
\* device file is current (devscan.go, m4_owner.go); the bytes of a connection are booked
\* once, and each is booked or waits for the next tick (app_usage.go).  A lookup of the rule index is the scan it
\* replaced and no suffix is lost (rule.go, classify.go); edges join nodes and the group file is
\* current (discover.go); fingerprints and starts are counted once and an
\* attribution is earned (fp_learn.go, flowlog.go, startup_fp.go).
LearningKept ==
  /\ part = "scan"     => ScanTypeOK /\ MissBound /\ FailedIpGone /\ CleanMeansWritten
  /\ part = "usage"    => UsageTypeOK /\ NoDoubleCount /\ NothingMissing
  /\ part = "index"    => IndexTypeOK /\ SuffixesArrive /\ LookupIsScan
  /\ part = "discover" => DiscTypeOK /\ EdgesJoinNodes /\ FileCurrent
  /\ part = "fp"       => /\ FpTypeOK /\ IndexOwn /\ FileLearned /\ CountedOnce
                          /\ AttributionEarned /\ TotalIsSum
  /\ part = "starts"   => StartTypeOK0 /\ StartsTrue /\ StartsComplete
  /\ part = "seen"     => SeenTypeOK /\ LeadIsReal /\ OneEventPerStart

\* A restart of dpid gives a small group back whole (discover.go Load,
\* restoreGroupLocked).
GroupsKept == [][part = "discover" => SmallKept]_vars
=============================================================================
