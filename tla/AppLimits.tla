------------------------------ MODULE AppLimits ------------------------------
(***************************************************************************)
(* Per-application rate limits, from the WebUI to the kernel: the actions  *)
(* of hnc_httpd that write data/app_limits.json and .flat                  *)
(* (action_app_limit.go), the map of addresses to applications that        *)
(* hnc_dpid writes (ip_app_map.go), the loop of hnc_watchdog that runs     *)
(* bin/apply_app_limits.sh every 30 s or when run/app_limit.dirty appears, *)
(* and that script, which tears the rules down and builds them again.      *)
(*                                                                         *)
(* One device, one limited application "app" and one address stand for     *)
(* all: the script treats every line of the flat file by itself.  A rate   *)
(* of 0 is no limit.                                                       *)
(***************************************************************************)
EXTENDS Naturals

CONSTANTS
    MaxRate,        \* rates 1..MaxRate
    MaxLimEdits,    \* bound: edits by the user
    MaxLimFaults,   \* bound: crashes, failed writes, runs without an interface
    MaxLimWorld,    \* bound: changes of address map, device and hotspot
    MaxLimMoves     \* bound: edits and such changes together

ASSUME LimConstants == MaxRate \in Nat /\ MaxLimEdits \in Nat /\ MaxLimFaults \in Nat
                       /\ MaxLimWorld \in Nat /\ MaxLimMoves \in Nat

VARIABLES
    limJson,    \* data/app_limits.json
    limFlat,    \* data/app_limits.flat
    inclShared, \* rules.json app_limit_include_shared_ips
    save,       \* the action of httpd under appLimitMu
    reply,      \* what the last action answered
    trigger,    \* a goroutine is about to write the marker
    marker,     \* run/app_limit.dirty
    ipApp,      \* dpid: the application it last saw behind the address
    ipAge,      \* 0: within ipAppKeepRealSec, 1: within ipAppMapMaxAge, 2: older
    mapJson,    \* run/ip_app_map.json
    mapFlat,    \* run/ip_app_map.flat
    revApp,     \* run/dpi_ipname.json: the application the names point to
    devOn,      \* the device has an address in devices.json
    hotspotOn,  \* hotspotIdleFn is false
    script,     \* where apply_app_limits.sh is
    taken,      \* what this run has read
    asOf,       \* the configuration the last run read, {} if it gave up
    enforced,   \* the rate the kernel holds this application to
    limCnt

fileVarsL == <<limJson, limFlat, inclShared, save, reply, trigger>>
worldVars == <<ipApp, ipAge, mapJson, mapFlat, revApp, devOn, hotspotOn>>
scriptVars == <<script, taken, asOf, enforced>>
limVars == <<fileVarsL, marker, worldVars, scriptVars, limCnt>>

Apps == {"app", "other"}
NoApp == "none"
NoSave == [at |-> "idle", rate |-> 0]
NothingRead == [cfg |-> [flat |-> 0, incl |-> FALSE], rate |-> 0]
Config == [flat |-> limFlat, incl |-> inclShared]
Fault == /\ limCnt.faults < MaxLimFaults
         /\ limCnt' = [limCnt EXCEPT !.faults = @ + 1]

-----------------------------------------------------------------------------
(* hnc_httpd *)

LimRoom == limCnt.edits + limCnt.world < MaxLimMoves
LimEdit == limCnt.edits < MaxLimEdits /\ LimRoom /\ limCnt' = [limCnt EXCEPT !.edits = @ + 1]

\* actionAppLimitSet up to saveAppLimits: a rate of 0 for what the JSON does
\* not list is answered at once.
SetLimit(rate) ==
    /\ save = NoSave /\ LimEdit
    /\ IF rate = 0 /\ limJson = 0
       THEN reply' = "no-op" /\ UNCHANGED save
       ELSE save' = [at |-> "json", rate |-> rate] /\ reply' = "none"
    /\ UNCHANGED <<limJson, limFlat, inclShared, trigger, marker, worldVars, scriptVars>>

\* actionAppLimitClear up to saveAppLimits: it saves what is left, always.
ClearLimit ==
    /\ save = NoSave /\ LimEdit
    /\ save' = [at |-> "json", rate |-> 0] /\ reply' = "none"
    /\ UNCHANGED <<limJson, limFlat, inclShared, trigger, marker, worldVars, scriptVars>>

\* saveAppLimits: both temporary files exist before the first rename; the
\* JSON goes first.
RenameJson ==
    /\ save # NoSave /\ save.at = "json"
    /\ limJson' = save.rate
    /\ save' = [save EXCEPT !.at = "flat"]
    /\ UNCHANGED <<limFlat, inclShared, reply, trigger, marker, worldVars, scriptVars, limCnt>>

RenameFlat ==
    /\ save # NoSave /\ save.at = "flat"
    /\ limFlat' = save.rate
    /\ save' = NoSave /\ reply' = "saved" /\ trigger' = TRUE
    /\ UNCHANGED <<limJson, inclShared, marker, worldVars, scriptVars, limCnt>>

\* A write or a rename fails: the action answers with an error and writes no
\* marker.
SaveFails ==
    /\ save # NoSave
    /\ Fault
    /\ save' = NoSave /\ reply' = "error"
    /\ UNCHANGED <<limJson, limFlat, inclShared, trigger, marker, worldVars, scriptVars>>

\* actionAppLimitSharedIPsSet writes rules.json, then the marker.
SetShared ==
    /\ save = NoSave /\ ~trigger /\ LimEdit
    /\ inclShared' = ~inclShared
    /\ trigger' = TRUE
    /\ UNCHANGED <<limJson, limFlat, save, reply, marker, worldVars, scriptVars>>

\* triggerAppLimitApply, on a goroutine of its own.
WriteMarker ==
    /\ trigger
    /\ marker' = TRUE /\ trigger' = FALSE
    /\ UNCHANGED <<limJson, limFlat, inclShared, save, reply, worldVars, scriptVars, limCnt>>

HttpdDies ==
    /\ save # NoSave \/ trigger
    /\ Fault
    /\ save' = NoSave /\ trigger' = FALSE /\ reply' = "none"
    /\ UNCHANGED <<limJson, limFlat, inclShared, marker, worldVars, scriptVars>>

-----------------------------------------------------------------------------
(* hnc_dpid and the rest of the world *)

World == /\ limCnt.world < MaxLimWorld /\ LimRoom
         /\ limCnt' = [limCnt EXCEPT !.world = @ + 1]

\* IPAppMap.Record: the last application seen wins, except that a recent real
\* application is not displaced by infrastructure ("other").
Record(app) ==
    /\ World
    /\ ~(ipApp = "app" /\ app = "other" /\ ipAge = 0)
    /\ ipApp' = app /\ ipAge' = 0
    /\ UNCHANGED <<fileVarsL, marker, mapJson, mapFlat, revApp, devOn, hotspotOn, scriptVars>>

NotSeenFor ==
    /\ ipApp # NoApp /\ ipAge < 2
    /\ World
    /\ ipAge' = ipAge + 1
    /\ UNCHANGED <<fileVarsL, marker, ipApp, mapJson, mapFlat, revApp, devOn, hotspotOn, scriptVars>>

\* IPAppMap.Flush drops what is too old and writes the JSON, then the flat
\* file, whose failure is ignored.
FlushMap(ok) ==
    LET kept == IF ipAge = 2 THEN NoApp ELSE ipApp
    IN  /\ kept # mapJson \/ mapJson # mapFlat
        /\ IF ok THEN mapFlat' = kept /\ UNCHANGED limCnt
                 ELSE Fault /\ UNCHANGED mapFlat
        /\ mapJson' = kept /\ ipApp' = kept
        /\ ipAge' = IF ipAge = 2 THEN 0 ELSE ipAge
        /\ UNCHANGED <<fileVarsL, marker, revApp, devOn, hotspotOn, scriptVars>>

Elsewhere ==
    /\ World
    /\ \/ revApp' \in Apps \cup {NoApp} /\ UNCHANGED <<devOn, hotspotOn>>
       \/ devOn' = ~devOn /\ UNCHANGED <<revApp, hotspotOn>>
       \/ hotspotOn' = ~hotspotOn /\ UNCHANGED <<revApp, devOn>>
    /\ UNCHANGED <<fileVarsL, marker, ipApp, ipAge, mapJson, mapFlat, scriptVars>>

-----------------------------------------------------------------------------
(* hnc_watchdog and the script *)

\* appLimitSplitShared and split_app_ips: an address whose name belongs to
\* another application is left alone.
SharedAway == ~inclShared /\ revApp \notin {"app", NoApp}

Wanted == IF devOn /\ mapFlat = "app" /\ ~SharedAway THEN limFlat ELSE 0

\* appLimitApplyLoop and appApplyOnce: on the 30 s tick or on the marker,
\* unless the hotspot is idle.
Due == hotspotOn

\* The script removes the marker before it reads anything.
MarkerLeft == [start |-> FALSE, end |-> marker]

ScriptStart ==
    /\ script = "idle" /\ Due
    /\ marker' = MarkerLeft.start
    /\ script' = "clean"
    /\ UNCHANGED <<fileVarsL, worldVars, taken, asOf, enforced, limCnt>>

\* No interface is known: the script leaves with the marker gone.
ScriptGivesUp ==
    /\ script = "clean"
    /\ Fault
    /\ script' = "idle" /\ asOf' = {}
    /\ UNCHANGED <<fileVarsL, marker, worldVars, taken, enforced>>

\* Step 1: the chain, the classes and the filters of the last run go.
ScriptClean ==
    /\ script = "clean"
    /\ enforced' = 0
    /\ script' = "read"
    /\ UNCHANGED <<fileVarsL, marker, worldVars, taken, asOf, limCnt>>

\* Steps 2 to 4: the files are read.
ScriptRead ==
    /\ script = "read"
    /\ taken' = [cfg |-> Config, rate |-> Wanted]
    /\ script' = "build"
    /\ UNCHANGED <<fileVarsL, marker, worldVars, asOf, enforced, limCnt>>

\* Step 5: the classes, filters and marks are added, line by line.
ScriptBuild ==
    /\ script = "build"
    /\ enforced' = taken.rate
    /\ asOf' = {taken.cfg}
    /\ taken' = NothingRead
    /\ marker' = MarkerLeft.end
    /\ script' = "idle"
    /\ UNCHANGED <<fileVarsL, worldVars, limCnt>>

-----------------------------------------------------------------------------
LimInit ==
    /\ limJson = 0 /\ limFlat = 0 /\ inclShared = FALSE
    /\ save = NoSave /\ reply = "none" /\ trigger = FALSE /\ marker = FALSE
    /\ ipApp = NoApp /\ ipAge = 0 /\ mapJson = NoApp /\ mapFlat = NoApp /\ revApp = NoApp
    /\ devOn = TRUE /\ hotspotOn = TRUE
    /\ script = "idle" /\ taken = NothingRead /\ asOf = {} /\ enforced = 0
    /\ limCnt = [edits |-> 0, faults |-> 0, world |-> 0]

Httpd ==
    \/ \E rate \in 0..MaxRate : SetLimit(rate)
    \/ ClearLimit \/ RenameJson \/ RenameFlat \/ SaveFails \/ SetShared \/ WriteMarker \/ HttpdDies

ApplyScript == ScriptStart \/ ScriptGivesUp \/ ScriptClean \/ ScriptRead \/ ScriptBuild

LimNext ==
    \/ Httpd
    \/ \E app \in Apps : Record(app)
    \/ NotSeenFor
    \/ \E ok \in BOOLEAN : FlushMap(ok)
    \/ Elsewhere
    \/ ApplyScript

\* httpd finishes what it began unless it dies, dpid flushes every 30 s and
\* the loop of the watchdog goes round.
SaveStep == RenameJson \/ RenameFlat
ApplyStep == ScriptStart \/ ScriptClean \/ ScriptRead \/ ScriptBuild
LimFairness ==
    /\ WF_limVars(SaveStep) /\ WF_limVars(WriteMarker)
    /\ WF_limVars(FlushMap(TRUE)) /\ WF_limVars(ApplyStep)

LimSpec == LimInit /\ [][LimNext]_limVars /\ LimFairness

-----------------------------------------------------------------------------
LimTypeOK ==
    /\ {limJson, limFlat, enforced} \subseteq 0..MaxRate
    /\ {inclShared, trigger, marker, devOn, hotspotOn} \subseteq BOOLEAN
    /\ reply \in {"none", "no-op", "saved", "error"}
    /\ save \in [at : {"idle", "json", "flat"}, rate : 0..MaxRate]
    /\ {ipApp, mapJson, mapFlat, revApp} \subseteq Apps \cup {NoApp}
    /\ ipAge \in 0..2
    /\ script \in {"idle", "clean", "read", "build"}
    /\ taken.rate \in 0..MaxRate
    /\ asOf \subseteq [flat : 0..MaxRate, incl : BOOLEAN]

\* An edit is never overtaken by the run that clears its marker: with no
\* marker, none about to be written and no run under way, the last complete
\* run read the files as they are, unless httpd died or a save failed between
\* the flat file and the marker (apply_app_limits.sh, triggerAppLimitApply).
MarkerCoversEdit ==
    script = "idle" /\ ~marker /\ ~trigger /\ save = NoSave
      /\ asOf # {} /\ limCnt.faults = 0 => asOf = {Config}

\* When an action that saves says ok, the limit the WebUI shows is the limit
\* the script will read, until the next action (saveAppLimits).
OkMeansBoth == reply = "saved" => limJson = limFlat

\* Whatever markers are lost, the rules keep coming back to what the files,
\* the address map and the device table call for (appLimitApplyLoop).
Reapplied == []<>(~hotspotOn \/ enforced = Wanted)

\* The two files agree whenever no save is under way: what the comment on
\* saveAppLimits says, crashes included.
FilesAgree == save = NoSave => limJson = limFlat

\* "no-op (rate=0 and no existing entry)" (action_app_limit.go:96): there is
\* nothing to clear.  Not so when an earlier save failed between the files: the
\* JSON has lost the entry, the flat file still limits the device.
NothingToClear == reply = "no-op" => limFlat = 0
=============================================================================
