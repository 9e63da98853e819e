----------------------------- MODULE RemoteAccess ---------------------------
(* Remote access to hnc_httpd: the tokens that let a request in, and the   *)
(* port it comes through (two state machines that share no state).         *)
EXTENDS Naturals, FiniteSets
-----------------------------------------------------------------------------
(***************************************************************************)
(* hnc_httpd's token store (tokens.go): the map in memory, its file        *)
(* remote_tokens.json, the bridge by which shell scripts ask for a         *)
(* revocation (server.go consumeTokenRevokeRequests) and the part of       *)
(* authMiddleware that uses them.  A request stats the bridge, consumes    *)
(* what it finds, synchronises the map with the file by modification time  *)
(* and looks its token up; these are separate steps of separate            *)
(* goroutines, and httpd may die between any two of them.  An append of    *)
(* the shell is before or after the rename of the bridge; one in the midst *)
(* of it may be lost (server.go:1271).                                     *)
(***************************************************************************)
CONSTANTS Tok,          \* token ids
          Lines,        \* lines the shell writes to the bridge: ids and "ALL"
          Req,          \* concurrent requests
          TokAttempts,     \* maxRetry of reload
          MaxSaves,     \* bound: no new token and no new last_seen after so many writes
          MaxTokFaults  \* bound on failing writes and deaths of httpd

ASSUME TokenConstants == /\ TokAttempts \in Nat \ {0} /\ MaxSaves \in Nat
                         /\ MaxTokFaults \in Nat
                         /\ "poll" \notin Req /\ "none" \notin Req /\ "ALL" \notin Tok
                         /\ Lines \subseteq Tok \cup {"ALL"}

VARIABLES mem,       \* TokensStore.tokens
          lastRead,  \* TokensStore.lastRead: modification time of the file last seen
          dirty,     \* TokensStore.dirty
          tokDisk,      \* content of remote_tokens.json
          mtime,     \* its modification time, 0 when there is no such file
          tokMarker,    \* lines of run/token_revoke.request, {} when absent
          tokWorking,   \* lines of token_revoke.request.working, {} when absent
          revokeMu,  \* holder of server.revokeMu
          todo,      \* lines its holder has read and not yet applied
          up,        \* TRUE once the startup pass over the bridge is done
          tpc,       \* where each goroutine is
          loc,       \* what it remembers: stat results, data read, its cookie
          tokFaults,
          promise,   \* history: what the last successful call told its user
          cleared    \* history: the map was emptied although the file exists

tokVars == <<mem, lastRead, dirty, tokDisk, mtime, tokMarker, tokWorking, revokeMu, todo,
             up, tpc, loc, tokFaults, promise, cleared>>

Worker == Req \cup {"poll"}
State == {"none", "live", "revoked"}
Empty == [t \in Tok |-> "none"]
NoLoc == [work |-> FALSE, st |-> 0, mt |-> 0, try |-> 0, data |-> Empty, tok |-> "none",
          owed |-> FALSE]

Steps == {"idle", "statWork", "statMarker", "lock", "redo", "take", "apply", "sync", "act",
          "stat1", "read", "stat2", "install", "verify", "touch", "logout", "revoke"}

TokTypeOK ==
  /\ mem \in [Tok -> State] /\ tokDisk \in [Tok -> State] /\ promise \in [Tok -> State]
  /\ mtime \in Nat /\ lastRead \in 0..mtime
  /\ tokMarker \subseteq Lines /\ tokWorking \subseteq Lines /\ todo \subseteq tokWorking
  /\ revokeMu \in Worker \cup {"none"} /\ dirty \in BOOLEAN /\ up \in BOOLEAN
  /\ tpc \in [Worker -> Steps] /\ tokFaults \in 0..MaxTokFaults /\ cleared \in BOOLEAN
  /\ \A w \in Worker : tpc[w] \in {"redo", "take", "apply"} <=> revokeMu = w

TokInit ==
  /\ \/ mtime = 0 /\ mem = Empty
     \/ mtime = 1 /\ mem \in {[t \in Tok |-> IF t = x THEN "live" ELSE "none"] : x \in Tok}
  /\ tokDisk = mem /\ promise = mem
  /\ lastRead = mtime /\ dirty = FALSE /\ tokMarker = {} /\ tokWorking = {} /\ revokeMu = "none"
  /\ todo = {} /\ up = TRUE /\ tpc = [w \in Worker |-> "idle"]
  /\ loc = [w \in Worker |-> NoLoc] /\ tokFaults = 0 /\ cleared = FALSE

Goto(w, s) == tpc' = [tpc EXCEPT ![w] = s]
End(w) == Goto(w, "idle") /\ loc' = [loc EXCEPT ![w] = NoLoc]
\* a stat or a read whose result is no longer needed is forgotten
Forget(w) == loc' = [loc EXCEPT ![w] = [NoLoc EXCEPT !.tok = loc[w].tok, !.owed = loc[w].owed]]
TokFault == tokFaults < MaxTokFaults /\ tokFaults' = tokFaults + 1

\* saveAtomicLocked: publish the whole map by rename and remember its time; a
\* failing write leaves the file, lastRead and dirty as they are.
SaveOk(m) == /\ tokDisk' = m /\ mtime' = mtime + 1 /\ lastRead' = mtime + 1 /\ dirty' = FALSE
             /\ UNCHANGED tokFaults
TokSaveFails == TokFault /\ UNCHANGED <<tokDisk, mtime, lastRead, dirty>>

Told(P(_), s) == promise' = [t \in Tok |-> IF P(t) THEN s ELSE promise[t]]

\* PutIfAbsent, reached through IssueToken: ids are random and never reused.
\* The map keeps the token even when the write fails and the caller is refused.
IssueToken(t) ==
  /\ up /\ mtime < MaxSaves /\ mem[t] = "none" /\ tokDisk[t] = "none" /\ promise[t] = "none"
  /\ mem' = [mem EXCEPT ![t] = "live"]
  /\ \/ SaveOk(mem') /\ Told(LAMBDA x : x = t, "live")
     \/ TokSaveFails /\ UNCHANGED promise
  /\ UNCHANGED <<tokMarker, tokWorking, revokeMu, todo, up, tpc, loc, cleared>>

\* Revoke and RevokeAll: nothing is written when no token changes.
RevokeSet(T) ==
  LET hit == {t \in T : mem[t] = "live"} IN
  /\ mem' = [t \in Tok |-> IF t \in hit THEN "revoked" ELSE mem[t]]
  /\ \/ hit = {} /\ UNCHANGED <<tokDisk, mtime, lastRead, dirty, tokFaults, promise>>
     \/ hit # {} /\ SaveOk(mem') /\ Told(LAMBDA x : x \in hit, "revoked")
     \/ hit # {} /\ TokSaveFails /\ UNCHANGED promise

\* json_set.sh token_revoke / token_revoke_all append one line to the bridge.
ShellRevoke(l) == /\ l \notin tokMarker
                  /\ \E t \in Tok : promise[t] = "live" /\ l \in {t, "ALL"}
                  /\ tokMarker' = tokMarker \cup {l}
                  /\ UNCHANGED <<mem, lastRead, dirty, tokDisk, mtime, tokWorking, revokeMu, todo, up,
                                 tpc, loc, tokFaults, promise, cleared>>

\* A request with the cookie of token t enters authMiddleware; before the first
\* save also one without a known token.
BeginRequest(w, t) ==
  /\ up /\ tpc[w] = "idle" /\ w \in Req /\ (promise[t] # "none" \/ mtime = 0)
  /\ Goto(w, "statWork")
  /\ loc' = [loc EXCEPT ![w] = [NoLoc EXCEPT !.tok = t, !.owed = {t, "ALL"} \cap (tokMarker \cup tokWorking) # {}]]
  /\ UNCHANGED <<mem, lastRead, dirty, tokDisk, mtime, tokMarker, tokWorking, revokeMu, todo, up, tokFaults,
                 promise, cleared>>

\* POST /api/logout verifies its cookie itself, without the bridge or the sync.
BeginLogout(w, t) ==
  /\ up /\ tpc[w] = "idle" /\ w \in Req /\ promise[t] # "none"
  /\ Goto(w, "logout") /\ loc' = [loc EXCEPT ![w] = [NoLoc EXCEPT !.tok = t]]
  /\ UNCHANGED <<mem, lastRead, dirty, tokDisk, mtime, tokMarker, tokWorking, revokeMu, todo, up, tokFaults,
                 promise, cleared>>
\* pruneLoop's 60 s poll, and main's pass before it serves.
BeginPoll ==
  /\ tpc["poll"] = "idle" /\ (tokMarker \cup tokWorking # {} \/ ~up)
  /\ Goto("poll", "statWork")
  /\ UNCHANGED <<mem, lastRead, dirty, tokDisk, mtime, tokMarker, tokWorking, revokeMu, todo, up, loc,
                 tokFaults, promise, cleared>>

\* consumeTokenRevokeRequests: two stats without the lock, then the slow path.
Leave(w) == /\ Goto(w, IF w = "poll" THEN "idle" ELSE "sync") /\ up' = (up \/ w = "poll")
StatWork(w) ==
  /\ tpc[w] = "statWork" /\ Goto(w, "statMarker")
  /\ loc' = [loc EXCEPT ![w].work = tokWorking # {}]
  /\ UNCHANGED <<mem, lastRead, dirty, tokDisk, mtime, tokMarker, tokWorking, revokeMu, todo, up, tokFaults,
                 promise, cleared>>
StatMarker(w) ==
  /\ tpc[w] = "statMarker"
  /\ IF loc[w].work \/ tokMarker # {} THEN Goto(w, "lock") /\ UNCHANGED up ELSE Leave(w)
  /\ Forget(w)
  /\ UNCHANGED <<mem, lastRead, dirty, tokDisk, mtime, tokMarker, tokWorking, revokeMu, todo, tokFaults,
                 promise, cleared>>
LockRevoke(w) ==
  /\ tpc[w] = "lock" /\ revokeMu = "none" /\ revokeMu' = w
  /\ Goto(w, IF tokWorking # {} THEN "redo" ELSE "take")
  /\ todo' = tokWorking
  /\ UNCHANGED <<mem, lastRead, dirty, tokDisk, mtime, tokMarker, tokWorking, up, loc, tokFaults, promise,
                 cleared>>
TakeMarker(w) ==
  /\ tpc[w] = "take"
  /\ IF tokMarker = {}
     THEN Leave(w) /\ revokeMu' = "none" /\ UNCHANGED <<tokMarker, tokWorking, todo>>
     ELSE /\ tokWorking' = tokMarker /\ todo' = tokMarker /\ tokMarker' = {} /\ Goto(w, "apply")
          /\ UNCHANGED <<revokeMu, up>>
  /\ UNCHANGED <<mem, lastRead, dirty, tokDisk, mtime, loc, tokFaults, promise, cleared>>
ApplyLine(w, l) ==
  /\ tpc[w] \in {"redo", "apply"} /\ l \in todo
  /\ RevokeSet(IF l = "ALL" THEN Tok ELSE {l})
  /\ todo' = todo \ {l}
  /\ UNCHANGED <<tokMarker, tokWorking, revokeMu, up, tpc, loc, cleared>>
RemoveWorking(w) ==
  /\ tpc[w] \in {"redo", "apply"} /\ todo = {} /\ tokWorking' = {}
  /\ IF tpc[w] = "redo" THEN Goto(w, "take") /\ UNCHANGED <<revokeMu, up>>
                        ELSE Leave(w) /\ revokeMu' = "none"
  /\ UNCHANGED <<mem, lastRead, dirty, tokDisk, mtime, tokMarker, todo, loc, tokFaults, promise, cleared>>

\* SyncIfChanged: the stat is outside the lock, what follows from it inside.
SyncStat(w) ==
  /\ tpc[w] = "sync" /\ Goto(w, "act") /\ loc' = [loc EXCEPT ![w].st = mtime]
  /\ UNCHANGED <<mem, lastRead, dirty, tokDisk, mtime, tokMarker, tokWorking, revokeMu, todo, up, tokFaults,
                 promise, cleared>>
ForgetAll == mem' = Empty /\ lastRead' = 0 /\ cleared' = (cleared \/ mtime > 0)
SyncAct(w) ==
  /\ tpc[w] = "act"
  /\ IF loc[w].st = 0 THEN ForgetAll /\ Goto(w, "verify")
     ELSE /\ Goto(w, IF loc[w].st # lastRead THEN "stat1" ELSE "verify")
          /\ UNCHANGED <<mem, lastRead, cleared>>
  /\ Forget(w)
  /\ UNCHANGED <<dirty, tokDisk, mtime, tokMarker, tokWorking, revokeMu, todo, up, tokFaults, promise>>

\* reload: stat, read, stat again, at most TokAttempts times; installed under the
\* lock unless the map is already as new.
ReloadStat1(w) ==
  /\ tpc[w] = "stat1" /\ Goto(w, "read") /\ loc' = [loc EXCEPT ![w].st = mtime]
  /\ UNCHANGED <<mem, lastRead, dirty, tokDisk, mtime, tokMarker, tokWorking, revokeMu, todo, up, tokFaults,
                 promise, cleared>>
ReloadRead(w) ==
  /\ tpc[w] = "read" /\ Goto(w, "stat2") /\ loc' = [loc EXCEPT ![w].data = tokDisk]
  /\ UNCHANGED <<mem, lastRead, dirty, tokDisk, mtime, tokMarker, tokWorking, revokeMu, todo, up, tokFaults,
                 promise, cleared>>
ReloadStat2(w) ==
  /\ tpc[w] = "stat2"
  /\ LET n == loc[w].try + 1 IN
     IF mtime = loc[w].st \/ n = TokAttempts
     THEN loc' = [loc EXCEPT ![w].mt = mtime] /\ Goto(w, "install")
     ELSE loc' = [loc EXCEPT ![w].try = n] /\ Goto(w, "stat1")
  /\ UNCHANGED <<mem, lastRead, dirty, tokDisk, mtime, tokMarker, tokWorking, revokeMu, todo, up, tokFaults,
                 promise, cleared>>

\* Mutant: the data read is installed without a second look at lastRead.
InstallAnyway(w) ==
  /\ tpc[w] = "install" /\ Goto(w, "verify")
  /\ mem' = loc[w].data /\ lastRead' = loc[w].mt /\ Forget(w)
  /\ UNCHANGED <<dirty, tokDisk, mtime, tokMarker, tokWorking, revokeMu, todo, up, tokFaults, promise,
                 cleared>>

ReloadInstall(w) ==
  /\ tpc[w] = "install" /\ Goto(w, "verify")
  /\ IF lastRead >= loc[w].mt THEN UNCHANGED <<mem, lastRead>>
                              ELSE mem' = loc[w].data /\ lastRead' = loc[w].mt
  /\ Forget(w)
  /\ UNCHANGED <<dirty, tokDisk, mtime, tokMarker, tokWorking, revokeMu, todo, up, tokFaults, promise,
                 cleared>>

\* VerifyCookie: the map decides; a cached bcrypt result is used only after it.
Verify(w) ==
  /\ tpc[w] \in {"verify", "logout"}
  /\ IF mem[loc[w].tok] # "live" THEN End(w)
     ELSE Goto(w, IF tpc[w] = "verify" THEN "touch" ELSE "revoke") /\ UNCHANGED loc
  /\ UNCHANGED <<mem, lastRead, dirty, tokDisk, mtime, tokMarker, tokWorking, revokeMu, todo, up, tokFaults,
                 promise, cleared>>
\* UpdateLastSeen of a request that was let in: memory only, at most once a minute.
UpdateLastSeen(w) ==
  /\ tpc[w] = "touch" /\ End(w)
  /\ dirty' \in {dirty, dirty \/ (mem[loc[w].tok] # "none" /\ mtime < MaxSaves)}
  /\ UNCHANGED <<mem, lastRead, tokDisk, mtime, tokMarker, tokWorking, revokeMu, todo, up, tokFaults,
                 promise, cleared>>
LogoutRevoke(w) ==
  /\ tpc[w] = "revoke" /\ End(w) /\ RevokeSet({loc[w].tok})
  /\ UNCHANGED <<tokMarker, tokWorking, revokeMu, todo, up, cleared>>

\* SaveLoop: every 30 s, only when dirty.
FlushIfDirty ==
  /\ up /\ dirty /\ (SaveOk(mem) \/ TokSaveFails)
  /\ UNCHANGED <<mem, tokMarker, tokWorking, revokeMu, todo, up, tpc, loc, promise, cleared>>
\* Prune: tokens idle for 30 days, revoked ones for 16; which these are is the
\* environment's choice.
Prune(t) ==
  /\ up /\ mem[t] # "none" /\ mem' = [mem EXCEPT ![t] = "none"]
  /\ (SaveOk(mem') \/ TokSaveFails) /\ Told(LAMBDA x : x = t, "none")
  /\ UNCHANGED <<tokMarker, tokWorking, revokeMu, todo, up, tpc, loc, cleared>>

Die == /\ TokFault /\ lastRead' = mtime /\ dirty' = FALSE /\ revokeMu' = "none" /\ todo' = {}
       /\ up' = FALSE /\ tpc' = [w \in Worker |-> "idle"] /\ loc' = [w \in Worker |-> NoLoc]
       /\ UNCHANGED <<mtime, tokMarker, tokWorking, promise, cleared>>
\* httpd is killed and started again: NewTokensStore reads the file.
Crash == Die /\ mem' = tokDisk /\ UNCHANGED tokDisk
\* SIGTERM: SaveLoop's last Flush writes the map whether dirty or not (the new
\* modification time is not observed by anyone and is left out).
Shutdown == up /\ mtime > 0 /\ Die /\ tokDisk' = mem /\ UNCHANGED mem

TokStep(w) == \/ StatWork(w) \/ StatMarker(w) \/ LockRevoke(w) \/ TakeMarker(w)
              \/ (\E l \in Lines : ApplyLine(w, l)) \/ RemoveWorking(w)
              \/ SyncStat(w) \/ SyncAct(w) \/ ReloadStat1(w) \/ ReloadRead(w) \/ ReloadStat2(w)
              \/ ReloadInstall(w) \/ Verify(w) \/ UpdateLastSeen(w) \/ LogoutRevoke(w)
TokNext == \/ \E w \in Worker : TokStep(w)
           \/ \E w \in Req, t \in Tok : BeginRequest(w, t) \/ BeginLogout(w, t)
           \/ \E t \in Tok : IssueToken(t) \/ Prune(t)
           \/ \E l \in Lines : ShellRevoke(l)
           \/ BeginPoll \/ FlushIfDirty \/ Crash \/ Shutdown

\* Goroutines run, pruneLoop and SaveLoop tick; clients and tokFaults owe nothing.
TokFairness == (\A w \in Worker : WF_tokVars(TokStep(w))) /\ WF_tokVars(BeginPoll)
               /\ WF_tokVars(FlushIfDirty)
TokSpec == TokInit /\ [][TokNext]_tokVars /\ TokFairness
-----------------------------------------------------------------------------
\* A revocation that reached the file holds for ever: no reload of older data, no
\* later save and no restart brings the token back (tokens.go reload, Revoke).  Not
\* so once a stat that found no file has emptied the map after the first save
\* (tokens.go:153): lastRead is 0 again and lets an older reload through.
RevokedStays == \A t \in Tok : promise[t] = "revoked" /\ ~cleared
                               => mem[t] # "live" /\ tokDisk[t] # "live"

\* A token handed out is not lost by another goroutine's save or reload, unless the
\* map was emptied by a stat that found no file before the first save
\* (tokens.go:153).
IssuedKept == \A t \in Tok : promise[t] = "live" /\ ~cleared => tokDisk[t] # "none"

\* A line the shell wrote to the bridge is applied to the map, whichever goroutine
\* takes the file over and wherever it dies (server.go:1278).
Applied(t) == mem[t] # "live" \/ cleared
QueuedApplied == \A t \in Tok : (t \in tokMarker) ~> Applied(t)

\* "CLI revocation takes effect on the next request, without a window"
\* (middleware.go:225): a request that starts after the line was written is not let in.
NextRequestRefused ==
  \A w \in Req : tpc[w] = "touch" => ~loc[w].owed

\* "A failing write is logged; SaveLoop's Flush retries it" (tokens.go:255): a
\* revocation in the map reaches the file.
RevocationSaved == \A t \in Tok :
  (mem[t] = "revoked") ~> (tokDisk[t] # "live" \/ mem[t] # "revoked")

-----------------------------------------------------------------------------
(***************************************************************************)
(* The remote port of hnc_httpd (remote_listener.go).  One loop compares   *)
(* remote_enabled of rules.json with what is running and starts or stops   *)
(* the server; each started server lives in a goroutine of its own that    *)
(* reports an unexpected exit, possibly after the loop has moved on.       *)
(***************************************************************************)
CONSTANTS MaxGen,      \* bound on rl.gen
          MaxToggles,  \* bound on changes of remote_enabled
          MaxPortMishaps   \* bound on failing listens, unreadable files and dying servers

ASSUME RemoteConstants == MaxGen \in Nat /\ MaxToggles \in Nat /\ MaxPortMishaps \in Nat

VARIABLES enabled,   \* remote_enabled in rules.json
          want,      \* rl.want, what the loop last read
          https,     \* rl.https: generation whose server is recorded, 0 for nil
          gen,       \* rl.gen
          sockets,   \* generations whose listener is open
          exited,    \* generations whose Serve returned an error not yet handled
          rpc,       \* the loop: "wait", "decide"
          toggles, portMishaps

remoteVars == <<enabled, want, https, gen, sockets, exited, rpc, toggles, portMishaps>>

RemoteTypeOK ==
  /\ enabled \in BOOLEAN /\ want \in BOOLEAN /\ https \in 0..gen /\ gen \in 0..MaxGen
  /\ sockets \subseteq 1..gen /\ exited \subseteq 1..gen /\ rpc \in {"wait", "decide"}
  /\ toggles \in 0..MaxToggles /\ portMishaps \in 0..MaxPortMishaps

RemoteInit == /\ enabled \in BOOLEAN /\ want = FALSE /\ https = 0 /\ gen = 0 /\ sockets = {}
              /\ exited = {} /\ rpc = "wait" /\ toggles = 0 /\ portMishaps = 0

Mishap == portMishaps < MaxPortMishaps /\ portMishaps' = portMishaps + 1

\* remote_enabled_set, or any other writer of rules.json.
ToggleRemote == /\ toggles < MaxToggles /\ toggles' = toggles + 1 /\ enabled' = ~enabled
                /\ UNCHANGED <<want, https, gen, sockets, exited, rpc, portMishaps>>

\* wantRemote: a file that cannot be read or parsed leaves the last answer.
ReadRules == /\ rpc = "wait" /\ rpc' = "decide"
             /\ \/ want' = enabled /\ UNCHANGED portMishaps
                \/ want' = want /\ want # enabled /\ Mishap
             /\ UNCHANGED <<enabled, https, gen, sockets, exited, toggles>>

\* sync's three cases.  start listens first, so a port still held by an older
\* generation, or by another program, makes it fail until the next round.
KeepServer == /\ rpc = "decide" /\ want = (https # 0) /\ rpc' = "wait"
              /\ UNCHANGED <<enabled, want, https, gen, sockets, exited, toggles, portMishaps>>
StartServer == /\ rpc = "decide" /\ want /\ https = 0 /\ sockets = {} /\ gen < MaxGen
               /\ gen' = gen + 1 /\ https' = gen + 1 /\ sockets' = {gen + 1} /\ rpc' = "wait"
               /\ UNCHANGED <<enabled, want, exited, toggles, portMishaps>>
StartFails == /\ rpc = "decide" /\ want /\ https = 0 /\ rpc' = "wait"
              /\ \/ sockets # {} /\ UNCHANGED portMishaps
                 \/ sockets = {} /\ Mishap
              /\ UNCHANGED <<enabled, want, https, gen, sockets, exited, toggles>>
\* stop: forget the server under the lock, then shut it down and its listener with it.
StopServer == /\ rpc = "decide" /\ ~want /\ https # 0 /\ rpc' = "wait"
              /\ https' = 0 /\ gen' = gen + 1 /\ gen < MaxGen /\ sockets' = sockets \ {https}
              /\ UNCHANGED <<enabled, want, exited, toggles, portMishaps>>

\* Serve returns an error other than ErrServerClosed: its listener is closed ...
ServeExits(g) == /\ g \in sockets /\ Mishap /\ sockets' = sockets \ {g}
                 /\ exited' = exited \cup {g}
                 /\ UNCHANGED <<enabled, want, https, gen, rpc, toggles>>
\* ... and its goroutine clears the record, if it is still of the same generation.
ReportExit(g) == /\ g \in exited /\ exited' = exited \ {g}
                 /\ https' = IF gen = g THEN 0 ELSE https
                 /\ UNCHANGED <<enabled, want, gen, sockets, rpc, toggles, portMishaps>>

RemoteLoop == ReadRules \/ KeepServer \/ StartServer \/ StartFails \/ StopServer
RemoteNext == \/ ToggleRemote \/ RemoteLoop
              \/ \E g \in 1..MaxGen : ServeExits(g) \/ ReportExit(g)

\* The loop ticks every remoteCheckEvery; an exit is reported at once.
RemoteFairness == WF_remoteVars(RemoteLoop)
                  /\ WF_remoteVars(\E g \in 1..MaxGen : ReportExit(g))
RemoteSpec == RemoteInit /\ [][RemoteNext]_remoteVars /\ RemoteFairness
-----------------------------------------------------------------------------
\* No server runs unrecorded: a listener nobody could stop again (remote_listener.go:219).
NoStrayServer == sockets \subseteq {https}

\* The port follows remote_enabled: once the setting stays (it changes MaxToggles
\* times at most), it is open or closed accordingly (remote_listener.go:98).
PortFollows == <>[](enabled = (sockets # {}))
=============================================================================
