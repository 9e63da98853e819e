------------------------------ MODULE AppTime ------------------------------
(***************************************************************************)
(* Daily limits for applications and connection blocks (app_time.go,       *)
(* conn_blocks.go, the loop of app_usage.go), for one device and one       *)
(* application.  The loop counts active time, warns, and derives what is   *)
(* to be blocked; connBlockSyncLocked writes the expansion to run/ and     *)
(* runs a script only when the expansion differs from those files.  Users  *)
(* change limits and blocks beside it, the watchdog rebuilds the firewall  *)
(* and runs the same script, the clock may be wrong, httpd may die.        *)
(***************************************************************************)
EXTENDS Naturals

CONSTANTS Limit,      \* rounds of use a day that a limit allows
          WarnBefore, \* appTimeWarnSec, in rounds
          MaxDays, MaxUse, \* bounds on days and on rounds of use a day
          MaxCtl,     \* bound on user actions and clock changes
          MaxHitches  \* bound on failing scripts, rebuilt firewalls, deaths

ASSUME AppConstants == /\ Limit \in Nat \ {0} /\ WarnBefore \in Nat /\ MaxDays \in Nat
                       /\ MaxUse \in Nat /\ MaxCtl \in Nat /\ MaxHitches \in Nat

Day == 0..MaxDays
Kind == {"app_time_warn", "app_time_exhausted"}

VARIABLES timeToday, trusted,   \* the date, and whether clockSane believes it
          limited, item,    \* app_controls.json has the limit, conn_blocks.json an item
          usage,            \* appUsage.day: date and active rounds; date MaxDays + 1 for nil
          dayFile,          \* app_usage.<timeToday>.json
          flat, kernel,     \* conn_blocks.flat and .dns block it, iptables blocks it
          sentDate, sent,   \* appTimeAlerts
          alertFile,        \* app_time_alerts.json: what sent was when it was last written
          loop,             \* the loop's next call, or the script that a sync is about to run
          used,             \* history: rounds of use timeToday
          alerts,           \* history: per kind, alerts appended timeToday
          missed,           \* history: the script failed, or did not run, after the files were written
          repeats,          \* history: deaths between an alert and the note that it was sent
          ctls, hitches

appVars == <<timeToday, trusted, limited, item, usage, dayFile, flat, kernel, sentDate, sent, alertFile,
             loop, used, alerts, missed, repeats, ctls, hitches>>
alertVars == <<sentDate, sent, alertFile, alerts, repeats>>
outside == <<timeToday, trusted, used>>

Nil == [date |-> MaxDays + 1, n |-> 0]
AppTypeOK ==
  /\ timeToday \in Day /\ trusted \in BOOLEAN /\ {limited, item, flat, kernel, missed} \subseteq BOOLEAN
  /\ usage \in [date : 0..MaxDays + 1, n : 0..MaxUse] /\ dayFile \in 0..MaxUse /\ used \in 0..MaxUse
  /\ sentDate \in 0..MaxDays + 1 /\ sent \subseteq Kind /\ alertFile \subseteq Kind
  /\ loop \in {"tick", "alert", "refresh", "script", "flush"}
  /\ alerts \in [Kind -> 0..MaxHitches + 1]

AppInit == /\ timeToday = 0 /\ trusted = TRUE /\ limited \in BOOLEAN /\ item = FALSE /\ usage = Nil
           /\ dayFile = 0 /\ flat = FALSE /\ kernel = FALSE /\ sentDate = 0 /\ sent = {}
           /\ alertFile = {} /\ loop = "tick" /\ used = 0 /\ alerts = [k \in Kind |-> 0]
           /\ missed = FALSE /\ repeats = 0 /\ ctls = 0 /\ hitches = 0

Hitch == hitches < MaxHitches /\ hitches' = hitches + 1
Ctl == ctls < MaxCtl /\ ctls' = ctls + 1

\* appTimeUsedToday, appTimeExhausted, connBlocksEffective.
UsedToday == IF usage.date = timeToday THEN usage.n ELSE 0
Exhausted == limited /\ UsedToday >= Limit
TimeWanted == item \/ Exhausted

\* appUsageTick: nothing while the clock is not believed; else the day's record, from
\* its file when it is not in memory, and one more round if the application was in
\* use, which it cannot be while it is blocked.
AppTick ==
  /\ loop = "tick" /\ loop' = "alert"
  /\ LET d == IF usage.date = timeToday THEN usage ELSE [date |-> timeToday, n |-> dayFile] IN
     \/ ~trusted /\ UNCHANGED <<usage, used>>
     \/ trusted /\ usage' = d /\ UNCHANGED used
     \/ trusted /\ ~kernel /\ used < MaxUse /\ usage' = [d EXCEPT !.n = @ + 1] /\ used' = used + 1
  /\ UNCHANGED <<timeToday, trusted, limited, item, dayFile, flat, kernel, alertVars, missed, ctls, hitches>>

\* appTimeEnforce: one alert per kind and day; exhaustion swallows the warning.  The
\* alert is appended first, then what was sent is written.
TimeDue == IF Exhausted THEN {"app_time_exhausted"}
       ELSE IF limited /\ Limit > WarnBefore /\ UsedToday >= Limit - WarnBefore THEN {"app_time_warn"} ELSE {}
SentToday == IF sentDate = timeToday THEN sent ELSE {}
AppEnforce ==
  /\ loop = "alert" /\ loop' = "refresh"
  /\ IF ~limited \/ ~trusted THEN UNCHANGED alertVars
     ELSE LET new == TimeDue \ SentToday
              all == SentToday \cup new \cup (IF "app_time_exhausted" \in new THEN Kind ELSE {}) IN
          /\ sentDate' = timeToday /\ sent' = all
          /\ alerts' = [k \in Kind |-> alerts[k] + IF k \in new THEN 1 ELSE 0]
          /\ alertFile' = (IF new = {} THEN alertFile ELSE all) /\ UNCHANGED repeats
  /\ UNCHANGED <<outside, limited, item, usage, dayFile, flat, kernel, missed, ctls, hitches>>

\* connBlockRefresh: the files are the memory of what the script last saw.
AppRefresh ==
  /\ loop = "refresh"
  /\ IF TimeWanted = flat THEN loop' = "flush" /\ UNCHANGED flat ELSE loop' = "script" /\ flat' = TimeWanted
  /\ UNCHANGED <<outside, limited, item, usage, dayFile, kernel, alertVars, missed, ctls, hitches>>
\* connblock_sync.sh on the files as they are.
AppScript ==
  /\ loop = "script" /\ loop' = "flush"
  /\ \/ kernel' = flat /\ missed' = FALSE /\ UNCHANGED hitches
     \/ Hitch /\ missed' = TRUE /\ UNCHANGED kernel
  /\ UNCHANGED <<outside, limited, item, usage, dayFile, flat, alertVars, ctls>>
\* appUsageFlush, every minute.
AppFlush ==
  /\ loop = "flush" /\ loop' = "tick"
  /\ dayFile' \in {dayFile} \cup (IF usage.date = timeToday THEN {usage.n} ELSE {})
  /\ UNCHANGED <<outside, limited, item, usage, flat, kernel, alertVars, missed, ctls, hitches>>

\* app_time_limit_set and _del (a sync that compares), conn_block_add and _del (a
\* forced one).  connBlockMu keeps syncs apart: none begins while a script is due.
Sync(want, force) ==
  \/ want = flat /\ ~force /\ UNCHANGED <<flat, kernel, missed, hitches>>
  \/ (want # flat \/ force) /\ flat' = want
     /\ \/ kernel' = want /\ missed' = FALSE /\ UNCHANGED hitches
        \/ Hitch /\ missed' = TRUE /\ UNCHANGED kernel
LimitSet ==
  /\ loop # "script" /\ Ctl /\ limited' = ~limited
  /\ Sync(item \/ (limited' /\ UsedToday >= Limit), FALSE)
  /\ UNCHANGED <<outside, item, usage, dayFile, alertVars, loop>>
ItemSet ==
  /\ loop # "script" /\ Ctl /\ item' = ~item /\ Sync(item' \/ Exhausted, TRUE)
  /\ UNCHANGED <<outside, limited, usage, dayFile, alertVars, loop>>

\* The watchdog rebuilds the firewall, which drops the chain, and then runs the
\* script on the files (watchdog.sh:262).
FirewallRebuilt == /\ Hitch /\ kernel' = flat /\ missed' = FALSE
                   /\ UNCHANGED <<outside, limited, item, usage, dayFile, flat, alertVars, loop, ctls>>
\* httpd dies; a script that was due does not run.
AppDies == /\ Hitch /\ usage' = Nil /\ sentDate' = timeToday /\ sent' = alertFile /\ loop' = "tick"
           /\ missed' = (missed \/ loop = "script")
           /\ UNCHANGED <<outside, limited, item, dayFile, flat, kernel, alertFile, alerts, repeats, ctls>>
\* ... and dies after the alert was appended, before the state was written.
DiesInEnforce ==
  /\ loop = "alert" /\ limited /\ trusted /\ TimeDue \ SentToday # {} /\ Hitch
  /\ alerts' = [k \in Kind |-> alerts[k] + IF k \in TimeDue \ SentToday THEN 1 ELSE 0]
  /\ usage' = Nil /\ sentDate' = timeToday /\ sent' = alertFile /\ loop' = "tick" /\ repeats' = repeats + 1
  /\ UNCHANGED <<outside, limited, item, dayFile, flat, kernel, alertFile, missed, ctls>>

Midnight == /\ timeToday < MaxDays /\ trusted /\ loop = "tick" /\ timeToday' = timeToday + 1 /\ used' = 0
            /\ dayFile' = 0 /\ alertFile' = {} /\ alerts' = [k \in Kind |-> 0]
            /\ UNCHANGED <<trusted, limited, item, usage, flat, kernel, sentDate, sent, loop, missed, repeats, ctls, hitches>>
\* clockSane changes its mind; connBlockRefresh does not ask it (conn_blocks.go:171).
ClockDoubted == /\ Ctl /\ trusted' = ~trusted /\ loop = "tick"
                /\ UNCHANGED <<timeToday, used, limited, item, usage, dayFile, flat, kernel, alertVars, loop, missed, hitches>>

AppLoop == AppTick \/ AppEnforce \/ AppRefresh \/ AppScript \/ AppFlush
AppNext == \/ AppLoop \/ LimitSet \/ ItemSet \/ FirewallRebuilt \/ AppDies \/ DiesInEnforce
           \/ Midnight \/ ClockDoubted

\* AppUsageLoop goes on as long as httpd does, and httpd is started again.
AppFairness == WF_appVars(AppLoop)
AppSpec == AppInit /\ [][AppNext]_appVars /\ AppFairness
-----------------------------------------------------------------------------
\* A day's use is never counted twice and survives restarts but for what was not yet
\* flushed (app_usage.go:140): it never exceeds the real use.
UseCounted == UsedToday <= used /\ dayFile <= used

\* Each alert goes out once a day; only a death between the append and the save of
\* the state repeats it (app_time.go:713).
AlertOnce == \A k \in Kind : alerts[k] <= 1 + repeats

\* What is to be blocked is blocked and what is free again is let through, once
\* users and clock rest: restarts, midnight and a rebuilt firewall included.  A
\* script that failed is not among them: the files already say the new thing.
BlockSettles == <>[](kernel = TimeWanted \/ missed)

\* "a changed expansion runs the script again, and so unblocks" (app_time.go:12).
BlockAlwaysSettles == <>[](kernel = TimeWanted)
=============================================================================
