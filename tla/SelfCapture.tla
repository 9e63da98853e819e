---------------------------- MODULE SelfCapture ----------------------------
(***************************************************************************)
(* Capture of the phone's own traffic in hnc_dpid (cmd/dpid                *)
(* self_capture.go) and the sample file it feeds (output/label_samples.go).*)
(*                                                                         *)
(* A reconciler wakes every 30 s, reads run/self_capture.enabled and the   *)
(* candidate interfaces, stops and starts one capture goroutine per        *)
(* interface and starts or stops the writer.  Captures put samples into a  *)
(* bounded channel; the writer appends them to a file per day, up to a cap *)
(* per day, and deletes files older than the retention.                    *)
(*                                                                         *)
(* Data: a sample is the time it was taken, every line has size 1; its     *)
(* text, its classification and the statistics are left out, and with them *)
(* the checks that drop a sample for its content.  The reconciler holds    *)
(* liveMu and waits for what it stops: a round is one step.                *)
(***************************************************************************)
EXTENDS Integers, Sequences

CONSTANTS SelfIf,       \* candidate interfaces
          ChanCap,      \* labelSamplesChanCap
          DailyCap,     \* labelSamplesDailyCapByte, in lines
          Retention,    \* labelSamplesRetentionDay
          LastDay,      \* bound: the clock, in days
          MaxDeaths, MaxFlips, MaxRemovals     \* bounds

ASSUME SelfAssumption ==
    /\ {ChanCap, DailyCap, Retention, MaxDeaths, MaxFlips, MaxRemovals} \subseteq Nat
    /\ LastDay \in Nat \ {0}

VARIABLES
    selfFlag,   \* run/self_capture.enabled
    cands,      \* external: DiscoverSelfCandidates
    caps,       \* [SelfIf -> "none", "run", "ended"]: live, and lc.done
    sampler,    \* the writer runs
    chan,       \* its channel
    wr,         \* its state: [day, open, linked, size, capped]
    files,      \* [day -> lines] of the sample files on disk
    today,      \* the day on the clock
    selfCnt     \* bounds: [deaths, flips, removals]

selfVars == <<selfFlag, cands, caps, sampler, chan, wr, files, today, selfCnt>>

Days == 1 .. LastDay
NoFile == -1
ClosedOn(d) == [day |-> d, open |-> FALSE, linked |-> FALSE, size |-> 0, capped |-> FALSE]
Fresh0 == ClosedOn(0)

SelfInit ==
    /\ selfFlag \in BOOLEAN /\ cands \in SUBSET SelfIf /\ caps = [i \in SelfIf |-> "none"]
    /\ sampler = FALSE /\ chan = <<>> /\ wr = Fresh0
    /\ files = [d \in Days |-> NoFile] /\ today = 1
    /\ selfCnt = [deaths |-> 0, flips |-> 0, removals |-> 0]

\* sweepExpired: files older than the retention, seen from day d.
Swept(f, d) == [e \in Days |-> IF e + Retention < d THEN NoFile ELSE f[e]]

---------------------------------------------------------------------------
\* reconcile.

\* Mutant: a capture that ended keeps its place.
KeepsDead == [i \in SelfIf |-> IF i \notin cands THEN "none"
                               ELSE IF caps[i] = "none" THEN "run" ELSE caps[i]]

\* The captures after a round that found the flag: those that are no longer
\* candidates are stopped, those that ended are collected and started again.
Restarted == [i \in SelfIf |-> IF i \in cands THEN "run" ELSE "none"]

ReconcileOn ==
    /\ selfFlag /\ caps' = Restarted /\ sampler' = TRUE
    /\ IF sampler THEN UNCHANGED <<chan, wr, files>>
       ELSE chan' = <<>> /\ wr' = Fresh0 /\ files' = Swept(files, today)
    /\ UNCHANGED <<selfFlag, cands, today, selfCnt>>

\* cancelOne waits for each capture, stopLabelSamples for the writer, which
\* closes its file and leaves what is in the channel.
ReconcileOff ==
    /\ ~selfFlag /\ caps' = [i \in SelfIf |-> "none"]
    /\ sampler' = FALSE /\ chan' = <<>> /\ wr' = Fresh0
    /\ UNCHANGED <<selfFlag, cands, files, today, selfCnt>>

\* runOneSelfCapture returns: Open failed or Run ended with an error.
CaptureDies == \E i \in SelfIf :
    /\ caps[i] = "run" /\ selfCnt.deaths < MaxDeaths
    /\ caps' = [caps EXCEPT ![i] = "ended"] /\ selfCnt' = [selfCnt EXCEPT !.deaths = @ + 1]
    /\ UNCHANGED <<selfFlag, cands, sampler, chan, wr, files, today>>

\* LabelSamplesWriter.Observe: a full channel drops the sample.
SampleSeen ==
    /\ \E i \in SelfIf : caps[i] = "run"
    /\ sampler /\ Len(chan) < ChanCap
    /\ chan' = Append(chan, today)
    /\ UNCHANGED <<selfFlag, cands, caps, sampler, wr, files, today, selfCnt>>

---------------------------------------------------------------------------
\* The writer.

\* handle, first part: a sample of another day than the last one closes the
\* file, and the first one of a day sweeps.
Turned(d) == IF d = wr.day THEN wr
             ELSE ClosedOn(d)

\* openCurrent: the size comes from the file.
Opened(w, f) ==
    IF w.open THEN w
    ELSE LET size == IF f[w.day] = NoFile THEN 0 ELSE f[w.day]
         IN  [day |-> w.day, open |-> TRUE, linked |-> TRUE, size |-> size, capped |-> size >= DailyCap]

\* handle: a line, unless the day is capped or this line would pass the cap.
HandleSample ==
    /\ sampler /\ chan # <<>> /\ chan' = Tail(chan)
    /\ LET d == Head(chan)
           w == Turned(d)
           f == IF d = wr.day THEN files ELSE Swept(files, d)
           o == Opened(w, f)
           made == IF w.capped \/ ~o.linked THEN f
                   ELSE [f EXCEPT ![d] = IF @ = NoFile THEN 0 ELSE @]
       IN  IF w.capped THEN wr' = w /\ files' = f
           ELSE IF o.size + 1 > DailyCap
           THEN wr' = [o EXCEPT !.capped = TRUE] /\ files' = made
           ELSE /\ wr' = [o EXCEPT !.size = @ + 1]
                /\ files' = IF o.linked THEN [made EXCEPT ![d] = @ + 1] ELSE made
    /\ UNCHANGED <<selfFlag, cands, caps, sampler, today, selfCnt>>

\* reopenIfRemoved, every minute.
ReopenIfRemoved ==
    /\ sampler /\ wr.open /\ files[wr.day] = NoFile
    /\ wr' = ClosedOn(wr.day)
    /\ UNCHANGED <<selfFlag, cands, caps, sampler, chan, files, today, selfCnt>>

---------------------------------------------------------------------------
\* Someone deletes a sample file under the writer.
RemoveFile == \E d \in Days :
    /\ files[d] # NoFile /\ selfCnt.removals < MaxRemovals
    /\ files' = [files EXCEPT ![d] = NoFile]
    /\ wr' = IF wr.day = d THEN [wr EXCEPT !.linked = FALSE] ELSE wr
    /\ selfCnt' = [selfCnt EXCEPT !.removals = @ + 1]
    /\ UNCHANGED <<selfFlag, cands, caps, sampler, chan, today>>

Flip ==
    /\ selfCnt.flips < MaxFlips /\ selfCnt' = [selfCnt EXCEPT !.flips = @ + 1]
    /\ \/ selfFlag' = ~selfFlag /\ UNCHANGED cands
       \/ cands' \in SUBSET SelfIf /\ UNCHANGED selfFlag
    /\ UNCHANGED <<caps, sampler, chan, wr, files, today>>

NextDay == /\ today < LastDay /\ today' = today + 1
           /\ UNCHANGED <<selfFlag, cands, caps, sampler, chan, wr, files, selfCnt>>

SelfNext == ReconcileOn \/ ReconcileOff \/ CaptureDies \/ SampleSeen \/ HandleSample
            \/ ReopenIfRemoved \/ RemoveFile \/ Flip \/ NextDay

\* The reconciler's ticker runs as long as dpid does.
SelfFairness == WF_selfVars(ReconcileOn) /\ WF_selfVars(ReconcileOff)
SelfSpec == SelfInit /\ [][SelfNext]_selfVars /\ SelfFairness

---------------------------------------------------------------------------
\* LabelSamplesWriter: its day and file, the size so far and whether the day is full.
WriterState == [day : 0 .. LastDay, open : BOOLEAN, linked : BOOLEAN, size : 0 .. DailyCap, capped : BOOLEAN]
SelfTypeOK ==
    /\ selfFlag \in BOOLEAN /\ cands \subseteq SelfIf /\ sampler \in BOOLEAN
    /\ caps \in [SelfIf -> {"none", "run", "ended"}] /\ chan \in Seq(Days) /\ Len(chan) <= ChanCap
    /\ wr \in WriterState /\ today \in Days
    /\ files \in [Days -> Nat \union {NoFile}]

\* No day's file grows past the daily cap: not when samples of two days
\* alternate around midnight, nor when the writer is stopped and started or
\* the file is deleted under it (handle, openCurrent, reopenIfRemoved).
DayCapKept == \A d \in Days : files[d] # NoFile => files[d] <= DailyCap

\* "the reconciler will see this iface ... on the next tick and restart us":
\* once flag and interfaces rest and captures stop failing, the captures are
\* exactly the candidates, and none without the flag.
Followed == caps = [i \in SelfIf |-> IF selfFlag /\ i \in cands THEN "run" ELSE "none"]
CapturesFollow == <>[]Followed
=============================================================================
