------------------------------ MODULE FpLearn ------------------------------
(***************************************************************************)
(* The flow log of hnc_dpid (output/flowlog.go) and the fingerprint store  *)
(* of hnc_httpd that learns from it (fp_learn.go); after it the learner    *)
(* and the recogniser of application starts (startup_fp.go) and, at the    *)
(* end, the table of address owners (ip_owner.go).                         *)
(*                                                                         *)
(* hnc_dpid numbers every ClientHello, keeps the last ones in a ring and   *)
(* writes the ring to run/dpi_flows.json when it has changed; hnc_httpd    *)
(* stats that file, reads it, and learns the label of every record whose   *)
(* number is beyond its cursor.  Learned counts are saved now and then, the*)
(* cursor is not.  A connection without a name is attributed to an         *)
(* application when its fingerprint has enough support and is pure.        *)
(*                                                                         *)
(* Data: a hello is the number it has in `hellos'; a connection is its     *)
(* five-tuple, of a device (ConnDev) and with the one server, so that a    *)
(* device is a pair too; a fingerprint is its JA4.  A weight of 1 is Unit, *)
(* the one taken from DNS half of it.  Behaviours lie within one half-life,*)
(* so nothing decays and no device of an entry is too old; the limit on    *)
(* their number, the transport-parameter keys and the statistics are left  *)
(* out.                                                                    *)
(***************************************************************************)
EXTENDS Integers, FiniteSets, Sequences, FiniteSetsExt, SequencesExt, Functions

CONSTANTS
    Conn,                     \* five-tuples
    ConnDev,                  \* [Conn -> the client's device]
    Ja4,                      \* fingerprints
    AppLab,                   \* applications the rules know
    FlowLogMax,               \* flowLogMax
    FlowLogMaxAge,            \* flowLogMaxAge
    DedupSec,                 \* flowLogDedupSec
    PairSec,                  \* fpPairSec
    Unit, MinSupport, MinMulti, TotalCap,   \* weights: fpMinSupport, fpMinSupportMulti ...
    MinFpDevs,                \* fpMinDevices
    MaxHello, MaxFpTime, MaxFpFaults        \* bounds

ASSUME FpAssumption ==
    /\ FlowLogMax \in Nat \ {0} /\ Unit \in Nat \ {0} /\ Conn # {} /\ Ja4 # {}
    /\ MinSupport >= MinMulti /\ TotalCap >= MinSupport

VARIABLES
    fclk,       \* seconds
    hellos,     \* history: every numbered hello, [boot, seq, c, f, lab, w]
    flog,       \* hnc_dpid: [boot, seq, ring, at, idx, dirty], ring of hello numbers
    flogTs,     \* the Ts of every record of the ring, by hello
    flushed,    \* hnc_dpid's Flush between its two halves: <<>> or <<its snapshot>>
    flowFile,   \* run/dpi_flows.json: [ver, boot, flows]; ver is its mtime, 0 when absent
    fp,         \* hnc_httpd's store: [boot, cursor, key, dirty]
    tab,        \* [Ja4 -> [n, total, devs]], the learned counts
    binds,      \* [Conn -> hello bound to the connection, 0 for none]
    pairB,      \* [device -> its latest hello to the server, 0 for none]
    ftick,      \* the tick under way: [at, key, boot, recs]
    learnedFile,\* data/fp_learned.json
    times,      \* history: how often each hello is counted in memory
    timesFile,  \* history: how often each hello is counted in the file
    heard,      \* history: hellos learned since hnc_httpd started
    misread,    \* history: the last flow file was not readable
    fpRes,      \* result of the last attribution by fingerprint: <<f, app>> or <<>>
    fpCnt       \* [faults |-> ..., again |-> restarts and misreads]

logVars == <<hellos, flog, flogTs, flushed, flowFile>>
learnVars == <<fp, tab, binds, pairB, ftick, times, heard, misread>>
savedVars == <<learnedFile, timesFile>>
fpVars == <<fclk, logVars, learnVars, savedVars, fpRes, fpCnt>>

Lab == AppLab \cup {"_other"}
HelloId == 1..MaxHello
FpDevs == Range(ConnDev)
Blank0 == [f \in Ja4 |-> [n |-> [l \in Lab |-> 0], total |-> 0, devs |-> {}]]
NoPair == [d \in FpDevs |-> 0]
NoTick == [at |-> "idle", key |-> 0, boot |-> 0, recs |-> <<>>]
FreshLog(boot) == [boot |-> boot, seq |-> 0, ring |-> <<>>, at |-> 0,
                   idx |-> [c \in Conn |-> 0], dirty |-> FALSE]
FreshStore == [boot |-> 0, cursor |-> 0, key |-> 0, dirty |-> FALSE]
Zero == [h \in HelloId |-> 0]
FpFault == fpCnt.faults < MaxFpFaults /\ fpCnt' = [fpCnt EXCEPT !.faults = @ + 1]
FpAgain == /\ fpCnt.faults < MaxFpFaults
           /\ fpCnt' = [faults |-> fpCnt.faults + 1, again |-> fpCnt.again + 1]

FpInit ==
    /\ fclk = 0 /\ hellos = <<>> /\ flog = FreshLog(1) /\ flogTs = Zero
    /\ flushed = <<>> /\ flowFile = [ver |-> 0, boot |-> 0, flows |-> <<>>]
    /\ fp = FreshStore /\ tab = Blank0 /\ binds = [c \in Conn |-> 0] /\ pairB = NoPair
    /\ ftick = NoTick /\ learnedFile = Blank0 /\ times = Zero /\ timesFile = Zero
    /\ heard = {} /\ misread = FALSE /\ fpRes = <<>>
    /\ fpCnt = [faults |-> 0, again |-> 0]

----------------------------------------------------------------------------
(* hnc_dpid.                                                               *)

\* The position the next record takes in the ring, and where the oldest is.
Place == IF Len(flog.ring) < FlowLogMax THEN Len(flog.ring) + 1 ELSE flog.at + 1

\* A repeat of the hello bound to the connection, not long after it.
Repeat(c, f) ==
    /\ flog.idx[c] # 0
    /\ LET h == flog.ring[flog.idx[c]] IN
          hellos[h].f = f /\ fclk - flogTs[h] <= DedupSec

\* A record that the ring drops keeps no index.
Unindexed(idx, p) ==
    IF p > Len(flog.ring) THEN idx
    ELSE LET c == hellos[flog.ring[p]].c IN
         IF idx[c] = p THEN [idx EXCEPT ![c] = 0] ELSE idx

\* RecordQTP: one ClientHello; lab is what fpLabel will make of it, "" for a
\* name of a hidden category, and w its weight.
RecordHello(c, f, lab, w) ==
    IF Repeat(c, f)
    THEN /\ flogTs' = [flogTs EXCEPT ![flog.ring[flog.idx[c]]] = fclk]
         /\ UNCHANGED <<hellos, flog>>
    ELSE /\ Len(hellos) < MaxHello
         /\ LET h == Len(hellos) + 1  p == Place IN
            /\ hellos' = Append(hellos, [boot |-> flog.boot, seq |-> flog.seq + 1,
                                         c |-> c, f |-> f, lab |-> lab, w |-> w])
            /\ flogTs' = [flogTs EXCEPT ![h] = fclk]
            /\ flog' = [flog EXCEPT !.seq = @ + 1, !.dirty = TRUE,
                          !.ring = IF p > Len(@) THEN Append(@, h) ELSE [@ EXCEPT ![p] = h],
                          !.at = IF p = FlowLogMax THEN 0 ELSE p,
                          !.idx = [Unindexed(@, p) EXCEPT ![c] = p]]

Hear == \E c \in Conn, f \in Ja4, lab \in Lab \cup {""}, w \in {Unit, Unit \div 2} :
    /\ (lab = "_other" => w = Unit) /\ (lab = "" => w = Unit)
    /\ RecordHello(c, f, lab, w)
    /\ UNCHANGED <<fclk, flushed, flowFile, learnVars, savedVars, fpRes, fpCnt>>

\* snapshotLocked: the ring from its oldest record on, without the old ones.
Snapshot ==
    LET n == Len(flog.ring)
        start == IF n = FlowLogMax THEN flog.at ELSE 0
        all == [i \in 1..n |-> flog.ring[((start + i - 1) % n) + 1]]
    IN SelectSeq(all, LAMBDA h : fclk - flogTs[h] <= FlowLogMaxAge)

\* Flush, under the lock: the snapshot is taken and the log is clean.
FlushTakes ==
    /\ flushed = <<>> /\ flog.dirty
    /\ flushed' = <<Snapshot>> /\ flog' = [flog EXCEPT !.dirty = FALSE]
    /\ UNCHANGED <<fclk, hellos, flogTs, flowFile, learnVars, savedVars, fpRes, fpCnt>>

\* Flush, after the lock: the file is replaced, or the log is dirty again.
FlushWrites ==
    /\ flushed # <<>> /\ flushed' = <<>>
    /\ \/ /\ flowFile' = [ver |-> flowFile.ver + 1, boot |-> flog.boot, flows |-> flushed[1]]
          /\ UNCHANGED <<flog, fpCnt>>
       \/ /\ FpFault /\ flog' = [flog EXCEPT !.dirty = TRUE] /\ UNCHANGED flowFile
    /\ UNCHANGED <<fclk, hellos, flogTs, learnVars, savedVars, fpRes>>

\* hnc_dpid is restarted; NewFlowLog takes the time as its boot.
DpidRestarts ==
    /\ FpFault /\ flog' = FreshLog(flog.boot + 1) /\ flushed' = <<>>
    /\ UNCHANGED <<fclk, hellos, flogTs, flowFile, learnVars, savedVars, fpRes>>

----------------------------------------------------------------------------
(* hnc_httpd.                                                              *)

\* ingestLocked: another boot starts from the first record.
CursorFor(boot) == IF boot # fp.boot THEN 0 ELSE fp.cursor

\* fpEntry.learn: a count is added; beyond the cap all are halved; the device is noted.
Learn(e, lab, w, dev) ==
    LET n == [e.n EXCEPT ![lab] = @ + w]
        half == [l \in Lab |-> n[l] \div 2]
    IN IF e.total + w > TotalCap
       THEN [n |-> half, total |-> SumFunction(half), devs |-> e.devs \cup {dev}]
       ELSE [n |-> n, total |-> e.total + w, devs |-> e.devs \cup {dev}]

\* The records beyond the cursor, in the order of the file: each one moves
\* the cursor, so that a smaller number after a greater one is passed over.
NewOnes(recs, cur) ==
    FoldLeft(LAMBDA a, h : IF hellos[h].seq <= a.cur THEN a
                           ELSE [cur |-> hellos[h].seq, got |-> Append(a.got, h)],
             [cur |-> cur, got |-> <<>>], recs)

\* tick: stat.
FpStat ==
    /\ ftick.at = "idle"
    /\ flowFile.ver # 0 /\ flowFile.ver # fp.key
    /\ ftick' = [NoTick EXCEPT !.at = "read", !.key = flowFile.ver]
    /\ UNCHANGED <<fclk, logVars, fp, tab, binds, pairB, times, heard, misread,
                   savedVars, fpRes, fpCnt>>

\* tick when the file is the one already seen: only the save.
FpTickQuiet ==
    /\ ftick.at = "idle" /\ flowFile.ver = fp.key /\ fp.dirty
    /\ learnedFile' = tab /\ timesFile' = times /\ fp' = [fp EXCEPT !.dirty = FALSE]
    /\ UNCHANGED <<fclk, logVars, tab, binds, pairB, ftick, times, heard, misread,
                   fpRes, fpCnt>>

\* The key that is remembered is the one stat gave.
KeyOfTick == ftick.key

\* tick: the file as it is now is read; when that fails nothing is in it and
\* its boot is 0.
FpRead ==
    /\ ftick.at = "read"
    /\ \/ /\ ftick' = [ftick EXCEPT !.at = "ingest", !.boot = flowFile.boot,
                                    !.recs = flowFile.flows]
          /\ misread' = FALSE /\ UNCHANGED fpCnt
       \/ /\ FpAgain /\ ftick' = [ftick EXCEPT !.at = "ingest"] /\ misread' = TRUE
    /\ UNCHANGED <<fclk, logVars, fp, tab, binds, pairB, times, heard, savedVars, fpRes>>

\* tick, under the lock: loadLocked, ingestLocked, and the save, at most every
\* ten minutes and only when something was learned.
FpIngest ==
    /\ ftick.at = "ingest" /\ ftick' = NoTick
    /\ LET r == NewOnes(ftick.recs, CursorFor(ftick.boot))
           labelled == SelectSeq(r.got, LAMBDA h : hellos[h].lab # "")
           add(t, h) == [t EXCEPT ![hellos[h].f] = Learn(@, hellos[h].lab, hellos[h].w, ConnDev[hellos[h].c])]
           bind(b, h) == [b EXCEPT ![hellos[h].c] = h]
           dirty == fp.dirty \/ labelled # <<>>
       IN /\ tab' = FoldLeft(add, tab, labelled)
          /\ times' = FoldLeft(LAMBDA k, h : [k EXCEPT ![h] = @ + 1], times, labelled)
          /\ heard' = heard \cup Range(r.got)
          /\ binds' = FoldLeft(bind, binds, r.got)
          /\ pairB' = FoldLeft(LAMBDA b, h : [b EXCEPT ![ConnDev[hellos[h].c]] = h], pairB, r.got)
          /\ \E saves \in BOOLEAN :
                /\ saves => dirty
                /\ fp' = [boot |-> ftick.boot, cursor |-> r.cur, key |-> KeyOfTick,
                          dirty |-> dirty /\ ~saves]
                /\ learnedFile' = IF saves THEN tab' ELSE learnedFile
                /\ timesFile' = IF saves THEN times' ELSE timesFile
    /\ UNCHANGED <<fclk, logVars, misread, fpRes, fpCnt>>

\* hnc_httpd dies; what it saved is what it knows when it is back.
HttpdRestarts ==
    /\ FpAgain /\ fp' = FreshStore /\ tab' = learnedFile /\ times' = timesFile
    /\ binds' = [c \in Conn |-> 0] /\ pairB' = NoPair /\ ftick' = NoTick
    /\ heard' = {} /\ misread' = FALSE
    /\ UNCHANGED <<fclk, logVars, savedVars, fpRes>>

\* fpEntry.verdict, FpUsable: enough support, less of it when several devices gave
\* it, and nine tenths of it one application's.
Enough(e) == e.total >= MinSupport \/ (e.total >= MinMulti /\ Cardinality(e.devs) >= MinFpDevs)
FpUsable(e) == Enough(e) /\ \E l \in AppLab : 10 * e.n[l] >= 9 * e.total

\* fpAttrLocked for a connection without a name: its own hello, or the latest
\* one between the two addresses.
Attribute(c) ==
    LET p == pairB[ConnDev[c]]
        h == IF binds[c] # 0 THEN binds[c]
             ELSE IF p # 0 /\ fclk - flogTs[p] <= PairSec THEN p ELSE 0
    IN /\ h # 0
       /\ LET f == hellos[h].f IN
          fpRes' = IF FpUsable(tab[f])
                   THEN <<f, CHOOSE l \in AppLab : 10 * tab[f].n[l] >= 9 * tab[f].total>>
                   ELSE <<>>

ConnSeen == /\ \E c \in Conn : Attribute(c)
            /\ UNCHANGED <<fclk, logVars, learnVars, savedVars, fpCnt>>

FpSecond == /\ fclk < MaxFpTime /\ fclk' = fclk + 1
            /\ UNCHANGED <<logVars, learnVars, savedVars, fpRes, fpCnt>>

FpNext == \/ Hear \/ FlushTakes \/ FlushWrites \/ DpidRestarts
          \/ FpStat \/ FpTickQuiet \/ FpRead \/ FpIngest \/ HttpdRestarts
          \/ ConnSeen \/ FpSecond

FpSpec == FpInit /\ [][FpNext]_fpVars

----------------------------------------------------------------------------
FpTypeOK ==
    /\ fclk \in 0..MaxFpTime /\ Len(hellos) <= MaxHello
    /\ Len(flog.ring) <= FlowLogMax /\ flog.at \in 0..FlowLogMax
    /\ \A c \in Conn : flog.idx[c] \in 0..Len(flog.ring) /\ binds[c] \in 0..Len(hellos)
    /\ flowFile.flows \in Seq(HelloId) /\ ftick.at \in {"idle", "read", "ingest"}
    /\ \A f \in Ja4 : tab[f].total \in Nat

\* The ring and its index (flowlog.go RecordQTP) never mix two connections up,
\* however often the ring has wrapped: what the index gives for a connection is
\* a hello of that connection, so a repeat extends the right record.
IndexOwn == \A c \in Conn : flog.idx[c] # 0 => hellos[flog.ring[flog.idx[c]]].c = c

\* hnc_httpd passes over what is not beyond its cursor, so everything rests
\* on the order of the file (snapshotLocked): when the file it last remembered
\* is still the one on disk and was readable, it has heard every record of it,
\* after any wrap of the ring, any restart of hnc_dpid and any file replaced
\* between the stat and the read of one tick (fp_learn.go tick).
FileLearned ==
    (ftick.at = "idle" /\ fp.key # 0 /\ fp.key = flowFile.ver /\ ~misread)
        => Range(flowFile.flows) \subseteq heard

\* A hello is counted at most once more than hnc_httpd was restarted or failed
\* to read the flow file (fp_learn.go ingestLocked, cursor).
CountedOnce == \A h \in HelloId : times[h] <= 1 + fpCnt.again

\* Distinct hellos heard with a label, by weight.
HeardWeight(f, l) ==
    MapThenSumSet(LAMBDA h : hellos[h].w,
                  {h \in 1..Len(hellos) : hellos[h].f = f /\ hellos[h].lab = l})

\* Devices a labelled hello of the fingerprint came from.
HeardDevs(f) == {ConnDev[hellos[h].c] : h \in {g \in 1..Len(hellos) : hellos[g].f = f /\ hellos[g].lab # ""}}

\* Without restarts and misreads an attribution by fingerprint has been
\* earned: hellos of that fingerprint with that very label amount to nine
\* tenths of the support asked for, of the lower one only when as many devices
\* as it takes sent one (fp_learn.go:230 verdict, learn and its cap).
AttributionEarned ==
    (fpRes # <<>> /\ fpCnt.again = 0) =>
        LET heavy(s) == 10 * HeardWeight(fpRes[1], fpRes[2]) >= 9 * s IN
        \/ heavy(MinSupport)
        \/ heavy(MinMulti) /\ Cardinality(HeardDevs(fpRes[1])) >= MinFpDevs

\* The counts add up to the total that supports a verdict, through halvings,
\* saves and reloads (fp_learn.go learn, verdict divides one by the other).
TotalIsSum == \A f \in Ja4 : tab[f].total = SumFunction(tab[f].n)

\* Said by fp_learn.go: "每个 ClientHello 给一个标签 ... 权重 1": no ClientHello is
\* counted twice.
EachHelloOnce == \A h \in HelloId : times[h] <= 1
-----------------------------------------------------------------------------
(***************************************************************************)
(* Learning of start-up fingerprints by hnc_httpd (startup_fp.go learnOnce)*)
(*                                                                         *)
(* hnc_dpid appends one line per sample to the file of the day.  At most   *)
(* every half hour hnc_httpd reads on from its cursor {date, offset}, at   *)
(* most so many lines, cuts the samples of each package into starts (a     *)
(* sample long after the previous one opens a window) and counts every     *)
(* start with two tokens.  Cursor, open windows and counts are saved in one*)
(* file; the process may die at any point.                                 *)
(*                                                                         *)
(* Data: a sample is [ts, p, tok]; a package stands for its application.   *)
(* Behaviours lie within one half-life, so nothing decays, and the limits  *)
(* on applications, packages and tokens are not reached.                   *)
(***************************************************************************)
CONSTANTS Pkg, Token,
          LearnDays,            \* the days samples are taken on, 1..LearnDays
          GapSec, WinSec,       \* startupGapSec, startupWinSec
          ReadLines,            \* startupMaxLines
          MaxSamples, MaxSfTime, MaxSfFaults     \* bounds

ASSUME StartupAssumption == GapSec > WinSec /\ WinSec > 0 /\ ReadLines > 0

VARIABLES
    sfClk,      \* seconds
    sfDay,      \* today
    smp,        \* [day -> the lines of its file]
    st,         \* the store in memory: [cur, open, last, starts]
    stFile,     \* data/startup_fp.json
    lrn,        \* learnOnce under way: [at, dates, cur, batch, budget]
    late,       \* history: a window was closed before its lines were read
    missed,     \* history: a file could not be opened
    sfFaults

learnerVars == <<st, stFile, lrn, late, missed>>
startVars == <<sfClk, sfDay, smp, learnerVars, sfFaults>>

Days0 == 1..LearnDays
NoOpen == [start |-> 0, toks |-> {}]
Store0 == [cur |-> <<0, 0>>, open |-> [p \in Pkg |-> NoOpen],
           last |-> [p \in Pkg |-> 0], starts |-> [p \in Pkg |-> 0]]
NoLearn == [at |-> "idle", dates |-> <<>>, cur |-> <<0, 0>>, batch |-> <<>>, budget |-> 0]
SfFault == sfFaults < MaxSfFaults /\ sfFaults' = sfFaults + 1
Lines == FlattenSeq(smp)

StartInit ==
    /\ sfClk = 1 /\ sfDay = 1 /\ smp = [d \in Days0 |-> <<>>]
    /\ st = Store0 /\ stFile = Store0 /\ lrn = NoLearn
    /\ late = FALSE /\ missed = FALSE /\ sfFaults = 0

\* hnc_dpid takes a sample.
SampleWritten == \E p \in Pkg, t \in Token :
    /\ Len(Lines) < MaxSamples
    /\ smp' = [smp EXCEPT ![sfDay] = Append(@, [ts |-> sfClk, p |-> p, tok |-> t])]
    /\ UNCHANGED <<sfClk, sfDay, learnerVars, sfFaults>>

SfSecond == /\ sfClk < MaxSfTime /\ sfClk' = sfClk + 1
            /\ \E d \in {sfDay, sfDay + 1} \cap Days0 : sfDay' = d
            /\ UNCHANGED <<smp, learnerVars, sfFaults>>

\* learnOnce: the cursor and the list of the files from its date on.
LearnBegins ==
    /\ lrn.at = "idle"
    /\ LET ds == {d \in Days0 : smp[d] # <<>> /\ d >= st.cur[1]} IN
       lrn' = [NoLearn EXCEPT !.at = "read", !.cur = st.cur, !.budget = ReadLines,
                              !.dates = SetToSortSeq(ds, <)]
    /\ UNCHANGED <<sfClk, sfDay, smp, st, stFile, late, missed, sfFaults>>

\* Where the cursor is after a file was read up to off: at the next one when
\* lines may still be read and there is one.
AfterFile(d, off, budget) ==
    IF budget > 0 /\ Len(lrn.dates) > 1 THEN <<lrn.dates[2], 0>> ELSE <<d, off>>

\* startupReadFrom one file, and learnOnce's cursor after it.
LearnReads ==
    /\ lrn.at = "read" /\ lrn.dates # <<>> /\ lrn.budget > 0
    /\ LET d == Head(lrn.dates)
           from == IF d = lrn.cur[1] THEN lrn.cur[2] ELSE 0
           off == IF Len(smp[d]) < from THEN 0 ELSE from
           n == Min({Len(smp[d]) - off, lrn.budget})
           took(k, o) == lrn' = [lrn EXCEPT !.batch = @ \o SubSeq(smp[d], off + 1, off + k),
                                            !.budget = @ - k, !.dates = Tail(@),
                                            !.cur = AfterFile(d, o, lrn.budget - k)]
       IN \/ took(n, off + n) /\ UNCHANGED <<missed, sfFaults>>
          \/ /\ SfFault /\ took(0, from)     \* it does not open
             /\ missed' = TRUE
    /\ UNCHANGED <<sfClk, sfDay, smp, st, stFile, late>>

\* A finished window counts when it has two tokens.
Counted(s, p) == [s EXCEPT !.starts[p] = IF Cardinality(s.open[p].toks) >= 2 THEN @ + 1 ELSE @,
                           !.open[p] = NoOpen]

\* startupSegmenter.feed.
Feed(s, x) ==
    LET p == x.p
        closed == IF s.open[p] # NoOpen /\ x.ts > s.open[p].start + WinSec
                  THEN Counted(s, p) ELSE s
        new == IF closed.open[p] # NoOpen
               THEN [closed EXCEPT !.open[p].toks = @ \cup {x.tok}]
               ELSE IF closed.last[p] = 0 \/ x.ts >= closed.last[p] + GapSec
               THEN [closed EXCEPT !.open[p] = [start |-> x.ts, toks |-> {x.tok}]]
               ELSE closed
    IN [new EXCEPT !.last[p] = Max({@, x.ts})]

\* startupSegmenter.flush: the windows that ended before upTo.
Ended(s, upTo) == {p \in Pkg : s.open[p] # NoOpen /\ s.open[p].start + WinSec < upTo}
FlushOpen(s, upTo) ==
    [s EXCEPT !.starts = [p \in Pkg |-> IF p \in Ended(s, upTo) THEN Counted(s, p).starts[p] ELSE @[p]],
              !.open = [p \in Pkg |-> IF p \in Ended(s, upTo) THEN NoOpen ELSE @[p]]]

\* fileLocked: what is saved.
Saved0(s) == s

\* learnOnce under the lock again: the samples are fed, the windows that are
\* over are counted, and everything is saved; a failed save is not noticed.
LearnEnds ==
    /\ lrn.at = "read" /\ (lrn.dates = <<>> \/ lrn.budget = 0) /\ lrn' = NoLearn
    /\ LET fed == FoldLeft(Feed, st, lrn.batch)
           maxTs == Max({0} \cup {x.ts : x \in Range(lrn.batch)})
           byData == IF maxTs > 0 THEN FlushOpen(fed, maxTs) ELSE fed
           upTo == IF sfClk > GapSec THEN sfClk - GapSec ELSE 0
           byTime == FlushOpen(byData, upTo)
       IN /\ st' = [byTime EXCEPT !.cur = lrn.cur]
          /\ late' = (late \/ \E p \in Ended(byData, upTo) : \E i \in 1..Len(Lines) :
                         /\ Lines[i].p = p /\ Lines[i].ts >= byData.open[p].start
                         /\ Lines[i].ts <= byData.open[p].start + WinSec
                         /\ Lines[i].tok \notin byData.open[p].toks)
    /\ \/ stFile' = Saved0(st') /\ UNCHANGED sfFaults
       \/ SfFault /\ UNCHANGED stFile
    /\ UNCHANGED <<sfClk, sfDay, smp, missed>>

\* hnc_httpd dies and loads its file again.
StartupCrash ==
    /\ SfFault /\ st' = stFile /\ lrn' = NoLearn
    /\ UNCHANGED <<sfClk, sfDay, smp, stFile, late, missed>>

StartNext == \/ SampleWritten \/ SfSecond \/ LearnBegins \/ LearnReads \/ LearnEnds
             \/ StartupCrash

StartSpec0 == StartInit /\ [][StartNext]_startVars

----------------------------------------------------------------------------
StartTypeOK0 ==
    /\ sfClk \in 1..MaxSfTime /\ sfDay \in Days0 /\ Len(Lines) <= MaxSamples
    /\ st.cur[1] \in 0..LearnDays /\ lrn.at \in {"idle", "read"}
    /\ \A p \in Pkg : st.starts[p] \in 0..MaxSamples /\ st.last[p] \in 0..MaxSfTime

\* The starts that are in the samples: a sample long after the one before it
\* of the same package, with two tokens in its window.
TrueStarts(p) ==
    LET own == SelectSeq(Lines, LAMBDA x : x.p = p)
        tokens(i) == {own[j].tok : j \in {k \in i..Len(own) : own[k].ts <= own[i].ts + WinSec}}
    IN {i \in 1..Len(own) : /\ i > 1 => own[i].ts >= own[i - 1].ts + GapSec
                            /\ Cardinality(tokens(i)) >= 2}

\* No start is counted twice, or where there is none, however the files are
\* cut into readings and whatever is lost and read again by crashes and failed
\* saves (startup_fp.go learnOnce, loadLocked, fileLocked).
StartsTrue == ~missed => \A p \in Pkg : st.starts[p] <= Cardinality(TrueStarts(p))

\* When everything has been read and no window is open, every start has been
\* counted; unless a file did not open, or the time closed a window while the
\* rest of its lines was still waiting behind the line limit (startup_fp.go
\* learnOnce: budget, flush).
StartsComplete ==
    ( /\ lrn.at = "idle" /\ ~missed /\ ~late
      /\ \A d \in Days0 : smp[d] # <<>> => \/ d < st.cur[1]
                                           \/ d = st.cur[1] /\ Len(smp[d]) = st.cur[2]
      /\ \A p \in Pkg : st.open[p] = NoOpen )
    => \A p \in Pkg : st.starts[p] = Cardinality(TrueStarts(p))
-----------------------------------------------------------------------------
(***************************************************************************)
(* Recognition of application starts on hotspot devices (startup_fp.go     *)
(* buildStartupModel, startupRecognizer.feed, observe).                    *)
(*                                                                         *)
(* Each named ClientHello of a device gives a token.  The tokens of the    *)
(* last seconds are matched with the features of every application; the    *)
(* application with the best recall is taken to have started, when it leads*)
(* every other one clearly, and not again for ten minutes.                 *)
(*                                                                         *)
(* Data: an application's counts are chosen at the start among Count, as   *)
(* tenths of its starts, for itself and for what was imported.  Recall is a*)
(* whole number of hundredths.  One device: the window and the events of a *)
(* device do not depend on the others.                                     *)
(***************************************************************************)
CONSTANTS SApp,            \* applications, in the order of their ids: a sequence
          STok,            \* tokens
          Count,           \* frequencies of a token in an application's starts, in tenths
          FeatMaxApps,     \* startupFeatMaxApps
          SeenWin, EventDedup,   \* startupWinSec, startupDedupSec
          MaxSeen0, MaxSeenTime  \* bounds

VARIABLES
    freq,       \* [app -> [token -> tenths]], what was learned or imported
    seenClk,    \* seconds
    devToks,    \* the device's recent <<ts, token>>
    lastEvt,    \* [app -> time of its last event, -1 for none]
    events,     \* history: every event, [app, ts, toks]
    fed         \* number of records so far

seenVars == <<freq, seenClk, devToks, lastEvt, events, fed>>

SApps == Range(SApp)

\* buildStartupModel: a feature is a token of at least half of the starts that
\* few applications share; an application needs two.
Often(a) == {t \in STok : freq[a][t] >= 5}
Feat(a) == {t \in Often(a) : Cardinality({b \in SApps : t \in Often(b)}) <= FeatMaxApps}
InModel == {a \in SApps : Cardinality(Feat(a)) >= 2}
Weight(a, toks) == MapThenSumSet(LAMBDA t : freq[a][t], toks)

SeenInit ==
    /\ freq \in [SApps -> [STok -> Count]]
    /\ seenClk = 0 /\ devToks = {} /\ lastEvt = [a \in SApps |-> -1]
    /\ events = {} /\ fed = 0

\* What of an application's features is present, and the share of their weight.
Match(a, present) == Feat(a) \cap present
Recall(a, present) == (100 * Weight(a, Match(a, present))) \div Weight(a, Feat(a))

\* The loop over the applications some token of which is present.
Pick(apps, present) ==
    FoldLeft(LAMBDA b, a :
               LET r == Recall(a, present) IN
               IF Cardinality(Match(a, present)) >= 2 /\ r >= 50 /\ r > b.bestR
               THEN [best |-> a, bestR |-> r,
                     secondR |-> IF b.best # "" THEN Max({b.secondR, b.bestR}) ELSE b.secondR]
               ELSE [b EXCEPT !.secondR = Max({@, r})],
             [best |-> "", bestR |-> 0, secondR |-> 0], apps)

\* The application's last event is less than ten minutes old.
Told(a) == lastEvt[a] # -1 /\ seenClk - lastEvt[a] < EventDedup

\* observe one record: startupRecognizer.feed.
Observed0(t) ==
    LET w == {x \in devToks \cup {<<seenClk, t>>} : x[1] >= seenClk - SeenWin}
        present == {x[2] : x \in w}
        known == \E a \in InModel : t \in Feat(a)
        order == SelectSeq(SApp, LAMBDA a : a \in InModel /\ Match(a, present) # {})
        b == Pick(order, present)
        event == known /\ b.best # "" /\ b.bestR - b.secondR >= 20 /\ ~Told(b.best)
    IN /\ devToks' = w
       /\ lastEvt' = IF event THEN [lastEvt EXCEPT ![b.best] = seenClk] ELSE lastEvt
       /\ events' = IF event
                    THEN events \cup {[app |-> b.best, ts |-> seenClk, toks |-> present]}
                    ELSE events

HelloSeen == /\ InModel # {} /\ fed < MaxSeen0 /\ fed' = fed + 1
             /\ \E t \in STok : Observed0(t)
             /\ UNCHANGED <<freq, seenClk>>

\* Time before the first record and after the last tells nothing.
SeenSecond == /\ fed \in 1..(MaxSeen0 - 1) /\ seenClk < MaxSeenTime /\ seenClk' = seenClk + 1
              /\ UNCHANGED <<freq, devToks, lastEvt, events, fed>>

SeenNext == HelloSeen \/ SeenSecond

SeenSpec == SeenInit /\ [][SeenNext]_seenVars

----------------------------------------------------------------------------
SeenTypeOK ==
    /\ freq \in [SApps -> [STok -> Count]] /\ fed \in 0..MaxSeen0
    /\ devToks \subseteq ((0..seenClk) \X STok)
    /\ \A a \in SApps : lastEvt[a] \in -1..seenClk

\* An event names the application that leads: whatever the order in which the
\* loop meets them, no other application, candidate or not, has a recall
\* within a fifth of it, and the application itself shows two of its features
\* and half of their weight (startup_fp.go feed: best, bestR, secondR).
LeadIsReal ==
    \A e \in events :
        /\ Cardinality(Match(e.app, e.toks)) >= 2 /\ Recall(e.app, e.toks) >= 50
        /\ \A a \in InModel \ {e.app} :
              Recall(e.app, e.toks) - Recall(a, e.toks) >= 20

\* One start of an application is reported once in ten minutes, even when more
\* of its tokens follow and when another application was reported in between
\* (startup_fp.go feed: lastEvt).
OneEventPerStart ==
    \A e, g \in events : (e.app = g.app /\ e # g) =>
        (e.ts - g.ts >= EventDedup \/ g.ts - e.ts >= EventDedup)
-----------------------------------------------------------------------------
(* The offline table of address owners (ip_owner.go), next to the learned    *)
(* attribution and without shared state: ranges read from the first of       *)
(* several candidate files, kept in memory, looked up by binary search and   *)
(* compared with the files at most every OwnerRecheck.  One address family:  *)
(* the v6 half repeats the v4 half on 64-bit keys.                           *)
CONSTANTS Cand,            \* candidate files, in order of preference
          Owners,          \* organisations (index into db.orgs)
          TopAddr,         \* addresses 0 .. TopAddr
          OwnerTables,     \* the lists of ranges that may be in a file
          OwnerRecheck, MaxOwnerTime, MaxOwnerEdits, MaxOwnerFaults

Range0 == [s : 0 .. TopAddr, e : 0 .. TopAddr, o : Owners \cup {"none"}]

ASSUME OwnerAssumption ==
    /\ Len(Cand) \in Nat /\ DOMAIN Cand = 1 .. Len(Cand) /\ OwnerTables \subseteq Seq(Range0)
    /\ {TopAddr, OwnerRecheck, MaxOwnerTime, MaxOwnerEdits, MaxOwnerFaults} \subseteq Nat

VARIABLES owFile,          \* [Cand -> the file: stamp (size and mtime), its ranges]
          owDb,            \* ipOwnerSrc.db: whether there is a table, its ranges
          owKey,           \* ipOwnerSrc.path, size, mtime
          owChecked, owClk,
          owBest,          \* ghost: what the files said at the last look at them
          owFaulty,        \* ghost: the file that could not be read, or none
          owCnt

ownerVars == <<owFile, owDb, owKey, owChecked, owClk, owBest, owFaulty, owCnt>>

NoDb == [ok |-> FALSE, rs |-> <<>>]
NoFile0 == [stamp |-> 0, here |-> FALSE, ranges |-> <<>>]
NoKey0 == [path |-> 0, stamp |-> 0]
Unchecked == 0 - 1

Ordered(rs, i) == i > 1 => rs[i].s > rs[i - 1].e

\* parseIPOwner: a file that is not well formed is no table at all.
Parsed(rs) ==
    IF \A i \in DOMAIN rs : rs[i].e >= rs[i].s /\ rs[i].o \in Owners /\ Ordered(rs, i)
    THEN [ok |-> TRUE, rs |-> rs] ELSE NoDb

\* lookupIP: sort.Search finds the first range that starts after x.
Lookup0(db, x) ==
    LET rs == db.rs
        n == Len(rs)
        i == CHOOSE k \in 1 .. n + 1 :
                (k = n + 1 \/ rs[k].s > x) /\ \A j \in 1 .. k - 1 : rs[j].s <= x
    IN  IF i > 1 /\ x <= rs[i - 1].e THEN rs[i - 1].o ELSE "none"

Here == {i \in DOMAIN Cand : owFile[Cand[i]].here}
FirstHere == CHOOSE i \in Here : \A j \in Here : i <= j

SameFile(i) == owKey.path = i /\ owKey.stamp = owFile[Cand[i]].stamp

OwnerInit ==
    /\ owFile = [c \in {Cand[i] : i \in DOMAIN Cand} |-> NoFile0]
    /\ owDb = NoDb /\ owKey = NoKey0 /\ owChecked = Unchecked /\ owClk = 0
    /\ owBest = NoDb /\ owFaulty = 0 /\ owCnt = [edits |-> 0, faults |-> 0]

\* ipOwnerGet, when a check is due.  The key is noted before the file is read:
\* one that cannot be read is not tried again until it changes.
OwnerGet ==
    /\ owChecked = Unchecked \/ owClk - owChecked >= OwnerRecheck
    /\ owChecked' = owClk
    /\ IF Here = {}
       THEN /\ owDb' = NoDb /\ owKey' = [owKey EXCEPT !.path = 0]
            /\ owBest' = NoDb /\ UNCHANGED <<owFaulty, owCnt>>
       ELSE LET i == FirstHere
                rs == owFile[Cand[i]].ranges IN
            /\ owBest' = Parsed(rs)
            /\ IF SameFile(i) THEN UNCHANGED <<owDb, owKey, owFaulty, owCnt>>
               ELSE /\ owKey' = [path |-> i, stamp |-> owFile[Cand[i]].stamp]
                    /\ \/ owDb' = Parsed(rs) /\ owFaulty' = 0 /\ UNCHANGED owCnt
                       \/ /\ owCnt.faults < MaxOwnerFaults
                          /\ owCnt' = [owCnt EXCEPT !.faults = @ + 1]
                          /\ owDb' = NoDb /\ owFaulty' = i
    /\ UNCHANGED <<owFile, owClk>>

OwnerTick == /\ owClk < MaxOwnerTime /\ owClk' = owClk + 1
             /\ UNCHANGED <<owFile, owDb, owKey, owChecked, owBest, owFaulty, owCnt>>

\* A file is put in place (a new stamp) or removed.
OwnerEdit(c) ==
    /\ owCnt.edits < MaxOwnerEdits /\ owCnt' = [owCnt EXCEPT !.edits = @ + 1]
    /\ \/ \E rs \in OwnerTables :
             owFile' = [owFile EXCEPT ![c] =
                          [stamp |-> @.stamp + 1, here |-> TRUE, ranges |-> rs]]
       \/ owFile[c].here /\ owFile' = [owFile EXCEPT ![c].here = FALSE]
    /\ UNCHANGED <<owDb, owKey, owChecked, owClk, owBest, owFaulty>>

OwnerNext == OwnerGet \/ OwnerTick \/ \E i \in DOMAIN Cand : OwnerEdit(Cand[i])

OwnerSpec == OwnerInit /\ [][OwnerNext]_ownerVars
-----------------------------------------------------------------------------
\* Types.
OwnerTypeOK == owChecked \in Unchecked .. owClk /\ owKey.path \in 0 .. Len(Cand)

\* A table accepted by parseIPOwner is looked up right: the binary search gives
\* x the owner of every range that holds it, and no owner when none does.
OwnerExact ==
    \A x \in 0 .. TopAddr :
        LET held == {i \in DOMAIN owDb.rs : x \in owDb.rs[i].s .. owDb.rs[i].e}
        IN  IF held = {} THEN Lookup0(owDb, x) = "none"
            ELSE \A i \in held : Lookup0(owDb, x) = owDb.rs[i].o

\* After each look at the files the table in memory is that of the preferred
\* file, although it is read anew only when path, size or time changed
\* (ipOwnerGet); a file that could not be read excepted.
OwnerCurrent == owFaulty = 0 => owDb = owBest
=============================================================================
