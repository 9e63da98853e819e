---------------------------- MODULE OnlineMinutes ---------------------------
(* Online time of a device in minutes (hnc_watchdog, online_minutes.go):     *)
(* sampled every five minutes, added up per day in memory, appended to a     *)
(* file about once an hour, at a change of day and on exit.  Time is in half *)
(* minutes, the step at which roundMin rounds; one device stands for all.    *)
EXTENDS Naturals

CONSTANTS SampleEvery,    \* half minutes (10)
          CreditMax,      \* half minutes (20)
          FlushEvery,     \* half minutes (110)
          DayLen,         \* half minutes in a day
          MaxOnlineTime, MaxOnlineFaults

ASSUME OnlineConstants ==
    /\ {SampleEvery, CreditMax, FlushEvery, MaxOnlineTime, MaxOnlineFaults} \subseteq Nat
    /\ DayLen \in Nat \ {0}

VARIABLES omClk, omLast, omFlushed,   \* now; a.last, a.flushed (Never0: zero time)
          omPend,         \* a.pending: [Day0 -> minutes]
          omFile,         \* minutes of the lines in the file
          omGiven,        \* ghost: minutes credited
          omOff,          \* ghost: minutes a torn write left twice, or a kill lost
          omBehind,       \* ghost: the last flush failed
          omFaults

onlineVars == <<omClk, omLast, omFlushed, omPend, omFile, omGiven, omOff, omBehind, omFaults>>

Day0 == 0 .. MaxOnlineTime \div DayLen
Never0 == MaxOnlineTime + 1
Nothing1 == [d \in Day0 |-> 0]
Plus(f, g) == [d \in Day0 |-> f[d] + g[d]]

OnlineInit ==
    /\ omClk = 0 /\ omLast = Never0 /\ omFlushed = Never0
    /\ omPend = Nothing1 /\ omFile = Nothing1 /\ omGiven = Nothing1
    /\ omOff = [twice |-> Nothing1, lost |-> Nothing1]
    /\ omBehind = FALSE /\ omFaults = 0

OmFault == omFaults < MaxOnlineFaults /\ omFaults' = omFaults + 1

RoundMin(d) == (d + 1) \div 2

\* creditSplit: what lies before midnight is rounded, the rest is the rest.
\* The day before the first one is left out of the model with its minutes.
CreditSplit(credit) ==
    LET mid == (omClk \div DayLen) * DayLen
        total == RoundMin(credit)
        early == IF credit > omClk - mid THEN RoundMin(credit - (omClk - mid)) ELSE 0
        before == IF early > total THEN total ELSE early
    IN  [d \in Day0 |-> IF d = omClk \div DayLen THEN total - before
                        ELSE IF d + 1 = omClk \div DayLen THEN before ELSE 0]

\* A failed flush keeps what is pending for the next one.
KeptPending(pend) == pend

\* flush: all lines in one write; it may fail before or after it wrote them.
Flush0(pend) ==
    /\ omFlushed' = omClk
    /\ \/ /\ omFile' = Plus(omFile, pend) /\ omPend' = Nothing1
          /\ omBehind' = FALSE /\ UNCHANGED <<omOff, omFaults>>
       \/ /\ pend # Nothing1 /\ OmFault /\ omBehind' = TRUE /\ omPend' = KeptPending(pend)
          /\ \/ UNCHANGED <<omFile, omOff>>
             \/ omFile' = Plus(omFile, pend)
                /\ omOff' = [omOff EXCEPT !.twice = Plus(@, pend)]

FlushDue(pend, flushed) ==
    /\ pend # Nothing1
    /\ omClk - flushed >= FlushEvery \/ \E d \in Day0 : d # omClk \div DayLen /\ pend[d] > 0

\* sample: the time since the last one is credited to a device that is online.
Sample(isOnline) ==
    LET first == omLast = Never0
        since == omClk - omLast
        long == IF first THEN SampleEvery ELSE since
        credit == IF long > CreditMax THEN CreditMax ELSE long
        given == IF isOnline THEN CreditSplit(credit) ELSE Nothing1
        pend == Plus(omPend, given)
        flushed == IF omFlushed = Never0 THEN omClk ELSE omFlushed
    IN
    /\ first \/ since >= SampleEvery
    /\ omLast' = omClk /\ omGiven' = Plus(omGiven, given)
    /\ IF FlushDue(pend, flushed) THEN Flush0(pend)
       ELSE /\ omPend' = pend /\ omFlushed' = flushed
            /\ UNCHANGED <<omFile, omOff, omBehind, omFaults>>
    /\ UNCHANGED omClk

OnlineTick == /\ omClk < MaxOnlineTime /\ omClk' = omClk + 1
              /\ UNCHANGED <<omLast, omFlushed, omPend, omFile, omGiven, omOff, omBehind, omFaults>>

\* SIGTERM: onExit flushes; SIGKILL: what is pending is lost.  A new watchdog starts.
ExitsAndRestarts ==
    /\ omFaults < MaxOnlineFaults /\ omFaults' = omFaults + 1
    /\ \/ omFile' = Plus(omFile, omPend) /\ UNCHANGED omOff
       \/ omOff' = [omOff EXCEPT !.lost = Plus(@, omPend)] /\ UNCHANGED omFile
    /\ omPend' = Nothing1 /\ omLast' = Never0 /\ omFlushed' = Never0 /\ omBehind' = FALSE
    /\ UNCHANGED <<omClk, omGiven>>

OnlineNext == OnlineTick \/ ExitsAndRestarts \/ \E b \in BOOLEAN : Sample(b)

OnlineSpec == OnlineInit /\ [][OnlineNext]_onlineVars
-----------------------------------------------------------------------------
\* Types.
OnlineTypeOK == omClk \in 0 .. MaxOnlineTime /\ omLast \in 0 .. Never0 /\ omFlushed \in 0 .. Never0

\* Every credited minute is in the file or pending, on its day: a write that
\* failed keeps it, a write that failed half-way leaves it twice, a kill loses
\* what was pending and nothing else (sample, flush, onExit).
MinutesKept ==
    Plus(Plus(omFile, omPend), omOff.lost) = Plus(omGiven, omOff.twice)

\* After a sample nothing of an earlier day is left in memory, unless the
\* write failed: an early flush ("跨日时落盘") is never skipped.
OldDaysWritten ==
    omLast = omClk => omBehind \/ \A d \in Day0 : d < omClk \div DayLen => omPend[d] = 0

\* Splitting at midnight neither makes nor loses a minute (creditSplit).
SplitExact ==
    \A c \in 1 .. CreditMax :
        LET s == CreditSplit(c)
            today == omClk \div DayLen IN
        today > 0 => s[today] + s[today - 1] = RoundMin(c)
=============================================================================
