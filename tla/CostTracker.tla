------------------------------ MODULE CostTracker ------------------------------
(***************************************************************************)
(* ProviderCostTracker (infrastructure/providers/cost_tracker.py): the     *)
(* cost of the day, of the month and for ever, per provider and workflow.  *)
(*                                                                         *)
(* record() reads the clock before it takes the lock, so a call is two     *)
(* steps, and midnight may come between them.  Token counts are left out:  *)
(* they are summed the way requests are.                                   *)
(***************************************************************************)
EXTENDS Naturals, Sequences, FiniteSets, Functions

CONSTANTS
    Threads,
    Billed,          \* providers whose calls are recorded
    Workflows,
    Costs,          \* what a call may cost
    DAYS_PER_MONTH,
    LAST_DAY,       \* bound on the clock
    MAX_HISTORY,
    MAX_RECORDS,    \* bound on the calls of record()
    None

\* Assumed by the module that gives the constants their values.
CostTrackerAssumption ==
    /\ Costs \subseteq Nat
    /\ DAYS_PER_MONTH \in Nat \ {0} /\ MAX_HISTORY \in Nat \ {0}
    /\ LAST_DAY \in Nat /\ MAX_RECORDS \in Nat
    /\ None \notin Workflows \cup Nat

VARIABLES
    today,          \* the clock, as a number of days
    call,           \* the record each thread is about to book, or None
    cumulative, requests, daily, monthly, workflows,
    dailyDate, monthlyMonth,
    history,        \* _history
    booked          \* history variable: every record, in the order of the lock

vars == <<today, call, cumulative, requests, daily, monthly, workflows,
          dailyDate, monthlyMonth, history, booked>>

Day == 0..LAST_DAY
MonthOf(day) == day \div DAYS_PER_MONTH

CostRecord ==
    [provider : Billed, cost : Costs, day : Day, workflow : Workflows \cup {None}]

Totals == [Billed -> Nat]

TypeOK ==
    /\ today \in Day
    /\ call \in [Threads -> CostRecord \cup {None}]
    /\ cumulative \in Totals /\ requests \in Totals /\ daily \in Totals /\ monthly \in Totals
    /\ workflows \in [Workflows -> Nat]
    /\ dailyDate \in Day \cup {None}
    /\ monthlyMonth \in {MonthOf(d) : d \in Day} \cup {None}
    /\ history \in Seq(CostRecord) /\ Len(history) <= MAX_HISTORY
    /\ booked \in Seq(CostRecord)

Zero == [p \in Billed |-> 0]

Init ==
    /\ today = 0
    /\ call = [t \in Threads |-> None]
    /\ cumulative = Zero /\ requests = Zero /\ daily = Zero /\ monthly = Zero
    /\ workflows = [w \in Workflows |-> 0]
    /\ dailyDate = None /\ monthlyMonth = None
    /\ history = <<>> /\ booked = <<>>

Plus(total, r) == [total EXCEPT ![r.provider] = @ + r.cost]

\* Seeded faults (see JobEngine).
FaultKeepOneMore(h, r) == IF Len(h) > MAX_HISTORY THEN Append(Tail(h), r) ELSE Append(h, r)
FaultNeverClears(total, r) == Plus(total, r)
FaultClearsAtDay(total, r) == Plus(IF dailyDate = r.day THEN total ELSE Zero, r)

-----------------------------------------------------------------------------
Midnight ==
    /\ today < LAST_DAY
    /\ today' = today + 1
    /\ UNCHANGED <<call, cumulative, requests, daily, monthly, workflows,
                   dailyDate, monthlyMonth, history, booked>>

\* record() up to the lock: the time of the record is taken.
ReadClock(t) ==
    /\ call[t] = None
    /\ Len(booked) < MAX_RECORDS
    /\ \E r \in CostRecord :
           r.day = today /\ call' = [call EXCEPT ![t] = r]
    /\ UNCHANGED <<today, cumulative, requests, daily, monthly, workflows,
                   dailyDate, monthlyMonth, history, booked>>

\* _maybe_reset_daily() and the addition after it ...
AddToDay(total, r) == Plus(IF dailyDate = r.day THEN total ELSE Zero, r)

\* ... and the same for the month.
AddToMonth(total, r) == Plus(IF monthlyMonth = MonthOf(r.day) THEN total ELSE Zero, r)

AddToHistory(h, r) ==
    IF Len(h) = MAX_HISTORY THEN Append(Tail(h), r) ELSE Append(h, r)

\* record() under the lock.
Book(t) ==
    /\ call[t] # None
    /\ LET r == call[t] IN
           /\ daily' = AddToDay(daily, r)
           /\ dailyDate' = r.day
           /\ monthly' = AddToMonth(monthly, r)
           /\ monthlyMonth' = MonthOf(r.day)
           /\ cumulative' = Plus(cumulative, r)
           /\ requests' = [requests EXCEPT ![r.provider] = @ + 1]
           /\ workflows' = IF r.workflow = None THEN workflows
                           ELSE [workflows EXCEPT ![r.workflow] = @ + r.cost]
           /\ history' = AddToHistory(history, r)
           /\ booked' = Append(booked, r)
    /\ call' = [call EXCEPT ![t] = None]
    /\ UNCHANGED today

Next == Midnight \/ \E t \in Threads : ReadClock(t) \/ Book(t)

Spec == Init /\ [][Next]_vars
-----------------------------------------------------------------------------
\* What the records at some positions cost.
CostOf(positions) == SumFunction([i \in positions |-> booked[i].cost])

\* Where the records of a provider are, and those that were booked since one of another
\* date (month).
Of(p) == {i \in DOMAIN booked : booked[i].provider = p}
SinceDay == {i \in DOMAIN booked : \A k \in i..Len(booked) : booked[k].day = dailyDate}
SinceMonth ==
    {i \in DOMAIN booked : \A k \in i..Len(booked) : MonthOf(booked[k].day) = monthlyMonth}

\* Whatever the threads do around midnight, the three totals are nested, and
\* the cost of the day (month) is what was booked since that date (month) was
\* last set: nothing of another date is in it.
TotalsAreNested ==
    \A p \in Billed :
        /\ daily[p] <= monthly[p] /\ monthly[p] <= cumulative[p]
        /\ cumulative[p] = CostOf(Of(p))
        /\ requests[p] = Cardinality(Of(p))
        /\ daily[p] = CostOf(Of(p) \cap SinceDay)
        /\ monthly[p] = CostOf(Of(p) \cap SinceMonth)

\* The history keeps the newest MAX_HISTORY records and forgets the oldest.
HistoryIsNewest ==
    /\ \A i \in DOMAIN history : history[i] = booked[i + Len(booked) - Len(history)]
    /\ Len(history) = (IF Len(booked) < MAX_HISTORY THEN Len(booked) ELSE MAX_HISTORY)

\* As long as no record was booked after one of a later date, the cost of the day
\* and of the month are complete: they hold all that was booked on the day (in the
\* month) of the last record.  A thread that reads the clock before midnight and
\* gets the lock after a record of the new day clears what the new day has cost.
DayIsComplete ==
    (\A i, k \in DOMAIN booked : i <= k => booked[i].day <= booked[k].day) =>
        \A p \in Billed :
            /\ daily[p] = CostOf({i \in Of(p) : booked[i].day = dailyDate})
            /\ monthly[p] = CostOf({i \in Of(p) : MonthOf(booked[i].day) = monthlyMonth})
=============================================================================
