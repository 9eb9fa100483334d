------------------------------ MODULE Traffic ------------------------------
(***************************************************************************)
(* The daily traffic (lib/traffic.js): Core counts from its own start, the *)
(* profiler keeps the differences between two readings per day and writes  *)
(* them down now and then. Received and sent bytes go the same way: one of *)
(* the two is represented.                                                 *)
(***************************************************************************)
EXTENDS Integers

CONSTANTS
  MaxTime,   \* bound of the clock
  MaxBytes,  \* bound of the bytes Core ever moves
  DayTime    \* how long a day is

ASSUME TrafficAssumption == MaxTime \in Nat /\ MaxBytes \in Nat /\ DayTime \in Nat \ {0}

VARIABLES
  now,
  total,     \* getnettotals, since Core started
  moved,     \* what Core has moved altogether: nobody reads it
  last,      \* lastTotals
  pending,   \* pendingDays
  stored     \* traffic_day

counters == <<total, moved>>
books == <<last, pending, stored>>
trafficVars == <<now, counters, books>>

Time == 0..MaxTime
Never == -1  \* null
LastDay == MaxTime \div DayTime
Day == 0..LastDay
NoBytes == [d \in Day |-> 0]

TrafficInit ==
  /\ now = 0 /\ total = 0 /\ moved = 0
  /\ last = Never /\ pending = NoBytes /\ stored = NoBytes

BytesMove ==
  /\ moved < MaxBytes
  /\ \E n \in 1..(MaxBytes - moved) : total' = total + n /\ moved' = moved + n
  /\ UNCHANGED <<now, books>>

CounterRestarts == total' = 0 /\ UNCHANGED <<now, moved, books>>

\* A counter that went down was restarted: all it shows is new.
DeltaFromZero(reading, before) == reading  \* wrong on purpose: never a difference
Delta(reading, before) == IF reading >= before THEN reading - before ELSE reading

\* record: the first reading only sets the baseline.
Record ==
  /\ pending' = IF last = Never THEN pending
                ELSE [pending EXCEPT ![now \div DayTime] = @ + Delta(total, last)]
  /\ last' = total
  /\ UNCHANGED <<now, counters, stored>>

\* flush, one transaction; the memory is cleared once it is through.
Flush ==
  /\ pending # NoBytes
  /\ stored' = [d \in Day |-> stored[d] + pending[d]]
  /\ pending' = NoBytes
  /\ UNCHANGED <<now, counters, last>>

\* What a process that ends leaves behind.
Forget ==
  /\ last' = Never /\ pending' = NoBytes
  /\ UNCHANGED <<now, counters, stored>>

FlushAndForget ==
  /\ stored' = [d \in Day |-> stored[d] + pending[d]]
  /\ last' = Never /\ pending' = NoBytes
  /\ UNCHANGED <<now, counters>>

TrafficTypeOK ==
  /\ now \in Time /\ total \in 0..MaxBytes /\ moved \in total..MaxBytes
  /\ last \in Nat \cup {Never}
  /\ pending \in [Day -> Nat] /\ stored \in [Day -> Nat]

\* Nothing is counted twice: what the days add up to, written down and not yet, is
\* never more than Core has moved, over restarts of Core, of the profiler, flushes
\* that come late and readings that are missed ("what is stored is the difference
\* between two polls, never the counter itself").
AllDays(book) ==
  LET upTo[d \in Day] == book[d] + (IF d = 0 THEN 0 ELSE upTo[d - 1]) IN upTo[LastDay]

Counted == AllDays(stored) + AllDays(pending)
NothingInvented == Counted <= moved
=============================================================================
