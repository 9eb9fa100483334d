------------------------- MODULE StratumRace_proofs -------------------------
(***************************************************************************)
(* Proofs about StratumRace, for any number of pools and blocks, any       *)
(* window and any limits: the types, that a pool which sent a block is     *)
(* never charged for it, that the results of a race are one order, and     *)
(* what a step may do to a result.                                         *)
(***************************************************************************)
EXTENDS StratumRace, FiniteSetTheorems, SequenceTheorems, TLAPS

(***************************************************************************)
(* Numbers and sets.                                                       *)
(***************************************************************************)
LEMMA Counts ==
  /\ \A S \in SUBSET Pool : IsFiniteSet(S) /\ Cardinality(S) \in 0..Cardinality(Pool)
  /\ \A S \in SUBSET Pool : \A p \in Pool \ S :
       Cardinality(S \cup {p}) = Cardinality(S) + 1 /\ Cardinality(S) + 1 \in 1..Cardinality(Pool)
  /\ \A p \in Pool : Cardinality({p}) = 1 /\ 1 \in 1..Cardinality(Pool)
<1>1. ASSUME NEW S \in SUBSET Pool
      PROVE  IsFiniteSet(S) /\ Cardinality(S) \in Nat /\ Cardinality(S) \in 0..Cardinality(Pool)
  BY FS_Subset, FS_CardinalityType, PoolAssumption
<1>2. ASSUME NEW S \in SUBSET Pool, NEW p \in Pool \ S
      PROVE  Cardinality(S \cup {p}) = Cardinality(S) + 1 /\ Cardinality(S) + 1 \in 1..Cardinality(Pool)
  <2>1. Cardinality(S \cup {p}) = Cardinality(S) + 1
    BY <1>1, FS_AddElement
  <2>2. S \cup {p} \in SUBSET Pool
    OBVIOUS
  <2>3. Cardinality(S \cup {p}) \in 0..Cardinality(Pool) /\ Cardinality(S) \in Nat
    BY <1>1, <2>2
  <2>4. QED
    BY <2>1, <2>3
<1>3. ASSUME NEW p \in Pool PROVE Cardinality({p}) = 1 /\ 1 \in 1..Cardinality(Pool)
  <2>1. Cardinality({p}) = 1
    BY FS_Singleton
  <2>2. {p} \in SUBSET Pool
    OBVIOUS
  <2>3. QED
    BY <1>1, <2>1, <2>2
<1>4. QED
  BY <1>1, <1>2, <1>3

LEMMA AgesAre == Ages \subseteq Nat /\ 0 \in Ages /\ \A a \in Ages : a <= Window => a + 1 \in Ages
BY NumberAssumption DEF Ages

LEMMA OutcomesAre ==
  /\ NoRow \in Outcome /\ Miss \in Outcome
  /\ NoRow.kind = "none" /\ Miss.kind = "miss"
  /\ \A rank \in 1..Cardinality(Pool), ms \in Ages :
       /\ Timed(rank, ms) \in Outcome /\ Timed(rank, ms).kind = "timed"
       /\ Timed(rank, ms).rank = rank /\ Timed(rank, ms).ms = ms
  /\ \A o \in Outcome : o.rank \in Nat /\ o.ms \in Nat
<1>1. {} \in SUBSET Pool /\ Cardinality(Pool) \in Nat
  BY PoolAssumption, FS_CardinalityType
<1>2. 0 \in 0..Cardinality(Pool) /\ 0..Cardinality(Pool) \subseteq Nat
      /\ 1..Cardinality(Pool) \subseteq 0..Cardinality(Pool)
  BY <1>1
<1>3. NoRow \in Outcome /\ Miss \in Outcome /\ NoRow.kind = "none" /\ Miss.kind = "miss"
  BY <1>2, AgesAre DEF Outcome, NoRow, Miss
<1>4. ASSUME NEW rank \in 1..Cardinality(Pool), NEW ms \in Ages
      PROVE  /\ Timed(rank, ms) \in Outcome /\ Timed(rank, ms).kind = "timed"
             /\ Timed(rank, ms).rank = rank /\ Timed(rank, ms).ms = ms
  BY <1>2 DEF Outcome, Timed
<1>5. \A o \in Outcome : o.rank \in Nat /\ o.ms \in Nat
  <2>1. \A o \in Outcome : o.rank \in 0..Cardinality(Pool) /\ o.ms \in Ages
    BY DEF Outcome
  <2>2. QED
    BY <1>2, <2>1, AgesAre
<1>6. QED
  BY <1>3, <1>4, <1>5

LEMMA Remembered ==
  ASSUME NEW b \in Block, recent \in Seq(Block), Len(recent) <= RecentLimit, Remember(b)
  PROVE  recent' \in Seq(Block) /\ Len(recent') <= RecentLimit
<1>1. CASE Seen(b)
  BY <1>1 DEF Remember
<1>2. CASE ~Seen(b) /\ Len(recent) < RecentLimit
  <2>1. recent' = Append(recent, b)
    BY <1>2 DEF Remember
  <2>2. QED
    BY <1>2, <2>1, NumberAssumption
<1>3. CASE ~Seen(b) /\ ~(Len(recent) < RecentLimit)
  <2>1. recent' = Append(Tail(recent), b)
    BY <1>3 DEF Remember
  <2>2. recent # << >>
    BY <1>3, NumberAssumption
  <2>3. Tail(recent) \in Seq(Block) /\ Len(Tail(recent)) = Len(recent) - 1
    BY <2>2, HeadTailProperties
  <2>4. QED
    BY <2>1, <2>3
<1>4. QED
  BY <1>1, <1>2, <1>3
-----------------------------------------------------------------------------
(***************************************************************************)
(* The types.                                                              *)
(***************************************************************************)
MemoryOK ==
  /\ open \subseteq Block
  /\ age \in [Block -> Ages]
  /\ reported \in [Block -> SUBSET Pool] /\ excused \in [Block -> SUBSET Pool]
  /\ \A b \in Block \ open : reported[b] = {} /\ excused[b] = {} /\ age[b] = 0

LEMMA Closed ==
  ASSUME MemoryOK, NEW gone, Close(gone)
  PROVE  MemoryOK'
BY AgesAre DEF MemoryOK, Close

LEMMA Started ==
  ASSUME MemoryOK, NEW p \in Pool, job \in [Pool -> 0..MaxBlock], OpenRace(p)
  PROVE  MemoryOK' /\ job[p] \in Block
<1>1. job[p] \in Block
  BY NumberAssumption DEF OpenRace, Block
<1>2. QED
  BY <1>1 DEF OpenRace, MemoryOK

LEMMA TypeInitially == Init => TypeOK
<1> SUFFICES ASSUME Init PROVE TypeOK
  OBVIOUS
<1>1. << >> \in Seq(Block) /\ Len(<< >>) = 0
  OBVIOUS
<1>2. QED
  BY <1>1, NumberAssumption, AgesAre, OutcomesAre
  DEF Init, TypeOK, Conns, Toggles, PoolRows

LEMMA HandlerTypes ==
  ASSUME TypeOK, NEW p \in Pool, Notify(p)
  PROVE  TypeOK'
<1>1. MemoryOK /\ job[p] \in 0..MaxBlock
  BY DEF TypeOK, MemoryOK
<1>2. job[p] # 0 => job[p] \in Block
  BY <1>1, NumberAssumption DEF Block
<1>3. 0 \notin open /\ 0 \notin rows
  BY DEF TypeOK, Block
<1>4. CASE CatchUp(p)
  <2>1. recent' \in Seq(Block) /\ Len(recent') <= RecentLimit
    BY <1>2, <1>4, Remembered DEF CatchUp, TypeOK
  <2>2. QED
    BY <1>4, <2>1 DEF CatchUp, TypeOK, tables, Conns
<1>5. CASE Excuse(p)
  BY <1>2, <1>3, <1>5 DEF Excuse, TypeOK, tables, Conns
<1>6. CASE OpenRace(p)
  <2>1. recent' \in Seq(Block) /\ Len(recent') <= RecentLimit
    BY <1>2, <1>6, Remembered DEF OpenRace, TypeOK
  <2>2. MemoryOK' /\ job[p] \in Block
    BY <1>1, <1>6, Started DEF TypeOK
  <2>3. obs' \in [Block -> [Pool -> Outcome]]
    <3>1. Timed(1, 0) \in Outcome
      BY Counts, AgesAre, OutcomesAre
    <3>2. Record(obs, job[p], p, Timed(1, 0)) \in [Block -> [Pool -> Outcome]]
      BY <2>2, <3>1 DEF Record, TypeOK
    <3>3. QED
      BY <1>6, <3>2 DEF OpenRace, TypeOK
  <2>4. QED
    BY <1>6, <2>1, <2>2, <2>3 DEF OpenRace, TypeOK, MemoryOK
<1>7. CASE AlreadyRaced(p)
  <2>1. job[p] \in Block
    BY <1>2, <1>3, <1>7 DEF AlreadyRaced
  <2>2. recent' \in Seq(Block) /\ Len(recent') <= RecentLimit
    BY <1>7, <2>1, Remembered DEF AlreadyRaced, TypeOK
  <2>3. QED
    BY <1>7, <2>2 DEF AlreadyRaced, TypeOK, tables
<1>8. CASE Report(p)
  <2> DEFINE b == job[p]
  <2>1. b \in Block /\ p \notin reported[b] /\ reported[b] \in SUBSET Pool /\ age[b] \in Ages
    BY <1>2, <1>3, <1>8 DEF Report, TypeOK
  <2>2. Timed(Cardinality(reported[b]) + 1, age[b]) \in Outcome
    BY <2>1, Counts, OutcomesAre
  <2>3. Record(obs, b, p, Timed(Cardinality(reported[b]) + 1, age[b])) \in [Block -> [Pool -> Outcome]]
    BY <2>1, <2>2 DEF Record, TypeOK
  <2>4. obs' \in [Block -> [Pool -> Outcome]]
    BY <1>8, <2>3 DEF Report, TypeOK
  <2>5. QED
    BY <1>8, <2>1, <2>4 DEF Report, TypeOK
<1>9. QED
  BY <1>4, <1>5, <1>6, <1>7, <1>8 DEF Notify

LEMMA WorkerTypes ==
  ASSUME TypeOK, Worker \/ Restart
  PROVE  TypeOK'
<1>1. MemoryOK
  BY DEF TypeOK, MemoryOK
<1>2. CASE Tick
  <2>1. age' \in [Block -> Ages]
    BY <1>2, AgesAre DEF Tick, TypeOK
  <2>2. \A b \in Block \ open : age'[b] = 0
    BY <1>2 DEF Tick, TypeOK
  <2>3. QED
    BY <1>2, <2>1, <2>2 DEF Tick, TypeOK, tables
<1>3. ASSUME Reconcile
      PROVE  /\ pool' \in [Pool -> PoolRows] /\ conn' \in [Pool -> Conns]
             /\ UNCHANGED <<open, age, reported, excused, obs>>
  BY <1>3 DEF Reconcile, TypeOK, PoolRows, Conns
<1>4. ASSUME ShutDown
      PROVE  MemoryOK' /\ conn' \in [Pool -> Conns] /\ UNCHANGED obs
  BY <1>1, <1>4, Closed DEF ShutDown, Conns
<1>5. CASE SyncConnections
  <2>1. UNCHANGED <<job, recent, last, switch, rows, heard>>
    BY <1>5 DEF SyncConnections
  <2>2. CASE Reconcile
    BY <1>3, <2>1, <2>2 DEF TypeOK
  <2>3. CASE ShutDown /\ UNCHANGED pool
    BY <1>4, <2>1, <2>3 DEF TypeOK, MemoryOK
  <2>4. QED
    BY <1>5, <2>2, <2>3 DEF SyncConnections
<1>6. CASE ApplyToggle
  <2>1. UNCHANGED <<job, recent, switch, rows, heard>> /\ last' \in Toggles
    BY <1>6 DEF ApplyToggle, TypeOK, Toggles
  <2>2. CASE Reconcile
    BY <1>3, <2>1, <2>2 DEF TypeOK
  <2>3. CASE ShutDown /\ UNCHANGED pool
    BY <1>4, <2>1, <2>3 DEF TypeOK, MemoryOK
  <2>4. CASE UNCHANGED <<conn, open, age, reported, excused, pool, obs>>
    BY <2>1, <2>4 DEF TypeOK
  <2>5. QED
    BY <1>6, <2>2, <2>3, <2>4 DEF ApplyToggle
<1>7. ASSUME NEW b \in Block, Finalize(b) PROVE TypeOK'
  <2>1. MemoryOK'
    BY <1>1, <1>7, Closed DEF Finalize
  <2>2. obs' \in [Block -> [Pool -> Outcome]]
    BY <1>7, OutcomesAre DEF Finalize, TypeOK
  <2>3. QED
    BY <1>7, <2>1, <2>2 DEF Finalize, TypeOK, MemoryOK
<1>8. CASE Restart
  <2>1. recent' \in Seq(Block) /\ Len(recent') <= RecentLimit
    BY <1>8, NumberAssumption DEF Restart
  <2>2. MemoryOK' /\ conn' \in [Pool -> Conns] /\ UNCHANGED obs
    BY <1>4, <1>8 DEF Restart
  <2>3. QED
    BY <1>8, <2>1, <2>2 DEF Restart, TypeOK, MemoryOK, Toggles
<1>9. QED
  BY <1>2, <1>5, <1>6, <1>7, <1>8 DEF Worker

LEMMA DashboardTypes ==
  ASSUME TypeOK, Dashboard
  PROVE  TypeOK'
<1> USE DEF memory
<1>1. CASE SetSwitch
  BY <1>1 DEF SetSwitch, TypeOK
<1>2. ASSUME NEW p \in Pool, AddPool(p) \/ SetPool(p) PROVE TypeOK'
  BY <1>2 DEF AddPool, SetPool, TypeOK, PoolRows
<1>3. ASSUME NEW p \in Pool, DeletePool(p) PROVE TypeOK'
  <2>1. obs' \in [Block -> [Pool -> Outcome]]
    BY <1>3, OutcomesAre DEF DeletePool, TypeOK
  <2>2. rows' \subseteq Block
    BY <1>3 DEF DeletePool, TypeOK
  <2>3. QED
    BY <1>3, <2>1, <2>2 DEF DeletePool, TypeOK, PoolRows
<1>4. ASSUME NEW gone, ForgetRaces(gone) PROVE TypeOK'
  BY <1>4, OutcomesAre DEF ForgetRaces, TypeOK
<1>5. QED
  BY <1>1, <1>2, <1>3, <1>4 DEF Dashboard, ResetHistory, Expire

LEMMA TypeStep == TypeOK /\ [Next]_vars => TypeOK'
<1> SUFFICES ASSUME TypeOK, [Next]_vars PROVE TypeOK'
  OBVIOUS
<1> USE DEF memory, tables
<1>1. ASSUME NEW p \in Pool, NewJob(p) \/ Connect(p) \/ Drop(p) PROVE TypeOK'
  <2>1. CASE NewJob(p)
    BY <2>1 DEF NewJob, TypeOK, Block
  <2>2. CASE Connect(p) \/ Drop(p)
    BY <2>2 DEF Connect, Drop, TypeOK, Conns
  <2>3. QED
    BY <1>1, <2>1, <2>2
<1>2. CASE UNCHANGED vars
  BY <1>2 DEF vars, TypeOK
<1>3. QED
  BY <1>1, <1>2, HandlerTypes, WorkerTypes, DashboardTypes DEF Next

\* Every variable of the race keeps its shape, and a race that is closed leaves
\* nothing behind in the worker (stratum-race.js, finalizeRace and
\* abandonOpenRaces).
THEOREM RaceTypes == Spec => []TypeOK
BY TypeInitially, TypeStep, PTL DEF Spec
-----------------------------------------------------------------------------
(***************************************************************************)
(* The inductive invariant of a block. A result belongs to a row; the race *)
(* of a block has charged nobody as long as it is open, what it has timed  *)
(* it remembers as reported, with a rank and a time it has passed by now,  *)
(* and whoever sent the block is timed or excused.                         *)
(***************************************************************************)
Ordered(results) ==
  \A p, q \in Pool :
    results[p].kind = "timed" /\ results[q].kind = "timed" /\ p # q =>
      /\ results[p].rank # results[q].rank
      /\ results[p].rank < results[q].rank => results[p].ms <= results[q].ms

OpenResults(b) ==
  /\ heard[b] \subseteq reported[b] \cup excused[b]
  /\ \A p \in Pool :
       /\ obs[b][p] = NoRow \/ obs[b][p].kind = "timed"
       /\ obs[b][p].kind = "timed" =>
            /\ p \in reported[b]
            /\ obs[b][p].rank <= Cardinality(reported[b]) /\ obs[b][p].ms <= age[b]

BlockInv(b) ==
  /\ b \notin rows => \A p \in Pool : obs[b][p] = NoRow
  /\ b \in open => OpenResults(b)
  /\ \A p \in Pool : obs[b][p].kind = "miss" => p \notin heard[b]
  /\ Ordered(obs[b])

RaceInv == TypeOK /\ \A b \in Block : BlockInv(b)

\* A step that writes no result, opens no race and tells the worker nothing.
LEMMA Untouched ==
  ASSUME NEW b \in Block, BlockInv(b), UNCHANGED <<obs[b], heard[b]>>,
         b \in rows => b \in rows',
         b \in open' => b \in open /\ UNCHANGED <<reported[b], excused[b], age[b]>>
  PROVE  BlockInv(b)'
BY DEF BlockInv, OpenResults, Ordered

\* A step whose results are a part of those there were.
LEMMA Fewer ==
  ASSUME NEW b \in Block, BlockInv(b), UNCHANGED heard[b],
         \A p \in Pool : obs'[b][p] \in {obs[b][p], NoRow},
         b \in open' => b \in open /\ UNCHANGED <<reported[b], excused[b], age[b]>>,
         b \notin rows' => \A p \in Pool : obs'[b][p] = NoRow
  PROVE  BlockInv(b)'
BY OutcomesAre DEF BlockInv, OpenResults, Ordered

LEMMA RaceInitially == Init => RaceInv
<1> SUFFICES ASSUME Init PROVE RaceInv
  OBVIOUS
<1>1. TypeOK
  BY TypeInitially
<1>2. ASSUME NEW b \in Block PROVE BlockInv(b)
  BY OutcomesAre DEF Init, BlockInv, Ordered
<1>3. QED
  BY <1>1, <1>2 DEF RaceInv

\* The job of a pool is a block, when something is done about it.
LEMMA JobIs ==
  ASSUME TypeOK, NEW p \in Pool, job[p] # 0
  PROVE  job[p] \in Block
BY NumberAssumption DEF TypeOK, Block

LEMMA ExcuseKeeps ==
  ASSUME RaceInv, NEW p \in Pool, Excuse(p), NEW b \in Block
  PROVE  BlockInv(b)'
<1>1. BlockInv(b) /\ TypeOK
  BY DEF RaceInv
<1>2. /\ UNCHANGED <<open, age, reported, rows, obs>> /\ job[p] \in open
      /\ excused' = [excused EXCEPT ![job[p]] = @ \cup {p}]
      /\ heard' = [heard EXCEPT ![job[p]] = @ \cup {p}]
  BY DEF Excuse, tables
<1>3. CASE b # job[p]
  BY <1>1, <1>2, <1>3, Untouched DEF TypeOK
<1>4. CASE b = job[p]
  <2>1. heard'[b] = heard[b] \cup {p} /\ excused'[b] = excused[b] \cup {p}
    BY <1>1, <1>2, <1>4 DEF TypeOK
  <2>2. OpenResults(b)
    BY <1>1, <1>2, <1>4 DEF BlockInv
  <2>3. OpenResults(b)'
    BY <1>2, <2>1, <2>2 DEF OpenResults
  <2>4. \A q \in Pool : obs[b][q].kind # "miss"
    BY <2>2, OutcomesAre DEF OpenResults
  <2>5. QED
    BY <1>1, <1>2, <2>3, <2>4 DEF BlockInv, Ordered
<1>5. QED
  BY <1>3, <1>4

LEMMA OpenRaceKeeps ==
  ASSUME RaceInv, NEW p \in Pool, OpenRace(p), NEW b \in Block
  PROVE  BlockInv(b)'
<1>1. BlockInv(b) /\ TypeOK /\ job[p] \in Block /\ job[p] \notin rows /\ job[p] \notin open
  BY JobIs DEF RaceInv, OpenRace, Unraced
<1>2. /\ UNCHANGED <<age, excused>> /\ open' = open \cup {job[p]} /\ rows' = rows \cup {job[p]}
      /\ reported' = [reported EXCEPT ![job[p]] = {p}] /\ heard' = [heard EXCEPT ![job[p]] = {p}]
  BY DEF OpenRace
<1>3. obs' = obs \/ obs' = Record(obs, job[p], p, Timed(1, 0))
  BY DEF OpenRace
<1>4. CASE b # job[p]
  <2>1. obs'[b] = obs[b]
    BY <1>1, <1>3, <1>4 DEF Record, TypeOK
  <2>2. QED
    BY <1>1, <1>2, <1>4, <2>1, Untouched DEF TypeOK
<1>5. CASE b = job[p]
  <2>1. \A q \in Pool : obs[b][q] = NoRow
    BY <1>1, <1>5 DEF BlockInv
  <2>2. \A q \in Pool : obs'[b][q] = NoRow \/ (q = p /\ obs'[b][q] = Timed(1, 0))
    BY <1>1, <1>3, <1>5, <2>1 DEF Record, TypeOK
  <2>3. reported'[b] = {p} /\ heard'[b] = {p} /\ age'[b] = 0 /\ Cardinality({p}) = 1
    BY <1>1, <1>2, <1>5, Counts DEF TypeOK
  <2>4. Timed(1, 0).kind = "timed" /\ Timed(1, 0).rank = 1 /\ Timed(1, 0).ms = 0
    BY DEF Timed
  <2>5. OpenResults(b)'
    BY <2>2, <2>3, <2>4, OutcomesAre DEF OpenResults
  <2>6. b \in rows' /\ Ordered(obs'[b]) /\ \A q \in Pool : obs'[b][q].kind # "miss"
    BY <1>2, <1>5, <2>2, <2>4, OutcomesAre DEF Ordered
  <2>7. QED
    BY <2>5, <2>6 DEF BlockInv, Ordered
<1>6. QED
  BY <1>4, <1>5

\* The new result has a rank and a time no other result of the race has passed.
LEMMA ReportKeeps ==
  ASSUME RaceInv, NEW p \in Pool, Report(p), NEW b \in Block
  PROVE  BlockInv(b)'
<1> DEFINE n == Cardinality(reported[job[p]]) + 1
           new == Timed(n, age[job[p]])
<1>1. BlockInv(b) /\ TypeOK /\ job[p] \in open /\ job[p] \in Block /\ p \notin reported[job[p]]
  BY DEF RaceInv, Report, TypeOK
<1>2. /\ UNCHANGED <<open, age, excused, rows>>
      /\ reported' = [reported EXCEPT ![job[p]] = @ \cup {p}]
      /\ heard' = [heard EXCEPT ![job[p]] = @ \cup {p}]
  BY DEF Report
<1>3. obs' = obs \/ (job[p] \in rows /\ obs' = Record(obs, job[p], p, new))
  BY DEF Report, Writable
<1>4. CASE b # job[p]
  <2>1. obs'[b] = obs[b]
    BY <1>1, <1>3, <1>4 DEF Record, TypeOK
  <2>2. QED
    BY <1>1, <1>2, <1>4, <2>1, Untouched DEF TypeOK
<1>5. CASE b = job[p]
  <2>1. OpenResults(b) /\ p \notin reported[b] /\ obs[b][p].kind # "timed"
    BY <1>1, <1>5 DEF BlockInv, OpenResults
  <2>2. /\ reported'[b] = reported[b] \cup {p} /\ heard'[b] = heard[b] \cup {p}
        /\ reported[b] \in SUBSET Pool /\ age[b] \in Ages /\ age[b] \in Nat /\ age'[b] = age[b]
    BY <1>1, <1>2, <1>5, AgesAre DEF TypeOK
  <2>3. /\ n \in 1..Cardinality(Pool) /\ Cardinality(reported'[b]) = n /\ n \in Nat
        /\ Cardinality(reported[b]) \in Nat /\ Cardinality(reported[b]) < n
    <3>1. n \in 1..Cardinality(Pool) /\ Cardinality(reported'[b]) = n
      BY <1>5, <2>1, <2>2, Counts
    <3>2. Cardinality(reported[b]) \in 0..Cardinality(Pool)
      BY <2>2, Counts
    <3>3. QED
      BY <1>5, <3>1, <3>2
  <2>4. new \in Outcome /\ new.kind = "timed" /\ new.rank = n /\ new.ms = age[b]
    BY <1>5, <2>2, <2>3, OutcomesAre
  <2> HIDE DEF n, new
  <2>5. \A q \in Pool : obs'[b][q] = obs[b][q] \/ (q = p /\ obs'[b][q] = new)
    BY <1>1, <1>3, <1>5 DEF Record, TypeOK
  <2>6. \A q \in Pool : obs[b][q] \in Outcome /\ obs[b][q].rank \in Nat /\ obs[b][q].ms \in Nat
    BY <1>1, OutcomesAre DEF TypeOK
  <2>7. \A q \in Pool : obs[b][q].kind = "timed" =>
          q \in reported[b] /\ q # p /\ obs[b][q].rank < n /\ obs[b][q].ms <= age[b]
    BY <2>1, <2>3, <2>6 DEF OpenResults
  <2>8. OpenResults(b)'
    <3>1. heard'[b] \subseteq reported'[b] \cup excused'[b]
      BY <1>2, <2>1, <2>2 DEF OpenResults
    <3>2. ASSUME NEW q \in Pool
          PROVE  /\ obs'[b][q] = NoRow \/ obs'[b][q].kind = "timed"
                 /\ obs'[b][q].kind = "timed" =>
                      q \in reported'[b] /\ obs'[b][q].rank <= n /\ obs'[b][q].ms <= age[b]
      BY <2>1, <2>2, <2>3, <2>4, <2>5, <2>6, <2>7 DEF OpenResults
    <3>3. QED
      BY <2>2, <2>3, <3>1, <3>2 DEF OpenResults
  <2>9. Ordered(obs'[b])
    <3> SUFFICES ASSUME NEW q \in Pool, NEW r \in Pool, q # r,
                        obs'[b][q].kind = "timed", obs'[b][r].kind = "timed"
                 PROVE  /\ obs'[b][q].rank # obs'[b][r].rank
                        /\ obs'[b][q].rank < obs'[b][r].rank => obs'[b][q].ms <= obs'[b][r].ms
      BY DEF Ordered
    <3>1. CASE obs'[b][q] = obs[b][q] /\ obs'[b][r] = obs[b][r]
      BY <1>1, <3>1 DEF BlockInv, Ordered
    <3>2. CASE q = p /\ obs'[b][q] = new
      <4>1. obs'[b][r] = obs[b][r] /\ obs[b][r].rank < n /\ obs[b][r].rank \in Nat
        BY <2>5, <2>6, <2>7, <3>2
      <4>2. QED
        BY <2>3, <2>4, <3>2, <4>1
    <3>3. CASE r = p /\ obs'[b][r] = new
      <4>1. /\ obs'[b][q] = obs[b][q] /\ obs[b][q].rank < n /\ obs[b][q].rank \in Nat
            /\ obs[b][q].ms <= age[b]
        BY <2>5, <2>6, <2>7, <3>3
      <4>2. QED
        BY <2>3, <2>4, <3>3, <4>1
    <3>4. QED
      BY <2>5, <3>1, <3>2, <3>3
  <2>10. b \notin rows' => \A q \in Pool : obs'[b][q] = NoRow
    BY <1>1, <1>2, <1>3, <1>5 DEF BlockInv
  <2>11. \A q \in Pool : obs'[b][q].kind # "miss"
    BY <2>8, OutcomesAre DEF OpenResults
  <2>12. QED
    BY <2>8, <2>9, <2>10, <2>11 DEF BlockInv, Ordered
<1>6. QED
  BY <1>4, <1>5

LEMMA FinalizeKeeps ==
  ASSUME RaceInv, NEW c \in Block, Finalize(c), NEW b \in Block
  PROVE  BlockInv(b)'
<1>1. BlockInv(b) /\ TypeOK
  BY DEF RaceInv
<1>2. /\ UNCHANGED <<rows, heard>> /\ c \in open /\ open' = open \ {c}
      /\ \A x \in Block \ {c} : UNCHANGED <<age[x], reported[x], excused[x]>>
  BY <1>1 DEF Finalize, Close, TypeOK
<1>3. PICK failed \in SUBSET Charged(c) :
        obs' = [obs EXCEPT ![c] = [p \in Pool |-> IF p \in Charged(c) \ failed THEN Miss ELSE @[p]]]
  BY DEF Finalize
<1>4. CASE b # c
  BY <1>1, <1>2, <1>3, <1>4, Untouched DEF TypeOK
<1>5. CASE b = c
  <2>1. OpenResults(b)
    BY <1>1, <1>2, <1>5 DEF BlockInv
  <2>2. \A p \in Pool : \/ obs'[b][p] = obs[b][p]
                        \/ obs'[b][p] = Miss /\ p \in Charged(b) /\ obs[b][p] = NoRow
    BY <1>1, <1>3, <1>5 DEF TypeOK, Charged
  <2>3. \A p \in Charged(b) : p \notin heard[b] /\ b \in rows
    BY <2>1 DEF Charged, Missing, Writable, OpenResults
  <2>4. \A p \in Pool : obs'[b][p].kind = "timed" => obs'[b][p] = obs[b][p]
    BY <2>2, OutcomesAre
  <2>5. Ordered(obs'[b])
    BY <1>1, <2>4 DEF BlockInv, Ordered
  <2>6. \A p \in Pool : obs'[b][p].kind = "miss" => p \notin heard'[b]
    BY <1>1, <1>2, <2>2, <2>3 DEF BlockInv
  <2>7. b \notin rows' => \A p \in Pool : obs'[b][p] = NoRow
    BY <1>1, <1>2, <2>2, <2>3 DEF BlockInv
  <2>8. QED
    BY <1>2, <1>5, <2>5, <2>6, <2>7 DEF BlockInv, Ordered
<1>6. QED
  BY <1>4, <1>5

LEMMA WorkerKeeps ==
  ASSUME RaceInv, Worker \/ Restart, NEW b \in Block
  PROVE  BlockInv(b)'
<1>1. BlockInv(b) /\ TypeOK
  BY DEF RaceInv
<1>2. CASE Tick
  <2>1. UNCHANGED <<open, reported, excused, rows, obs, heard>>
    BY <1>2 DEF Tick, tables
  <2>2. age[b] \in Nat /\ age'[b] \in Nat /\ age[b] <= age'[b]
    <3>1. age[b] \in Nat /\ (age'[b] = age[b] + 1 \/ age'[b] = age[b])
      BY <1>1, <1>2, AgesAre DEF Tick, TypeOK
    <3>2. QED
      BY <3>1
  <2>3. \A p \in Pool : obs[b][p].ms \in Nat
    BY <1>1, OutcomesAre DEF TypeOK
  <2>4. OpenResults(b) => OpenResults(b)'
    BY <2>1, <2>2, <2>3 DEF OpenResults
  <2>5. QED
    BY <1>1, <2>1, <2>4 DEF BlockInv, Ordered
<1>3. CASE SyncConnections \/ ApplyToggle \/ Restart
  <2>1. UNCHANGED <<rows, heard, obs>>
    BY <1>3 DEF SyncConnections, ApplyToggle, Restart, Reconcile, ShutDown
  <2>2. b \in open' => b \in open /\ UNCHANGED <<reported[b], excused[b], age[b]>>
    BY <1>3 DEF SyncConnections, ApplyToggle, Restart, Reconcile, ShutDown, Close
  <2>3. QED
    BY <1>1, <2>1, <2>2, Untouched
<1>4. QED
  BY <1>2, <1>3, FinalizeKeeps DEF Worker

LEMMA DashboardKeeps ==
  ASSUME RaceInv, Dashboard, NEW b \in Block
  PROVE  BlockInv(b)'
<1>1. BlockInv(b) /\ TypeOK
  BY DEF RaceInv
<1> USE DEF memory
<1>2. ASSUME SetSwitch \/ (\E p \in Pool : AddPool(p) \/ SetPool(p)) PROVE BlockInv(b)'
  <2>1. UNCHANGED <<open, age, reported, excused, rows, obs, heard>>
    BY <1>2 DEF SetSwitch, AddPool, SetPool
  <2>2. QED
    BY <1>1, <2>1, Untouched
<1>3. ASSUME NEW p \in Pool, DeletePool(p) PROVE BlockInv(b)'
  <2>1. UNCHANGED <<open, age, reported, excused, heard>>
    BY <1>3 DEF DeletePool
  <2>2. \A q \in Pool : obs'[b][q] \in {obs[b][q], NoRow}
    BY <1>1, <1>3 DEF DeletePool, TypeOK
  <2>3. b \notin rows' => \A q \in Pool : obs'[b][q] = NoRow
    <3>1. CASE b \in rows
      BY <1>3, <3>1 DEF DeletePool
    <3>2. CASE b \notin rows
      BY <1>1, <2>2, <3>2 DEF BlockInv
    <3>3. QED
      BY <3>1, <3>2
  <2>4. QED
    BY <1>1, <2>1, <2>2, <2>3, Fewer
<1>4. ASSUME NEW gone, ForgetRaces(gone) PROVE BlockInv(b)'
  <2>1. UNCHANGED <<open, age, reported, excused, heard>> /\ rows' = rows \ gone
    BY <1>4 DEF ForgetRaces
  <2>2. \A q \in Pool : obs'[b][q] = (IF b \in gone THEN NoRow ELSE obs[b][q])
    BY <1>1, <1>4 DEF ForgetRaces, TypeOK
  <2>3. b \notin rows' => \A q \in Pool : obs'[b][q] = NoRow
    BY <1>1, <2>1, <2>2 DEF BlockInv
  <2>4. QED
    BY <1>1, <2>1, <2>2, <2>3, Fewer
<1>5. QED
  BY <1>2, <1>3, <1>4 DEF Dashboard, ResetHistory, Expire

LEMMA RaceStep == RaceInv /\ [Next]_vars => RaceInv'
<1> SUFFICES ASSUME RaceInv, [Next]_vars PROVE RaceInv'
  OBVIOUS
<1>1. TypeOK'
  BY TypeStep DEF RaceInv
<1>2. ASSUME NEW b \in Block PROVE BlockInv(b)'
  <2>1. BlockInv(b)
    BY DEF RaceInv
  <2>2. ASSUME UNCHANGED <<open, age, reported, excused, rows, obs, heard>> PROVE BlockInv(b)'
    BY <2>1, <2>2, Untouched
  <2>3. ASSUME NEW p \in Pool,
               NewJob(p) \/ Connect(p) \/ Drop(p) \/ CatchUp(p) \/ AlreadyRaced(p)
        PROVE  BlockInv(b)'
    BY <2>2, <2>3 DEF NewJob, Connect, Drop, CatchUp, AlreadyRaced, memory, tables
  <2>4. CASE UNCHANGED vars
    BY <2>2, <2>4 DEF vars, memory, tables
  <2>5. QED
    BY <2>3, <2>4, ExcuseKeeps, OpenRaceKeeps, ReportKeeps, WorkerKeeps, DashboardKeeps
    DEF Next, Notify
<1>3. QED
  BY <1>1, <1>2 DEF RaceInv
-----------------------------------------------------------------------------
(***************************************************************************)
(* What follows from it.                                                   *)
(***************************************************************************)

LEMMA AlwaysRaceInv == Spec => []RaceInv
BY RaceInitially, RaceStep, PTL DEF Spec

\* A pool that sent the block while its race was open is never charged a miss
\* for it (stratum-race.js, finalizeRace).
THEOREM NeverCharged == Spec => []HeardNotCharged
<1>1. RaceInv => HeardNotCharged
  BY DEF RaceInv, BlockInv, HeardNotCharged
<1>2. QED
  BY <1>1, AlwaysRaceInv, PTL

\* The ranks and the times of a race are one order (stratum-race.js,
\* handleNotify).
THEOREM OneOrder == Spec => []RanksTellOrder
<1>1. RaceInv => RanksTellOrder
  BY DEF RaceInv, BlockInv, Ordered, RanksTellOrder
<1>2. QED
  BY <1>1, AlwaysRaceInv, PTL

LEMMA WritesAre ==
  ASSUME RaceInv, [Next]_vars, NEW b \in Block, NEW p \in Pool
  PROVE  /\ obs[b][p] # NoRow => obs'[b][p] \in {obs[b][p], NoRow}
         /\ obs'[b][p].kind = "miss" /\ obs[b][p].kind # "miss" => b \in open /\ age[b] >= Window
<1>1. BlockInv(b) /\ TypeOK
  BY DEF RaceInv
<1>2. ASSUME obs' = obs \/ obs'[b][p] \in {obs[b][p], NoRow}
      PROVE  /\ obs'[b][p] \in {obs[b][p], NoRow}
             /\ obs'[b][p].kind = "miss" => obs[b][p].kind = "miss"
  BY <1>2, OutcomesAre
<1>3. ASSUME NEW q \in Pool, NewJob(q) \/ Connect(q) \/ Drop(q) \/ CatchUp(q) \/ Excuse(q) \/ AlreadyRaced(q)
      PROVE  obs' = obs
  BY <1>3 DEF NewJob, Connect, Drop, CatchUp, Excuse, AlreadyRaced, tables
<1>4. ASSUME NEW q \in Pool, OpenRace(q) \/ Report(q)
      PROVE  obs'[b][p] = obs[b][p] \/ (obs[b][p] = NoRow /\ obs'[b][p].kind = "timed")
  <2>1. job[q] \in Block /\ BlockInv(job[q]) /\ (job[q] \notin rows \/ job[q] \in open)
    BY <1>1, <1>4, JobIs DEF OpenRace, Report, Unraced, RaceInv, TypeOK
  <2>2. PICK rank, ms : obs' = obs \/ obs' = Record(obs, job[q], q, Timed(rank, ms))
    BY <1>4 DEF OpenRace, Report
  <2>3. obs[job[q]][q] = NoRow \/ obs[job[q]][q].kind = "timed"
    BY <2>1 DEF BlockInv, OpenResults
  <2>4. CASE b = job[q] /\ p = q
    BY <1>1, <2>2, <2>3, <2>4 DEF Record, Timed, TypeOK
  <2>5. CASE ~(b = job[q] /\ p = q)
    BY <1>1, <2>1, <2>2, <2>5 DEF Record, TypeOK
  <2>6. QED
    BY <2>4, <2>5
<1>5. CASE Tick \/ SyncConnections \/ ApplyToggle \/ Restart
  <2>1. obs' = obs
    BY <1>5 DEF Tick, SyncConnections, ApplyToggle, Restart, Reconcile, ShutDown, tables
  <2>2. QED
    BY <1>2, <2>1
<1>6. ASSUME NEW c \in Block, Finalize(c)
      PROVE  \/ obs'[b][p] = obs[b][p]
             \/ obs[b][p] = NoRow /\ obs'[b][p] = Miss /\ b \in open /\ age[b] >= Window
  BY <1>1, <1>6 DEF Finalize, Charged, TypeOK
<1>7. ASSUME Dashboard PROVE obs'[b][p] \in {obs[b][p], NoRow}
  <2>1. CASE SetSwitch \/ (\E q \in Pool : AddPool(q) \/ SetPool(q))
    BY <2>1 DEF SetSwitch, AddPool, SetPool
  <2>2. ASSUME NEW q \in Pool, DeletePool(q) PROVE obs'[b][p] \in {obs[b][p], NoRow}
    BY <1>1, <2>2 DEF DeletePool, TypeOK
  <2>3. ASSUME NEW gone, ForgetRaces(gone) PROVE obs'[b][p] \in {obs[b][p], NoRow}
    BY <1>1, <2>3 DEF ForgetRaces, TypeOK
  <2>4. QED
    BY <1>7, <2>1, <2>2, <2>3 DEF Dashboard, ResetHistory, Expire
<1>8. CASE UNCHANGED vars
  BY <1>2, <1>8 DEF vars, tables
<1>9. QED
  BY <1>2, <1>3, <1>4, <1>5, <1>6, <1>7, <1>8, OutcomesAre DEF Next, Notify, Worker

\* A result that stands is never changed: it only goes with its pool or its race
\* (stratum-race.js, the statement recordReport).
THEOREM ResultsKept == Spec => ResultsStand
<1>1. RaceInv /\ [Next]_vars =>
        [\A b \in Block, p \in Pool : obs[b][p] # NoRow => obs'[b][p] \in {obs[b][p], NoRow}]_vars
  BY WritesAre
<1>2. QED
  BY <1>1, AlwaysRaceInv, PTL DEF Spec, ResultsStand

\* A race cut short charges nobody (stratum-race.js, abandonOpenRaces).
THEOREM WholeWindow == Spec => MissAfterWindow
<1>1. RaceInv /\ [Next]_vars =>
        [\A b \in Block, p \in Pool :
           obs'[b][p].kind = "miss" /\ obs[b][p].kind # "miss" => b \in open /\ age[b] >= Window]_vars
  BY WritesAre
<1>2. QED
  BY <1>1, AlwaysRaceInv, PTL DEF Spec, MissAfterWindow
=============================================================================
