----------------------------- MODULE StratumRace -----------------------------
(***************************************************************************)
(* The stratum race (stratum-race.js with lib/stratum-client.js): a worker *)
(* holds a connection to every enabled pool and times which one delivers a *)
(* new block first. Each handler of the worker runs to its end before the  *)
(* next one, so a handler is one action. The dashboard, another process,   *)
(* edits the pools, the switch and the history in the shared database.     *)
(*                                                                         *)
(* A block is one value whatever its spelling: prevhash.canonical is       *)
(* applied to every hash. The label, the wall clock and the malformed      *)
(* messages of a pool are not represented.                                 *)
(***************************************************************************)
EXTENDS FiniteSets, Integers, Sequences

CONSTANTS
  Pool,         \* the ids of stratum_pool; an id is never given twice
  MaxBlock,     \* blocks are numbered 1 to MaxBlock
  Window,       \* config.stratumRaceTimeoutMs, in ticks
  MaxOpen,      \* MAX_OPEN_RACES
  RecentLimit,  \* RECENT_PREVHASH_LIMIT
  Malformed,    \* pools whose row has a host or port that cannot be dialled
  Edits,        \* TRUE when the dashboard may change pools and history
  Busy          \* TRUE when a write may fail on a busy database

ASSUME NumberAssumption ==
  /\ MaxBlock \in Nat /\ Window \in Nat
  /\ MaxOpen \in Nat \ {0} /\ RecentLimit \in Nat \ {0}
ASSUME PoolAssumption == IsFiniteSet(Pool) /\ Malformed \subseteq Pool
ASSUME FlagAssumption == Edits \in BOOLEAN /\ Busy \in BOOLEAN

Block == 1..MaxBlock

VARIABLES
  job,       \* the block each pool has us work on, 0 before the first one
  conn,      \* our connection to each pool
  open,      \* the blocks with a race open
  age,       \* how long each open race has run
  reported,  \* the pools timed in each open race
  excused,   \* the pools that connected in the middle of each open race
  recent,    \* recentPrevhashes, oldest first
  last,      \* lastToggleState
  pool,      \* stratum_pool
  switch,    \* meta.stratum_race_enabled
  rows,      \* stratum_race: the blocks with a row
  obs,       \* stratum_observation
  heard      \* history: the pools that sent each block while its race was open

memory == <<open, age, reported, excused, recent>>
tables == <<pool, switch, rows, obs>>
vars == <<job, conn, memory, last, tables, heard>>

\* none: not in `active`; dialing: a socket that is not connected, or the wait
\* before the next one; fresh: connected, no job yet; up: past its first job.
Conns == {"none", "dialing", "fresh", "up"}

PoolRows == {"absent", "enabled", "disabled", "deleted"}

Toggles == {"unknown", "on", "off"}

\* The clock stops one tick past the window: a timer may fire late, and what is
\* later than the window is all the same.
Ages == 0..(Window + 1)

Outcome == [kind : {"none", "miss", "timed"}, rank : 0..Cardinality(Pool), ms : Ages]

NoRow == [kind |-> "none", rank |-> 0, ms |-> 0]
Miss == [kind |-> "miss", rank |-> 0, ms |-> 0]
Timed(rank, ms) == [kind |-> "timed", rank |-> rank, ms |-> ms]

active == {p \in Pool : conn[p] # "none"}
-----------------------------------------------------------------------------
Init ==
  /\ job = [p \in Pool |-> 0]
  /\ conn = [p \in Pool |-> "none"]
  /\ open = {} /\ age = [b \in Block |-> 0]
  /\ reported = [b \in Block |-> {}] /\ excused = [b \in Block |-> {}]
  /\ recent = << >> /\ last = "unknown"
  /\ pool \in [Pool -> {"absent", "enabled"}]
  /\ switch \in {"on", "off"}
  /\ rows = {} /\ obs = [b \in Block |-> [p \in Pool |-> NoRow]]
  /\ heard = [b \in Block |-> {}]

\* A pool moves to a newer block; one that lags may skip some.
NewJob(p) ==
  /\ \E b \in Block : b > job[p] /\ job' = [job EXCEPT ![p] = b]
  /\ UNCHANGED <<conn, memory, last, tables, heard>>

Connect(p) ==
  /\ conn[p] = "dialing"
  /\ conn' = [conn EXCEPT ![p] = "fresh"]
  /\ UNCHANGED <<job, memory, last, tables, heard>>

Drop(p) ==
  /\ conn[p] \in {"fresh", "up"}
  /\ conn' = [conn EXCEPT ![p] = "dialing"]
  /\ UNCHANGED <<job, memory, last, tables, heard>>

\* rememberPrevhash. Adding what is already there does not move it.
Seen(b) == \E i \in DOMAIN recent : recent[i] = b

Remember(b) ==
  recent' = IF Seen(b) THEN recent
            ELSE IF Len(recent) < RecentLimit THEN Append(recent, b)
            ELSE Append(Tail(recent), b)

(***************************************************************************)
(* handleNotify, one action for each way it ends. A notify that is stale,  *)
(* repeated, past MAX_OPEN_RACES or whose race cannot be written changes   *)
(* nothing.                                                                *)
(***************************************************************************)

\* The first job of a connection, with no race open for it: only remembered.
CatchUp(p) ==
  /\ conn[p] = "fresh" /\ job[p] # 0 /\ job[p] \notin open
  /\ conn' = [conn EXCEPT ![p] = "up"]
  /\ Remember(job[p])
  /\ UNCHANGED <<job, open, age, reported, excused, last, tables, heard>>

\* The first job of a connection, with its race open: neither timed nor charged.
ExcuseForgotten(p) ==  \* wrong on purpose: the pool is not excused
  /\ conn[p] = "fresh" /\ job[p] \in open
  /\ conn' = [conn EXCEPT ![p] = "up"]
  /\ heard' = [heard EXCEPT ![job[p]] = @ \cup {p}]
  /\ UNCHANGED <<job, memory, last, tables>>

Excuse(p) ==
  /\ conn[p] = "fresh" /\ job[p] \in open
  /\ conn' = [conn EXCEPT ![p] = "up"]
  /\ excused' = [excused EXCEPT ![job[p]] = @ \cup {p}]
  /\ heard' = [heard EXCEPT ![job[p]] = @ \cup {p}]
  /\ UNCHANGED <<job, open, age, reported, recent, last, tables>>

\* A write goes through unless its row refers to a race or a pool that has been
\* deleted, or the database is busy.
Writable(b, p) == b \in rows /\ pool[p] # "deleted"

\* A report is written once and corrects nothing but a miss.
Record(table, b, p, outcome) ==
  IF table[b][p].kind = "timed" THEN table ELSE [table EXCEPT ![b][p] = outcome]

\* Only a block without a row is raced; the insert tells.
UnracedUnchecked(b) == b \notin open /\ ~Seen(b)  \* wrong on purpose
Unraced(b) == b \notin open /\ ~Seen(b) /\ b \notin rows

OpenRace(p) ==
  /\ conn[p] = "up" /\ job[p] # 0
  /\ Unraced(job[p])
  /\ Cardinality(open) < MaxOpen
  /\ Remember(job[p])
  /\ open' = open \cup {job[p]}
  /\ reported' = [reported EXCEPT ![job[p]] = {p}]
  /\ rows' = rows \cup {job[p]}
  /\ \/ obs' = IF pool[p] = "deleted" THEN obs ELSE Record(obs, job[p], p, Timed(1, 0))
     \/ Busy /\ obs' = obs
  /\ heard' = [heard EXCEPT ![job[p]] = {p}]
  /\ UNCHANGED <<job, conn, age, excused, last, pool, switch>>

\* A block with a row from an earlier run: its start is lost, so it is skipped.
AlreadyRaced(p) ==
  /\ conn[p] = "up" /\ job[p] \in rows \ open /\ ~Seen(job[p])
  /\ Cardinality(open) < MaxOpen
  /\ Remember(job[p])
  /\ UNCHANGED <<job, conn, open, age, reported, excused, last, tables, heard>>

Report(p) ==
  /\ conn[p] = "up" /\ job[p] \in open /\ p \notin reported[job[p]]
  /\ reported' = [reported EXCEPT ![job[p]] = @ \cup {p}]
  /\ \/ obs' = IF Writable(job[p], p)
               THEN Record(obs, job[p], p,
                           Timed(Cardinality(reported[job[p]]) + 1, age[job[p]]))
               ELSE obs
     \/ Busy /\ obs' = obs
  /\ heard' = [heard EXCEPT ![job[p]] = @ \cup {p}]
  /\ UNCHANGED <<job, conn, open, age, excused, recent, last, pool, switch, rows>>
-----------------------------------------------------------------------------
Tick ==
  /\ open # {}
  /\ age' = [b \in Block |-> IF b \in open /\ age[b] <= Window THEN age[b] + 1 ELSE age[b]]
  /\ age' # age
  /\ UNCHANGED <<job, conn, open, reported, excused, recent, last, tables, heard>>

\* The races in gone leave the worker's memory.
Close(gone) ==
  /\ open' = open \ gone
  /\ age' = [b \in Block |-> IF b \in gone THEN 0 ELSE age[b]]
  /\ reported' = [b \in Block |-> IF b \in gone THEN {} ELSE reported[b]]
  /\ excused' = [b \in Block |-> IF b \in gone THEN {} ELSE excused[b]]

\* finalizeRace: who is watched and neither timed nor excused gets a miss, one
\* statement per pool, so one that fails costs only itself.
Missing(b) == {p \in active : p \notin reported[b] \cup excused[b]}

Charged(b) == {p \in Missing(b) : Writable(b, p) /\ obs[b][p] = NoRow}

\* Wrong on purpose: the race stays in memory, its timer spent.
FinalizeKeepsRace(b) ==
  /\ b \in open /\ age[b] = Window
  /\ obs' = [obs EXCEPT ![b] = [p \in Pool |-> IF p \in Charged(b) THEN Miss ELSE @[p]]]
  /\ age' = [age EXCEPT ![b] = Window + 1]
  /\ UNCHANGED <<job, conn, open, reported, excused, recent, last, pool, switch, rows, heard>>

Finalize(b) ==
  /\ b \in open /\ age[b] >= Window
  /\ \E failed \in SUBSET Charged(b) :
       /\ ~Busy => failed = {}
       /\ obs' = [obs EXCEPT ![b] =
                   [p \in Pool |-> IF p \in Charged(b) \ failed THEN Miss ELSE @[p]]]
  /\ Close({b})
  /\ UNCHANGED <<job, conn, recent, last, pool, switch, rows, heard>>

\* shutDownRace: the open races are abandoned and nobody is charged.
ShutDownFinalizes ==  \* wrong on purpose: what a shutdown used to do
  /\ obs' = [b \in Block |-> [p \in Pool |->
              IF b \in open /\ p \in Charged(b) THEN Miss ELSE obs[b][p]]]
  /\ Close(open) /\ conn' = [p \in Pool |-> "none"]

ShutDown ==
  /\ obs' = obs
  /\ Close(open) /\ conn' = [p \in Pool |-> "none"]

\* syncConnections with the switch on: stop what is not wanted, dial what is
\* new, and disable a row that cannot be dialled.
Unusable == {p \in Malformed \ active : pool[p] = "enabled"}

ReconcileKeepsRemoved ==  \* wrong on purpose: stops nothing
  /\ pool' = [p \in Pool |-> IF p \in Unusable THEN "disabled" ELSE pool[p]]
  /\ conn' = [p \in Pool |->
               IF pool'[p] = "enabled" /\ conn[p] = "none" THEN "dialing" ELSE conn[p]]
  /\ UNCHANGED <<open, age, reported, excused, obs>>

Reconcile ==
  /\ pool' = [p \in Pool |-> IF p \in Unusable THEN "disabled" ELSE pool[p]]
  /\ conn' = [p \in Pool |-> IF pool'[p] # "enabled" THEN "none"
                             ELSE IF conn[p] = "none" THEN "dialing" ELSE conn[p]]
  /\ UNCHANGED <<open, age, reported, excused, obs>>

SyncConnections ==
  /\ IF switch = "on" THEN Reconcile ELSE ShutDown /\ UNCHANGED pool
  /\ UNCHANGED <<job, recent, last, switch, rows, heard>>

\* applyToggle acts only when the switch has moved. It remembers the new state
\* before it acts, so a busy database leaves the rest to the next sync.
ApplyToggle ==
  /\ switch # last
  /\ last' = switch
  /\ \/ IF switch = "on" THEN Reconcile ELSE ShutDown /\ UNCHANGED pool
     \/ Busy /\ switch = "on" /\ UNCHANGED <<conn, open, age, reported, excused, pool, obs>>
  /\ UNCHANGED <<job, recent, switch, rows, heard>>

\* The worker goes, by a signal or a crash, and starts again with nothing.
Restart ==
  /\ last # "unknown"
  /\ ShutDown
  /\ recent' = << >> /\ last' = "unknown"
  /\ UNCHANGED <<job, pool, switch, rows, heard>>
-----------------------------------------------------------------------------
(***************************************************************************)
(* The dashboard, and the retention of the peer profiler.                  *)
(***************************************************************************)
SetSwitch ==
  /\ switch' = IF switch = "on" THEN "off" ELSE "on"
  /\ UNCHANGED <<job, conn, memory, last, pool, rows, obs, heard>>

AddPool(p) ==
  /\ Edits /\ pool[p] = "absent"
  /\ pool' = [pool EXCEPT ![p] = "enabled"]
  /\ UNCHANGED <<job, conn, memory, last, switch, rows, obs, heard>>

SetPool(p) ==
  /\ Edits /\ pool[p] \in {"enabled", "disabled"}
  /\ pool' = [pool EXCEPT ![p] = IF @ = "enabled" THEN "disabled" ELSE "enabled"]
  /\ UNCHANGED <<job, conn, memory, last, switch, rows, obs, heard>>

\* deletePool takes the pool's results with it, and the races over a minute old
\* that are left with none. A race still open is younger.
DeletePool(p) ==
  /\ Edits /\ pool[p] \in {"enabled", "disabled"}
  /\ pool' = [pool EXCEPT ![p] = "deleted"]
  /\ obs' = [b \in Block |-> [obs[b] EXCEPT ![p] = NoRow]]
  /\ \E old \in SUBSET (rows \ open) :
       rows' = rows \ {b \in old : \A q \in Pool : obs'[b][q] = NoRow}
  /\ UNCHANGED <<job, conn, memory, last, switch, heard>>

\* resetPoolHistory takes every race, the open ones too.
ForgetRaces(gone) ==
  /\ rows' = rows \ gone
  /\ obs' = [b \in Block |-> IF b \in gone THEN [p \in Pool |-> NoRow] ELSE obs[b]]
  /\ UNCHANGED <<job, conn, memory, last, pool, switch, heard>>

ResetHistory == Edits /\ rows # {} /\ ForgetRaces(rows)

\* pruneOldData takes a race that is a year old.
Expire(b) == Edits /\ b \in rows \ open /\ ForgetRaces({b})

Notify(p) == CatchUp(p) \/ Excuse(p) \/ OpenRace(p) \/ AlreadyRaced(p) \/ Report(p)

Worker ==
  \/ Tick \/ SyncConnections \/ ApplyToggle
  \/ \E b \in Block : Finalize(b)

Dashboard ==
  \/ SetSwitch \/ ResetHistory
  \/ \E p \in Pool : AddPool(p) \/ SetPool(p) \/ DeletePool(p)
  \/ \E b \in Block : Expire(b)

Next ==
  \/ \E p \in Pool : NewJob(p) \/ Connect(p) \/ Drop(p) \/ Notify(p)
  \/ Worker \/ Restart \/ Dashboard

Spec == Init /\ [][Next]_vars
-----------------------------------------------------------------------------
(***************************************************************************)
(* Properties.                                                             *)
(***************************************************************************)

\* Every variable keeps its shape; only an open race has reports, excuses and
\* an age.
TypeOK ==
  /\ job \in [Pool -> 0..MaxBlock]
  /\ conn \in [Pool -> Conns]
  /\ open \subseteq Block
  /\ age \in [Block -> Ages]
  /\ reported \in [Block -> SUBSET Pool] /\ excused \in [Block -> SUBSET Pool]
  /\ \A b \in Block \ open : reported[b] = {} /\ excused[b] = {} /\ age[b] = 0
  /\ recent \in Seq(Block) /\ Len(recent) <= RecentLimit
  /\ last \in Toggles /\ switch \in {"on", "off"}
  /\ pool \in [Pool -> PoolRows]
  /\ rows \subseteq Block
  /\ obs \in [Block -> [Pool -> Outcome]]
  /\ heard \in [Block -> SUBSET Pool]

\* A pool that sent the block while its race was open is never charged a miss
\* for it, timed or not, whatever its socket, its row in stratum_pool, the
\* switch, the history or the worker went through in between: charging it
\* "would blame it for a socket of ours" (handleNotify).
HeardNotCharged ==
  \A b \in Block, p \in Pool : obs[b][p].kind = "miss" => p \notin heard[b]

\* The results of a race are one order: no two pools share a rank, and who has
\* the better rank was not slower. A restart, a second run over the same block
\* or a lost write must not mix two clocks in one race.
RanksTellOrder ==
  \A b \in Block : \A p, q \in Pool :
    obs[b][p].kind = "timed" /\ obs[b][q].kind = "timed" /\ p # q =>
      /\ obs[b][p].rank # obs[b][q].rank
      /\ obs[b][p].rank < obs[b][q].rank => obs[b][p].ms <= obs[b][q].ms

\* What stands in stratum_observation stands: a time is never overwritten and a
\* miss is never turned into a time; a result only goes with its pool or race.
ResultsStand ==
  [][\A b \in Block, p \in Pool :
       obs[b][p] # NoRow => obs'[b][p] \in {obs[b][p], NoRow}]_vars

\* A race cut short charges nobody: a miss is written only when the race it
\* belongs to had its whole window (abandonOpenRaces).
MissAfterWindow ==
  [][\A b \in Block, p \in Pool :
       obs'[b][p].kind = "miss" /\ obs[b][p].kind # "miss" =>
         b \in open /\ age[b] >= Window]_vars
=============================================================================
