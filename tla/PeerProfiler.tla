---------------------------- MODULE PeerProfiler ----------------------------
(***************************************************************************)
(* The peer profiler (peer-profiler.js): every 15 seconds it asks Core for *)
(* its peers, its uptime and its traffic, one question after the other,    *)
(* and writes down whose connection began, went on or ended. It notices    *)
(* when Core restarted and gives it back the manual peers it then lacks;   *)
(* it prunes what is of no use, while the relay profiler and the dashboard *)
(* write to the same tables.                                               *)
(*                                                                         *)
(* The ping and the columns a session is described with are left out, all  *)
(* but the kind of connection; the saved peers (trusted_peer) stay as they *)
(* are, ManualSet is about their changes.                                  *)
(***************************************************************************)
EXTENDS Traffic, FiniteSets

CONSTANTS
  Addr,         \* the addresses peers connect from
  Kinds,        \* the kinds of connection that are not manual
  MaxId,        \* bound of Core's connection ids
  MaxRuns,      \* bound of the times Core starts
  FeelerTime,   \* feelerPeerRetentionDays
  NeverFirstTime, \* neverFirstPeerRetentionDays
  Flaky,        \* TRUE when a question may fail, or a write find the file busy
  None          \* no connection

ASSUME ProfilerAssumption ==
  /\ IsFiniteSet(Addr) /\ None \notin Addr
  /\ "manual" \notin Kinds
  /\ MaxId \in Nat /\ MaxRuns \in Nat
  /\ FeelerTime \in Nat /\ NeverFirstTime \in Nat
  /\ Flaky \in BOOLEAN

VARIABLES
  \* Core
  run,         \* how often Core has started
  up,          \* whether it answers
  born,        \* when it last started
  conns,       \* its connection to each address
  nextId,      \* the id its next connection gets
  held,        \* the saved peers it holds as addnodes
  \* the profiler
  poll,        \* where its poll is, and the peers it has been told of
  uptime,      \* coreState.uptime
  down,        \* coreState.down
  passes,      \* the restoring and the periodic pass over the saved peers
  \* the database
  saved,       \* trusted_peer
  parked,      \* parked_peer
  rows,        \* peer_session
  known,       \* peer: when each address was first seen
  stats,       \* peer_relay_stats: whether a peer was around, or ever first
  raceAt       \* the last block each peer was around for

core == <<run, up, born, conns, nextId, held>>
memory == <<poll, uptime, down, passes>>
relay == <<stats, raceAt>>
lists == <<saved, parked>>
database == <<lists, rows, known, relay>>
profilerVars == <<core, memory, database>>
vars == <<profilerVars, trafficVars>>

Open == MaxTime + 1  \* ended_at of a session that is not over

Connections == [id : 0..MaxId, at : Time, kind : Kinds \cup {"manual"}]

\* run is that of Core when the session was opened, asked the moment of the
\* snapshot it was closed by: neither is stored.
Sessions == [addr : Addr, id : 0..MaxId, kind : Kinds \cup {"manual"}, from : Time,
             to : 0..Open, run : 0..MaxRuns, asked : 0..Open]

Resting == [at |-> "rest", peers |-> [a \in Addr |-> None], asked |-> 0, run |-> 0]

Passes == {"restore", "timer"}
NoPass == [at |-> "off", todo |-> {}]

OpenRows == {r \in rows : r.to = Open}
RowsOf(a) == {r \in rows : r.addr = a}
-----------------------------------------------------------------------------
Init ==
  /\ TrafficInit
  /\ run = 0 /\ up = TRUE /\ born = 0 /\ nextId = 0
  /\ conns = [a \in Addr |-> None]
  /\ poll = Resting /\ uptime = Never /\ down = FALSE
  /\ passes = [s \in Passes |-> NoPass]
  /\ saved \in SUBSET Addr /\ parked \in SUBSET (Addr \ saved) /\ held \in SUBSET saved
  /\ rows = {} /\ known = [a \in Addr |-> Never]
  /\ stats = [a \in Addr |-> "none"] /\ raceAt = [a \in Addr |-> Never]

Tick ==
  /\ now < MaxTime
  /\ now' = now + 1
  /\ UNCHANGED <<profilerVars, counters, books>>

\* Ids in between go to peers nobody looks at here.
Connect(a) ==
  /\ up /\ conns[a] = None
  /\ \E id \in nextId..MaxId, kind \in Kinds \cup (IF a \in held THEN {"manual"} ELSE {}) :
       /\ conns' = [conns EXCEPT ![a] = [id |-> id, at |-> now, kind |-> kind]]
       /\ nextId' = id + 1
  /\ UNCHANGED <<run, up, born, held, memory, database, trafficVars>>

Drop(a) ==
  /\ conns[a] # None
  /\ conns' = [conns EXCEPT ![a] = None]
  /\ UNCHANGED <<run, up, born, nextId, held, memory, database, trafficVars>>

CoreStops ==
  /\ up /\ run < MaxRuns
  /\ up' = FALSE /\ conns' = [a \in Addr |-> None] /\ held' = {}
  /\ UNCHANGED <<run, born, nextId, memory, database, trafficVars>>

\* Core's ids, uptime and byte counters start again at zero.
CoreStarts ==
  /\ ~up
  /\ up' = TRUE /\ run' = run + 1 /\ born' = now /\ nextId' = 0
  /\ CounterRestarts
  /\ UNCHANGED <<conns, held, memory, database>>

Bytes ==
  /\ up /\ BytesMove
  /\ UNCHANGED profilerVars
-----------------------------------------------------------------------------
(* pollOnce: a question, its answer, the next question.                    *)

PollPeers ==
  /\ poll.at = "rest" /\ up
  /\ poll' = [at |-> "uptime", peers |-> conns, asked |-> now, run |-> run]
  /\ UNCHANGED <<core, uptime, down, passes, database, trafficVars>>

PollFails ==
  /\ poll.at = "rest" /\ (Flaky \/ ~up)
  /\ down' = TRUE
  /\ UNCHANGED <<core, poll, uptime, passes, database, trafficVars>>

\* coreRestarted: it answers again, or its uptime went down. A restoring pass
\* that is under way is not started again.
Restarted(reading) ==
  down \/ (uptime # Never /\ reading # Never /\ reading < uptime)

RestoreStarts ==
  passes' = IF passes["restore"].at = "off"
            THEN [passes EXCEPT !["restore"] = [at |-> "list", todo |-> {}]] ELSE passes

PollUptime ==
  /\ poll.at = "uptime"
  /\ \E reading \in (IF up THEN {now - born} ELSE {}) \cup (IF Flaky \/ ~up THEN {Never} ELSE {}) :
       /\ IF Restarted(reading) THEN RestoreStarts ELSE UNCHANGED passes
       /\ uptime' = IF reading = Never THEN uptime ELSE reading
  /\ down' = FALSE
  /\ poll' = [poll EXCEPT !.at = "totals"]
  /\ UNCHANGED <<core, database, trafficVars>>

(***************************************************************************)
(* upsertSessions, in two transactions: the first closes the sessions of   *)
(* the peers that are gone or have reconnected since (isSameSession), the  *)
(* second opens those that are new and updates those that go on.           *)
(***************************************************************************)
SameAddress(r, c) == TRUE  \* wrong on purpose: the address is enough
SameSession(r, c) == r.id = c.id

GoesOn(r) ==
  /\ r.to = Open
  /\ poll.peers[r.addr] # None
  /\ SameSession(r, poll.peers[r.addr])

Later(s, t) == IF s > t THEN s ELSE t
Sooner(s, t) == IF s < t THEN s ELSE t

EndNow(r) == now  \* wrong on purpose: a reconnect ends the session only now
EndOf(r) ==
  IF poll.peers[r.addr] = None THEN now
  ELSE Later(r.from, Sooner(poll.peers[r.addr].at, now))

Close(r) ==
  IF r.to = Open /\ ~GoesOn(r) THEN [r EXCEPT !.to = EndOf(r), !.asked = poll.asked] ELSE r

Update(r) == IF GoesOn(r) THEN [r EXCEPT !.kind = poll.peers[r.addr].kind] ELSE Close(r)

Present == {a \in Addr : poll.peers[a] # None}

Begun == {[addr |-> a, id |-> poll.peers[a].id, kind |-> poll.peers[a].kind,
           from |-> poll.peers[a].at, to |-> Open, run |-> poll.run, asked |-> Open] :
             a \in {b \in Present : ~\E r \in RowsOf(b) : GoesOn(r)}}

FirstTxOnly ==
  /\ rows' = {Close(r) : r \in rows}
  /\ UNCHANGED known

BothTxs ==
  /\ rows' = {Update(r) : r \in rows} \cup Begun
  /\ known' = [a \in Addr |-> IF a \in Present /\ known[a] = Never THEN now ELSE known[a]]

NeitherTx == UNCHANGED <<rows, known>>

\* With the answer to getnettotals, or its failure, the poll ends. Either
\* transaction may find the file busy; the next poll makes up for it.
PollTotals ==
  /\ poll.at = "totals"
  /\ \/ up /\ Record
     \/ (Flaky \/ ~up) /\ UNCHANGED trafficVars
  /\ BothTxs \/ (Flaky /\ (FirstTxOnly \/ NeitherTx))
  /\ poll' = Resting
  /\ UNCHANGED <<core, uptime, down, passes, lists, relay>>

FlushTraffic ==
  /\ Flush
  /\ UNCHANGED profilerVars
-----------------------------------------------------------------------------
(***************************************************************************)
(* A pass adopts what Core holds and adds what it does not (peer-sync.js;  *)
(* ManualSync has it in full): the list is read once, each add awaited.    *)
(* One pass runs when a restart is noticed, another when the process       *)
(* starts and every ten minutes; both may be under way.                    *)
(***************************************************************************)
TimerPass ==
  /\ passes["timer"].at = "off"
  /\ passes' = [passes EXCEPT !["timer"] = [at |-> "list", todo |-> {}]]
  /\ UNCHANGED <<core, poll, uptime, down, database, trafficVars>>

\* A pass with todo left to add, or over: the promise is let go with its last answer.
AfterStaysOn(s, todo) ==  \* wrong on purpose: restoring is never let go
  [passes EXCEPT ![s] = IF todo = {} /\ s = "timer" THEN NoPass ELSE [at |-> "add", todo |-> todo]]
After(s, todo) ==
  [passes EXCEPT ![s] = IF todo = {} THEN NoPass ELSE [at |-> "add", todo |-> todo]]

PassList(s) ==
  /\ passes[s].at = "list" /\ up
  /\ passes' = After(s, saved \ held)
  /\ UNCHANGED <<core, poll, uptime, down, database, trafficVars>>

PassAdd(s, a) ==
  /\ passes[s].at = "add" /\ a \in passes[s].todo /\ up
  /\ passes' = After(s, passes[s].todo \ {a})
  /\ held' = held \cup {a}
  /\ UNCHANGED <<run, up, born, conns, nextId, poll, uptime, down, database, trafficVars>>

\* Without the list there is no pass; without an add it goes on to the next.
PassFails(s) ==
  /\ Flaky \/ ~up
  /\ \/ passes[s].at = "list" /\ passes' = After(s, {})
     \/ \E a \in passes[s].todo : passes' = After(s, passes[s].todo \ {a})
  /\ UNCHANGED <<core, poll, uptime, down, database, trafficVars>>

PassStep(s) == PassList(s) \/ \E a \in Addr : PassAdd(s, a)

\* The process ends, with or without its last flush, and starts anew with a pass.
Restart(flushed) ==
  /\ IF flushed THEN FlushAndForget ELSE Forget
  /\ poll' = Resting /\ uptime' = Never /\ down' = FALSE
  /\ passes' = [s \in Passes |-> IF s = "timer" THEN [at |-> "list", todo |-> {}] ELSE NoPass]
  /\ UNCHANGED <<core, database>>
-----------------------------------------------------------------------------
(* The other writers, and the maintenance of every day.                    *)

\* recordRace: everybody who is connected was around, one of them perhaps first.
Race(winner) ==
  /\ winner \in {None} \cup {a \in Addr : conns[a] # None}
  /\ LET around == {a \in Addr : conns[a] # None}
     IN  /\ around # {}
         /\ stats' = [a \in Addr |-> IF a = winner THEN "first"
                                     ELSE IF a \in around /\ stats[a] = "none" THEN "around"
                                     ELSE stats[a]]
         /\ raceAt' = [a \in Addr |-> IF a \in around THEN now ELSE raceAt[a]]
         /\ known' = [a \in Addr |-> IF a \in around /\ known[a] = Never THEN now ELSE known[a]]
  /\ UNCHANGED <<core, memory, lists, rows, trafficVars>>

\* pruneOldData: the sessions of a peer that was never around for a block and is
\* not saved, once they are over for long; then every such peer without one.
Feeler(a) == stats[a] = "none" /\ a \notin saved

PruneOldData ==
  LET left == {r \in rows : ~(Feeler(r.addr) /\ r.to < now - FeelerTime)}
  IN  /\ rows' = left
      /\ known' = [a \in Addr |-> IF Feeler(a) /\ \A r \in left : r.addr # a THEN Never ELSE known[a]]
      /\ rows' # rows \/ known' # known
      /\ UNCHANGED <<core, memory, lists, relay, trafficVars>>

\* pruneNeverFirstPeers: inbound only, never first, not saved or parked, long
\* known and for as long neither connected nor around for a block.
PrunableThoughOpen(a) ==  \* wrong on purpose: a live session is not looked at
  /\ stats[a] = "around" /\ known[a] < now - NeverFirstTime
  /\ a \notin saved \cup parked
  /\ \A r \in RowsOf(a) : r.kind = "inbound" /\ (r.to = Open \/ r.to < now - NeverFirstTime)
  /\ raceAt[a] < now - NeverFirstTime

Prunable(a) ==
  /\ stats[a] = "around" /\ known[a] < now - NeverFirstTime
  /\ a \notin saved \cup parked
  /\ \A r \in RowsOf(a) : r.kind = "inbound" /\ r.to < now - NeverFirstTime
  /\ raceAt[a] < now - NeverFirstTime

Erase(gone) ==
  /\ rows' = {r \in rows : r.addr \notin gone}
  /\ known' = [a \in Addr |-> IF a \in gone THEN Never ELSE known[a]]
  /\ stats' = [a \in Addr |-> IF a \in gone THEN "none" ELSE stats[a]]
  /\ raceAt' = [a \in Addr |-> IF a \in gone THEN Never ELSE raceAt[a]]

\* One of its transactions: some of them, the number of rows is limited.
PruneNeverFirst ==
  /\ \E gone \in SUBSET {a \in Addr : Prunable(a)} : gone # {} /\ Erase(gone)
  /\ UNCHANGED <<core, memory, lists, trafficVars>>

\* resetPeerData: everything goes but the manual sessions of the saved peers.
ResetPeerData ==
  LET left == {r \in rows : r.kind = "manual" /\ r.addr \in saved}
  IN  /\ rows' = left
      /\ known' = [a \in Addr |-> IF a \notin saved THEN Never
                                  ELSE IF \E r \in left : r.addr = a THEN known[a] ELSE now]
      /\ stats' = [a \in Addr |-> "none"] /\ raceAt' = [a \in Addr |-> Never]
      /\ parked' = {}
      /\ UNCHANGED <<core, memory, saved, trafficVars>>

Core ==
  \/ Tick \/ CoreStops \/ CoreStarts \/ Bytes
  \/ \E a \in Addr : Connect(a) \/ Drop(a)

Profiler ==
  \/ PollPeers \/ PollFails \/ PollUptime \/ PollTotals \/ FlushTraffic
  \/ TimerPass
  \/ \E s \in Passes : PassStep(s) \/ PassFails(s)
  \/ \E flushed \in BOOLEAN : Restart(flushed)

Others ==
  \/ \E a \in Addr \cup {None} : Race(a)
  \/ PruneOldData \/ PruneNeverFirst \/ ResetPeerData

Next == Core \/ Profiler \/ Others

Spec == Init /\ [][Next]_vars
-----------------------------------------------------------------------------
(***************************************************************************)
(* Properties.                                                             *)
(***************************************************************************)

\* Every variable keeps its shape.
TypeOK ==
  /\ TrafficTypeOK
  /\ run \in 0..MaxRuns /\ up \in BOOLEAN /\ born \in Time /\ nextId \in 0..MaxId + 1
  /\ conns \in [Addr -> Connections \cup {None}]
  /\ held \subseteq saved /\ saved \subseteq Addr /\ parked \subseteq Addr
  /\ poll \in [at : {"rest", "uptime", "totals"}, peers : [Addr -> Connections \cup {None}],
               asked : Time, run : 0..MaxRuns]
  /\ uptime \in Time \cup {Never} /\ down \in BOOLEAN
  /\ passes \in [Passes -> [at : {"off", "list", "add"}, todo : SUBSET Addr]]
  /\ rows \subseteq Sessions
  /\ known \in [Addr -> Time \cup {Never}] /\ raceAt \in [Addr -> Time \cup {Never}]
  /\ stats \in [Addr -> {"none", "around", "first"}]

\* "The old session must not overlap the new one" (peer-profiler.test.js:95): two
\* sessions of an address never share time, but for the moments in which a peer
\* that a poll was told is gone comes back before that poll writes.
SessionsApart ==
  \A r, s \in rows :
    r.addr = s.addr /\ r # s =>
      \/ r.to <= s.from \/ s.to <= r.from
      \/ r.to # Open /\ r.asked <= s.from
      \/ s.to # Open /\ s.asked <= r.from

SameRow(r, s) == <<r.addr, r.id, r.from, r.run>> = <<s.addr, s.id, s.from, s.run>>

\* A session that goes on is the connection it was opened for, unless Core has
\* restarted since and its ids have come round to the same one: "same address in
\* the snapshot is not the same session" (upsertSessions).
OneConnection ==
  [][PollTotals /\ BothTxs =>
       \A r \in OpenRows :
         (\E s \in rows' : SameRow(r, s) /\ s.to = Open)
         => poll.peers[r.addr].at = r.from \/ poll.run # r.run]_vars

Lost == {r \in rows : ~\E s \in rows' : SameRow(r, s)}

\* Pruning takes nobody who may still matter: not a peer that was ever first, is
\* saved, is connected as far as the tables say, or was around for a block within
\* the time; a reset takes no manual session of a saved peer.
Spared ==
  [][/\ PruneOldData \/ PruneNeverFirst =>
          \A r \in Lost :
            /\ r.to # Open /\ r.addr \notin saved /\ stats[r.addr] # "first"
            /\ raceAt[r.addr] = Never \/ raceAt[r.addr] < now - NeverFirstTime
     /\ ResetPeerData => \A r \in Lost : r.kind = "manual" => r.addr \notin saved]_vars
=============================================================================
