# Bitcoin Lab in TLA+

Bitcoin Lab watches a Bitcoin Core node: who relays blocks to it first, which
mining pool sends a new job first, and which peers deserve one of the few manual
(addnode) slots. It is four Node.js processes over one SQLite file in WAL mode, and
a page that shows what they find:

| process | does | modelled in |
|---|---|---|
| `src/dashboard-server.js` | HTTP API, event streams, pages; adds, removes, stars peers; edits pools and switches | `LiveBlocks`, `PeerTables`, `RotationSwitch`; actions of `ManualSet`, `StratumRace` |
| `src/peer-profiler.js` | polls getpeerinfo, keeps sessions and traffic, syncs the manual set with Core, runs the rotation and the daily pruning | `PeerProfiler`, `Traffic`, `ManualSync`, `ManualSet`, `Rotation` |
| `src/relay-profiler.js` | records a race for every block Core announces, attributes it to its pool | `RelayRace`, `LiveBlocks` |
| `src/stratum-race.js` | holds a connection to every pool, times who announces a block | `StratumRace` |
| all four | open and migrate the database; call Core | `Startup`; `RpcCall` |

Each process is single-threaded: between two awaits a handler runs alone in its
process. Two processes interleave freely, and meet in the database (one
statement or one transaction at a time) and in Core (one RPC at a time). The
models follow this: code between two awaits is one action, an await is a point
at which anything else may happen.

## Inventory

| component | state | operations | what is hard | what must hold |
|---|---|---|---|---|
| Manual set (`lib/peer-sync.js`, `lib/manual-peer.js`) | `trusted_peer` rows with the star `kept`, `parked_peer`, `meta.pending_addnode_removal`, Core's addnode list | add with displacement, remove, park, star, adopt and restore | every operation awaits RPCs, two processes run them, RPCs fail after having worked, Core forgets its list at a restart | the rows stay within the limit, a swap never loses a slot, nothing is left in Core without an owner, both lists agree in the end |
| Rotation (`lib/peer-rotation/`) | `parked_peer` with probes and backoff, the ranking of one tick | tick: kick, retire, revive, promote | a ranking read once and used across awaits; a person acting at the same time | one join per tick, a starred peer is not displaced, whom a tick takes out can come back |
| Stratum race (`stratum-race.js`, `lib/stratum-client.js`, `lib/stratum-race-toggle.js`) | open races, the ring of recent blocks, connections; `stratum_race`, `stratum_observation`, `stratum_pool`, the switch | notify, window end, sync of connections, toggle, shutdown | lagging and reconnecting pools, restarts in a race, edits and history resets under a running worker | ranks tell one order, no unfair miss, results stand, settings are followed |
| Relay profiler (`relay-profiler.js`, `lib/hashblock-subscriber.js`) | `relay_race`, `relay_observation`, the rollup `peer_relay_stats`; when the last catch-up was seen | hashblock handler with three concurrent RPCs, attribution, catch-up of attributions | handlers overlap and finish out of order, duplicate announcements, a backlog that looks like races | one race per block, at most one credit, the rollup agrees |
| Peer profiler (`peer-profiler.js`, `lib/traffic.js`) | `peer`, `peer_session`, `traffic_day`, what it knows of Core's start | poll, upsert of sessions, restart detection, restoring, pruning | a snapshot is three awaits old when it is written, Core restarts in between and again, counters reset | sessions of an address share no time, a row is one connection, no traffic counted twice, every restart repaired, pruning spares who matters |
| Database (`lib/db.js`), maintenance (`lib/queries/maintenance.js`) | schema, flags of the migrations, triggers | open with retries, migrate, seed, reset, prune | four processes set one file up at once, are killed or find it busy | whoever is ready has the whole database; nothing measured, chosen or removed comes undone |
| Dashboard server and page (`dashboard-server.js`, `dashboard/public/app.js`) | event streams, the last frame; the tables, the refresh loop, the switch | broadcast, connect, row actions, refresh, toggle | answers overtake each other, streams die unnoticed, the page is hidden | the page comes to the newest block, plays its wave once, never goes back, keeps refreshing |
| RPC client (`lib/rpc.js`) | sockets, what has arrived, what is counted | call, timeCall | chunk boundaries, silence, cut connections, no free socket | every call is settled, the count is exact |
| Queries (`lib/queries/`) | none | ranking, blocks, stats | who counts as trusted | read-only but for deletePool |
| Helpers (`prevhash`, `address`, `score`, `pool-id`, `sibling`, `local-pools`) | none | pure functions | - | - |
| Logging, health, configuration | - | - | - | I/O, not modelled |

PROJECT.json lists the components with their status, and the hazards of the
code, each at its line with the properties that watch it.

## Modules

| module | models |
|---|---|
| `ManualSet` | the manual set and every operation on it, in two processes |
| `SlotBook` | abstract: what the manual set promises a reader of the database |
| `ManualSync` | `ManualSet` with the sync pass: adopt Core's foreign entries, retry pending removals, restore missing entries |
| `Rotation` | the tick of the peer rotation: who is kicked, retired, knocked on, let in, displaced |
| `StratumRace` | the stratum race worker, its pools, and the dashboard that edits under it |
| `RelayRace` | the handlers of block announcements in the relay profiler, and the tables they share |
| `PeerProfiler`, `Traffic` | the poll of the peer profiler with its sessions, restart detection and pruning; the daily traffic it keeps |
| `Startup` | four processes that open and migrate one database, from any older version, and what they write when they are ready |
| `LiveBlocks` | a block from the relay profiler through the event streams to the wave on the page, and the pool that follows it |
| `PeerTables` | the peer tables of the page, its requests, row actions and refresh loop |
| `RotationSwitch` | the switch of the rotation on the page, against readings of the panel that overtake clicks |
| `RpcCall` | the calls to Core: sockets, chunks, timeouts, and the counter of `timeCall` |
| `..._proofs` | theorems about the module of that name; `ManualSet_proofs` has those of `ManualSync` too, `PeerProfiler_proofs` those of `Traffic`, and `Dashboard_proofs` those of `LiveBlocks`, `PeerTables`, `RotationSwitch` and `RpcCall` |
| `Induction_proofs` | induction over the naturals, as the other proofs use it |
| `MC...` | instances for TLC: symmetry, fairness, focus, and the history variables a property needs |

Operators marked *wrong on purpose* are plausible bugs of the definition they
stand before; no specification uses them. They show that a property can fail.

### ManualSet

`rows`, `kept`, `parked`, `pending` are the tables, `core` is Core's list, and
`op[p]` is the call an actor is in. An actor is a call of either process; those
in `Rotators` are rotation ticks, the others are people. `addTrustedPeer` is
`BeginAdd` (to the first await), `CoreAdds` or `AddFails` (the answer),
`WriteRow` or `LoseSlot` (the IMMEDIATE transaction), then `Displace` and the
removal `CoreRemoves` or `RemoveFails`, then `Park`; a lost slot is taken back
with `TakeBack`. A failing RPC may have worked: both outcomes are there. `Abort`
ends a call at any await: the process exits, or the database stays busy.

A rotation tick works from `snap[p]`, the ranking it read: the peers it may
displace and those it may retire. Whether a peer is the weakest, how long it has
been offline and what its score is are free choices, so every ranking is
covered.

Left out: read-only mode, spellings of an address (an address stands for its
node), the disconnect of live sessions, oldest-first order of the sync. Merged into
one step: the transaction of an add with the statements right after it
(`lib/peer-sync.js:461` and `:466`; no await lies between, but another process could
write there), and the reading and writing of the pending removals of a failed call
(`:590`).

### ManualSync

Passes as `restoreAfterCoreRestart`, the start-up and the ten-minute interval of the
peer profiler run them, any number at a time: list, adopt the entries without a row
while there is room, restore the rows Core lacks; the list is asked for again only when
it did not come the first time. `Room` is counted once per pass and not again after its
awaits, and the pending removals are saved from the copy the pass has read, as in the
code. `PassBound` says what that costs at most: above the slot in exchange, as many rows
as the limit for each pass that can be under way.

### Rotation

What an add or a removal is made of is `ManualSet`'s subject; here each is one step,
and the order of the passes is what counts. `tick` says which pass runs (kick,
retire, revive, promote), what the tick does next, and the ranking it has read
(`known`, `wasLive`, `holders`, `measured`), which its passes use after their awaits.
`measured` are, of the manual peers that are offline in that ranking, those with a
record: `parkPeer` declines the others, so that they are retired or displaced and not
parked (`lib/peer-sync.js:512`). Who has a record is a free choice each time the ranking
is read. `queue`
is `parked_peer` in the order of its query; where the query leaves the order open,
the place is chosen freely. `quiet` and `fails` are the last probe and the failures,
`since` and `away` the two clocks of `offlineForMs`, all counted in ticks up to the
bound where they stop to matter. Who beats whom is a free choice, and so is when a
record's retention is over. `Abort` is a switch that is off, a tick that throws, or
a process that ends; a person (`HandAdd`, `HandRemove`, `SetKept`) acts between any
two steps.

Left out: the drop of duplicate inbound sessions, the share of attributed blocks
that gates the kicks, the audit log, live manual connections of Core without a row
(`lib/queries/ranking-row.js:74`; see Disagreements). Every tick is over before the next
is due. An `away` clock is kept for rows only: a peer that enters has its later clock,
`since`, at zero.

### StratumRace

`conn`, `open`, `age`, `reported`, `excused`, `recent` and `last` are the memory
of the worker, `pool`, `switch`, `rows` and `obs` the database. `handleNotify` is
one action for each way it ends. `age` counts ticks since the race opened, and
stops one past the window: a timer may fire late, never early. A write fails when
the race or the pool it refers to was deleted, and, with `Busy`, at any time. The
expiry of old races (`pruneOldData`) runs beside it.
`heard` is a history variable: who sent a block while its race was open.

Left out: the wording and size of messages, heartbeats, the growing reconnect
delay (a reconnect takes any time), and the spelling of a block hash: a block is one
value, which `canonical` makes of the two spellings. A pool's jobs only go on to a later
block. An open race is younger than the 60 seconds up to which the deletion of a pool
spares races without observations; a window set to more than that
(`STRATUM_RACE_TIMEOUT_MS`, up to 600 seconds) is not covered. A reconciliation takes
place or fails as a whole, where the code goes on past a malformed row it could not turn
off (`stratum-race.js:157`).

### RelayRace

`race`, `obs`, `credit` and `total` are the tables `relay_race`, `relay_observation`
and `peer_relay_stats`. The handlers of announced blocks are a set of calls: each
asks Core three questions at once (getpeerinfo, getblockheader, getblockchaininfo),
Core answers them in any order and by its state at that moment, and each handler
goes on when all three have settled. `Skip` leaves out a block of a backlog,
`Record` is the one transaction that writes a race, its observations and its
credit, `Discard` what is left when a question or the write fails. `lastCatchUp`
is the announcement time the tail of a burst is measured from. `Repeat` announces
a block again, `Restart` forgets the handlers and the tail. Pruning and resets
delete under it, through the triggers of the rollup.

Left out: the storing of the template time, ping, the height backfill, Core's
`initialblockdownload` flag. The attribution of pools is in `LiveBlocks`.

### PeerProfiler and Traffic

Core has `conns`, the connection to each address with its id, which starts again with
Core. A poll is three actions, one per answer: `PollPeers` takes the snapshot,
`PollUptime` notices a restart and starts the restoring pass if none runs,
`PollTotals` reads the traffic and writes the sessions in two transactions, of which
either may find the file busy. In between Core restarts, peers come, go
and come back. `passes` are the restoring and the ten-minute pass over the saved
peers. `PruneOldData`, `PruneNeverFirst` and `ResetPeerData` delete by what the tables
say, beside the relay profiler, which writes who was around and first. `Traffic` keeps
the differences of Core's counter per day; a kill loses what was not flushed.

A restoring pass, and the promise that keeps a second one from starting, end with its
last answer (`After`). `PollTotals` takes the reading of the open sessions and the two
transactions as one step; a reset that came between would find the same sessions.

The history fields `run` and `asked` of a session, and `moved`, are read by
properties only. Left out: the fallback to the connection time for rows and peers
without an id (`peer-profiler.js:106`).

### Startup

`base` is the file: its tables, flags, added columns, old indexes, and of the data
what a migration reads or writes - one measured peer, one kept host in two spellings,
one pool, the switch. `Left(v)` is what version `v` may have left, with the flags that
version knew: the migrations did not come in the order they run in. A process goes
`Start`, `Schema`, then `ReadFlags` and `Transaction` until no flag is missing; each
transaction reads its flag again. `Busy` throws the connection away and starts over,
`Killed` ends the process anywhere, and what ready processes write (`Session`,
`Block`, `PoolRace`, `Switch`, `RemovePool`, `Promote`) comes while others still
migrate. The statements of the schema are one step: each is committed for itself, and all
can be run again.

### LiveBlocks, PeerTables, RotationSwitch, RpcCall

`LiveBlocks`: `newest` and `named` are the rows the relay profiler writes, `key` what
the server sent last, `dead` the streams nobody reads that still count, and each tab
has its stream, the frames under way, `lastRaceId` and the waves it played. A reset of the
history is left out: it empties `relay_race`, and a block that is announced again after
it gets a second id, and so a second wave.
`PeerTables`: requests for the ranking (`asks`) are served and answered in any order;
`seq` leaves out all but the last, `waiting` is a drawing the reader's press puts off,
`goneAt` hides a removed row; `timer` and `running` are the refresh loop. A pass of the
loop ends with its ranking; in the code it waits for three other requests as well.
`RotationSwitch`: clicks and readings are served and answered in any order or lost.
`RpcCall`: a reply arrives in chunks cut anywhere, is cut off, never comes, or is too
long; sockets are limited; `timeCall` counts a needle over the chunk boundaries.

## Runs

| run | shows | instance |
|---|---|---|
| `manual_races` | the limit is never passed by more than the slot in exchange, nothing is left behind with Core, a full set shrinks only by a removal, and all of it implements `SlotBook` | one person, one rotation, limit 1, 3 addresses, calls that end at any await |
| `sync_settles` | a pass goes above the limit by what it was promised and no more; after a calm, rows and Core agree | one pass and one person, limit 1, 4 addresses, failures before the calm |
| `cap_stale_ranking` | violation: the set stays above its limit | a stale ranking against a person's add |
| `removed_adopted` | violation: a peer being removed is adopted back | a pass against a removal |
| `rotation_slots` | one join per tick, grace, stars, the way back | limit 1, 3 peers, one of them in a person's hands |
| `rotation_knocks` | a parked peer that is due is knocked on in its turn | limit 1, 3 peers, 2 probes per tick, backoff 1, 2, 3 |
| `stratum_race` | fair misses, one order, results stand | 2 pools, 2 blocks, 2 open races, ring of 1 |
| `stratum_follows` | settings are followed, races end | 2 pools, one malformed, writes may fail |
| `relay_race` | one credit per race, races stand, the rollup is the sum of its rows | 2 peers, 2 blocks, 2 handlers, window 0, failures, resets |
| `peer_profiler` | sessions apart, one connection per row, no traffic invented, pruning spares, restarts are repaired | one address with 2 ids, a second one for the passes, 2 runs of Core, 4 moments, 2 days |
| `startup` | ready means whole, nothing comes undone, nobody is turned away, all get ready | two of the processes on a new file or one of two older versions, two busy files, two kills |
| `dashboard` | a page comes to the newest block, one wave, tables never go back, removed stays gone, the loop lives, the switch is true, calls settle, the count is exact | one tab, one stream, 3 blocks, 3 rankings, 2 clicks, 2 calls over one socket |

Why the bounds are enough. In the manual set a limit of 1 already makes every
add a swap, three addresses give an incumbent, a newcomer and a bystander, and
two calls give every pair of interleavings; the proofs lift the limit, the
addresses and the number of calls. In `manual_races` no RPC fails, but any call may
end at any await: that leaves the rows and Core's entries as a failure does (an
answer lost is a call cut off after the answer), without the pending removals, which
no property of that run reads. In `sync_settles` a limit of 1 and two entries of
somebody else's, next to two addresses a person adds, let a pass be promised a slot,
wait for a removal it retries, and meanwhile lose the slot to the person: with the
person's swap under way as well the rows reach the bound of `PassBound`, three.
In the race two pools are first and second,
two blocks overlap or lag behind each other, a ring of one forgets at the first
chance and a window of one tick tells in time from late. Two overlapping handlers
give every order of two announcements. In the rotation a
limit of 1 makes every entry a swap or a use of a freed slot, three peers give a
holder, a challenger and one who waits, a grace of two ticks tells a restarted clock
from a stale one, and intervals of 1, 2 and 3 ticks tell a backoff from none. The two
rotation runs split what they vary: in `rotation_slots` every parked peer is always
due (interval 0), in `rotation_knocks` nobody acts by hand.
`Restless` (whose connections move inside a tick), `Handed`, `Starrable`, `MaxKicks`
and `MaxFails` bound the runs and are named in the module.

In the profiler addresses do not meet (each row is about one), so one is enough, with a
second one (`Far`) that only the passes have to do with: Core can restart between the two
adds of a pass. Two
ids collide after a restart, and four moments leave one before, two inside and one
after a poll. In `startup` two processes give every interleaving of one migration, and
of the releases the older has only its pools seeded, and 1.16.0 has flags that come
after flags it lacks; two kills let both processes start again together. In
`dashboard` one tab with one slot is refused by its own dead stream, three blocks give
one that is missed, and one socket makes the second call wait.

Three MC modules follow a *focus*. The four parts of `dashboard` share no variable, so
a behaviour of it moves one of them. `MCPeerProfiler` varies, in a behaviour, what the
sessions, the pruning, the traffic or the passes read and write and leaves the others
at rest; `MCStartup` starts from installs that differ from a plain one in one concern,
with the two processes that write what it is about. No property relates two of the
parts that are kept apart, and the theorems are about the modules without a focus.

`NoOrphan` and `NoShrink` remember what has gone wrong (`MCManualRaces`). An entry
without a row may stay with Core when the call that put it there failed or was cut
off: the code then leaves it to the next pass. A full set may lose a peer to a swap
that was overtaken: while a rotation and a person let the same peer in for the same
old one, the person adds the old one back in exchange, and the rotation's removal,
chosen before, takes it out again; or, with more than one slot, both let the same peer
in, each for another old one. `manual_races` has one slot; two slots with four addresses
take TLC longer than is practical for a run kept beside the code.

Deadlock is checked but in `dashboard` and `startup`, which stop when their bounded
clicks, calls, blocks and restarts are used up.

Fairness. Safety runs have none. The liveness properties assume:

- `Settles`: calls in flight end (RPCs have a timeout), passes recur (the ten-minute
  interval), and the environment comes to rest at some point.
- `Follows`: timers fire and the five-minute sync gets through at some point; nothing
  is assumed of pools, of the dashboard or of the toggle check.
- `Restored`: once Core stays up, the poll of every 15 seconds goes on and its questions
  are answered, and the restoring pass goes on. Nothing is asked of the ten-minute
  interval: the sign of a restart that the next poll will see, or a repair that has yet
  to read Core's list, has to be enough. A repair that is at its adds already is not
  covered, see Disagreements.
- `AllReady`: Docker starts a process that is down (`docs/architecture.md:26`), and one
  that runs goes on; files are busy and processes killed finitely often.
- `NewestShown`: the twenty-second broadcast fires, a dead stream reaches its age, and
  an open tab keeps reconnecting and reads what arrives.
- `RpcSettles`: a connection goes on or is cut, by its timeout at the latest, and a
  free socket is handed to a call that waits.

## Proved

Every safety property that a passing run checks is a theorem too, about the module's own
specification (with the history the property reads, where an MC module adds one) and
for every value of its constants that meets its named assumptions
(bounds are natural numbers, node sets finite where they are counted). Each rests on an
inductive invariant, shown to hold initially and to be kept by every action; where the
property alone is not inductive, this is what had to be added.

- `ManualSet_proofs`: `TypeCorrect` (`TypeOK`), `BoundHolds` (`SlotBound`),
  `KeepsBook` (every step is a step of `SlotBook` or leaves it alone),
  `NothingForgotten` (`NoOrphan`), `NoSlotLost` (`NoShrink`), and for the passes
  `SyncTypes` (`SyncTypeOK`) and `OvershootBound` (`PassBound`). The type alone is not
  inductive: a call that displaces must know whom (`Knows`), and so must one that adds.
  The limit holds because the transaction compares the rows with it, one above it at
  most, and everything else only deletes rows. Who answers for an entry without a row is
  narrower than what `NoOrphan` asks for (`Responsible`): of the calls that have yet to
  write their row only those that put the entry there will take it back (`Owned`). A full
  set stays full because an add that nobody has overtaken found it full and finds it
  one over when it displaces (`InTime`), and no two such adds are about to displace at
  once (`Reliable`). A pass may go above the limit, but what all passes may still let in
  (`Promised`, one token for each slot left of a pass in its loop) and the rows are
  together within the bound (`Budget`): a pass that starts above the limit is promised
  nothing, and an entry it lets in uses up its token.
- `Rotation_proofs`: `TypeCorrect` (`TypeOK`), `JoinsOnce` (`OneJoin`), `GraceKept`
  (`GraceHonoured`), `StarsKept` (`StarHolds`), `LossesReversible` (`Reversible`),
  `TurnComes` (`DueSoon`). The first four properties are about a tick that works from
  what it has read, so the invariant (`Memo`) says what may have changed since: whom the
  tick is still to retire or may displace is without a star and past its grace, or a
  person has touched it (`Graced`, `Stars`); nobody is in before the tick says it has let
  one in (`Joins`); whom it took out, offline and with a record, is a row, parked, or
  about to be parked, or a person has touched it, and whom it is about to displace it has
  not taken out before, unless a person brought that peer back (`Back`). `DueSoon` is a count: the queue keeps those never probed first and those just
  probed last (`Ordered`); each time a peer is passed over, one that was ahead of it goes
  behind it, so what it missed and those still ahead are together no more than the peers
  beyond those of one tick (`Yields`, and `Waits` while the tick knocks). `DueSoon` has
  the assumption `PatienceAssumption`: the patience and the knocks of one tick are
  together at least the number of addresses.
- `RelayRace_proofs`: `TypeCorrect` (`TypeOK`), `RollupHolds` (`RollupAgrees`),
  `CreditsHold` (`OneCredit`), `RacesStand` (`RaceStands`). An observation belongs to a
  race because only `Record` writes one, in the transaction that writes the race; filling
  a race adds to the count of a peer what it adds to its total.
- `StratumRace_proofs`: `RaceTypes` (`TypeOK`), `NeverCharged` (`HeardNotCharged`),
  `OneOrder` (`RanksTellOrder`), `ResultsKept` (`ResultsStand`), `WholeWindow`
  (`MissAfterWindow`). The invariant speaks of each block: without a row it has no
  result, and while its race is open (`OpenResults`) the results are those of the
  pools reported to the worker, none above the count of reports or the age of the race:
  so the next one is the last in both orders. A pool heard in an open race is reported or
  excused, so the end of the window charges it nothing.
- `PeerProfiler_proofs`: `NoOverlap` (`SessionsApart`), `SameConnection`
  (`OneConnection`), `NobodyWhoMatters` (`Spared`), `NothingTwice` (`NothingInvented`).
  Of two rows of an address one is before the other (`Before`); an open row fits the
  connection Core has and the one in the poll's snapshot (`Fits`) as long as Core has not
  restarted, because ids only grow in one run of Core. Who was never around for a block
  has no last one (`AroundInv`). What the days hold, written down or not, and what the
  next reading would add (`ToCome`) are together no more than Core has moved
  (`TrafficInv`).
- `Startup_proofs`: `WholeWhenReady` (`ReadyOnWhole`), `SwitchStays` (`SwitchKept`),
  `MeasuredStays` (`MeasuredKept`), `RemovedStays` (`PoolsStayRemoved`), `FirstStays`
  (`FirstKept`), `NobodyRefused` (`NoneTurnedAway`). A flag in the file says what its
  migration made true of the data (`Sound`), also for what any older version left
  (`LeftIs`); a process has seen every flag before the step it is at (`Setting`); that the
  seeding has run in this file and the pool is gone is kept by every step
  (`SeededOnce`); and the switch is as this version found it until its migration is through (`Untouched`).
- `Dashboard_proofs`, about the live blocks: `OneWave` (`WaveOnce`). The frames under way
  to a tab are in order, and none is older than what the tab was last told.
  About the tables: `NeverOlder` (`DrawnNeverOlder`) - the answer of the last request
  is no older than the ranking used last, and all others are left out; `LoopLives`
  (`NeverIdle`) - `running` is the number of passes under way; `GoneStays`
  (`StaysGone`) - as long as neither the server nor a ranking that was drawn has left the
  peer out, its entry in `justGone` is that of its last removal.
  About the switch: `BoxHolds` (`BoxTrue`). When the last click is answered, the
  box is true or a reading that left since is under way.
  About the calls: `CountsExactly` (`CountExact`). While a reply arrives, `hits` is the
  number of needles in what has come, and `tail` is long enough for a needle that is cut
  and too short for a whole one (`RpcInv`); `NeedleAssumption` says that needles in a reply
  share no letter, as the quoted field name the code counts does not.
- `Induction_proofs`: `NatBySteps`. What holds of zero and passes from each number to the
  next holds of all naturals; it is stated for a set and follows from the
  well-foundedness of their order. The sums over days, the counts of needles and the
  filter of the queue are recursive functions, and what the proofs need of them is shown
  with it.

Model-checked only: the liveness properties (`Settles`, `Follows`, `Restored`,
`AllReady`, `NewestShown`, `RpcSettles`), because fairness is out of the prover's reach;
and the two statements that runs refute (`CapAtRest`, `RemovedNotAdopted`).

## Disagreements between the code and what it says

Two are runs: `cap_stale_ranking` and `removed_adopted` (see findings in PROJECT.json).

Others, reachable in the models but without a run:

- Two hand adds at the same moment choose the same weakest peer; both are let in
  against it and the set stays one above its limit (`lib/peer-sync.js:416`). The
  test at `test/peer-rotation.test.js:1307` races two adds that displace nobody.
- Two adds of the same new peer at the same moment may each displace another one: the
  second finds the row there and is not counted, and removes its own choice all the
  same, so the set ends one short (`lib/peer-sync.js:418`).
- A live manual connection without a row can be the weakest "trusted" peer
  (`lib/queries/ranking-row.js:74`): displacing it frees no row, and
  `docs/protected-peers.md:5` says such entries are left untouched.
- A star set while a swap is waiting for Core is lost with the row
  (`lib/peer-sync.js:471`, against `docs/protected-peers.md:3`).
- Adoption can pass the limit after the awaited retry of a removal
  (`lib/peer-sync.js:165`), and a pass saves the copy of the pending removals it read
  before its awaits, so that one that failed meanwhile is forgotten (`:181`).
- A pass that meets the add of a promotion before its row adopts it, starred
  (`lib/peer-sync.js:137`, against `lib/db.js:88`).
- A pool whose connection came up in a race is excused from it, but timed when it sends
  the block a second time (`stratum-race.js:296` and `:368`, against
  `test/stratum-race.test.js:356`).
- The tail of a burst is set back when two handlers finish in the other order, and a
  block of the burst is then counted (`relay-profiler.js:363` and `:368`).
- A backlog block is counted when its header is asked for before and the chain after
  Core connects the last block of the backlog (`relay-profiler.js:347`).
- A restart of Core that is noticed while the repair of an earlier one is at its adds uses
  up its sign (`peer-profiler.js:282`): what Core has lost since it gave its list comes back
  with the ten-minute pass, as it did before that repair existed (`:254`).
- A peer that is gone from a snapshot and returns while the poll waits has its old
  session ended after the new connection began: the gap is credited to the old session,
  and the two overlap, against `test/peer-profiler.test.js:95` and the comment at
  `peer-profiler.js:118`. `SessionsApart` allows exactly this.
- A ranking without a peer that left before its removal, and is drawn after it, ends the
  wait: a later answer that still lists the peer shows it again until the next snapshot
  (`dashboard/public/app.js:1217`, against the comment at `:1200`). It takes a drawing put
  off while the action, or the reader, held the tables. `StaysGone` allows exactly this.
- Traffic between two runs of the process is not counted, nor is what a kill leaves
  unflushed (`lib/traffic.js:13`); after a restart of Core that has already passed the old
  counter the difference is too small (`:41`).
- A kick can disconnect a peer that a person has added while the tick waited for its
  first kick (`lib/peer-rotation/kick.js:75`, against line 26 there: "trusted peers are
  never touched").
- A star given, or a first session begun, after a tick has read its ranking does not
  stop the retirement (`lib/peer-rotation/parking.js:93`).
- A peer that was just parked comes before all that were ever knocked on
  (`lib/peer-rotation/parking.js:195`): with few probes, peers that keep swapping one
  slot take every knock. `DueSoon` therefore does not count knocks on those.
- A tick that ends between the removal of a retired peer and its parking loses the
  record (`lib/peer-rotation/parking.js:100`).
- The rotation switch of a second page is shown late, and one reading that leaves after a
  click but is served before it turns the box back until the next one
  (`dashboard/public/app.js:1386`): `BoxTrue` is about a page at rest.

## Not modelled

- Read-only SQL for display (rankings, blocks, statistics, storage accounting), `VACUUM`,
  charts, markup, formatting, static files, security headers: no state of their own.
- Configuration, logging, heartbeat files, health checks: I/O.
- The clock samples read off replies, the height backfill, the storing of the template
  time, the totals per network: each writes one column nobody decides by.
- The pure helpers (address identity, score, pool id, sibling, block hash spelling,
  local pools): text and arithmetic, covered by tables of examples in their tests.
- The pool panel of the page and the switch of the pool race, which has no guard against
  readings that overtake a click; the disconnect of live sessions; read-only mode.

## What is left

1. `Rotation` as an implementation of `SlotBook`, which must then let records expire.
2. The block hash spelling and the address identity against a reference definition.
3. The composition of `PeerProfiler` and `ManualSync`, which now meet in `saved` and `held`
   only: the passes of the first are the pass of the second in one step per peer.
