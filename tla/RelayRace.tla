------------------------------ MODULE RelayRace ------------------------------
(***************************************************************************)
(* The relay profiler (relay-profiler.js): for every block Core announces  *)
(* it asks Core three questions side by side and records who was connected *)
(* and who delivered the block. Handlers overlap: one is started by each   *)
(* announcement and waits for its own answers.                             *)
(*                                                                         *)
(* A block is its height. Core connects blocks one after the other, from   *)
(* whichever peer has the next, and answers questions from what it holds   *)
(* at that moment. The block template timing, the ping and the height      *)
(* backfill are columns nothing else here reads: not represented.          *)
(***************************************************************************)
EXTENDS FiniteSets, Integers

CONSTANTS
  Peer,
  MaxBlock,     \* blocks are numbered 1 to MaxBlock
  MaxTime,      \* bound of the clock
  MaxCalls,     \* bound of the handlers in flight; further announcements are lost
  FirstWindow,  \* FIRST_WINDOW_MS
  Ahead,        \* how far last_block may lie after the announcement (1000 ms)
  Tail,         \* CATCHUP_TAIL_MS
  Repeats,      \* TRUE when Core may announce its tip again
  Flaky,        \* TRUE when a question may fail
  Resets        \* TRUE when the peer data may be reset and pruned

ASSUME NumberAssumption ==
  /\ MaxBlock \in Nat /\ MaxTime \in Nat /\ FirstWindow \in Nat /\ Ahead \in Nat
  /\ Tail \in Nat /\ MaxCalls \in Nat
ASSUME PeerAssumption == IsFiniteSet(Peer)
ASSUME FlagAssumption == Repeats \in BOOLEAN /\ Flaky \in BOOLEAN /\ Resets \in BOOLEAN

Block == 1..MaxBlock
Time == 0..MaxTime
Never == -1  \* null

VARIABLES
  now,
  height,      \* the blocks Core has connected
  headers,     \* the best header Core knows
  connected,   \* Core's peers
  lastBlock,   \* last_block of each peer's connection
  calls,       \* the handlers that wait for Core
  lastCatchUp, \* lastCatchUpAt
  raced,       \* relay_race: the blocks with a row
  obs,         \* relay_observation
  stats        \* peer_relay_stats

core == <<height, headers, connected, lastBlock>>
database == <<raced, obs, stats>>
vars == <<now, core, calls, lastCatchUp, database>>

Questions == {"peers", "chain", "header"}

\* matches are the peers isFirstPeer holds for, catching what isCatchingUp has
\* been told so far.
Calls == [block : Block, at : Time, waiting : SUBSET Questions,
          eligible : SUBSET Peer, matches : SUBSET Peer, catching : BOOLEAN]

Marks == {"none", "eligible", "first"}

Total == [eligible : Nat, first : Nat]
NoTotal == [eligible |-> 0, first |-> 0]
-----------------------------------------------------------------------------
Init ==
  /\ now = 0 /\ height = 0 /\ headers = 0
  /\ connected = {} /\ lastBlock = [p \in Peer |-> Never]
  /\ calls = {} /\ lastCatchUp = Never
  /\ raced = {} /\ obs = [b \in Block |-> [p \in Peer |-> "none"]]
  /\ stats = [p \in Peer |-> NoTotal]

Tick ==
  /\ now < MaxTime
  /\ now' = now + 1
  /\ UNCHANGED <<core, calls, lastCatchUp, database>>

PeerConnects(p) ==
  /\ p \notin connected
  /\ connected' = connected \cup {p}
  /\ UNCHANGED <<now, height, headers, lastBlock, calls, lastCatchUp, database>>

PeerLeaves(p) ==
  /\ p \in connected
  /\ connected' = connected \ {p}
  /\ lastBlock' = [lastBlock EXCEPT ![p] = Never]
  /\ UNCHANGED <<now, height, headers, calls, lastCatchUp, database>>

HeadersArrive ==
  /\ headers < MaxBlock /\ connected # {}
  /\ headers' = headers + 1
  /\ UNCHANGED <<now, height, connected, lastBlock, calls, lastCatchUp, database>>

\* hashblock: the handler takes the time and asks its three questions at once.
NewCall(b) == [block |-> b, at |-> now, waiting |-> Questions,
               eligible |-> {}, matches |-> {}, catching |-> FALSE]

\* Core connects the next block and announces it. A block announced while the
\* profiler is down is one whose handler its restart ends.
ConnectBlock(p) ==
  /\ p \in connected /\ height < MaxBlock
  /\ height' = height + 1
  /\ headers' = IF headers > height THEN headers ELSE height + 1
  /\ lastBlock' = [lastBlock EXCEPT ![p] = now]
  /\ calls' = IF Cardinality(calls) < MaxCalls THEN calls \cup {NewCall(height + 1)} ELSE calls
  /\ UNCHANGED <<now, connected, lastCatchUp, database>>

\* The same tip announced again.
Repeat ==
  /\ Repeats /\ height > 0
  /\ NewCall(height) \notin calls /\ Cardinality(calls) < MaxCalls
  /\ calls' = calls \cup {NewCall(height)}
  /\ UNCHANGED <<now, core, lastCatchUp, database>>
-----------------------------------------------------------------------------
\* isFirstPeer: a peer matches when its last block lies in the window.
IsFirst(p, at) ==
  /\ lastBlock[p] # Never
  /\ at - lastBlock[p] <= FirstWindow
  /\ lastBlock[p] <= at + Ahead

\* An answer of c, which is then as in answered.
Answer(c, answered) ==
  /\ calls' = (calls \ {c}) \cup {answered}
  /\ UNCHANGED <<now, core, lastCatchUp, database>>

AnswerPeers(c) ==
  /\ "peers" \in c.waiting
  /\ Answer(c, [c EXCEPT !.waiting = @ \ {"peers"}, !.eligible = connected,
                         !.matches = {p \in connected : IsFirst(p, c.at)}])

\* getpeerinfo fails: the race is lost for this block.
PeersFail(c) ==
  /\ Flaky /\ "peers" \in c.waiting
  /\ calls' = calls \ {c}
  /\ UNCHANGED <<now, core, lastCatchUp, database>>

\* More blocks on top of this one, or headers ahead of the blocks: a backlog. A
\* question that fails only cannot tell. An old tip (initialblockdownload) is a
\* backlog too, and left out.
AnswerHeader(c) ==
  /\ "header" \in c.waiting
  /\ \E told \in IF Flaky THEN BOOLEAN ELSE {TRUE} :
       Answer(c, [c EXCEPT !.waiting = @ \ {"header"},
                           !.catching = @ \/ (told /\ height > c.block)])

AnswerChain(c) ==
  /\ "chain" \in c.waiting
  /\ \E told \in IF Flaky THEN BOOLEAN ELSE {TRUE} :
       Answer(c, [c EXCEPT !.waiting = @ \ {"chain"},
                           !.catching = @ \/ (told /\ headers > height)])

\* With its last answer a handler goes on; another may go on before it.
Backlog(c) == c.catching \/ (lastCatchUp # Never /\ c.at - lastCatchUp < Tail)

Skip(c) ==
  /\ c.waiting = {} /\ Backlog(c)
  /\ lastCatchUp' = c.at
  /\ calls' = calls \ {c}
  /\ UNCHANGED <<now, core, database>>

\* recordRace, one transaction: INSERT OR IGNORE on the block, then one row per
\* peer of the snapshot, each counted by the insert trigger. Two matches are no
\* match.
CreditAll(c, p) ==  \* wrong on purpose: everybody who matches is credited
  IF p \in c.matches THEN "first" ELSE "eligible"

Credit(c, p) == IF c.matches = {p} THEN "first" ELSE "eligible"

Counted(total, mark) ==
  [eligible |-> total.eligible + 1,
   first |-> total.first + (IF mark = "first" THEN 1 ELSE 0)]

FillRace(c) ==
  /\ obs' = [obs EXCEPT ![c.block] =
              [p \in Peer |-> IF p \in c.eligible /\ @[p] = "none" THEN Credit(c, p) ELSE @[p]]]
  /\ stats' = [p \in Peer |->
                IF p \in c.eligible /\ obs[c.block][p] = "none"
                THEN Counted(stats[p], Credit(c, p)) ELSE stats[p]]

\* Wrong on purpose: a repeated announcement adds its peers to the old race.
RecordRepeated(c) ==
  /\ c.waiting = {} /\ ~Backlog(c)
  /\ raced' = raced \cup {c.block}
  /\ FillRace(c)
  /\ calls' = calls \ {c}
  /\ UNCHANGED <<now, core, lastCatchUp>>

Record(c) ==
  /\ c.waiting = {} /\ ~Backlog(c) /\ c.block \notin raced
  /\ raced' = raced \cup {c.block}
  /\ FillRace(c)
  /\ calls' = calls \ {c}
  /\ UNCHANGED <<now, core, lastCatchUp>>

\* A block with a race, or a write that fails on a busy database.
Discard(c) ==
  /\ c.waiting = {} /\ ~Backlog(c) /\ (Flaky \/ c.block \in raced)
  /\ calls' = calls \ {c}
  /\ UNCHANGED <<now, core, lastCatchUp, database>>

Restart ==
  /\ calls' = {} /\ lastCatchUp' = Never
  /\ UNCHANGED <<now, core, database>>
-----------------------------------------------------------------------------
\* pruneNeverFirstPeers, in the peer profiler: the rows of a peer that was never
\* first go, the total last. That it was away for a month is not represented.
PruneLeavesTotal(p) ==  \* wrong on purpose: the rows go without the trigger
  /\ Resets /\ stats[p].eligible > 0
  /\ \A b \in Block : obs[b][p] # "first"
  /\ obs' = [b \in Block |-> [obs[b] EXCEPT ![p] = "none"]]
  /\ UNCHANGED <<now, core, calls, lastCatchUp, raced, stats>>

Prune(p) ==
  /\ Resets /\ stats[p].eligible > 0 /\ stats[p].first = 0
  /\ \A b \in Block : obs[b][p] # "first"
  /\ obs' = [b \in Block |-> [obs[b] EXCEPT ![p] = "none"]]
  /\ stats' = [stats EXCEPT ![p] = NoTotal]
  /\ UNCHANGED <<now, core, calls, lastCatchUp, raced>>

ResetLeavesRows ==  \* wrong on purpose: the races go, their rows stay
  /\ Resets /\ raced # {}
  /\ raced' = {}
  /\ UNCHANGED <<now, core, calls, lastCatchUp, obs, stats>>

\* resetPeerData, from the dashboard. A handler in flight then finds no row, and
\* may record the block anew.
ResetPeerData ==
  /\ Resets /\ raced # {}
  /\ raced' = {}
  /\ obs' = [b \in Block |-> [p \in Peer |-> "none"]]
  /\ stats' = [p \in Peer |-> NoTotal]
  /\ UNCHANGED <<now, core, calls, lastCatchUp>>

Core ==
  \/ Tick \/ HeadersArrive \/ Repeat
  \/ \E p \in Peer : PeerConnects(p) \/ PeerLeaves(p) \/ ConnectBlock(p)

Handler ==
  \/ \E c \in calls :
       \/ AnswerPeers(c) \/ AnswerHeader(c) \/ AnswerChain(c) \/ PeersFail(c)
       \/ Skip(c) \/ Record(c) \/ Discard(c)
  \/ Restart

Next ==
  \/ Core \/ Handler \/ ResetPeerData
  \/ \E p \in Peer : Prune(p)

Spec == Init /\ [][Next]_vars
-----------------------------------------------------------------------------
(***************************************************************************)
(* Properties.                                                             *)
(***************************************************************************)

\* Every variable keeps its shape; observations hang on races.
TypeOK ==
  /\ now \in Time /\ height \in 0..MaxBlock /\ headers \in height..MaxBlock
  /\ connected \subseteq Peer
  /\ lastBlock \in [Peer -> Time \cup {Never}]
  /\ calls \subseteq Calls
  /\ lastCatchUp \in Time \cup {Never}
  /\ raced \subseteq Block
  /\ obs \in [Block -> [Peer -> Marks]]
  /\ \A b \in Block \ raced : \A p \in Peer : obs[b][p] = "none"
  /\ stats \in [Peer -> Total]

\* The rollup the ranking reads is what the rows add up to, through overlapping
\* handlers, repeated announcements, pruning and resets: "the invariant
\* peer_relay_stats == SELECT peer_id, COUNT(*), SUM(first)" (db.js).
RollupAgrees ==
  \A p \in Peer :
    stats[p] = [eligible |-> Cardinality({b \in Block : obs[b][p] # "none"}),
                first |-> Cardinality({b \in Block : obs[b][p] = "first"})]

\* A race credits one peer or nobody: two matches are another block moments
\* apart, and nobody can tell whose this one is (isFirstPeer).
OneCredit ==
  \A b \in Block : Cardinality({p \in Peer : obs[b][p] = "first"}) <= 1

\* A race once recorded stands: a repeated announcement adds no peer to it and
\* moves no credit; rows only go, with their peer or with everything.
RaceStands ==
  [][\A b \in raced :
       \A p \in Peer : obs'[b][p] \in {obs[b][p], "none"}]_vars
=============================================================================
