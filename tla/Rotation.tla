------------------------------- MODULE Rotation -------------------------------
(***************************************************************************)
(* The peer rotation (lib/peer-rotation/): every ten minutes one tick      *)
(* kicks connections that deliver nothing, retires manual peers that       *)
(* stayed away too long, knocks on the parked ones and lets one back in,   *)
(* or else promotes a connected peer.                                      *)
(*                                                                         *)
(* What an add or a removal is made of, and how calls interleave inside    *)
(* one, is ManualSet's subject: here a row comes or goes in one step, and  *)
(* a person may act between any two steps of a tick. Who scores better     *)
(* than whom changes with every block and is a free choice. A tick takes   *)
(* far less than the ten minutes to the next: time passes between ticks.   *)
(***************************************************************************)
EXTENDS FiniteSets, Integers, SequencesExt

CONSTANTS
  Addr,
  NoAddr,
  Cap,            \* maxManualPeers
  MaxKicks,       \* MAX_KICKS_PER_PASS
  ProbesPerTick,  \* parkedPeerProbesPerTick
  Grace,          \* offlineGraceMs, in ticks, as are the three below
  NewGrace,       \* newManualGraceBlocks
  MinInterval,    \* parkedPeerMinProbeIntervalMinutes
  MaxInterval,    \* probeIntervalCapMs
  MaxFails,       \* bound of the counted failures
  Starrable,      \* the addresses a person may star
  Restless,       \* the addresses whose connection may come or go in a tick
  Handed          \* the addresses a person may add and remove

ASSUME NumberAssumption ==
  /\ Cap \in Nat \ {0} /\ ProbesPerTick \in Nat \ {0} /\ MaxKicks \in Nat
  /\ Grace \in Nat /\ NewGrace \in Nat /\ MinInterval \in Nat /\ MaxInterval \in Nat
  /\ MaxFails \in Nat /\ MinInterval * 2^MaxFails >= MaxInterval
ASSUME AddrAssumption ==
  IsFiniteSet(Addr) /\ NoAddr \notin Addr /\ Starrable \cup Restless \subseteq Addr /\ Handed \subseteq Addr

Longest(S) == CHOOSE n \in S : \A m \in S : m <= n
MaxAge == Longest({Grace, NewGrace})
Never == -1  \* last_probe_at IS NULL

VARIABLES
  rows,     \* trusted_peer
  starred,  \* those of them with kept = 1
  held,     \* everManual: held by Core as a manual connection at some time
  live,     \* connected to Core
  since,    \* ticks since a row was written, up to MaxAge
  away,     \* ticks since the last session of a row ended, up to Grace; 0 in a session
  queue,    \* parked_peer, as reviveParkedPeers orders it
  quiet,    \* ticks since the last probe, up to MaxInterval
  fails,    \* probe_failures
  tick      \* where the tick is, and what it has read

vars == <<rows, starred, held, live, since, away, queue, quiet, fails, tick>>
clocks == <<since, away>>
parking == <<queue, quiet, fails>>

Parked == ToSet(queue)

(***************************************************************************)
(* A tick. pass is the pass it is in, next what it does next in it: go on, *)
(* park target, take target's row for the peer that has joined, or ask     *)
(* whether Core goes through a proxy before it knocks on anybody. known,   *)
(* wasLive, holders and measured are the ranking it read: the manual       *)
(* peers, the live ones, those evictableTrusted leaves, and of the manual  *)
(* peers not live those with a record, eligible for a block at least.      *)
(***************************************************************************)
Passes == {"idle", "due", "kick", "retire", "revive", "promote"}

Ticks == [pass : Passes, next : {"go", "ask", "displace", "park"}, target : Addr \cup {NoAddr},
          kicks : 0..MaxKicks, todo : SUBSET Addr, knocks : Seq(Addr),
          retired : SUBSET Addr, joined : BOOLEAN,
          known : SUBSET Addr, wasLive : SUBSET Addr, holders : SUBSET Addr,
          measured : SUBSET Addr]

Idle == [pass |-> "idle", next |-> "go", target |-> NoAddr, kicks |-> 0, todo |-> {},
         knocks |-> <<>>, retired |-> {}, joined |-> FALSE, known |-> {}, wasLive |-> {}, holders |-> {},
         measured |-> {}]

In(pass) == tick.pass = pass /\ tick.next = "go"

\* offlineForMs >= offlineGraceMs: whichever clock started later counts.
LongAwayBySession(a) == away[a] >= Grace  \* wrong on purpose: only one clock
LongAway(a) == away[a] >= Grace /\ since[a] >= Grace

\* evictableTrusted
Evictable == {a \in rows \ starred : since[a] >= NewGrace}

\* peerRanking, as the passes read it. Who has a record is up to the blocks of
\* the past, of which some are pruned or reset.
Read(t, measured) ==
  [t EXCEPT !.known = rows, !.wasLive = live, !.holders = Evictable, !.measured = measured]

\* Those members of s that are in S, in the order they have there.
Only(s, S) ==
  LET upTo[i \in 0..Len(s)] ==
        IF i = 0 THEN <<>>
        ELSE IF s[i] \in S THEN Append(upTo[i - 1], s[i]) ELSE upTo[i - 1]
  IN  upTo[Len(s)]

\* What parkPeer writes: the record is to be probed first.
ParkFirst(a) ==
  LET rest == Only(queue, Addr \ {a})
      unprobed == Cardinality({b \in ToSet(rest) : quiet[b] = Never})
  IN  /\ \E i \in 1..unprobed + 1 : queue' = InsertAt(rest, i, a)
      /\ quiet' = [quiet EXCEPT ![a] = Never]
      /\ fails' = [fails EXCEPT ![a] = 0]

\* The records of S go: addTrustedPeer, or their retention is over.
Unpark(S) ==
  /\ queue' = Only(queue, Addr \ S)
  /\ quiet' = [a \in Addr |-> IF a \in S THEN Never ELSE quiet[a]]
  /\ fails' = [a \in Addr |-> IF a \in S THEN 0 ELSE fails[a]]
-----------------------------------------------------------------------------
Init ==
  /\ rows = {} /\ starred = {} /\ held = {} /\ live = {}
  /\ since = [a \in Addr |-> 0] /\ away = [a \in Addr |-> Grace]
  /\ queue = <<>>
  /\ quiet = [a \in Addr |-> Never] /\ fails = [a \in Addr |-> 0]
  /\ tick = Idle

\* tick: the ranking, from which retireOfflineManualPeers will make its list too.
\* A star covers being away only for a peer that Core has held.
ToRetireAnyone == {a \in rows \ live : LongAway(a)}  \* wrong on purpose: no star
ToRetire == {a \in rows \ live : LongAway(a) /\ ~(a \in starred /\ a \in held)}

Begin ==
  /\ In("due")
  /\ \E measured \in SUBSET (rows \ live) :
       tick' = [Read(tick, measured) EXCEPT !.pass = "kick", !.todo = ToRetire]
  /\ UNCHANGED <<rows, starred, held, live, clocks, parking>>

\* kickDeadWeight: a connected peer that is not manual is disconnected.
Kick(a) ==
  /\ In("kick") /\ tick.kicks < MaxKicks
  /\ a \in tick.wasLive \ tick.known
  /\ live' = live \ {a}
  /\ tick' = [tick EXCEPT !.kicks = @ + 1]
  /\ UNCHANGED <<rows, starred, held, clocks, parking>>

EndKick ==
  /\ In("kick")
  /\ tick' = [tick EXCEPT !.pass = "retire", !.kicks = 0]
  /\ UNCHANGED <<rows, starred, held, live, clocks, parking>>

\* removeTrustedPeer: the row, and the session.
RemoveRow(a) ==
  /\ rows' = rows \ {a} /\ starred' = starred \ {a}
  /\ since' = [since EXCEPT ![a] = 0] /\ away' = [away EXCEPT ![a] = Grace]
  /\ live' = live \ {a}

\* The peer is parked next.
Retire(a) ==
  /\ In("retire") /\ a \in tick.todo
  /\ RemoveRow(a)
  /\ tick' = [tick EXCEPT !.todo = @ \ {a}, !.next = "park", !.target = a, !.retired = @ \cup {a}]
  /\ UNCHANGED <<held, parking>>

\* parkPeer declines a peer without a record.
Park ==
  /\ tick.next = "park"
  /\ IF tick.target \in tick.measured THEN ParkFirst(tick.target) ELSE UNCHANGED parking
  /\ tick' = [tick EXCEPT !.next = "go", !.target = NoAddr]
  /\ UNCHANGED <<rows, starred, held, live, clocks>>

\* reviveParkedPeers: records past their retention go; of the others the few that
\* were probed longest ago are next, among those that are due.
IsDue(a) ==
  LET backoff == MinInterval * 2^fails[a]
  IN  quiet[a] = Never \/ quiet[a] >= IF backoff < MaxInterval THEN backoff ELSE MaxInterval

Few(s) == SubSeq(s, 1, IF Len(s) < ProbesPerTick THEN Len(s) ELSE ProbesPerTick)

Due == {a \in Addr : IsDue(a)}

ChosenFirstLimited(s) == Only(Few(s), Due)  \* wrong on purpose: the limit comes first
Chosen(s) == Few(Only(s, Due))

EndRetire ==
  /\ In("retire") /\ tick.todo = {}
  /\ \E forgotten \in SUBSET (Parked \ (tick.retired \cap tick.measured)) : Unpark(forgotten)
  /\ \E measured \in SUBSET (rows \ live) :
       LET knocks == Chosen(queue')
           ranked == IF tick.retired # {} THEN Read(tick, measured) ELSE tick
       IN  tick' = [ranked EXCEPT !.pass = "revive", !.knocks = knocks, !.retired = {},
                                  !.next = IF knocks = <<>> THEN "go" ELSE "ask"]
  /\ UNCHANGED <<rows, starred, held, live, clocks>>

\* clearnetViaProxy: with a proxy nobody is knocked on.
Ask ==
  /\ tick.next = "ask"
  /\ \E proxied \in BOOLEAN :
       tick' = [tick EXCEPT !.next = "go", !.knocks = IF proxied THEN <<>> ELSE @]
  /\ UNCHANGED <<rows, starred, held, live, clocks, parking>>

\* The record of a, if it is still there, as the one probed last.
Requeue(a, failures) ==
  LET rest == Only(queue, Addr \ {a})
      fresh == Cardinality({b \in ToSet(rest) : quiet[b] = 0})
  IN  IF a \in Parked
      THEN /\ \E i \in Len(rest) - fresh + 1..Len(rest) + 1 : queue' = InsertAt(rest, i, a)
           /\ quiet' = [quiet EXCEPT ![a] = 0]
           /\ fails' = [fails EXCEPT ![a] = failures]
      ELSE UNCHANGED parking

Knocking(a) == In("revive") /\ tick.knocks # <<>> /\ a = Head(tick.knocks)
Knocked == [tick EXCEPT !.knocks = Tail(@)]

ProbeFails(a) ==
  /\ Knocking(a)
  /\ Requeue(a, IF fails[a] < MaxFails THEN fails[a] + 1 ELSE MaxFails)
  /\ tick' = Knocked
  /\ UNCHANGED <<rows, starred, held, live, clocks>>

\* It answers, and stays parked: somebody joined before it, it beats nobody it
\* may replace, or the add is refused.
StaysParked(a) ==
  /\ Knocking(a)
  /\ Requeue(a, 0)
  /\ tick' = Knocked
  /\ UNCHANGED <<rows, starred, held, live, clocks>>

\* addTrustedPeer: into a free slot, or for v when there is none.
Full == Cardinality(rows) >= Cap

Enters(a, v, t) ==
  LET out == IF a \in rows \/ ~Full THEN NoAddr ELSE v
  IN  /\ a \in rows \/ ~Full \/ (v \notin {NoAddr, a} /\ Cardinality(rows) <= Cap)
      /\ rows' = rows \cup {a}
      /\ since' = IF a \in rows THEN since ELSE [since EXCEPT ![a] = 0]
      /\ Unpark({a})
      /\ tick' = [t EXCEPT !.joined = TRUE, !.target = out,
                           !.next = IF out = NoAddr THEN "go" ELSE "displace"]
      /\ live' = IF a \in rows THEN live ELSE live \ {a}
      /\ UNCHANGED <<starred, held, away>>

\* Whom a challenger may be let in against, by the ranking the tick has read.
Replaced == IF Cardinality(tick.known) < Cap THEN {NoAddr} ELSE tick.holders

Revive(a) ==
  /\ Knocking(a) /\ ~tick.joined
  /\ \E v \in Replaced : Enters(a, v, Knocked)

\* Wrong on purpose: parks those that are connected.
DisplaceParksLive ==
  /\ tick.next = "displace"
  /\ RemoveRow(tick.target)
  /\ tick' = IF tick.target \notin tick.wasLive
             THEN [tick EXCEPT !.next = "go", !.target = NoAddr]
             ELSE [tick EXCEPT !.next = "park"]
  /\ UNCHANGED <<held, parking>>

\* A displaced peer is parked unless the ranking showed it connected.
Displace ==
  /\ tick.next = "displace"
  /\ RemoveRow(tick.target)
  /\ tick' = IF tick.target \in tick.wasLive
             THEN [tick EXCEPT !.next = "go", !.target = NoAddr]
             ELSE [tick EXCEPT !.next = "park"]
  /\ UNCHANGED <<held, parking>>

\* Wrong on purpose: promotes all the same.
EndReviveAlways ==
  /\ In("revive") /\ tick.knocks = <<>>
  /\ tick' = [tick EXCEPT !.pass = "promote", !.joined = FALSE]
  /\ UNCHANGED <<rows, starred, held, live, clocks, parking>>

\* promoteBestCandidate, unless a peer was revived.
EndRevive ==
  /\ In("revive") /\ tick.knocks = <<>>
  /\ tick' = IF tick.joined THEN Idle ELSE [tick EXCEPT !.pass = "promote"]
  /\ UNCHANGED <<rows, starred, held, live, clocks, parking>>

Promote(a) ==
  /\ In("promote") /\ ~tick.joined
  /\ a \in tick.wasLive \ tick.known
  /\ \E v \in Replaced : Enters(a, v, tick)

EndPromote ==
  /\ In("promote")
  /\ tick' = Idle
  /\ UNCHANGED <<rows, starred, held, live, clocks, parking>>
-----------------------------------------------------------------------------
(***************************************************************************)
(* Around the tick: connections, time, people, and the process that ends.  *)
(***************************************************************************)
MayMove(a) == a \in Restless \/ tick.pass \in {"idle", "due"}

Connect(a) ==
  /\ MayMove(a)
  /\ a \notin live
  /\ live' = live \cup {a}
  /\ held' = IF a \in rows THEN held \cup {a} ELSE held
  /\ away' = IF a \in rows THEN [away EXCEPT ![a] = 0] ELSE away
  /\ UNCHANGED <<rows, starred, since, parking, tick>>

Disconnect(a) ==
  /\ MayMove(a)
  /\ a \in live
  /\ live' = live \ {a}
  /\ UNCHANGED <<rows, starred, held, clocks, parking, tick>>

Later(n, max) == IF n < max THEN n + 1 ELSE max

\* Ten minutes pass, and a tick is due.
Elapse ==
  /\ In("idle")
  /\ since' = [a \in Addr |-> IF a \in rows THEN Later(since[a], MaxAge) ELSE since[a]]
  /\ away' = [a \in Addr |-> IF a \in live THEN away[a] ELSE Later(away[a], Grace)]
  /\ quiet' = [a \in Addr |-> IF a \in Parked /\ quiet[a] # Never
                              THEN Later(quiet[a], MaxInterval) ELSE quiet[a]]
  /\ tick' = [tick EXCEPT !.pass = "due"]
  /\ UNCHANGED <<rows, starred, held, live, queue, fails>>

\* manualAddPeer, removeTrustedPeer and setKept, from the dashboard. Who is
\* displaced by hand is seen in ManualSet.
HandAdd(a) ==
  /\ a \in Handed \ rows /\ ~Full
  /\ rows' = rows \cup {a}
  /\ starred' \in IF a \in Starrable THEN {starred, starred \cup {a}} ELSE {starred}
  /\ since' = [since EXCEPT ![a] = 0]
  /\ Unpark({a})
  /\ live' = live \ {a}
  /\ UNCHANGED <<held, away, tick>>

HandRemove(a) ==
  /\ a \in Handed \cap rows
  /\ RemoveRow(a)
  /\ UNCHANGED <<held, parking, tick>>

SetKept(a) ==
  /\ a \in Starrable \cap rows
  /\ starred' = IF a \in starred THEN starred \ {a} ELSE starred \cup {a}
  /\ UNCHANGED <<rows, held, live, clocks, parking, tick>>

\* The switch is off, the tick fails, or its process ends.
Abort ==
  /\ tick # Idle
  /\ tick' = Idle
  /\ UNCHANGED <<rows, starred, held, live, clocks, parking>>

TickStep ==
  \/ Begin \/ EndKick \/ Park \/ EndRetire \/ Ask \/ Displace \/ EndRevive \/ EndPromote
  \/ \E a \in Addr : Kick(a) \/ Retire(a) \/ ProbeFails(a) \/ StaysParked(a)
                     \/ Revive(a) \/ Promote(a)

Person(a) == HandAdd(a) \/ HandRemove(a) \/ SetKept(a)

Next ==
  \/ TickStep \/ Elapse \/ Abort
  \/ \E a \in Addr : Connect(a) \/ Disconnect(a) \/ Person(a)

Spec == Init /\ [][Next]_vars
-----------------------------------------------------------------------------
(***************************************************************************)
(* Properties.                                                             *)
(***************************************************************************)

\* Every variable keeps its shape; a star sits on a row and a peer is parked once.
TypeOK ==
  /\ rows \subseteq Addr /\ starred \subseteq rows
  /\ held \subseteq Addr /\ live \subseteq Addr
  /\ since \in [Addr -> 0..MaxAge] /\ away \in [Addr -> 0..Grace]
  /\ queue \in Seq(Addr) /\ Cardinality(Parked) = Len(queue)
  /\ quiet \in [Addr -> {Never} \cup 0..MaxInterval]
  /\ fails \in [Addr -> 0..MaxFails]
  /\ tick \in Ticks
=============================================================================
