------------------------------ MODULE ManualSet ------------------------------
(***************************************************************************)
(* The manual set: the trusted_peer rows of Bitcoin Lab and the addnode    *)
(* list of Bitcoin Core that they stand for, with the operations of        *)
(* lib/peer-sync.js that change them: addTrustedPeer, removeTrustedPeer,   *)
(* parkPeer and setKept.                                                   *)
(*                                                                         *)
(* The dashboard and the peer profiler are two processes over one SQLite   *)
(* file, and both run these operations. Every operation awaits RPCs, so    *)
(* operations interleave at their awaits; the code between two awaits is   *)
(* one action here. An actor is one call in flight in either process.      *)
(*                                                                         *)
(* An address stands for a node, whatever its spelling. Scores, graces and *)
(* reachability are not represented: which of the displaceable peers is    *)
(* the weakest, and whether it is still connected, are free choices.       *)
(***************************************************************************)
EXTENDS FiniteSets, Integers

CONSTANTS
  Addr,        \* the addresses that can be manual peers
  Actors,      \* the calls that can be in flight at one time
  Rotators,    \* the actors that are rotation passes; the others are people
  Cap,         \* config.maxManualPeers
  Conf,        \* the -addnode= lines of bitcoin.conf
  HandWants,   \* addresses people add
  RotationWants, \* addresses the rotation promotes or revives
  Foreign,     \* addresses somebody adds to Core without this app
  Reachable,   \* addresses Core can hold a manual connection to
  Removable,   \* addresses a person may remove, or rotation may retire
  Starrable,   \* addresses a person may star, by the star or by typing them in
  Parkable,    \* addresses with a record worth parking (eligible > 0)
  Flaky,       \* TRUE when an RPC may fail, with or without having taken effect
  CanAbort,    \* TRUE when a call may be cut off (process exit, database busy)
  NoAddr       \* not an address

ASSUME CapAssumption == Cap \in Nat \ {0}
ASSUME AddrAssumption == IsFiniteSet(Addr) /\ NoAddr \notin Addr
ASSUME EnvAssumption ==
  /\ HandWants \subseteq Addr /\ RotationWants \subseteq Addr
  /\ Conf \subseteq Addr /\ Foreign \subseteq Addr /\ Removable \subseteq Addr
  /\ Reachable \subseteq Addr
  /\ Starrable \subseteq Addr /\ Parkable \subseteq Addr
  /\ Rotators \subseteq Actors
  /\ Flaky \in BOOLEAN /\ CanAbort \in BOOLEAN

VARIABLES
  rows,        \* the addresses in trusted_peer
  kept,        \* those with kept = 1, the star
  core,        \* Core's addnode list
  pending,     \* meta.pending_addnode_removal
  parked,      \* the addresses in parked_peer
  op,          \* the call each actor is in
  snap         \* the ranking each rotation pass still works from

vars == <<rows, kept, core, pending, parked, op, snap>>

(***************************************************************************)
(* A call waits at one of these points:                                    *)
(*   add       addnode add is on its way to Core                           *)
(*   write     Core has answered; the row is next                          *)
(*   displace  the row is in; the peer it replaces goes next               *)
(*   takeback  addnode remove is on its way, after losing the last slot    *)
(*   remove    the row is gone; addnode remove is on its way               *)
(*   park      Core has answered; the removed peer is parked next          *)
(* addr is the peer being added, out the one being displaced or removed.   *)
(***************************************************************************)
Points == {"idle", "add", "write", "displace", "takeback", "remove", "park"}

Calls == [pc : Points, addr : Addr \cup {NoAddr}, out : Addr \cup {NoAddr},
          star : BOOLEAN, inCore : BOOLEAN, park : BOOLEAN]

Idle == [pc |-> "idle", addr |-> NoAddr, out |-> NoAddr,
         star |-> FALSE, inCore |-> FALSE, park |-> FALSE]

At(p, point) == op[p].pc = point
Goto(p, point) == op' = [op EXCEPT ![p].pc = point]
Return(p) == op' = [op EXCEPT ![p] = Idle]

Full == Cardinality(rows) >= Cap

\* Who a call may displace. mapRankingRow counts a peer as trusted when it has
\* a row or when Core holds a live manual connection to it, and evictableTrusted
\* drops the starred ones; an address of Core's without a row has no star.
Evictable == (rows \ kept) \cup ((core \cap Reachable) \ rows)

\* A rotation tick reads the ranking once and keeps it across its awaits: whom
\* it may displace, when it saw no free slot, and whom it may retire. A starred
\* peer is retired only when Core never held it.
Snapshots == [victims : SUBSET Addr, absent : SUBSET Addr]

NoSnapshot == [victims |-> {}, absent |-> {}]

Ranking ==
  [victims |-> IF Cardinality(rows \cup (core \cap Reachable)) >= Cap THEN Evictable ELSE {},
   absent  |-> rows \ (kept \cap Reachable)]

\* A displaced or retired peer is parked when it has a record; the caller may
\* also decide against it because the peer is still connected.
MayPark(v) == IF v \in Parkable THEN BOOLEAN ELSE {FALSE}
-----------------------------------------------------------------------------
Init ==
  /\ rows = {} /\ kept = {} /\ core = Conf
  /\ pending = {} /\ parked = {}
  /\ op = [p \in Actors |-> Idle]
  /\ snap = [p \in Actors |-> NoSnapshot]

\* Wrong on purpose: makes room before the add has worked.
BeginAddEvictsFirst(p, a, star, victims) ==
  /\ At(p, "idle")
  /\ \E v \in IF a \in rows \/ ~Full THEN {NoAddr} ELSE victims \ {a} :
       /\ rows' = rows \ {v} /\ kept' = kept \ {v} /\ core' = core \ {v}
       /\ op' = [op EXCEPT ![p] = [Idle EXCEPT !.pc = "add", !.addr = a, !.out = v,
                                               !.star = star]]
  /\ UNCHANGED <<pending, parked, snap>>

\* addTrustedPeer up to its first await: with the set full and the address new,
\* it must find somebody to displace among victims, or it refuses and nothing
\* has changed. The disconnect of a live session is not represented.
BeginAdd(p, a, star, victims) ==
  /\ At(p, "idle")
  /\ \E v \in IF a \in rows \/ ~Full THEN {NoAddr} ELSE victims \ {a} :
       \E park \in MayPark(v) :
         op' = [op EXCEPT ![p] = [Idle EXCEPT !.pc = "add", !.addr = a, !.out = v,
                                              !.star = star, !.park = park]]
  /\ UNCHANGED <<rows, kept, core, pending, parked, snap>>

\* manualAddPeer: evictToFit, starred when the address was typed in.
HandAdd(p, a) ==
  /\ p \notin Rotators /\ a \in HandWants
  /\ \E star \in BOOLEAN :
       /\ star => a \in Starrable
       /\ BeginAdd(p, a, star, Evictable)

\* The rotation adds unstarred, and hands over the one peer it chose to replace
\* from the ranking it read; a refused candidate is followed by the next one.
Snapshot(p) ==
  /\ At(p, "idle") /\ p \in Rotators
  /\ snap' = [snap EXCEPT ![p] = Ranking]
  /\ UNCHANGED <<rows, kept, core, pending, parked, op>>

RotationAdd(p, a) ==
  /\ p \in Rotators /\ a \in RotationWants
  /\ BeginAdd(p, a, FALSE, snap[p].victims)

\* addnode add answers, or fails: refused, or done with the answer lost. "Node
\* already added" is an answer.
CoreAdds(p) ==
  /\ At(p, "add")
  /\ core' = core \cup {op[p].addr}
  /\ op' = [op EXCEPT ![p].pc = "write", ![p].inCore = op[p].addr \in core]
  /\ UNCHANGED <<rows, kept, pending, parked, snap>>

AddFails(p) ==
  /\ Flaky /\ At(p, "add")
  /\ \E done \in BOOLEAN : core' = IF done THEN core \cup {op[p].addr} ELSE core
  /\ Return(p)
  /\ UNCHANGED <<rows, kept, pending, parked, snap>>

\* The count again, inside the IMMEDIATE transaction that writes the row. A
\* peer about to be displaced still counts.
Limit(p) == Cap + (IF op[p].out = NoAddr THEN 0 ELSE 1)
FitsUncounted(p) == TRUE  \* wrong on purpose: no second count
Fits(p) == op[p].addr \in rows \/ Cardinality(rows) < Limit(p)

\* Wrong on purpose: the upsert writes the star it was called with.
WriteRowClearsStar(p) ==
  /\ At(p, "write") /\ Fits(p)
  /\ rows' = rows \cup {op[p].addr}
  /\ kept' = IF op[p].star THEN kept \cup {op[p].addr} ELSE kept \ {op[p].addr}
  /\ parked' = parked \ {op[p].addr}
  /\ snap' = [snap EXCEPT ![p] = NoSnapshot]
  /\ IF op[p].out = NoAddr THEN Return(p) ELSE Goto(p, "displace")
  /\ UNCHANGED <<core, pending>>

\* The upsert raises the star and never clears it; the parked entry goes. A tick
\* that has let one peer in lets no other in.
WriteRow(p) ==
  /\ At(p, "write") /\ Fits(p)
  /\ rows' = rows \cup {op[p].addr}
  /\ kept' = IF op[p].star THEN kept \cup {op[p].addr} ELSE kept
  /\ parked' = parked \ {op[p].addr}
  /\ snap' = [snap EXCEPT ![p] = NoSnapshot]
  /\ IF op[p].out = NoAddr THEN Return(p) ELSE Goto(p, "displace")
  /\ UNCHANGED <<core, pending>>

\* Wrong on purpose: leaves the entry with Core.
LoseSlotLeavesEntry(p) ==
  /\ At(p, "write") /\ ~Fits(p)
  /\ Return(p)
  /\ UNCHANGED <<rows, kept, core, pending, parked, snap>>

LoseSlot(p) ==
  /\ At(p, "write") /\ ~Fits(p)
  /\ IF op[p].inCore THEN Return(p) ELSE Goto(p, "takeback")
  /\ UNCHANGED <<rows, kept, core, pending, parked, snap>>

TakeBack(p) ==
  /\ At(p, "takeback")
  /\ core' = core \ {op[p].addr}
  /\ Return(p)
  /\ UNCHANGED <<rows, kept, pending, parked, snap>>

\* A failed take-back is only logged, never remembered.
TakeBackFails(p) ==
  /\ Flaky /\ At(p, "takeback")
  /\ Return(p)
  /\ UNCHANGED <<rows, kept, core, pending, parked, snap>>
-----------------------------------------------------------------------------
\* removeTrustedPeer deletes the row before anything else.
DeleteRow(p, a, call) ==
  /\ rows' = rows \ {a}
  /\ kept' = kept \ {a}
  /\ op' = [op EXCEPT ![p] = call]
  /\ UNCHANGED <<core, pending, parked>>

Displace(p) ==
  /\ At(p, "displace")
  /\ DeleteRow(p, op[p].out, [op[p] EXCEPT !.pc = "remove"])
  /\ UNCHANGED snap

\* The Remove button of the dashboard, on a peer it shows as manual.
HandRemove(p, a) ==
  /\ At(p, "idle") /\ p \notin Rotators
  /\ a \in Removable /\ a \in rows \cup core
  /\ DeleteRow(p, a, [Idle EXCEPT !.pc = "remove", !.out = a])
  /\ UNCHANGED snap

\* retireOfflineManualPeers goes through the ranking of its tick, and parks the
\* peer it removes; the tick reads the ranking again before it adds anybody.
Retire(p, a) ==
  /\ At(p, "idle") /\ p \in Rotators
  /\ a \in Removable /\ a \in snap[p].absent
  /\ DeleteRow(p, a, [Idle EXCEPT !.pc = "remove", !.out = a, !.park = a \in Parkable])
  /\ snap' = [snap EXCEPT ![p] = [victims |-> {}, absent |-> @.absent \ {a}]]

\* addnode remove answers ("has not been added" is an answer), or fails and is
\* remembered. The disconnect that follows is not represented.
AfterRemove(p) == IF op[p].park THEN Goto(p, "park") ELSE Return(p)

CoreRemoves(p) ==
  /\ At(p, "remove")
  /\ core' = core \ {op[p].out}
  /\ AfterRemove(p)
  /\ UNCHANGED <<rows, kept, pending, parked, snap>>

RemoveFails(p) ==
  /\ Flaky /\ At(p, "remove")
  /\ \E done \in BOOLEAN : core' = IF done THEN core \ {op[p].out} ELSE core
  /\ pending' = pending \cup {op[p].out}
  /\ AfterRemove(p)
  /\ UNCHANGED <<rows, kept, parked, snap>>

Park(p) ==
  /\ At(p, "park")
  /\ parked' = parked \cup {op[p].out}
  /\ Return(p)
  /\ UNCHANGED <<rows, kept, core, pending, snap>>

\* setKept: the padlock of the dashboard, a single UPDATE.
Star(a) ==
  /\ a \in Starrable /\ a \in rows \ kept
  /\ kept' = kept \cup {a}
  /\ UNCHANGED <<rows, core, pending, parked, op, snap>>

Unstar(a) ==
  /\ a \in Starrable /\ a \in kept
  /\ kept' = kept \ {a}
  /\ UNCHANGED <<rows, core, pending, parked, op, snap>>
-----------------------------------------------------------------------------
(***************************************************************************)
(* What happens around the app: Core restarts with only its bitcoin.conf   *)
(* entries, somebody uses bitcoin-cli, a pending removal turns a day old,  *)
(* a call is cut off.                                                      *)
(***************************************************************************)
CoreRestart ==
  /\ core # Conf
  /\ core' = Conf
  /\ UNCHANGED <<rows, kept, pending, parked, op, snap>>

ForeignAdd(a) ==
  /\ a \in Foreign \ core
  /\ core' = core \cup {a}
  /\ UNCHANGED <<rows, kept, pending, parked, op, snap>>

PendingExpires(a) ==
  /\ a \in pending
  /\ pending' = pending \ {a}
  /\ UNCHANGED <<rows, kept, core, parked, op, snap>>

Abort(p) ==
  /\ CanAbort /\ ~At(p, "idle")
  /\ Return(p)
  /\ snap' = [snap EXCEPT ![p] = NoSnapshot]
  /\ UNCHANGED <<rows, kept, core, pending, parked>>

\* A call going on after it has begun, and failing.
Step(p) ==
  \/ CoreAdds(p) \/ WriteRow(p) \/ LoseSlot(p) \/ TakeBack(p)
  \/ Displace(p) \/ CoreRemoves(p) \/ Park(p)

Fail(p) == AddFails(p) \/ TakeBackFails(p) \/ RemoveFails(p) \/ Abort(p)

Begin(p, a) == HandAdd(p, a) \/ RotationAdd(p, a) \/ HandRemove(p, a) \/ Retire(p, a)

Environment ==
  \/ CoreRestart
  \/ \E a \in Addr : ForeignAdd(a) \/ PendingExpires(a)

Next ==
  \/ \E p \in Actors : Step(p) \/ Fail(p) \/ Snapshot(p)
  \/ \E p \in Actors, a \in Addr : Begin(p, a)
  \/ \E a \in Addr : Star(a) \/ Unstar(a)
  \/ Environment

Spec == Init /\ [][Next]_vars
-----------------------------------------------------------------------------
(***************************************************************************)
(* Properties.                                                             *)
(***************************************************************************)

\* Every variable keeps its shape; a star sits on a row.
TypeOK ==
  /\ rows \subseteq Addr
  /\ kept \subseteq rows
  /\ core \subseteq Addr
  /\ pending \subseteq Addr
  /\ parked \subseteq Addr
  /\ op \in [Actors -> Calls]
  /\ snap \in [Actors -> Snapshots]

\* However many adds race, whatever fails and whoever is cut off, the
\* transaction of addTrustedPeer lets at most one extra row in, the one whose
\* predecessor is still to leave.
SlotBound == Cardinality(rows) <= Cap + 1

\* The extra row is there only while somebody is about to take the slot back:
\* "a stale snapshot can cost a tick, never a broken invariant"
\* (peer-rotation/index.js:75), "two adds at the same moment cannot take the
\* manual set past its limit" (test/peer-rotation.test.js:1307).
CapAtRest == Full => Cardinality(rows) = Cap \/ \E p \in Actors : At(p, "displace")

\* The manual set keeps what SlotBook promises.
Book == INSTANCE SlotBook WITH book <- rows, starred <- kept, records <- parked
BookSpec == Book!Spec
=============================================================================
