--------------------------- MODULE MCManualRaces ---------------------------
(***************************************************************************)
(* ManualSet with a memory: the calls that have been overtaken, because    *)
(* meanwhile somebody removed a peer, or let in or swapped out the one the *)
(* call lets in; and the entries that are with Core because a call failed  *)
(* or was cut off, or that the app never put there.                        *)
(***************************************************************************)
EXTENDS ManualSet, TLC

VARIABLES overtaken, astray

memory == <<overtaken, astray>>

\* Addresses that the configuration does not tell apart are interchangeable.
Plain == {a \in Addr : \A S \in {Conf, Foreign, Reachable, Removable, Starrable, Parkable} :
                         a \in S => S = Addr}
AddrSymmetry == Permutations(Plain)

Removal ==
  \/ \E p \in Actors, a \in Addr : HandRemove(p, a) \/ Retire(p, a)
  \/ \E p \in overtaken : Displace(p)

\* Another call has written the row.
LetIn(p) == op[p].addr \in rows' \ rows /\ op'[p] = op[p]

Overtakes(p) == Removal \/ LetIn(p) \/ op[p].addr \in rows \ rows'

GoesWrong(a) ==
  \/ ForeignAdd(a) \/ (CoreRestart /\ a \in Conf)
  \/ \E p \in Actors : Fail(p) /\ a \in {op[p].addr, op[p].out}

RacesInit == Init /\ overtaken = {} /\ astray = Conf

RacesNext ==
  /\ Next
  /\ overtaken' = {p \in Actors : ~At(p, "idle")' /\ (p \in overtaken \/ Overtakes(p))}
  /\ astray' = {a \in core' \ rows' : a \in astray \/ GoesWrong(a)}

RacesSpec == RacesInit /\ [][RacesNext]_<<vars, memory>>

\* A swap puts the new peer in before the old one goes, so a refused or broken
\* add never leaves the set smaller: once full, only a removal empties a slot, or
\* a swap during which a removal came, or another call let its peer in or swapped
\* it out (addTrustedPeer).
NoShrink == [][Full /\ ~Full' => Removal]_<<vars, memory>>

\* A call that is still to deal with an entry of Core's that has no row.
Handling(p, a) ==
  \/ op[p].addr = a /\ op[p].pc \in {"write", "takeback"}
  \/ op[p].out = a /\ op[p].pc = "remove"

\* An entry of Core's that the app holds no row for is one it is still dealing
\* with - being added, taken back or removed - or one that went astray. An add
\* that loses its slot and a peer that is displaced leave nothing behind.
NoOrphan == \A a \in core \ rows : a \in astray \/ \E p \in Actors : Handling(p, a)
=============================================================================
