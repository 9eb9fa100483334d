------------------------------ MODULE ManualSync ------------------------------
(***************************************************************************)
(* The sync pass between the manual set and Core: adoptExternalManualPeers *)
(* followed by syncTrustedToAddnode, over the calls of ManualSet. The peer *)
(* profiler runs a pass when it starts, every ten minutes, and when a poll *)
(* notices that Core restarted; a pass of one kind can overlap another.    *)
(*                                                                         *)
(* A pass works on what it read: Core's list, the rows and the pending     *)
(* removals as they were before its awaits. Rows are taken up in any       *)
(* order; the code takes the oldest first. The read-only mode is left out. *)
(***************************************************************************)
EXTENDS ManualSet, FiniteSetsExt

CONSTANT Syncers    \* the passes that can be under way at one time

ASSUME SyncersAssumption == IsFiniteSet(Syncers)

VARIABLE sy         \* what each pass is at and what it read

syncVars == <<rows, kept, core, pending, parked, op, snap, sy>>

(***************************************************************************)
(*   fetch     getaddednodeinfo is on its way to Core                      *)
(*   turn      Core's list has come back; adoption is next                 *)
(*   retry     addnode remove of one pending removal is on its way         *)
(*   refetch   the sync asks for the list itself, after adoption could not *)
(*   restore   the sync issues addnode add for what Core lacks             *)
(* todo is what is left to look at, room what is left of the limit, pend   *)
(* the pass's own copy of the pending removals, dirty its pendingChanged.  *)
(***************************************************************************)
Phases == {"idle", "fetch", "turn", "retry", "refetch", "restore"}

Passes == [pc : Phases, list : SUBSET Addr, todo : SUBSET Addr, room : 0..Cap,
           pend : SUBSET Addr, dirty : BOOLEAN, again : Addr \cup {NoAddr}]

NoPass == [pc |-> "idle", list |-> {}, todo |-> {}, room |-> 0,
           pend |-> {}, dirty |-> FALSE, again |-> NoAddr]

\* Wrong on purpose: what is there already does not count.
RoomAnew(n) == Cap

\* What is left of the limit when n are counted.
Room(n) == IF n >= Cap THEN 0 ELSE Cap - n

SyncInit == Init /\ sy = [s \in Syncers |-> NoPass]

BeginPass(s) ==
  /\ sy[s].pc = "idle"
  /\ sy' = [sy EXCEPT ![s].pc = "fetch"]
  /\ UNCHANGED vars

\* getaddednodeinfo: the list as Core has it when it answers.
Listed(s) ==
  /\ sy[s].pc = "fetch"
  /\ sy' = [sy EXCEPT ![s].pc = "turn", ![s].list = core]
  /\ UNCHANGED vars

\* Adoption is skipped, and the sync reads the rows before it asks for the list.
ListFails(s) ==
  /\ Flaky /\ sy[s].pc = "fetch"
  /\ sy' = [sy EXCEPT ![s] = [NoPass EXCEPT !.pc = "refetch", !.todo = rows]]
  /\ UNCHANGED vars

\* Wrong on purpose: every entry of Core's counts against the limit.
RestoringAfterAll(want, list) ==
  [NoPass EXCEPT !.pc = "restore", !.todo = want \ list, !.room = Room(Cardinality(list))]

\* What the restore loop starts from, given the rows and Core's list it read.
Restoring(want, list) ==
  [NoPass EXCEPT !.pc = "restore", !.todo = want \ list, !.room = Room(Cardinality(want \cap list))]

Relisted(s) ==
  /\ sy[s].pc = "refetch"
  /\ sy' = [sy EXCEPT ![s] = Restoring(sy[s].todo, core)]
  /\ UNCHANGED vars

RelistFails(s) ==
  /\ Flaky /\ sy[s].pc = "refetch"
  /\ sy' = [sy EXCEPT ![s] = NoPass]
  /\ UNCHANGED vars
-----------------------------------------------------------------------------
(***************************************************************************)
(* The adoption loop, from one await to the next. It looks at the entries  *)
(* of todo in Core's order: one that is pending removal is removed again,  *)
(* which awaits; another is inserted, starred, as long as there is room.   *)
(* After the last one the pending removals are saved if the pass changed   *)
(* them, and the restore loop follows at once, with the list it has.       *)
(***************************************************************************)
Adopt(s, todo, room, pend, dirty) ==
  \E seen \in SUBSET (todo \ pend) :
    \E ins \in kSubset(Min({Cardinality(seen), room}), seen) :
      /\ rows' = rows \cup ins
      /\ kept' = kept \cup (ins \ rows)
      /\ \/ /\ seen = todo
            /\ pending' = IF dirty THEN pend ELSE pending
            /\ sy' = [sy EXCEPT ![s] = Restoring(rows', sy[s].list)]
         \/ \E e \in todo \cap pend :
              /\ sy' = [sy EXCEPT ![s] = [@ EXCEPT !.pc = "retry", !.again = e,
                          !.todo = todo \ (seen \cup {e}), !.room = room - Cardinality(ins),
                          !.pend = pend, !.dirty = dirty]]
              /\ UNCHANGED pending
      /\ UNCHANGED <<parked, op, snap>>

AdoptTurn(s) ==
  /\ sy[s].pc = "turn"
  /\ Adopt(s, sy[s].list \ rows, Room(Cardinality(rows)), pending, FALSE)
  /\ UNCHANGED core

\* The retried addnode remove answers, or fails and stays pending; then the
\* loop goes on with the room and the copy of the removals it had.
Retried(s) ==
  /\ sy[s].pc = "retry"
  /\ core' = core \ {sy[s].again}
  /\ Adopt(s, sy[s].todo, sy[s].room, sy[s].pend \ {sy[s].again}, TRUE)

RetryFails(s) ==
  /\ Flaky /\ sy[s].pc = "retry"
  /\ \E done \in BOOLEAN : core' = IF done THEN core \ {sy[s].again} ELSE core
  /\ Adopt(s, sy[s].todo, sy[s].room, sy[s].pend, sy[s].dirty)
-----------------------------------------------------------------------------
\* One addnode add of the restore loop. Only one that Core took as new uses up
\* room; "already added" and any other failure is logged.
Restore(s, a) ==
  /\ sy[s].pc = "restore" /\ a \in sy[s].todo /\ sy[s].room > 0
  /\ core' = core \cup {a}
  /\ sy' = [sy EXCEPT ![s].todo = @ \ {a},
                      ![s].room = IF a \in core THEN @ ELSE @ - 1]
  /\ UNCHANGED <<rows, kept, pending, parked, op, snap>>

RestoreFails(s, a) ==
  /\ Flaky /\ sy[s].pc = "restore" /\ a \in sy[s].todo /\ sy[s].room > 0
  /\ \E done \in BOOLEAN : core' = IF done THEN core \cup {a} ELSE core
  /\ sy' = [sy EXCEPT ![s].todo = @ \ {a}]
  /\ UNCHANGED <<rows, kept, pending, parked, op, snap>>

\* Nothing left to restore, or what is left stays queued.
EndPass(s) ==
  /\ sy[s].pc = "restore" /\ (sy[s].todo = {} \/ sy[s].room = 0)
  /\ sy' = [sy EXCEPT ![s] = NoPass]
  /\ UNCHANGED vars

AbortPass(s) ==
  /\ CanAbort /\ sy[s].pc # "idle"
  /\ sy' = [sy EXCEPT ![s] = NoPass]
  /\ UNCHANGED vars

\* A pass going on without a failure.
PassStep(s) ==
  \/ BeginPass(s) \/ Listed(s) \/ Relisted(s) \/ AdoptTurn(s) \/ Retried(s)
  \/ \E a \in Addr : Restore(s, a)
  \/ EndPass(s)

PassFails(s) ==
  \/ ListFails(s) \/ RelistFails(s) \/ RetryFails(s) \/ AbortPass(s)
  \/ \E a \in Addr : RestoreFails(s, a)

SyncNext ==
  \/ Next /\ UNCHANGED sy
  \/ \E s \in Syncers : PassStep(s) \/ PassFails(s)

SyncSpec == SyncInit /\ [][SyncNext]_syncVars
-----------------------------------------------------------------------------
(***************************************************************************)
(* Properties.                                                             *)
(***************************************************************************)

\* Every variable keeps its shape.
SyncTypeOK == TypeOK /\ sy \in [Syncers -> Passes]

\* Adoption counts the rows before its awaits and lets its entries in after them,
\* so the limit may be passed; but by no more than the limit for each pass that
\* can be under way, for one that starts above the limit has no room.
PassBound == Cardinality(rows) <= Cap + 1 + Cap * Cardinality(Syncers)

\* Core holds as many of the rows as it can; what else it holds is adopted while
\* there is room; what the app removed while Core did not listen is gone.
InSync ==
  /\ Cardinality(rows \cap core) >= Min({Cap, Cardinality(rows)})
  /\ core \subseteq rows \/ Full
  /\ core \cap pending \subseteq rows

\* "One we removed ourselves while Core did not listen: remove it again, never
\* adopt it." (peer-sync.js:147) A peer whose removal is under way comes back
\* only through an add of its own.
RemovedNotAdopted ==
  [][\A p \in Actors : At(p, "remove") /\ op[p].out \in rows' \ rows =>
        \E q \in Actors : At(q, "write") /\ op[q].addr = op[p].out]_syncVars
=============================================================================
