----------------------------- MODULE PeerTables -----------------------------
(***************************************************************************)
(* The peer tables of the page (dashboard/public/app.js). The ranking is   *)
(* asked for by the refresh loop, by a new block and after an action; the  *)
(* answers come in any order. A table is not drawn while the reader is     *)
(* busy with it, and a peer just removed is left out before the server     *)
(* leaves it out. The rows of one manual peer are followed.                *)
(***************************************************************************)
EXTENDS Integers, FiniteSets

CONSTANTS
  GoneTime,   \* GONE_MS
  MaxTime,    \* bound of the clock
  MaxVersion, \* bound of the changes of the ranking
  MaxAsks,    \* bound of the rankings asked for
  MaxTurns,   \* bound of the times the page is hidden, and of the presses
  Flaky       \* TRUE when a request may fail

ASSUME TablesAssumption ==
  /\ {GoneTime, MaxTime, MaxVersion, MaxAsks, MaxTurns} \subseteq Nat
  /\ Flaky \in BOOLEAN

VARIABLES
  clock,
  \* the server
  manual,    \* whether the peer is one of the manual peers
  ranking,   \* the ranking: its version and whether it lists the peer
  \* the requests on their way
  asks,      \* GET /api/peers/ranking
  action,    \* the removal, or the addition, from the click to its answer
  \* the page
  seq,       \* peerRequestSeq
  last,      \* lastPeerRanking
  waiting,   \* the peers' entry in deferredRenders
  drawn,     \* what the tables show
  goneAt,    \* the peer's entry in justGone
  pressed,   \* the reader is busy with a table
  hidden, timer, running,  \* the refresh loop: document.hidden, its timer, its passes under way
  turns,     \* how often the page was hidden or pressed
  removed,   \* when the last action was answered, a removal: nobody reads it
  dropped    \* whether, since the server removed the peer, it left it out or added it, or the
             \* page drew a ranking without it: nobody reads it

server == <<manual, ranking>>
view == <<last, waiting, drawn>>
loop == <<hidden, timer, running, turns>>
ghosts == <<removed, dropped>>
tableVars == <<clock, server, asks, action, seq, view, goneAt, pressed, loop, ghosts>>

Unset == -1
Nothing == [ver |-> 0, lists |-> FALSE]
Idle == [what |-> "none", at |-> "none"]

\* The first pass counts as one the timer starts.
TablesInit ==
  /\ clock = 0
  /\ manual = TRUE /\ ranking = [ver |-> 1, lists |-> TRUE]
  /\ asks = {} /\ action = Idle /\ seq = 0
  /\ last = Nothing /\ waiting = Nothing /\ drawn = Nothing
  /\ goneAt = Unset /\ pressed = FALSE /\ removed = Unset /\ dropped = FALSE
  /\ hidden = FALSE /\ timer = TRUE /\ running = 0 /\ turns = 0

Pass ==
  /\ clock < MaxTime
  /\ clock' = clock + 1
  /\ UNCHANGED <<server, asks, action, seq, view, goneAt, pressed, loop, ghosts>>

Changes(lists) == ranking.ver < MaxVersion /\ ranking' = [ver |-> ranking.ver + 1, lists |-> lists]

\* The ranking changes with the connections. A manual peer is always in it,
\* another one while it is connected.
Snapshot ==
  /\ \E l \in BOOLEAN : (manual => l) /\ Changes(l) /\ dropped' = (dropped \/ ~l)
  /\ UNCHANGED <<clock, manual, asks, action, seq, view, goneAt, pressed, loop, removed>>
-----------------------------------------------------------------------------
(* Drawing: deferRender and renderPeerTables.                              *)

Busy(act, press) == act # Idle \/ press

\* Of the addresses that are gone, those the server no longer lists, or lists
\* though the wait is over, are forgotten.
Left(gone, answer) ==
  IF gone # Unset /\ (clock - gone > GoneTime \/ ~answer.lists) THEN Unset ELSE gone

Draw(answer, gone) ==
  /\ goneAt' = Left(gone, answer)
  /\ drawn' = [ver |-> answer.ver, lists |-> answer.lists /\ Left(gone, answer) = Unset]
  /\ dropped' = (dropped \/ ~answer.lists)

Render(answer) ==
  IF Busy(action, pressed) THEN waiting' = answer /\ UNCHANGED <<drawn, goneAt, dropped>>
  ELSE waiting' = Nothing /\ Draw(answer, goneAt)

\* flushDeferredRenders, when the action and the press are as given.
Flush(act, press, gone) ==
  IF waiting = Nothing \/ Busy(act, press) THEN UNCHANGED <<waiting, drawn, dropped>> /\ goneAt' = gone
  ELSE waiting' = Nothing /\ Draw(waiting, gone)
-----------------------------------------------------------------------------
(* refreshPeers.                                                           *)

\* loops is TRUE for one of a pass of the refresh loop.
Asking(loops) ==
  /\ seq < MaxAsks
  /\ seq' = seq + 1
  /\ asks' = asks \cup {[seq |-> seq + 1, loops |-> loops, answer |-> Nothing]}

\* For a new block, or to look again after a peer is gone.
Ask ==
  /\ Asking(FALSE)
  /\ UNCHANGED <<clock, server, action, view, goneAt, pressed, loop, ghosts>>

Serve(q) ==
  /\ q \in asks /\ q.answer = Nothing
  /\ asks' = (asks \ {q}) \cup {[q EXCEPT !.answer = ranking]}
  /\ UNCHANGED <<clock, server, action, seq, view, goneAt, pressed, loop, ghosts>>

\* Of a pass of the loop the ranking is represented: when it is settled, so is
\* the pass, and the next one is scheduled.
Settled(q) ==
  /\ asks' = asks \ {q}
  /\ IF q.loops THEN running' = running - 1 /\ timer' = ~hidden
     ELSE UNCHANGED <<running, timer>>
  /\ UNCHANGED <<clock, server, action, seq, pressed, hidden, turns, removed>>

\* Wrong on purpose: every answer is drawn.
AnyAnswer(q) == TRUE
Current(q) == q.seq = seq

Answered(q) ==
  /\ q \in asks /\ q.answer # Nothing
  /\ IF Current(q) THEN last' = q.answer /\ Render(q.answer)
     ELSE UNCHANGED <<view, goneAt, dropped>>
  /\ Settled(q)

Failed(q) ==
  /\ Flaky /\ q \in asks
  /\ Settled(q) /\ UNCHANGED <<view, goneAt, dropped>>

\* "Show all" draws what is there without waiting.
ShowAll ==
  /\ last # Nothing
  /\ Draw(last, goneAt)
  /\ UNCHANGED <<clock, server, asks, action, seq, last, waiting, pressed, loop, removed>>
-----------------------------------------------------------------------------
(* The peer is removed, or added again from another row of its host.       *)

Click(what) ==
  /\ action = Idle
  /\ what = "remove" => drawn.lists
  /\ what = "add" => ~manual
  /\ action' = [what |-> what, at |-> "sent"]
  /\ UNCHANGED <<clock, server, asks, seq, view, goneAt, pressed, loop, ghosts>>

\* A removed peer is listed until a snapshot finds it disconnected.
ActionServed ==
  /\ action # Idle /\ action.at = "sent"
  /\ action' = [action EXCEPT !.at = "served"]
  /\ manual' = (action.what = "add")
  /\ Changes(action.what = "add" \/ ranking.lists) /\ dropped' = (action.what = "add" \/ ~ranking'.lists)
  /\ removed' = Unset
  /\ UNCHANGED <<clock, asks, seq, view, goneAt, pressed, loop>>

\* Wrong on purpose: the row is left to the server.
NotMarked == goneAt
Marked == clock

\* justGone is written, the ranking asked for, and what waited drawn.
ActionAnswered ==
  /\ action # Idle /\ action.at = "served"
  /\ action' = Idle
  /\ removed' = IF action.what = "add" THEN Unset ELSE clock
  /\ Asking(FALSE)
  /\ Flush(Idle, pressed, IF action.what = "add" THEN Unset ELSE Marked)
  /\ UNCHANGED <<clock, server, last, pressed, loop>>

ActionFailed ==
  /\ Flaky /\ action # Idle
  /\ action' = Idle
  /\ Flush(Idle, pressed, goneAt)
  /\ UNCHANGED <<clock, server, asks, seq, last, pressed, loop, removed>>
-----------------------------------------------------------------------------
(* The reader, and the refresh loop.                                       *)

Turn == turns < MaxTurns /\ turns' = turns + 1

Press ==
  /\ ~pressed /\ Turn
  /\ pressed' = TRUE
  /\ UNCHANGED <<clock, server, asks, action, seq, view, goneAt, hidden, timer, running, ghosts>>

Release ==
  /\ pressed
  /\ pressed' = FALSE
  /\ Flush(action, FALSE, goneAt)
  /\ UNCHANGED <<clock, server, asks, action, seq, last, loop, removed>>

TimerFires ==
  /\ timer
  /\ timer' = FALSE /\ running' = running + 1
  /\ Asking(TRUE)
  /\ UNCHANGED <<clock, server, action, view, goneAt, pressed, hidden, turns, ghosts>>

Hide ==
  /\ ~hidden /\ Turn
  /\ hidden' = TRUE /\ timer' = FALSE
  /\ UNCHANGED <<clock, server, asks, action, seq, view, goneAt, pressed, running, ghosts>>

\* Wrong on purpose: the timer is taken to be still there.
ShowOnly ==
  /\ hidden
  /\ hidden' = FALSE
  /\ UNCHANGED <<clock, server, asks, action, seq, view, goneAt, pressed, timer, running, turns, ghosts>>

\* The passes that were under way when it was hidden go on.
Show ==
  /\ hidden
  /\ hidden' = FALSE /\ running' = running + 1
  /\ Asking(TRUE)
  /\ UNCHANGED <<clock, server, action, view, goneAt, pressed, timer, turns, ghosts>>
-----------------------------------------------------------------------------
TablesNext ==
  \/ Pass \/ Snapshot \/ Ask \/ ShowAll
  \/ \E q \in asks : Serve(q) \/ Answered(q) \/ Failed(q)
  \/ \E what \in {"remove", "add"} : Click(what)
  \/ ActionServed \/ ActionAnswered \/ ActionFailed
  \/ Press \/ Release \/ TimerFires \/ Hide \/ Show

TablesSpec == TablesInit /\ [][TablesNext]_tableVars

\* The tables never go back to an older ranking, whatever order the answers
\* come in and however long one had to wait to be drawn.
DrawnNeverOlder == [][ drawn'.ver >= drawn.ver ]_tableVars

\* A peer that was removed does not come back to the tables in any answer that
\* still lists it, before the server has left it out, or it was added again, or
\* the wait is over. A ranking without it that left before the removal and was
\* drawn after it ends the wait too.
StaysGone ==
  [][ removed' # Unset /\ drawn' # drawn =>
        ~drawn'.lists \/ dropped \/ clock - removed' > GoneTime ]_tableVars

\* A page that is shown has a refresh under way or one scheduled, however
\* often it was hidden meanwhile.
NeverIdle == ~hidden => timer \/ running > 0
=============================================================================
