----------------------------- MODULE LiveBlocks -----------------------------
(***************************************************************************)
(* A block on its way to the screen: the relay profiler records the race   *)
(* and, later, the pool that mined it (relay-profiler.js), the dashboard   *)
(* reads the newest race and sends it down the event streams, of which it  *)
(* keeps a limited number (dashboard-server.js), and a page plays the wave *)
(* for a race that is new to it (dashboard/public/app.js).                 *)
(***************************************************************************)
EXTENDS Integers, Sequences, FiniteSets

CONSTANTS
  Tab,       \* the tabs that show the dashboard
  Slots,     \* MAX_SSE_CLIENTS
  CatchUp,   \* CATCHUP_LIMIT
  MaxRace,   \* bound of the blocks
  MaxOpens,  \* bound of the times a page is opened
  MaxLosses, \* bound of the connections cut, questions unanswered and restarts
  MaxFrames  \* bound of the frames on the way to a tab

ASSUME LiveAssumption ==
  /\ IsFiniteSet(Tab)
  /\ Slots \in Nat /\ Cardinality(Tab) <= Slots
  /\ {CatchUp, MaxOpens, MaxLosses, MaxFrames} \subseteq Nat /\ MaxRace \in Nat \ {0}

VARIABLES
  newest,  \* the last row of relay_race
  named,   \* the races whose pool_source is set
  asking,  \* the races attributePool is asking Core about
  key,     \* lastBroadcastKey
  dead,    \* streams that count though nobody is at their end
  link,    \* each tab's stream
  frames,  \* the frames on their way to each tab
  seen,    \* lastRaceId of each tab
  pool,    \* the race whose pool each tab shows
  waves,   \* how often each tab played the wave for each race: nobody reads it
  loaded,  \* the newest race when each page was opened: nobody reads it
  opens, losses

races == <<newest, named, asking>>
sending == <<key, dead>>
tabs == <<link, frames, seen, pool, waves, loaded>>
bounds == <<opens, losses>>
liveVars == <<races, sending, tabs, bounds>>

Race == 1..MaxRace
NoRace == 0  \* null

\* A stream is "open" at both ends or "ended" by the server, which the tab has
\* yet to find out; a tab without one is "connecting" or waits, "refused".
Linked == {t \in Tab : link[t] = "open"}
Taken == Cardinality(Linked) + dead

Newest == [id |-> newest, named |-> newest \in named]

LiveInit ==
  /\ newest \in {NoRace, 1} /\ named = {} /\ asking = {}
  /\ key = [id |-> NoRace, named |-> FALSE] /\ dead = 0
  /\ link = [t \in Tab |-> "closed"] /\ frames = [t \in Tab |-> << >>]
  /\ seen = [t \in Tab |-> NoRace] /\ pool = [t \in Tab |-> NoRace]
  /\ waves = [t \in Tab |-> [r \in Race |-> 0]] /\ loaded = [t \in Tab |-> NoRace]
  /\ opens = 0 /\ losses = 0

Lose == losses < MaxLosses /\ losses' = losses + 1 /\ UNCHANGED opens
-----------------------------------------------------------------------------
(* The relay profiler.                                                     *)

\* The row of a race is written, then its coinbase is asked for.
RaceRecorded ==
  /\ newest < MaxRace
  /\ newest' = newest + 1 /\ asking' = asking \cup {newest + 1}
  /\ UNCHANGED <<named, sending, tabs, bounds>>

Attributed(r) ==
  /\ r \in asking
  /\ asking' = asking \ {r} /\ named' = named \cup {r}
  /\ UNCHANGED <<newest, sending, tabs, bounds>>

\* A question or the write fails: pool_source stays NULL.
NotAttributed(r) ==
  /\ r \in asking
  /\ Lose /\ asking' = asking \ {r}
  /\ UNCHANGED <<newest, named, sending, tabs>>

\* The newest races without a pool are asked about once, at startup.
Unnamed == {r \in 1..newest : r \notin named}
Missed == {r \in Unnamed : Cardinality({s \in Unnamed : s > r}) < CatchUp}

ProfilerRestarts ==
  /\ Lose /\ asking' = Missed
  /\ UNCHANGED <<newest, named, sending, tabs>>
-----------------------------------------------------------------------------
(* The dashboard server.                                                   *)

\* Wrong on purpose: one broadcast for a race, whatever it has learned since.
SentByRace(race) == race.id = key.id
Sent(race) == race = key

\* broadcastLatestBlock: two timers after each ZMQ message, and every twenty
\* seconds.
Broadcast ==
  /\ newest # NoRace /\ ~Sent(Newest)
  /\ \A t \in Linked : Len(frames[t]) < MaxFrames
  /\ key' = Newest
  /\ frames' = [t \in Tab |-> IF t \in Linked THEN Append(frames[t], Newest) ELSE frames[t]]
  /\ UNCHANGED <<races, dead, link, seen, pool, waves, loaded, bounds>>

\* handleEventStream: the newest race is sent to a new stream straight away.
Connect(t) ==
  /\ link[t] = "connecting" /\ Taken < Slots
  /\ link' = [link EXCEPT ![t] = "open"]
  /\ frames' = [frames EXCEPT ![t] = IF newest = NoRace THEN << >> ELSE <<Newest>>]
  /\ UNCHANGED <<races, sending, seen, pool, waves, loaded, bounds>>

Refuse(t) ==
  /\ link[t] = "connecting" /\ Taken >= Slots
  /\ link' = [link EXCEPT ![t] = "refused"]
  /\ UNCHANGED <<races, sending, frames, seen, pool, waves, loaded, bounds>>

\* maxAge
EndStream(t) ==
  /\ link[t] = "open"
  /\ link' = [link EXCEPT ![t] = "ended"]
  /\ UNCHANGED <<races, sending, frames, seen, pool, waves, loaded, bounds>>

EndDead ==
  /\ dead > 0
  /\ dead' = dead - 1
  /\ UNCHANGED <<races, key, tabs, bounds>>

ServerRestarts ==
  /\ Lose
  /\ key' = [id |-> NoRace, named |-> FALSE] /\ dead' = 0
  /\ link' = [t \in Tab |-> IF link[t] = "open" THEN "ended" ELSE link[t]]
  /\ UNCHANGED <<races, frames, seen, pool, waves, loaded>>
-----------------------------------------------------------------------------
(* The page.                                                               *)

\* The stream of a tab is gone: behind the proxy its slot may stay taken.
SlotLeft(t) ==
  IF link[t] = "open" THEN dead' \in {dead, dead + 1} ELSE UNCHANGED dead

Open(t) ==
  /\ link[t] = "closed" /\ opens < MaxOpens
  /\ opens' = opens + 1 /\ UNCHANGED losses
  /\ link' = [link EXCEPT ![t] = "connecting"]
  /\ loaded' = [loaded EXCEPT ![t] = newest]
  /\ UNCHANGED <<races, sending, frames, seen, pool, waves>>

Close(t) ==
  /\ link[t] # "closed"
  /\ link' = [link EXCEPT ![t] = "closed"] /\ SlotLeft(t)
  /\ frames' = [frames EXCEPT ![t] = << >>]
  /\ seen' = [seen EXCEPT ![t] = NoRace] /\ pool' = [pool EXCEPT ![t] = NoRace]
  /\ waves' = [waves EXCEPT ![t] = [r \in Race |-> 0]]
  /\ loaded' = [loaded EXCEPT ![t] = NoRace]
  /\ UNCHANGED <<races, key, bounds>>

\* What was on its way is lost; EventSource connects again by itself.
Cut(t) ==
  /\ link[t] = "open" /\ Lose
  /\ link' = [link EXCEPT ![t] = "connecting"] /\ SlotLeft(t)
  /\ frames' = [frames EXCEPT ![t] = << >>]
  /\ UNCHANGED <<races, key, seen, pool, waves, loaded>>

Reconnect(t) ==
  /\ link[t] = "ended" /\ frames[t] = << >>
  /\ link' = [link EXCEPT ![t] = "connecting"]
  /\ UNCHANGED <<races, sending, frames, seen, pool, waves, loaded, bounds>>

Retry(t) ==
  /\ link[t] = "refused"
  /\ link' = [link EXCEPT ![t] = "connecting"]
  /\ UNCHANGED <<races, sending, frames, seen, pool, waves, loaded, bounds>>

\* Wrong on purpose: the first race a page is told of counts as new.
DiffersFromSeen(t, race) == race.id # seen[t]
NewTo(t, race) == seen[t] # NoRace /\ race.id # seen[t]

\* applyBlockUpdate
Deliver(t) ==
  /\ frames[t] # << >>
  /\ LET race == Head(frames[t])
     IN /\ seen' = [seen EXCEPT ![t] = race.id]
        /\ pool' = [pool EXCEPT ![t] = IF race.named THEN race.id ELSE NoRace]
        /\ waves' = IF NewTo(t, race) THEN [waves EXCEPT ![t][race.id] = @ + 1] ELSE waves
  /\ frames' = [frames EXCEPT ![t] = Tail(@)]
  /\ UNCHANGED <<races, sending, link, loaded, bounds>>
-----------------------------------------------------------------------------
TabStep(t) == Connect(t) \/ Refuse(t) \/ Reconnect(t) \/ Retry(t) \/ Deliver(t)

LiveNext ==
  \/ RaceRecorded \/ ProfilerRestarts \/ Broadcast \/ EndDead \/ ServerRestarts
  \/ \E r \in Race : Attributed(r) \/ NotAttributed(r)
  \/ \E t \in Tab : TabStep(t) \/ EndStream(t) \/ Open(t) \/ Close(t) \/ Cut(t)

\* The twenty-second timer fires, a dead stream reaches its age, and a tab that
\* is open keeps trying and reads what arrives.
LiveFairness ==
  /\ WF_liveVars(Broadcast) /\ WF_liveVars(EndDead)
  /\ \A t \in Tab : WF_liveVars(TabStep(t))

LiveSpec == LiveInit /\ [][LiveNext]_liveVars /\ LiveFairness

\* A tab plays the wave for a block once at most, however often it is told of
\* it - with its pool, again after its stream was cut or ended - and only for
\* a block found since the page was opened.
WaveOnce ==
  \A t \in Tab, r \in Race : waves[t][r] > 0 => waves[t][r] = 1 /\ r > loaded[t]

\* However many streams are cut, refused or left behind by closed tabs: when
\* no more blocks come, every open tab has the newest and its pool on screen.
NewestShown ==
  <>[](\A t \in Tab : link[t] # "closed" =>
         /\ seen[t] = newest
         /\ newest \in named => pool[t] = newest)
=============================================================================
