--------------------------- MODULE Dashboard_proofs ---------------------------
(***************************************************************************)
(* Proofs about the dashboard, for any number of tabs, streams, blocks,    *)
(* requests and clicks, whatever is lost and whatever overtakes what: the  *)
(* wave of a block is played once, the tables never go back, a page that   *)
(* is shown refreshes, a removed peer stays away, the switch comes to show *)
(* the truth, and a call to Core counts what it is asked to count.         *)
(***************************************************************************)
EXTENDS LiveBlocks, PeerTables, RotationSwitch, RpcCall,
        Induction_proofs, FiniteSetTheorems, SequenceTheorems, TLAPS

-----------------------------------------------------------------------------
(***************************************************************************)
(* The inductive invariant. What is on its way to a tab is ordered, and no *)
(* older than what the tab was told last: so a race that differs from that *)
(* one is later, and a race whose wave was played never is.                *)
(***************************************************************************)
Told == [id : Race, named : BOOLEAN]

LiveTypeOK ==
  /\ newest \in Race \cup {NoRace}
  /\ frames \in [Tab -> Seq(Told)]
  /\ seen \in [Tab -> Race \cup {NoRace}] /\ loaded \in [Tab -> Race \cup {NoRace}]
  /\ waves \in [Tab -> [Race -> Nat]]
  /\ DOMAIN link = Tab

InOrder(f) == \A i, j \in 1..Len(f) : i <= j => f[i].id <= f[j].id

Between(f, low, high) == \A i \in 1..Len(f) : low <= f[i].id /\ f[i].id <= high

Fresh(t) == frames[t] = << >> /\ seen[t] = NoRace /\ waves[t] = [r \in Race |-> 0]

TabInv(t) ==
  /\ InOrder(frames[t]) /\ Between(frames[t], seen[t], newest) /\ Between(frames[t], loaded[t], newest)
  /\ seen[t] <= newest /\ loaded[t] <= newest
  /\ seen[t] # NoRace => loaded[t] <= seen[t]
  /\ \A r \in Race : waves[t][r] <= 1 /\ (waves[t][r] > 0 => r <= seen[t] /\ loaded[t] < r)
  /\ link[t] = "closed" => Fresh(t)

LiveInv == LiveTypeOK /\ \A t \in Tab : TabInv(t)

LEMMA RaceIs == /\ Race \subseteq Nat /\ NoRace = 0 /\ NoRace \notin Race
                /\ \A n \in Race \cup {NoRace} : n \in Nat
BY LiveAssumption DEF Race, NoRace

LEMMA LiveInitially == LiveInit => LiveInv
<1> SUFFICES ASSUME LiveInit PROVE LiveInv
  OBVIOUS
<1>1. newest \in Race \cup {NoRace}
  BY LiveAssumption DEF LiveInit, Race
<1>2. << >> \in Seq(Told)
  OBVIOUS
<1>3. LiveTypeOK
  BY <1>1, <1>2, RaceIs DEF LiveInit, LiveTypeOK
<1>4. ASSUME NEW t \in Tab PROVE TabInv(t)
  BY <1>3, RaceIs DEF LiveInit, LiveTypeOK, TabInv, InOrder, Between, Fresh
<1>5. QED
  BY <1>3, <1>4 DEF LiveInv
-----------------------------------------------------------------------------
(***************************************************************************)
(* Sequences of frames.                                                    *)
(***************************************************************************)
LEMMA ElementTold ==
  ASSUME NEW f \in Seq(Told)
  PROVE  /\ \A i \in 1..Len(f) : f[i] \in Told /\ f[i].id \in Nat
         /\ \A e \in Told : e.id \in Nat
<1>1. \A e \in Told : e.id \in Race
  BY DEF Told
<1>2. \A i \in 1..Len(f) : f[i] \in Told
  OBVIOUS
<1>3. QED
  BY <1>1, <1>2, RaceIs

LEMMA Appended ==
  ASSUME NEW f \in Seq(Told), NEW e \in Told, NEW low, NEW high \in Nat,
         InOrder(f), Between(f, low, high), high <= e.id, low \in Nat, low <= high
  PROVE  /\ Append(f, e) \in Seq(Told)
         /\ InOrder(Append(f, e)) /\ Between(Append(f, e), low, e.id)
<1>1. /\ Append(f, e) \in Seq(Told) /\ Len(Append(f, e)) = Len(f) + 1
      /\ Append(f, e)[Len(f) + 1] = e
      /\ \A i \in 1..Len(f) : Append(f, e)[i] = f[i]
  BY AppendProperties
<1>2. \A i \in 1..Len(f) : f[i].id \in Nat
  BY ElementTold
<1>3. e.id \in Nat /\ Len(f) \in Nat
  BY ElementTold
<1> HIDE DEF Told
<1> DEFINE g == Append(f, e)
<1>4. \A i \in 1..Len(f) + 1 : g[i] = IF i = Len(f) + 1 THEN e ELSE f[i]
  BY <1>1, <1>3
<1> HIDE DEF g
<1>5. InOrder(g)
  <2> SUFFICES ASSUME NEW i \in 1..Len(f) + 1, NEW j \in 1..Len(f) + 1, i <= j
               PROVE  g[i].id <= g[j].id
    BY <1>1 DEF InOrder, g
  <2>1. CASE j \in 1..Len(f)
    BY <1>3, <1>4, <2>1 DEF InOrder
  <2>2. CASE j = Len(f) + 1
    BY <1>2, <1>3, <1>4, <2>2 DEF Between
  <2>3. QED
    BY <1>3, <2>1, <2>2
<1>6. Between(g, low, e.id)
  BY <1>1, <1>2, <1>3, <1>4 DEF Between, g
<1>7. QED
  BY <1>1, <1>5, <1>6 DEF g

LEMMA HeadTaken ==
  ASSUME NEW f \in Seq(Told), f # << >>, NEW low \in Nat, NEW high \in Nat,
         InOrder(f), Between(f, low, high)
  PROVE  /\ Head(f) \in Told /\ low <= Head(f).id /\ Head(f).id <= high
         /\ Tail(f) \in Seq(Told) /\ InOrder(Tail(f))
         /\ Between(Tail(f), Head(f).id, high) /\ Between(Tail(f), low, high)
<1>1. /\ Len(f) \in Nat \ {0} /\ Head(f) = f[1] /\ Head(f) \in Told
      /\ Tail(f) \in Seq(Told) /\ Len(Tail(f)) = Len(f) - 1
      /\ \A i \in 1..(Len(f) - 1) : Tail(f)[i] = f[i + 1]
  OBVIOUS
<1>2. \A i \in 1..Len(f) : f[i].id \in Nat
  BY ElementTold
<1>3. 1 \in 1..Len(f) /\ \A i \in 1..(Len(f) - 1) : i + 1 \in 1..Len(f)
  BY <1>1
<1>4. QED
  BY <1>1, <1>2, <1>3 DEF InOrder, Between

\* A later newest race is as good a bound.
LEMMA Longer ==
  ASSUME NEW f \in Seq(Told), NEW low, NEW high \in Nat, NEW higher \in Nat,
         high <= higher, Between(f, low, high)
  PROVE  Between(f, low, higher)
<1>1. \A i \in 1..Len(f) : f[i].id \in Nat
  BY ElementTold
<1>2. QED
  BY <1>1 DEF Between

LEMMA NewestTold ==
  ASSUME LiveInv, newest # NoRace
  PROVE  Newest \in Told /\ Newest.id = newest
<1>1. (newest \in named) \in BOOLEAN
  OBVIOUS
<1>2. QED
  BY <1>1 DEF LiveInv, LiveTypeOK, Newest, Told
-----------------------------------------------------------------------------
(***************************************************************************)
(* The steps.                                                              *)
(***************************************************************************)
LEMMA NumbersAre ==
  ASSUME LiveInv, NEW t \in Tab
  PROVE  newest \in Nat /\ seen[t] \in Nat /\ loaded[t] \in Nat
BY RaceIs DEF LiveInv, LiveTypeOK

\* A tab that a step leaves alone.
LEMMA LeftAlone ==
  ASSUME LiveInv, NEW t \in Tab, newest' \in Nat, newest <= newest',
         UNCHANGED <<frames[t], seen[t], waves[t], loaded[t]>>,
         link'[t] = link[t] \/ link'[t] # "closed"
  PROVE  TabInv(t)'
<1>1. TabInv(t) /\ newest \in Nat /\ seen[t] \in Nat /\ loaded[t] \in Nat /\ frames[t] \in Seq(Told)
  BY NumbersAre DEF LiveInv, LiveTypeOK
<1>2. Between(frames[t], seen[t], newest') /\ Between(frames[t], loaded[t], newest')
  BY <1>1, Longer DEF TabInv
<1>3. QED
  BY <1>1, <1>2 DEF TabInv, InOrder, Between, Fresh

\* The steps that tell no tab anything.
LEMMA QuietKeeps ==
  ASSUME LiveInv, UNCHANGED <<frames, seen, waves, loaded>>, DOMAIN link' = Tab,
         newest' \in Race \cup {NoRace}, newest <= newest',
         \A t \in Tab : link'[t] = link[t] \/ link'[t] # "closed"
  PROVE  LiveInv'
<1>1. newest' \in Nat
  BY RaceIs
<1>2. LiveTypeOK'
  BY DEF LiveInv, LiveTypeOK
<1>3. \A t \in Tab : TabInv(t)'
  BY <1>1, LeftAlone
<1>4. QED
  BY <1>2, <1>3 DEF LiveInv

LEMMA BroadcastKeeps == LiveInv /\ Broadcast => LiveInv'
<1> SUFFICES ASSUME LiveInv, Broadcast PROVE LiveInv'
  OBVIOUS
<1>1. Newest \in Told /\ Newest.id = newest
  BY NewestTold DEF Broadcast
<1>2. UNCHANGED <<newest, link, seen, waves, loaded>>
  BY DEF Broadcast, races
<1>3. ASSUME NEW t \in Tab PROVE frames'[t] \in Seq(Told) /\ TabInv(t)'
  <2>1. TabInv(t) /\ frames[t] \in Seq(Told) /\ newest \in Nat /\ seen[t] \in Nat /\ loaded[t] \in Nat
    BY NumbersAre DEF LiveInv, LiveTypeOK
  <2>2. CASE t \in Linked
    <3>1. frames'[t] = Append(frames[t], Newest) /\ link[t] # "closed"
      BY <2>2 DEF Broadcast, Linked
    <3>2. /\ frames'[t] \in Seq(Told) /\ InOrder(frames'[t])
          /\ Between(frames'[t], seen[t], newest) /\ Between(frames'[t], loaded[t], newest)
      BY <1>1, <2>1, <3>1, Appended DEF TabInv
    <3>3. QED
      BY <1>2, <2>1, <3>1, <3>2 DEF TabInv, InOrder, Between
  <2>3. CASE t \notin Linked
    <3>1. frames'[t] = frames[t]
      BY <2>3 DEF Broadcast
    <3>2. QED
      BY <1>2, <2>1, <3>1, LeftAlone
  <2>4. QED
    BY <2>2, <2>3
<1>4. LiveTypeOK'
  <2>1. frames' \in [Tab -> Seq(Told)]
    BY <1>3 DEF Broadcast
  <2>2. QED
    BY <1>2, <2>1 DEF LiveInv, LiveTypeOK
<1>5. QED
  BY <1>3, <1>4 DEF LiveInv

\* A step about one tab: the others are left alone.
LEMMA OneTab ==
  ASSUME LiveInv, LiveTypeOK', NEW t \in Tab, newest' = newest, TabInv(t)',
         \A u \in Tab \ {t} :
           UNCHANGED <<frames[u], seen[u], waves[u], loaded[u], link[u]>>
  PROVE  LiveInv'
<1>1. newest' \in Nat /\ newest <= newest'
  BY NumbersAre
<1>2. \A u \in Tab \ {t} : TabInv(u)'
  BY <1>1, LeftAlone
<1>3. QED
  BY <1>2 DEF LiveInv

LEMMA ConnectKeeps ==
  ASSUME LiveInv, NEW t \in Tab, Connect(t)
  PROVE  LiveInv'
<1>1. TabInv(t) /\ newest \in Nat /\ seen[t] \in Nat /\ loaded[t] \in Nat
  BY NumbersAre DEF LiveInv
<1>2. /\ UNCHANGED <<newest, seen, waves, loaded>> /\ link' = [link EXCEPT ![t] = "open"]
      /\ frames' = [frames EXCEPT ![t] = IF newest = NoRace THEN << >> ELSE <<Newest>>]
  BY DEF Connect, races
<1>3. DOMAIN link = Tab /\ DOMAIN frames = Tab
  BY DEF LiveInv, LiveTypeOK
<1>4. /\ frames'[t] \in Seq(Told) /\ InOrder(frames'[t])
      /\ Between(frames'[t], seen[t], newest) /\ Between(frames'[t], loaded[t], newest)
  <2>1. CASE newest = NoRace
    BY <1>2, <1>3, <2>1 DEF InOrder, Between
  <2>2. CASE newest # NoRace
    <3>1. frames'[t] = <<Newest>> /\ Newest \in Told /\ Newest.id = newest
      BY <1>2, <1>3, <2>2, NewestTold
    <3>2. seen[t] <= newest /\ loaded[t] <= newest
      BY <1>1 DEF TabInv
    <3>3. QED
      BY <1>1, <3>1, <3>2 DEF InOrder, Between
  <2>3. QED
    BY <2>1, <2>2
<1>5. TabInv(t)'
  BY <1>1, <1>2, <1>3, <1>4 DEF TabInv, InOrder, Between
<1>6. LiveTypeOK'
  BY <1>2, <1>3, <1>4 DEF LiveInv, LiveTypeOK
<1>7. QED
  BY <1>2, <1>3, <1>5, <1>6, OneTab

LEMMA OpenKeeps ==
  ASSUME LiveInv, NEW t \in Tab, Open(t)
  PROVE  LiveInv'
<1>1. TabInv(t) /\ newest \in Nat /\ Fresh(t)
  BY NumbersAre DEF LiveInv, TabInv, Open
<1>2. /\ UNCHANGED <<newest, frames, seen, waves>>
      /\ link' = [link EXCEPT ![t] = "connecting"] /\ loaded' = [loaded EXCEPT ![t] = newest]
  BY DEF Open, races
<1>3. LiveTypeOK'
  BY <1>2 DEF LiveInv, LiveTypeOK
<1>4. loaded'[t] = newest /\ link'[t] = "connecting"
  BY <1>2 DEF LiveInv, LiveTypeOK
<1>5. TabInv(t)'
  BY <1>1, <1>2, <1>4, RaceIs DEF TabInv, Fresh, InOrder, Between
<1>6. QED
  BY <1>2, <1>3, <1>5, OneTab DEF LiveInv, LiveTypeOK

LEMMA CloseKeeps ==
  ASSUME LiveInv, NEW t \in Tab, Close(t)
  PROVE  LiveInv'
<1>1. newest \in Nat
  BY NumbersAre
<1>2. /\ newest' = newest /\ link' = [link EXCEPT ![t] = "closed"]
      /\ frames' = [frames EXCEPT ![t] = << >>] /\ seen' = [seen EXCEPT ![t] = NoRace]
      /\ waves' = [waves EXCEPT ![t] = [r \in Race |-> 0]]
      /\ loaded' = [loaded EXCEPT ![t] = NoRace]
  BY DEF Close, races
<1>3. LiveTypeOK'
  BY <1>2 DEF LiveInv, LiveTypeOK
<1>4. /\ frames'[t] = << >> /\ seen'[t] = NoRace /\ loaded'[t] = NoRace
      /\ waves'[t] = [r \in Race |-> 0]
  BY <1>2 DEF LiveInv, LiveTypeOK
<1>5. TabInv(t)'
  BY <1>1, <1>2, <1>4, RaceIs DEF TabInv, Fresh, InOrder, Between
<1>6. QED
  BY <1>2, <1>3, <1>5, OneTab DEF LiveInv, LiveTypeOK

\* What was on its way is lost.
LEMMA CutKeeps ==
  ASSUME LiveInv, NEW t \in Tab, Cut(t)
  PROVE  LiveInv'
<1>1. newest \in Nat /\ TabInv(t)
  BY NumbersAre DEF LiveInv
<1>2. /\ UNCHANGED <<newest, seen, waves, loaded>> /\ link' = [link EXCEPT ![t] = "connecting"]
      /\ frames' = [frames EXCEPT ![t] = << >>]
  BY DEF Cut, races
<1>3. LiveTypeOK'
  BY <1>2 DEF LiveInv, LiveTypeOK
<1>4. frames'[t] = << >> /\ link'[t] = "connecting"
  BY <1>2 DEF LiveInv, LiveTypeOK
<1>5. TabInv(t)'
  BY <1>1, <1>2, <1>4 DEF TabInv, InOrder, Between
<1>6. QED
  BY <1>2, <1>3, <1>5, OneTab DEF LiveInv, LiveTypeOK

\* A race that is new to the tab is later than all it was told.
LEMMA DeliverKeeps ==
  ASSUME LiveInv, NEW t \in Tab, Deliver(t)
  PROVE  LiveInv'
<1> DEFINE race == Head(frames[t])
<1>1. /\ TabInv(t) /\ newest \in Nat /\ seen[t] \in Nat /\ loaded[t] \in Nat
      /\ frames[t] \in Seq(Told) /\ frames[t] # << >>
  BY NumbersAre DEF LiveInv, LiveTypeOK, Deliver
<1>2. /\ race \in Told /\ race.id \in Race /\ race.id \in Nat
      /\ seen[t] <= race.id /\ loaded[t] <= race.id /\ race.id <= newest
      /\ Tail(frames[t]) \in Seq(Told) /\ InOrder(Tail(frames[t]))
      /\ Between(Tail(frames[t]), race.id, newest) /\ Between(Tail(frames[t]), loaded[t], newest)
  BY <1>1, HeadTaken, RaceIs DEF TabInv, Told
<1>3. /\ UNCHANGED <<newest, link, loaded>> /\ seen' = [seen EXCEPT ![t] = race.id]
      /\ waves' = IF NewTo(t, race) THEN [waves EXCEPT ![t][race.id] = @ + 1] ELSE waves
      /\ frames' = [frames EXCEPT ![t] = Tail(@)]
  BY DEF Deliver, races
<1>4. LiveTypeOK'
  <2>1. waves' \in [Tab -> [Race -> Nat]]
    BY <1>2, <1>3 DEF LiveInv, LiveTypeOK
  <2>2. QED
    BY <1>2, <1>3, <2>1 DEF LiveInv, LiveTypeOK
<1>5. frames'[t] = Tail(frames[t]) /\ seen'[t] = race.id
  BY <1>3 DEF LiveInv, LiveTypeOK
<1>6. \A r \in Race :
        waves'[t][r] = IF NewTo(t, race) /\ r = race.id THEN waves[t][r] + 1 ELSE waves[t][r]
  BY <1>2, <1>3 DEF LiveInv, LiveTypeOK
<1>7. ASSUME NEW r \in Race
      PROVE  waves'[t][r] <= 1 /\ (waves'[t][r] > 0 => r <= race.id /\ loaded[t] < r)
  <2>1. r \in Nat /\ waves[t][r] \in Nat /\ waves[t][r] <= 1
        /\ (waves[t][r] > 0 => r <= seen[t] /\ loaded[t] < r)
        /\ (seen[t] # NoRace => loaded[t] <= seen[t])
    BY <1>1, RaceIs DEF TabInv, LiveInv, LiveTypeOK
  <2>2. CASE NewTo(t, race) /\ r = race.id
    <3> HIDE DEF race
    <3>1. seen[t] < r /\ loaded[t] < r
      BY <1>1, <1>2, <2>1, <2>2 DEF NewTo
    <3>2. waves[t][r] = 0
      BY <1>1, <2>1, <3>1
    <3>3. waves'[t][r] = 1
      BY <1>6, <2>2, <3>2
    <3>4. r <= race.id
      BY <2>1, <2>2
    <3>5. QED
      BY <3>1, <3>3, <3>4
  <2>3. CASE ~(NewTo(t, race) /\ r = race.id)
    BY <1>1, <1>2, <1>6, <2>1, <2>3
  <2>4. QED
    BY <2>2, <2>3
<1>8. TabInv(t)'
  BY <1>1, <1>2, <1>3, <1>5, <1>7 DEF TabInv, InOrder, Between, Fresh
<1>9. QED
  BY <1>3, <1>4, <1>8, OneTab DEF LiveInv, LiveTypeOK

LEMMA LiveStep == LiveInv /\ [LiveNext]_liveVars => LiveInv'
<1> SUFFICES ASSUME LiveInv, [LiveNext]_liveVars PROVE LiveInv'
  OBVIOUS
<1> USE DEF races, tabs
<1>1. newest \in Race \cup {NoRace} /\ newest \in Nat /\ DOMAIN link = Tab
  BY RaceIs DEF LiveInv, LiveTypeOK
<1>2. CASE RaceRecorded
  <2>1. newest' = newest + 1 /\ newest' \in Race /\ UNCHANGED tabs
    BY <1>1, <1>2, LiveAssumption DEF RaceRecorded, Race
  <2>2. QED
    BY <1>1, <2>1, QuietKeeps
<1>3. CASE ProfilerRestarts \/ EndDead \/ UNCHANGED liveVars
  BY <1>1, <1>3, QuietKeeps DEF ProfilerRestarts, EndDead, liveVars
<1>4. CASE Broadcast
  BY <1>4, BroadcastKeeps
<1>5. CASE ServerRestarts
  <2>1. /\ UNCHANGED <<newest, frames, seen, waves, loaded>>
        /\ link' = [t \in Tab |-> IF link[t] = "open" THEN "ended" ELSE link[t]]
    BY <1>5 DEF ServerRestarts
  <2>2. QED
    BY <1>1, <2>1, QuietKeeps
<1>6. ASSUME NEW r \in Race, Attributed(r) \/ NotAttributed(r) PROVE LiveInv'
  BY <1>1, <1>6, QuietKeeps DEF Attributed, NotAttributed
<1>7. ASSUME NEW t \in Tab, Refuse(t) \/ EndStream(t) \/ Reconnect(t) \/ Retry(t) PROVE LiveInv'
  <2>1. PICK where \in {"refused", "ended", "connecting"} : link' = [link EXCEPT ![t] = where]
    BY <1>7 DEF Refuse, EndStream, Reconnect, Retry
  <2>2. UNCHANGED <<newest, frames, seen, waves, loaded>>
    BY <1>7 DEF Refuse, EndStream, Reconnect, Retry
  <2>3. QED
    BY <1>1, <2>1, <2>2, QuietKeeps
<1>8. ASSUME NEW t \in Tab, Connect(t) \/ Deliver(t) \/ Open(t) \/ Close(t) \/ Cut(t) PROVE LiveInv'
  BY <1>8, ConnectKeeps, DeliverKeeps, OpenKeeps, CloseKeeps, CutKeeps
<1>9. QED
  BY <1>2, <1>3, <1>4, <1>5, <1>6, <1>7, <1>8 DEF LiveNext, TabStep

\* A tab plays the wave for a block once at most, and only for one found since
\* the page was opened (app.js, applyBlockUpdate).
THEOREM OneWave == LiveSpec => []WaveOnce
<1>1. LiveInv => WaveOnce
  <2> SUFFICES ASSUME LiveInv, NEW t \in Tab, NEW r \in Race, waves[t][r] > 0
               PROVE  waves[t][r] = 1 /\ r > loaded[t]
    BY DEF WaveOnce
  <2>1. waves[t][r] \in Nat /\ waves[t][r] <= 1 /\ loaded[t] < r /\ r \in Nat /\ loaded[t] \in Nat
    BY RaceIs, NumbersAre DEF LiveInv, LiveTypeOK, TabInv
  <2>2. QED
    BY <2>1
<1>2. QED
  BY <1>1, LiveInitially, LiveStep, PTL DEF LiveSpec

-----------------------------------------------------------------------------
(***************************************************************************)
(* The inductive invariant. The tables are never newer than the last       *)
(* ranking used, and what waits to be drawn is that one. The last request  *)
(* left after it was used, so its answer is no older: every other answer   *)
(* is left out.                                                            *)
(***************************************************************************)
Rankings == [ver : Nat, lists : BOOLEAN]

TablesTypeOK ==
  /\ ranking \in Rankings /\ last \in Rankings /\ waiting \in Rankings /\ drawn \in Rankings
  /\ seq \in Nat
  /\ asks \subseteq [seq : Nat, loops : BOOLEAN, answer : Rankings]

Numbered ==
  /\ \A q \in asks : q.seq <= seq
  /\ \A p, q \in asks : p.seq = q.seq => p = q

Younger ==
  /\ drawn.ver <= last.ver /\ last.ver <= ranking.ver
  /\ waiting \in {Nothing, last}
  /\ \A q \in asks : q.seq = seq /\ q.answer # Nothing => last.ver <= q.answer.ver
  /\ \A q \in asks : q.answer.ver <= ranking.ver

TablesInv == TablesTypeOK /\ Numbered /\ Younger

LEMMA TablesInitially == TablesInit => TablesInv
<1> SUFFICES ASSUME TablesInit PROVE TablesInv
  OBVIOUS
<1>1. Nothing \in Rankings
  BY DEF Nothing, Rankings
<1>2. TablesTypeOK
  BY <1>1 DEF TablesInit, TablesTypeOK, Rankings
<1>3. Numbered /\ Younger
  BY DEF TablesInit, Numbered, Younger, Nothing
<1>4. QED
  BY <1>2, <1>3 DEF TablesInv

LEMMA NothingIs == Nothing \in Rankings /\ Nothing.ver = 0
BY DEF Nothing, Rankings

\* Whoever draws a ranking draws its version.
LEMMA DrawnVersion ==
  ASSUME NEW answer \in Rankings, NEW gone, Draw(answer, gone)
  PROVE  drawn' \in Rankings /\ drawn'.ver = answer.ver
<1>1. (answer.lists /\ Left(gone, answer) = Unset) \in BOOLEAN
  BY DEF Rankings
<1>2. QED
  BY <1>1 DEF Draw, Rankings

\* A request that leaves is the last one, and has no answer.
LEMMA AskingKeeps ==
  ASSUME TablesInv, NEW loops \in BOOLEAN, Asking(loops),
         UNCHANGED <<ranking, last>>, drawn' \in Rankings, drawn'.ver <= last.ver,
         waiting' \in {Nothing, last}
  PROVE  TablesInv'
<1>1. TablesTypeOK'
  BY NothingIs DEF TablesInv, TablesTypeOK, Asking
<1>2. Numbered'
  BY DEF TablesInv, TablesTypeOK, Numbered, Asking
<1>3. \A q \in asks' : q.seq = seq' => q.answer = Nothing
  BY DEF TablesInv, TablesTypeOK, Numbered, Asking
<1>4. Younger'
  BY <1>3, NothingIs DEF TablesInv, TablesTypeOK, Younger, Asking, Rankings
<1>5. QED
  BY <1>1, <1>2, <1>4 DEF TablesInv

LEMMA ServeKeeps ==
  ASSUME TablesInv, NEW q \in asks, Serve(q)
  PROVE  TablesInv'
<1>1. PICK s : s = [q EXCEPT !.answer = ranking]
  OBVIOUS
<1>2. s \in [seq : Nat, loops : BOOLEAN, answer : Rankings] /\ s.seq = q.seq /\ s.answer = ranking
  BY <1>1 DEF TablesInv, TablesTypeOK
<1>3. asks' = (asks \ {q}) \cup {s}
  BY <1>1 DEF Serve
<1>4. UNCHANGED <<ranking, last, waiting, drawn, seq>>
  BY DEF Serve, server, view
<1>5. TablesTypeOK' /\ Numbered'
  BY <1>2, <1>3, <1>4 DEF TablesInv, TablesTypeOK, Numbered
<1>6. Younger'
  BY <1>2, <1>3, <1>4 DEF TablesInv, TablesTypeOK, Younger, Rankings
<1>7. QED
  BY <1>5, <1>6 DEF TablesInv

\* A request that is over leaves the others as they are.
LEMMA SettledKeeps ==
  ASSUME TablesInv, NEW q \in asks, Settled(q), UNCHANGED view
  PROVE  TablesInv'
BY DEF TablesInv, TablesTypeOK, Numbered, Younger, Settled, server, view

LEMMA UsedKeeps ==
  ASSUME TablesInv, NEW q \in asks, Settled(q), Current(q), q.answer # Nothing,
         last' = q.answer, Render(q.answer)
  PROVE  TablesInv' /\ drawn.ver <= drawn'.ver
<1>1. q.answer \in Rankings /\ q.answer.ver <= ranking.ver /\ last.ver <= q.answer.ver
  BY DEF TablesInv, TablesTypeOK, Younger, Current
<1>2. asks' = asks \ {q} /\ UNCHANGED <<ranking, seq>>
  BY DEF Settled, server
<1>3. /\ waiting' \in {Nothing, q.answer} /\ drawn' \in Rankings
      /\ drawn'.ver \in {drawn.ver, q.answer.ver}
  BY <1>1, DrawnVersion DEF Render, TablesInv, TablesTypeOK
<1>4. TablesTypeOK' /\ Numbered'
  BY <1>1, <1>2, <1>3, NothingIs DEF TablesInv, TablesTypeOK, Numbered
<1>5. \A r \in asks' : r.seq # seq'
  BY <1>2 DEF TablesInv, Numbered, Current
<1>6. Younger' /\ drawn.ver <= drawn'.ver
  BY <1>1, <1>2, <1>3, <1>5 DEF TablesInv, TablesTypeOK, Younger, Rankings
<1>7. QED
  BY <1>4, <1>6 DEF TablesInv

\* What waited is drawn, or goes on waiting.
LEMMA FlushDraws ==
  ASSUME TablesInv, NEW act, NEW press, NEW gone, Flush(act, press, gone)
  PROVE  /\ waiting' \in {Nothing, last} /\ drawn' \in Rankings
         /\ drawn'.ver <= last.ver /\ drawn.ver <= drawn'.ver
<1>1. CASE waiting = Nothing \/ Busy(act, press)
  BY <1>1 DEF Flush, TablesInv, TablesTypeOK, Younger, Rankings
<1>2. CASE ~(waiting = Nothing \/ Busy(act, press))
  <2>1. waiting = last /\ waiting' = Nothing /\ Draw(last, gone)
    BY <1>2 DEF Flush, TablesInv, Younger
  <2>2. drawn' \in Rankings /\ drawn'.ver = last.ver
    BY <2>1, DrawnVersion DEF TablesInv, TablesTypeOK
  <2>3. QED
    BY <2>1, <2>2 DEF TablesInv, TablesTypeOK, Younger, Rankings
<1>3. QED
  BY <1>1, <1>2

\* Nothing but what is drawn, and what waits, changes.
LEMMA DrawingKeeps ==
  ASSUME TablesInv, UNCHANGED <<ranking, asks, seq, last>>,
         waiting' \in {Nothing, last}, drawn' \in Rankings, drawn'.ver <= last.ver
  PROVE  TablesInv'
BY NothingIs DEF TablesInv, TablesTypeOK, Numbered, Younger

\* The ranking changes for a later one.
LEMMA ChangesKeep ==
  ASSUME TablesInv, NEW l \in BOOLEAN, Changes(l), UNCHANGED <<asks, seq, view>>
  PROVE  TablesInv'
<1>1. ranking' \in Rankings /\ ranking.ver <= ranking'.ver
  BY DEF TablesInv, TablesTypeOK, Changes, Rankings
<1>2. TablesTypeOK' /\ Numbered'
  BY <1>1 DEF TablesInv, TablesTypeOK, Numbered, view
<1>3. Younger'
  BY <1>1 DEF TablesInv, TablesTypeOK, Younger, Rankings, view
<1>4. QED
  BY <1>2, <1>3 DEF TablesInv
-----------------------------------------------------------------------------
\* Every step keeps the invariant and takes the tables forward.
LEMMA TablesStep ==
  ASSUME TablesInv, [TablesNext]_tableVars
  PROVE  TablesInv' /\ drawn'.ver >= drawn.ver
<1> USE DEF view, server
<1>1. drawn.ver \in Nat /\ drawn.ver <= last.ver /\ drawn \in Rankings /\ waiting \in {Nothing, last}
  BY DEF TablesInv, TablesTypeOK, Younger, Rankings
<1>2. ASSUME UNCHANGED <<ranking, asks, seq, view>> PROVE TablesInv' /\ drawn'.ver >= drawn.ver
  BY <1>1, <1>2, DrawingKeeps
<1>3. ASSUME NEW loops \in BOOLEAN, Asking(loops), UNCHANGED <<ranking, view>>
      PROVE  TablesInv' /\ drawn'.ver >= drawn.ver
  BY <1>1, <1>3, AskingKeeps
<1>4. CASE Pass \/ Press \/ Hide \/ UNCHANGED tableVars
  BY <1>2, <1>4 DEF Pass, Press, Hide, tableVars
<1>5. CASE Ask \/ TimerFires \/ Show
  BY <1>3, <1>5 DEF Ask, TimerFires, Show
<1>6. CASE Snapshot
  <2>1. PICK l \in BOOLEAN : Changes(l)
    BY <1>6 DEF Snapshot
  <2>2. UNCHANGED <<asks, seq, view>>
    BY <1>6 DEF Snapshot
  <2>3. QED
    BY <1>1, <2>1, <2>2, ChangesKeep
<1>7. ASSUME NEW q \in asks, Serve(q) PROVE TablesInv' /\ drawn'.ver >= drawn.ver
  BY <1>1, <1>7, ServeKeeps DEF Serve
<1>8. ASSUME NEW q \in asks, Answered(q) PROVE TablesInv' /\ drawn'.ver >= drawn.ver
  BY <1>1, <1>8, SettledKeeps, UsedKeeps DEF Answered, TablesInv, TablesTypeOK, Rankings
<1>9. ASSUME NEW q \in asks, Failed(q) PROVE TablesInv' /\ drawn'.ver >= drawn.ver
  BY <1>1, <1>9, SettledKeeps DEF Failed
<1>10. CASE ShowAll
  <2>1. drawn' \in Rankings /\ drawn'.ver = last.ver
    BY <1>10, DrawnVersion DEF ShowAll, TablesInv, TablesTypeOK
  <2>2. UNCHANGED <<ranking, asks, seq, last, waiting>>
    BY <1>10 DEF ShowAll
  <2>3. QED
    BY <1>1, <2>1, <2>2, DrawingKeeps DEF TablesInv, TablesTypeOK, Rankings
<1>11. ASSUME NEW what \in {"remove", "add"}, Click(what) PROVE TablesInv' /\ drawn'.ver >= drawn.ver
  BY <1>2, <1>11 DEF Click
<1>12. CASE ActionServed
  <2>1. PICK l \in BOOLEAN : l = (action.what = "add" \/ ranking.lists)
    BY DEF TablesInv, TablesTypeOK, Rankings
  <2>2. UNCHANGED <<asks, seq, view>> /\ Changes(l)
    BY <1>12, <2>1, Zenon DEF ActionServed
  <2>3. l \in BOOLEAN
    BY <2>1
  <2>4. TablesInv'
    BY <2>2, <2>3, ChangesKeep, Zenon
  <2>5. QED
    BY <1>1, <2>2, <2>4
<1>13. CASE ActionAnswered
  <2>1. PICK gone : Flush(Idle, pressed, gone)
    BY <1>13 DEF ActionAnswered
  <2>2. Asking(FALSE) /\ UNCHANGED <<ranking, last>>
    BY <1>13 DEF ActionAnswered
  <2>3. QED
    BY <2>1, <2>2, FlushDraws, AskingKeeps DEF TablesInv, TablesTypeOK, Rankings
<1>14. CASE ActionFailed \/ Release
  <2>1. PICK act, press, gone : Flush(act, press, gone)
    BY <1>14 DEF ActionFailed, Release
  <2>2. UNCHANGED <<ranking, asks, seq, last>>
    BY <1>14 DEF ActionFailed, Release
  <2>3. QED
    BY <2>1, <2>2, FlushDraws, DrawingKeeps DEF TablesInv, TablesTypeOK, Rankings
<1>15. QED
  BY <1>4, <1>5, <1>6, <1>7, <1>8, <1>9, <1>10, <1>11, <1>12, <1>13, <1>14 DEF TablesNext

\* The tables never go back to an older ranking (app.js, refreshPeers).
THEOREM NeverOlder == TablesSpec => DrawnNeverOlder
<1>1. TablesInv /\ [TablesNext]_tableVars => TablesInv'
  BY TablesStep
<1>2. TablesInv /\ [TablesNext]_tableVars => [drawn'.ver >= drawn.ver]_tableVars
  BY TablesStep
<1>3. QED
  BY <1>1, <1>2, TablesInitially, PTL DEF TablesSpec, DrawnNeverOlder
-----------------------------------------------------------------------------
(***************************************************************************)
(* The refresh loop. `running` must be the passes under way, or a page     *)
(* that is shown might count on one that is over.                          *)
(***************************************************************************)
Looping == {q \in asks : q.loops}

LoopInv ==
  /\ hidden \in BOOLEAN /\ timer \in BOOLEAN /\ running \in Nat
  /\ IsFiniteSet(asks) /\ running = Cardinality(Looping)
  /\ NeverIdle

LEMMA LoopInitially == TablesInit => LoopInv
<1> SUFFICES ASSUME TablesInit PROVE LoopInv
  OBVIOUS
<1>1. Looping = {}
  BY DEF TablesInit, Looping
<1>2. QED
  BY <1>1, FS_EmptySet DEF TablesInit, LoopInv, NeverIdle

LEMMA LoopAsking ==
  ASSUME TablesInv, LoopInv, NEW loops \in BOOLEAN, Asking(loops)
  PROVE  /\ IsFiniteSet(asks')
         /\ Cardinality(Looping') = IF loops THEN running + 1 ELSE running
<1>1. PICK q : q = [seq |-> seq + 1, loops |-> loops, answer |-> Nothing]
  OBVIOUS
<1>2. asks' = asks \cup {q} /\ q \notin asks
  BY <1>1 DEF Asking, TablesInv, TablesTypeOK, Numbered
<1>3. IsFiniteSet(asks') /\ IsFiniteSet(Looping)
  BY <1>2, FS_AddElement, FS_Subset DEF LoopInv, Looping
<1>4. Looping' = IF loops THEN Looping \cup {q} ELSE Looping
  BY <1>1, <1>2 DEF Looping
<1>5. q \notin Looping
  BY <1>2 DEF Looping
<1>6. QED
  BY <1>3, <1>4, <1>5, FS_AddElement DEF LoopInv

LEMMA LoopSettled ==
  ASSUME TablesInv, LoopInv, NEW q \in asks, Settled(q)
  PROVE  LoopInv'
<1>1. asks' = asks \ {q} /\ UNCHANGED hidden
  BY DEF Settled
<1>2. IsFiniteSet(asks') /\ IsFiniteSet(Looping)
  BY <1>1, FS_RemoveElement, FS_Subset DEF LoopInv, Looping
<1>3. Looping' = IF q.loops THEN Looping \ {q} ELSE Looping
  BY <1>1 DEF Looping
<1>4. q.loops => q \in Looping
  BY DEF Looping
<1>5. Cardinality(Looping) \in Nat /\ Cardinality(Looping') \in Nat
  BY <1>2, <1>3, FS_CardinalityType, FS_RemoveElement DEF LoopInv
<1>6. Cardinality(Looping') = IF q.loops THEN running - 1 ELSE running
  BY <1>2, <1>3, <1>4, FS_RemoveElement DEF LoopInv
<1>7. timer' \in BOOLEAN /\ (~hidden => timer' \/ running' = running)
  BY DEF Settled, LoopInv
<1>8. running' = Cardinality(Looping') /\ (q.loops => timer' = ~hidden) /\ (~q.loops => timer' = timer)
  BY <1>6 DEF Settled
<1>9. QED
  BY <1>1, <1>2, <1>5, <1>6, <1>7, <1>8 DEF LoopInv, NeverIdle

LEMMA LoopServe ==
  ASSUME TablesInv, LoopInv, NEW q \in asks, Serve(q)
  PROVE  LoopInv'
<1>1. PICK s : s = [q EXCEPT !.answer = ranking]
  OBVIOUS
<1>2. s.loops = q.loops /\ s.seq = q.seq
  BY <1>1 DEF TablesInv, TablesTypeOK
<1>3. asks' = (asks \ {q}) \cup {s} /\ UNCHANGED <<hidden, timer, running>>
  BY <1>1 DEF Serve, loop
<1>4. s \notin asks \ {q}
  BY <1>2 DEF TablesInv, Numbered
<1>5. IsFiniteSet(asks \ {q}) /\ IsFiniteSet(asks') /\ IsFiniteSet(Looping)
  BY <1>3, FS_RemoveElement, FS_AddElement, FS_Subset DEF LoopInv, Looping
<1>6. CASE q.loops
  <2>1. Looping' = (Looping \ {q}) \cup {s} /\ q \in Looping /\ s \notin Looping \ {q}
    BY <1>2, <1>3, <1>4, <1>6 DEF Looping
  <2>2. IsFiniteSet(Looping \ {q}) /\ Cardinality(Looping \ {q}) = Cardinality(Looping) - 1
    BY <1>5, <2>1, FS_RemoveElement
  <2>3. Cardinality(Looping') = Cardinality(Looping \ {q}) + 1
    BY <2>1, <2>2, FS_AddElement
  <2>4. QED
    BY <1>3, <1>5, <2>2, <2>3 DEF LoopInv, NeverIdle
<1>7. CASE ~q.loops
  <2>1. Looping' = Looping
    BY <1>2, <1>3, <1>7 DEF Looping
  <2>2. QED
    BY <1>3, <1>5, <2>1 DEF LoopInv, NeverIdle
<1>8. QED
  BY <1>6, <1>7

LEMMA LoopStep ==
  ASSUME TablesInv, LoopInv, [TablesNext]_tableVars
  PROVE  LoopInv'
<1> USE DEF loop
<1>1. ASSUME UNCHANGED <<asks, loop>> PROVE LoopInv'
  BY <1>1 DEF LoopInv, Looping, NeverIdle
<1>2. CASE Pass \/ Press \/ Snapshot \/ ShowAll \/ ActionServed \/ ActionFailed \/ Release
           \/ UNCHANGED tableVars
  BY <1>2 DEF Pass, Press, Snapshot, ShowAll, ActionServed, ActionFailed, Release, tableVars,
              LoopInv, Looping, NeverIdle
<1>3. ASSUME NEW what \in {"remove", "add"}, Click(what) PROVE LoopInv'
  BY <1>1, <1>3 DEF Click
<1>4. CASE Ask \/ ActionAnswered
  <2>1. Asking(FALSE) /\ UNCHANGED loop
    BY <1>4 DEF Ask, ActionAnswered
  <2>2. QED
    BY <2>1, LoopAsking DEF LoopInv, NeverIdle
<1>5. CASE TimerFires \/ Show
  <2>1. /\ Asking(TRUE) /\ running' = running + 1
        /\ hidden' \in BOOLEAN /\ timer' \in BOOLEAN
    BY <1>5 DEF TimerFires, Show, LoopInv
  <2>2. IsFiniteSet(asks') /\ Cardinality(Looping') = running + 1
    BY <2>1, LoopAsking
  <2>3. QED
    BY <2>1, <2>2 DEF LoopInv, NeverIdle
<1>6. CASE Hide
  BY <1>6 DEF Hide, LoopInv, Looping, NeverIdle
<1>7. ASSUME NEW q \in asks, Serve(q) \/ Answered(q) \/ Failed(q) PROVE LoopInv'
  BY <1>7, LoopServe, LoopSettled DEF Answered, Failed
<1>8. QED
  BY <1>2, <1>3, <1>4, <1>5, <1>6, <1>7 DEF TablesNext

\* A page that is shown has a refresh under way or one scheduled (app.js,
\* startRefreshLoop).
THEOREM LoopLives == TablesSpec => []NeverIdle
<1>1. TablesInv /\ LoopInv /\ [TablesNext]_tableVars => TablesInv' /\ LoopInv'
  BY TablesStep, LoopStep
<1>2. LoopInv => NeverIdle
  BY DEF LoopInv
<1>3. QED
  BY <1>1, <1>2, TablesInitially, LoopInitially, PTL DEF TablesSpec
-----------------------------------------------------------------------------
(***************************************************************************)
(* A removed peer stays away. As long as the server was never seen, by the *)
(* page or by itself, without the peer, and the wait is not over, the      *)
(* peer's entry in justGone is that of its last removal: nothing else that *)
(* draws has forgotten it.                                                 *)
(***************************************************************************)
GoneTypeOK ==
  /\ clock \in Nat /\ dropped \in BOOLEAN
  /\ removed \in Nat \cup {Unset} /\ goneAt \in Nat \cup {Unset}

\* The removal at `time` is still to be waited for, and gone says so.
HeldBack(time, over, gone) == time # Unset /\ ~over /\ clock - time <= GoneTime => gone = time

GoneInv == GoneTypeOK /\ HeldBack(removed, dropped, goneAt)

\* The removal at `time` is kept by a step that draws.
KeptOut(time) ==
  /\ HeldBack(time, dropped', goneAt')
  /\ time # Unset /\ drawn' # drawn => ~drawn'.lists \/ dropped \/ clock - time > GoneTime

LEMMA DrawKept ==
  ASSUME GoneTypeOK, NEW answer \in Rankings, NEW gone \in Nat \cup {Unset}, Draw(answer, gone),
         NEW time \in Nat \cup {Unset}, HeldBack(time, dropped, gone)
  PROVE  goneAt' \in Nat \cup {Unset} /\ dropped' \in BOOLEAN /\ KeptOut(time)
<1>1. answer.lists \in BOOLEAN /\ GoneTime \in Nat /\ Unset = -1
  BY TablesAssumption DEF Rankings, Unset
<1>2. goneAt' = Left(gone, answer) /\ dropped' = (dropped \/ ~answer.lists)
  BY DEF Draw
<1>3. Left(gone, answer) \in {gone, Unset}
  BY DEF Left
<1>4. goneAt' \in Nat \cup {Unset} /\ dropped' \in BOOLEAN
  BY <1>1, <1>2, <1>3 DEF GoneTypeOK
<1>5. ASSUME time # Unset, ~dropped, clock - time <= GoneTime, answer.lists
      PROVE  Left(gone, answer) = time
  <2>1. gone = time
    BY <1>5 DEF HeldBack
  <2>2. ~(clock - gone > GoneTime)
    BY <1>1, <1>5, <2>1 DEF GoneTypeOK
  <2>3. QED
    BY <1>5, <2>1, <2>2 DEF Left
<1>6. HeldBack(time, dropped', goneAt')
  BY <1>2, <1>5 DEF HeldBack
<1>7. ASSUME time # Unset, ~dropped, ~(clock - time > GoneTime) PROVE ~drawn'.lists
  <2>1. clock - time <= GoneTime
    BY <1>1, <1>7 DEF GoneTypeOK
  <2>2. drawn'.lists = (answer.lists /\ Left(gone, answer) = Unset)
    BY DEF Draw
  <2>3. QED
    BY <1>5, <1>7, <2>1, <2>2
<1>8. QED
  BY <1>4, <1>6, <1>7 DEF KeptOut

LEMMA FlushKept ==
  ASSUME TablesInv, GoneTypeOK, NEW act, NEW press, NEW gone \in Nat \cup {Unset},
         Flush(act, press, gone), NEW time \in Nat \cup {Unset}, HeldBack(time, dropped, gone)
  PROVE  goneAt' \in Nat \cup {Unset} /\ dropped' \in BOOLEAN /\ KeptOut(time)
<1>1. CASE waiting = Nothing \/ Busy(act, press)
  BY <1>1 DEF Flush, KeptOut, GoneTypeOK
<1>2. CASE ~(waiting = Nothing \/ Busy(act, press))
  BY <1>2, DrawKept DEF Flush, TablesInv, TablesTypeOK
<1>3. QED
  BY <1>1, <1>2

\* Every step keeps the invariant and the removed peer away.
LEMMA GoneStep ==
  ASSUME TablesInv, GoneInv, [TablesNext]_tableVars
  PROVE  /\ GoneInv'
         /\ removed' # Unset /\ drawn' # drawn =>
              ~drawn'.lists \/ dropped \/ clock - removed' > GoneTime
<1> DEFINE Goal == /\ GoneInv'
                   /\ removed' # Unset /\ drawn' # drawn =>
                        ~drawn'.lists \/ dropped \/ clock - removed' > GoneTime
<1> USE DEF view, server, ghosts
<1>1. ASSUME UNCHANGED <<clock, removed, drawn, goneAt>>, dropped' \in BOOLEAN, dropped => dropped'
      PROVE  Goal
  BY <1>1 DEF GoneInv, GoneTypeOK, HeldBack
<1>2. ASSUME UNCHANGED <<clock, removed>>, goneAt' \in Nat \cup {Unset}, dropped' \in BOOLEAN,
             KeptOut(removed)
      PROVE  Goal
  BY <1>2 DEF GoneInv, GoneTypeOK, KeptOut, HeldBack
<1>3. CASE Pass
  <2>1. clock' = clock + 1 /\ UNCHANGED <<removed, drawn, goneAt, dropped>>
    BY <1>3 DEF Pass
  <2>2. removed # Unset /\ clock' - removed <= GoneTime => clock - removed <= GoneTime
    BY <2>1, TablesAssumption DEF GoneInv, GoneTypeOK, Unset
  <2>3. QED
    BY <2>1, <2>2 DEF GoneInv, GoneTypeOK, HeldBack
<1>4. CASE Snapshot
  BY <1>1, <1>4 DEF Snapshot, GoneInv, GoneTypeOK
<1>5. CASE Ask \/ Press \/ TimerFires \/ Hide \/ Show \/ UNCHANGED tableVars
  BY <1>1, <1>5 DEF Ask, Press, TimerFires, Hide, Show, tableVars, GoneInv, GoneTypeOK
<1>6. CASE ShowAll
  <2>1. Draw(last, goneAt) /\ UNCHANGED <<clock, removed>>
    BY <1>6 DEF ShowAll
  <2>2. QED
    BY <1>2, <2>1, DrawKept DEF GoneInv, GoneTypeOK, TablesInv, TablesTypeOK
<1>7. ASSUME NEW q \in asks, Serve(q) PROVE Goal
  BY <1>1, <1>7 DEF Serve, GoneInv, GoneTypeOK
<1>8. ASSUME NEW q \in asks, Answered(q) PROVE Goal
  <2>1. UNCHANGED <<clock, removed>> /\ q.answer \in Rankings
    BY <1>8 DEF Answered, Settled, TablesInv, TablesTypeOK
  <2>2. CASE Current(q) /\ Render(q.answer)
    <3>1. CASE Busy(action, pressed)
      BY <1>1, <2>1, <2>2, <3>1 DEF Render, GoneInv, GoneTypeOK
    <3>2. CASE ~Busy(action, pressed)
      <4>1. Draw(q.answer, goneAt)
        BY <2>2, <3>2 DEF Render
      <4>2. QED
        BY <1>2, <2>1, <4>1, DrawKept DEF GoneInv, GoneTypeOK
    <3>3. QED
      BY <3>1, <3>2
  <2>3. CASE UNCHANGED <<view, goneAt, dropped>>
    BY <1>1, <2>1, <2>3 DEF GoneInv, GoneTypeOK
  <2>4. QED
    BY <1>8, <2>2, <2>3 DEF Answered
<1>9. ASSUME NEW q \in asks, Failed(q) PROVE Goal
  BY <1>1, <1>9 DEF Failed, Settled, GoneInv, GoneTypeOK
<1>10. ASSUME NEW what \in {"remove", "add"}, Click(what) PROVE Goal
  BY <1>1, <1>10 DEF Click, GoneInv, GoneTypeOK
<1>11. CASE ActionServed
  <2>1. removed' = Unset /\ dropped' \in BOOLEAN /\ UNCHANGED <<clock, goneAt>>
    BY <1>11 DEF ActionServed
  <2>2. QED
    BY <2>1 DEF GoneInv, GoneTypeOK, HeldBack
<1>12. CASE ActionAnswered
  <2>1. PICK time : time = IF action.what = "add" THEN Unset ELSE clock
    OBVIOUS
  <2>2. removed' = time /\ Flush(Idle, pressed, time) /\ UNCHANGED clock
    BY <1>12, <2>1 DEF ActionAnswered, Marked
  <2>3. time \in Nat \cup {Unset} /\ HeldBack(time, dropped, time)
    BY <2>1 DEF GoneInv, GoneTypeOK, HeldBack
  <2>4. goneAt' \in Nat \cup {Unset} /\ dropped' \in BOOLEAN /\ KeptOut(time)
    BY <2>2, <2>3, FlushKept DEF GoneInv
  <2>5. QED
    BY <2>2, <2>3, <2>4 DEF GoneInv, GoneTypeOK, KeptOut, HeldBack
<1>13. CASE ActionFailed \/ Release
  <2>1. PICK act, press : Flush(act, press, goneAt)
    BY <1>13 DEF ActionFailed, Release
  <2>2. UNCHANGED <<clock, removed>>
    BY <1>13 DEF ActionFailed, Release
  <2>3. QED
    BY <1>2, <2>1, <2>2, FlushKept DEF GoneInv, GoneTypeOK
<1>14. QED
  BY <1>3, <1>4, <1>5, <1>6, <1>7, <1>8, <1>9, <1>10, <1>11, <1>12, <1>13 DEF TablesNext

\* A removed peer does not come back before the server has left it out, it was
\* added again, or the wait is over (app.js, renderPeerTables).
THEOREM GoneStays == TablesSpec => StaysGone
<1>1. TablesInit => GoneInv
  <2> SUFFICES ASSUME TablesInit PROVE GoneInv
    OBVIOUS
  <2>1. clock = 0 /\ removed = Unset /\ goneAt = Unset /\ dropped = FALSE
    BY DEF TablesInit
  <2>2. QED
    BY <2>1 DEF GoneInv, GoneTypeOK, HeldBack
<1>2. TablesInv /\ GoneInv /\ [TablesNext]_tableVars => TablesInv' /\ GoneInv'
  BY TablesStep, GoneStep
<1>3. TablesInv /\ GoneInv /\ [TablesNext]_tableVars =>
        [removed' # Unset /\ drawn' # drawn =>
           ~drawn'.lists \/ dropped \/ clock - removed' > GoneTime]_tableVars
  BY GoneStep
<1>4. QED
  BY <1>1, <1>2, <1>3, TablesInitially, PTL DEF TablesSpec, StaysGone

-----------------------------------------------------------------------------
(***************************************************************************)
(* The inductive invariant. BoxTrue speaks of a page at rest; a page that  *)
(* is not must be known to come to the truth. It does when the last click  *)
(* has been answered and a reading that left since is on its way, for that *)
(* is one the page will not leave out, and no click can change what it     *)
(* says.                                                                   *)
(***************************************************************************)
SwitchTypeOK ==
  /\ enabled \in BOOLEAN /\ box \in BOOLEAN /\ lost \in BOOLEAN
  /\ epoch \in Nat /\ clicks \in Nat /\ readings \in Nat
  /\ posts \subseteq [n : Nat, to : BOOLEAN, answer : {Unserved, "stored"}]
  /\ reads \subseteq [n : Nat, epoch : Nat, answer : {Unserved, "on", "off"}]

LeftBefore == \A g \in reads : g.epoch <= epoch

\* A reading the page will use says what the server has.
Truthful ==
  posts = {} =>
    \A g \in reads : g.epoch = epoch /\ g.answer # Unserved => (g.answer = "on") = enabled

Awaited ==
  posts = {} /\ readings > 0 /\ ~lost =>
    box = enabled \/ \E g \in reads : g.epoch = epoch

SwitchInv == SwitchTypeOK /\ LeftBefore /\ Truthful /\ Awaited

LEMMA SwitchInitially == SwitchInit => SwitchInv
<1> SUFFICES ASSUME SwitchInit PROVE SwitchInv
  OBVIOUS
<1>1. SwitchTypeOK
  BY DEF SwitchInit, SwitchTypeOK
<1>2. LeftBefore /\ Truthful /\ Awaited
  BY DEF SwitchInit, LeftBefore, Truthful, Awaited
<1>3. QED
  BY <1>1, <1>2 DEF SwitchInv

\* A reading that leaves with the present epoch, or the one after a click.
LEMMA AskedReading ==
  ASSUME SwitchInv, readings < MaxReads, NEW e \in Nat, Asked(e)
  PROVE  /\ readings' = readings + 1
         /\ \E g \in [n : Nat, epoch : Nat, answer : {Unserved}] :
              g.epoch = e /\ reads' = reads \cup {g}
BY DEF SwitchInv, SwitchTypeOK, Asked

LEMMA ReadPanelKeeps == SwitchInv /\ ReadPanel => SwitchInv'
<1> SUFFICES ASSUME SwitchInv, ReadPanel PROVE SwitchInv'
  OBVIOUS
<1>1. PICK g \in [n : Nat, epoch : Nat, answer : {Unserved}] :
        g.epoch = epoch /\ reads' = reads \cup {g} /\ readings' = readings + 1
  BY AskedReading DEF ReadPanel, SwitchInv, SwitchTypeOK
<1>2. SwitchTypeOK' /\ LeftBefore'
  BY <1>1 DEF ReadPanel, SwitchInv, SwitchTypeOK, LeftBefore
<1>3. Truthful' /\ Awaited'
  BY <1>1 DEF ReadPanel, SwitchInv, SwitchTypeOK, Truthful, Awaited
<1>4. QED
  BY <1>2, <1>3 DEF SwitchInv

LEMMA PanelKeeps ==
  ASSUME SwitchInv, NEW g \in reads, PanelServed(g) \/ PanelAnswered(g) \/ PanelLost(g)
  PROVE  SwitchInv'
<1>1. CASE PanelServed(g)
  <2>1. SwitchTypeOK' /\ LeftBefore'
    BY <1>1 DEF PanelServed, SwitchInv, SwitchTypeOK, LeftBefore
  <2>2. PICK h : h = [g EXCEPT !.answer = IF enabled THEN "on" ELSE "off"]
    OBVIOUS
  <2>3. /\ reads' = (reads \ {g}) \cup {h} /\ h.epoch = g.epoch
        /\ h.answer = IF enabled THEN "on" ELSE "off"
    BY <1>1, <2>2 DEF PanelServed, SwitchInv, SwitchTypeOK
  <2>4. Truthful'
    BY <1>1, <2>3 DEF PanelServed, SwitchInv, SwitchTypeOK, Truthful
  <2>5. Awaited'
    BY <1>1, <2>3 DEF PanelServed, SwitchInv, Awaited
  <2>6. QED
    BY <2>1, <2>4, <2>5 DEF SwitchInv
<1>2. CASE PanelAnswered(g)
  <2>1. SwitchTypeOK' /\ LeftBefore' /\ Truthful'
    BY <1>2 DEF PanelAnswered, SwitchInv, SwitchTypeOK, LeftBefore, Truthful, SameEpoch
  <2>2. Awaited'
    BY <1>2 DEF PanelAnswered, SwitchInv, SwitchTypeOK, Truthful, Awaited, SameEpoch
  <2>3. QED
    BY <2>1, <2>2 DEF SwitchInv
<1>3. CASE PanelLost(g)
  BY <1>3 DEF PanelLost, SwitchInv, SwitchTypeOK, LeftBefore, Truthful, Awaited
<1>4. QED
  BY <1>1, <1>2, <1>3

LEMMA ClickKeeps == SwitchInv /\ ClickSwitch => SwitchInv'
<1> SUFFICES ASSUME SwitchInv, ClickSwitch PROVE SwitchInv'
  OBVIOUS
<1>1. PICK b \in BOOLEAN : b = ~box
  OBVIOUS
<1>2. box' = b /\ posts' = posts \cup {[n |-> clicks, to |-> b, answer |-> Unserved]}
  BY <1>1, Zenon DEF ClickSwitch
<1>3. SwitchTypeOK' /\ LeftBefore'
  BY <1>2 DEF ClickSwitch, SwitchInv, SwitchTypeOK, LeftBefore
<1>4. posts' # {}
  BY DEF ClickSwitch
<1>5. QED
  BY <1>3, <1>4 DEF SwitchInv, Truthful, Awaited

\* With the answer to a click every reading under way is one the page leaves
\* out, but for the one that leaves now.
LEMMA PostKeeps ==
  ASSUME SwitchInv, NEW p \in posts, Stored(p) \/ ClickAnswered(p) \/ ClickLost(p)
  PROVE  SwitchInv'
<1>1. CASE Stored(p)
  <2>1. posts' # {}
    BY <1>1 DEF Stored
  <2>2. QED
    BY <1>1, <2>1 DEF Stored, SwitchInv, SwitchTypeOK, LeftBefore, Truthful, Awaited
<1>2. CASE ClickAnswered(p)
  <2>1. PICK g \in [n : Nat, epoch : Nat, answer : {Unserved}] :
          g.epoch = epoch + 1 /\ reads' = reads \cup {g} /\ readings' = readings + 1
    <3>1. epoch + 1 \in Nat
      BY DEF SwitchInv, SwitchTypeOK
    <3>2. QED
      BY <1>2, <3>1, AskedReading DEF ClickAnswered
  <2>2. SwitchTypeOK' /\ LeftBefore'
    BY <1>2, <2>1 DEF ClickAnswered, SwitchInv, SwitchTypeOK, LeftBefore
  <2>3. \A r \in reads' : r.epoch = epoch' => r = g
    BY <1>2, <2>1 DEF ClickAnswered, SwitchInv, SwitchTypeOK, LeftBefore
  <2>4. Truthful' /\ Awaited'
    BY <1>2, <2>1, <2>3 DEF ClickAnswered, Truthful, Awaited
  <2>5. QED
    BY <2>2, <2>4 DEF SwitchInv
<1>3. CASE ClickLost(p)
  BY <1>3 DEF ClickLost, SwitchInv, SwitchTypeOK, LeftBefore, Truthful, Awaited
<1>4. QED
  BY <1>1, <1>2, <1>3

LEMMA SwitchStep == SwitchInv /\ [SwitchNext]_switchVars => SwitchInv'
<1> SUFFICES ASSUME SwitchInv, [SwitchNext]_switchVars PROVE SwitchInv'
  OBVIOUS
<1>1. CASE ReadPanel
  BY <1>1, ReadPanelKeeps
<1>2. CASE ClickSwitch
  BY <1>2, ClickKeeps
<1>3. CASE \E g \in reads : PanelServed(g) \/ PanelAnswered(g) \/ PanelLost(g)
  BY <1>3, PanelKeeps
<1>4. CASE \E p \in posts : Stored(p) \/ ClickAnswered(p) \/ ClickLost(p)
  BY <1>4, PostKeeps
<1>5. CASE UNCHANGED switchVars
  BY <1>5 DEF switchVars, SwitchInv, SwitchTypeOK, LeftBefore, Truthful, Awaited
<1>6. QED
  BY <1>1, <1>2, <1>3, <1>4, <1>5 DEF SwitchNext

\* When every click and every reading is answered, the box of the page shows
\* what the server has (app.js, rotationToggleEpoch).
THEOREM BoxHolds == SwitchSpec => []BoxTrue
<1>1. SwitchInv => BoxTrue
  BY DEF SwitchInv, Awaited, BoxTrue
<1>2. QED
  BY <1>1, SwitchInitially, SwitchStep, PTL DEF SwitchSpec

-----------------------------------------------------------------------------
(***************************************************************************)
(* The calls to Core. What timeCall has counted is what ends in the part   *)
(* of the reply that has arrived, and what it keeps of that part is too    *)
(* short to hold a needle: so a needle is found with the chunk it ends in, *)
(* and never again.                                                        *)
(***************************************************************************)
\* The needles that begin at m or later in text, and end by n.
Within(text, m, n) == {i \in m..n : MatchAt(text, i) /\ i + Len(Needle) - 1 <= n}

LEMMA NeedleIs == Needle \in Seq(Letters) /\ Len(Needle) \in Nat /\ Len(Needle) >= 1
<1>1. Needle \in Seq(Letters) /\ Needle # << >>
  BY RpcAssumption
<1>2. QED
  BY <1>1

LEMMA WithinIs ==
  ASSUME NEW text, NEW m \in Int, NEW n \in Int
  PROVE  IsFiniteSet(Within(text, m, n)) /\ Cardinality(Within(text, m, n)) \in Nat
<1>1. Within(text, m, n) \subseteq m..n
  BY DEF Within
<1>2. QED
  BY <1>1, FS_Interval, FS_Subset, FS_CardinalityType

\* A match in a piece of a text is a match in the text, within that piece.
LEMMA MatchInPiece ==
  ASSUME NEW text \in Seq(Letters), NEW low \in 0..Len(text), NEW high \in low..Len(text),
         NEW i \in 1..high - low
  PROVE  MatchAt(SubSeq(text, low + 1, high), i)
           <=> MatchAt(text, low + i) /\ low + i + Len(Needle) - 1 <= high
<1> DEFINE buf == SubSeq(text, low + 1, high)
           j == i + Len(Needle) - 1
<1>1. /\ Len(text) \in Nat /\ low \in Nat /\ high \in Nat /\ Len(Needle) \in Nat
      /\ Len(Needle) >= 1 /\ j \in Nat
  BY NeedleIs
<1>2. Len(buf) = high - low
  BY <1>1
<1>3. CASE j <= high - low
  <2>1. /\ low + 1 \in 1..Len(text) /\ high \in 1..Len(text)
        /\ i \in 1..high - (low + 1) + 1 /\ j \in 1..high - (low + 1) + 1
    BY <1>1, <1>3
  <2>2. SubSeq(buf, i, j) = SubSeq(text, low + 1 + i - 1, low + 1 + j - 1)
    BY <2>1, SubSeqOfSubSeq
  <2>3. low + 1 + i - 1 = low + i /\ low + 1 + j - 1 = low + i + Len(Needle) - 1
    BY <1>1
  <2>4. low + i + Len(Needle) - 1 <= high /\ low + i + Len(Needle) - 1 <= Len(text)
    BY <1>1, <1>3
  <2>5. QED
    BY <1>2, <1>3, <2>2, <2>3, <2>4 DEF MatchAt
<1>4. CASE ~(j <= high - low)
  <2>1. ~(low + i + Len(Needle) - 1 <= high)
    BY <1>1, <1>4
  <2>2. QED
    BY <1>2, <1>4, <2>1 DEF MatchAt
<1>5. QED
  BY <1>3, <1>4

\* indexOf from each match's end on: every match is counted, for no two overlap.
LEMMA CountInPiece ==
  ASSUME NEW text \in Seq(Letters), Apart(text),
         NEW low \in 0..Len(text), NEW high \in low..Len(text)
  PROVE  CountIn(SubSeq(text, low + 1, high)) = Cardinality(Within(text, low + 1, high))
<1> DEFINE buf == SubSeq(text, low + 1, high)
           last1 == Len(buf) + Len(Needle)
           Rule(f) == f = [i \in 1..last1 |->
                             IF i > Len(buf) THEN 0
                             ELSE IF MatchAt(buf, i) THEN 1 + f[i + Len(Needle)]
                             ELSE f[i + 1]]
           count(i) == Cardinality(Within(text, low + i, high))
           g == [i \in 1..last1 |-> count(i)]
           T == {n \in Nat : \A f : Rule(f) => \A i \in 1..last1 : i + n > last1 => f[i] = count(i)}
<1>1. /\ Len(text) \in Nat /\ low \in Nat /\ high \in Nat /\ Len(Needle) \in Nat
      /\ Len(Needle) >= 1 /\ Len(buf) = high - low /\ Len(buf) \in Nat /\ last1 \in Nat
  <2>1. Len(text) \in Nat /\ low \in Nat /\ high \in Nat /\ Len(Needle) \in Nat /\ Len(Needle) >= 1
    BY NeedleIs
  <2>2. Len(buf) = high - low
    BY <2>1
  <2>3. QED
    BY <2>1, <2>2
<1>2. \A i \in 1..Len(buf) :
        MatchAt(buf, i) <=> MatchAt(text, low + i) /\ low + i + Len(Needle) - 1 <= high
  BY <1>1, MatchInPiece
<1> HIDE DEF buf
<1>3. ASSUME NEW i \in 1..last1
      PROVE  count(i) = IF i > Len(buf) THEN 0
                        ELSE IF MatchAt(buf, i) THEN 1 + count(i + Len(Needle))
                        ELSE count(i + 1)
  <2>1. CASE i > Len(buf)
    <3>1. Within(text, low + i, high) = {}
      BY <1>1, <2>1 DEF Within
    <3>2. QED
      BY <2>1, <3>1, FS_EmptySet
  <2>2. CASE i \in 1..Len(buf) /\ ~MatchAt(buf, i)
    <3>1. ~(MatchAt(text, low + i) /\ low + i + Len(Needle) - 1 <= high)
      BY <1>2, <2>2
    <3>2. Within(text, low + i, high) = Within(text, low + (i + 1), high)
      BY <1>1, <2>2, <3>1 DEF Within
    <3>3. QED
      BY <1>1, <2>2, <3>2
  <2>3. CASE i \in 1..Len(buf) /\ MatchAt(buf, i)
    <3> DEFINE rest == Within(text, low + (i + Len(Needle)), high)
    <3>1. MatchAt(text, low + i) /\ low + i + Len(Needle) - 1 <= high /\ low + i \in 1..Len(text)
      BY <1>1, <1>2, <2>3
    <3>2. Within(text, low + i, high) \subseteq rest \cup {low + i}
      <4> SUFFICES ASSUME NEW j \in low + i..high, MatchAt(text, j), j # low + i,
                          j + Len(Needle) - 1 <= high
                   PROVE  j >= low + (i + Len(Needle))
        BY <1>1 DEF Within
      <4>1. j \in 1..Len(text) /\ low + i < j
        BY <1>1, <3>1
      <4>2. low + i + Len(Needle) <= j
        BY <3>1, <4>1 DEF Apart
      <4>3. QED
        BY <1>1, <4>2
    <3>3. rest \cup {low + i} \subseteq Within(text, low + i, high) /\ low + i \notin rest
      BY <1>1, <3>1 DEF Within
    <3>4. IsFiniteSet(rest)
      <4>1. low + (i + Len(Needle)) \in Int /\ high \in Int
        BY <1>1
      <4>2. QED
        BY <4>1, WithinIs
    <3>5. Within(text, low + i, high) = rest \cup {low + i}
      BY <3>2, <3>3
    <3> HIDE DEF rest
    <3>6. Cardinality(rest \cup {low + i}) = Cardinality(rest) + 1 /\ Cardinality(rest) \in Nat
      BY <3>3, <3>4, FS_AddElement, FS_CardinalityType
    <3>7. Cardinality(rest \cup {low + i}) = 1 + Cardinality(rest)
      BY <3>6
    <3>8. count(i) = 1 + Cardinality(rest)
      BY <3>5, <3>7
    <3>9. QED
      BY <1>1, <2>3, <3>8 DEF rest
  <2>4. QED
    BY <1>1, <2>1, <2>2, <2>3
<1>4. \A i \in 1..last1 : i \in 1..Len(buf) => i + Len(Needle) \in 1..last1 /\ i + 1 \in 1..last1
  BY <1>1
<1>5. Rule(g)
  <2>1. ASSUME NEW i \in 1..last1
        PROVE  g[i] = IF i > Len(buf) THEN 0
                      ELSE IF MatchAt(buf, i) THEN 1 + g[i + Len(Needle)]
                      ELSE g[i + 1]
    <3>1. CASE i > Len(buf)
      BY <1>3, <3>1
    <3>2. CASE i \in 1..Len(buf)
      <4>1. /\ g[i] = count(i) /\ g[i + Len(Needle)] = count(i + Len(Needle))
            /\ g[i + 1] = count(i + 1) /\ ~(i > Len(buf))
        BY <1>1, <1>4, <3>2
      <4> HIDE DEF g, count
      <4>2. QED
        BY <1>3, <4>1
    <3>3. QED
      BY <1>1, <3>1, <3>2
  <2>2. g = [i \in 1..last1 |-> g[i]]
    OBVIOUS
  <2> HIDE DEF g
  <2>3. QED
    BY <2>1, <2>2
<1>6. 0 \in T
  BY <1>1
<1>7. ASSUME NEW n \in Nat, n \in T PROVE n + 1 \in T
  <2> SUFFICES ASSUME NEW f, Rule(f), NEW i \in 1..last1, i + (n + 1) > last1
               PROVE  f[i] = count(i)
    OBVIOUS
  <2>1. \A k \in 1..last1 : k + n > last1 => f[k] = count(k)
    BY <1>7
  <2>2. f[i] = IF i > Len(buf) THEN 0
               ELSE IF MatchAt(buf, i) THEN 1 + f[i + Len(Needle)]
               ELSE f[i + 1]
    <3> HIDE DEF last1
    <3>1. QED
      BY Zenon
  <2>3. CASE i > Len(buf)
    BY <1>3, <2>2, <2>3
  <2>4. CASE i \in 1..Len(buf)
    <3>1. f[i + Len(Needle)] = count(i + Len(Needle)) /\ f[i + 1] = count(i + 1)
      <4>1. i + Len(Needle) + n > last1 /\ i + 1 + n > last1
        BY <1>1
      <4>2. QED
        BY <1>4, <2>1, <2>4, <4>1
    <3> HIDE DEF count
    <3>2. QED
      BY <1>3, <2>2, <3>1
  <2>5. QED
    BY <1>1, <2>3, <2>4
<1>8. Nat \subseteq T
  <2> HIDE DEF T
  <2> QED BY <1>6, <1>7, NatBySteps
<1> DEFINE h == CHOOSE f : Rule(f)
<1>9. CountIn(buf) = h[1]
  BY DEF CountIn
<1>10. Rule(h)
  <2> HIDE DEF Rule, g
  <2> QED BY <1>5
<1> HIDE DEF h, Rule
<1>11. h[1] = count(1)
  <2>1. 1 \in 1..last1 /\ last1 \in Nat /\ 1 + last1 > last1
    BY <1>1
  <2>2. last1 \in T
    BY <1>8, <2>1
  <2> HIDE DEF count, last1
  <2>3. QED
    BY <1>10, <2>1, <2>2
<1>12. QED
  BY <1>9, <1>11 DEF buf

\* A chunk extends what was kept to a piece of the reply, and what is kept of it
\* is again the last of the reply, as long as it is too short for a needle.
KeptFrom(n) == IF n > Len(Needle) - 1 THEN n - (Len(Needle) - 1) ELSE 0

LEMMA KeptIs ==
  ASSUME NEW text \in Seq(Letters), NEW n \in 0..Len(text), NEW low \in 0..KeptFrom(n)
  PROVE  Kept(SubSeq(text, low + 1, n)) = SubSeq(text, KeptFrom(n) + 1, n)
<1> DEFINE buf == SubSeq(text, low + 1, n)
           from == IF Len(buf) > Len(Needle) - 1 THEN Len(buf) - (Len(Needle) - 1) + 1 ELSE 1
<1>1. /\ Len(text) \in Nat /\ n \in Nat /\ low \in Nat /\ Len(Needle) \in Nat
      /\ Len(Needle) >= 1 /\ low <= n /\ KeptFrom(n) \in low..n
  BY NeedleIs DEF KeptFrom
<1>2. Len(buf) = n - low
  BY <1>1
<1>3. Kept(buf) = SubSeq(buf, from, Len(buf))
  BY DEF Kept, Last
<1> HIDE DEF buf, from
<1>4. low + from = KeptFrom(n) + 1 /\ from \in Nat /\ from >= 1 /\ Len(buf) \in Nat
  BY <1>1, <1>2 DEF KeptFrom, from
<1>5. CASE from <= Len(buf)
  <2>1. /\ low + 1 \in 1..Len(text) /\ n \in 1..Len(text)
        /\ from \in 1..n - (low + 1) + 1 /\ Len(buf) \in 1..n - (low + 1) + 1
    BY <1>1, <1>2, <1>4, <1>5
  <2>2. SubSeq(buf, from, Len(buf)) = SubSeq(text, low + 1 + from - 1, low + 1 + Len(buf) - 1)
    BY <2>1, SubSeqOfSubSeq DEF buf
  <2>3. low + 1 + from - 1 = KeptFrom(n) + 1 /\ low + 1 + Len(buf) - 1 = n
    BY <1>1, <1>2, <1>4, <2>1
  <2>4. QED
    BY <1>3, <2>2, <2>3 DEF buf
<1>6. CASE from > Len(buf)
  <2>1. KeptFrom(n) + 1 > n /\ from \in Int /\ Len(buf) \in Int /\ KeptFrom(n) + 1 \in Int /\ n \in Int
    BY <1>1, <1>2, <1>4, <1>6
  <2>2. SubSeq(buf, from, Len(buf)) = << >> /\ SubSeq(text, KeptFrom(n) + 1, n) = << >>
    BY <1>6, <2>1, SubSeqEmpty
  <2>3. QED
    BY <1>3, <2>2 DEF buf
<1>7. QED
  BY <1>1, <1>2, <1>5, <1>6 DEF from

\* What has been found so far, and what a chunk adds to it.
Found(text, n) == Cardinality(Within(text, 1, n))

LEMMA FoundWithChunk ==
  ASSUME NEW text \in Seq(Letters), Apart(text), NEW n \in 0..Len(text), NEW m \in n..Len(text)
  PROVE  LET buf == SubSeq(text, KeptFrom(n) + 1, n) \o SubSeq(text, n + 1, m)
         IN  /\ Found(text, m) = Found(text, n) + CountIn(buf)
             /\ Kept(buf) = SubSeq(text, KeptFrom(m) + 1, m)
<1> DEFINE low == KeptFrom(n)
           buf == SubSeq(text, low + 1, n) \o SubSeq(text, n + 1, m)
<1>1. /\ Len(text) \in Nat /\ n \in Nat /\ m \in Nat /\ Len(Needle) \in Nat /\ Len(Needle) >= 1
      /\ n <= m /\ m <= Len(text) /\ low \in 0..n /\ low <= KeptFrom(m) /\ KeptFrom(m) \in Nat
  BY NeedleIs DEF KeptFrom
<1>2. low = 0 \/ low + Len(Needle) - 1 = n
  BY <1>1 DEF KeptFrom
<1>3. n < Len(Needle) \/ low + Len(Needle) - 1 = n
  BY <1>1 DEF KeptFrom
<1> HIDE DEF low
<1>4. buf = SubSeq(text, low + 1, m)
  <2>1. low + 1 \in 1..Len(text) + 1 /\ n \in (low + 1) - 1..Len(text) /\ m \in n..Len(text)
    BY <1>1
  <2>2. QED
    BY <2>1, ConcatAdjacentSubSeq
<1> HIDE DEF buf
<1>5. CountIn(buf) = Cardinality(Within(text, low + 1, m))
  <2>1. low \in 0..Len(text) /\ m \in low..Len(text)
    BY <1>1
  <2>2. QED
    BY <1>4, <2>1, CountInPiece
<1>6. Kept(buf) = SubSeq(text, KeptFrom(m) + 1, m)
  <2>1. m \in 0..Len(text) /\ low \in 0..KeptFrom(m)
    BY <1>1
  <2>2. QED
    BY <1>4, <2>1, KeptIs
<1> DEFINE old == Within(text, 1, n)
           new == Within(text, low + 1, m)
<1>7. Within(text, 1, m) = old \cup new
  <2>1. old \subseteq Within(text, 1, m) /\ new \subseteq Within(text, 1, m)
    BY <1>1 DEF Within
  <2>2. ASSUME NEW i \in Within(text, 1, m), i \notin old PROVE i \in new
    BY <1>1, <1>2, <2>2 DEF Within
  <2>3. QED
    BY <2>1, <2>2
<1>8. old \cap new = {}
  <2> SUFFICES ASSUME NEW i \in old, i \in new PROVE FALSE
    OBVIOUS
  <2>1. i \in Nat /\ i >= 1 /\ i + Len(Needle) - 1 <= n /\ i >= low + 1
    BY <1>1 DEF Within
  <2>2. QED
    BY <1>1, <1>3, <2>1
<1>9. /\ IsFiniteSet(old) /\ Cardinality(old) \in Nat
      /\ IsFiniteSet(new) /\ Cardinality(new) \in Nat
  <2>1. 1 \in Int /\ n \in Int /\ low + 1 \in Int /\ m \in Int
    BY <1>1
  <2>2. QED
    BY <2>1, WithinIs
<1> HIDE DEF old, new
<1>10. Cardinality(old \cup new) = Cardinality(old) + Cardinality(new)
  <2>1. Cardinality(old \cup new) = Cardinality(old) + Cardinality(new) - Cardinality(old \cap new)
    BY <1>9, FS_Union
  <2>2. Cardinality(old \cap new) = 0
    BY <1>8, FS_EmptySet
  <2>3. QED
    BY <1>9, <2>1, <2>2
<1>11. Found(text, m) = Found(text, n) + CountIn(buf)
  BY <1>5, <1>7, <1>10 DEF Found, old, new
<1>12. QED
  BY <1>6, <1>11 DEF buf, low

\* Where each call stands.
RpcTypeOK ==
  /\ at \in [Calls -> {"new", "queued", "sent", "reading", "over"}]
  /\ promise \in [Calls -> {"pending", "rejected", "resolved"}]
  /\ reply \in [Calls -> Replies \cup {Unanswered}]
  /\ got \in [Calls -> Nat] /\ hits \in [Calls -> Nat] /\ DOMAIN tail = Calls

CallInv(c) ==
  /\ got[c] <= Len(reply[c].text)
  /\ at[c] \in {"new", "queued", "sent"} => got[c] = 0 /\ hits[c] = 0 /\ tail[c] = << >>
  /\ at[c] = "reading" => reply[c] \in Replies
  /\ at[c] # "over" => promise[c] = "pending"
  /\ promise[c] = "resolved" => got[c] = Len(reply[c].text) /\ reply[c].body = "result"
  /\ c \in Timed => /\ hits[c] = Found(reply[c].text, got[c])
                    /\ tail[c] = SubSeq(reply[c].text, KeptFrom(got[c]) + 1, got[c])

RpcInv == RpcTypeOK /\ \A c \in Calls : CallInv(c)

LEMMA TextsAre ==
  /\ \A r \in Replies \cup {Unanswered} : /\ r.text \in Seq(Letters) /\ Len(r.text) \in Nat
                                          /\ Apart(r.text)
  /\ \A r \in Replies : r.body = "result" <=> r.status = 200
<1>1. Unanswered.text = << >> /\ << >> \in Seq(Letters) /\ Apart(<< >>)
  BY DEF Unanswered, Apart
<1>2. \A r \in Replies : r.text \in Texts /\ (r.body = "result" <=> r.status = 200)
  BY DEF Replies
<1>3. \A t \in Texts : t \in Seq(Letters) /\ Apart(t)
  BY RpcAssumption, NeedleAssumption
<1>4. ASSUME NEW r \in Replies \cup {Unanswered}
      PROVE  r.text \in Seq(Letters) /\ Apart(r.text)
  <2>1. CASE r = Unanswered
    <3>1. r.text = << >>
      BY <1>1, <2>1, Zenon
    <3>2. QED
      BY <1>1, <3>1, Zenon
  <2>2. CASE r \in Replies
    BY <1>2, <1>3, <2>2, ZenonT(30)
  <2>3. QED
    BY <2>1, <2>2
<1>5. \A t \in Seq(Letters) : Len(t) \in Nat
  OBVIOUS
<1>6. QED
  BY <1>2, <1>4, <1>5

LEMMA NothingFound ==
  ASSUME NEW text \in Seq(Letters)
  PROVE  Found(text, 0) = 0 /\ SubSeq(text, KeptFrom(0) + 1, 0) = << >>
<1>1. Within(text, 1, 0) = {} /\ KeptFrom(0) + 1 = 1
  BY NeedleIs DEF Within, KeptFrom
<1>2. SubSeq(text, 1, 0) = << >>
  BY SubSeqEmpty
<1>3. Found(text, 0) = 0
  BY <1>1, FS_EmptySet DEF Found
<1>4. SubSeq(text, KeptFrom(0) + 1, 0) = << >>
  BY <1>1, <1>2, Zenon
<1>5. QED
  BY <1>3, <1>4

LEMMA RpcInitially == RpcInit => RpcInv
<1> SUFFICES ASSUME RpcInit PROVE RpcInv
  OBVIOUS
<1>1. RpcTypeOK
  BY DEF RpcInit, RpcTypeOK
<1>2. ASSUME NEW c \in Calls PROVE CallInv(c)
  <2>1. reply[c] = Unanswered /\ Unanswered.text = << >> /\ << >> \in Seq(Letters)
    BY DEF RpcInit, Unanswered
  <2>2. Found(<< >>, 0) = 0 /\ SubSeq(<< >>, KeptFrom(0) + 1, 0) = << >>
    BY <2>1, NothingFound
  <2>3. /\ got[c] = 0 /\ hits[c] = 0 /\ tail[c] = << >> /\ at[c] = "new"
        /\ promise[c] = "pending" /\ reply[c].text = << >> /\ Len(<< >>) = 0
    BY <2>1 DEF RpcInit
  <2>4. hits[c] = Found(reply[c].text, got[c])
    BY <2>2, <2>3, Zenon
  <2>5. tail[c] = SubSeq(reply[c].text, KeptFrom(got[c]) + 1, got[c])
    BY <2>2, <2>3, Zenon
  <2>6. got[c] <= Len(reply[c].text)
    <3>1. Len(reply[c].text) = 0
      BY <2>3, Zenon
    <3>2. QED
      BY <2>3, <3>1
  <2>7. at[c] \notin {"reading", "over"} /\ promise[c] # "resolved"
    BY <2>3
  <2>8. QED
    BY <2>3, <2>4, <2>5, <2>6, <2>7, Zenon DEF CallInv
<1>3. QED
  BY <1>1, <1>2 DEF RpcInv

\* A step of one call leaves the others alone.
LEMMA OneCall ==
  ASSUME RpcInv, RpcTypeOK', NEW c \in Calls, CallInv(c)',
         \A d \in Calls \ {c} :
           UNCHANGED <<at[d], promise[d], reply[d], got[d], hits[d], tail[d]>>
  PROVE  RpcInv'
<1>1. ASSUME NEW d \in Calls \ {c} PROVE CallInv(d)'
  BY DEF RpcInv, CallInv
<1>2. QED
  BY <1>1 DEF RpcInv

\* The call moves on, and nothing of the reply is read.
LEMMA MoveKeeps ==
  ASSUME RpcInv, NEW c \in Calls, NEW to \in {"queued", "sent"},
         at[c] \in {"new", "queued"}, at' = [at EXCEPT ![c] = to],
         UNCHANGED <<promise, reply, got, hits, tail>>
  PROVE  RpcInv'
<1>1. RpcTypeOK'
  BY DEF RpcInv, RpcTypeOK
<1>2. CallInv(c) /\ at'[c] = to
  BY DEF RpcInv, RpcTypeOK
<1>3. CallInv(c)'
  BY <1>2 DEF CallInv
<1>4. QED
  BY <1>1, <1>3, OneCall DEF RpcInv, RpcTypeOK

LEMMA ReplyBeginsKeeps ==
  ASSUME RpcInv, NEW c \in Calls, ReplyBegins(c)
  PROVE  RpcInv'
<1>1. PICK r \in Replies : reply' = [reply EXCEPT ![c] = r]
  BY DEF ReplyBegins
<1>2. at[c] = "sent" /\ at' = [at EXCEPT ![c] = "reading"] /\ UNCHANGED <<promise, got, hits, tail>>
  BY DEF ReplyBegins, Move
<1>3. RpcTypeOK'
  BY <1>1, <1>2 DEF RpcInv, RpcTypeOK
<1>4. CallInv(c) /\ reply'[c] = r /\ at'[c] = "reading"
  BY <1>1, <1>2 DEF RpcInv, RpcTypeOK
<1>5. r.text \in Seq(Letters) /\ Len(r.text) \in Nat
  BY TextsAre
<1>6. Found(r.text, 0) = 0 /\ SubSeq(r.text, KeptFrom(0) + 1, 0) = << >>
  BY <1>5, NothingFound
<1>7. /\ got'[c] = 0 /\ hits'[c] = 0 /\ tail'[c] = << >> /\ promise'[c] = "pending"
      /\ reply'[c].text = r.text
  BY <1>2, <1>4 DEF CallInv
<1>8. hits'[c] = Found(reply'[c].text, got'[c])
  BY <1>6, <1>7, Zenon
<1>9. tail'[c] = SubSeq(reply'[c].text, KeptFrom(got'[c]) + 1, got'[c])
  BY <1>6, <1>7, Zenon
<1>10. CallInv(c)'
  <2>1. got'[c] <= Len(reply'[c].text)
    <3>1. Len(reply'[c].text) = Len(r.text)
      BY <1>7, Zenon
    <3>2. QED
      BY <1>5, <1>7, <3>1
  <2>2. at'[c] \notin {"new", "queued", "sent"} /\ promise'[c] # "resolved"
    BY <1>4, <1>7
  <2>3. QED
    BY <1>4, <1>7, <1>8, <1>9, <2>1, <2>2, Zenon DEF CallInv
<1>11. QED
  BY <1>1, <1>2, <1>3, <1>10, OneCall DEF RpcInv, RpcTypeOK

LEMMA ChunkKeeps ==
  ASSUME RpcInv, NEW c \in Calls, NEW n \in Nat, Chunk(c, n)
  PROVE  RpcInv'
<1> DEFINE text == reply[c].text
           m == got[c] + n
<1>1. /\ at[c] = "reading" /\ n > 0 /\ m <= Len(text) /\ m \in Nat /\ got[c] \in Nat /\ got[c] <= m
      /\ got' = [got EXCEPT ![c] = m] /\ reply' = reply /\ CallInv(c)
      /\ text \in Seq(Letters) /\ Apart(text) /\ Len(text) \in Nat
  BY TextsAre DEF RpcInv, RpcTypeOK, Chunk
<1>2. promise[c] = "pending" /\ reply[c] \in Replies
  BY <1>1 DEF CallInv
<1>3. CASE c \in Timed
  <2> DEFINE buf == tail[c] \o SubSeq(text, got[c] + 1, m)
  <2>1. /\ hits' = [hits EXCEPT ![c] = @ + CountIn(buf)] /\ tail' = [tail EXCEPT ![c] = Kept(buf)]
        /\ UNCHANGED <<at, promise>>
    BY <1>3 DEF Chunk, Counted
  <2>2. /\ Found(text, m) = Found(text, got[c]) + CountIn(buf)
        /\ Kept(buf) = SubSeq(text, KeptFrom(m) + 1, m)
    <3>1. got[c] \in 0..Len(text) /\ m \in got[c]..Len(text)
      BY <1>1
    <3>2. tail[c] = SubSeq(text, KeptFrom(got[c]) + 1, got[c])
      BY <1>1, <1>3 DEF CallInv
    <3> HIDE DEF text, m
    <3>3. QED
      BY <1>1, <3>1, <3>2, FoundWithChunk
  <2> HIDE DEF buf
  <2>3. hits'[c] = Found(text, m) /\ Found(text, m) \in Nat /\ tail'[c] = Kept(buf)
    <3>1. hits[c] = Found(text, got[c]) /\ DOMAIN hits = Calls /\ DOMAIN tail = Calls
      BY <1>1, <1>3 DEF CallInv, RpcInv, RpcTypeOK
    <3>2. 1 \in Int /\ m \in Int
      BY <1>1
    <3>3. Found(text, m) \in Nat
      BY <3>2, WithinIs DEF Found
    <3> HIDE DEF text, m
    <3>4. QED
      BY <2>1, <2>2, <3>1, <3>3
  <2> HIDE DEF text, m
  <2>4. RpcTypeOK'
    <3>1. hits' = [hits EXCEPT ![c] = Found(text, m)]
      BY <2>1, <2>3 DEF RpcInv, RpcTypeOK
    <3>2. QED
      BY <1>1, <2>1, <2>3, <3>1 DEF RpcInv, RpcTypeOK
  <2>5. got'[c] = m
    BY <1>1 DEF RpcInv, RpcTypeOK
  <2>6. CallInv(c)'
    BY <1>1, <1>2, <2>1, <2>2, <2>3, <2>5 DEF CallInv, text
  <2>7. QED
    BY <1>1, <2>1, <2>4, <2>6, OneCall DEF RpcInv, RpcTypeOK
<1>4. CASE c \notin Timed
  <2>1. UNCHANGED <<hits, tail>> /\ \/ UNCHANGED <<at, promise>>
                                    \/ /\ promise' = [promise EXCEPT ![c] = "rejected"]
                                       /\ at' = [at EXCEPT ![c] = "over"]
    BY <1>2, <1>4 DEF Chunk, Settle, Move, RpcInv, RpcTypeOK
  <2> HIDE DEF text, m
  <2>2. RpcTypeOK' /\ got'[c] = m
    BY <1>1, <2>1 DEF RpcInv, RpcTypeOK
  <2>3. \/ at'[c] = at[c] /\ promise'[c] = promise[c]
        \/ at'[c] = "over" /\ promise'[c] = "rejected"
    <3>1. DOMAIN at = Calls /\ DOMAIN promise = Calls
      BY DEF RpcInv, RpcTypeOK
    <3>2. CASE UNCHANGED <<at, promise>>
      BY <3>2
    <3>3. CASE /\ promise' = [promise EXCEPT ![c] = "rejected"]
               /\ at' = [at EXCEPT ![c] = "over"]
      BY <3>1, <3>3
    <3>4. QED
      BY <2>1, <3>2, <3>3, Zenon
  <2>4. CallInv(c)'
    BY <1>1, <1>2, <1>4, <2>1, <2>2, <2>3 DEF CallInv, text
  <2>5. QED
    BY <1>1, <2>1, <2>2, <2>4, OneCall DEF RpcInv, RpcTypeOK
<1>5. QED
  BY <1>3, <1>4

\* The end of a call, with or without the whole reply.
LEMMA OverKeeps ==
  ASSUME RpcInv, NEW c \in Calls, NEW how \in {"resolved", "rejected"}, Settle(c, how),
         at[c] # "over", at' = [at EXCEPT ![c] = "over"], UNCHANGED <<reply, got, hits, tail>>,
         how = "resolved" => got[c] = Len(reply[c].text) /\ reply[c].body = "result"
  PROVE  RpcInv'
<1>1. CallInv(c) /\ promise[c] = "pending"
  BY DEF RpcInv, CallInv
<1>2. promise' = [promise EXCEPT ![c] = how]
  BY <1>1 DEF Settle
<1>3. RpcTypeOK' /\ promise'[c] = how /\ at'[c] = "over"
  BY <1>2 DEF RpcInv, RpcTypeOK
<1>4. CallInv(c)'
  BY <1>1, <1>3 DEF CallInv
<1>5. QED
  BY <1>2, <1>3, <1>4, OneCall DEF RpcInv, RpcTypeOK

LEMMA RpcStep == RpcInv /\ [RpcNext]_rpcVars => RpcInv'
<1> SUFFICES ASSUME RpcInv, [RpcNext]_rpcVars PROVE RpcInv'
  OBVIOUS
<1>1. CASE UNCHANGED rpcVars
  BY <1>1 DEF rpcVars, RpcInv, RpcTypeOK, CallInv
<1>2. ASSUME NEW c \in Calls, MakeCall(c) PROVE RpcInv'
  <2>1. PICK to \in {"queued", "sent"} : at[c] = "new" /\ at' = [at EXCEPT ![c] = to]
    BY <1>2 DEF MakeCall, Move
  <2>2. QED
    BY <1>2, <2>1, MoveKeeps DEF MakeCall
<1>3. ASSUME NEW c \in Calls, SocketFreed(c) PROVE RpcInv'
  BY <1>3, MoveKeeps DEF SocketFreed, Move
<1>4. ASSUME NEW c \in Calls, End(c) PROVE RpcInv'
  <2>1. /\ at[c] = "reading" /\ at' = [at EXCEPT ![c] = "over"] /\ got[c] = Len(reply[c].text)
        /\ UNCHANGED <<reply, got, hits, tail>>
    BY <1>4 DEF End, Move
  <2>2. ~Refusal(c) => reply[c].body = "result"
    <3>1. reply[c] \in Replies
      BY <2>1 DEF RpcInv, CallInv
    <3>2. reply[c].status = 200 => reply[c].body = "result"
      BY <3>1, TextsAre
    <3>3. QED
      BY <3>2 DEF Refusal
  <2>3. CASE Refusal(c)
    BY <1>4, <2>1, <2>3, OverKeeps DEF End
  <2>4. CASE ~Refusal(c)
    BY <1>4, <2>1, <2>2, <2>4, OverKeeps DEF End
  <2>5. QED
    BY <2>3, <2>4
<1>5. ASSUME NEW c \in Calls, ConnectionLost(c) PROVE RpcInv'
  BY <1>5, OverKeeps DEF ConnectionLost, Dropped, InUse
<1>6. ASSUME NEW c \in Calls, NEW n \in 1..Len(reply[c].text), Chunk(c, n) PROVE RpcInv'
  <2>1. Len(reply[c].text) \in Nat
    BY TextsAre DEF RpcInv, RpcTypeOK
  <2>2. QED
    BY <1>6, <2>1, ChunkKeeps
<1>7. QED
  BY <1>1, <1>2, <1>3, <1>4, <1>5, <1>6, ReplyBeginsKeeps DEF RpcNext, Connection

\* A call that resolves had the whole of a reply that is no error, and timeCall
\* has counted each needle in it once, for any needle that does not overlap
\* itself, any reply, and any way the network cuts it into chunks (rpc.js).
THEOREM CountsExactly == RpcSpec => []CountExact
<1>1. ASSUME RpcInv, NEW c \in Calls, promise[c] = "resolved"
      PROVE  /\ got[c] = Len(reply[c].text) /\ reply[c].body = "result"
             /\ c \in Timed => hits[c] = Occurrences(reply[c].text)
  <2> DEFINE text == reply[c].text
  <2>1. /\ got[c] = Len(text) /\ reply[c].body = "result"
        /\ c \in Timed => hits[c] = Found(text, Len(text))
    BY <1>1 DEF RpcInv, CallInv
  <2>2. Within(text, 1, Len(text)) = {i \in 1..Len(text) : MatchAt(text, i)}
    BY DEF Within, MatchAt
  <2>3. QED
    BY <2>1, <2>2 DEF Found, Occurrences
<1>2. RpcInv => CountExact
  BY <1>1 DEF CountExact
<1>3. QED
  BY <1>2, RpcInitially, RpcStep, PTL DEF RpcSpec
=============================================================================
