------------------------- MODULE PeerProfiler_proofs -------------------------
(***************************************************************************)
(* Proofs about PeerProfiler, for any number of addresses, ids, restarts   *)
(* and failures: the sessions of an address do not overlap, a session that *)
(* goes on is the connection it was opened for, pruning spares whom it     *)
(* must, and no traffic is counted twice.                                  *)
(***************************************************************************)
EXTENDS PeerProfiler, Induction_proofs, TLAPS

Maybe == Connections \cup {None}

\* What the argument needs of TypeOK.
Typed ==
  /\ now \in Time /\ run \in 0..MaxRuns /\ nextId \in Nat /\ up \in BOOLEAN
  /\ ~up => run < MaxRuns
  /\ conns \in [Addr -> Maybe]
  /\ poll \in [at : {"rest", "uptime", "totals"}, peers : [Addr -> Maybe],
               asked : Time, run : 0..MaxRuns]
  /\ rows \subseteq Sessions

(***************************************************************************)
(* The inductive invariant. Ids and times of connections grow: a           *)
(* connection is no older than one the poll was told of before, and newer  *)
(* than the snapshot that lacks it. An open row is no newer than what      *)
(* connection there is, and if that has its id, in one run of Core, it is  *)
(* the row's own; a closed one ended, or was found gone, before it. Of two *)
(* rows of an address one is over before the other begins.                 *)
(***************************************************************************)
CoreInv(a) ==
  /\ ~up => conns[a] = None
  /\ conns[a] # None =>
       /\ conns[a].id < nextId /\ conns[a].at <= now
       /\ poll.peers[a] = None => poll.asked <= conns[a].at
       /\ poll.peers[a] # None =>
            /\ poll.peers[a].at <= conns[a].at
            /\ poll.run = run /\ poll.peers[a].id = conns[a].id => poll.peers[a].at = conns[a].at
  /\ poll.peers[a] # None =>
       /\ poll.peers[a].at <= poll.asked
       /\ poll.run = run => poll.peers[a].id < nextId

\* A row and a connection c of its address, in a run of Core.
Fits(r, c, in) ==
  c # None =>
    /\ r.to = Open => /\ r.from <= c.at
                      /\ r.run = in /\ r.id = c.id => r.from = c.at
    /\ r.to # Open => r.to <= c.at \/ r.asked <= c.at

RowInv(r) ==
  /\ r.from <= now /\ r.run <= run /\ (r.run = run => r.id < nextId)
  /\ r.to # Open => r.asked <= now
  /\ Fits(r, conns[r.addr], run) /\ Fits(r, poll.peers[r.addr], poll.run)

Before(r, s) == r.to # Open /\ (r.to <= s.from \/ r.asked <= s.from)
Apart(S) == \A r, s \in S : r.addr = s.addr /\ r # s => Before(r, s) \/ Before(s, r)

ProfilerInv ==
  /\ Typed
  /\ poll.asked <= now /\ poll.run <= run
  /\ \A a \in Addr : CoreInv(a)
  /\ \A r \in rows : RowInv(r)
  /\ Apart(rows)
-----------------------------------------------------------------------------
LEMMA TimesAre == Time \subseteq Nat /\ Open \in Nat /\ \A t \in Time : t <= MaxTime /\ t < Open
BY TrafficAssumption DEF Time, Open

LEMMA ConnectionsAre ==
  \A c \in Maybe : c # None => c \in Connections /\ c.id \in Nat /\ c.at \in Time /\ c.at \in Nat
                               /\ c.kind \in Kinds \cup {"manual"}
<1>1. \A c \in Connections : c.id \in Nat /\ c.at \in Time /\ c.kind \in Kinds \cup {"manual"}
  BY ProfilerAssumption DEF Connections
<1>2. QED
  BY <1>1, TimesAre DEF Maybe

LEMMA SessionsAre ==
  \A r \in Sessions : /\ r.addr \in Addr /\ r.id \in Nat /\ r.from \in Time /\ r.from \in Nat
                      /\ r.to \in Nat /\ r.asked \in Nat /\ r.run \in Nat
<1>1. \A r \in Sessions : /\ r.addr \in Addr /\ r.id \in 0..MaxId /\ r.from \in Time
                          /\ r.to \in 0..Open /\ r.asked \in 0..Open /\ r.run \in 0..MaxRuns
  BY DEF Sessions
<1>2. \A n \in 0..Open : n \in Nat
  BY TimesAre
<1>3. \A n \in 0..MaxId : n \in Nat
  BY ProfilerAssumption
<1>4. \A n \in 0..MaxRuns : n \in Nat
  BY ProfilerAssumption
<1>5. QED
  BY <1>1, <1>2, <1>3, <1>4, TimesAre

LEMMA RestingIs ==
  /\ Resting.at = "rest" /\ Resting.asked = 0 /\ Resting.run = 0
  /\ \A a \in Addr : Resting.peers[a] = None
  /\ Resting \in [at : {"rest", "uptime", "totals"}, peers : [Addr -> Maybe],
                  asked : Time, run : 0..MaxRuns]
<1>1. 0 \in Time /\ 0 \in 0..MaxRuns
  BY TrafficAssumption, ProfilerAssumption DEF Time
<1>2. [a \in Addr |-> None] \in [Addr -> Maybe]
  BY DEF Maybe
<1>3. QED
  BY <1>1, <1>2 DEF Resting

LEMMA Numbers ==
  ASSUME Typed
  PROVE  /\ now \in Nat /\ run \in Nat /\ poll.asked \in Nat /\ poll.run \in Nat
         /\ \A a \in Addr : conns[a] \in Maybe /\ poll.peers[a] \in Maybe
<1>1. poll.peers \in [Addr -> Maybe] /\ poll.asked \in Time /\ poll.run \in 0..MaxRuns
  BY DEF Typed
<1>2. \A n \in 0..MaxRuns : n \in Nat
  BY ProfilerAssumption
<1>3. QED
  BY <1>1, <1>2, TimesAre DEF Typed

LEMMA ProfilerInitially == Init => ProfilerInv
<1> SUFFICES ASSUME Init PROVE ProfilerInv
  OBVIOUS
<1>1. now = 0 /\ run = 0 /\ nextId = 0 /\ rows = {} /\ poll = Resting /\ up = TRUE
      /\ conns = [a \in Addr |-> None]
  BY DEF Init, TrafficInit
<1>2. Typed
  BY <1>1, RestingIs, TrafficAssumption, ProfilerAssumption DEF Typed, Time, Maybe
<1>3. \A a \in Addr : CoreInv(a)
  BY <1>1, RestingIs DEF CoreInv
<1>4. QED
  BY <1>1, <1>2, <1>3, RestingIs DEF ProfilerInv, Apart
-----------------------------------------------------------------------------
\* A step that opens no connection and no row, and asks nothing.
SameSnapshot == poll'.peers = poll.peers /\ poll'.asked = poll.asked /\ poll'.run = poll.run

LEMMA Less ==
  ASSUME ProfilerInv, UNCHANGED <<run, nextId>>, now' \in Time, now <= now', rows' \subseteq rows,
         up' \in BOOLEAN, ~up' => run < MaxRuns, conns' \in [Addr -> Maybe],
         \A a \in Addr : conns'[a] = None \/ (conns'[a] = conns[a] /\ up' = up),
         poll' \in [at : {"rest", "uptime", "totals"}, peers : [Addr -> Maybe],
                    asked : Time, run : 0..MaxRuns],
         SameSnapshot \/ poll' = Resting
  PROVE  ProfilerInv'
<1>1. Typed /\ Typed'
  BY DEF ProfilerInv, Typed
<1>2. now' \in Nat /\ \A r \in rows : r \in Sessions
  BY <1>1, TimesAre DEF Typed
<1>3. poll'.asked <= now' /\ poll'.run <= run'
  BY <1>1, <1>2, Numbers, RestingIs DEF ProfilerInv, SameSnapshot
<1>4. ASSUME NEW a \in Addr PROVE CoreInv(a)'
  <2>1. CoreInv(a) /\ conns[a] \in Maybe /\ (conns[a] # None => conns[a].at \in Nat)
    BY <1>1, Numbers, ConnectionsAre DEF ProfilerInv
  <2>2. conns'[a] = None \/ (conns'[a] = conns[a] /\ up' = up)
    OBVIOUS
  <2>3. CASE SameSnapshot
    BY <1>1, <1>2, <2>1, <2>2, <2>3, Numbers DEF CoreInv, SameSnapshot
  <2>4. CASE poll' = Resting
    BY <1>1, <1>2, <2>1, <2>2, <2>4, Numbers, RestingIs DEF CoreInv
  <2>5. QED
    BY <2>3, <2>4
<1>5. ASSUME NEW r \in rows' PROVE RowInv(r)'
  <2>1. RowInv(r) /\ r \in Sessions /\ r.addr \in Addr /\ r.from \in Nat /\ r.asked \in Nat
    BY <1>2, SessionsAre DEF ProfilerInv
  <2>2. Fits(r, conns'[r.addr], run)
    BY <2>1 DEF RowInv, Fits
  <2>3. Fits(r, poll'.peers[r.addr], poll'.run)
    BY <2>1, RestingIs DEF RowInv, Fits, SameSnapshot
  <2>4. QED
    BY <1>1, <1>2, <2>1, <2>2, <2>3, Numbers DEF RowInv, Fits, Open
<1>6. Apart(rows')
  BY DEF ProfilerInv, Apart
<1>7. QED
  BY <1>1, <1>3, <1>4, <1>5, <1>6 DEF ProfilerInv, Apart, Before, Open

LEMMA ConnectKeeps ==
  ASSUME ProfilerInv, NEW a \in Addr, Connect(a)
  PROVE  ProfilerInv'
<1>1. Typed /\ up /\ conns[a] = None /\ UNCHANGED <<run, up, poll, rows, now>>
  BY DEF Connect, ProfilerInv, memory, database, trafficVars
<1>2. PICK id \in nextId..MaxId, kind \in Kinds \cup {"manual"} :
        /\ conns' = [conns EXCEPT ![a] = [id |-> id, at |-> now, kind |-> kind]]
        /\ nextId' = id + 1
  BY DEF Connect
<1> DEFINE new == [id |-> id, at |-> now, kind |-> kind]
<1>3. id \in Nat /\ nextId \in Nat /\ nextId <= id /\ id < nextId' /\ nextId' \in Nat /\ id \in 0..MaxId
  BY <1>1, <1>2, ProfilerAssumption DEF Typed
<1>4. new \in Connections /\ new.id = id /\ new.at = now
  BY <1>1, <1>3 DEF Connections, Typed
<1>5. conns'[a] = new /\ \A b \in Addr \ {a} : conns'[b] = conns[b]
  BY <1>1, <1>2 DEF Typed
<1>6. Typed'
  BY <1>1, <1>2, <1>3, <1>4 DEF Typed, Maybe
<1> HIDE DEF new
<1>7. ASSUME NEW b \in Addr PROVE CoreInv(b)'
  <2>1. CoreInv(b) /\ poll.peers[b] \in Maybe /\ conns[b] \in Maybe
    BY <1>1, Numbers DEF ProfilerInv
  <2>2. poll.peers[b] # None => poll.peers[b].at <= now /\ poll.peers[b].at \in Nat /\ poll.peers[b].id \in Nat
    BY <1>1, <2>1, Numbers, ConnectionsAre DEF ProfilerInv, CoreInv
  <2>3. conns[b] # None => conns[b].id \in Nat
    BY <2>1, ConnectionsAre
  <2>4. CASE b = a
    <3>1. conns'[b] = new
      BY <1>4, <1>5, <2>4
    <3>2. poll.asked <= now
      BY DEF ProfilerInv
    <3>3. poll.peers[b] # None /\ poll.run = run => poll.peers[b].id < nextId /\ poll.peers[b].id # id
      BY <1>3, <2>1, <2>2 DEF CoreInv
    <3>4. poll.peers[b] # None /\ poll.run = run => poll.peers[b].id < nextId'
      BY <1>3, <2>2, <3>3
    <3>5. QED
      BY <1>1, <1>3, <1>4, <2>1, <2>2, <3>1, <3>2, <3>3, <3>4, Numbers DEF CoreInv
  <2>5. CASE b # a
    BY <1>1, <1>3, <1>5, <2>1, <2>2, <2>3, <2>5 DEF CoreInv
  <2>6. QED
    BY <2>4, <2>5
<1>8. ASSUME NEW r \in rows' PROVE RowInv(r)'
  <2>1. /\ r \in rows /\ RowInv(r) /\ r.addr \in Addr /\ r.id \in Nat /\ r.from \in Nat
        /\ r.to \in Nat /\ r.asked \in Nat /\ r.run \in Nat
    BY <1>1, SessionsAre DEF ProfilerInv, Typed
  <2>2. CASE r.addr = a
    <3>1. Fits(r, new, run)
      BY <1>3, <1>4, <2>1 DEF RowInv, Fits
    <3>2. QED
      BY <1>1, <1>3, <1>5, <2>1, <2>2, <3>1 DEF RowInv, Fits, Open
  <2>3. CASE r.addr # a
    BY <1>1, <1>3, <1>5, <2>1, <2>3 DEF RowInv, Fits, Open
  <2>4. QED
    BY <2>2, <2>3
<1>9. QED
  BY <1>1, <1>6, <1>7, <1>8 DEF ProfilerInv, Apart, Before, Open

LEMMA CoreStartsKeeps ==
  ASSUME ProfilerInv, CoreStarts
  PROVE  ProfilerInv'
<1>1. /\ Typed /\ ~up /\ up' = TRUE /\ run' = run + 1 /\ nextId' = 0
      /\ UNCHANGED <<conns, poll, rows, now>>
  BY DEF CoreStarts, CounterRestarts, ProfilerInv, memory, database
<1>2. run \in Nat /\ poll.run \in Nat /\ run' \in 0..MaxRuns
  BY <1>1, Numbers, ProfilerAssumption DEF Typed
<1>3. Typed'
  BY <1>1, <1>2 DEF Typed
<1>4. ASSUME NEW a \in Addr PROVE CoreInv(a)'
  <2>1. CoreInv(a) /\ conns[a] = None /\ poll.run < run'
    BY <1>1, <1>2 DEF ProfilerInv, CoreInv
  <2>2. QED
    BY <1>1, <1>2, <2>1 DEF CoreInv
<1>5. ASSUME NEW r \in rows' PROVE RowInv(r)'
  <2>1. RowInv(r) /\ r.addr \in Addr /\ r.run \in Nat
    BY <1>1, SessionsAre DEF ProfilerInv, Typed
  <2>2. conns[r.addr] = None
    BY <1>1, <2>1 DEF ProfilerInv, CoreInv
  <2>3. QED
    BY <1>1, <1>2, <2>1, <2>2 DEF RowInv, Fits, Open
<1>6. QED
  BY <1>1, <1>2, <1>3, <1>4, <1>5 DEF ProfilerInv, Apart, Before, Open

LEMMA PollPeersKeeps == ProfilerInv /\ PollPeers => ProfilerInv'
<1> SUFFICES ASSUME ProfilerInv, PollPeers PROVE ProfilerInv'
  OBVIOUS
<1>1. /\ Typed /\ poll' = [at |-> "uptime", peers |-> conns, asked |-> now, run |-> run]
      /\ UNCHANGED <<run, up, nextId, conns, rows, now>>
  BY DEF PollPeers, ProfilerInv, core, database, trafficVars
<1>2. Typed'
  BY <1>1 DEF Typed
<1>3. ASSUME NEW a \in Addr PROVE CoreInv(a)'
  <2>1. CoreInv(a) /\ conns[a] \in Maybe /\ (conns[a] # None => conns[a].at \in Nat) /\ now \in Nat
    BY <1>1, Numbers, ConnectionsAre DEF ProfilerInv
  <2>2. QED
    BY <1>1, <2>1 DEF CoreInv
<1>4. ASSUME NEW r \in rows' PROVE RowInv(r)'
  BY <1>1 DEF ProfilerInv, RowInv, Fits, Open
<1>5. QED
  BY <1>1, <1>2, <1>3, <1>4, Numbers DEF ProfilerInv, Apart, Before, Open
-----------------------------------------------------------------------------
(***************************************************************************)
(* The end of a poll: each row is kept or closed, and some are begun.      *)
(***************************************************************************)
Stems(r, t) ==
  /\ <<t.addr, t.id, t.from, t.run>> = <<r.addr, r.id, r.from, r.run>>
  /\ \/ t.to = r.to /\ t.asked = r.asked
     \/ r.to = Open /\ t.to = EndOf(r) /\ t.asked = poll.asked

\* A session ends when the connection that took its place began.
LEMMA EndIs ==
  ASSUME ProfilerInv, NEW r \in rows, r.to = Open
  PROVE  /\ EndOf(r) \in 0..Open /\ EndOf(r) # Open /\ EndOf(r) <= now
         /\ poll.peers[r.addr] = None => EndOf(r) = now
         /\ poll.peers[r.addr] # None => EndOf(r) = poll.peers[r.addr].at
<1> DEFINE c == poll.peers[r.addr]
<1>1. Typed /\ RowInv(r) /\ r.addr \in Addr /\ CoreInv(r.addr)
  BY SessionsAre DEF ProfilerInv, Typed
<1>2. now \in Nat /\ now < Open /\ c \in Maybe /\ r.from \in Nat
  BY <1>1, Numbers, TimesAre, SessionsAre DEF Typed
<1>3. CASE c = None
  BY <1>2, <1>3, TimesAre DEF EndOf
<1>4. CASE c # None
  <2>1. c.at \in Nat /\ r.from <= c.at /\ c.at <= now
    BY <1>1, <1>2, <1>4, ConnectionsAre, Numbers DEF RowInv, Fits, CoreInv, ProfilerInv
  <2>2. EndOf(r) = c.at
    BY <1>2, <1>4, <2>1 DEF EndOf, Later, Sooner
  <2>3. QED
    BY <1>2, <1>4, <2>1, <2>2, TimesAre
<1>5. QED
  BY <1>3, <1>4

LEMMA StemsAre ==
  ASSUME ProfilerInv, NEW r \in rows
  PROVE  /\ Stems(r, r) /\ r \in Sessions
         /\ Stems(r, Close(r)) /\ Close(r) \in Sessions
         /\ Stems(r, Update(r)) /\ Update(r) \in Sessions
         /\ ~GoesOn(r) => Update(r).to # Open
<1>1. Typed /\ r \in Sessions /\ r.addr \in Addr
  BY SessionsAre DEF ProfilerInv, Typed
<1>2. poll.asked \in 0..Open
  <2>1. poll.asked \in Time
    BY <1>1 DEF Typed
  <2>2. QED
    BY <2>1, TrafficAssumption DEF Time, Open
<1>3. Stems(r, r)
  BY DEF Stems
<1>4. Stems(r, Close(r)) /\ Close(r) \in Sessions /\ (~GoesOn(r) => Close(r).to # Open)
  <2>1. CASE r.to = Open /\ ~GoesOn(r)
    <3>1. Close(r) = [r EXCEPT !.to = EndOf(r), !.asked = poll.asked]
      BY <2>1 DEF Close
    <3>2. QED
      BY <1>1, <1>2, <2>1, <3>1, EndIs, ZenonT(40) DEF Stems, Sessions
  <2>2. CASE ~(r.to = Open /\ ~GoesOn(r))
    BY <1>1, <1>3, <2>2 DEF Close
  <2>3. QED
    BY <2>1, <2>2
<1>5. Stems(r, Update(r)) /\ Update(r) \in Sessions /\ (~GoesOn(r) => Update(r).to # Open)
  <2>1. CASE GoesOn(r)
    <3>1. poll.peers[r.addr].kind \in Kinds \cup {"manual"}
      BY <1>1, <2>1, Numbers, ConnectionsAre DEF GoesOn
    <3>2. Update(r) = [r EXCEPT !.kind = poll.peers[r.addr].kind]
      BY <2>1 DEF Update
    <3>3. QED
      BY <1>1, <2>1, <3>1, <3>2 DEF Stems, Sessions
  <2>2. CASE ~GoesOn(r)
    BY <1>4, <2>2 DEF Update
  <2>3. QED
    BY <2>1, <2>2
<1>6. QED
  BY <1>1, <1>3, <1>4, <1>5

LEMMA BegunAre ==
  ASSUME ProfilerInv, NEW s \in Begun
  PROVE  /\ s \in Sessions /\ s.to = Open /\ s.run = poll.run
         /\ s.addr \in Addr /\ poll.peers[s.addr] # None
         /\ s.id = poll.peers[s.addr].id /\ s.from = poll.peers[s.addr].at
         /\ \A r \in rows : r.addr = s.addr => ~GoesOn(r)
         /\ \A t \in Begun : t.addr = s.addr => t = s
<1>1. PICK a \in Present :
        /\ \A r \in RowsOf(a) : ~GoesOn(r)
        /\ s = [addr |-> a, id |-> poll.peers[a].id, kind |-> poll.peers[a].kind,
                from |-> poll.peers[a].at, to |-> Open, run |-> poll.run, asked |-> Open]
  BY DEF Begun
<1>2. Typed /\ a \in Addr /\ poll.peers[a] # None
  BY DEF Present, ProfilerInv
<1>3. poll.peers[a] \in Connections /\ poll.run \in 0..MaxRuns
  BY <1>2 DEF Typed, Maybe
<1>4. Open \in 0..Open
  BY TimesAre
<1>5. s \in Sessions
  BY <1>1, <1>2, <1>3, <1>4 DEF Sessions, Connections
<1>6. \A t \in Begun : t.addr = s.addr => t = s
  BY <1>1 DEF Begun
<1>7. QED
  BY <1>1, <1>2, <1>5, <1>6 DEF RowsOf

\* What a row is after the poll it still fits the connection there is.
LEMMA StemKeeps ==
  ASSUME ProfilerInv, NEW r \in rows, NEW t \in Sessions, Stems(r, t), poll' = Resting,
         UNCHANGED <<run, nextId, conns, now>>
  PROVE  RowInv(t)'
<1>1. Typed /\ RowInv(r) /\ r.addr \in Addr /\ CoreInv(r.addr) /\ r \in Sessions
  BY SessionsAre DEF ProfilerInv, Typed
<1>2. t.addr = r.addr /\ t.id = r.id /\ t.from = r.from /\ t.run = r.run
  BY DEF Stems
<1>3. CASE t.to = r.to /\ t.asked = r.asked
  BY <1>1, <1>2, <1>3, RestingIs DEF RowInv, Fits, Open
<1>4. CASE r.to = Open /\ t.to = EndOf(r) /\ t.asked = poll.asked
  <2>1. t.to # Open /\ t.asked <= now
    BY <1>4, EndIs DEF ProfilerInv
  <2>2. ASSUME conns[r.addr] # None
        PROVE  t.to <= conns[r.addr].at \/ t.asked <= conns[r.addr].at
    BY <1>1, <1>4, <2>2, EndIs DEF CoreInv
  <2>3. QED
    BY <1>1, <1>2, <2>1, <2>2, RestingIs DEF RowInv, Fits, Open
<1>5. QED
  BY <1>3, <1>4 DEF Stems

LEMMA PollTotalsKeeps == ProfilerInv /\ PollTotals => ProfilerInv'
<1> SUFFICES ASSUME ProfilerInv, PollTotals PROVE ProfilerInv'
  OBVIOUS
<1>1. /\ Typed /\ poll' = Resting /\ UNCHANGED <<run, up, nextId, conns, now>>
  BY DEF PollTotals, Record, ProfilerInv, core, trafficVars
<1>2. PICK f \in [rows -> Sessions] :
        /\ \A r \in rows : Stems(r, f[r])
        /\ \/ \A t \in rows' : \E r \in rows : t = f[r]
           \/ /\ \A t \in rows' : t \in Begun \/ \E r \in rows : t = f[r]
              /\ \A r \in rows : f[r] = Update(r)
  <2>1. CASE BothTxs
    <3>1. [r \in rows |-> Update(r)] \in [rows -> Sessions]
      BY StemsAre
    <3>2. QED
      BY <2>1, <3>1, StemsAre DEF BothTxs
  <2>2. CASE FirstTxOnly
    <3>1. [r \in rows |-> Close(r)] \in [rows -> Sessions]
      BY StemsAre
    <3>2. QED
      BY <2>2, <3>1, StemsAre DEF FirstTxOnly
  <2>3. CASE NeitherTx
    <3>1. [r \in rows |-> r] \in [rows -> Sessions]
      BY StemsAre
    <3>2. QED
      BY <2>3, <3>1, StemsAre DEF NeitherTx
  <2>4. QED
    BY <2>1, <2>2, <2>3 DEF PollTotals
<1>3. rows' \subseteq Sessions
  BY <1>2, BegunAre
<1>4. Typed'
  BY <1>1, <1>3, RestingIs DEF Typed
<1>5. ASSUME NEW a \in Addr PROVE CoreInv(a)'
  <2>1. CoreInv(a) /\ conns[a] \in Maybe /\ (conns[a] # None => conns[a].at \in Nat)
    BY <1>1, Numbers, ConnectionsAre DEF ProfilerInv
  <2>2. QED
    BY <1>1, <2>1, RestingIs DEF CoreInv
<1>6. ASSUME NEW t \in rows' PROVE RowInv(t)'
  <2>1. CASE t \in Begun
    <3>1. CoreInv(t.addr) /\ t.addr \in Addr /\ poll.asked <= now /\ poll.run <= run
      BY <2>1, BegunAre DEF ProfilerInv
    <3>2. t.from \in Nat /\ t.from <= poll.asked /\ poll.asked \in Nat /\ now \in Nat
      BY <1>1, <1>3, <2>1, <3>1, SessionsAre, BegunAre, Numbers DEF CoreInv
    <3>3. t.from <= now
      BY <3>1, <3>2
    <3>4. QED
      BY <1>1, <2>1, <3>1, <3>3, BegunAre, RestingIs DEF RowInv, Fits, CoreInv, Open
  <2>2. ASSUME NEW r \in rows, t = f[r] PROVE RowInv(t)'
    BY <1>1, <1>2, <2>2, StemKeeps
  <2>3. QED
    BY <1>2, <2>1, <2>2
<1>7. ASSUME NEW r \in rows, NEW s \in rows, f[r] # f[s], f[r].addr = f[s].addr
      PROVE  Before(f[r], f[s]) \/ Before(f[s], f[r])
  <2>1. r # s /\ r.addr = s.addr /\ (Before(r, s) \/ Before(s, r))
    BY <1>2, <1>7 DEF Stems, ProfilerInv, Apart
  <2>2. QED
    BY <1>2, <2>1 DEF Stems, Before
<1>8. ASSUME NEW r \in rows, NEW s \in Begun, f[r] = Update(r), f[r].addr = s.addr
      PROVE  Before(f[r], s)
  <2> DEFINE c == poll.peers[r.addr]
  <2>1. f[r] = Update(r) /\ r.addr = s.addr /\ Stems(r, f[r])
    BY <1>2, <1>8 DEF Stems
  <2>2. ~GoesOn(r) /\ s.from = c.at /\ c # None /\ f[r].to # Open
    BY <2>1, BegunAre, StemsAre
  <2>3. CASE r.to = Open
    <3>1. f[r].to = c.at
      BY <2>1, <2>2, <2>3, EndIs DEF Stems
    <3>2. c.at \in Nat
      BY <1>1, <2>2, Numbers, ConnectionsAre, SessionsAre DEF Typed
    <3>3. QED
      BY <2>2, <3>1, <3>2 DEF Before
  <2>4. CASE r.to # Open
    <3>1. f[r].to = r.to /\ f[r].asked = r.asked /\ Fits(r, c, poll.run)
      BY <2>1, <2>4 DEF Stems, ProfilerInv, RowInv
    <3>2. QED
      BY <2>2, <2>4, <3>1 DEF Before, Fits
  <2>5. QED
    BY <2>3, <2>4
<1>9. Apart(rows')
  <2> SUFFICES ASSUME NEW t \in rows', NEW u \in rows', t.addr = u.addr, t # u
               PROVE  Before(t, u) \/ Before(u, t)
    BY DEF Apart
  <2>1. ASSUME NEW r \in rows, NEW s \in rows, t = f[r], u = f[s]
        PROVE  Before(t, u) \/ Before(u, t)
    BY <1>7, <2>1
  <2>2. CASE \A v \in rows' : \E r \in rows : v = f[r]
    BY <2>1, <2>2
  <2>3. CASE /\ \A v \in rows' : v \in Begun \/ \E r \in rows : v = f[r]
             /\ \A r \in rows : f[r] = Update(r)
    <3>1. CASE t \in Begun /\ u \in Begun
      BY <3>1, BegunAre
    <3>2. ASSUME NEW r \in rows, t = f[r], u \in Begun PROVE Before(t, u)
      BY <1>8, <2>3, <3>2
    <3>3. ASSUME NEW r \in rows, u = f[r], t \in Begun PROVE Before(u, t)
      BY <1>8, <2>3, <3>3
    <3>4. QED
      BY <2>1, <2>3, <3>1, <3>2, <3>3
  <2>4. QED
    BY <1>2, <2>2, <2>3
<1>10. Apart(rows)' /\ poll'.asked <= now' /\ poll'.run <= run'
  BY <1>1, <1>9, RestingIs, Numbers DEF Apart, Before, Open
<1>11. QED
  BY <1>4, <1>5, <1>6, <1>10 DEF ProfilerInv
-----------------------------------------------------------------------------
LEMMA ProfilerStep == ProfilerInv /\ [Next]_vars => ProfilerInv'
<1> SUFFICES ASSUME ProfilerInv, [Next]_vars PROVE ProfilerInv'
  OBVIOUS
<1> USE DEF profilerVars, core, memory, database, relay, lists, trafficVars, counters, books
<1>1. Typed /\ now \in Nat
  BY Numbers DEF ProfilerInv
<1>2. ASSUME UNCHANGED <<run, nextId, up, conns, poll>>, now' \in Time, now <= now', rows' \subseteq rows
      PROVE  ProfilerInv'
  BY <1>1, <1>2, Less DEF Typed, SameSnapshot
<1>3. ASSUME UNCHANGED <<run, nextId, up, conns, poll, now>>, rows' \subseteq rows
      PROVE  ProfilerInv'
  BY <1>1, <1>2, <1>3 DEF Typed
<1>4. CASE Tick
  BY <1>1, <1>2, <1>4, TrafficAssumption DEF Tick, Time
<1>5. ASSUME NEW a \in Addr, Drop(a) PROVE ProfilerInv'
  BY <1>1, <1>5, Less DEF Drop, Typed, SameSnapshot, Maybe
<1>6. CASE CoreStops
  <2>1. run < MaxRuns /\ up' = FALSE /\ conns' = [a \in Addr |-> None]
    BY <1>1, <1>6, ProfilerAssumption, Numbers DEF CoreStops, Typed
  <2>2. UNCHANGED <<run, nextId, poll, rows, now>>
    BY <1>6 DEF CoreStops
  <2>3. conns' \in [Addr -> Maybe] /\ \A a \in Addr : conns'[a] = None
    BY <2>1 DEF Maybe
  <2>4. now' \in Time /\ now <= now' /\ rows' \subseteq rows
    BY <1>1, <2>2 DEF Typed
  <2>5. SameSnapshot /\ poll' \in [at : {"rest", "uptime", "totals"}, peers : [Addr -> Maybe],
                                  asked : Time, run : 0..MaxRuns]
    BY <1>1, <2>2 DEF Typed, SameSnapshot
  <2>6. QED
    BY <2>1, <2>2, <2>3, <2>4, <2>5, Less
<1>7. CASE Bytes \/ FlushTraffic \/ PollFails \/ TimerPass
  BY <1>3, <1>7 DEF Bytes, BytesMove, FlushTraffic, Flush, PollFails, TimerPass
<1>8. ASSUME NEW s \in Passes, PassStep(s) \/ PassFails(s) PROVE ProfilerInv'
  BY <1>3, <1>8 DEF PassStep, PassFails, PassList, PassAdd
<1>9. CASE PollUptime
  <2>1. poll' = [poll EXCEPT !.at = "totals"] /\ UNCHANGED <<run, nextId, up, conns, rows, now>>
    BY <1>9 DEF PollUptime
  <2>2. QED
    BY <1>1, <2>1, Less DEF Typed, SameSnapshot
<1>10. ASSUME NEW flushed \in BOOLEAN, Restart(flushed) PROVE ProfilerInv'
  <2>1. poll' = Resting /\ UNCHANGED <<run, nextId, up, conns, rows, now>>
    BY <1>10 DEF Restart, FlushAndForget, Forget
  <2>2. QED
    BY <1>1, <2>1, RestingIs, Less DEF Typed
<1>11. ASSUME Others PROVE ProfilerInv'
  BY <1>3, <1>11 DEF Others, Race, PruneOldData, PruneNeverFirst, Erase, ResetPeerData
<1>12. CASE UNCHANGED vars
  BY <1>3, <1>12 DEF vars
<1>13. QED
  BY <1>4, <1>5, <1>6, <1>7, <1>8, <1>9, <1>10, <1>11, <1>12,
     ConnectKeeps, CoreStartsKeeps, PollPeersKeeps, PollTotalsKeeps
  DEF Next, Core, Profiler

LEMMA AlwaysProfilerInv == Spec => []ProfilerInv
BY ProfilerInitially, ProfilerStep, PTL DEF Spec

\* The sessions of an address do not overlap (peer-profiler.js, upsertSessions).
THEOREM NoOverlap == Spec => []SessionsApart
<1>1. ProfilerInv => SessionsApart
  BY DEF ProfilerInv, Apart, Before, SessionsApart
<1>2. QED
  BY <1>1, AlwaysProfilerInv, PTL

\* A row that stays open is that of the connection Core has, if Core has not
\* restarted since (peer-profiler.js, isSameSession).
THEOREM SameConnection == Spec => OneConnection
<1>1. ASSUME ProfilerInv, PollTotals, BothTxs, NEW r \in OpenRows, NEW s \in rows',
             SameRow(r, s), s.to = Open, poll.run = r.run
      PROVE  poll.peers[r.addr].at = r.from
  <2>1. s.addr = r.addr /\ s.id = r.id /\ s.from = r.from /\ s.run = r.run
    BY <1>1 DEF SameRow
  <2>2. CASE s \in Begun
    BY <1>1, <2>1, <2>2, BegunAre
  <2>3. ASSUME NEW q \in rows, s = Update(q) PROVE poll.peers[r.addr].at = r.from
    <3>1. GoesOn(q) /\ Stems(q, s)
      BY <1>1, <2>3, StemsAre
    <3>2. q.addr = r.addr /\ q.from = r.from /\ q.run = r.run /\ q.to = Open
          /\ poll.peers[q.addr] # None /\ q.id = poll.peers[q.addr].id
      BY <2>1, <3>1 DEF Stems, GoesOn, SameSession
    <3>3. Fits(q, poll.peers[q.addr], poll.run)
      BY <1>1 DEF ProfilerInv, RowInv
    <3>4. QED
      BY <1>1, <3>2, <3>3 DEF Fits
  <2>4. QED
    BY <1>1, <2>2, <2>3 DEF BothTxs
<1>2. ProfilerInv /\ [Next]_vars =>
        [PollTotals /\ BothTxs =>
           \A r \in OpenRows : (\E s \in rows' : SameRow(r, s) /\ s.to = Open)
             => poll.peers[r.addr].at = r.from \/ poll.run # r.run]_vars
  BY <1>1
<1>3. QED
  BY <1>2, AlwaysProfilerInv, PTL DEF Spec, OneConnection
-----------------------------------------------------------------------------
\* A peer that was never around for a block has no last one (lib/db.js, the
\* triggers of relay_observation).
AroundInv ==
  /\ stats \in [Addr -> {"none", "around", "first"}]
  /\ DOMAIN raceAt = Addr
  /\ \A a \in Addr : stats[a] = "none" => raceAt[a] = Never

LEMMA AlwaysAround == Spec => []AroundInv
<1>1. Init => AroundInv
  BY DEF Init, AroundInv
<1>2. AroundInv /\ [Next]_vars => AroundInv'
  <2> SUFFICES ASSUME AroundInv, [Next]_vars PROVE AroundInv'
    OBVIOUS
  <2> USE DEF profilerVars, core, memory, database, relay, lists, trafficVars
  <2>1. ASSUME UNCHANGED relay PROVE AroundInv'
    BY <2>1 DEF AroundInv
  <2>2. CASE Core \/ Profiler \/ UNCHANGED vars
    <3>1. UNCHANGED relay
      BY <2>2 DEF Core, Tick, Connect, Drop, CoreStops, CoreStarts, Bytes, Profiler, PollPeers,
                  PollFails, PollUptime, PollTotals, FlushTraffic, TimerPass, PassStep, PassList,
                  PassAdd, PassFails, Restart, vars
    <3>2. QED
      BY <2>1, <3>1
  <2>3. ASSUME NEW winner, Race(winner) PROVE AroundInv'
    BY <2>3 DEF Race, AroundInv
  <2>4. CASE PruneOldData
    BY <2>1, <2>4 DEF PruneOldData
  <2>5. CASE PruneNeverFirst
    BY <2>5 DEF PruneNeverFirst, Erase, AroundInv
  <2>6. CASE ResetPeerData
    BY <2>6 DEF ResetPeerData, AroundInv
  <2>7. QED
    BY <2>2, <2>3, <2>4, <2>5, <2>6 DEF Next, Others
<1>3. QED
  BY <1>1, <1>2, PTL DEF Spec

\* Pruning takes nobody who may still matter (lib/queries/maintenance.js,
\* pruneOldData and pruneNeverFirstPeers).
THEOREM NobodyWhoMatters == Spec => Spared
<1>1. ASSUME ProfilerInv, AroundInv, NEW r \in Lost
      PROVE  r \in rows /\ r \notin rows' /\ r \in Sessions /\ r.addr \in Addr /\ r.to \in Nat /\ now \in Nat
  BY <1>1, SessionsAre, Numbers DEF Lost, SameRow, ProfilerInv, Typed
<1>2. ASSUME ProfilerInv, AroundInv, PruneOldData, NEW r \in Lost
      PROVE  /\ r.to # Open /\ r.addr \notin saved /\ stats[r.addr] # "first"
             /\ raceAt[r.addr] = Never
  <2>1. Feeler(r.addr) /\ r.to < now - FeelerTime
    BY <1>1, <1>2 DEF PruneOldData
  <2>2. now \in Time /\ FeelerTime \in Nat
    BY <1>2, ProfilerAssumption DEF ProfilerInv, Typed
  <2>3. r.to # Open
    BY <1>1, <1>2, <2>1, <2>2, TimesAre
  <2>4. QED
    BY <1>1, <1>2, <2>1, <2>3 DEF Feeler, AroundInv
<1>3. ASSUME ProfilerInv, AroundInv, PruneNeverFirst, NEW r \in Lost
      PROVE  /\ r.to # Open /\ r.addr \notin saved /\ stats[r.addr] # "first"
             /\ raceAt[r.addr] < now - NeverFirstTime
  <2>1. Prunable(r.addr)
    BY <1>1, <1>3 DEF PruneNeverFirst, Erase
  <2>2. r.to < now - NeverFirstTime
    BY <1>1, <1>3, <2>1 DEF Prunable, RowsOf
  <2>3. now \in Time /\ NeverFirstTime \in Nat
    BY <1>3, ProfilerAssumption DEF ProfilerInv, Typed
  <2>4. r.to # Open
    BY <1>1, <1>3, <2>2, <2>3, TimesAre
  <2>5. QED
    BY <2>1, <2>4 DEF Prunable
<1>4. ASSUME ProfilerInv, AroundInv, ResetPeerData, NEW r \in Lost
      PROVE  r.kind = "manual" => r.addr \notin saved
  BY <1>1, <1>4 DEF ResetPeerData
<1>5. ProfilerInv /\ AroundInv /\ [Next]_vars =>
        [/\ PruneOldData \/ PruneNeverFirst =>
              \A r \in Lost :
                /\ r.to # Open /\ r.addr \notin saved /\ stats[r.addr] # "first"
                /\ raceAt[r.addr] = Never \/ raceAt[r.addr] < now - NeverFirstTime
         /\ ResetPeerData => \A r \in Lost : r.kind = "manual" => r.addr \notin saved]_vars
  BY <1>2, <1>3, <1>4
<1>6. QED
  BY <1>5, AlwaysProfilerInv, AlwaysAround, PTL DEF Spec, Spared
-----------------------------------------------------------------------------
(* The traffic: what the days add up to, by induction over the days.       *)

LEMMA DaysAre == LastDay \in Nat /\ Day = 0..LastDay /\ LastDay \in Day
<1>1. LastDay \in Nat
  BY TrafficAssumption DEF LastDay
<1>2. QED
  BY <1>1 DEF Day

\* f[d] is what the days of the book up to d add up to.
RunsUp(f, book) ==
  f = [d \in Day |-> book[d] + (IF d = 0 THEN 0 ELSE f[d - 1])]

LEMMA RunningTotal ==
  ASSUME NEW book \in [Day -> Nat]
  PROVE  \E f \in [Day -> Nat] : RunsUp(f, book) /\ AllDays(book) = f[LastDay]
<1> DEFINE Rule(f, n) == \A d \in 0..n : f[d] = (IF d \in Day THEN book[d] ELSE 0)
                                                + (IF d = 0 THEN 0 ELSE f[d - 1])
           T == {n \in Nat : \E f \in [0..n -> Nat] : Rule(f, n)}
<1>1. 0 \in T
  <2> DEFINE f == [d \in 0..0 |-> book[0]]
  <2>1. book[0] \in Nat /\ 0 \in Day
    BY DaysAre
  <2>2. f \in [0..0 -> Nat] /\ Rule(f, 0)
    BY <2>1
  <2>3. QED
    BY <2>2
<1>2. ASSUME NEW n \in Nat, n \in T PROVE n + 1 \in T
  <2>1. PICK f \in [0..n -> Nat] : Rule(f, n)
    BY <1>2
  <2> DEFINE more == IF n + 1 \in Day THEN book[n + 1] ELSE 0
             g == [d \in 0..(n + 1) |-> IF d = n + 1 THEN more + f[n] ELSE f[d]]
  <2>2. more \in Nat /\ f[n] \in Nat
    BY <2>1
  <2>3. g \in [0..(n + 1) -> Nat]
    <3> HIDE DEF more
    <3> QED BY <2>1, <2>2
  <2>4. ASSUME NEW d \in 0..(n + 1)
        PROVE  g[d] = (IF d \in Day THEN book[d] ELSE 0) + (IF d = 0 THEN 0 ELSE g[d - 1])
    <3>1. CASE d = n + 1
      <4>1. g[d] = more + f[n] /\ g[d - 1] = f[n] /\ d # 0
        BY <3>1
      <4>2. QED
        BY <3>1, <4>1
    <3>2. CASE d # n + 1
      <4>1. d \in 0..n /\ g[d] = f[d] /\ (d # 0 => g[d - 1] = f[d - 1])
        BY <3>2
      <4>2. QED
        BY <2>1, <4>1
    <3>3. QED
      BY <3>1, <3>2
  <2>5. Rule(g, n + 1)
    <3> HIDE DEF g
    <3> QED BY <2>4
  <2> HIDE DEF g, Rule
  <2>6. QED
    BY <2>3, <2>5
<1>3. Nat \subseteq T
  <2> HIDE DEF T
  <2> QED BY <1>1, <1>2, NatBySteps
<1>4. PICK f \in [Day -> Nat] : Rule(f, LastDay)
  <2>1. LastDay \in T
    BY <1>3, DaysAre
  <2>2. QED
    BY <2>1, DaysAre
<1>5. RunsUp(f, book)
  <2>1. \A d \in Day : f[d] = book[d] + (IF d = 0 THEN 0 ELSE f[d - 1])
    BY <1>4, DaysAre
  <2>2. QED
    BY <2>1 DEF RunsUp
<1> DEFINE h == CHOOSE g : RunsUp(g, book)
<1>6. RunsUp(h, book) /\ AllDays(book) = h[LastDay]
  BY <1>5 DEF AllDays, RunsUp
<1>7. h \in [Day -> Nat]
  <2> HIDE DEF h
  <2> DEFINE S == {n \in Nat : n \in Day => h[n] \in Nat}
  <2>1. \A d \in Day : h[d] = book[d] + (IF d = 0 THEN 0 ELSE h[d - 1])
    BY <1>6 DEF RunsUp
  <2>2. 0 \in S
    BY <2>1, DaysAre
  <2>3. ASSUME NEW n \in Nat, n \in S PROVE n + 1 \in S
    <3> SUFFICES ASSUME n + 1 \in Day PROVE h[n + 1] \in Nat
      OBVIOUS
    <3>1. n \in Day
      BY DaysAre
    <3>2. h[n + 1] = book[n + 1] + h[n]
      BY <2>1
    <3>3. QED
      BY <2>3, <3>1, <3>2
  <2>4. Nat \subseteq S
    <3> HIDE DEF S
    <3> QED BY <2>2, <2>3, NatBySteps
  <2>5. \A d \in Day : h[d] \in Nat
    BY <2>4, DaysAre
  <2>6. h = [d \in Day |-> h[d]]
    BY <1>6 DEF RunsUp
  <2>7. QED
    BY <2>5, <2>6
<1>8. QED
  BY <1>6, <1>7

\* Two books written into one add up to what both add up to.
LEMMA AddsUp ==
  ASSUME NEW a \in [Day -> Nat], NEW b \in [Day -> Nat]
  PROVE  AllDays([d \in Day |-> a[d] + b[d]]) = AllDays(a) + AllDays(b)
<1> DEFINE c == [d \in Day |-> a[d] + b[d]]
<1>1. c \in [Day -> Nat]
  OBVIOUS
<1>2. PICK f \in [Day -> Nat] : RunsUp(f, a) /\ AllDays(a) = f[LastDay]
  BY RunningTotal
<1>3. PICK g \in [Day -> Nat] : RunsUp(g, b) /\ AllDays(b) = g[LastDay]
  BY RunningTotal
<1>4. PICK h \in [Day -> Nat] : RunsUp(h, c) /\ AllDays(c) = h[LastDay]
  <2> HIDE DEF c
  <2> QED BY <1>1, RunningTotal
<1>5. \A d \in Day : /\ f[d] = a[d] + (IF d = 0 THEN 0 ELSE f[d - 1])
                     /\ g[d] = b[d] + (IF d = 0 THEN 0 ELSE g[d - 1])
                     /\ h[d] = a[d] + b[d] + (IF d = 0 THEN 0 ELSE h[d - 1])
  BY <1>2, <1>3, <1>4 DEF RunsUp
<1> DEFINE S == {n \in Nat : n \in Day => h[n] = f[n] + g[n]}
<1>6. 0 \in S
  BY <1>5, DaysAre
<1>7. ASSUME NEW n \in Nat, n \in S PROVE n + 1 \in S
  <2> SUFFICES ASSUME n + 1 \in Day PROVE h[n + 1] = f[n + 1] + g[n + 1]
    OBVIOUS
  <2>1. n \in Day
    BY DaysAre
  <2>2. /\ f[n + 1] = a[n + 1] + f[n] /\ g[n + 1] = b[n + 1] + g[n]
        /\ h[n + 1] = a[n + 1] + b[n + 1] + h[n]
    <3>1. n + 1 # 0 /\ (n + 1) - 1 = n
      OBVIOUS
    <3>2. QED
      BY <1>5, <3>1
  <2>3. h[n] = f[n] + g[n]
    BY <1>7, <2>1, Zenon
  <2>4. {f[n], g[n], a[n + 1], b[n + 1]} \subseteq Nat
    BY <2>1
  <2>5. QED
    BY <2>2, <2>3, <2>4
<1>8. Nat \subseteq S
  <2> HIDE DEF S
  <2> QED BY <1>6, <1>7, NatBySteps
<1>9. h[LastDay] = f[LastDay] + g[LastDay]
  BY <1>8, DaysAre
<1>10. QED
  BY <1>2, <1>3, <1>4, <1>9

LEMMA NothingAddsUp == NoBytes \in [Day -> Nat] /\ AllDays(NoBytes) = 0
<1>1. NoBytes \in [Day -> Nat] /\ \A d \in Day : NoBytes[d] = 0
  BY DEF NoBytes
<1>2. [d \in Day |-> NoBytes[d] + NoBytes[d]] = NoBytes
  BY <1>1 DEF NoBytes
<1>3. AllDays(NoBytes) = AllDays(NoBytes) + AllDays(NoBytes)
  BY <1>1, <1>2, AddsUp
<1>4. AllDays(NoBytes) \in Nat
  BY <1>1, RunningTotal, DaysAre
<1>5. \A x \in Nat : x = x + x => x = 0
  OBVIOUS
<1>6. QED
  BY <1>1, <1>3, <1>4, <1>5

\* A reading goes to the book of today, if there is such a day.
LEMMA OneMore ==
  ASSUME NEW a \in [Day -> Nat], NEW today, NEW n \in Nat
  PROVE  /\ [a EXCEPT ![today] = @ + n] \in [Day -> Nat]
         /\ AllDays([a EXCEPT ![today] = @ + n]) <= AllDays(a) + n
<1> DEFINE b == [d \in Day |-> IF d = today THEN n ELSE 0]
           c == [a EXCEPT ![today] = @ + n]
<1>1. b \in [Day -> Nat]
  OBVIOUS
<1>2. c = [d \in Day |-> a[d] + b[d]]
  <2>1. ASSUME NEW d \in Day PROVE c[d] = a[d] + b[d]
    <3>1. CASE d = today
      BY <3>1
    <3>2. CASE d # today
      BY <3>2
    <3>3. QED
      BY <3>1, <3>2
  <2>2. c = [d \in Day |-> c[d]]
    OBVIOUS
  <2> HIDE DEF b, c
  <2>3. QED
    BY <2>1, <2>2
<1>3. c \in [Day -> Nat]
  <2> HIDE DEF b, c
  <2>1. \A d \in Day : a[d] + b[d] \in Nat
    BY <1>1
  <2>2. QED
    BY <1>2, <2>1
<1>4. AllDays(c) = AllDays(a) + AllDays(b)
  <2> HIDE DEF b, c
  <2> QED BY <1>1, <1>2, AddsUp
<1>5. PICK f \in [Day -> Nat] : RunsUp(f, b) /\ AllDays(b) = f[LastDay]
  <2> HIDE DEF b
  <2> QED BY <1>1, RunningTotal
<1>6. \A d \in Day : f[d] = b[d] + (IF d = 0 THEN 0 ELSE f[d - 1])
  <2> HIDE DEF b
  <2> QED BY <1>5 DEF RunsUp
<1>7. \A d \in Day : (d = today => b[d] = n) /\ (d # today => b[d] = 0)
  OBVIOUS
<1> HIDE DEF b
<1> DEFINE S == {k \in Nat : k \in Day => /\ f[k] <= n
                                          /\ today \in Day /\ today > k => f[k] = 0}
<1>8. 0 \in S
  <2>1. 0 \in Day /\ b[0] \in Nat
    BY <1>1, DaysAre
  <2>2. f[0] = b[0]
    BY <1>6, <2>1
  <2>3. b[0] <= n /\ (today \in Day /\ today > 0 => b[0] = 0)
    BY <1>7, <2>1
  <2>4. QED
    BY <2>2, <2>3
<1>9. ASSUME NEW k \in Nat, k \in S PROVE k + 1 \in S
  <2> SUFFICES ASSUME k + 1 \in Day
               PROVE  f[k + 1] <= n /\ (today \in Day /\ today > k + 1 => f[k + 1] = 0)
    OBVIOUS
  <2>1. k \in Day
    BY DaysAre
  <2>2. f[k + 1] = b[k + 1] + f[k] /\ f[k] \in Nat
    BY <1>6, <2>1
  <2>3. f[k] <= n /\ (today \in Day /\ today > k => f[k] = 0)
    BY <1>9, <2>1
  <2>4. CASE k + 1 = today
    <3>1. f[k] = 0 /\ b[k + 1] = n
      BY <1>7, <2>3, <2>4
    <3>2. QED
      BY <2>2, <2>4, <3>1
  <2>5. CASE k + 1 # today
    <3>1. b[k + 1] = 0
      BY <1>7, <2>5
    <3>2. f[k + 1] = f[k]
      BY <2>2, <3>1
    <3>3. today \in Day /\ today > k + 1 => today > k
      BY DaysAre
    <3>4. QED
      BY <2>3, <3>2, <3>3
  <2>6. QED
    BY <2>4, <2>5
<1>10. Nat \subseteq S
  <2> HIDE DEF S
  <2> QED BY <1>8, <1>9, NatBySteps
<1>11. AllDays(b) <= n /\ AllDays(b) \in Nat
  BY <1>5, <1>10, DaysAre
<1>12. AllDays(a) \in Nat
  BY RunningTotal, DaysAre
<1>13. QED
  BY <1>3, <1>4, <1>11, <1>12

(***************************************************************************)
(* The inductive invariant: what the days add up to and what the next      *)
(* reading would add are together no more than what Core has moved. After  *)
(* a restart of Core the next reading adds less, never more; without a     *)
(* reading before, it adds nothing.                                        *)
(***************************************************************************)
ToCome == IF last = Never THEN 0 ELSE Delta(total, last)

TrafficInv ==
  /\ total \in Nat /\ moved \in Nat /\ last \in Nat \cup {Never}
  /\ pending \in [Day -> Nat] /\ stored \in [Day -> Nat]
  /\ Counted + ToCome <= moved

LEMMA SumsAre ==
  ASSUME TrafficInv
  PROVE  AllDays(stored) \in Nat /\ AllDays(pending) \in Nat /\ ToCome \in Nat /\ Never \notin Nat
<1>1. Never \notin Nat
  BY DEF Never
<1>2. AllDays(stored) \in Nat /\ AllDays(pending) \in Nat
  <2>1. ASSUME NEW book \in [Day -> Nat] PROVE AllDays(book) \in Nat
    BY RunningTotal, DaysAre
  <2>2. stored \in [Day -> Nat] /\ pending \in [Day -> Nat]
    BY DEF TrafficInv
  <2>3. QED
    BY <2>1, <2>2
<1>3. ToCome \in Nat
  BY DEF TrafficInv, ToCome, Delta
<1>4. QED
  BY <1>1, <1>2, <1>3

LEMMA TrafficInitially == TrafficInit => TrafficInv
<1> SUFFICES ASSUME TrafficInit PROVE TrafficInv
  OBVIOUS
<1>1. Counted = 0 /\ ToCome = 0
  BY NothingAddsUp DEF TrafficInit, Counted, ToCome
<1>2. QED
  BY <1>1, NothingAddsUp DEF TrafficInit, TrafficInv

LEMMA BytesMoveKeeps == TrafficInv /\ BytesMove => TrafficInv'
<1> SUFFICES ASSUME TrafficInv, BytesMove PROVE TrafficInv'
  OBVIOUS
<1>1. PICK n \in Nat : total' = total + n /\ moved' = moved + n
  BY TrafficAssumption DEF BytesMove, TrafficInv
<1>2. UNCHANGED books /\ Counted' = Counted
  BY DEF BytesMove, books, Counted
<1>3. ToCome' <= ToCome + n /\ ToCome' \in Nat
  BY <1>1, <1>2 DEF books, ToCome, Delta, TrafficInv
<1>4. Counted \in Nat /\ ToCome \in Nat /\ moved \in Nat /\ Counted + ToCome <= moved
  BY SumsAre DEF Counted, TrafficInv
<1>5. Counted' + ToCome' <= moved'
  <2>1. Counted + ToCome' <= moved + n
    <3>1. \A x, y, z, w, k \in Nat : x + y <= w /\ z <= y + k => x + z <= w + k
      OBVIOUS
    <3>2. n \in Nat
      BY <1>1
    <3>3. QED
      BY <1>3, <1>4, <3>1, <3>2, Zenon
  <2>2. QED
    BY <1>1, <1>2, <2>1, Zenon
<1>6. QED
  BY <1>1, <1>2, <1>5 DEF TrafficInv, books

LEMMA CounterRestartsKeeps == TrafficInv /\ CounterRestarts => TrafficInv'
<1> SUFFICES ASSUME TrafficInv, CounterRestarts PROVE TrafficInv'
  OBVIOUS
<1>1. UNCHANGED books /\ total' = 0 /\ moved' = moved /\ Counted' = Counted
  BY DEF CounterRestarts, books, Counted
<1>2. ToCome' = 0
  BY <1>1 DEF books, ToCome, Delta, TrafficInv
<1>3. Counted \in Nat /\ ToCome \in Nat /\ Counted + ToCome <= moved
  BY SumsAre DEF Counted, TrafficInv
<1>4. Counted' + ToCome' <= moved'
  BY <1>1, <1>2, <1>3 DEF TrafficInv
<1>5. QED
  BY <1>1, <1>4 DEF TrafficInv, books

LEMMA RecordKeeps == TrafficInv /\ Record => TrafficInv'
<1> SUFFICES ASSUME TrafficInv, Record PROVE TrafficInv'
  OBVIOUS
<1>1. /\ total' = total /\ moved' = moved /\ stored' = stored /\ last' = total
      /\ total \in Nat /\ moved \in Nat
  BY DEF Record, counters, TrafficInv
<1>2. ToCome' = 0
  BY <1>1, SumsAre DEF ToCome, Delta
<1>3. AllDays(stored) \in Nat /\ AllDays(pending) \in Nat /\ ToCome \in Nat
      /\ AllDays(stored) + AllDays(pending) + ToCome <= moved
  BY SumsAre DEF TrafficInv, Counted
<1>4. /\ pending' \in [Day -> Nat] /\ AllDays(pending') \in Nat
      /\ AllDays(pending') <= AllDays(pending) + ToCome
  <2>1. pending' \in [Day -> Nat] /\ AllDays(pending') <= AllDays(pending) + ToCome
    <3>1. CASE last = Never
      BY <1>3, <3>1 DEF Record, ToCome, TrafficInv
    <3>2. CASE last # Never
      <4>1. ToCome = Delta(total, last)
        BY <3>2 DEF ToCome
      <4>2. pending' = [pending EXCEPT ![now \div DayTime] = @ + ToCome]
        BY <3>2, <4>1 DEF Record
      <4>3. pending \in [Day -> Nat]
        BY DEF TrafficInv
      <4> HIDE DEF ToCome
      <4>4. QED
        BY <1>3, <4>2, <4>3, OneMore
    <3>3. QED
      BY <3>1, <3>2
  <2>2. AllDays(pending') \in Nat
    BY <2>1, RunningTotal, DaysAre
  <2>3. QED
    BY <2>1, <2>2
<1>5. Counted' + ToCome' <= moved'
  <2>1. Counted' = AllDays(stored) + AllDays(pending')
    BY <1>1 DEF Counted
  <2>2. QED
    BY <1>1, <1>2, <1>3, <1>4, <2>1
<1>6. QED
  BY <1>1, <1>4, <1>5 DEF TrafficInv

\* What is written down is no longer in memory.
LEMMA WrittenDown ==
  ASSUME TrafficInv, stored' = [d \in Day |-> stored[d] + pending[d]], pending' = NoBytes
  PROVE  Counted' = Counted /\ stored' \in [Day -> Nat] /\ pending' \in [Day -> Nat]
<1>1. stored \in [Day -> Nat] /\ pending \in [Day -> Nat]
  BY DEF TrafficInv
<1>2. AllDays(stored') = AllDays(stored) + AllDays(pending)
  BY <1>1, AddsUp
<1>3. AllDays(pending') = 0
  BY NothingAddsUp
<1>4. AllDays(stored) \in Nat /\ AllDays(pending) \in Nat
  BY SumsAre
<1>5. Counted' = Counted
  BY <1>2, <1>3, <1>4 DEF Counted
<1>6. QED
  BY <1>1, <1>5, NothingAddsUp

LEMMA FlushKeeps == TrafficInv /\ Flush => TrafficInv'
<1> SUFFICES ASSUME TrafficInv, Flush PROVE TrafficInv'
  OBVIOUS
<1>1. Counted' = Counted /\ stored' \in [Day -> Nat] /\ pending' \in [Day -> Nat]
  BY WrittenDown DEF Flush
<1>2. UNCHANGED <<total, moved, last>>
  BY DEF Flush, counters
<1>3. ToCome' = ToCome
  BY <1>2 DEF ToCome
<1>4. QED
  BY <1>1, <1>2, <1>3 DEF TrafficInv

LEMMA ForgetKeeps == TrafficInv /\ (Forget \/ FlushAndForget) => TrafficInv'
<1> SUFFICES ASSUME TrafficInv, Forget \/ FlushAndForget PROVE TrafficInv'
  OBVIOUS
<1>1. UNCHANGED <<total, moved>> /\ last' = Never /\ ToCome' = 0
  BY DEF Forget, FlushAndForget, counters, ToCome
<1>2. /\ stored' \in [Day -> Nat] /\ pending' \in [Day -> Nat]
      /\ Counted' \in Nat /\ Counted' <= Counted
  <2>1. CASE Forget
    <3>1. stored' = stored /\ pending' = NoBytes
      BY <2>1 DEF Forget
    <3>2. QED
      BY <3>1, SumsAre, NothingAddsUp DEF Counted, TrafficInv
  <2>2. CASE FlushAndForget
    <3>1. Counted' = Counted /\ stored' \in [Day -> Nat] /\ pending' \in [Day -> Nat]
      BY <2>2, WrittenDown DEF FlushAndForget
    <3>2. Counted \in Nat
      BY SumsAre DEF Counted
    <3>3. QED
      BY <3>1, <3>2
  <2>3. QED
    BY <2>1, <2>2
<1>3. Counted \in Nat /\ ToCome \in Nat /\ Counted + ToCome <= moved /\ moved \in Nat
  BY SumsAre DEF Counted, TrafficInv
<1>4. Counted' + ToCome' <= moved'
  <2>1. Counted' + 0 <= moved
    <3>1. \A x, y, z, w \in Nat : x <= y /\ y + z <= w => x + 0 <= w
      OBVIOUS
    <3>2. QED
      BY <1>2, <1>3, <3>1, Zenon
  <2>2. moved' = moved
    BY <1>1
  <2>3. QED
    BY <1>1, <2>1, <2>2, Zenon
<1>5. QED
  BY <1>1, <1>2, <1>4 DEF TrafficInv

\* Nothing is counted twice (lib/traffic.js): the days, written down or not yet,
\* never add up to more than Core has moved, however often Core restarts (its
\* counter then starts again at zero), the profiler restarts, a reading is missed
\* or a flush comes late.
THEOREM NothingTwice == Spec => []NothingInvented
<1>1. Init => TrafficInv
  BY TrafficInitially DEF Init
<1>2. TrafficInv /\ [Next]_vars => TrafficInv'
  <2> SUFFICES ASSUME TrafficInv, [Next]_vars PROVE TrafficInv'
    OBVIOUS
  <2>1. ASSUME UNCHANGED <<counters, books>> PROVE TrafficInv'
    BY <2>1 DEF TrafficInv, Counted, ToCome, counters, books
  <2>2. CASE Core
    <3>1. CASE CoreStarts
      BY <3>1, CounterRestartsKeeps DEF CoreStarts
    <3>2. CASE Bytes
      BY <3>2, BytesMoveKeeps DEF Bytes
    <3>3. CASE Tick \/ CoreStops \/ \E a \in Addr : Connect(a) \/ Drop(a)
      BY <2>1, <3>3 DEF Tick, CoreStops, Connect, Drop, trafficVars
    <3>4. QED
      BY <2>2, <3>1, <3>2, <3>3 DEF Core
  <2>3. CASE Profiler
    <3>1. CASE PollTotals
      BY <2>1, <3>1, RecordKeeps DEF PollTotals, trafficVars
    <3>2. CASE FlushTraffic
      BY <3>2, FlushKeeps DEF FlushTraffic
    <3>3. CASE \E flushed \in BOOLEAN : Restart(flushed)
      BY <3>3, ForgetKeeps DEF Restart
    <3>4. CASE PollPeers \/ PollFails \/ PollUptime \/ TimerPass
                 \/ \E s \in Passes : PassStep(s) \/ PassFails(s)
      BY <2>1, <3>4 DEF PollPeers, PollFails, PollUptime, TimerPass, PassStep, PassList,
                        PassAdd, PassFails, trafficVars
    <3>5. QED
      BY <2>3, <3>1, <3>2, <3>3, <3>4 DEF Profiler
  <2>4. CASE Others \/ UNCHANGED vars
    BY <2>1, <2>4 DEF Others, Race, PruneOldData, PruneNeverFirst, ResetPeerData, vars, trafficVars
  <2>5. QED
    BY <2>2, <2>3, <2>4 DEF Next
<1>3. TrafficInv => NothingInvented
  <2> SUFFICES ASSUME TrafficInv PROVE NothingInvented
    OBVIOUS
  <2>1. Counted \in Nat /\ ToCome \in Nat /\ Counted + ToCome <= moved /\ moved \in Nat
    BY SumsAre DEF Counted, TrafficInv
  <2>2. QED
    BY <2>1 DEF NothingInvented
<1>4. QED
  BY <1>1, <1>2, <1>3, PTL DEF Spec
=============================================================================
