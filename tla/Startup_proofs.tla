--------------------------- MODULE Startup_proofs ---------------------------
(***************************************************************************)
(* Proofs about Startup, for any of the four processes, any releases an    *)
(* install may come from, and any number of busy files and kills: what a   *)
(* process that is ready has under it, and what no setup takes away.       *)
(***************************************************************************)
EXTENDS Startup, WellFoundedInduction, TLAPS

(***************************************************************************)
(* The list of the steps.                                                  *)
(***************************************************************************)
LEMMA SetupIs ==
  /\ Len(Setup) = 20 /\ DOMAIN Setup = 1..20
  /\ Setup[1] = [flag |-> "rollup_backfill", since |-> 10900]
  /\ Setup[2] = [flag |-> "stratum_history_reset", since |-> 11200]
  /\ Setup[3] = [flag |-> "drop_redundant_indexes", since |-> 11300]
  /\ Setup[4] = [flag |-> "drop_relay_obs_peer_index", since |-> 12301]
  /\ Setup[5] = [flag |-> "trusted_peer_rows", since |-> 11505]
  /\ Setup[6] = [flag |-> "promoted_peer_backfill", since |-> 11510]
  /\ Setup[7] = [flag |-> "promoted_peer_canonical_ip", since |-> 12301]
  /\ Setup[8] = [flag |-> "peer_session_network", since |-> 11600]
  /\ Setup[9] = [flag |-> "trusted_peer_kept", since |-> 11600]
  /\ Setup[10] = [flag |-> "relay_race_attribution", since |-> 11604]
  /\ Setup[11] = [flag |-> "stratum_race_toggle", since |-> 11603]
  /\ Setup[12] = [flag |-> "relay_race_route", since |-> 12200]
  /\ Setup[13] = [flag |-> "drop_peer_traffic", since |-> 12501]
  /\ Setup[14] = [flag |-> "traffic", since |-> 12500]
  /\ Setup[15] = [flag |-> "relay_race_template_tx", since |-> 12400]
  /\ Setup[16] = [flag |-> "relay_race_pool", since |-> 12000]
  /\ Setup[17] = [flag |-> "bip152_hb", since |-> 20000]
  /\ Setup[18] = [flag |-> "bip152_hb_from", since |-> 20004]
  /\ Setup[19] = [flag |-> "peer_session_services", since |-> 11800]
  /\ Setup[20] = [flag |-> "pools_seeded", since |-> 0]
BY DEF Setup, Migrations

LEMMA StepsAre ==
  /\ \A i \in 1..20 : Setup[i].flag \in Flags /\ Setup[i].since \in Nat
  /\ \A f \in Flags : \E i \in 1..20 : Setup[i].flag = f
  /\ Columns \subseteq Flags /\ Old \subseteq Flags
  /\ \A v : DoneBy(v) \subseteq Flags
<1>1. \A i \in 1..20 : Setup[i].flag \in Flags
  BY SetupIs DEF Flags
<1>2. \A i \in 1..20 : Setup[i].since \in Nat
  BY SetupIs
<1>3. \A f \in Flags : \E i \in 1..20 : Setup[i].flag = f
  BY SetupIs DEF Flags
<1>4. Columns \subseteq Flags /\ Old \subseteq Flags
  BY SetupIs, <1>1 DEF Columns, Old
<1>5. \A v : DoneBy(v) \subseteq Flags
  BY SetupIs, <1>1 DEF DoneBy
<1>6. QED
  BY <1>1, <1>2, <1>3, <1>4, <1>5

\* Which version brought what is asked for below.
LEMMA DoneIs ==
  ASSUME NEW v \in Nat
  PROVE  /\ "rollup_backfill" \in DoneBy(v) => v >= 10900
         /\ "stratum_history_reset" \notin DoneBy(v) => v < 11200
         /\ "trusted_peer_rows" \in DoneBy(v) => v >= 11505
         /\ "promoted_peer_canonical_ip" \in DoneBy(v) => v >= 12301
<1>1. \A i \in 1..20 :
        /\ Setup[i].flag = "rollup_backfill" => Setup[i].since = 10900
        /\ Setup[i].flag = "trusted_peer_rows" => Setup[i].since = 11505
        /\ Setup[i].flag = "promoted_peer_canonical_ip" => Setup[i].since = 12301
  BY SetupIs
<1>2. \A f \in DoneBy(v) : \E i \in 1..20 : Setup[i].flag = f /\ Setup[i].since <= v
  BY SetupIs DEF DoneBy
<1>3. 11200 <= v => "stratum_history_reset" \in DoneBy(v)
  BY SetupIs DEF DoneBy
<1>4. QED
  BY <1>1, <1>2, <1>3

LEMMA FirstMissing ==
  ASSUME NEW S \in SUBSET (1..20), S # {}
  PROVE  \E i \in S : \A j \in S : i <= j
<1>1. S \subseteq Nat
  OBVIOUS
<1>2. PICK i \in S : \A j \in S : <<j, i>> \notin OpToRel(<, Nat)
  BY <1>1, WFMin, NatLessThanWellFounded
<1>3. \A j \in S : ~(j < i)
  BY <1>1, <1>2 DEF OpToRel
<1>4. QED
  BY <1>1, <1>3
-----------------------------------------------------------------------------
(***************************************************************************)
(* What the steps do to a database.                                        *)
(***************************************************************************)

\* What the flags say of the data, and the history before its reset.
Sound(d) ==
  /\ ~d.tables => d = Nothing
  /\ Columns \cap d.flags \subseteq d.columns
  /\ Old \cap d.flags \cap d.old = {}
  /\ "rollup_backfill" \in d.flags => d.stats = d.blocks
  /\ "trusted_peer_rows" \in d.flags /\ d.trusted # Never => d.row
  /\ "promoted_peer_canonical_ip" \in d.flags => d.promoted["bracketed"] = Never
  /\ "stratum_history_reset" \notin d.flags => "fair" \notin d.history

LEMMA StampsAre ==
  /\ Never \in Stamp /\ 3 \in Stamp /\ \A s \in Stamp : s \in Nat /\ s <= Never
  /\ \A s, t \in Stamp : Lower(s, t) \in Stamp /\ Lower(s, t) <= s /\ Lower(s, t) <= t
                         /\ (Lower(s, t) = s \/ Lower(s, t) = t)
BY DEF Stamp, Never, Lower

LEMMA NothingIs == Nothing \in Database /\ Sound(Nothing) /\ ~Nothing.tables
<1>1. Unkept \in [Spelling -> Stamp]
  BY StampsAre DEF Unkept
<1>2. Nothing \in Database
  BY <1>1, StampsAre DEF Nothing, Database
<1>3. QED
  BY <1>2 DEF Nothing, Sound

LEMMA LeftIs ==
  ASSUME NEW v \in Releases, NEW d \in Left(v)
  PROVE  d \in Database /\ Sound(d) /\ d.tables /\ d.flags = DoneBy(v)
<1>1. v \in Nat
  BY StartupAssumption
<1>2. d \in Made(v)
  BY DEF Left
<1>3. /\ d.stats = IF v < 10900 THEN 0 ELSE d.blocks
      /\ d.history \subseteq IF v < 11200 THEN {"biased"} ELSE {"fair"}
      /\ d.trusted # Never /\ v >= 11505 => d.row
      /\ v >= 12301 => d.promoted["bracketed"] = Never
  BY DEF Left
<1>4. d.flags = DoneBy(v) /\ d.columns = DoneBy(v) \cap Columns /\ d.old = Old \ DoneBy(v)
  BY <1>2 DEF Made
<1>5. d.tables \in {TRUE}
  BY <1>2 DEF Made
<1>6. d \in Database
  <2>1. DoneBy(v) \in SUBSET Flags /\ DoneBy(v) \cap Columns \in SUBSET Columns
        /\ Old \ DoneBy(v) \in SUBSET Old
    BY StepsAre
  <2>2. d.promoted \in [Spelling -> Stamp]
    BY <1>2 DEF Made
  <2>3. d.trusted \in Stamp /\ d.parked \in Stamp /\ d.blocks \in Nat /\ d.stats \in Nat
    BY <1>2 DEF Made
  <2>4. QED
    BY <1>2, <1>4, <2>1, <2>2, <2>3 DEF Database, Made
<1>7. d.tables
  BY <1>5, Zenon
<1>8. QED
  BY <1>1, <1>3, <1>4, <1>6, <1>7, DoneIs DEF Sound

\* What the work of a step under flag f may make of a database d.
Keeps(f, d, e) ==
  /\ e.tables /\ e.flags = d.flags /\ e.blocks = d.blocks /\ e.trusted = d.trusted
  /\ d.columns \subseteq e.columns /\ (f \in Columns => f \in e.columns)
  /\ e.old \subseteq d.old /\ f \notin e.old
  /\ e.stats = IF f = "rollup_backfill" THEN d.blocks ELSE d.stats
  /\ d.row \/ (f = "trusted_peer_rows" /\ d.trusted # Never) => e.row
  /\ e.promoted["bracketed"] =
       IF f = "promoted_peer_canonical_ip" THEN Never ELSE d.promoted["bracketed"]
  /\ e.history \subseteq d.history /\ (f = "stratum_history_reset" => "fair" \notin e.history)

LEMMA MarkedIs ==
  ASSUME NEW d \in Database, Sound(d), d.tables, NEW f \in Flags, NEW e \in Database, Keeps(f, d, e)
  PROVE  /\ Marked(f, e) \in Database /\ Sound(Marked(f, e))
         /\ Marked(f, e).tables /\ Marked(f, e).flags = d.flags \cup {f}
         /\ Marked(f, e).history = e.history /\ Marked(f, e).pool = e.pool
         /\ Marked(f, e).promoted = e.promoted /\ Marked(f, e).sessions = e.sessions
         /\ Marked(f, e).switch = e.switch
<1> DEFINE m == Marked(f, e)
<1>1. m = [e EXCEPT !.flags = @ \cup {f}]
  BY DEF Marked
<1>2. m \in Database /\ m.flags = d.flags \cup {f}
  BY <1>1 DEF Database, Keeps
<1>3. /\ m.tables = e.tables /\ m.columns = e.columns /\ m.old = e.old /\ m.blocks = e.blocks
      /\ m.stats = e.stats /\ m.history = e.history /\ m.sessions = e.sessions
      /\ m.trusted = e.trusted /\ m.row = e.row /\ m.promoted = e.promoted
      /\ m.switch = e.switch /\ m.pool = e.pool
  BY <1>1 DEF Database
<1> HIDE DEF m
<1>4. Sound(m)
  BY <1>2, <1>3 DEF Sound, Keeps
<1>5. QED
  BY <1>2, <1>3, <1>4 DEF m, Keeps

\* What the work takes away is not of this version.
LEMMA WorkIs ==
  ASSUME NEW d \in Database, Sound(d), d.tables, NEW f \in Flags, f \notin d.flags,
         NEW m, m = Marked(f, Work(f, d))
  PROVE  /\ m \in Database /\ Sound(m) /\ m.tables /\ m.flags = d.flags \cup {f}
         /\ "fair" \in d.history => "fair" \in m.history
         /\ m.pool # d.pool => f = "pools_seeded"
         /\ Earliest(m.promoted) <= Earliest(d.promoted)
         /\ m.sessions = d.sessions
         /\ m.switch = IF f = "stratum_race_toggle" /\ d.sessions /\ d.switch = None THEN "1"
                       ELSE d.switch
<1>1. /\ d.promoted \in [Spelling -> Stamp] /\ d.promoted["bare"] \in Stamp
      /\ d.promoted["bracketed"] \in Stamp /\ d.trusted \in Stamp /\ d.parked \in Stamp
      /\ "bare" \in Spelling /\ "bracketed" \in Spelling
  BY DEF Database, Spelling
<1>2. Earliest(d.promoted) <= Earliest(d.promoted)
  BY <1>1, StampsAre DEF Earliest
<1>3. f \in Old \/ f \notin d.old
  BY DEF Database
<1>4. CASE f = "rollup_backfill"
  <2> DEFINE e == [d EXCEPT !.stats = d.blocks]
  <2>1. m = Marked(f, e)
    BY <1>4 DEF Work, Backfilled, Columns, Old
  <2>2. e \in Database
        /\ e.tables = d.tables /\ e.flags = d.flags /\ e.columns = d.columns
        /\ e.old = d.old /\ e.blocks = d.blocks /\ e.stats = d.blocks
        /\ e.history = d.history /\ e.sessions = d.sessions /\ e.trusted = d.trusted
        /\ e.row = d.row /\ e.promoted = d.promoted /\ e.switch = d.switch
        /\ e.pool = d.pool
    BY <1>1 DEF Database
  <2> HIDE DEF e
  <2>3. Keeps(f, d, e)
    BY <1>1, <1>2, <1>3, <1>4, <2>1, <2>2 DEF Keeps, Columns, Old
  <2>4. QED
    BY <1>1, <1>2, <1>3, <1>4, <2>1, <2>2, <2>3, MarkedIs DEF Sound
<1>5. CASE f = "stratum_history_reset"
  <2> DEFINE e == [d EXCEPT !.history = {}]
  <2>1. m = Marked(f, e)
    BY <1>5 DEF Work, HistoryReset, Columns, Old
  <2>2. e \in Database
        /\ e.tables = d.tables /\ e.flags = d.flags /\ e.columns = d.columns
        /\ e.old = d.old /\ e.blocks = d.blocks /\ e.stats = d.stats /\ e.history = {}
        /\ e.sessions = d.sessions /\ e.trusted = d.trusted /\ e.row = d.row
        /\ e.promoted = d.promoted /\ e.switch = d.switch /\ e.pool = d.pool
    BY <1>1 DEF Database
  <2> HIDE DEF e
  <2>3. Keeps(f, d, e)
    BY <1>1, <1>2, <1>3, <1>5, <2>1, <2>2 DEF Keeps, Columns, Old
  <2>4. QED
    BY <1>1, <1>2, <1>3, <1>5, <2>1, <2>2, <2>3, MarkedIs DEF Sound
<1>6. CASE f = "trusted_peer_rows"
  <2> DEFINE e == [d EXCEPT !.row = @ \/ d.trusted # Never]
  <2>1. m = Marked(f, e)
    BY <1>6 DEF Work, WithPeerRow, Columns, Old
  <2>2. e \in Database
        /\ e.tables = d.tables /\ e.flags = d.flags /\ e.columns = d.columns
        /\ e.old = d.old /\ e.blocks = d.blocks /\ e.stats = d.stats
        /\ e.history = d.history /\ e.sessions = d.sessions /\ e.trusted = d.trusted
        /\ e.row = (d.row \/ d.trusted # Never) /\ e.promoted = d.promoted
        /\ e.switch = d.switch /\ e.pool = d.pool
    BY <1>1 DEF Database
  <2> HIDE DEF e
  <2>3. Keeps(f, d, e)
    BY <1>1, <1>2, <1>3, <1>6, <2>1, <2>2 DEF Keeps, Columns, Old
  <2>4. QED
    BY <1>1, <1>2, <1>3, <1>6, <2>1, <2>2, <2>3, MarkedIs DEF Sound
<1>7. CASE f = "promoted_peer_backfill"
  <2> DEFINE first == IF d.promoted["bare"] # Never THEN d.promoted["bare"]
                      ELSE IF d.trusted # Never THEN d.trusted ELSE d.parked
             p == [d.promoted EXCEPT !["bare"] = first]
             e == [d EXCEPT !.promoted = p]
  <2>1. m = Marked(f, e)
    BY <1>7 DEF Work, KeptCounted, Columns, Old
  <2>2. first \in Stamp /\ first <= d.promoted["bare"]
    BY <1>1, StampsAre
  <2>3. p \in [Spelling -> Stamp] /\ p["bare"] = first /\ p["bracketed"] = d.promoted["bracketed"]
    BY <1>1, <2>2
  <2>4. Earliest(p) <= Earliest(d.promoted)
    BY <1>1, <2>2, <2>3, StampsAre DEF Earliest
  <2> HIDE DEF p
  <2>5. e \in Database /\ e.promoted = p
        /\ e.tables = d.tables /\ e.flags = d.flags /\ e.columns = d.columns
        /\ e.old = d.old /\ e.blocks = d.blocks /\ e.stats = d.stats
        /\ e.history = d.history /\ e.sessions = d.sessions /\ e.trusted = d.trusted
        /\ e.row = d.row /\ e.switch = d.switch /\ e.pool = d.pool
    BY <2>3 DEF Database
  <2> HIDE DEF e
  <2>6. Keeps(f, d, e)
    BY <1>1, <1>3, <1>7, <2>1, <2>3, <2>4, <2>5 DEF Keeps, Columns, Old
  <2>7. QED
    BY <1>1, <1>3, <1>7, <2>1, <2>3, <2>4, <2>5, <2>6, MarkedIs DEF Sound
<1>8. CASE f = "promoted_peer_canonical_ip"
  <2> DEFINE p == [bare |-> Lower(d.promoted["bare"], d.promoted["bracketed"]), bracketed |-> Never]
             e == [d EXCEPT !.promoted = p]
  <2>1. m = Marked(f, e)
    BY <1>8 DEF Work, OneSpelling, Columns, Old
  <2>2. p \in [Spelling -> Stamp] /\ p["bracketed"] = Never
        /\ p["bare"] = Lower(d.promoted["bare"], d.promoted["bracketed"])
    BY <1>1, StampsAre DEF Spelling
  <2>3. Earliest(p) <= Earliest(d.promoted)
    BY <1>1, <2>2, StampsAre DEF Earliest, Lower
  <2> HIDE DEF p
  <2>4. e \in Database /\ e.promoted = p
        /\ e.tables = d.tables /\ e.flags = d.flags /\ e.columns = d.columns
        /\ e.old = d.old /\ e.blocks = d.blocks /\ e.stats = d.stats
        /\ e.history = d.history /\ e.sessions = d.sessions /\ e.trusted = d.trusted
        /\ e.row = d.row /\ e.switch = d.switch /\ e.pool = d.pool
    BY <2>2 DEF Database
  <2> HIDE DEF e
  <2>5. Keeps(f, d, e)
    BY <1>1, <1>3, <1>8, <2>1, <2>2, <2>3, <2>4 DEF Keeps, Columns, Old
  <2>6. QED
    BY <1>1, <1>3, <1>8, <2>1, <2>2, <2>3, <2>4, <2>5, MarkedIs DEF Sound
<1>9. CASE f = "stratum_race_toggle"
  <2> DEFINE e == [d EXCEPT !.switch = IF d.sessions /\ @ = None THEN "1" ELSE @]
  <2>1. m = Marked(f, e)
    BY <1>9 DEF Work, SwitchedOn, Columns, Old
  <2>2. e \in Database
        /\ e.tables = d.tables /\ e.flags = d.flags /\ e.columns = d.columns
        /\ e.old = d.old /\ e.blocks = d.blocks /\ e.stats = d.stats
        /\ e.history = d.history /\ e.sessions = d.sessions /\ e.trusted = d.trusted
        /\ e.row = d.row /\ e.promoted = d.promoted
        /\ e.switch = (IF d.sessions /\ d.switch = None THEN "1" ELSE d.switch)
        /\ e.pool = d.pool
    BY <1>1 DEF Database
  <2> HIDE DEF e
  <2>3. Keeps(f, d, e)
    BY <1>1, <1>2, <1>3, <1>9, <2>1, <2>2 DEF Keeps, Columns, Old
  <2>4. QED
    BY <1>1, <1>2, <1>3, <1>9, <2>1, <2>2, <2>3, MarkedIs DEF Sound
<1>10. CASE f = "pools_seeded"
  <2> DEFINE e == [d EXCEPT !.pool = TRUE]
  <2>1. m = Marked(f, e)
    BY <1>10 DEF Work, Seeded, Columns, Old
  <2>2. e \in Database
        /\ e.tables = d.tables /\ e.flags = d.flags /\ e.columns = d.columns
        /\ e.old = d.old /\ e.blocks = d.blocks /\ e.stats = d.stats
        /\ e.history = d.history /\ e.sessions = d.sessions /\ e.trusted = d.trusted
        /\ e.row = d.row /\ e.promoted = d.promoted /\ e.switch = d.switch
        /\ e.pool = TRUE
    BY <1>1 DEF Database
  <2> HIDE DEF e
  <2>3. Keeps(f, d, e)
    BY <1>1, <1>2, <1>3, <1>10, <2>1, <2>2 DEF Keeps, Columns, Old
  <2>4. QED
    BY <1>1, <1>2, <1>3, <1>10, <2>1, <2>2, <2>3, MarkedIs DEF Sound
<1>11. CASE f \in Columns
  <2> DEFINE e == [d EXCEPT !.columns = @ \cup Added(f, d)]
  <2>1. m = Marked(f, e)
    BY <1>11 DEF Work, WithColumn, Columns, Old
  <2>2. d.columns \cup Added(f, d) \subseteq Columns /\ f \in d.columns \cup Added(f, d)
    BY <1>11 DEF Added, Database
  <2>3. e \in Database
        /\ e.columns = d.columns \cup Added(f, d)
        /\ e.tables = d.tables /\ e.flags = d.flags /\ e.old = d.old
        /\ e.blocks = d.blocks /\ e.stats = d.stats /\ e.history = d.history
        /\ e.sessions = d.sessions /\ e.trusted = d.trusted /\ e.row = d.row
        /\ e.promoted = d.promoted /\ e.switch = d.switch /\ e.pool = d.pool
    BY <2>2 DEF Database
  <2> HIDE DEF e
  <2>4. f \notin Old /\ f \notin {"rollup_backfill", "trusted_peer_rows", "promoted_peer_canonical_ip", "stratum_history_reset"}
        /\ f # "pools_seeded" /\ f # "stratum_race_toggle"
    BY <1>11 DEF Columns, Old
  <2>5. Keeps(f, d, e)
    BY <1>3, <2>2, <2>3, <2>4 DEF Keeps
  <2>6. QED
    BY <1>2, <2>1, <2>3, <2>4, <2>5, MarkedIs
<1>12. CASE f \in Old
  <2> DEFINE e == [d EXCEPT !.old = @ \ {f}]
  <2>1. m = Marked(f, e)
    BY <1>12 DEF Work, Without, Columns, Old
  <2>2. e \in Database
        /\ e.tables = d.tables /\ e.flags = d.flags /\ e.columns = d.columns
        /\ e.old = d.old \ {f} /\ e.blocks = d.blocks /\ e.stats = d.stats
        /\ e.history = d.history /\ e.sessions = d.sessions /\ e.trusted = d.trusted
        /\ e.row = d.row /\ e.promoted = d.promoted /\ e.switch = d.switch
        /\ e.pool = d.pool
    BY <1>1 DEF Database
  <2> HIDE DEF e
  <2>3. f \notin Columns /\ f \notin {"rollup_backfill", "trusted_peer_rows", "promoted_peer_canonical_ip", "stratum_history_reset"}
        /\ f # "pools_seeded" /\ f # "stratum_race_toggle"
    BY <1>12 DEF Columns, Old
  <2>4. Keeps(f, d, e)
    BY <2>2, <2>3 DEF Keeps
  <2>5. QED
    BY <1>2, <2>1, <2>2, <2>3, <2>4, MarkedIs
<1>13. QED
  <2>1. PICK i \in 1..20 : Setup[i].flag = f
    BY StepsAre
  <2>2. \/ f \in {"rollup_backfill", "stratum_history_reset", "trusted_peer_rows",
                  "promoted_peer_backfill", "promoted_peer_canonical_ip", "stratum_race_toggle",
                  "pools_seeded"}
        \/ f \in Columns \/ f \in Old
    BY <2>1, SetupIs DEF Columns, Old
  <2>3. QED
    BY <2>2, <1>4, <1>5, <1>6, <1>7, <1>8, <1>9, <1>10, <1>11, <1>12
-----------------------------------------------------------------------------
(***************************************************************************)
(* The invariant. A process that sets up has seen every flag before the    *)
(* step it is at, one that is ready has seen them all, and the switch is   *)
(* as this version found it until its migration is through.                *)
(***************************************************************************)
Setting(p) ==
  /\ phase[p] = "schema" => at[p] = 1
  /\ phase[p] \in {"read", "write"} =>
       base.tables /\ \A i \in 1..20 : i < at[p] => Setup[i].flag \in base.flags
  /\ phase[p] = "write" => at[p] <= 20
  /\ phase[p] = "ready" => base.tables /\ Flags \subseteq base.flags

Untouched ==
  /\ found.flags \subseteq base.flags
  /\ "stratum_race_toggle" \notin base.flags =>
       base.switch = found.switch /\ base.sessions = found.sessions /\ chosen = None

Inv ==
  /\ StartupTypeOK
  /\ Sound(base)
  /\ \A p \in Process : Setting(p)
  /\ Untouched
  /\ SwitchKept

\* The pools were seeded, and have been removed since.
SeededOnce == "pools_seeded" \in base.flags /\ ~base.pool

\* What no step of a process takes away from the database.
Claims ==
  /\ "fair" \in base.history => "fair" \in base'.history
  /\ SeededOnce => SeededOnce'
  /\ Earliest(base'.promoted) <= Earliest(base.promoted)
  /\ \A p \in Process : phase[p] # "down" /\ phase'[p] = "down" =>
       kills' # kills \/ (busy' # busy /\ tries[p] >= Tries)

LEMMA EarliestIs ==
  ASSUME NEW d \in Database
  PROVE  /\ d.promoted["bare"] \in Stamp /\ d.promoted["bracketed"] \in Stamp
         /\ Earliest(d.promoted) <= Earliest(d.promoted)
<1>1. d.promoted["bare"] \in Stamp /\ d.promoted["bracketed"] \in Stamp
  BY DEF Database, Spelling
<1>2. QED
  BY <1>1, StampsAre DEF Earliest

LEMMA InitInv == Init => Inv
<1> SUFFICES ASSUME Init PROVE Inv
  OBVIOUS
<1>1. base \in Database /\ Sound(base)
  BY NothingIs, LeftIs DEF Init
<1>2. StartupTypeOK
  BY <1>1, SetupIs, StartupAssumption DEF Init, StartupTypeOK, None
<1>3. \A p \in Process : Setting(p)
  BY DEF Init, Setting
<1>4. Untouched
  BY DEF Init, Untouched
<1>5. SwitchKept
  BY DEF Init, SwitchKept
<1>6. QED
  BY <1>1, <1>2, <1>3, <1>4, <1>5 DEF Inv

\* The steps of a process that leave the database alone.
LEMMA AloneInv ==
  ASSUME Inv, UNCHANGED <<base, found, chosen>>, NEW p \in Process,
         \/ Start(p) \/ ReadFlags(p) \/ Busy(p) \/ Killed(p)
         \/ Transaction(p) /\ Raced(Setup[at[p]].flag, base)
  PROVE  Inv' /\ Claims
<1>1. /\ base \in Database /\ phase \in [Process -> {"down", "schema", "read", "write", "ready"}]
      /\ at \in [Process -> 1..21] /\ tries \in [Process -> 0..Tries]
      /\ busy \in 0..MaxBusy /\ kills \in 0..MaxKills
      /\ Tries \in Nat \ {0} /\ MaxBusy \in Nat /\ MaxKills \in Nat
  BY SetupIs, StartupAssumption DEF Inv, StartupTypeOK
<1>2. base' = base /\ found' = found /\ chosen' = chosen
  OBVIOUS
<1>3. Sound(base') /\ Untouched' /\ SwitchKept'
  BY <1>2, Zenon DEF Inv, Untouched, SwitchKept
<1>4. /\ "fair" \in base.history => "fair" \in base'.history
      /\ ~(~base.pool /\ base'.pool)
      /\ Earliest(base'.promoted) <= Earliest(base.promoted)
  BY <1>1, <1>2, EarliestIs
<1> DEFINE Moves(where, i) ==
             /\ phase' = [phase EXCEPT ![p] = where] /\ at' = [at EXCEPT ![p] = i]
             /\ tries' \in [Process -> 0..Tries] /\ busy' \in 0..MaxBusy /\ kills' \in 0..MaxKills
             /\ where = "schema" => i = 1
             /\ where \in {"read", "write"} =>
                  base.tables /\ \A j \in 1..20 : j < i => Setup[j].flag \in base.flags
             /\ where = "write" => i <= 20
             /\ where = "ready" => base.tables /\ Flags \subseteq base.flags
             /\ phase[p] # "down" /\ where = "down" =>
                  kills' # kills \/ (busy' # busy /\ tries[p] >= Tries)
<1>5. ASSUME NEW where \in {"down", "schema", "read", "write", "ready"}, NEW i \in 1..21,
             Moves(where, i)
      PROVE  Inv' /\ Claims
  <2>1. StartupTypeOK'
    BY <1>1, <1>2, <1>5, SetupIs DEF Inv, StartupTypeOK
  <2>2. \A q \in Process : Setting(q)'
    <3> TAKE q \in Process
    <3>1. CASE q = p
      BY <1>1, <1>2, <1>5, <3>1 DEF Setting
    <3>2. CASE q # p
      <4>1. phase'[q] = phase[q] /\ at'[q] = at[q]
        BY <1>1, <1>5, <3>2
      <4>2. QED
        BY <1>2, <4>1 DEF Inv, Setting
    <3>3. QED
      BY <3>1, <3>2
  <2>3. \A q \in Process : phase[q] # "down" /\ phase'[q] = "down" =>
          kills' # kills \/ (busy' # busy /\ tries[q] >= Tries)
    BY <1>1, <1>5
  <2>4. QED
    BY <1>3, <1>4, <2>1, <2>2, <2>3 DEF Inv, Claims, SeededOnce
<1> HIDE DEF Moves
<1>6. Setting(p)
  BY DEF Inv
<1>7. at[p] \in 1..21 /\ at = [at EXCEPT ![p] = at[p]]
  BY <1>1
<1>8. CASE Start(p)
  <2>1. /\ phase[p] = "down" /\ phase' = [phase EXCEPT ![p] = "schema"]
        /\ at' = [at EXCEPT ![p] = 1] /\ tries' = [tries EXCEPT ![p] = 1]
        /\ busy' = busy /\ kills' = kills
    BY <1>8 DEF Start, To, EnvRests
  <2>2. tries' \in [Process -> 0..Tries]
    BY <1>1, <2>1
  <2>3. Moves("schema", 1)
    BY <1>1, <2>1, <2>2 DEF Moves
  <2>4. QED
    BY <1>5, <2>3
<1>9. CASE ReadFlags(p)
  <2> DEFINE missing == {i \in at[p]..20 : Setup[i].flag \notin base.flags}
  <2>1. phase[p] = "read" /\ tries' = tries /\ busy' = busy /\ kills' = kills
    BY <1>9 DEF ReadFlags, EnvRests
  <2>2. base.tables /\ \A i \in 1..20 : i < at[p] => Setup[i].flag \in base.flags
    BY <1>6, <2>1 DEF Setting
  <2>3. CASE missing = {}
    <3>1. phase' = [phase EXCEPT ![p] = "ready"] /\ at' = at
      BY <1>9, <2>3, SetupIs DEF ReadFlags, To
    <3>2. \A i \in 1..20 : Setup[i].flag \in base.flags
      BY <1>7, <2>2, <2>3
    <3>3. Flags \subseteq base.flags
      BY <3>2, StepsAre
    <3>4. Moves("ready", at[p])
      BY <1>1, <1>7, <2>1, <2>2, <3>1, <3>3 DEF Moves
    <3>5. QED
      BY <1>5, <1>7, <3>4
  <2>4. CASE missing # {}
    <3> DEFINE first == CHOOSE i \in missing : \A j \in missing : i <= j
    <3>1. phase' = [phase EXCEPT ![p] = "write"] /\ at' = [at EXCEPT ![p] = first]
      BY <1>9, <2>4, SetupIs DEF ReadFlags, To
    <3>2. missing \in SUBSET (1..20)
      BY <1>7
    <3>3. first \in missing /\ \A j \in missing : first <= j
      BY <2>4, <3>2, FirstMissing
    <3> HIDE DEF first
    <3>4. first \in 1..20
      BY <3>2, <3>3
    <3>5. \A i \in 1..20 : i < first => Setup[i].flag \in base.flags
      <4> TAKE i \in 1..20
      <4>1. CASE i < at[p]
        BY <2>2, <4>1
      <4>2. CASE ~(i < at[p])
        <5>1. i \in at[p]..20
          BY <1>7, <4>2
        <5>2. i < first => i \notin missing
          BY <3>3, <3>4
        <5>3. QED
          BY <5>1, <5>2
      <4>3. QED
        BY <4>1, <4>2
    <3>6. first \in 1..21 /\ first <= 20
      BY <3>4
    <3>7. tries' \in [Process -> 0..Tries] /\ busy' \in 0..MaxBusy /\ kills' \in 0..MaxKills
      BY <1>1, <2>1
    <3>8. Moves("write", first)
      BY <2>2, <3>1, <3>5, <3>6, <3>7 DEF Moves
    <3>9. QED
      BY <1>5, <3>6, <3>8
  <2>5. QED
    BY <2>3, <2>4
<1>10. CASE Busy(p)
  <2>1. /\ phase' = [phase EXCEPT ![p] = AfterBusy(p)] /\ at' = [at EXCEPT ![p] = 1]
        /\ tries' = [tries EXCEPT ![p] = IF AfterBusy(p) = "schema" THEN @ + 1 ELSE @]
        /\ busy' = busy + 1 /\ busy < MaxBusy /\ kills' = kills
    BY <1>10 DEF Busy, To
  <2>2. busy' \in 0..MaxBusy /\ busy' # busy /\ tries[p] \in Nat
    BY <1>1, <2>1
  <2>3. CASE tries[p] < Tries
    <3>1. AfterBusy(p) = "schema"
      BY <2>3 DEF AfterBusy
    <3>2. tries' = [tries EXCEPT ![p] = tries[p] + 1] /\ phase' = [phase EXCEPT ![p] = "schema"]
      BY <2>1, <3>1
    <3>3. tries' \in [Process -> 0..Tries]
      BY <1>1, <2>3, <3>2
    <3>4. Moves("schema", 1)
      BY <1>1, <2>1, <2>2, <3>2, <3>3 DEF Moves
    <3>5. QED
      BY <1>5, <3>4
  <2>4. CASE ~(tries[p] < Tries)
    <3>1. AfterBusy(p) = "down"
      BY <2>4 DEF AfterBusy
    <3>2. tries' = [tries EXCEPT ![p] = tries[p]] /\ phase' = [phase EXCEPT ![p] = "down"]
      BY <2>1, <3>1
    <3>3. tries' = tries /\ tries[p] >= Tries
      BY <1>1, <2>2, <2>4, <3>2
    <3>4. Moves("down", 1)
      BY <1>1, <2>1, <2>2, <3>2, <3>3 DEF Moves
    <3>5. QED
      BY <1>5, <3>4
  <2>5. QED
    BY <2>3, <2>4
<1>11. CASE Killed(p)
  <2>1. /\ phase' = [phase EXCEPT ![p] = "down"] /\ at' = at /\ tries' = tries
        /\ busy' = busy /\ kills' = kills + 1 /\ kills < MaxKills
    BY <1>11 DEF Killed, To
  <2>2. Moves("down", at[p])
    BY <1>1, <1>7, <2>1 DEF Moves
  <2>3. QED
    BY <1>5, <1>7, <2>2
<1>12. CASE Transaction(p) /\ Raced(Setup[at[p]].flag, base)
  <2>1. /\ phase[p] = "write" /\ phase' = [phase EXCEPT ![p] = "read"]
        /\ at' = [at EXCEPT ![p] = at[p] + 1]
        /\ tries' = tries /\ busy' = busy /\ kills' = kills
    BY <1>1, <1>12 DEF Transaction, To, EnvRests
  <2>2. /\ at[p] \in 1..20 /\ base.tables
        /\ \A i \in 1..20 : i < at[p] => Setup[i].flag \in base.flags
    BY <1>6, <1>7, <2>1 DEF Setting
  <2>3. \A i \in 1..20 : i < at[p] + 1 => Setup[i].flag \in base.flags
    BY <1>12, <2>2 DEF Raced
  <2>4. at[p] + 1 \in 1..21
    BY <2>2
  <2>5. Moves("read", at[p] + 1)
    BY <1>1, <2>1, <2>2, <2>3, <2>4 DEF Moves
  <2>6. QED
    BY <1>5, <2>4, <2>5
<1>13. QED
  BY <1>8, <1>9, <1>10, <1>11, <1>12

\* Whoever is at work has every flag under it.
LEMMA AtWork ==
  ASSUME Inv, NEW p \in Process, phase[p] = "ready"
  PROVE  base \in Database /\ base.tables /\ base.flags = Flags
BY DEF Inv, StartupTypeOK, Setting, Database

\* Setting goes on for a process that rests while the database grows.
LEMMA SettingOn ==
  ASSUME NEW q \in Process, Setting(q), phase'[q] = phase[q], at'[q] = at[q],
         base.tables => base'.tables, base.flags \subseteq base'.flags
  PROVE  Setting(q)'
BY DEF Setting

LEMMA SchemaInv ==
  ASSUME Inv, NEW p \in Process, Schema(p)
  PROVE  Inv' /\ Claims
<1>1. /\ base \in Database /\ Sound(base)
      /\ phase \in [Process -> {"down", "schema", "read", "write", "ready"}]
      /\ at \in [Process -> 1..21]
  BY SetupIs DEF Inv, StartupTypeOK
<1>2. /\ phase[p] = "schema" /\ phase' = [phase EXCEPT ![p] = "read"]
      /\ at' = at /\ tries' = tries /\ busy' = busy /\ kills' = kills
      /\ found' = found /\ chosen' = chosen
      /\ base' = IF base.tables THEN base
                 ELSE [base EXCEPT !.tables = TRUE, !.columns = InSchema]
  BY DEF Schema, To, EnvRests, UserRests
<1>3. InSchema \subseteq Columns
  BY DEF InSchema, Columns
<1>4. /\ base' \in Database /\ base'.tables /\ base'.flags = base.flags /\ base'.old = base.old
      /\ base'.blocks = base.blocks /\ base'.stats = base.stats /\ base'.history = base.history
      /\ base'.sessions = base.sessions /\ base'.trusted = base.trusted /\ base'.row = base.row
      /\ base'.promoted = base.promoted /\ base'.switch = base.switch /\ base'.pool = base.pool
      /\ base.tables => base'.columns = base.columns
  <2>1. CASE base.tables
    BY <1>1, <1>2, <2>1
  <2>2. CASE ~base.tables
    BY <1>1, <1>2, <1>3, <2>2 DEF Database
  <2>3. QED
    BY <2>1, <2>2
<1>5. base.tables \/ base.flags = {}
  BY <1>1 DEF Sound, Nothing
<1>6. Sound(base')
  BY <1>1, <1>4, <1>5 DEF Sound
<1>7. StartupTypeOK'
  BY <1>1, <1>2, <1>4, SetupIs DEF Inv, StartupTypeOK
<1>8. \A q \in Process : Setting(q)'
  <2> TAKE q \in Process
  <2>1. CASE q = p
    <3>1. phase'[p] = "read" /\ at'[p] = 1 /\ base'.tables
      BY <1>1, <1>2, <1>4 DEF Inv, Setting
    <3>2. QED
      BY <2>1, <3>1 DEF Setting
  <2>2. CASE q # p
    <3>1. Setting(q) /\ phase'[q] = phase[q] /\ at'[q] = at[q]
      BY <1>1, <1>2, <2>2 DEF Inv
    <3>2. QED
      BY <1>4, <3>1, SettingOn
  <2>3. QED
    BY <2>1, <2>2
<1>9. Untouched' /\ SwitchKept'
  BY <1>2, <1>4 DEF Inv, Untouched, SwitchKept
<1>10. Claims
  <2>1. Earliest(base'.promoted) <= Earliest(base.promoted)
    BY <1>1, <1>4, EarliestIs
  <2>2. \A q \in Process : phase[q] # "down" => phase'[q] # "down"
    BY <1>1, <1>2
  <2>3. QED
    BY <1>4, <2>1, <2>2 DEF Claims, SeededOnce
<1>11. QED
  BY <1>6, <1>7, <1>8, <1>9, <1>10 DEF Inv

LEMMA TransactionInv ==
  ASSUME Inv, NEW p \in Process, Transaction(p), ~Raced(Setup[at[p]].flag, base)
  PROVE  Inv' /\ Claims
<1> DEFINE f == Setup[at[p]].flag
<1>1. /\ base \in Database /\ Sound(base)
      /\ phase \in [Process -> {"down", "schema", "read", "write", "ready"}]
      /\ at \in [Process -> 1..21]
  BY SetupIs DEF Inv, StartupTypeOK
<1>2. phase[p] = "write" /\ f \notin base.flags
  BY DEF Transaction, Raced
<1>3. at[p] \in 1..20 /\ base.tables /\ \A i \in 1..20 : i < at[p] => Setup[i].flag \in base.flags
  BY <1>1, <1>2 DEF Inv, Setting
<1>4. f \in Flags
  BY <1>3, StepsAre
<1>5. ~Refused(f, base)
  BY <1>2 DEF Refused, Added
<1>6. /\ phase' = [phase EXCEPT ![p] = "read"] /\ base' = Marked(f, Work(f, base))
      /\ at' = [at EXCEPT ![p] = at[p] + 1] /\ tries' = tries /\ busy' = busy
      /\ kills' = kills /\ found' = found /\ chosen' = chosen
  BY <1>5 DEF Transaction, To, EnvRests, UserRests
<1>7. /\ base' \in Database /\ Sound(base') /\ base'.tables /\ base'.flags = base.flags \cup {f}
      /\ "fair" \in base.history => "fair" \in base'.history
      /\ base'.pool # base.pool => f = "pools_seeded"
      /\ Earliest(base'.promoted) <= Earliest(base.promoted)
      /\ base'.sessions = base.sessions
      /\ base'.switch = IF f = "stratum_race_toggle" /\ base.sessions /\ base.switch = None THEN "1"
                        ELSE base.switch
  BY <1>1, <1>2, <1>3, <1>4, <1>6, WorkIs
<1>8. at[p] + 1 \in 1..21 /\ f = Setup[at[p]].flag
  BY <1>3
<1> HIDE DEF f
<1>9. StartupTypeOK'
  BY <1>1, <1>6, <1>7, <1>8, SetupIs DEF Inv, StartupTypeOK
<1>10. \A q \in Process : Setting(q)'
  <2> TAKE q \in Process
  <2>1. CASE q = p
    <3>1. phase'[p] = "read" /\ at'[p] = at[p] + 1
      BY <1>1, <1>6
    <3>2. \A i \in 1..20 : i < at[p] + 1 => Setup[i].flag \in base'.flags
      <4> TAKE i \in 1..20
      <4>1. CASE i < at[p]
        BY <1>3, <1>7, <4>1
      <4>2. CASE ~(i < at[p])
        <5>1. i < at[p] + 1 => i = at[p]
          BY <1>3, <4>2
        <5>2. QED
          BY <1>7, <1>8, <5>1
      <4>3. QED
        BY <4>1, <4>2
    <3>3. QED
      BY <1>7, <2>1, <3>1, <3>2 DEF Setting
  <2>2. CASE q # p
    <3>1. Setting(q) /\ phase'[q] = phase[q] /\ at'[q] = at[q]
      BY <1>1, <1>6, <2>2 DEF Inv
    <3>2. QED
      BY <1>7, <3>1, SettingOn
  <2>3. QED
    BY <2>1, <2>2
<1>11. Untouched'
  BY <1>6, <1>7 DEF Inv, Untouched
<1>12. SwitchKept'
  <2>1. CASE f = "stratum_race_toggle"
    <3>1. /\ base.switch = found.switch /\ base.sessions = found.sessions /\ chosen = None
          /\ "stratum_race_toggle" \notin found.flags
      BY <1>2, <2>1 DEF Inv, Untouched
    <3>2. QED
      BY <1>6, <1>7, <2>1, <3>1 DEF SwitchKept
  <2>2. CASE f # "stratum_race_toggle"
    BY <1>6, <1>7, <2>2 DEF Inv, SwitchKept
  <2>3. QED
    BY <2>1, <2>2
<1>13. Claims
  <2>1. \A q \in Process : phase[q] # "down" => phase'[q] # "down"
    BY <1>1, <1>6
  <2>2. SeededOnce => SeededOnce'
    BY <1>2, <1>7 DEF SeededOnce
  <2>3. QED
    BY <1>7, <2>1, <2>2 DEF Claims
<1>14. QED
  BY <1>7, <1>9, <1>10, <1>11, <1>12, <1>13 DEF Inv

\* What a process writes when it is ready.
LEMMA WorksInv ==
  ASSUME Inv, NEW p \in Process,
         Session(p) \/ Block(p) \/ PoolRace(p) \/ Switch(p) \/ RemovePool(p) \/ Promote(p)
  PROVE  Inv' /\ Claims
<1>1. phase[p] = "ready" /\ Idle
  BY DEF Session, Block, PoolRace, Switch, RemovePool, Promote, Works
<1>2. base \in Database /\ base.tables /\ base.flags = Flags /\ Sound(base)
  BY <1>1, AtWork DEF Inv
<1>3. /\ phase' = phase /\ at' = at /\ tries' = tries /\ busy' = busy /\ kills' = kills
      /\ found' = found
  BY <1>1 DEF Idle
<1>4. /\ base.promoted["bare"] \in Stamp /\ base.promoted["bracketed"] \in Stamp
      /\ Earliest(base.promoted) <= Earliest(base.promoted)
      /\ base.promoted \in [Spelling -> Stamp] /\ "bare" \in Spelling /\ "bracketed" \in Spelling
  BY <1>2, EarliestIs DEF Database, Spelling
<1>5. {"rollup_backfill", "trusted_peer_rows", "promoted_peer_canonical_ip", "stratum_history_reset",
       "stratum_race_toggle"} \subseteq Flags
  BY SetupIs, StepsAre
<1>6. ASSUME base' \in Database, base'.tables, base'.flags = base.flags,
             base'.columns = base.columns, base'.old = base.old,
             base'.stats = base'.blocks, base'.trusted = base.trusted, base'.row = base.row,
             base'.promoted["bracketed"] = base.promoted["bracketed"],
             Earliest(base'.promoted) <= Earliest(base.promoted),
             base.history \subseteq base'.history, base'.pool => base.pool,
             \/ base'.switch = base.switch /\ chosen' = chosen
             \/ base'.switch = chosen' /\ chosen' \in {"0", "1"}
      PROVE  Inv' /\ Claims
  <2>1. Sound(base')
    BY <1>2, <1>5, <1>6 DEF Sound
  <2>2. StartupTypeOK'
    BY <1>3, <1>6 DEF Inv, StartupTypeOK
  <2>3. \A q \in Process : Setting(q)'
    BY <1>3, <1>6, SettingOn DEF Inv
  <2>4. Untouched'
    BY <1>2, <1>3, <1>5, <1>6 DEF Inv, Untouched
  <2>5. SwitchKept'
    BY <1>2, <1>3, <1>5, <1>6 DEF Inv, SwitchKept, None
  <2>6. Claims
    BY <1>3, <1>6 DEF Claims, SeededOnce
  <2>7. QED
    BY <2>1, <2>2, <2>3, <2>4, <2>5, <2>6 DEF Inv
<1>7. base.stats = base.blocks
  BY <1>2, <1>5 DEF Sound
<1>8. CASE Session(p)
  <2>1. base' = [base EXCEPT !.sessions = TRUE] /\ chosen' = chosen
    BY <1>8 DEF Session
  <2>2. QED
    BY <1>2, <1>4, <1>6, <1>7, <2>1 DEF Database
<1>9. CASE Block(p)
  <2>1. base' = [base EXCEPT !.blocks = @ + 1, !.stats = @ + 1] /\ chosen' = chosen
    BY <1>9 DEF Block
  <2>2. base.blocks \in Nat /\ base.stats \in Nat
    BY <1>2 DEF Database
  <2> DEFINE b == base.blocks + 1
             s == base.stats + 1
             e == [base EXCEPT !.blocks = b]
  <2>3. b \in Nat /\ s \in Nat /\ base' = [e EXCEPT !.stats = s]
    BY <2>1, <2>2
  <2> HIDE DEF b, s
  <2>4. /\ e \in Database /\ e.blocks = b
        /\ e.tables = base.tables /\ e.flags = base.flags
        /\ e.columns = base.columns /\ e.old = base.old
        /\ e.history = base.history /\ e.trusted = base.trusted
        /\ e.row = base.row /\ e.promoted = base.promoted
        /\ e.switch = base.switch /\ e.pool = base.pool
    BY <1>2, <2>3 DEF Database
  <2> HIDE DEF e
  <2>5. /\ base' \in Database /\ base'.blocks = b /\ base'.stats = s
        /\ base'.tables = base.tables /\ base'.flags = base.flags
        /\ base'.columns = base.columns /\ base'.old = base.old
        /\ base'.history = base.history /\ base'.trusted = base.trusted
        /\ base'.row = base.row /\ base'.promoted = base.promoted
        /\ base'.switch = base.switch /\ base'.pool = base.pool
    BY <2>3, <2>4 DEF Database
  <2>6. b = s
    BY <1>7 DEF b, s
  <2>7. Earliest(base'.promoted) <= Earliest(base.promoted)
    BY <1>4, <2>5, Zenon
  <2>8. QED
    BY <1>2, <1>6, <2>1, <2>5, <2>6, <2>7
<1>10. CASE PoolRace(p)
  <2>1. base' = [base EXCEPT !.history = @ \cup {"fair"}] /\ chosen' = chosen
    BY <1>10 DEF PoolRace
  <2>2. QED
    BY <1>2, <1>4, <1>6, <1>7, <2>1 DEF Database
<1>11. CASE Switch(p)
  <2>1. PICK s \in {"0", "1"} : chosen' = s /\ base' = [base EXCEPT !.switch = s]
    BY <1>11 DEF Switch
  <2>2. QED
    BY <1>2, <1>4, <1>6, <1>7, <2>1 DEF Database
<1>12. CASE RemovePool(p)
  <2>1. base' = [base EXCEPT !.pool = FALSE] /\ chosen' = chosen
    BY <1>12 DEF RemovePool
  <2>2. QED
    BY <1>2, <1>4, <1>6, <1>7, <2>1 DEF Database
<1>13. CASE Promote(p)
  <2> DEFINE bare == IF base.promoted["bare"] = Never THEN 3 ELSE base.promoted["bare"]
             q == [base.promoted EXCEPT !["bare"] = bare]
  <2>1. base' = [base EXCEPT !.promoted = q] /\ chosen' = chosen
    BY <1>13 DEF Promote
  <2>2. bare \in Stamp /\ bare <= base.promoted["bare"]
    BY <1>4, StampsAre
  <2>3. q \in [Spelling -> Stamp] /\ q["bare"] = bare /\ q["bracketed"] = base.promoted["bracketed"]
    BY <1>4, <2>2
  <2>4. Earliest(q) <= Earliest(base.promoted)
    BY <1>4, <2>2, <2>3, StampsAre DEF Earliest
  <2> HIDE DEF q
  <2>5. QED
    BY <1>2, <1>6, <1>7, <2>1, <2>3, <2>4 DEF Database
<1>14. QED
  BY <1>8, <1>9, <1>10, <1>11, <1>12, <1>13
-----------------------------------------------------------------------------
LEMMA StepInv == Inv /\ [Next]_vars => Inv' /\ [Claims]_vars
<1> SUFFICES ASSUME Inv, [Next]_vars PROVE Inv' /\ [Claims]_vars
  OBVIOUS
<1>1. CASE UNCHANGED vars
  <2>1. Inv'
    BY <1>1 DEF vars, Inv, StartupTypeOK, Sound, Setting, Untouched, SwitchKept
  <2>2. QED
    BY <1>1, <2>1
<1>2. CASE Next
  <2>1. PICK p \in Process :
          \/ Start(p) \/ Schema(p) \/ ReadFlags(p) \/ Transaction(p)
          \/ Busy(p) \/ Killed(p)
          \/ Session(p) \/ Block(p) \/ PoolRace(p) \/ Switch(p) \/ RemovePool(p) \/ Promote(p)
    BY <1>2 DEF Next
  <2>2. CASE Start(p) \/ ReadFlags(p) \/ Busy(p) \/ Killed(p)
    <3>1. UNCHANGED <<base, found, chosen>>
      BY <2>2 DEF Start, ReadFlags, Busy, Killed, EnvRests, UserRests
    <3>2. QED
      BY <2>2, <3>1, AloneInv
  <2>3. CASE Transaction(p)
    <3>1. CASE Raced(Setup[at[p]].flag, base)
      <4>1. UNCHANGED <<base, found, chosen>>
        BY <2>3, <3>1 DEF Transaction, EnvRests, UserRests
      <4>2. QED
        BY <2>3, <3>1, <4>1, AloneInv
    <3>2. CASE ~Raced(Setup[at[p]].flag, base)
      BY <2>3, <3>2, TransactionInv
    <3>3. QED
      BY <3>1, <3>2
  <2>4. QED
    BY <2>1, <2>2, <2>3, SchemaInv, WorksInv
<1>3. QED
  BY <1>1, <1>2

LEMMA AllInv == Spec => []Inv /\ [][Claims]_vars
<1>1. Init => Inv
  BY InitInv
<1>2. Inv /\ [Next]_vars => Inv' /\ [Claims]_vars
  BY StepInv
<1>3. QED
  BY <1>1, <1>2, PTL DEF Spec

(***************************************************************************)
(* The results.                                                            *)
(***************************************************************************)
\* A process that is ready has the whole database of this version under it
\* (open of lib/db.js), whoever did the setup and however it was cut short.
THEOREM WholeWhenReady == Spec => []ReadyOnWhole
<1>1. Inv => ReadyOnWhole
  <2> SUFFICES ASSUME Inv, NEW p \in Process, phase[p] = "ready"
      PROVE  /\ base.tables /\ base.flags = Flags /\ base.columns = Columns /\ base.old = {}
             /\ base.stats = base.blocks
             /\ base.trusted # Never => base.row
             /\ base.promoted["bracketed"] = Never
    BY DEF ReadyOnWhole
  <2>1. base \in Database /\ base.tables /\ base.flags = Flags /\ Sound(base)
    BY AtWork DEF Inv
  <2>2. {"rollup_backfill", "trusted_peer_rows", "promoted_peer_canonical_ip"} \subseteq Flags
    BY SetupIs, StepsAre
  <2>3. base.columns = Columns /\ base.old = {}
    BY <2>1, StepsAre DEF Sound, Database
  <2>4. QED
    BY <2>1, <2>2, <2>3 DEF Sound
<1>2. QED
  BY <1>1, AllInv, PTL

\* The switch of the pool race stays where the user put it, and an update turns
\* it on only where the race was in use (the migration stratum_race_toggle).
THEOREM SwitchStays == Spec => []SwitchKept
<1>1. Inv => SwitchKept
  BY DEF Inv
<1>2. QED
  BY <1>1, AllInv, PTL

\* No setup clears the pool races this version measured (stratum_history_reset).
THEOREM MeasuredStays == Spec => MeasuredKept
<1>1. [Claims]_vars => ["fair" \in base.history => "fair" \in base'.history]_vars
  BY DEF Claims
<1>2. QED
  BY <1>1, AllInv, PTL DEF MeasuredKept

\* A pool that was removed, with this version or before, stays removed through any
\* later starts of any of the processes, all of them at once included: the mark that
\* the pools were seeded outlives the pool (seedDefaultPools).
THEOREM RemovedStays == Spec => PoolsStayRemoved
<1>1. [Claims]_vars => (SeededOnce => SeededOnce')
  BY DEF Claims, vars, SeededOnce
<1>2. Inv => (~base.pool /\ (\/ "pools_seeded" \in found.flags
                             \/ \E p \in Process : phase[p] = "ready")
              => SeededOnce)
  <2> SUFFICES ASSUME Inv, ~base.pool,
                      "pools_seeded" \in found.flags \/ \E p \in Process : phase[p] = "ready"
               PROVE  SeededOnce
    OBVIOUS
  <2>1. "pools_seeded" \in Flags
    BY SetupIs, StepsAre
  <2>2. CASE "pools_seeded" \in found.flags
    BY <2>2 DEF Inv, Untouched, SeededOnce
  <2>3. CASE \E p \in Process : phase[p] = "ready"
    BY <2>1, <2>3, AtWork DEF SeededOnce
  <2>4. QED
    BY <2>2, <2>3
<1>3. SeededOnce => ~base.pool
  BY DEF SeededOnce
<1>4. QED
  BY <1>1, <1>2, <1>3, AllInv, PTL DEF PoolsStayRemoved

\* Neither a migration nor a promotion makes a host newer than it was
\* (promoted_peer_backfill and promoted_peer_canonical_ip).
THEOREM FirstStays == Spec => FirstKept
<1>1. [Claims]_vars => [Earliest(base'.promoted) <= Earliest(base.promoted)]_vars
  BY DEF Claims
<1>2. QED
  BY <1>1, AllInv, PTL DEF FirstKept

\* No process dies of what another one did to the database (migrate reads the
\* flag again inside its transaction).
THEOREM NobodyRefused == Spec => NoneTurnedAway
<1>1. [Claims]_vars =>
        [\A p \in Process : phase[p] # "down" /\ phase'[p] = "down" =>
           kills' # kills \/ (busy' # busy /\ tries[p] >= Tries)]_vars
  BY DEF Claims
<1>2. QED
  BY <1>1, AllInv, PTL DEF NoneTurnedAway
=============================================================================
