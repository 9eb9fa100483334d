------------------------------ MODULE Startup ------------------------------
(***************************************************************************)
(* Opening the shared database (lib/db.js): the four processes of the app  *)
(* start at once and open one SQLite file, new or left by any earlier      *)
(* version. Each creates what is missing, runs the migrations, each        *)
(* guarded by a flag row, and seeds the pools; it starts over on a busy    *)
(* file, and Docker starts it again when it dies. A process that is done   *)
(* works on the file while the others still set it up.                     *)
(*                                                                         *)
(* A transaction is one step. Of the data, what a migration reads or       *)
(* writes is represented: one measured peer, one kept host, one pool.      *)
(***************************************************************************)
EXTENDS Integers, Sequences, FiniteSets

CONSTANTS
  Process,   \* the processes that start, of the four
  Releases,  \* the versions an installed database may come from
  Tries,     \* how often open() tries
  MaxBusy,   \* bound of the times the file is busy
  MaxKills,  \* bound of the times a process is killed
  MaxCount   \* bound of the blocks measured

ASSUME StartupAssumption ==
  /\ Process \subseteq {"dashboard", "peers", "relay", "race"}
  /\ Releases \subseteq Nat
  /\ Tries \in Nat \ {0} /\ MaxBusy \in Nat /\ MaxKills \in Nat /\ MaxCount \in Nat

VARIABLES
  base,     \* the database
  phase,    \* where each process is
  at,       \* the step of the setup it is at
  tries,    \* attempt
  busy, kills,
  found,    \* the database as this version found it: nobody reads it
  chosen    \* the switch as the user last set it, since this version: nobody reads it

vars == <<base, phase, at, tries, busy, kills, found, chosen>>

None == "none"
Never == 9  \* later than any time

\* The migrations in the order of the code, each with the version that brought
\* it (1.16.4 is 11604). They did not come in that order.
Migrations ==
  << [flag |-> "rollup_backfill", since |-> 10900],
     [flag |-> "stratum_history_reset", since |-> 11200],
     [flag |-> "drop_redundant_indexes", since |-> 11300],
     [flag |-> "drop_relay_obs_peer_index", since |-> 12301],
     [flag |-> "trusted_peer_rows", since |-> 11505],
     [flag |-> "promoted_peer_backfill", since |-> 11510],
     [flag |-> "promoted_peer_canonical_ip", since |-> 12301],
     [flag |-> "peer_session_network", since |-> 11600],
     [flag |-> "trusted_peer_kept", since |-> 11600],
     [flag |-> "relay_race_attribution", since |-> 11604],
     [flag |-> "stratum_race_toggle", since |-> 11603],
     [flag |-> "relay_race_route", since |-> 12200],
     [flag |-> "drop_peer_traffic", since |-> 12501],
     [flag |-> "traffic", since |-> 12500],
     [flag |-> "relay_race_template_tx", since |-> 12400],
     [flag |-> "relay_race_pool", since |-> 12000],
     [flag |-> "bip152_hb", since |-> 20000],
     [flag |-> "bip152_hb_from", since |-> 20004],
     [flag |-> "peer_session_services", since |-> 11800] >>

\* The last step, seedDefaultPools, is guarded like a migration.
Setup == Append(Migrations, [flag |-> "pools_seeded", since |-> 0])
Flags == {Setup[i].flag : i \in DOMAIN Setup}
DoneBy(v) == {Setup[i].flag : i \in {j \in DOMAIN Setup : Setup[j].since <= v}}

\* The migrations that add columns or, "traffic", a table; what they add is named
\* after them.
Columns ==
  {"traffic", "peer_session_network", "trusted_peer_kept", "relay_race_attribution",
   "relay_race_route", "relay_race_template_tx", "relay_race_pool", "bip152_hb",
   "bip152_hb_from", "peer_session_services"}

\* Those SCHEMA has as well; the others are only added by their migration.
InSchema ==
  {"peer_session_network", "trusted_peer_kept", "bip152_hb", "bip152_hb_from",
   "peer_session_services"}

\* The indexes and the table an earlier version made and this one drops.
Old == {"drop_redundant_indexes", "drop_relay_obs_peer_index", "drop_peer_traffic"}

Spelling == {"bare", "bracketed"}
Stamp == {1, 2, 3, Never}  \* 3 is now
Unkept == [s \in Spelling |-> Never]
Earliest(p) == IF p["bare"] < p["bracketed"] THEN p["bare"] ELSE p["bracketed"]

\* A new file has no table; SCHEMA then makes them all.
Nothing ==
  [tables |-> FALSE, flags |-> {}, columns |-> {}, old |-> {}, blocks |-> 0, stats |-> 0,
   history |-> {}, sessions |-> FALSE, trusted |-> Never, parked |-> Never, row |-> FALSE,
   promoted |-> Unkept, switch |-> None, pool |-> FALSE]

\* What the setup of version v left, and any data.
Made(v) ==
  [tables : {TRUE}, flags : {DoneBy(v)}, columns : {DoneBy(v) \cap Columns},
   old : {Old \ DoneBy(v)}, blocks : 0..1, stats : 0..1,
   history : SUBSET {"biased", "fair"}, sessions : BOOLEAN,
   trusted : Stamp \ {3}, parked : Stamp \ {3}, row : BOOLEAN,
   promoted : [Spelling -> Stamp \ {3}], switch : {None, "0", "1"}, pool : BOOLEAN]

\* What version v may have left. Before the first ranking totals, before the
\* race was reset, before promotions were recorded or spelled one way: each
\* shows in what its migration is about.
Left(v) ==
  {d \in Made(v) :
     /\ d.stats = IF v < 10900 THEN 0 ELSE d.blocks
     /\ d.history \subseteq IF v < 11200 THEN {"biased"} ELSE {"fair"}
     /\ d.blocks > 0 \/ d.history # {} => d.sessions
     /\ d.row => d.trusted # Never \/ d.sessions
     /\ d.trusted # Never /\ v >= 11505 => d.row
     /\ v < 11510 => d.promoted = Unkept
     /\ v >= 12301 => d.promoted["bracketed"] = Never
     /\ v < 11603 => d.switch = None}
-----------------------------------------------------------------------------
(* What each migration does.                                               *)

Lower(x, y) == IF x < y THEN x ELSE y

Backfilled(d) == [d EXCEPT !.stats = d.blocks]

HistoryReset(d) == [d EXCEPT !.history = {}]

WithPeerRow(d) == [d EXCEPT !.row = @ \/ d.trusted # Never]

\* The manual set first, INSERT OR IGNORE, and without brackets.
KeptCounted(d) ==
  [d EXCEPT !.promoted["bare"] =
     IF @ # Never THEN @ ELSE IF d.trusted # Never THEN d.trusted ELSE d.parked]

\* Wrong on purpose: the bracketed row replaces the bare one.
BracketsWin(d) ==
  [d EXCEPT !.promoted = [bare |-> IF @["bracketed"] # Never THEN @["bracketed"] ELSE @["bare"],
                          bracketed |-> Never]]

OneSpelling(d) ==
  [d EXCEPT !.promoted = [bare |-> Lower(@["bare"], @["bracketed"]), bracketed |-> Never]]

\* Wrong on purpose: an install without a block is taken for a new one.
OnAfterBlocks(d) == [d EXCEPT !.switch = IF d.blocks > 0 /\ @ = None THEN "1" ELSE @]

SwitchedOn(d) == [d EXCEPT !.switch = IF d.sessions /\ @ = None THEN "1" ELSE @]

Seeded(d) == [d EXCEPT !.pool = TRUE]

\* Wrong on purpose: adds the columns without looking.
AddedUnchecked(flag, d) == {flag} \cap Columns

\* ALTER TABLE adds the columns, CREATE TABLE IF NOT EXISTS the table, it does
\* not find.
Added(flag, d) == ({flag} \cap Columns) \ d.columns

WithColumn(d, flag) == [d EXCEPT !.columns = @ \cup Added(flag, d)]

Without(d, i) == [d EXCEPT !.old = @ \ {i}]

Work(flag, d) ==
  CASE flag = "rollup_backfill" -> Backfilled(d)
    [] flag = "stratum_history_reset" -> HistoryReset(d)
    [] flag = "trusted_peer_rows" -> WithPeerRow(d)
    [] flag = "promoted_peer_backfill" -> KeptCounted(d)
    [] flag = "promoted_peer_canonical_ip" -> OneSpelling(d)
    [] flag = "stratum_race_toggle" -> SwitchedOn(d)
    [] flag = "pools_seeded" -> Seeded(d)
    [] flag \in Columns -> WithColumn(d, flag)
    [] flag \in Old -> Without(d, flag)

\* Wrong on purpose: the flag is not read again.
NotAsked(flag, d) == FALSE

\* The flag is read again in the transaction: another process may have been
\* first.
Raced(flag, d) == flag \in d.flags

\* Wrong on purpose: the flag is not written.
NotMarked(flag, d) == d

\* Wrong on purpose: nothing says that the pools are seeded.
MarkedNotPools(flag, d) ==
  IF flag = "pools_seeded" THEN d ELSE [d EXCEPT !.flags = @ \cup {flag}]

\* INSERT INTO meta
Marked(flag, d) == [d EXCEPT !.flags = @ \cup {flag}]

\* SQLite refuses a second row with one key, and a second column of one name.
Refused(flag, d) == flag \in d.flags \/ Added(flag, d) \cap d.columns # {}
-----------------------------------------------------------------------------
Init ==
  /\ \/ base = Nothing
     \/ \E v \in Releases : base \in Left(v)
  /\ found = base
  /\ chosen = None
  /\ phase = [p \in Process |-> "down"] /\ at = [p \in Process |-> 1]
  /\ tries = [p \in Process |-> 0]
  /\ busy = 0 /\ kills = 0

To(p, where) == phase' = [phase EXCEPT ![p] = where]

UserRests == UNCHANGED <<found, chosen>>
EnvRests == UNCHANGED <<busy, kills>> /\ UserRests

\* Its container starts, and the process calls open().
Start(p) ==
  /\ phase[p] = "down"
  /\ To(p, "schema") /\ at' = [at EXCEPT ![p] = 1] /\ tries' = [tries EXCEPT ![p] = 1]
  /\ UNCHANGED base /\ EnvRests

\* CREATE ... IF NOT EXISTS makes what this version's schema has and the file
\* does not, but no column of a table that is there.
Schema(p) ==
  /\ phase[p] = "schema"
  /\ base' = IF base.tables THEN base
             ELSE [base EXCEPT !.tables = TRUE, !.columns = InSchema]
  /\ To(p, "read")
  /\ UNCHANGED <<at, tries>> /\ EnvRests

\* Reads the flags until one is missing.
ReadFlags(p) ==
  /\ phase[p] = "read"
  /\ LET missing == {i \in at[p]..Len(Setup) : Setup[i].flag \notin base.flags}
     IN IF missing = {} THEN To(p, "ready") /\ UNCHANGED at
        ELSE /\ To(p, "write")
             /\ at' = [at EXCEPT ![p] = CHOOSE i \in missing : \A j \in missing : i <= j]
  /\ UNCHANGED <<base, tries>> /\ EnvRests

\* BEGIN IMMEDIATE: the flag read again, the work and the flag. An error that
\* is not a busy file ends the process.
Transaction(p) ==
  /\ phase[p] = "write"
  /\ LET flag == Setup[at[p]].flag
     IN CASE Raced(flag, base) -> To(p, "read") /\ UNCHANGED base
          [] ~Raced(flag, base) /\ Refused(flag, base) -> To(p, "down") /\ UNCHANGED base
          [] OTHER -> To(p, "read") /\ base' = Marked(flag, Work(flag, base))
  /\ at' = [at EXCEPT ![p] = @ + 1]
  /\ UNCHANGED tries /\ EnvRests

\* Wrong on purpose: db is not cleared, and the next attempt takes it for open.
AfterBusyHalfOpen(p) == IF tries[p] < Tries THEN "ready" ELSE "down"

\* After the last attempt the error is thrown and the process exits.
AfterBusy(p) == IF tries[p] < Tries THEN "schema" ELSE "down"

\* The connection is thrown away and the setup run from its beginning.
Busy(p) ==
  /\ phase[p] \in {"schema", "read", "write"} /\ busy < MaxBusy
  /\ busy' = busy + 1
  /\ To(p, AfterBusy(p))
  /\ at' = [at EXCEPT ![p] = 1]
  /\ tries' = [tries EXCEPT ![p] = IF AfterBusy(p) = "schema" THEN @ + 1 ELSE @]
  /\ UNCHANGED <<base, kills>> /\ UserRests

\* At any point, the one between two transactions included.
Killed(p) ==
  /\ phase[p] # "down" /\ kills < MaxKills
  /\ kills' = kills + 1
  /\ To(p, "down")
  /\ UNCHANGED <<base, at, tries, busy>> /\ UserRests
-----------------------------------------------------------------------------
(* What the processes write when they are ready, as far as a migration     *)
(* reads or writes it too.                                                 *)

Works(p, who) == p = who /\ phase[p] = "ready"

Idle == UNCHANGED <<phase, at, tries, busy, kills, found>>

\* A peer's session begins.
Session(p) ==
  /\ Works(p, "peers") /\ ~base.sessions
  /\ base' = [base EXCEPT !.sessions = TRUE]
  /\ UNCHANGED chosen /\ Idle

\* A block: the trigger of the observation keeps the totals.
Block(p) ==
  /\ Works(p, "relay") /\ base.blocks < MaxCount
  /\ base' = [base EXCEPT !.blocks = @ + 1, !.stats = @ + 1]
  /\ UNCHANGED chosen /\ Idle

\* The pools are raced while the switch is on.
PoolRace(p) ==
  /\ Works(p, "race") /\ base.switch = "1"
  /\ base' = [base EXCEPT !.history = @ \cup {"fair"}]
  /\ UNCHANGED chosen /\ Idle

\* setEnabled
Switch(p) ==
  /\ Works(p, "dashboard")
  /\ \E s \in {"0", "1"} : chosen' = s /\ base' = [base EXCEPT !.switch = s]
  /\ Idle

RemovePool(p) ==
  /\ Works(p, "dashboard") /\ base.pool
  /\ base' = [base EXCEPT !.pool = FALSE]
  /\ UNCHANGED chosen /\ Idle

\* logAction of the rotation, which the peer profiler runs.
Promote(p) ==
  /\ Works(p, "peers")
  /\ base' = [base EXCEPT !.promoted["bare"] = IF @ = Never THEN 3 ELSE @]
  /\ UNCHANGED chosen /\ Idle
-----------------------------------------------------------------------------
SetupStep(p) == Start(p) \/ Schema(p) \/ ReadFlags(p) \/ Transaction(p)

Next ==
  \E p \in Process :
    \/ Start(p) \/ Schema(p) \/ ReadFlags(p) \/ Transaction(p)
    \/ Busy(p) \/ Killed(p)
    \/ Session(p) \/ Block(p) \/ PoolRace(p) \/ Switch(p) \/ RemovePool(p) \/ Promote(p)

\* Docker starts a process that is down, and nothing stops one that runs.
Fairness == \A p \in Process : WF_vars(SetupStep(p))

Spec == Init /\ [][Next]_vars /\ Fairness
-----------------------------------------------------------------------------
Database ==
  [tables : BOOLEAN, flags : SUBSET Flags, columns : SUBSET Columns, old : SUBSET Old,
   blocks : Nat, stats : Nat, history : SUBSET {"biased", "fair"}, sessions : BOOLEAN,
   trusted : Stamp, parked : Stamp, row : BOOLEAN, promoted : [Spelling -> Stamp],
   switch : {None, "0", "1"}, pool : BOOLEAN]

StartupTypeOK ==
  /\ base \in Database
  /\ phase \in [Process -> {"down", "schema", "read", "write", "ready"}]
  /\ at \in [Process -> 1..(Len(Setup) + 1)] /\ tries \in [Process -> 0..Tries]
  /\ busy \in 0..MaxBusy /\ kills \in 0..MaxKills
  /\ found \in Database /\ chosen \in {None, "0", "1"}

\* A process that is ready has this version's whole database under it, with
\* totals that agree with the blocks measured, however its own setup was cut
\* short and whoever did the rest.
ReadyOnWhole ==
  (\E p \in Process : phase[p] = "ready") =>
    /\ base.tables /\ base.flags = Flags /\ base.columns = Columns /\ base.old = {}
    /\ base.stats = base.blocks
    /\ base.trusted # Never => base.row
    /\ base.promoted["bracketed"] = Never

\* The switch is where the user last put it. Until then it is where an older
\* version left it, or on if that was in use and had no switch; a new install
\* is never switched on by itself, however late a process sets it up.
SwitchKept ==
  "stratum_race_toggle" \in base.flags =>
    base.switch = IF chosen # None THEN chosen
                  ELSE IF found.switch = None /\ "stratum_race_toggle" \notin found.flags
                            /\ found.sessions
                       THEN "1" ELSE found.switch

\* The pool races this version measured survive every later setup: the history
\* of the old ones is cleared before, once.
MeasuredKept == [][ "fair" \in base.history => "fair" \in base'.history ]_vars

\* A pool the user removed, with this version or an earlier one, never comes back by
\* itself: not with a process that read the flags before it was seeded, nor when one
\* of the four starts again or all of them do.
PoolsStayRemoved ==
  [](~base.pool /\ (\/ "pools_seeded" \in found.flags
                    \/ \E p \in Process : phase[p] = "ready")
     => []~base.pool)

\* The record of when a host was first kept never moves to a later day.
FirstKept == [][ Earliest(base'.promoted) <= Earliest(base.promoted) ]_vars

\* A process that is setting up exits only because it is killed, or because
\* the file was busy at its last attempt: four that start at once do not turn
\* each other away.
NoneTurnedAway ==
  [][ \A p \in Process : phase[p] # "down" /\ phase'[p] = "down" =>
        kills' # kills \/ (busy' # busy /\ tries[p] >= Tries) ]_vars
============================================================================
