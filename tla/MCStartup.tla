----------------------------- MODULE MCStartup -----------------------------
(***************************************************************************)
(* Startup, with installs that differ from a plain one in one concern at a *)
(* time: the blocks, the pool races and the switch, the kept host, or the  *)
(* pool. No migration and no process reads the data of two of them. Two of *)
(* the four processes run in a behaviour, those that write what it is      *)
(* about; the others stay down. Two things go wrong at most.               *)
(***************************************************************************)
EXTENDS Startup

VARIABLE running

mcVars == <<vars, running>>

PlainBlocks == base.blocks = 0
PlainRaces == base.history = {} /\ base.switch = None
PlainHost == base.trusted = Never /\ base.parked = Never /\ base.promoted = Unkept /\ ~base.row
PlainPool == base.pool

StudyInit ==
  /\ Init
  /\ \/ base = Nothing /\ running \in {{"peers", "race"}, {"peers", "dashboard"}}
     \/ PlainRaces /\ PlainHost /\ PlainPool /\ running = {"peers", "relay"}
     \/ PlainBlocks /\ PlainHost /\ PlainPool /\ running = {"race", "dashboard"}
     \/ /\ PlainBlocks /\ PlainRaces /\ PlainPool /\ ~base.sessions /\ base.row
        /\ "promoted_peer_backfill" \in base.flags => base.trusted = 1 /\ base.parked = Never
        /\ running = {"peers", "race"}
     \/ PlainBlocks /\ PlainRaces /\ PlainHost /\ running = {"dashboard", "race"}

StudyNext ==
  /\ Next /\ UNCHANGED running
  /\ \A p \in Process \ running : UNCHANGED phase[p]
  /\ busy' + kills' <= 2

StudyFairness == \A p \in Process : WF_mcVars(p \in running /\ SetupStep(p) /\ UNCHANGED running)

StudySpec == StudyInit /\ [][StudyNext]_mcVars /\ StudyFairness

\* Once nothing is killed and the file not busy, every process gets to work.
AllReady == <>[](\A p \in running : phase[p] = "ready")
============================================================================
