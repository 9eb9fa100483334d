--------------------------- MODULE MCPeerProfiler ---------------------------
(***************************************************************************)
(* PeerProfiler with a focus. What the sessions, the pruning, the traffic  *)
(* and the passes read of each other is little: each behaviour varies what *)
(* one of them reads and writes, and leaves the rest at rest. The passes   *)
(* come, in some behaviours, to an environment that rests: Core stays up   *)
(* and answers, and so does the profiler.                                  *)
(***************************************************************************)
EXTENDS PeerProfiler, TLC

CONSTANT Far  \* addresses that only a pass over the saved peers has to do with

VARIABLE focus

mcVars == <<vars, focus>>

StudyInit ==
  /\ Init
  /\ focus \in {"sessions", "pruning", "traffic", "passes"}
  /\ focus # "pruning" => parked = {}
  /\ focus = "traffic" => saved = {}
  /\ focus # "passes" => (saved \cup parked) \cap Far = {}

AtRest ==
  CASE focus = "sessions" -> <<moved, last, uptime, down, passes, relay>>
    [] focus = "pruning" -> <<moved, last, uptime, down, passes, up>>
    [] focus = "traffic" -> <<conns, uptime, down, passes>>
    [] OTHER -> <<conns, moved, last, known>>

StudyNext ==
  /\ focus # "calm" /\ UNCHANGED focus
  /\ Next /\ UNCHANGED AtRest /\ \A a \in Far : conns'[a] = None

CalmDown == focus = "passes" /\ up /\ focus' = "calm" /\ UNCHANGED vars

Calm(step) == focus = "calm" /\ step /\ UNCHANGED focus

\* The questions of a poll, answered.
Asking == PollPeers \/ (PollUptime /\ uptime' = now - born) \/ PollTotals

CalmNext == Calm(Asking) \/ \E s \in Passes : Calm(PassStep(s))

\* The poll of every 15 seconds goes on, and so does the pass it has started. Nothing
\* is asked of the ten-minute interval.
StudySpec ==
  /\ StudyInit /\ [][StudyNext \/ CalmDown \/ CalmNext]_mcVars
  /\ WF_mcVars(Calm(Asking)) /\ WF_mcVars(Calm(PassStep("restore")))

\* The sign of a restart that the next poll will see: Core did not answer the last
\* one, or has been up for less long than it said then.
Sign == down \/ (uptime # Never /\ now - born < uptime)

\* Core "used to" get its manual peers back "only with the next 10-minute sync"
\* (peer-profiler.js:254): now the sign of a restart is enough, however it comes
\* about, with failed readings and earlier repairs before it. So is a repair that has
\* yet to read Core's list; one that is at its adds already (restoring) uses the sign
\* up, and what Core has lost since its list waits for the ten minutes.
Restored ==
  (/\ focus = "calm" /\ passes["restore"].todo = {}
   /\ Sign \/ passes["restore"].at = "list")
  ~> saved \subseteq held
=============================================================================
