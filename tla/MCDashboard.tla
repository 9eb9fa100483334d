---------------------------- MODULE MCDashboard ----------------------------
(***************************************************************************)
(* The parts of the dashboard that wait for answers: a block on its way to *)
(* the page, the peer tables, the rotation switch, and the calls to Core.  *)
(* They share nothing, so a behaviour follows one of them, its focus.      *)
(***************************************************************************)
EXTENDS LiveBlocks, PeerTables, RotationSwitch, RpcCall

VARIABLE focus

dashboardVars == <<liveVars, tableVars, switchVars, rpcVars, focus>>

Init ==
  /\ focus \in {"block", "rows", "loop", "switch", "call"}
  /\ LiveInit /\ TablesInit /\ SwitchInit /\ RpcInit
  /\ focus # "block" => newest = NoRace
  /\ focus # "switch" => enabled

\* With the rows in focus the page is not hidden; with the loop in focus no row
\* is acted on.
RowsNext == TablesNext /\ UNCHANGED <<hidden, timer, running>>
LoopNext == TablesNext /\ UNCHANGED <<action, clock, pressed>>

BlockStep == focus = "block" /\ LiveNext /\ UNCHANGED <<tableVars, switchVars, rpcVars, focus>>
RowsStep == focus = "rows" /\ RowsNext /\ UNCHANGED <<liveVars, switchVars, rpcVars, focus>>
LoopStep == focus = "loop" /\ LoopNext /\ UNCHANGED <<liveVars, switchVars, rpcVars, focus>>
SwitchStep == focus = "switch" /\ SwitchNext /\ UNCHANGED <<liveVars, tableVars, rpcVars, focus>>
CallStep == focus = "call" /\ RpcNext /\ UNCHANGED <<liveVars, tableVars, switchVars, focus>>

Next == BlockStep \/ RowsStep \/ LoopStep \/ SwitchStep \/ CallStep

\* Out of focus, no action that is fair is enabled.
Spec == Init /\ [][Next]_dashboardVars /\ LiveFairness /\ RpcFairness

\* The texts of the replies: two that hold the needle, in pieces and whole.
Quoted == <<"q", "t", "q">>
ReplyTexts ==
  {<< >>, <<"c">>, <<"q", "t", "q", "c", "q", "t", "q">>, <<"q", "q", "t", "q", "t", "c">>}
=============================================================================
