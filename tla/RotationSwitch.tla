--------------------------- MODULE RotationSwitch ---------------------------
(***************************************************************************)
(* The rotation switch of the page: a click posts the new setting, and the *)
(* panel is read every now and then and after each click                   *)
(* (dashboard/public/app.js, peer-rotation/index.js). Requests and answers *)
(* overtake each other. One page is open: another one would change the     *)
(* setting behind this one's back until the panel is read again.           *)
(***************************************************************************)
EXTENDS Integers, FiniteSets

CONSTANTS
  MaxClicks, \* bound of the clicks
  MaxReads,  \* bound of the times the panel is read
  Lossy      \* TRUE when a request or its answer may be lost

ASSUME SwitchAssumption == {MaxClicks, MaxReads} \subseteq Nat /\ Lossy \in BOOLEAN

VARIABLES
  enabled, \* peer_rotation_enabled
  box,     \* the checkbox
  epoch,   \* rotationToggleEpoch
  posts,   \* the settings on their way, with what the server stored
  reads,   \* the panels on their way, each with the epoch it left at
  clicks, readings,
  lost     \* whether a request was lost: nobody reads it

switchVars == <<enabled, box, epoch, posts, reads, clicks, readings, lost>>

Unserved == "unserved"

SwitchInit ==
  /\ enabled \in BOOLEAN /\ box = FALSE  \* as in the markup
  /\ epoch = 0 /\ posts = {} /\ reads = {} /\ clicks = 0 /\ readings = 0 /\ lost = FALSE

\* Wrong on purpose: only an answer that comes while a click is on its way is
\* left out, as with a flag.
NoneUnderWay(g) == posts = {}
SameEpoch(g) == g.epoch = epoch

\* refreshRotation, as it leaves
Asked(e) ==
  IF readings < MaxReads
  THEN readings' = readings + 1 /\ reads' = reads \cup {[n |-> readings, epoch |-> e, answer |-> Unserved]}
  ELSE UNCHANGED <<readings, reads>>

ReadPanel ==
  /\ readings < MaxReads /\ Asked(epoch)
  /\ UNCHANGED <<enabled, box, epoch, posts, clicks, lost>>

PanelServed(g) ==
  /\ g \in reads /\ g.answer = Unserved
  /\ reads' = (reads \ {g}) \cup {[g EXCEPT !.answer = IF enabled THEN "on" ELSE "off"]}
  /\ UNCHANGED <<enabled, box, epoch, posts, clicks, readings, lost>>

PanelAnswered(g) ==
  /\ g \in reads /\ g.answer # Unserved
  /\ box' = IF SameEpoch(g) THEN g.answer = "on" ELSE box
  /\ reads' = reads \ {g}
  /\ UNCHANGED <<enabled, epoch, posts, clicks, readings, lost>>

PanelLost(g) ==
  /\ Lossy /\ g \in reads
  /\ reads' = reads \ {g} /\ lost' = TRUE
  /\ UNCHANGED <<enabled, box, epoch, posts, clicks, readings>>

\* The switch stays usable: a second click may follow before the first is answered.
ClickSwitch ==
  /\ clicks < MaxClicks
  /\ clicks' = clicks + 1 /\ box' = ~box /\ epoch' = epoch + 1
  /\ posts' = posts \cup {[n |-> clicks, to |-> ~box, answer |-> Unserved]}
  /\ UNCHANGED <<enabled, reads, readings, lost>>

\* setEnabled, and the stored setting is answered.
Stored(p) ==
  /\ p \in posts /\ p.answer = Unserved
  /\ enabled' = p.to
  /\ posts' = (posts \ {p}) \cup {[p EXCEPT !.answer = "stored"]}
  /\ UNCHANGED <<box, epoch, reads, clicks, readings, lost>>

ClickAnswered(p) ==
  /\ p \in posts /\ p.answer # Unserved
  /\ readings < MaxReads
  /\ posts' = posts \ {p}
  /\ epoch' = epoch + 1 /\ box' = p.to
  /\ Asked(epoch + 1)
  /\ UNCHANGED <<enabled, clicks, lost>>

\* The click is taken back, though the server may have stored it.
ClickLost(p) ==
  /\ Lossy /\ p \in posts
  /\ posts' = posts \ {p} /\ lost' = TRUE
  /\ epoch' = epoch + 1 /\ box' = ~p.to
  /\ UNCHANGED <<enabled, reads, clicks, readings>>

SwitchNext ==
  \/ ReadPanel \/ ClickSwitch
  \/ \E g \in reads : PanelServed(g) \/ PanelAnswered(g) \/ PanelLost(g)
  \/ \E p \in posts : Stored(p) \/ ClickAnswered(p) \/ ClickLost(p)

SwitchSpec == SwitchInit /\ [][SwitchNext]_switchVars

\* When every click and every reading is answered, the box shows what the
\* server has, in whatever order they were answered.
BoxTrue ==
  posts = {} /\ reads = {} /\ readings > 0 /\ ~lost => box = enabled
=============================================================================
