------------------------------ MODULE RpcCall ------------------------------
(***************************************************************************)
(* The calls to Core over HTTP (lib/rpc.js): `call` keeps the reply and    *)
(* parses it, `timeCall` lets it stream past and counts a needle in it.    *)
(* They share a pool of sockets; Core may answer an error, fall silent or  *)
(* close the connection at any point. A reply is a sequence of letters,    *)
(* one byte each, that arrives in chunks cut anywhere.                     *)
(***************************************************************************)
EXTENDS Integers, Sequences, FiniteSets

CONSTANTS
  Calls,    \* the calls made
  Timed,    \* those made with timeCall
  Sockets,  \* maxSockets of the agent
  MaxBytes, \* MAX_RESPONSE_BYTES
  Short,    \* SHORT_REPLY_BYTES
  Letters,
  Needle,   \* the string counted
  Texts     \* the replies: a set of sequences

ASSUME RpcAssumption ==
  /\ Timed \subseteq Calls
  /\ Sockets \in Nat \ {0} /\ {MaxBytes, Short} \subseteq Nat
  /\ Needle \in Seq(Letters) \ {<< >>}
  /\ \A text \in Texts : text \in Seq(Letters)

VARIABLES
  at,      \* each call: not made, "queued" for a socket, "sent", "reading", "over"
  promise, \* what its caller sees
  reply,   \* what Core answers
  got,     \* how much of it has arrived
  hits,    \* what timeCall has counted
  tail     \* what it kept of the chunks before

rpcVars == <<at, promise, reply, got, hits, tail>>

Unanswered == [text |-> << >>, body |-> "none", status |-> 0]
\* Core answers an error with a status of its own; what is "broken" is no JSON.
Replies ==
  {r \in [text : Texts, body : {"result", "error", "broken"}, status : {200, 500}] :
     r.body = "result" <=> r.status = 200}

RpcInit ==
  /\ at = [c \in Calls |-> "new"] /\ promise = [c \in Calls |-> "pending"]
  /\ reply = [c \in Calls |-> Unanswered] /\ got = [c \in Calls |-> 0]
  /\ hits = [c \in Calls |-> 0] /\ tail = [c \in Calls |-> << >>]

InUse == {c \in Calls : at[c] \in {"sent", "reading"}}

Move(c, from, to) == at[c] = from /\ at' = [at EXCEPT ![c] = to]

\* A promise is settled once.
Settle(c, how) == promise' = [promise EXCEPT ![c] = IF @ = "pending" THEN how ELSE @]

MakeCall(c) ==
  /\ Move(c, "new", IF Cardinality(InUse) < Sockets THEN "sent" ELSE "queued")
  /\ UNCHANGED <<promise, reply, got, hits, tail>>

SocketFreed(c) ==
  /\ Cardinality(InUse) < Sockets /\ Move(c, "queued", "sent")
  /\ UNCHANGED <<promise, reply, got, hits, tail>>

ReplyBegins(c) ==
  /\ Move(c, "sent", "reading")
  /\ \E r \in Replies : reply' = [reply EXCEPT ![c] = r]
  /\ UNCHANGED <<promise, got, hits, tail>>
-----------------------------------------------------------------------------
\* buf.indexOf(needle, from), one match after the other
MatchAt(buf, i) == i + Len(Needle) - 1 <= Len(buf) /\ SubSeq(buf, i, i + Len(Needle) - 1) = Needle

\* '"txid"' is the name of a field, and a colon follows it: no two of them share
\* a letter.
Apart(text) ==
  \A i, j \in 1..Len(text) : MatchAt(text, i) /\ MatchAt(text, j) /\ i < j => i + Len(Needle) <= j

ASSUME NeedleAssumption == \A text \in Texts : Apart(text)

CountIn(buf) ==
  LET from[i \in 1..(Len(buf) + Len(Needle))] ==
        IF i > Len(buf) THEN 0
        ELSE IF MatchAt(buf, i) THEN 1 + from[i + Len(Needle)]
        ELSE from[i + 1]
  IN from[1]

Last(buf, n) == SubSeq(buf, IF Len(buf) > n THEN Len(buf) - n + 1 ELSE 1, Len(buf))

\* Wrong on purpose: a whole needle is kept, and so counted twice.
KeptWhole(buf) == Last(buf, Len(Needle))
Kept(buf) == Last(buf, Len(Needle) - 1)

Counted(c, chunk) ==
  LET buf == tail[c] \o chunk
  IN /\ hits' = [hits EXCEPT ![c] = @ + CountIn(buf)]
     /\ tail' = [tail EXCEPT ![c] = Kept(buf)]

\* A reply that is too long ends `call`, and with it the connection.
Chunk(c, n) ==
  LET whole == got[c] + n
  IN /\ at[c] = "reading" /\ n > 0 /\ whole <= Len(reply[c].text)
     /\ got' = [got EXCEPT ![c] = whole]
     /\ IF c \in Timed
        THEN Counted(c, SubSeq(reply[c].text, got[c] + 1, whole)) /\ UNCHANGED <<at, promise>>
        ELSE IF whole > MaxBytes
        THEN Settle(c, "rejected") /\ Move(c, "reading", "over") /\ UNCHANGED <<hits, tail>>
        ELSE UNCHANGED <<at, promise, hits, tail>>
     /\ UNCHANGED reply

\* `call` parses every reply. timeCall parses a short one, and otherwise has the
\* status alone to go by.
Refusal(c) ==
  \/ (c \in Timed => got[c] < Short) /\ reply[c].body # "result"
  \/ c \in Timed /\ reply[c].status # 200

End(c) ==
  /\ got[c] = Len(reply[c].text) /\ Move(c, "reading", "over")
  /\ Settle(c, IF Refusal(c) THEN "rejected" ELSE "resolved")
  /\ UNCHANGED <<reply, got, hits, tail>>
-----------------------------------------------------------------------------
\* Wrong on purpose: only 'end' and the request's 'error' are listened to.
NotHeard(c) == IF at[c] = "reading" THEN UNCHANGED promise ELSE Settle(c, "rejected")
\* dropOnCut; before the head it is the request that fails.
Dropped(c) == Settle(c, "rejected")

\* The connection is lost: Core closed it, or was silent for the timeout and
\* the request was destroyed.
ConnectionLost(c) ==
  /\ c \in InUse
  /\ at' = [at EXCEPT ![c] = "over"] /\ Dropped(c)
  /\ UNCHANGED <<reply, got, hits, tail>>

Connection(c) == ReplyBegins(c) \/ (\E n \in 1..Len(reply[c].text) : Chunk(c, n)) \/ End(c) \/ ConnectionLost(c)

RpcNext == \E c \in Calls : MakeCall(c) \/ SocketFreed(c) \/ Connection(c)

\* A connection goes on or is cut, by its timeout at the latest; a call that
\* waits for a socket is given one.
RpcFairness == \A c \in Calls : WF_rpcVars(SocketFreed(c)) /\ WF_rpcVars(Connection(c))

RpcSpec == RpcInit /\ [][RpcNext]_rpcVars /\ RpcFairness

\* Every call is settled, wherever Core closes the connection or falls silent,
\* and however many calls wait for its socket: else the poll behind it waits
\* forever.
RpcSettles == \A c \in Calls : at[c] # "new" ~> promise[c] # "pending"

\* The reference: the places where the needle stands.
Occurrences(text) == Cardinality({i \in 1..Len(text) : MatchAt(text, i)})

\* A call that resolves had the whole of a reply that is no error, and
\* timeCall has counted each needle once, wherever the chunks were cut.
CountExact ==
  \A c \in Calls : promise[c] = "resolved" =>
    /\ got[c] = Len(reply[c].text) /\ reply[c].body = "result"
    /\ c \in Timed => hits[c] = Occurrences(reply[c].text)
=============================================================================
