--------------------------- MODULE ClientService ---------------------------
(***************************************************************************)
(* What a server of 9/ioMultiplexingDemo promises each of its clients,     *)
(* whatever multiplexing call it is built on: one answer at most, not      *)
(* before the request is complete or the client has gone, and the          *)
(* connection is closed once, after the answer or after the client left.   *)
(* A server that is not patient may also close a connection that is idle.  *)
(***************************************************************************)
CONSTANT Conns

VARIABLES
  asked,   \* the clients whose request is complete
  left,    \* the clients that closed their end or broke the connection
  stage,   \* "away", "accepted", "answered" or "closed"
  patient  \* the server waits for the request of a client that is connected

serviceVars == <<asked, left, stage, patient>>

Init ==
  /\ asked = {} /\ left = {}
  /\ stage = [c \in Conns |-> "away"]
  /\ patient \in BOOLEAN

Ask(c) == asked' = asked \union {c} /\ UNCHANGED <<left, stage, patient>>
Leave(c) == left' = left \union {c} /\ UNCHANGED <<asked, stage, patient>>

Move(c, from, to) ==
  /\ stage[c] = from
  /\ stage' = [stage EXCEPT ![c] = to]
  /\ UNCHANGED <<asked, left, patient>>

Accept(c) == Move(c, "away", "accepted")
Answer(c) == c \in asked \union left /\ Move(c, "accepted", "answered")
Dismiss(c) == Move(c, "answered", "closed")
GiveUp(c) == (c \in left \/ ~ patient) /\ Move(c, "accepted", "closed")

Next ==
  \E c \in Conns :
    Ask(c) \/ Leave(c) \/ Accept(c) \/ Answer(c) \/ Dismiss(c) \/ GiveUp(c)

Spec == Init /\ [][Next]_serviceVars
=============================================================================
