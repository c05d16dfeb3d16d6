----------------------------- MODULE EdgeBudget -----------------------------
(***************************************************************************)
(* What the transport promises about a conversation between two task-agents *)
(* (docs/design-task-agents.md section 10): the first message that brings a *)
(* limit fixes the edge's ceiling for good, and once as many messages have  *)
(* been carried as the ceiling allows, the edge carries nothing more.       *)
(***************************************************************************)
EXTENDS Integers, FiniteSets

CONSTANTS
  Edge,      \* the conversations, one per pair of endpoints
  Msg,       \* message ids
  NoLimit    \* an edge nobody has given a limit yet

VARIABLES
  carried,   \* the messages each edge has carried
  ceiling    \* its limit, once some sender has brought one

vars == <<carried, ceiling>>

Init ==
  /\ carried = [e \in Edge |-> {}]
  /\ ceiling = [e \in Edge |-> NoLimit]

Exhausted(e) == ceiling[e] # NoLimit /\ Cardinality(carried[e]) >= ceiling[e]

\* The ceiling of an edge without one may be set by the message that crosses.
Carry(e, m) ==
  /\ ~Exhausted(e)
  /\ \A f \in Edge : m \notin carried[f]
  /\ carried' = [carried EXCEPT ![e] = @ \cup {m}]
  /\ ceiling'[e] \in Nat \cup {NoLimit}
  /\ ceiling[e] # NoLimit => ceiling'[e] = ceiling[e]
  /\ ceiling' = [ceiling EXCEPT ![e] = ceiling'[e]]

Next == \E e \in Edge, m \in Msg : Carry(e, m)

Spec == Init /\ [][Next]_vars
=============================================================================
