------------------------------ MODULE Crossing ------------------------------
(***************************************************************************)
(* What the transport promises about the edge between two task-agents when  *)
(* a delivery is many steps and each may be the last: a message is counted  *)
(* before it arrives, under the next number, and never above the ceiling.   *)
(* The first one fixes the ceiling for good, and so passes whatever it is:  *)
(* a ceiling of 0 lets one message through.  One that was counted may never *)
(* arrive.  Nothing is promised once the edge is loose.                     *)
(***************************************************************************)
EXTENDS Integers, Sequences

CONSTANTS
  Msg,       \* messages, each with its id and its stamp "hops"
  NoLimit    \* the ceiling of an edge that has counted nothing

VARIABLES
  counted,   \* the messages charged to the edge, oldest first
  arrived,   \* those that have reached their recipient
  ceiling,
  loose      \* two senders counted at once, or a recipient was torn down under one

vars == <<counted, arrived, ceiling, loose>>

Init ==
  /\ counted = <<>> /\ arrived = {}
  /\ ceiling = NoLimit
  /\ loose = FALSE

Exhausted == ceiling # NoLimit /\ Len(counted) >= ceiling

\* The next message is stamped with its place.
Count ==
  LET m == counted'[Len(counted) + 1] IN
  /\ ~Exhausted
  /\ Len(counted') > Len(counted)
  /\ counted' = Append(counted, m)
  /\ m \in Msg /\ m.hops = Len(counted')
  /\ \A i \in DOMAIN counted : counted[i].id # m.id
  /\ ceiling' \in Nat
  /\ ceiling # NoLimit => ceiling' = ceiling
  /\ UNCHANGED <<arrived, loose>>

Arrive(i) ==
  /\ counted[i] \notin arrived
  /\ arrived' = arrived \cup {counted[i]}
  /\ UNCHANGED <<counted, ceiling, loose>>

\* The edge is loose from here on: the rest is as it may be.
Loosen == loose' = TRUE

Next == Loosen \/ Count \/ \E i \in DOMAIN counted : Arrive(i)

Spec == Init /\ [][Next]_vars
=============================================================================
