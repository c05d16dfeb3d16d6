----------------------------- MODULE MCMailbox -----------------------------
(***************************************************************************)
(* Two task-agents.  The edge is asymmetric, as launches make it: a1's      *)
(* launch names a2 with a budget of two messages, a2's names nobody.  Both  *)
(* pass the same mapping, whose entry for oneself is never looked up.       *)
(***************************************************************************)
EXTENDS Mailbox

CONSTANTS a1, a2

MCAgent       == {a1, a2}
MCTicket      == {}
MCPeerChoices == {[n \in MCAgent |-> IF n = a2 THEN 2 ELSE NoLimit]}
=============================================================================
