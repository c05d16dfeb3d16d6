----------------------------- MODULE MCDelivery -----------------------------
(***************************************************************************)
(* One sender in each agent: a's launch names b with a budget of one        *)
(* message, b's own sends bring a default limit of two.                     *)
(***************************************************************************)
EXTENDS Delivery, TLC

CONSTANTS a, b, p1, p2

MCEnd      == {a, b}
MCProcess  == {p1, p2}
MCFrom     == (p1 :> a) @@ (p2 :> b)
MCDeclared == (a :> 1) @@ (b :> 2)
=============================================================================
