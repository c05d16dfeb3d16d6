------------------------------ MODULE MCChain ------------------------------
(* A chain of a group and a step, one of that step alone, one whose steps     *)
(* name their inputs, one that is not valid, and a user who may have gone     *)
(* elsewhere between two runs.                                                *)
EXTENDS Chain, TLC

CONSTANTS a, b, c, d, x, y

Entry(parallel, steps) == [parallel |-> parallel, steps |-> steps]
Plain(step, inputs) == Entry(FALSE, <<[name |-> step, inputs |-> inputs]>>)
Group(steps, inputs) ==
  Entry(TRUE, [k \in DOMAIN steps |-> [name |-> steps[k], inputs |-> inputs]])

\* The sibling c names a and is fed b; d names the sibling and a step further up.
Naming == <<Plain(a, {}), Plain(b, {}), Group(<<c>>, {a}), Plain(d, {a, c})>>

MCDocs == {
  <<Group(<<b, c>>, {}), Plain(a, {})>>,
  <<Plain(a, {})>>,
  Naming,
  <<Plain(a, {a})>> }

MCAnchors == {{x}, {y}}

\* Bound: when the chain file is another than before, the anchor is the same and
\* nothing goes wrong; the one that names inputs is run once.
Asked(r) ==
  IF run[r].attached THEN [doc |-> run[r].doc, anchor |-> run[r].anchor]
  ELSE [doc |-> cmd[r].doc, anchor |-> cmd[r].anchor]

OneTrouble ==
  \A p, q \in Run : p # q /\ <<>> \notin {Asked(p).doc, Asked(q).doc} =>
    /\ Naming \notin {Asked(p).doc, Asked(q).doc}
    /\ Asked(p).doc = Asked(q).doc \/ (faults = 0 /\ Asked(p).anchor = Asked(q).anchor)

Interchangeable == Permutations({x, y})
=============================================================================
