------------------------------ MODULE MCTicket ------------------------------
(***************************************************************************)
(* Two jj repos at J1 and J2 and a git one at G1, two revisions.  The       *)
(* registry has the jj repos under the names 1 and 2, until the second is   *)
(* removed; by the last component of their paths they are 4, 1 and 3.       *)
(*                                                                         *)
(* The launches that are not refused give the two jj repos, the first under*)
(* another name beside the git repo, or the second under the first's name.  *)
(***************************************************************************)
EXTENDS Ticket, TLC

CONSTANTS A, B, J1, J2, G1, j1, j2, assets, web, a, b, trunk, blank, Misnamed

AtJ1 == <<j1>>
AtJ2 == <<j2>>
AtG1 == <<assets, web>>    \* "~/assets@2x/web"

MCTrunk    == <<trunk>>
MCExpand   == AtJ1 :> J1 @@ AtJ2 :> J2 @@ AtG1 :> G1
MCBaseName == AtJ1 :> 4 @@ AtJ2 :> 1 @@ AtG1 :> 3
MCExisting == DOMAIN MCExpand
MCPin ==
  [p \in Path |-> [text \in {<<a>>, <<b>>, MCTrunk} |->
     IF text = <<b>> \/ (text = MCTrunk /\ p = G1) THEN {B} ELSE {A}]]

\* By "repos add" and "repos rm", beside an entry that is ignored.
Broken == Misnamed :> [path |-> AtJ2, rev |-> Unset]
One == AddRepo(Broken, 1, [path |-> AtJ1, rev |-> <<a>>])
Two == AddRepo(One, 2, [path |-> AtJ2, rev |-> Unset])
MCConfigs ==
  {[user |-> raw, project |-> 4 :> [path |-> AtG1, rev |-> Unset]] :
     raw \in {Two, RemoveRepo(Two, 2)}}

Args(specs, shared) == [specs |-> specs, shared |-> shared, picks |-> Empty]
Pick(picks, shared) == [specs |-> Empty, shared |-> shared, picks |-> picks]

MCRequests == {
  Args(<<<<2>>, <<1>>>>, {2}),          \* "2 1 --shared-anchor 2"
  Pick(1 :> Unset @@ 2 :> <<a>>, {2}),  \* the same, picked
  Args(<<<<j1, b>>, AtG1>>, {}),
  Args(<<AtJ2>>, {1}),
  Args(<<<<1>>, <<j2, b>>>>, {}),       \* refused: two repos by the name 1,
  Args(<<<<1, blank>>>>, {}),           \* an empty revision,
  Args(<<<<1, b>>>>, {2}),              \* a shared repo that is not launched,
  Pick(3 :> Unset, {})}                 \* a number out of range
=============================================================================
