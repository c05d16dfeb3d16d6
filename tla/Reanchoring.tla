---------------------------- MODULE Reanchoring ----------------------------
(***************************************************************************)
(* What a ticket promises about its sessions (docs/anchor-move): while its  *)
(* container is up they are staged and worked on, while it is down they may *)
(* be forgotten, and a re-anchoring moves every repo it was asked to at     *)
(* once, or none, or only the one that failed too late.  A command that is  *)
(* cut short leaves each of those repos moved or as it was.                 *)
(***************************************************************************)

CONSTANTS
  Path,     \* where repos are
  Rev,      \* changes to anchor on
  Mode,     \* how sessions are anchored
  NoSession \* what a repo has that has none

VARIABLES
  up,       \* the container runs
  broken,   \* some command was cut short
  session,  \* at each path
  asked     \* the moves in progress

vars == <<up, broken, session, asked>>

Fresh == [bookmark : {"above"}, parent : Rev, mode : Mode]
Move == [path : Path, rev : Rev]

InReach(s) == s.bookmark \in {"on", "above"}
HasMoved(old, new, rev) == new.parent = rev /\ new.mode = old.mode

Init ==
  /\ up = FALSE /\ broken = FALSE /\ asked = {}
  /\ session = [p \in Path |-> NoSession]

Others(p) == \A q \in Path \ {p} : session'[q] = session[q]

Stage(p) ==
  /\ up /\ session[p].bookmark = "none"
  /\ session'[p] \in Fresh /\ Others(p)
  /\ UNCHANGED <<up, broken, asked>>

Work(p) ==
  /\ up /\ session[p].bookmark = "on"
  /\ session'[p] = [session[p] EXCEPT !.bookmark = "above"] /\ Others(p)
  /\ UNCHANGED <<up, broken, asked>>

Forget(p) ==
  /\ ~up \/ broken
  /\ asked = {}
  /\ session'[p] = NoSession /\ Others(p)
  /\ UNCHANGED <<up, broken, asked>>

Up == asked = {} /\ up' = TRUE /\ UNCHANGED <<broken, session, asked>>
Down == up' = FALSE /\ UNCHANGED <<broken, session, asked>>

\* The container is down from here on.
Ask ==
  /\ asked = {} /\ asked' \in (SUBSET Move) \ {{}}
  /\ \A a \in asked' : InReach(session[a.path])
  /\ up' = FALSE
  /\ UNCHANGED <<broken, session>>

\* All of them move, and nothing else does.
Commit ==
  /\ asked # {} /\ asked' = {}
  /\ \A a \in asked :
       HasMoved(session[a.path], session'[a.path], a.rev) /\ InReach(session'[a.path])
  /\ \A p \in Path \ {a.path : a \in asked} : session'[p] = session[p]
  /\ UNCHANGED <<up, broken>>

Abort ==
  /\ asked # {} /\ asked' = {}
  /\ UNCHANGED <<up, broken, session>>

\* One moves, within reach or not, and nothing else does.
Strand ==
  /\ asked # {} /\ asked' = {}
  /\ \E a \in asked :
       HasMoved(session[a.path], session'[a.path], a.rev) /\ Others(a.path)
  /\ UNCHANGED <<up, broken>>

\* A command is cut short, or ends at a revert that is refused.
Break ==
  /\ broken' = TRUE
  /\ \/ UNCHANGED <<asked, session>>
     \/ /\ asked # {} /\ asked' = {}
        /\ \A p \in Path :
             \/ session'[p] = session[p]
             \/ \E a \in asked : a.path = p /\ HasMoved(session[p], session'[p], a.rev)
  /\ UNCHANGED up

Next ==
  \/ \E p \in Path : Stage(p) \/ Work(p) \/ Forget(p)
  \/ Up \/ Down \/ Ask \/ Commit \/ Abort \/ Strand \/ Break

Spec == Init /\ [][Next]_vars
=============================================================================
