------------------------------- MODULE Fleet -------------------------------
(***************************************************************************)
(* Teardown of task-agents (cld/cli.py: _assert_reap_ready,                 *)
(* _reap_task_agent, _reap_all_task_agents) while their supervisors work,   *)
(* die and are started again, and while new agents are launched.            *)
(*                                                                         *)
(* A sweep is `cld task-agent shutdown`, --all or of one name, a human's    *)
(* (the empty parent, HOST) or, through the broker, a master's over its own *)
(* fleet.  The checks read docker and the mailboxes at one moment and the   *)
(* teardown follows later, in steps of its own.  Agents are numbered in the *)
(* order of their names: a sweep takes them sorted.                         *)
(***************************************************************************)
EXTENDS Integers, FiniteSets, FiniteSetsExt

CONSTANTS
  N,          \* task-agent names
  Master,     \* owners of containers; HOST is a human's launch
  HOST,
  Sweep,      \* concurrent `shutdown` commands
  Peers,      \* the peers a launch under a name gives it
  Parents     \* the masters that launch under a name

Agent == 1..N

ASSUME FleetAssumption ==
  /\ N \in Nat /\ HOST \in Master
  /\ Peers \in [Agent -> SUBSET Agent] /\ \A a \in Agent : a \notin Peers[a]
  /\ Parents \in [Agent -> SUBSET Master]

VARIABLES
  sup,       \* the container and what its supervisor does
  owner,     \* the org.cld.parent-master label
  meta,      \* "parent" in meta.json of the live mailbox, or NoMeta
  phase,     \* "phase" in state.json of the live mailbox, or "none"
  sweep      \* the reaping processes

vars == <<sup, owner, meta, phase, sweep>>

NoMeta == "no meta.json"
NoName == 0

Listed == {a \in Agent : sup[a] # "absent"}
Running == {a \in Agent : sup[a] \in {"booting", "idle", "turn"}}
Fleet == {a \in Agent : meta[a] # NoMeta}

\* "unseen" says that the target's turn, if it takes one, began after check 1
\* was passed; "quiet" that nothing but this sweep has acted since it began.
AtRest == [at |-> "rest", parent |-> HOST, force |-> FALSE, todo |-> {}, stuck |-> {},
           size |-> 0, target |-> NoName, unseen |-> FALSE, quiet |-> FALSE]
Disturbed(r) == [r EXCEPT !.quiet = FALSE]

Init ==
  /\ sup = [a \in Agent |-> "absent"]
  /\ owner = [a \in Agent |-> HOST]
  /\ meta = [a \in Agent |-> NoMeta]
  /\ phase = [a \in Agent |-> "none"]
  /\ sweep = [s \in Sweep |-> AtRest]

-----------------------------------------------------------------------------
(* The agents. *)

NoSweepSees == sweep' = [s \in Sweep |-> Disturbed(sweep[s])]

\* docker run, under a name no container holds.
Launch(a) ==
  /\ sup[a] = "absent"
  /\ sup' = [sup EXCEPT ![a] = "booting"]
  /\ \E parent \in Parents[a] : owner' = [owner EXCEPT ![a] = parent]
  /\ NoSweepSees
  /\ UNCHANGED <<meta, phase>>

\* The supervisor's constructor and kickoff: meta.json is written unless there
\* is one, state.json afresh.  A kickoff counts as being between turns.
Boot(a) ==
  /\ sup[a] = "booting"
  /\ sup' = [sup EXCEPT ![a] = "idle"]
  /\ meta' = [meta EXCEPT ![a] = IF a \in Fleet THEN @ ELSE owner[a]]
  /\ phase' = [phase EXCEPT ![a] = "idle"]
  /\ NoSweepSees
  /\ UNCHANGED owner

\* A turn begins; state.json has a directory to go to.
BeginTurn(a) ==
  /\ sup[a] = "idle" /\ a \in Fleet
  /\ sup' = [sup EXCEPT ![a] = "turn"]
  /\ phase' = [phase EXCEPT ![a] = "processing"]
  /\ sweep' = [s \in Sweep |->
                 [Disturbed(sweep[s]) EXCEPT !.unseen = @ \/ sweep[s].target = a]]
  /\ UNCHANGED <<owner, meta>>

EndTurn(a) ==
  /\ sup[a] = "turn" /\ a \in Fleet
  /\ sup' = [sup EXCEPT ![a] = "idle"]
  /\ phase' = [phase EXCEPT ![a] = "idle"]
  /\ NoSweepSees
  /\ UNCHANGED <<owner, meta>>

\* The container stops under its supervisor, which writes nothing: killed, or by
\* its own exception when its mailbox has been archived under it.
Die(a) ==
  /\ a \in Running
  /\ sup' = [sup EXCEPT ![a] = "exited"]
  /\ NoSweepSees
  /\ UNCHANGED <<owner, meta, phase>>

\* docker rm or prune, by hand: the mailbox stays.
Remove(a) ==
  /\ sup[a] = "exited"
  /\ sup' = [sup EXCEPT ![a] = "absent"]
  /\ owner' = [owner EXCEPT ![a] = HOST]
  /\ NoSweepSees
  /\ UNCHANGED <<meta, phase>>

-----------------------------------------------------------------------------
(* A sweep. *)

\* task_agent_parent: the label of the container, else meta.json.
ParentOf(a) == IF a \in Listed THEN owner[a] ELSE meta[a]

\* Check 2: live fleet members whose peers name a.
Dependents(a) == {d \in (Running \cap Fleet) \ {a} : a \in Peers[d]}

\* The names `shutdown --all` starts from.
Targets(parent) ==
  {a \in Listed \cup Fleet : parent = HOST \/ ParentOf(a) = parent}

\* `shutdown --all`, or of one name that a container or a mailbox has.  The
\* broker denies --force to a master.
Begin(s, parent, force) ==
  /\ sweep[s].at = "rest"
  /\ force => parent = HOST
  /\ \E names \in {Targets(parent)} \cup {{a} : a \in Listed \cup Fleet} :
       /\ names # {}
       /\ sweep' = [sweep EXCEPT ![s] =
            [AtRest EXCEPT !.at = "pass", !.parent = parent, !.force = force,
                           !.todo = names, !.size = Cardinality(names), !.quiet = TRUE]]
  /\ UNCHANGED <<sup, owner, meta, phase>>

Refused(r) ==
  [r EXCEPT !.at = "pass", !.todo = @ \ {r.target}, !.stuck = @ \cup {r.target},
            !.target = NoName]

\* Checks 3 and 2 on the next name.
Check(s) ==
  LET a == Min(sweep[s].todo)
      r == [sweep[s] EXCEPT !.target = a] IN
  /\ sweep[s].at = "pass" /\ sweep[s].todo # {}
  /\ sweep' = [sweep EXCEPT ![s] =
       IF r.force THEN [r EXCEPT !.at = "stop"]
       ELSE IF (r.parent # HOST /\ ParentOf(a) # r.parent) \/ Dependents(a) # {}
       THEN Refused(r)
       ELSE [r EXCEPT !.at = "phase"]]
  /\ UNCHANGED <<sup, owner, meta, phase>>

\* Mutation: check 1 asks whether there is a container, not what it is doing.
AwaitTurnByContainer(s) ==
  LET r == sweep[s] IN
  /\ r.at = "phase"
  /\ sweep' = [sweep EXCEPT ![s] =
       IF r.target \in Listed THEN [r EXCEPT !.at = "stop", !.unseen = FALSE]
       ELSE Refused(r)]
  /\ UNCHANGED <<sup, owner, meta, phase>>

\* Check 1: it is passed when state.json is read between turns, which it may wait
\* for, and refused at the deadline.
AwaitTurn(s) ==
  LET r == sweep[s] IN
  /\ r.at = "phase"
  /\ sweep' = [sweep EXCEPT ![s] =
       IF phase[r.target] # "processing" THEN [r EXCEPT !.at = "stop", !.unseen = FALSE]
       ELSE Refused(r)]
  /\ UNCHANGED <<sup, owner, meta, phase>>

\* docker stop and docker rm: a turn that is running does not survive it.
StopAndRemove(s) ==
  LET r == sweep[s] IN
  /\ r.at = "stop"
  /\ sup' = [sup EXCEPT ![r.target] = "absent"]
  /\ owner' = [owner EXCEPT ![r.target] = HOST]
  /\ sweep' = [t \in Sweep |-> IF t = s THEN [r EXCEPT !.at = "archive"]
                               ELSE Disturbed(sweep[t])]
  /\ UNCHANGED <<meta, phase>>

\* Mutation: the name stays in the pass that has just reaped it.
ReapedStays(r) == [r EXCEPT !.at = "pass", !.stuck = @ \cup {r.target}, !.target = NoName]

Reaped(r) == [r EXCEPT !.at = "pass", !.todo = @ \ {r.target}, !.target = NoName]

\* archive_mailbox, after which the name is reaped.
ArchiveMailbox(s) ==
  LET r == sweep[s] IN
  /\ r.at = "archive"
  /\ meta' = [meta EXCEPT ![r.target] = NoMeta]
  /\ phase' = [phase EXCEPT ![r.target] = "none"]
  /\ sweep' = [t \in Sweep |-> IF t = s THEN Reaped(r) ELSE Disturbed(sweep[t])]
  /\ UNCHANGED <<sup, owner>>

\* Mutation: one pass over the names.
LastPass(r) == TRUE

\* Mutation: the passes go on until nobody is refused.
NobodyRefused(r) == r.stuck = {}

\* A pass that reaps nobody, or leaves nobody, is the last.
NoProgress(r) == r.stuck = {} \/ Cardinality(r.stuck) = r.size

\* The end of a pass: another one over the refused.
EndPass(s) ==
  LET r == sweep[s] IN
  /\ r.at = "pass" /\ r.todo = {}
  /\ sweep' = [sweep EXCEPT ![s] =
       IF NoProgress(r) THEN [r EXCEPT !.at = "done"]
       ELSE [r EXCEPT !.todo = r.stuck, !.stuck = {}, !.size = Cardinality(r.stuck)]]
  /\ UNCHANGED <<sup, owner, meta, phase>>

\* The command has reported and exits, or it is interrupted wherever it is.
Exit(s) ==
  /\ sweep[s].at # "rest"
  /\ sweep' = [sweep EXCEPT ![s] = AtRest]
  /\ UNCHANGED <<sup, owner, meta, phase>>

SweepStep(s) ==
  Check(s) \/ AwaitTurn(s) \/ StopAndRemove(s) \/ ArchiveMailbox(s) \/ EndPass(s)

AgentStep(a) ==
  Launch(a) \/ Boot(a) \/ BeginTurn(a) \/ EndTurn(a) \/ Die(a) \/ Remove(a)

Next ==
  \/ \E a \in Agent : AgentStep(a)
  \/ \E s \in Sweep : SweepStep(s) \/ Exit(s)
  \/ \E s \in Sweep, parent \in Master, force \in BOOLEAN : Begin(s, parent, force)

\* A command goes on while its process lives; every wait in it has a deadline.
Spec == Init /\ [][Next]_vars /\ \A s \in Sweep : WF_vars(SweepStep(s))

-----------------------------------------------------------------------------
SweepRecord ==
  [at : {"rest", "pass", "phase", "stop", "archive", "done"}, parent : Master,
   force : BOOLEAN, todo : SUBSET Agent, stuck : SUBSET Agent, size : 0..N,
   target : Agent \cup {NoName}, unseen : BOOLEAN, quiet : BOOLEAN]

\* A name is in a pass or refused by it, never both, and the name in hand is one
\* the pass has not dealt with.
TypeOK ==
  /\ sup \in [Agent -> {"absent", "booting", "idle", "turn", "exited"}]
  /\ owner \in [Agent -> Master]
  /\ meta \in [Agent -> Master \cup {NoMeta}]
  /\ phase \in [Agent -> {"none", "idle", "processing"}]
  /\ sweep \in [Sweep -> SweepRecord]
  /\ \A s \in Sweep :
       /\ sweep[s].todo \cap sweep[s].stuck = {}
       /\ sweep[s].at \in {"phase", "stop", "archive"} => sweep[s].target \in sweep[s].todo

\* An agent is not reaped in the middle of a turn that had begun when the sweep
\* read its state, unless by force: check 1 lets through only the turn that it
\* could not see, one that began between the check and docker stop.
TurnsAreSpared ==
  [][\A s \in Sweep :
       LET r == sweep[s] IN
       (/\ r.at = "stop" /\ sweep'[s].at = "archive" /\ ~r.force
        /\ sup[r.target] = "turn" /\ r.target \in Fleet)
         => r.unseen]_vars

\* `shutdown --all` reaps whom it can, whatever the order of the names: if nothing
\* else acts meanwhile, those it leaves are another master's, mid-turn by their
\* state file, or named by an agent that still runs.
NobodyStranded ==
  \A s \in Sweep :
    LET r == sweep[s] IN
    r.at = "done" /\ r.quiet =>
      \A a \in r.stuck : \/ phase[a] = "processing" \/ Dependents(a) # {}
                         \/ r.parent # HOST /\ ParentOf(a) # r.parent

\* A sweep comes to an end, mutual peers and busy agents notwithstanding.
SweepEnds == \A s \in Sweep : sweep[s].at = "pass" ~> sweep[s].at \in {"rest", "done"}
=============================================================================
