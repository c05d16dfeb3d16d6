------------------------------- MODULE Broker -------------------------------
(***************************************************************************)
(* The graphql servers of the host broker (broker/cld-broker.py): one        *)
(* container cld_gql_<session> and one jj workspace gql-<session> per        *)
(* session, started, stopped, restarted and looked up by requests that are   *)
(* processes of their own, with no lock among them, while sessions come and  *)
(* go.  Every lookup first sweeps away the servers whose session is gone,    *)
(* any session's (also cld-brokerctl graphql-sweep).                         *)
(*                                                                         *)
(* A docker or jj call that changes something is a step of its own; reads    *)
(* that precede it are joined where nothing else is decided in between.  Any *)
(* of these calls may fail, and most failures go unnoticed: an inspect that  *)
(* fails reads as "not there", a label as "none", a list as empty, and        *)
(* docker rm and jj workspace forget are not looked at.                      *)
(*                                                                         *)
(* Left out: what status reports, queries, credentials, logs; tests and the  *)
(* delegated task-agent verbs, which keep no state here; host sessions,      *)
(* which have no container of their own.                                     *)
(***************************************************************************)
EXTENDS Integers, FiniteSets

CONSTANTS
  Request,     \* processes that serve requests, one after the other
  Mounts,      \* the repositories each session may name
  Configured,  \* those with a graphql_command
  Changes      \* bound: sessions' changes, requests killed and calls that fail

Session == DOMAIN Mounts
Repo == UNION {Mounts[s] : s \in Session}

ASSUME BrokerAssumption ==
  /\ Changes \in Nat
  /\ \A s \in Session : Mounts[s] # {}
  /\ "none" \notin Session \cup Repo

VARIABLES
  session,     \* the session's own container
  server,      \* its graphql server's container
  ws,          \* registered workspaces: gql-<session> in a repository
  req,         \* the requests
  raced,       \* ghost: sessions whose requests or sweeps overlapped
  leaked,      \* ghost: workspaces whose server was removed and that no request will forget
  bereft,      \* ghost: sessions whose server docker refused to remove
  changes      \* bound: how much has happened to sessions and requests

ghosts == <<raced, leaked, bereft>>
vars == <<session, server, ws, req, raced, leaked, bereft, changes>>

NoRepo == "none"
NoServer == [phase |-> "none", repo |-> NoRepo]
NoRequest == [pc |-> "idle", who |-> "none", repo |-> NoRepo, next |-> "over",
              todo |-> {}, target |-> "none", label |-> NoRepo, orphans |-> {}]

Served(s) == server[s].phase # "none"
IsRunning(s) == server[s].phase \in {"boot", "install", "up"}
Gone(s) == session[s] = "absent"
InProgress(c) == req[c].pc \notin {"idle", "over"}
Busy(s, c) == \E d \in Request \ {c} : InProgress(d) /\ s \in {req[d].who, req[d].target}

Init ==
  /\ session = [s \in Session |-> "running"]
  /\ server = [s \in Session |-> NoServer]
  /\ ws = {}
  /\ req = [c \in Request |-> NoRequest]
  /\ raced = {} /\ leaked = {} /\ bereft = {}
  /\ changes = 0

-----------------------------------------------------------------------------
(* Calls of docker and jj that go unchecked *)

Change == changes < Changes /\ changes' = changes + 1

\* The workspace of the server of s.
Mine(s) == <<s, server[s].repo>>

\* docker rm -f of the server of s, by a request that will forget the workspace of
\* s in repo and in no other repository.
Drop(s, repo) ==
  /\ server' = [server EXCEPT ![s] = NoServer]
  /\ leaked' = leaked \cup (({Mine(s)} \ {<<s, repo>>}) \cap ws)
  /\ bereft' = bereft \ {s}

\* docker fails, having killed the container or not.
Refuse(s) ==
  /\ Served(s)
  /\ \E phase \in {server[s].phase, "exited"} : server' = [server EXCEPT ![s].phase = phase]
  /\ bereft' = bereft \cup {s}
  /\ UNCHANGED leaked

RemoveContainer(s, repo) == (Drop(s, repo) /\ UNCHANGED changes) \/ (Refuse(s) /\ Change)

\* The same after docker inspect has given the server's label, or failed.
TakeDown(s, label, repo) ==
  IF label = server[s].repo THEN RemoveContainer(s, repo) ELSE Drop(s, repo) /\ Change

Forget(s, repo) ==
  \/ ws' = ws \ {<<s, repo>>} /\ leaked' = leaked \ {<<s, repo>>} /\ UNCHANGED changes
  \/ <<s, repo>> \in ws /\ Change /\ leaked' = leaked \cup {<<s, repo>>} /\ UNCHANGED ws

-----------------------------------------------------------------------------
(* Sessions *)

SetSession(s, state) ==
  /\ session' = [session EXCEPT ![s] = state]
  /\ Change
  /\ UNCHANGED <<server, ws, leaked, bereft>>

Pause(s) == session[s] = "running" /\ SetSession(s, "stopped") /\ UNCHANGED <<req, raced>>
Resume(s) == session[s] = "stopped" /\ SetSession(s, "running") /\ UNCHANGED <<req, raced>>
Remove(s) == ~Gone(s) /\ SetSession(s, "absent") /\ UNCHANGED <<req, raced>>

\* The name s stands for another server or for a live session again.
Owned(r, s) == [r EXCEPT !.orphans = @ \ {s}]

\* Under the same name: a ticket shut down and started again, whose server is an
\* orphan no more.
Relaunch(s) ==
  /\ Gone(s) /\ SetSession(s, "running")
  /\ req' = [c \in Request |-> Owned(req[c], s)]
  /\ raced' = IF \E c \in Request : InProgress(c) /\ req[c].target = s
              THEN raced \cup {s} ELSE raced

-----------------------------------------------------------------------------
(* A request *)

Goto(c, pc) == req' = [req EXCEPT ![c].pc = pc]
Over == [NoRequest EXCEPT !.pc = "over"]
Finish(c) == req' = [req EXCEPT ![c] = Over]
Sweeping(r, next) == [r EXCEPT !.pc = "sweep", !.next = next]
Status(s) == Sweeping([NoRequest EXCEPT !.who = s], "over")

\* From inside a running session, of one of its repositories.
Ask(c, s, op, repo) ==
  LET asked == [NoRequest EXCEPT !.who = s, !.repo = repo]
  IN  /\ ~InProgress(c)
      /\ session[s] = "running"
      /\ req' = [req EXCEPT ![c] =
           CASE op = "status" -> Status(s)
             [] op = "start" -> Sweeping(asked, "look")
             [] op = "stop" -> [asked EXCEPT !.pc = "stop"]
             [] op = "restart" -> [asked EXCEPT !.pc = "stop", !.next = "look"]]
      /\ raced' = IF Busy(s, c) THEN raced \cup {s} ELSE raced
      /\ UNCHANGED <<session, server, ws, leaked, bereft, changes>>

\* The operator's graphql-sweep.
AskSweep(c) ==
  /\ ~InProgress(c)
  /\ req' = [req EXCEPT ![c] = Sweeping(NoRequest, "over")]
  /\ UNCHANGED <<session, server, ws, ghosts, changes>>

\* Request c is about to forget the workspace of s in repository r.
Owed(c, s, r) ==
  \/ req[c].pc = "cleared" /\ req[c].who = s /\ req[c].repo = r
  \/ req[c].pc = "stopped" /\ req[c].who = s /\ req[c].label = r
  \/ req[c].pc = "swept" /\ req[c].target = s /\ req[c].label = r

\* The ssh session or the broker dies, or a call that the request cannot do
\* without fails (_out_strict).
Kill(c) ==
  /\ Change
  /\ InProgress(c)
  /\ Finish(c)
  /\ leaked' = leaked \cup {w \in ws : Owed(c, w[1], w[2])}
  /\ UNCHANGED <<session, server, ws, raced, bereft>>

-----------------------------------------------------------------------------
(* The sweep, on top of start and status *)

\* Mutation: without -a, docker lists running containers only.
SweepListRunning(c) ==
  /\ req[c].pc = "sweep"
  /\ req' = [req EXCEPT ![c].pc = "pick", ![c].todo = {s \in Session : IsRunning(s)},
       ![c].orphans = {s \in Session : Served(s) /\ Gone(s)}]
  /\ UNCHANGED <<session, server, ws, ghosts, changes>>

\* "orphans" are the servers that this sweep has to remove: those it lists, when
\* docker ps does not fail.
SweepList(c) ==
  LET servers == {s \in Session : Served(s)}
  IN  \E listed \in {servers, {}} :
        /\ req[c].pc = "sweep"
        /\ IF listed = servers THEN UNCHANGED changes ELSE Change
        /\ req' = [req EXCEPT ![c].pc = "pick", ![c].todo = listed,
                              ![c].orphans = {s \in listed : Gone(s)}]
        /\ UNCHANGED <<session, server, ws, ghosts>>

\* Mutation: a session that is paused is taken for gone.
SweepKeepsRunning(s, found) == ~Served(s) \/ (found /\ session[s] = "running")

\* A server that is gone by now, or whose session docker inspect has found,
\* running or not.
SweepKeeps(s, found) == ~Served(s) \/ found

\* "misled" is the sweep that docker inspect has failed on a session that exists.
SweepCheck(c, s) ==
  \E found \in {~Gone(s), FALSE} :
    /\ req[c].pc = "pick" /\ s \in req[c].todo
    /\ IF found = ~Gone(s) THEN UNCHANGED changes ELSE Served(s) /\ Change
    /\ req' = [req EXCEPT ![c].todo = @ \ {s},
                          ![c].pc = IF SweepKeeps(s, found) THEN "pick"
                                    ELSE IF found = ~Gone(s) THEN "reap" ELSE "misled",
                          ![c].target = IF SweepKeeps(s, found) THEN "none" ELSE s]
    /\ raced' = IF ~SweepKeeps(s, found) /\ Busy(s, c) THEN raced \cup {s} ELSE raced
    /\ UNCHANGED <<session, server, ws, leaked, bereft>>

\* The label that names its session cannot be read: the server is passed over.
SweepSkips(c, s) ==
  /\ req[c].pc = "pick" /\ s \in req[c].todo
  /\ Served(s) /\ Gone(s) /\ Change
  /\ req' = [req EXCEPT ![c].todo = @ \ {s}, ![c].orphans = @ \ {s}]
  /\ UNCHANGED <<session, server, ws, ghosts>>

\* docker rm -f of the name, after its repository has been read off its label; what
\* docker refuses to remove stays.
SweepRemove(c) ==
  LET s == req[c].target
  IN  /\ req[c].pc \in {"reap", "misled"}
      /\ \E label \in {server[s].repo, NoRepo} :
           /\ TakeDown(s, label, label)
           /\ req' = [req EXCEPT ![c].pc = "swept", ![c].label = label,
                                 ![c].orphans = IF server'[s] # NoServer THEN @ \ {s} ELSE @]
      /\ UNCHANGED <<session, ws, raced>>

\* Nothing is forgotten without a label.
SweepForget(c) ==
  /\ req[c].pc = "swept"
  /\ Forget(req[c].target, req[c].label)
  /\ req' = [req EXCEPT ![c].pc = "pick", ![c].target = "none", ![c].label = NoRepo]
  /\ UNCHANGED <<session, server, raced, bereft>>

SweepEnds(c) ==
  /\ req[c].pc = "pick" /\ req[c].todo = {}
  /\ req' = [req EXCEPT ![c] =
       IF req[c].next = "over" THEN [Over EXCEPT !.orphans = req[c].orphans]
       ELSE [@ EXCEPT !.pc = req[c].next, !.next = "over"]]
  /\ UNCHANGED <<session, server, ws, ghosts, changes>>

-----------------------------------------------------------------------------
(* start *)

\* Mutation: a missing graphql_command is let pass.
LookUnconfigured(c) ==
  LET s == req[c].who
  IN  /\ req[c].pc = "look"
      /\ req' = [req EXCEPT ![c] =
           IF IsRunning(s) /\ server[s].repo # @.repo THEN Over
           ELSE IF IsRunning(s) THEN Status(s)
           ELSE IF Served(s) THEN [@ EXCEPT !.pc = "clear", !.next = "run"]
           ELSE [@ EXCEPT !.pc = "run"]]
      /\ UNCHANGED <<session, server, ws, ghosts, changes>>

\* A running server is reported, if it is the repository's; an exited one is
\* cleared away first.
Look(c) ==
  LET s == req[c].who
  IN  /\ req[c].pc = "look"
      /\ req' = [req EXCEPT ![c] =
           IF @.repo \notin Configured \/ (IsRunning(s) /\ server[s].repo # @.repo) THEN Over
           ELSE IF IsRunning(s) THEN Status(s)
           ELSE IF Served(s) THEN [@ EXCEPT !.pc = "clear", !.next = "run"]
           ELSE [@ EXCEPT !.pc = "run"]]
      /\ UNCHANGED <<session, server, ws, ghosts, changes>>

\* docker inspect fails: no server is seen.
LookFails(c) ==
  /\ req[c].pc = "look" /\ req[c].repo \in Configured /\ Served(req[c].who)
  /\ Change
  /\ Goto(c, "run")
  /\ UNCHANGED <<session, server, ws, ghosts>>

\* Of a leftover, or of what this request started and saw die.  What is forgotten
\* next is in the request's repository, whichever the leftover was of.
Clear(c) ==
  /\ req[c].pc = "clear"
  /\ Goto(c, "cleared")
  /\ RemoveContainer(req[c].who, req[c].repo)
  /\ UNCHANGED <<session, ws, raced>>

ClearForget(c) ==
  /\ req[c].pc = "cleared"
  /\ Forget(req[c].who, req[c].repo)
  /\ IF req[c].next = "over" THEN Finish(c) ELSE Goto(c, req[c].next)
  /\ UNCHANGED <<session, server, raced, bereft>>

\* A container is created for s by request c, whose next state is "new".
Create(c, s, new, phase) ==
  /\ ~Served(s)
  /\ req' = [d \in Request |-> Owned(IF d = c THEN new ELSE req[d], s)]
  /\ server' = [server EXCEPT ![s] = [phase |-> phase, repo |-> req[c].repo]]

\* docker run, refused when the name is taken; it may fail with the container
\* created and not started.
Run(c) ==
  LET s == req[c].who
  IN  /\ req[c].pc = "run"
      /\ \/ Served(s) /\ Finish(c) /\ UNCHANGED <<server, changes>>
         \/ /\ Create(c, s, [req[c] EXCEPT !.pc = "port", !.next = "over"], "boot")
            /\ UNCHANGED changes
         \/ Create(c, s, Over, "exited") /\ Change
      /\ UNCHANGED <<session, ws, ghosts>>

\* docker port fails on a container that does not run: the request ends there.
ReadPort(c) ==
  /\ req[c].pc = "port"
  /\ IF IsRunning(req[c].who) THEN Goto(c, "await") ELSE Finish(c)
  /\ UNCHANGED <<session, server, ws, ghosts, changes>>

\* docker port has nothing to say: the container is removed, its workspace is not
\* forgotten.
ReadsNoPort(c) ==
  /\ req[c].pc = "port"
  /\ Change
  /\ Drop(req[c].who, NoRepo) \/ Refuse(req[c].who)
  /\ Finish(c)
  /\ UNCHANGED <<session, ws, raced>>

\* Exited, or docker inspect has failed.
SeesDead(c) ==
  /\ req[c].pc = "await"
  /\ IF IsRunning(req[c].who) THEN Change ELSE UNCHANGED changes
  /\ req' = [req EXCEPT ![c].pc = "clear", ![c].next = "over"]
  /\ UNCHANGED <<session, server, ws, ghosts>>

\* Healthy: the answer is a status, sweep included.
SeesUp(c) ==
  /\ req[c].pc = "await" /\ server[req[c].who].phase = "up"
  /\ req' = [req EXCEPT ![c] = Status(req[c].who)]
  /\ UNCHANGED <<session, server, ws, ghosts, changes>>

\* The deadline comes whatever the server does: it is stopped.
TimeOut(c) ==
  /\ req[c].pc = "await"
  /\ req' = [req EXCEPT ![c].pc = "stop"]
  /\ UNCHANGED <<session, server, ws, ghosts, changes>>

-----------------------------------------------------------------------------
(* stop, restart, and a start that gives up *)

\* Mutation: the workspace is taken to be in the repository that is named.
StopRemoveNamed(c) ==
  LET s == req[c].who
  IN  /\ req[c].pc = "stop"
      /\ RemoveContainer(s, server[s].repo)
      /\ req' = [req EXCEPT ![c].pc = "stopped", ![c].label = req[c].repo]
      /\ UNCHANGED <<session, ws, raced>>

\* docker stop and rm.  The repository is read off the server's label before, and
\* is the request's when there is no server or no label.
StopRemove(c) ==
  LET s == req[c].who
  IN  /\ req[c].pc = "stop"
      /\ \E label \in {server[s].repo, NoRepo} :
           LET repo == IF label = NoRepo THEN req[c].repo ELSE label
           IN  /\ TakeDown(s, label, repo)
               /\ req' = [req EXCEPT ![c].pc = "stopped", ![c].label = repo]
      /\ UNCHANGED <<session, ws, raced>>

StopForget(c) ==
  /\ req[c].pc = "stopped"
  /\ Forget(req[c].who, req[c].label)
  /\ req' = [req EXCEPT ![c] =
       IF @.next = "look" THEN Sweeping([@ EXCEPT !.label = NoRepo], "look") ELSE Over]
  /\ UNCHANGED <<session, server, raced, bereft>>

-----------------------------------------------------------------------------
(* The server's container (graphqlserver/entrypoint.sh) *)

SetPhase(s, phase) ==
  /\ server' = [server EXCEPT ![s].phase = phase]
  /\ UNCHANGED <<session, req, raced, bereft, changes>>

\* jj workspace add; the name must be free.
Materialise(s) ==
  /\ server[s].phase = "boot" /\ Mine(s) \notin ws
  /\ ws' = ws \cup {Mine(s)}
  /\ SetPhase(s, "install")
  /\ UNCHANGED leaked

\* Whatever fails before the exec, the name's being taken included: the shell's
\* EXIT trap forgets the workspace of that name.
BootFails(s) ==
  /\ server[s].phase \in {"boot", "install"}
  /\ ws' = ws \ {Mine(s)} /\ leaked' = leaked \ {Mine(s)}
  /\ SetPhase(s, "exited")

\* exec: from here on no trap runs.
Serve(s) == server[s].phase = "install" /\ SetPhase(s, "up") /\ UNCHANGED <<ws, leaked>>

\* It exits, or is killed at any time: no trap then either.
Crash(s) == IsRunning(s) /\ SetPhase(s, "exited") /\ UNCHANGED <<ws, leaked>>

-----------------------------------------------------------------------------
RequestStep(c) ==
  \/ SweepList(c) \/ (\E s \in Session : SweepCheck(c, s) \/ SweepSkips(c, s)) \/ SweepRemove(c)
  \/ SweepForget(c) \/ SweepEnds(c)
  \/ Look(c) \/ LookFails(c) \/ Clear(c) \/ ClearForget(c) \/ Run(c) \/ ReadPort(c)
  \/ ReadsNoPort(c) \/ SeesDead(c) \/ SeesUp(c) \/ TimeOut(c)
  \/ StopRemove(c) \/ StopForget(c)

Next ==
  \/ \E s \in Session : Pause(s) \/ Resume(s) \/ Remove(s) \/ Relaunch(s)
  \/ \E s \in Session : Materialise(s) \/ BootFails(s) \/ Serve(s) \/ Crash(s)
  \/ \E c \in Request, s \in Session, op \in {"start", "stop", "restart", "status"} :
       \E repo \in Mounts[s] : Ask(c, s, op, repo)
  \/ \E c \in Request : AskSweep(c) \/ Kill(c) \/ RequestStep(c)

Spec == Init /\ [][Next]_vars

-----------------------------------------------------------------------------
(* Properties *)

\* Types of every variable; a server's repository is one its session mounts.
TypeOK ==
  /\ session \in [Session -> {"absent", "stopped", "running"}]
  /\ \A s \in Session : server[s] = NoServer \/
       (/\ server[s].phase \in {"boot", "install", "up", "exited"}
        /\ server[s].repo \in Mounts[s] \cap Configured)
  /\ \A w \in ws : w[1] \in Session /\ w[2] \in Mounts[w[1]] \cap Configured
  /\ \A c \in Request :
       /\ req[c].pc \in {"idle", "over", "sweep", "pick", "reap", "misled", "swept", "look",
                         "clear", "cleared", "run", "port", "await", "stop", "stopped"}
       /\ req[c].next \in {"over", "look", "run"}
       /\ req[c].todo \subseteq Session
       /\ req[c].pc \in {"reap", "misled", "swept"} => req[c].target \in Session
       /\ req[c].pc \in {"look", "clear", "cleared", "run", "port", "await", "stop", "stopped"}
            => req[c].who \in Session /\ req[c].repo \in Mounts[req[c].who]
  /\ raced \subseteq Session /\ leaked \subseteq ws /\ bereft \subseteq Session
  /\ changes \in 0..Changes

\* A healthy server of a session that exists, paused or not, is removed only by a
\* stop or restart its session asked for, by the start that gave it up, or by a
\* sweep on which docker inspect failed: no other lookup of another session and no
\* second start takes it away, unless requests overlapped (cld-broker.py,
\* sweep_gql_orphans, do_graphql_start).
GivenUp(c, s) ==
  /\ req[c].who = s
  /\ req[c].pc \in {"stop", "port"} \/ (req[c].pc = "clear" /\ req[c].next = "over")

Misled(c, s) == req[c].pc = "misled" /\ req[c].target = s

ServersSurvive ==
  [][\A s \in Session \ raced :
       server[s].phase = "up" /\ ~Gone(s) /\ server'[s] = NoServer
         => \E c \in Request : GivenUp(c, s) \/ Misled(c, s)]_vars

\* "staleness never survives past the next lookup" (cld-broker.py:675): once a
\* sweep is over, every server that had lost its session when it began is gone,
\* exited ones too, unless the session is back, however requests overlap; but for
\* those that docker failed to list, to read or to remove for this sweep.
NoOrphanSurvives ==
  \A c \in Request : req[c].pc \in {"look", "clear", "run", "over"} =>
    \A s \in Session : Gone(s) /\ Served(s) => s \notin req[c].orphans

\* No jj workspace outlives its server, however requests overlap: whoever removes
\* the server forgets the workspace, unless it is killed, jj refuses, the label is
\* not read, no port is read, or the leftover was of another repository (leaked).
\* And no server loses the workspace it serves from, unless requests overlapped or
\* docker refused to remove that server (cld-broker.py, do_graphql_stop,
\* do_graphql_start, sweep_gql_orphans).
WorkspacesAreOwned ==
  \A s \in Session, r \in Repo :
    /\ <<s, r>> \in ws \ leaked => server[s].repo = r \/ \E c \in Request : Owed(c, s, r)
    /\ s \notin raced \cup bereft /\ server[s].repo = r /\ server[s].phase \in {"install", "up"}
         => <<s, r>> \in ws
=============================================================================
