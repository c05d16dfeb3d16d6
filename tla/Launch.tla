------------------------------- MODULE Launch -------------------------------
(***************************************************************************)
(* Concurrent launches of containers on one jj repository: task-agents,      *)
(* one-shot runs and tickets (cld/cli.py task_agent_start, run.py,           *)
(* ticket.py), the checks they make first (docker.py: the name, the cap of   *)
(* a master, the overlap of anchors), what a container then stages in the    *)
(* store (vcs-lib.sh) and the teardown that ends it.                         *)
(*                                                                         *)
(* A commit is the set of the changes in its ancestry.  The scratch commit   *)
(* that launch l stages adds the change l, and stands for the stack that is  *)
(* worked out above it.  Every check reads docker and the store at one       *)
(* moment; `docker run` comes later, as a step of its own.                   *)
(*                                                                         *)
(* Left out: other repositories, merges, rebases, git; image builds and the  *)
(* readiness wait, which change nothing here; the readiness checks of a reap *)
(* (Fleet); a ticket's other repositories, its re-anchoring and a boot that  *)
(* dies halfway (Ticket).                                                    *)
(***************************************************************************)
EXTENDS Integers, FiniteSets

CONSTANTS
  N,          \* launches
  Asks,       \* what each may ask for: kind, slug, parent, anchor mode
  Roots,      \* the commits that exist before
  Cap,        \* max_task_agents
  Faults      \* bound: how many things go wrong

Launch == 1..N
Kind == {"task-agent", "run", "ticket"}
Mode == {"isolated", "shared"}
Ask == UNION {Asks[l] : l \in Launch}
Slug == {ask.slug : ask \in Ask}
Parent == {ask.parent : ask \in Ask}

ASSUME LaunchAssumption ==
  /\ N \in Nat /\ Cap \in Nat /\ Faults \in Nat
  /\ \A l \in Launch : Asks[l] \subseteq [kind : Kind, slug : Slug, parent : Parent, mode : Mode]
  /\ \A root \in Roots : root \cap Launch = {}

VARIABLES
  cmd,        \* the launching commands
  ctr,        \* the container of each launch
  mark,       \* the session bookmarks, by name; NoMark when there is none
  commits,    \* the commits of the store
  reaping,    \* names whose container is gone and whose bookmark is next
  orphaned,   \* ghost: names whose teardown was cut short, until the next is complete
  hasty,      \* ghost: launches under a name whose teardown had not ended
  met,        \* ghost: pairs of launches that were in progress together
  blind,      \* ghost: launches that passed a check which could not see
  faults      \* bound: what has gone wrong so far

ghosts == <<orphaned, hasty, met, blind>>
vars == <<cmd, ctr, mark, commits, reaping, orphaned, hasty, met, blind, faults>>

NoMark == {}
NoAsk == [kind |-> "none"]

\* Containers, workspaces and bookmarks share one name: cld_agent_<repo>_<slug>
\* with a suffix, run_<slug>, cld_ticket_<slug>.
Name == Kind \X Slug \X (0..N)
NameOf(ask, suffix) == <<ask.kind, ask.slug, suffix>>
NameAt(l) == NameOf(cmd[l].ask, cmd[l].suffix)

Present(l) == ctr[l] # "none"
RunningNow(l) == ctr[l] \in {"boot", "live"}
Held(name) == \E l \in Launch : Present(l) /\ NameAt(l) = name
InProgress(l) == cmd[l].pc \notin {"idle", "over"}

Init ==
  /\ cmd = [l \in Launch |-> [pc |-> "idle", ask |-> NoAsk, suffix |-> 0, base |-> {}]]
  /\ ctr = [l \in Launch |-> "none"]
  /\ mark = [name \in Name |-> NoMark]
  /\ commits = Roots
  /\ reaping = {}
  /\ orphaned = {} /\ hasty = {} /\ met = {} /\ blind = {}
  /\ faults = 0

\* Something goes wrong: a process dies, docker or jj fails.
Fault == faults < Faults /\ faults' = faults + 1

-----------------------------------------------------------------------------
(* The launching command *)

Goto(l, pc) == cmd' = [cmd EXCEPT ![l].pc = pc]

\* Launches are numbered in the order they are asked for.
Start(l, ask) ==
  /\ cmd[l].pc = "idle" /\ \A k \in 1..(l - 1) : cmd[k].pc # "idle"
  /\ cmd' = [cmd EXCEPT ![l].ask = ask,
                        ![l].pc = IF ask.kind = "run" THEN "check" ELSE "name"]
  /\ met' = met \cup {{k, l} : k \in {k \in Launch : InProgress(k)}}
  /\ UNCHANGED <<ctr, mark, commits, reaping, orphaned, hasty, blind, faults>>

NextSuffix(suffix) == IF suffix = 0 THEN 2 ELSE suffix + 1

\* One probe of docker.  A task-agent takes the first suffix that no container
\* has, and reserves nothing; a ticket that exists is not launched again.
ProbeName(l) ==
  /\ cmd[l].pc = "name"
  /\ IF ~Held(NameAt(l))
     THEN Goto(l, IF cmd[l].ask.kind = "ticket" THEN "check" ELSE "cap")
     ELSE IF cmd[l].ask.kind = "ticket" THEN Goto(l, "over")
     ELSE cmd' = [cmd EXCEPT ![l].suffix = NextSuffix(@)]
  /\ UNCHANGED <<ctr, mark, commits, reaping, ghosts, faults>>

Agents(parent) ==
  {l \in Launch : RunningNow(l) /\ cmd[l].ask.kind = "task-agent" /\ cmd[l].ask.parent = parent}

\* Mutation: off by one.
HasCapacityLate(seen) == Cardinality(seen) <= Cap

HasCapacity(seen) == Cardinality(seen) < Cap

\* The running agents of the same parent are counted.  Containers docker does
\* not list or inspect are silently not counted.
CheckCapacity(l, missed) ==
  /\ cmd[l].pc = "cap"
  /\ missed \subseteq Agents(cmd[l].ask.parent)
  /\ Goto(l, IF HasCapacity(Agents(cmd[l].ask.parent) \ missed) THEN "check" ELSE "over")
  /\ IF missed = {} THEN UNCHANGED <<blind, faults>> ELSE Fault /\ blind' = blind \cup {l}
  /\ UNCHANGED <<ctr, mark, commits, reaping, orphaned, hasty, met>>

\* Mutation: stopped containers are taken for gone.
OccupantsRunning == {l \in Launch : RunningNow(l)}

\* Every container of the three kinds, running or stopped; a run's is removed
\* when it ends.
Occupants == {l \in Launch : Present(l)}

\* The scratch commit, found below the session bookmark; the base until it has
\* been staged, and in shared mode.
Effective(l) ==
  IF cmd[l].ask.mode = "shared" \/ mark[NameAt(l)] = NoMark
  THEN cmd[l].base ELSE mark[NameAt(l)]

Above(commit, anchor) == anchor \subseteq commit

\* The anchor is inside an occupant's reach or, if it is shared, above one.
Overlaps(base, mode, occupant) ==
  \/ Above(base, Effective(occupant))
  \/ mode = "shared" /\ Above(Effective(occupant), base)

Stacked(l, k) == cmd[l].ask.kind = "ticket" /\ cmd[k].ask.kind = "ticket"

\* The revision is pinned, then held against every occupant docker shows.
\* Between tickets an overlap is only a warning.  An occupant that cannot be
\* judged (jj fails, a manifest that cannot be read) stops all but a ticket.
CheckAnchor(l, base, missed, unread) ==
  LET seen == Occupants \ missed
      clash == \E k \in seen \ unread :
                 Overlaps(base, cmd[l].ask.mode, k) /\ ~Stacked(l, k)
      refused == clash \/ (unread # {} /\ cmd[l].ask.kind # "ticket")
  IN  /\ cmd[l].pc = "check"
      /\ base \in commits
      /\ missed \subseteq Occupants /\ unread \subseteq seen
      /\ cmd' = [cmd EXCEPT ![l].base = IF refused THEN @ ELSE base,
                            ![l].pc = IF refused THEN "over" ELSE "run"]
      /\ IF missed \cup unread = {} THEN UNCHANGED <<blind, faults>>
         ELSE Fault /\ blind' = blind \cup {l}
      /\ UNCHANGED <<ctr, mark, commits, reaping, orphaned, hasty, met>>

\* docker run: refused when the name is taken by now.
DockerRun(l) ==
  /\ cmd[l].pc = "run"
  /\ Goto(l, "over")
  /\ ctr' = IF Held(NameAt(l)) THEN ctr ELSE [ctr EXCEPT ![l] = "boot"]
  /\ hasty' = IF NameAt(l) \in reaping THEN hasty \cup {l} ELSE hasty
  /\ UNCHANGED <<mark, commits, reaping, orphaned, met, blind, faults>>

-----------------------------------------------------------------------------
(* The container *)

\* Mutation: the bookmark is set whether or not the scratch commit was staged.
BootFreshUnstaged(l) ==
  /\ ctr[l] = "boot" /\ mark[NameAt(l)] = NoMark
  /\ ctr' = [ctr EXCEPT ![l] = "live"]
  /\ mark' = [mark EXCEPT ![NameAt(l)] = cmd[l].base \cup {l}]
  /\ UNCHANGED <<cmd, commits, reaping, ghosts, faults>>

\* No bookmark of the name: the scratch commit is staged and marked.
BootFresh(l) ==
  LET scratch == cmd[l].base \cup {l}
  IN  /\ ctr[l] = "boot" /\ mark[NameAt(l)] = NoMark
      /\ ctr' = [ctr EXCEPT ![l] = "live"]
      /\ commits' = commits \cup {scratch}
      /\ mark' = [mark EXCEPT ![NameAt(l)] = scratch]
      /\ UNCHANGED <<cmd, reaping, ghosts, faults>>

\* A bookmark was left: the workspace is attached to it, wherever it is.  A run
\* does not survive its name's being known to the store.
BootReattach(l) ==
  /\ ctr[l] = "boot" /\ mark[NameAt(l)] # NoMark
  /\ ctr' = [ctr EXCEPT ![l] = IF cmd[l].ask.kind = "run" THEN "none" ELSE "live"]
  /\ UNCHANGED <<cmd, mark, commits, reaping, ghosts, faults>>

\* A run is over; its container goes, its bookmark stays.
RunEnds(l) ==
  /\ ctr[l] = "live" /\ cmd[l].ask.kind = "run"
  /\ ctr' = [ctr EXCEPT ![l] = "none"]
  /\ UNCHANGED <<cmd, mark, commits, reaping, ghosts, faults>>

\* A supervisor's last act is to forget its bookmark.
SupervisorExits(l) ==
  /\ ctr[l] = "live" /\ cmd[l].ask.kind = "task-agent"
  /\ ctr' = [ctr EXCEPT ![l] = "stopped"]
  /\ mark' = [mark EXCEPT ![NameAt(l)] = NoMark]
  /\ UNCHANGED <<cmd, commits, reaping, ghosts, faults>>

\* A ticket is paused, and resumed in its place without a check.
PauseTicket(l) ==
  /\ ctr[l] = "live" /\ cmd[l].ask.kind = "ticket"
  /\ ctr' = [ctr EXCEPT ![l] = "stopped"]
  /\ UNCHANGED <<cmd, mark, commits, reaping, ghosts, faults>>

ResumeTicket(l) ==
  /\ ctr[l] = "stopped" /\ cmd[l].ask.kind = "ticket"
  /\ ctr' = [ctr EXCEPT ![l] = "live"]
  /\ UNCHANGED <<cmd, mark, commits, reaping, ghosts, faults>>

\* SIGKILL, OOM: nothing is forgotten.
Die(l) ==
  /\ Fault
  /\ ctr[l] = "live"
  /\ ctr' = [ctr EXCEPT ![l] = IF cmd[l].ask.kind = "run" THEN "none" ELSE "stopped"]
  /\ UNCHANGED <<cmd, mark, commits, reaping, ghosts>>

-----------------------------------------------------------------------------
(* Teardown: the container, then the session *)

StopAndRemove(l) ==
  /\ Present(l) /\ cmd[l].ask.kind # "run"
  /\ ctr' = [ctr EXCEPT ![l] = "none"]
  /\ reaping' = reaping \cup {NameAt(l)}
  /\ UNCHANGED <<cmd, mark, commits, ghosts, faults>>

\* Mutation: only the workspace is forgotten.
ForgetWorkspace(name) ==
  /\ name \in reaping
  /\ reaping' = reaping \ {name} /\ orphaned' = orphaned \ {name}
  /\ UNCHANGED <<cmd, ctr, mark, commits, hasty, met, blind, faults>>

ForgetSession(name) ==
  /\ name \in reaping
  /\ reaping' = reaping \ {name} /\ orphaned' = orphaned \ {name}
  /\ mark' = [mark EXCEPT ![name] = NoMark]
  /\ UNCHANGED <<cmd, ctr, commits, hasty, met, blind, faults>>

\* The reaper dies, jj fails, or the container was removed by hand.
CutShort(name) ==
  /\ Fault
  /\ name \in reaping
  /\ reaping' = reaping \ {name}
  /\ orphaned' = orphaned \cup {name}
  /\ UNCHANGED <<cmd, ctr, mark, commits, hasty, met, blind>>

-----------------------------------------------------------------------------
Command(l) ==
  \/ \E ask \in Asks[l] : Start(l, ask)
  \/ ProbeName(l) \/ DockerRun(l)
  \/ \E missed \in SUBSET Launch : CheckCapacity(l, missed)
  \/ \E base \in commits, missed, unread \in SUBSET Launch : CheckAnchor(l, base, missed, unread)

Container(l) ==
  \/ BootFresh(l) \/ BootReattach(l) \/ RunEnds(l) \/ SupervisorExits(l)
  \/ PauseTicket(l) \/ ResumeTicket(l) \/ Die(l)

Next ==
  \/ \E l \in Launch : Command(l) \/ Container(l) \/ StopAndRemove(l)
  \/ \E name \in Name : ForgetSession(name) \/ CutShort(name)

Spec == Init /\ [][Next]_vars

-----------------------------------------------------------------------------
(* Properties *)

Commit == SUBSET ((UNION Roots) \cup Launch)

\* Types of every variable.  Every bookmark is on a commit of the store, a
\* name that some launch took, and no name is held twice.
TypeOK ==
  /\ cmd \in [Launch -> [pc : {"idle", "name", "cap", "check", "run", "over"},
                         ask : Ask \cup {NoAsk}, suffix : Nat, base : Commit]]
  /\ ctr \in [Launch -> {"none", "boot", "live", "stopped"}]
  /\ \A l \in Launch : cmd[l].pc # "idle" => cmd[l].ask \in Ask /\ NameAt(l) \in Name
  /\ \A l \in Launch : Present(l) => cmd[l].pc = "over"
  /\ commits \subseteq Commit
  /\ mark \in [Name -> commits \cup {NoMark}]
  /\ reaping \subseteq Name /\ orphaned \subseteq Name
  /\ hasty \subseteq Launch /\ blind \subseteq Launch
  /\ met \subseteq SUBSET Launch
  /\ faults \in 0..Faults
  /\ \A k, l \in Launch : Present(k) /\ Present(l) /\ NameAt(k) = NameAt(l) => k = l

\* What a container may edit: what is above its scratch commit or, shared, above
\* its base.
Reaches(l, commit) ==
  IF cmd[l].ask.mode = "shared" THEN Above(commit, cmd[l].base) ELSE l \in commit

\* Started on a name whose session had been left behind, a run's included that
\* is about to die of it.
Inherits(l) ==
  \/ l \in hasty \/ NameAt(l) \in orphaned
  \/ ctr[l] = "boot" /\ cmd[l].ask.kind = "run" /\ mark[NameAt(l)] # NoMark

\* No container's base is inside what another may rewrite, stopped ones
\* included, which may come back.  Only tickets stack.  Two launches that were in
\* progress together may claim the same shared tree, but none is ever placed
\* in an isolated one (docker.py, resolve_anchor_checked).
ReachIsDisjoint ==
  \A c, d \in Launch :
    /\ c # d /\ Present(c) /\ Present(d)
    /\ ~Stacked(c, d) /\ {c, d} \cap blind = {} /\ ~Inherits(c) /\ ~Inherits(d)
    /\ Reaches(c, cmd[d].base)
    => cmd[c].ask.mode = "shared" /\ {c, d} \in met

\* However launches, exits and reaps interleave, no master has more than
\* max_task_agents running, counting no two that were launched together.
CapHolds ==
  \A parent \in Parent : \A together \in SUBSET (Agents(parent) \ blind) :
    (\A k, l \in together : k # l => {k, l} \notin met) => Cardinality(together) <= Cap

\* "bookmark exists in the origin store <=> a live or restart-paused lifecycle
\* owns this session ... shutdown forgets it so the next launch is a fresh
\* lifecycle honoring the requested revision" (vcs-lib.sh:78-81): but for runs, a
\* name whose teardown was cut short, until a later one is complete, and the
\* bookmark of a launch that overtook one.
BookmarksAreOwned ==
  \A name \in Name \ orphaned : name[1] # "run" =>
    /\ mark[name] # NoMark => Held(name) \/ name \in reaping
    /\ \A l \in Launch \ hasty :
         ctr[l] = "live" /\ NameAt(l) = name => mark[name] = cmd[l].base \cup {l}
=============================================================================
