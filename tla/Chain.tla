------------------------------- MODULE Chain -------------------------------
(***************************************************************************)
(* Prompt chains: the commands `cld chain run` of one chain name, attached   *)
(* or detached (cld/cli.py), the state.json by which a detached command      *)
(* tells whether the chain already runs (chain_state.py), the runner         *)
(* (chain.py, run.py, agent_runtime.py), the one-shot containers it          *)
(* launches (entrypoint-claude-run.sh) and the jj store they meet in: the    *)
(* persistent chain branch and the transient bookmark of each session.       *)
(*                                                                         *)
(* A commit is the set of the changes in its ancestry, so "ancestor of" is   *)
(* inclusion.  An agent stages one commit of its own on its base and works   *)
(* above it: the session's name stands for both.                             *)
(*                                                                         *)
(* Left out: other chains and containers, costs and reports, progress        *)
(* fields of state.json, a chain file edited between command and runner; a   *)
(* command killed between spawning its runner and recording it.              *)
(***************************************************************************)
EXTENDS Integers, FiniteSets, Sequences

CONSTANTS
  Runs,       \* how many times the command is given
  Attached,   \* those that may be given --no-detach
  Faults,     \* bound: how many things go wrong
  Docs,       \* the chain files it may be given, well-formed YAML
  Anchors,    \* the commits its user may start from
  Step        \* step names

Run == 1..Runs
NoPid == 0
Item ==
  {item \in [parallel : BOOLEAN, steps : Seq([name : Step, inputs : SUBSET Step])] :
     item.parallel \/ Len(item.steps) = 1}

ASSUME ChainAssumption ==
  /\ Runs \in Nat /\ Faults \in Nat /\ Attached \subseteq Run
  /\ Docs \subseteq Seq(Item)

\* A session, hence container, workspace and bookmark, is named after its step
\* and, in a group, the group's index.
SessionOf(doc, i, k) ==
  <<IF doc[i].parallel THEN i ELSE 0, doc[i].steps[k].name>>

Sessions(doc, i) == {SessionOf(doc, i, k) : k \in DOMAIN doc[i].steps}
Session == UNION {UNION {Sessions(doc, i) : i \in DOMAIN doc} : doc \in Docs}

ASSUME AnchorAssumption ==
  \A anchor \in Anchors : anchor # {} /\ anchor \cap Session = {}

VARIABLES
  file,       \* state.json, or NoFile when the chain has no state directory
  cmd,        \* the commands
  run,        \* the runners: a detached child, or the command itself
  branch,     \* the chain branch; {} before it exists
  mark,       \* each session's bookmark and the summary.json it shows
  ctr,        \* each session's container
  spaces,     \* sessions with a workspace registered in the store
  raced,      \* ghost: two detached commands were in progress together
  entangled,  \* ghost: runs that met another runner, or a session left by one
  lied,       \* ghost: runs to which docker misreported a container
  faults      \* bound: what has gone wrong so far

host == <<file, cmd>>
store == <<branch, mark, spaces>>
bounded == <<raced, entangled, lied, faults>>
vars == <<file, cmd, run, branch, mark, ctr, spaces, raced, entangled, lied, faults>>

NoFile == [status |-> "none", pid |-> NoPid, doc |-> <<>>, anchor |-> {}]
NoMark == [at |-> {}, summary |-> "none"]
NoContainer == [phase |-> "none", base |-> {}, by |-> NoPid]
NoRun == [pc |-> "none", attached |-> FALSE, doc |-> <<>>, anchor |-> {},
          item |-> 1, fed |-> {}, seen |-> {}, launched |-> 0, got |-> 0, failed |-> FALSE,
          outcome |-> "none"]

Ok == {"success", "unknown"}

-----------------------------------------------------------------------------
(* The chain file *)

Names(item) == {item.steps[k].name : k \in DOMAIN item.steps}
Before(doc, i) == UNION {Names(doc[j]) : j \in 1..(i - 1)}

\* Names are unique, and a step takes the output of steps of earlier items only.
Valid(doc) ==
  /\ doc # <<>>
  /\ \A i \in DOMAIN doc :
       /\ doc[i].steps # <<>>
       /\ Cardinality(Names(doc[i])) = Len(doc[i].steps)
       /\ Names(doc[i]) \cap Before(doc, i) = {}
       /\ \A k \in DOMAIN doc[i].steps : doc[i].steps[k].inputs \subseteq Before(doc, i)

\* Mutation: of a group, only the last result is carried on.
PriorOutputsLast(doc, i, seen) ==
  IF ~doc[i].parallel /\ doc[i].steps[1].inputs # {} THEN doc[i].steps[1].inputs \cap seen
  ELSE IF i = 1 THEN {} ELSE {doc[i - 1].steps[Len(doc[i - 1].steps)].name} \cap seen

\* The steps whose output the brief of an item carries.  A group has no inputs
\* of its own, and those of its siblings are not looked at.
PriorOutputs(doc, i, seen) ==
  IF ~doc[i].parallel /\ doc[i].steps[1].inputs # {} THEN doc[i].steps[1].inputs \cap seen
  ELSE IF i = 1 THEN {} ELSE Names(doc[i - 1]) \cap seen

-----------------------------------------------------------------------------
Init ==
  /\ file = NoFile
  /\ cmd = [r \in Run |-> [pc |-> "idle", doc |-> <<>>, anchor |-> {}]]
  /\ run = [r \in Run |-> NoRun]
  /\ branch = {}
  /\ mark = [s \in Session |-> NoMark]
  /\ ctr = [s \in Session |-> NoContainer]
  /\ spaces = {}
  /\ raced = FALSE
  /\ entangled = {}
  /\ lied = {}
  /\ faults = 0

\* Something goes wrong: a process or container dies, docker fails.
Fault == faults < Faults /\ faults' = faults + 1

-----------------------------------------------------------------------------
(* The command: `cld chain run`, detached unless told otherwise *)

Busy(r) == cmd[r].pc \notin {"idle", "done"}
Alive(pid) == pid # NoPid /\ run[pid].pc \notin {"none", "ended", "dead"}

\* Runs are numbered in the order they are asked for.
Given(r) == cmd[r].pc = "idle" /\ \A q \in 1..(r - 1) : cmd[q].pc # "idle"

\* Whoever runs when r begins is entangled with it.
Meets(r) ==
  LET others == {q \in Run \ {r} : Alive(q)} IN
  entangled' = IF others = {} THEN entangled ELSE entangled \cup others \cup {r}

\* The anchor is pinned where the user is when the command is given.
Start(r, doc, anchor) ==
  /\ Given(r)
  /\ Valid(doc)
  /\ cmd' = [cmd EXCEPT ![r] = [pc |-> "gc", doc |-> doc, anchor |-> anchor]]
  /\ raced' = (raced \/ \E q \in Run : Busy(q))
  /\ UNCHANGED <<file, run, store, ctr, entangled, lied, faults>>

\* --no-detach: no state file is read or written.
StartAttached(r, doc, anchor) ==
  /\ Given(r) /\ r \in Attached
  /\ Valid(doc)
  /\ cmd' = [cmd EXCEPT ![r].pc = "done"]
  /\ run' = [run EXCEPT ![r] =
       [NoRun EXCEPT !.pc = "init", !.attached = TRUE, !.doc = doc, !.anchor = anchor]]
  /\ Meets(r)
  /\ UNCHANGED <<file, store, ctr, raced, lied, faults>>

\* A chain that runs is not started again; any other state directory is moved
\* out of the way.
GcOrRefuse(r) ==
  /\ cmd[r].pc = "gc"
  /\ IF file.status = "running" /\ Alive(file.pid)
     THEN cmd' = [cmd EXCEPT ![r].pc = "done"] /\ UNCHANGED file
     ELSE cmd' = [cmd EXCEPT ![r].pc = "spawn"] /\ file' = NoFile
  /\ UNCHANGED <<run, store, ctr, bounded>>

InitialState(r, pid) ==
  [status |-> "running", pid |-> pid, doc |-> cmd[r].doc, anchor |-> cmd[r].anchor]

\* The state is staged, then the runner is spawned: the pid is not known yet.
Spawn(r) ==
  /\ cmd[r].pc = "spawn"
  /\ cmd' = [cmd EXCEPT ![r].pc = "record"]
  /\ file' = InitialState(r, NoPid)
  /\ run' = [run EXCEPT ![r] = [NoRun EXCEPT !.pc = "boot"]]
  /\ Meets(r)
  /\ UNCHANGED <<store, ctr, raced, lied, faults>>

\* Mutation: the pid is left to the runner to record.
RecordNothing(r) ==
  /\ cmd[r].pc = "record"
  /\ cmd' = [cmd EXCEPT ![r].pc = "done"]
  /\ UNCHANGED <<file, run, store, ctr, bounded>>

\* The initial state is written over whatever the runner has written since;
\* the write fails when another command has moved the directory away.
RecordPid(r) ==
  /\ cmd[r].pc = "record"
  /\ cmd' = [cmd EXCEPT ![r].pc = "done"]
  /\ file' = IF file = NoFile THEN NoFile ELSE InitialState(r, r)
  /\ UNCHANGED <<run, store, ctr, bounded>>

-----------------------------------------------------------------------------
(* The runner *)

State(r, new) ==
  [status |-> IF new.pc # "ended" THEN "running"
              ELSE IF new.outcome = "success" THEN "success" ELSE "failed",
   pid |-> r, doc |-> new.doc, anchor |-> new.anchor]

Dead(r) == [NoRun EXCEPT !.pc = "dead", !.attached = run[r].attached]

\* Every write of state.json is made from the runner's own copy.  Without its
\* directory it fails, and so does reporting the failure.
Save(r, new) ==
  IF new.attached THEN run' = [run EXCEPT ![r] = new] /\ UNCHANGED file
  ELSE IF file = NoFile THEN run' = [run EXCEPT ![r] = Dead(r)] /\ UNCHANGED file
  ELSE run' = [run EXCEPT ![r] = new] /\ file' = State(r, new)

\* The chain and the anchor are taken from state.json, whoever wrote it.
Boot(r) ==
  /\ run[r].pc = "boot"
  /\ Save(r, [run[r] EXCEPT !.pc = "init", !.doc = file.doc, !.anchor = file.anchor])
  /\ UNCHANGED <<cmd, store, ctr, bounded>>

\* Mutation: the bookmark is forced.
SetBranchForced(commit) == commit

\* `jj bookmark set` creates the bookmark or moves it forward; what would move
\* it backwards or sideways fails, and set_branch does not look.
SetBranch(commit) == IF branch \subseteq commit THEN commit ELSE branch

\* Mutation: the results of the last item are not cleared.
BegunStale(new, i) ==
  [new EXCEPT !.pc = "launch", !.item = i, !.launched = 0,
              !.fed = PriorOutputs(new.doc, i, new.seen)]

\* An item is begun: its brief is composed, its sessions noted in state.json.
Begun(new, i) ==
  [new EXCEPT !.pc = "launch", !.item = i, !.launched = 0, !.got = 0,
              !.fed = PriorOutputs(new.doc, i, new.seen)]

InitialiseBranch(r) ==
  /\ run[r].pc = "init"
  /\ branch' = SetBranch(run[r].anchor)
  /\ Save(r, Begun(run[r], 1))
  /\ UNCHANGED <<cmd, mark, spaces, ctr, bounded>>

Current(r) == run[r].doc[run[r].item]
SessionAt(r, k) == SessionOf(run[r].doc, run[r].item, k)
Mine(r) == Sessions(run[r].doc, run[r].item)

Running(s) == ctr[s].phase # "none"

\* The overlap check: the chain branch lies above what a running container has
\* staged, or above its base while it has no bookmark.
Reach(s) == IF mark[s] = NoMark THEN ctr[s].base ELSE mark[s].at
Overlap == \E s \in Session : Running(s) /\ Reach(s) \subseteq branch

\* Agents of a group are launched one after the other, none awaited.
Launch(r) ==
  LET s == SessionAt(r, run[r].launched + 1)
      last == run[r].launched + 1 = Len(Current(r).steps)
  IN  /\ run[r].pc = "launch"
      /\ IF Overlap \/ Running(s)
         THEN /\ run' = [run EXCEPT ![r].pc = "end", ![r].outcome = "launch"]
              /\ UNCHANGED <<ctr, entangled>>
         ELSE /\ run' = [run EXCEPT ![r].launched = @ + 1,
                                    ![r].pc = IF last THEN "wait" ELSE "launch"]
              /\ ctr' = [ctr EXCEPT ![s] = [phase |-> "boot", base |-> branch, by |-> r]]
              /\ entangled' = IF s \in spaces THEN entangled \cup {r} ELSE entangled
      /\ UNCHANGED <<host, store, raced, lied, faults>>

\* A result is in.  With the item's last, the run goes on or is over.
Collect(r, status) ==
  LET new == [run[r] EXCEPT !.got = @ + 1, !.failed = @ \/ status \notin Ok,
                            !.seen = @ \cup {Current(r).steps[run[r].got + 1].name}]
  IN  IF new.got < Len(Current(r).steps) THEN run' = [run EXCEPT ![r] = new] /\ UNCHANGED file
      ELSE IF new.failed THEN Save(r, [new EXCEPT !.pc = "end", !.outcome = "failed"])
      ELSE Save(r, [new EXCEPT !.pc = "advance"])

Awaited(r) == SessionAt(r, run[r].got + 1)

\* The container is gone from `docker ps`: what the bookmark shows is the
\* result, and no summary is "unknown".
AgentGone(r) ==
  /\ run[r].pc = "wait"
  /\ ~Running(Awaited(r))
  /\ Collect(r, IF mark[Awaited(r)].summary = "none" THEN "unknown" ELSE mark[Awaited(r)].summary)
  /\ UNCHANGED <<cmd, store, ctr, bounded>>

\* A `docker ps` that fails prints nothing either.
PsFails(r) ==
  /\ run[r].pc = "wait"
  /\ Running(Awaited(r))
  /\ Collect(r, IF mark[Awaited(r)].summary = "none" THEN "unknown" ELSE mark[Awaited(r)].summary)
  /\ Fault
  /\ lied' = lied \cup {r}
  /\ UNCHANGED <<cmd, store, ctr, raced, entangled>>

\* Mutation: the wait is given up and the container left alone.
TimeOutLeaves(r, stopped) ==
  /\ run[r].pc = "wait"
  /\ Running(Awaited(r))
  /\ Collect(r, "timeout")
  /\ stopped
  /\ UNCHANGED <<cmd, store, ctr, bounded>>

\* The wait is over; the result of `docker stop` is not looked at.
TimeOut(r, stopped) ==
  /\ run[r].pc = "wait"
  /\ Running(Awaited(r))
  /\ Collect(r, "timeout")
  /\ IF stopped
     THEN ctr' = [ctr EXCEPT ![Awaited(r)] = NoContainer] /\ UNCHANGED <<lied, faults>>
     ELSE Fault /\ lied' = lied \cup {r} /\ UNCHANGED ctr
  /\ UNCHANGED <<cmd, store, raced, entangled>>

\* Mutation: the descent check is dropped.
DescendsAnyhow(r, s) == TRUE

\* Of a group only the first sibling's work is kept.  A session without a
\* bookmark descends from nothing.
Descends(r, s) == mark[s] # NoMark /\ run[r].anchor \subseteq mark[s].at

AdvanceBranch(r) ==
  LET s == SessionAt(r, 1)
      last == run[r].item = Len(run[r].doc)
  IN  /\ run[r].pc = "advance"
      /\ IF Descends(r, s)
         THEN /\ branch' = SetBranch(mark[s].at)
              /\ mark' = [t \in Session |-> IF t \in Mine(r) THEN NoMark ELSE mark[t]]
              /\ IF last
                 THEN run' = [run EXCEPT ![r].pc = "end", ![r].outcome = "success"] /\ UNCHANGED file
                 ELSE Save(r, Begun(run[r], run[r].item + 1))
         ELSE /\ run' = [run EXCEPT ![r].pc = "end", ![r].outcome = "failed"]
              /\ UNCHANGED <<file, branch, mark>>
      /\ UNCHANGED <<cmd, spaces, ctr, bounded>>

\* The last write: "success" or, for every other outcome, "failed".
End(r) ==
  /\ run[r].pc = "end"
  /\ Save(r, [run[r] EXCEPT !.pc = "ended", !.item = 1, !.fed = {}, !.seen = {}, !.launched = 0,
                !.got = 0, !.failed = FALSE,
                !.outcome = IF @ = "success" THEN @ ELSE "failed"])
  /\ UNCHANGED <<cmd, store, ctr, bounded>>

\* Ctrl-C ends the run where it is.
Interrupt(r) ==
  /\ Fault
  /\ run[r].pc \in {"launch", "wait", "advance"}
  /\ run' = [run EXCEPT ![r].pc = "end", ![r].outcome = "interrupted"]
  /\ UNCHANGED <<host, store, ctr, raced, entangled, lied>>

\* SIGKILL, a host restart: nothing is written.
Kill(r) ==
  /\ Fault
  /\ run[r].pc \notin {"none", "ended", "dead"}
  /\ run' = [run EXCEPT ![r] = Dead(r)]
  /\ UNCHANGED <<host, store, ctr, raced, entangled, lied>>

-----------------------------------------------------------------------------
(* The container of a session *)

Exit(s) == ctr' = [ctr EXCEPT ![s] = NoContainer]
Tip(s) == ctr[s].base \cup {s}

\* No workspace is ever forgotten, so a session's name stages once; the boot
\* may die after any of its commands.
BootStaged(s) ==
  /\ ctr[s].phase = "boot" /\ s \notin spaces
  /\ spaces' = spaces \cup {s}
  /\ mark' = [mark EXCEPT ![s] = [at |-> Tip(s), summary |-> "none"]]
  /\ ctr' = [ctr EXCEPT ![s].phase = "work"]
  /\ UNCHANGED <<host, run, branch, bounded>>

BootRefused(s) ==
  /\ ctr[s].phase = "boot" /\ s \in spaces
  /\ Exit(s)
  /\ UNCHANGED <<host, run, store, bounded>>

BootDies(s) ==
  /\ Fault
  /\ ctr[s].phase = "boot" /\ s \notin spaces
  /\ Exit(s)
  /\ spaces' \in {spaces, spaces \cup {s}}
  /\ UNCHANGED <<host, run, branch, mark, raced, entangled, lied>>

\* A commit sets the bookmark again, whether or not it still exists; the
\* summary is squashed into it.
WorkCommitted(s, status) ==
  /\ ctr[s].phase = "work"
  /\ Exit(s)
  /\ mark' = [mark EXCEPT ![s] = [at |-> Tip(s), summary |-> status]]
  /\ UNCHANGED <<host, run, branch, spaces, bounded>>

\* Nothing to commit: the summary ("no_changes", as good as success) stays in the
\* working copy, on which the bookmark, if it still exists, is.
WorkEmpty(s) ==
  /\ ctr[s].phase = "work"
  /\ Exit(s)
  /\ mark' = IF mark[s] = NoMark THEN mark ELSE [mark EXCEPT ![s].summary = "success"]
  /\ UNCHANGED <<host, run, branch, spaces, bounded>>

\* The container dies, the commit fails, or the work has left its anchor: the
\* entrypoint is gone before the summary is written.
WorkDies(s) ==
  /\ Fault
  /\ ctr[s].phase = "work"
  /\ Exit(s)
  /\ UNCHANGED <<host, run, store, raced, entangled, lied>>

-----------------------------------------------------------------------------
Command(r) == GcOrRefuse(r) \/ Spawn(r) \/ RecordPid(r)

Runner(r) ==
  \/ Boot(r) \/ InitialiseBranch(r) \/ Launch(r)
  \/ AgentGone(r) \/ PsFails(r) \/ (\E stopped \in BOOLEAN : TimeOut(r, stopped))
  \/ AdvanceBranch(r) \/ End(r)

Container(s) ==
  \/ BootStaged(s) \/ BootRefused(s) \/ BootDies(s) \/ WorkEmpty(s) \/ WorkDies(s)
  \/ \E status \in {"success", "failed"} : WorkCommitted(s, status)

Next ==
  \/ \E r \in Run, doc \in Docs, anchor \in Anchors :
       Start(r, doc, anchor) \/ StartAttached(r, doc, anchor)
  \/ \E r \in Run : Command(r) \/ Runner(r) \/ Interrupt(r) \/ Kill(r)
  \/ \E s \in Session : Container(s)

\* A runner is a process that is scheduled; its timeout needs no agent to end.
Spec == Init /\ [][Next]_vars /\ \A r \in Run : WF_vars(Runner(r))

-----------------------------------------------------------------------------
(* Properties *)

Commit == SUBSET ((UNION Anchors) \cup Session)

\* Types of every variable.
TypeOK ==
  /\ file \in [status : {"none", "running", "success", "failed"},
              pid : Run \cup {NoPid}, doc : Docs \cup {<<>>}, anchor : Anchors \cup {{}}]
  /\ cmd \in [Run -> [pc : {"idle", "gc", "spawn", "record", "done"},
                      doc : Docs \cup {<<>>}, anchor : Anchors \cup {{}}]]
  /\ \A r \in Run :
       /\ run[r].pc \in {"none", "boot", "init", "launch", "wait",
                         "advance", "end", "ended", "dead"}
       /\ run[r].attached \in BOOLEAN
       /\ run[r].anchor \in Anchors \cup {{}}
       /\ run[r].pc \notin {"none", "boot", "dead"} => run[r].doc \in Docs
       /\ run[r].pc \notin {"none", "boot", "dead"} => run[r].item \in DOMAIN run[r].doc
       /\ run[r].fed \subseteq run[r].seen /\ run[r].seen \subseteq Step
       /\ run[r].got \in 0..run[r].launched /\ run[r].failed \in BOOLEAN
  /\ branch \in Commit
  /\ mark \in [Session -> [at : Commit, summary : {"none", "success", "failed"}]]
  /\ ctr \in [Session -> [phase : {"none", "boot", "work"}, base : Commit, by : Run \cup {NoPid}]]
  /\ spaces \subseteq Session
  /\ raced \in BOOLEAN /\ entangled \subseteq Run /\ lied \subseteq Run /\ faults \in 0..Faults

\* Commands given one after the other never have two detached runners of the
\* chain alive: the second is refused (cli.py, _gc_or_refuse), which takes the
\* command's recording the pid before it returns.
OneRunner ==
  ~raced => Cardinality({r \in Run : ~run[r].attached /\ Alive(r)}) <= 1

\* A run that succeeded has left the chain branch on a descendant of the anchor
\* it was given, though an earlier run may have put the branch elsewhere and
\* set_branch fails silently (chain.py, advance_chain_branch).
SuccessDescends ==
  \A r \in Run : run[r].outcome = "success" => run[r].anchor \subseteq branch

\* What a step leaves behind is on the chain branch, and stays there whatever is
\* run later from wherever: that of every item a run has gone past, and of all if
\* it succeeded (chain.py, advance_chain_branch: the step's tip "becomes the new
\* chain head").  Unless another runner of the chain was about, or a session of an
\* earlier run stood in the way: then set_branch fails, nobody looks, and the
\* bookmark of the work is deleted all the same.
DoneItems(r) ==
  IF run[r].outcome = "success" THEN DOMAIN run[r].doc ELSE 1..(run[r].item - 1)

WorkIsKept ==
  \A r \in Run \ entangled : \A i \in DoneItems(r) : SessionOf(run[r].doc, i, 1) \in branch

\* Whatever is run again, killed or raced, no work that is on the chain branch
\* is ever off it again.
BranchOnlyGrows == [][branch \subseteq branch']_vars

\* Once the results of an item are in, nothing the run launched is running any
\* more (unless docker misreported it): not after a timeout, not while a
\* sibling's result was awaited first.
WaitedIsGone ==
  \A r \in Run \ lied :
    run[r].pc = "advance" \/ (run[r].pc = "end" /\ run[r].outcome \in {"success", "failed"}) =>
      \A s \in Session : Running(s) => ctr[s].by # r

\* A step's brief carries the output of every step its inputs name (README.md:226)
\* and of no other or, when they name none, of every step of the item before: none
\* is missing because it comes later, runs beside it or was dropped (chain.py,
\* validate_chain, _gather_prior_outputs).  All of them but the siblings of a group
\* that do name inputs: those are validated, and nobody looks at them
\* (chain.py:711-713).
Wanted(doc, i, k) ==
  IF doc[i].steps[k].inputs # {} THEN doc[i].steps[k].inputs
  ELSE IF i = 1 THEN {} ELSE Names(doc[i - 1])

Overlooked(doc, i, k) == doc[i].parallel /\ doc[i].steps[k].inputs # {}

BriefIsWhole ==
  \A r \in Run : run[r].pc \in {"launch", "wait"} =>
    \A k \in DOMAIN Current(r).steps :
      Overlooked(run[r].doc, run[r].item, k)
        \/ run[r].fed = Wanted(run[r].doc, run[r].item, k)

\* "Launch all siblings (serialized launch), wait concurrently" (chain.py:655):
\* a run does not end half way through launching a group.
GroupIsLaunched ==
  \A r \in Run : run[r].pc = "end" /\ run[r].outcome = "launch" => run[r].launched = 0

\* The chain branch "gets advanced per successful step" (chain.py:309): never onto
\* the session of an agent that did not report success.
AdvancedPerSuccess ==
  [][\A s \in Session : s \in branch' \ branch => mark[s].summary = "success"]_vars
=============================================================================
