# Verification of claude-devcontainer

TLA+ models of the stateful parts of this repository, the TLC configurations that check
them on small instances, and TLAPS proofs of what can be proved for every instance. The
reference is the code; each definition that models code is listed with its lines in
`PROJECT.json` under `map`.

`tlc -config MC<M>.cfg MC<M>` runs a check, `tlapm <M>Proofs.tla` the proofs.

- [The system](#the-system)
- [What is modelled](#what-is-modelled)
- [The runs](#the-runs)
- [Where code and documentation part](#where-code-and-documentation-part)
- [The proofs](#the-proofs)
- [Fairness](#fairness)
- [What is not modelled](#what-is-not-modelled)
- [Plan](#plan)

## The system

`cld` runs claude sessions in containers, each on its own workspace of the user's
repositories. A *ticket* container is one a human works in (the master); it may start
*task-agents*, headless containers with a supervisor that feeds them messages; *chains* run
one-shot containers in sequence or in parallel on one branch. Containers on different
mounts talk through files in a shared mailbox root and through a host *broker* reached by
ssh. Nothing in the code takes a lock: ordering rests on `rename(2)`, on docker's unique
container names and on version-control operations that either win or fail.

| Component | State | Operations | What must be right |
|---|---|---|---|
| Mailbox transport (`messenger/mailbox.py`, `mcp/messenger.py`) | `<name>/{inbox,archive,tmp}`, `outbox.log`, `meta.json`; `_edges/<a>--<b>.json`; `_archive/` | `write_message`, `gated_send`, `bump_edge`, `archive_message`, `ensure_meta`, `archive_mailbox`, readers | a message is delivered once; an edge carries at most its budget; the ledger of open questions agrees with the transcripts |
| Task-agent supervisor (`messenger/agent_loop.py`) | the message in hand, outbox snapshot, stop flags; `state.json` | kickoff, one turn per message, fallback reply, archive, signals | no question dropped, nothing blocks the queue, `state.json` truthful, stop obeyed |
| Task-agent reap (`cli.py`, `task_agent.py`) | none of its own: docker's containers and the mailboxes | `shutdown` of one name, `--all`: three checks, docker stop/rm, archive | no visible turn is cut short, nobody reapable is left, it ends |
| Task-agent launch (`cli.py`, `docker.py`) | none: docker's containers and labels | name allocation, cap per master, anchor overlap check, docker run | unique names, the cap, no two live workspaces on one anchor |
| Container boot (`vcs-lib.sh`, entrypoints) | workspace, session bookmark, claude session id | first launch, warm start, recovery | a restart finds the work it left, a crashed first launch is completed |
| Repo registry (`registry.py`, `manifest.py`) | `[repos]` of the user's config | add, rm, pick, a launch's arguments to a manifest | an argument names one repo or is refused, no repo in use is removed |
| Ticket containers (`ticket.py`, `manifest.py`) | container, labels, bookmarks in each repo | start, restart on another repo set, stop, shutdown, readiness | a repo set changes as a whole or not at all; work is never discarded |
| Re-anchoring (`vcs/*.py`) | commits, bookmarks, the operation log | `move_anchor_commit`, `revert_ops`, scratch repos | rollback restores what was there and touches nothing of others |
| Prompt chains (`chain.py`, `chain_state.py`, `run.py`) | `state.json`, the chain branch, session bookmarks, step containers | sequential and parallel steps, advance, report, detach | a success is real and above its anchor; no work leaves the branch; one runner at a time |
| Host broker (`cld-broker.py`, `broker.py`) | graphql containers per scope, their labels | graphql start/stop/status, orphan sweep, delegation of task-agent verbs | a caller acts on its own scope only; a sweep removes orphans only |
| Prompts, configuration, logging; front ends; image build and telemetry | files of text | parsing, layout, build | left out, see below |

How they interact: the supervisor and claude's tools call the transport in the same
container; agents and masters meet only in the mailbox files. The reap reads docker and
two mailbox files (`meta.json`, `state.json`) of agents that go on running. A launch writes
labels that reap, cap check, overlap check and broker read later. Ticket restarts call
re-anchoring and then the boot scripts of a new container.

What is hard to test here: two processes between the same two file-system calls; a kill
between any two writes, then a restart; state read by another process after it has become
stale; message sequences over an edge whose ends are reaped and reused; and passes over a
set that others change. `PROJECT.json` lists each such hazard at its line, with the
properties that cover it or the reason why none does.

## What is modelled

Twelve modules, each with its `MC` module but for EdgeBudget, Crossing and Reanchoring, which are
abstract specifications, and Repos, which Ticket extends and whose constants are Ticket's.

**EdgeBudget** - what a conversation between two task-agents promises: the first message
that brings a limit fixes the ceiling for good, and an edge that has carried that many
carries nothing more. Mailbox refines it.

**Mailbox** - `mailbox.py` and the tools over it, each operation one atomic step.
`box[n]` is a directory (`inbox`, `read` = `archive/`, `sent` = `outbox.log`, `facts` = "has
meta.json"), `live` the existing ones, `graveyard[n]` the sequence of archives under one
name, `edges[e]` the ledger file. A container is `absent`, `down` (listed by docker, no
supervisor: not yet booted or stopped) or `up`. `WriteMessage` is the whole of
`write_message`; `GatedSend` puts the ask gate before it; `SupervisorReply` calls it without
gate and without default limit, as `process_one` does. A refused send changes nothing and is
no step. Ids stand for uuid plus timestamp. A reaped name may be launched again, which is
how edge files outlive the agents they were made for.

**Crossing** - what the edge promises when a delivery is many steps and each may be the last: a message
is counted, under the next number, and may arrive afterwards, once, or never. The first one fixes the
ceiling and passes whatever that is (0 included); the others must be below it. It promises nothing more
once the edge is `loose`. Delivery implements it (`CountedFirst`): the rename of the edge file is its
`Count`, the rename into the inbox its `Arrive`, and `ReadEdge.limit`, what any reader of the file sees,
its ceiling. EdgeBudget is the same promise of an edge whose deliveries are one step.

**Delivery** - `write_message` against itself, a reap and a crash, one file-system call at a time: the
reap check, the spent check, creating directories, reading the edge, opening and truncating
`<edge>.json.tmp`, writing, renaming, delivering, logging. Files are inodes, so that two writers that
open the one `.tmp` name share a file even after one has renamed it. An inode whose text is not JSON is
`Torn` and reads as a fresh edge (`_read_json` returns None). A reap stops the container, with the
processes in it, and moves the mailbox. Ghost variables record which messages were counted, in order
(`counted`), whether two senders were between the spent check and the rename at once (`overlapped`) and
whether a reap happened between a sender's look and its directory creation (`overtaken`). Either of
these two makes the edge `Loose`.

**Supervisor** - one agent loop. `pc` follows `main`, `kickoff` and `process_one` to each
file-system write: turn begun (`state.json` written, snapshot taken), turn ended or failed,
reply settled, message archived, idle. In a turn claude may send and may archive any message
of the inbox. The process may die at every `pc` and be started again; the mailbox survives,
memory does not. Which deliveries are refused is Mailbox's subject, so here a correspondent
may at any moment become `closed` (reaped, or edge spent). Assumed of claude: it answers a
message to its sender and no message twice, so that what ExactlyOneReply shows is not
claude's fault.

**Fleet** - the reap: the readiness checks (own fleet, dependents, mid-turn), docker stop and rm,
archive, and the repeated passes of `--all`, against agents that boot, work, die, are removed by hand
and launched again. A sweep is a human's or a master's, of all or of one name, forced or not. Each check
reads at one moment and the teardown follows in later steps, as in the code. "Mid-turn" is what
`state.json` says, not what is true.

**Repos** - the repos a ticket may be launched with, as values and operators on them: the registry
as the config file has it (`RawRepos`, broken entries too) and as the loaders read it (`Registry`,
the broker's `HostRegistry`); `repos add` and `rm`; a launch's arguments, each a text cut at its "@"s,
resolved to a registered name or a path (`Manifests`), or chosen by number (`Picked`). `Launches` is
every manifest that a launch can end up with: Ticket's commands are launched with these and no others.
Then the comparison of two manifests (`Added`, `Removed`, `Changed`, `KeepAttached`, `MovedAway`). What a
revision resolves to is up to the repo (`Pin`).

**Reanchoring** - what a ticket promises of its sessions: a re-anchoring moves every repo it was asked
to (`Commit`), or none (`Abort`), or only the one whose own move failed too late (`Strand`); while the
container is up a session is only staged and worked on. Ticket implements it (`AllOrNone`). The sessions
it speaks of are those of the stores, but while moves are in progress those there were before: the moves
of several steps are its one `Commit`, and a rollback, again of several steps, its `Abort`, which
changes nothing, or its `Strand`, which changes the repo whose move failed. A command cut short in
between is its `Break`.

**Ticket** - one ticket container, from outside and inside at once, on the repos of Repos. `ctr`,
`label` and `layer` are docker's: the state, the manifest among the labels, the workspaces in the
writable layer, which a stop keeps and a remove destroys. `boot` walks the entrypoint's loop over the
repos, `ready` is the sentinel. `store[p]` is the session's footprint in the repo at a path: where its
bookmark is with respect to the scratch commit (`on` it, `above`, `adrift` where nothing finds the
scratch commit, `none`), the scratch commit's parent and its mode. `cmd` is the host command in
progress, one docker, jj or polling step at a time; it may be interrupted between any two, docker and jj
may refuse each, and the boot it waits for goes on when it gives up. `Rebase`, `SetBookmark` and
`Revert` are the calls of `move_anchor_commit` and `revert_ops`; `undo` is the list of operation ids. A
move that has begun fails in one of two ways: through `_fail`, which reverts what it did (`MoveFails`;
that revert may be refused unnoticed, `OwnRevertRefused`), or in a call after the rebase that raises
past `_fail`, and nothing of this repo is reverted (`MoveAbandoned`). Even then the command says "rolled
back"; the ghost `stuck` keeps the paths of which that was not true. A refusal that the code does not
look at (docker stop and rm in `_stop_and_remove`, jj in `forget_session_state`) lets the command go on;
the ghost `cut` records that one happened, or that a command was cut short between two of its changes.
It stays set: later commands start from what is left, and only ForgottenWhenGone and AllOrNone say
anything of them. After a refused `docker rm` the command goes on to forget with the container still
there (`kept`).

**Launch** - containers launched at the same time on one repository: task-agents, one-shot runs and
tickets. `cmd` is the launching command (`name`, `cap`, `check`, `run`: each looks at docker or the
store at one moment, and only `docker run` takes anything), `ctr` the container, `mark` the session
bookmarks by name, `commits` the store. A commit is the set of the changes in its ancestry, so
"ancestor of" is inclusion; the scratch commit of launch `l` is its base and `l`. `BootFresh` and
`BootReattach` are the two branches of the boot; `SupervisorExits`, `PauseTicket`, `Die` and the
teardown (`StopAndRemove`, then `ForgetSession` or `CutShort`) are the ways out, each with what it does
to the bookmark. A container or a manifest that docker or jj fails to show (`missed`, `unread`) is
treated as the code treats it: not counted by the cap, not seen or cautiously refused by the anchor
check. Ghosts say which launches overlapped (`met`), passed a blind check (`blind`), came under a name
whose teardown was not over (`hasty`) or was cut short, until a later one is complete (`orphaned`).

**Chain** - `cld chain run` of one chain, from the command to the store. `cmd` is the command
(`gc` checks the old `state.json`, `spawn` and `record` are the detached child), `run` the runner
(`boot`, `init`, then per item `launch`, `wait`, `advance`, then `end`), `ctr` and `mark` the step
containers and their sessions, `branch` the chain branch. A group's siblings are launched one by one and
awaited one by one. The agent's result is read off the bookmark, as the runner does: absent or
without a summary it is `unknown`, which the code counts as success. Runners and agents may be
killed, a wait may time out, docker may misreport, jj may refuse. `Valid` is `validate_chain`.

**Broker** - the graphql servers of the host broker. `session[s]` is the session's own container,
`server[s]` the server's container with the repository in its label, `ws` the registered jj workspaces,
`req` the requests: each sweeps first (`sweep`, `pick`, `reap`, `swept`), then acts (`look`, `clear`,
`cleared`, `run`, `port`, `await`, `stop`, `stopped`), one docker or jj call that changes something per
step. Any of these calls may fail, and mostly nobody looks: a `docker inspect` that fails reads as "not
there" (so that a sweep is `misled` about a session that exists), a label as "none", a list as empty;
`docker rm` and `jj workspace forget` are called and done with. Servers boot, fail and crash on their
own; sessions are paused, removed and started again; a request may be killed anywhere. `raced` marks the
sessions whose requests or sweeps overlapped, `leaked` the workspaces that nobody will forget (their
request was killed, jj refused, the label was not read, no port was read, or the leftover was another
repository's), `bereft` the sessions whose server docker would not remove.

## The runs

Times are for two workers on the machine of the development.

| Run | Instance | States | Checks |
|---|---|---|---|
| `mailbox` | two agents, asymmetric edge with budget 2, default limit 3, ask limit 2, 3 messages, each name reaped once | 325 000, 1.5 min | TypeOK; HopStampsCount; DeliveredOnce; OpenIsUnanswered; AskBudget; SpentEdgeIsSilent; BudgetSpec (refinement) |
| `delivery` | one sender in each of two agents, limits 1 and 2, 4 messages, each agent reaped once | 3.8 million, 1.8 min | TypeOK; LinesAreDelivered; QuestionsStayOpen; ReapIsFinal; CountedFirst (refinement) |
| `supervisor` | two correspondents, 2 messages, 1 send by claude, 1 correspondent closed, 2 starts | 1.2 million, 2.3 min | TypeOK; NoQuestionLost; MidTurnIsVisible; Handled, StopIsHonoured (liveness) |
| `fleet` | three agents (1 and 2 name each other, 3 names 2), one sweep, owners: a human and a master | 660 000, 1 min | TypeOK; NobodyStranded; TurnsAreSpared; SweepEnds (liveness) |
| `ticket` | two jj repos and a git one, two revisions, eight requests under two configs, three repo sets in all that are not refused, one of which moves a name, unbounded commands | 2.6 million, 2 min | TypeOK; NoStrays; AnchorIsRecorded; ForgottenWhenGone; AllOrNone (refinement) |
| `launch` | three launches (task-agent or shared ticket; shared task-agent or one-shot run; task-agent), one slug, cap 1, one fault | 639 000, 1.2 min | TypeOK; ReachIsDisjoint; CapHolds; BookmarksAreOwned |
| `chain` | the command given twice (the second may be attached), a group of two and a step, that step alone, or an invalid file, two interchangeable anchors, one fault (none, and one anchor, if the second file is another); or, once, a file whose steps name their inputs, a sibling's among them | 1.4 million, 1.8 min | TypeOK; OneRunner; SuccessDescends; WaitedIsGone; BriefIsWhole; WorkIsKept |
| `broker` | two requests at a time without end, a ticket over two repositories and an agent over one that has no server, two changes: of a session, a killed request, a failed call | 3.2 million, 2.2 min | TypeOK; NoOrphanSurvives; WorkspacesAreOwned; ServersSurvive |

Four more, `expect: violation`, are in the next section.

*What the properties say.* HopStampsCount: the stamps in the transcripts of an edge are 1..count, each
once, whatever was archived and reused. OpenIsUnanswered: the incrementally edited `open` list equals
the questions asked and not answered over the edge. SpentEdgeIsSilent: no message, counted or not,
crosses a spent edge, even after either end was torn down. CountedFirst: the comment at
`mailbox.py:171`, that a crash only costs hops, of every step and under the condition that makes it true
(no two senders overlapping, no reap under a sender's feet): what arrives was counted before, under a
number of its own, but for the first below a ceiling that never moves, and arrives once; a crash can
leave a message counted that never arrives, never one that arrived uncounted. That no more have crossed
than the file says (`CrashesTighten`) is proved besides. NoQuestionLost: a question that has been read
was followed by something sent to its asker, unless claude took it out or the asker can be sent nothing.
NobodyStranded: a sweep that nobody disturbs leaves only agents that are mid-turn, named by a running
agent, or another master's. TurnsAreSpared: the only turn a sweep without `--force` cuts short is one
that began after it had looked. AnchorIsRecorded: the manifest among the labels, which the overlap check
of every later launch trusts, names the mode and the anchor that the stores really have, after any
sequence of set changes, moves, rollbacks, boots cut short and waits given up; of a repo in `stuck` it
names the mode only, and of a path a name has left (`left`) nothing. NoStrays and AnchorIsRecorded are
claimed as long as no command was cut short between its changes (`cut`). AllOrNone: seen from outside, a
re-anchoring of several repos is one step, taken with the container down; one that fails is none, or
moves the one repo whose own failing move the code does not revert, though each repo is moved, and moved
back, by itself. It speaks of commands cut short too: each repo is moved or as it was.
ForgottenWhenGone: no command takes the bookmark from under a workspace that may boot again, cut short
or not, but for one that docker refused to remove the container for. ReachIsDisjoint: no container's
base is inside what another may rewrite, stopped ones included. It is what `assert_anchor_free` is for.
Launches in progress at once may claim the same shared tree, and never an isolated one; tickets may
stack, as the code lets them; a check that docker or jj left `blind` and a container that took over
another's session are excepted. CapHolds: the same of `max_task_agents`: any set of running agents no
two of which were launched together respects the cap. BookmarksAreOwned: the comment at `vcs-lib.sh:75`,
of agents and tickets, up to teardowns that are under way, names whose last teardown was cut short, and
launches that overtook one (`hasty`). OneRunner: commands given one after the other never have two
detached runners of a chain alive. SuccessDescends: a run that succeeded has its anchor below the chain
branch, though the branch may have been elsewhere. WorkIsKept: what a run has gone past is on the branch
and stays there, whatever is run later, though every step of it goes by a bookmark that agents, reruns
and other runners write. It takes a run that met no other runner of the chain and no session left by one
(ghost `entangled`); without that condition TLC refutes it, see below. That the branch never loses
anything (`BranchOnlyGrows`) is proved besides. WaitedIsGone: past the wait, nothing of the run is still
running. BriefIsWhole: a step's brief has the output of every step it names in `inputs` and of no other
or, if it names none, of the item before: none missing because it is later or beside it. The inputs that
a group's sibling names are excepted: they are validated and ignored, see below. ServersSurvive: a
healthy server with a session goes only at its own session's request, or in a sweep that a failed
`docker inspect` misled; requests about one session that overlap (`raced`) are excepted.
NoOrphanSurvives: what `cld-broker.py:675` promises of a lookup, but for the orphans docker failed to
list, read or remove for it, and however requests overlap. WorkspacesAreOwned: however requests overlap,
no workspace outlives its server but those `leaked`, each in one of the five ways named above; and no
server loses the one it serves from unless requests overlapped or docker refused to remove it.

*Why the bounds are enough.*
- `mailbox`: 3 messages against a budget of 2 reach a spent edge from either side and a
  refused third; an answer that asks needs 2, and a question left open beneath it 3. One
  reap per name gives an archive, reuse of the name and an inherited edge file. The ask gate
  (2 asks) refuses the third. There is no ticket in the instance, since an edge with a ticket
  on it has no ledger; the theorems hold for any set of tickets.
- `delivery`: races on one file need two writers; a third writer can do nothing that a second
  cannot, since the code looks only at the file. Four messages let a race be followed by
  deliveries that see its result; every message may die at any call.
- `supervisor`: 2 messages show a message behind another, from the same or another sender;
  2 starts show a restart after a crash anywhere; one send by claude distinguishes replied
  from silent. The safety properties are proved without these bounds.
- `fleet`: three agents are the smallest fleet with a mutual pair and a chain at once, which
  takes a sweep three passes. One sweep is enough for these properties, each of which is about one
  command; another sweep is to it no more than agents that vanish, which `Die`
  and `Remove` do too.
- `ticket`: nothing is bounded but the data. Two jj repos in one re-anchoring make a rollback of a
  repo already done; isolated and shared mode, the two backends, and sets that shrink, grow,
  change an anchor or rename a repo are all among the three. In the third a name moves to the path of
  another, and may move back: the session it leaves is reattached to or forgotten later. The same set
  comes from arguments and from the picker, and each way to be refused has its request. The five
  properties are proved for any repos, revisions, configs, requests and commands.
- `launch`: two launches race, a third comes after them, meets what they left and takes a name
  again; a cap of one is exceeded by two. One fault puts a failure anywhere. The four invariants are
  proved for any number of launches, asks, caps and faults.
- `chain`: two runs of the command are what is needed to meet leftovers; a group of two has a sibling
  awaited first and one awaited second, and the step after it takes both briefs. One fault at any step.
  A second chain file lets two runs of the same chain name be at different sessions at once, which is
  what can leave one's work beside the branch; then (`OneTrouble`) both start from one anchor and
  nothing else goes wrong. The file whose steps name inputs (a sibling's, and across two items) is about
  what is briefed and is run once. The six properties are proved for any chains, runs and faults.
- `broker`: two concurrent requests overlap in every way two can; requests follow each other without
  end. Two changes remove a session and bring it back, or kill a request or
  make a docker or jj call fail as well. The two slots are
  interchangeable, hence the symmetry set. The four properties are proved for any number of requests,
  sessions and repositories.

The mutants in `PROJECT.json` change one mapped definition the way a plausible bug would;
each makes its property fail under the same configuration. They are written in the modules as
operators with a comment that begins `Mutation:`, and no specification uses them.

## Where code and documentation part

| Run | What is said | What the code does |
|---|---|---|
| `exactly_one_reply` | "exactly one reply" (README.md:279) | Answered twice after a failed turn that had replied, after a crash before the archiving, or when the answer was given before the turn. |
| `ready_without_session` | "bookmark exists in the origin store <=> a live or restart-paused lifecycle owns this session" (vcs-lib.sh:75) | A first boot that stops between `jj workspace add` and the bookmark is warm-started as if it were complete: ready, with no scratch commit and no bookmark. |
| `group_launch` | "Launch all siblings" (chain.py:656); "two isolated siblings off the same base are unaffected" (docker.py:974) | Until the first sibling has staged its bookmark its base counts as its anchor, so the check refuses the second: the run fails and the first goes on, awaited by nobody. |
| `unsuccessful_advance` | "gets advanced per successful step" (chain.py:309) | A killed agent, or one whose commit failed, leaves no summary; the result is "unknown", which counts as success, and the branch is advanced onto its scratch commit. |

Also met while modelling, and not run:

- A message to an agent that docker lists and that has not written `meta.json` is not counted
  (`mailbox.py:149`), though "at most `limit` messages ever cross a peer edge"
  (`docs/design-task-agents.md:686`).
- All writers of an edge use one `.tmp` name (`mailbox.py:67`): the second writes into the file the
  first has published and replaces its limit, which "wins from then on" (`mailbox.py:547`).
- The mailbox of an agent killed mid-turn is refused by every sweep without `--force` (`cli.py:453`),
  though mailboxes whose container is gone "are swept too" (`cli.py:512`).
- The readiness sentinel is cleared after `docker start` has returned
  (`entrypoint-claude-devcontainer.sh:18`), so a wait may see the old one (`ticket.py:79`).
- A kept name that moves to another path is said to point "at a different store where the bookmark
  does not exist" (`manifest.py:243`). After it has moved there, away and back again the bookmark does
  exist, the boot reattaches to it, and the anchor recorded is the wrong one (`ticket.py:259`).
  NoStrays and AnchorIsRecorded except the paths that a name has left (ghost `left`) and no others.
- Chains: `chain_max_parallel` and a step's `timeout` are accepted and never used; `inputs` of a group's
  steps are validated (`chain.py:167-197`) and ignored (`chain.py:711-713`), though a step "receives"
  the output of those it lists (`README.md:226`); the workspaces of runs are never forgotten, so a
  second run of a chain fails at the first name it launches again; `set_branch` fails silently
  (`chain.py:333`), so when two runners of one chain name meet, attached or detached, the later advance
  may go nowhere while the bookmark of the step's work is deleted; the parent of a detached runner
  writes over the child's progress.
- Repos: an argument that is a relative path goes into the manifest as it is (`registry.py:195`, which
  expands "~" only) and `./api` reaches docker as `api`, which `-v` takes for a volume (`docker.py:605`).
  The broker's reading of the registry accepts entries under keys that are no valid names
  (`cld-broker.py:253`) and `parse_repos` skips. Two names of one manifest may have one path.
- A re-anchoring that fails after the rebase, in reading the operation log or the conflicts
  (`anchor.py:167-183`), raises without reverting this repo's rebase, against the docstring ("after
  reverting its own ops", `anchor.py:147`), and the command reports "rolled back" (`ticket.py:430`). The
  other repos are rolled back, this one has moved, and the label names its old anchor. The model has it
  (`MoveAbandoned`).
- A `docker rm` that is refused is not looked at (`ticket.py:336`): the bookmarks are forgotten although the
  container, and its workspaces, are still there.
- A launch that asks for an attached repo at another revision recreates the container each time, with the
  manifest it had: the comparison comes before the anchor is kept (`ticket.py:262`).
- Launch: a one-shot run whose name the store already knows boots and dies of it; until then its stale
  bookmark hides its base from the overlap check.
- Broker: `start` clears a leftover of another repository and forgets the workspace in its own, so the
  other's workspace stays (`cld-broker.py:990`); a sweep that has decided on an orphan may remove the
  server of a session that came back; `status` of one repository reports a running server of another; a
  host session's server is swept by the next status. A sweep takes any failure of `docker inspect` for a
  session that is gone (`cld-broker.py:689`) and removes a healthy server, against the comment that only
  a session "that is actually gone" should cost it (684-688); a start that reads no published port
  removes its server and leaves the workspace (1014-1017); a refused `docker rm` or `jj workspace
  forget` goes unnoticed (230-235). The model has all three. A `start` for another repo "returns the
  running server's status" (`README.md:126`); the code refuses it (981-985), and so does the model: no
  property is about the answer.

## The proofs

For every value of the constants that satisfies the modules' `ASSUME`s (any
set of agents, tickets and correspondents, finite where a module says so; any limits and bounds):

| Theorem | Module | Argument |
|---|---|---|
| `TypeCorrect` (Mailbox) | MailboxProofs | `TypeOK` is inductive: one lemma per writer of `box`, one case per action. |
| `AsksAreBounded` | MailboxProofs | `AskInv`: the ledger's `open` is finite, no larger than `asks`, empty exactly when `asks` is 0. `BumpAsks` is the arithmetic of one `bump_edge`. |
| `SpentIsSilent` | MailboxProofs | `FactsInv`: both ends of an edge that ever got a limit have spawn facts or are reaped. Hence no delivery on it can take the uncounted path, and the counted one is refused. |
| `StampsCount` | MailboxProofs | `StampInv`: stamps are exactly 1..count and ids are fresh; a delivery adds stamp count + 1, every other step moves lines about. |
| `ImplementsEdgeBudget` | MailboxProofs | With `StampInv`, `count` is the cardinality of the carried set, so `Spent` is `Exhausted`; a stamped delivery is `Carry`, everything else stutters. |
| `TypeCorrect` (Supervisor) | SupervisorProofs | `TypeInv` adds that no id exceeds the number of messages (so a new one is new) and that the message in hand was received. |
| `QuestionsAreAnswered` | SupervisorProofs | `TurnInv`: a received message is no younger than the outbox, the snapshot of its turn lies after it, and once settled the answer is out. `NoQuestionLost` alone is not inductive, since the archiving step relies on the settling one, and the settling one on the snapshot. |
| `TurnsAreVisible` | SupervisorProofs | `MidTurnIsVisible` is inductive given the types: every step into a turn writes `state.json`, none inside it does. |
| `TypeCorrect` (Chain) | ChainProofs | `RunOK`: what a runner's record says of itself at each `pc`; whoever launches has a valid chain, so the item it is at exists. |
| `SuccessIsAboveAnchor`, `BranchLosesNothing` | ChainProofs | `DescentInv`: from the item on that was advanced the branch is above the run's anchor; an advance goes only to a commit above the branch. |
| `BriefsAreWhole` | ChainProofs | `Briefed`: what was seen includes the outputs of every item done; validity puts the steps named among them, so that what is given is `Whole`: what each step wants, but for inputs that are overlooked. |
| `RunnersAreAlone` | ChainProofs | until two commands overlap, a live detached runner is the one being recorded or the one `state.json` names as running. |
| `AwaitedIsGone` | ChainProofs | `GoneInv`: a runner's containers are those of its item that it has launched and not awaited. |
| `WorkStays` | ChainProofs | `KeptInv`: of a run that is not entangled, nobody else is about to move the branch, and what it has launched has no bookmark or one right above the branch, so that its advance is not refused. `StagedInv`: who has not staged yet has no bookmark to be mistaken for its result. |
| `TypeCorrect` (Broker) | BrokerProofs | what each request knows, by its `pc`. |
| `OrphansAreSwept` | BrokerProofs | `OrphanInv`: an orphan that a sweep has not removed, and that docker did not hide from it, is still on its list, or is no orphan any more. |
| `HealthyServersStay` | BrokerProofs | `AloneInv`: two requests about one session have raced. `PlaceInv`: else what a request took for granted of its server still holds when it removes it, unless it was misled or docker refused. |
| `WorkspacesHaveOwners` | BrokerProofs | `OwnInv`: who has taken a server away still owes its workspace, or it is `leaked`; no overlap matters here. `ServeInv`: but for `raced` and `bereft` sessions a server past its boot has its workspace, since whoever forgets one has first made sure that its server is gone (`PlaceInv`). |
| `TypeCorrect` (Launch) | LaunchProofs | every suffix that was passed over is taken by another launch, so by the pigeonhole none exceeds the number of launches; docker's names keep containers apart. |
| `CapIsKept` | LaunchProofs | `CapInv`: the older agents that `l` did not meet only become fewer after its check; the latest of a set has counted all the others. |
| `BookmarksHaveOwners` | LaunchProofs | `MarkInv`: a container's bookmark is absent until it has booted and on its scratch commit after, unless it came too early or to a name left behind (`Overtaken`); the name of a container is not being torn down, unless it came too early. |
| `ReachStaysDisjoint` | LaunchProofs | `CommitInv`: a commit with a launch's change has what that was staged on, and the launch has booted. `ReachInv`: whichever of two was checked later saw the other, and neither base moves. |
| `NoneLostNoneDoubled` | MailboxProofs | `KnownInv`: mailboxes, live or archived, hold only ids that were given out, so a new message is nowhere yet; `DeliveredInv`: archiving moves a message within its place, a reap the place. |
| `LedgerIsExact` | MailboxProofs | `OpenInv`: adds that no message answers one not yet sent, so that a question is unanswered when its id enters `open`. |
| `TypeCorrect` (Delivery) | DeliveryProofs | what bounds a count when senders overwrite each other: no file and no sender has counted more than `Given`, the ids given out less the senders that have not counted yet. |
| `LogsTellTheTruth` | DeliveryProofs | `BoxInv`: a sender about to log has delivered, and only the sender's own reap takes both away together. |
| `ReapedStayReaped` | DeliveryProofs | `ReapInv`: until a reap overtakes a sender, none that is past its look aims at an archived mailbox. |
| `CrashesLoseHopsOnly`, `QuestionsKept` | DeliveryProofs | `CleanInv`: without an overlap at most one sender is between reading and renaming the edge; what crossed has distinct stamps up to the file's count, or to what that sender is about to write. That no more than the limit have crossed holds from the second message on: a limit of 0 lets the first one through. |
| `DeliveryCountsFirst` | DeliveryProofs | the refinement. `CleanInv`: the file's count is the length of `counted`, and what has arrived, or is about to, stands in it at its stamp. `IdsInv`: who has not counted yet brings an id that nobody has counted. `EdgeKept`: no write before the rename shows in the file, not even through a shared `.tmp`. Then the rename maps to `Count`, the delivery to `Arrive`, the steps that overlap or overtake to `Loosen`, and the rest stutter. |
| `TypeCorrect` (Fleet) | FleetProofs | `TypeOK` is inductive; a pass takes the least name left, which is one of them. |
| `NoVisibleTurnIsCut` | FleetProofs | `SpareInv`: whoever is in a turn has it in `state.json`, and a sweep with a target in a turn looked before the turn began. |
| `SweepIsExhaustive` | FleetProofs | `PassInv`: in a pass without progress and undisturbed, the set of names has not changed since the pass before, so each refusal still stands when the sweep ends. |
| `TypeCorrect` (Ticket) | TicketProofs | `StepOK`: what a command at each point may rely on: the container exists until it is removed, it is off while anchors move, the repos moved are mounted. |
| `RolledBackExactly` | TicketProofs | `UndoInv`: the operations are a stack in which a path's rebase is the oldest of the path and holds the session as it was; a path without operations is as it was, but for the one whose move was abandoned or not reverted (`lost`), which no operation left on the stack is about. |
| `ReanchoringIsAtomic` | TicketProofs | the refinement. `AtomicInv`: while moves are in hand, the container is off and each repo is as it was or has moved as asked (`HalfOK`), the one that is `lost` has moved, and if none failed those done have (`ForthOK`); a rollback that ran to its end is `UndoInv`'s, an `Abort` or, with a repo lost, a `Strand`. `StageInv`: a repo between workspace and bookmark has no session. Then each step is mapped: `AtomicBoot`, `AtomicCommand`, `CutShort`, `Begins`, and `Stutters` for most. |
| `PickedIsItself` | TicketProofs | the picker's choice, parsed again, comes back as the entries picked. |
| `RegistryEdits`, `RemovalIsRefused` | TicketProofs | an entry that `add` takes is read back as given and hides no other, and `rm` undoes it to the raw table, ignored entries included; an entry some ticket was launched from cannot be removed, because its labels hold the same expanded path that `rm` compares with. |
| `RecreationSettles` | TicketProofs | once a container has been recreated for a manifest, asking for that again adds, removes and moves no name, and keeps every anchor. |
| `LabelsNameALaunch` | TicketProofs | whatever commands a ticket has seen, its labels have the names and paths of one of `Launches`; this is what `RemovalIsRefused` starts from. |
| `NoneLeftBehind`, `ManifestTellsTheTruth`, `ForgottenAfterRemoval` | TicketProofs | `CleanInv`: as long as nothing was cut short, who owns a session and which manifest is right about it (up to `stuck`), for each point of each command: the labels until the container is removed, then the manifest that will be launched and the paths still to forget. Between, `KeepsOK` and `TargetsOK` tie the two together, and `MovesOK` follows the moves one by one. The third needs only `ForgetInv`: who forgets has removed the container or was refused. |

The assumptions are named `...Assumption` in the modules. Three say something of the code: that no path
has two names in one manifest that a launch resolves to, which the code does not check (it checks
names), so that the Ticket theorems are silent about such tickets; that limits are natural numbers, 0
included, where `int()` would accept a negative default; and that the anchors of chains and the roots of
a store hold none of the changes still to be made.

Only model-checked, and why: liveness (Handled, StopIsHonoured, SweepEnds) is out of the
prover's reach; every safety property of a passing run is proved.

## Fairness

- Supervisor: weak fairness of the process's own steps, the end of a claude invocation among
  them. The loop is a sequential program that blocks nowhere else; `--max-turns` bounds an
  invocation, but the code gives it no timeout, so that it ends is an assumption about claude
  and the network. Nothing is assumed of the environment: messages need not come, nobody need
  restart a dead container. Handled is therefore conditional on the process staying up.
- Fleet: weak fairness of a sweep's steps. Each wait in it has a deadline
  (`_assert_reap_ready`), each docker call returns. Agents have none.
- Chain: weak fairness of each runner's steps, which can always go on: a wait has a deadline. No
  property of a run relies on it.
- Mailbox, Delivery, Ticket, Launch and Broker state safety only.

## What is not modelled

- Message text, subjects, timestamps' format, log lines; the order of equal timestamps.
- File-system errors other than absent files (full disk, permissions), and files that do not
  parse other than torn edge files. A message file that does not parse would stay the oldest
  and stop the loop (`agent_loop.py:320`), but messages are delivered by rename from a name of
  their own.
- Of launches: the wait for readiness, mounts, labels and arguments; other repositories; git, whose
  sessions are branches with the same life; rebases and merges between launches.
- Of chains: several chains at once, progress fields, costs, reports, the text of briefs, a chain file
  edited between command and runner.
- Of the broker: what `status` and a refused `start` answer, credentials and scopes, queries, test runs,
  the delegated task-agent verbs, which keep no state there.
- Of the registry: relative paths and symlinks (a text that looks like a path leads where `Expand` says),
  the rewriting of the TOML file, and revisions other than as texts.
- Of tickets: several at once, other writers of the same store (so what others lose when a rollback
  reverts operations recorded meanwhile, `anchor.py:94`), the lock on the claude session, the overlap
  check, which for tickets only warns, and two names for one path, which the code lets through.
- `prompts.py`, `config.py` but for `[repos]`, `log.py`: parsing and layout, no state outlives a command.
- `cli_container.py`, `cli_msg.py` and the read-only verbs: reports over components modelled.
- Image builds and telemetry packing: I/O around external programs.

## Plan

Done: EdgeBudget, Mailbox, Crossing, Delivery, Supervisor, Fleet, Repos, Reanchoring, Ticket, Launch, Chain,
Broker, and every safety property and refinement among their runs proved. What is left,
in this order:

1. The composition of Chain with Launch: several chains and agents on one store, with the overlap check
   as Launch has it, and liveness of a chain under the fairness of its runner.
2. Two writers of one store, for what a rollback reverts of others (`anchor.py:94`).
3. Message files that do not parse (`agent_loop.py:320`) and what the ask count means when questions
   overlap (`mailbox.py:567`).
4. Pure algorithms: the credential scopes of the broker, against a reference definition; otelctl's stack
   lifecycle and the lock of the venv cache.

