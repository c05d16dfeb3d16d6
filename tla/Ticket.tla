------------------------------- MODULE Ticket -------------------------------
(***************************************************************************)
(* One ticket container and its session in the version-control stores of    *)
(* the repos it mounts: the commands of cld/ticket.py (start, restart,      *)
(* restart --reanchor, stop, shutdown), the container's boot (entrypoint    *)
(* and vcs-lib.sh) that runs beside them, and the move of a scratch commit  *)
(* with its rollback (cld/vcs/anchor.py).                                   *)
(*                                                                         *)
(* A session's footprint in a store is its bookmark, named after the        *)
(* container, and the scratch commit S staged on the anchor, found as an    *)
(* ancestor of the bookmark.  Commands come one at a time; each may be      *)
(* interrupted, the container may die, docker and jj may refuse.            *)
(*                                                                         *)
(* Left out: other writers of the stores, the claude session that refuses a *)
(* re-anchoring, the overlap check, which for tickets only warns, tickets    *)
(* that have a repo under two names.                                        *)
(***************************************************************************)
EXTENDS Repos, FiniteSetsExt

CONSTANT Git      \* repos with a git backend

Jj == Path \ Git
NoRev == "no revision"

\* The code does not check that no path has two names: tickets where one has are
\* not modelled.
ASSUME TicketAssumption ==
  /\ Git \subseteq Path
  /\ NoRev \notin Rev
  /\ \A m \in Launches : \A i, j \in DOMAIN m : m[i].path = m[j].path => i = j

VARIABLES
  ctr,      \* docker's state of the container
  label,    \* the manifest among its labels; empty without a container
  layer,    \* names with a workspace in the container's layer
  ready,    \* the sentinel file, in the layer too
  boot,     \* the entrypoint
  store,    \* the session's footprint at each path
  cmd,      \* the command in progress
  cut,      \* ghost: a command was cut short where the next does not mend it; the
            \* other ghosts are kept until then
  left,     \* ghost: paths a name of the repo set has moved away from
  stuck     \* ghost: paths that kept a move reported as rolled back

container == <<ctr, label, layer, ready>>
ghosts == <<cut, left, stuck>>
vars == <<container, boot, store, cmd, ghosts>>

\* The bookmark is on S, above it, or away from it ("adrift"): then S cannot be
\* found.  "parent" is S's, "mode" stands in its description.
NoSession == [bookmark |-> "none", parent |-> NoRev, mode |-> "isolated"]
Session(entry) == [bookmark |-> "above", parent |-> entry.base, mode |-> entry.mode]

Off   == [at |-> "off", todo |-> {}]
Early == [at |-> "early", todo |-> {}]

\* "run" is the manifest to launch at the end, "forget" the paths to forget, the
\* rest belongs to --reanchor: the moves to make, the operations to revert if one
\* fails (newest first), the repo in hand, and how things were at first.  "kept":
\* docker would not remove the container.  "lost": the repo in hand keeps its move.
Rest == [at |-> "rest", run |-> Empty, forget |-> {}, targets |-> Empty, todo |-> {},
         undo |-> <<>>, name |-> 0, up |-> FALSE, kept |-> FALSE, lost |-> FALSE,
         was |-> Empty]

Init ==
  /\ ctr = "absent" /\ label = Empty /\ layer = {} /\ ready = FALSE
  /\ boot = Off
  /\ store = [p \in Path |-> NoSession]
  /\ cmd = Rest /\ cut = FALSE /\ left = {} /\ stuck = {}

\* find_anchor_commit, and cld_recover_anchor.
Findable(p) == store[p].bookmark \in {"on", "above"}

CutShort == cut' = TRUE /\ left' = {} /\ stuck' = {}

-----------------------------------------------------------------------------
(* The container. *)

\* The sentinel of the last boot goes first; what runs before it is "early".
BootBegins ==
  /\ boot.at = "early"
  /\ ready' = FALSE
  /\ boot' = [at |-> "loop", todo |-> DOMAIN label]
  /\ UNCHANGED <<ctr, label, layer, store, cmd, ghosts>>

Booting(n) == boot.at = "loop" /\ boot.todo # {} /\ n = Min(boot.todo)
Booted(n) == boot' = [at |-> "loop", todo |-> boot.todo \ {n}]

\* Warm restart: the workspace is there and nothing else is looked at.
WarmRestart(n) ==
  /\ Booting(n) /\ n \in layer
  /\ Booted(n)
  /\ UNCHANGED <<container, store, cmd, ghosts>>

\* The bookmark, a git branch likewise, outlived the last container.
Reattach(n) ==
  /\ Booting(n) /\ n \notin layer /\ store[label[n].path].bookmark # "none"
  /\ layer' = layer \cup {n}
  /\ Booted(n)
  /\ UNCHANGED <<ctr, label, ready, store, cmd, ghosts>>

FirstTime(n) == Booting(n) /\ n \notin layer /\ store[label[n].path].bookmark = "none"

\* First launch: jj workspace add, then the scratch commit and the bookmark.
FirstLaunch(n) ==
  /\ FirstTime(n) /\ label[n].path \in Jj
  /\ layer' = layer \cup {n}
  /\ boot' = [boot EXCEPT !.at = "stage"]
  /\ UNCHANGED <<ctr, label, ready, store, cmd, ghosts>>

Stage ==
  LET n == Min(boot.todo) IN
  /\ boot.at = "stage"
  /\ store' = [store EXCEPT ![label[n].path] = Session(label[n])]
  /\ Booted(n)
  /\ UNCHANGED <<container, cmd, ghosts>>

\* The git counterpart adds branch and worktree in one command.
FirstWorktree(n) ==
  /\ FirstTime(n) /\ label[n].path \in Git
  /\ layer' = layer \cup {n}
  /\ store' = [store EXCEPT ![label[n].path] = Session(label[n])]
  /\ Booted(n)
  /\ UNCHANGED <<ctr, label, ready, cmd, ghosts>>

BootEnds ==
  /\ boot.at = "loop" /\ boot.todo = {}
  /\ ready' = TRUE
  /\ boot' = [boot EXCEPT !.at = "idle"]
  /\ UNCHANGED <<ctr, label, layer, store, cmd, ghosts>>

\* Killed, or a step of the boot failed, which is fatal for all of it.
Exit ==
  /\ ctr = "running"
  /\ ctr' = "stopped" /\ boot' = Off
  /\ UNCHANGED <<label, layer, ready, store, cmd, ghosts>>

\* Whoever works in the container moves the bookmark on from S.
Work(p) ==
  /\ boot.at = "idle" /\ p \in Paths(label, DOMAIN label) /\ store[p].bookmark = "on"
  /\ store' = [store EXCEPT ![p].bookmark = "above"]
  /\ UNCHANGED <<container, boot, cmd, ghosts>>

-----------------------------------------------------------------------------
(* Commands. *)

\* start without a container.
StartNew(m) ==
  /\ cmd = Rest /\ ctr = "absent"
  /\ cmd' = [Rest EXCEPT !.at = "run", !.run = m]
  /\ UNCHANGED <<container, boot, store, ghosts>>

\* Mutation: a repo that leaves the set keeps its session.
StartChangedForgetsNothing(m) ==
  /\ cmd = Rest /\ ctr # "absent" /\ Differs(label, m)
  /\ cmd' = [Rest EXCEPT !.at = "stop", !.run = KeepAttached(label, m)]
  /\ left' = IF cut THEN {} ELSE left \cup MovedAway(label, m)
  /\ UNCHANGED <<container, boot, store, cut, stuck>>

\* start with another repo set, confirmed.
StartChanged(m) ==
  /\ cmd = Rest /\ ctr # "absent" /\ Differs(label, m)
  /\ cmd' = [Rest EXCEPT !.at = "stop", !.run = KeepAttached(label, m),
                         !.forget = Paths(label, Removed(label, m))]
  /\ left' = IF cut THEN {} ELSE left \cup MovedAway(label, m)
  /\ UNCHANGED <<container, boot, store, cut, stuck>>

StartWarm ==
  /\ cmd = Rest /\ ctr = "stopped"
  /\ cmd' = [Rest EXCEPT !.at = "start"]
  /\ UNCHANGED <<container, boot, store, ghosts>>

Restart ==
  /\ cmd = Rest /\ ctr # "absent"
  /\ cmd' = [Rest EXCEPT !.at = "stop", !.run = label]
  /\ UNCHANGED <<container, boot, store, ghosts>>

\* Everything is validated before the container is touched.
Reanchor(targets) ==
  /\ cmd = Rest /\ ctr # "absent"
  /\ \A n \in DOMAIN targets :
       n \in DOMAIN label /\ label[n].path \in Jj /\ Findable(label[n].path)
  /\ cmd' = [Rest EXCEPT
       !.at = IF ctr = "running" THEN "stop" ELSE "move", !.up = ctr = "running",
       !.targets = targets, !.todo = DOMAIN targets, !.was = store,
       !.run = [n \in DOMAIN label |->
                  IF n \in DOMAIN targets THEN [label[n] EXCEPT !.base = targets[n]]
                  ELSE label[n]]]
  /\ UNCHANGED <<container, boot, store, ghosts>>

Shutdown ==
  /\ cmd = Rest /\ ctr # "absent"
  /\ cmd' = [Rest EXCEPT !.at = "stop", !.forget = Paths(label, DOMAIN label)]
  /\ UNCHANGED <<container, boot, store, ghosts>>

\* stop, the pause: one docker call.
Stop ==
  /\ cmd = Rest /\ ctr = "running"
  /\ ctr' = "stopped" /\ boot' = Off
  /\ UNCHANGED <<label, layer, ready, store, cmd, ghosts>>

Stopped == IF cmd.targets = Empty THEN [cmd EXCEPT !.at = "remove"]
           ELSE [cmd EXCEPT !.at = "move", !.was = store]

\* Mutation: sessions are forgotten before the container is removed.
StopContainerThenForget ==
  /\ cmd.at = "stop"
  /\ ctr' = "stopped" /\ boot' = Off
  /\ cmd' = IF cmd.targets = Empty THEN [cmd EXCEPT !.at = "forget"] ELSE Stopped
  /\ UNCHANGED <<label, layer, ready, store, ghosts>>

\* docker stop, at the head of a command.
StopContainer ==
  /\ cmd.at = "stop"
  /\ ctr' = "stopped" /\ boot' = Off
  /\ cmd' = Stopped
  /\ UNCHANGED <<label, layer, ready, store, ghosts>>

\* A refusal is not looked at, save before moves, where it ends the command.
StopRefused ==
  /\ cmd.at = "stop" /\ cmd.targets = Empty
  /\ cmd' = Stopped
  /\ UNCHANGED <<container, boot, store, ghosts>>

\* Mutation: what was in the layer seems to be in the next container's too.
RemoveKeepsLayer ==
  /\ cmd.at = "remove" /\ ctr # "running"
  /\ ctr' = "absent" /\ label' = Empty
  /\ cmd' = [cmd EXCEPT !.at = "forget"]
  /\ UNCHANGED <<layer, ready, boot, store, ghosts>>

\* docker rm: labels and layer go with the container.
Remove ==
  /\ cmd.at = "remove" /\ ctr # "running"
  /\ ctr' = "absent" /\ label' = Empty /\ layer' = {} /\ ready' = FALSE
  /\ cmd' = [cmd EXCEPT !.at = "forget"]
  /\ UNCHANGED <<boot, store, ghosts>>

\* It refuses a running one, and nobody looks at that either.
RemoveRefused ==
  /\ cmd.at = "remove"
  /\ cmd' = [cmd EXCEPT !.at = "forget", !.kept = TRUE]
  /\ CutShort
  /\ UNCHANGED <<container, boot, store>>

\* forget_session_state: on jj only.
Forget(p) ==
  /\ cmd.at = "forget" /\ p \in cmd.forget
  /\ store' = IF p \in Jj THEN [store EXCEPT ![p] = NoSession] ELSE store
  /\ cmd' = [cmd EXCEPT !.forget = @ \ {p}]
  /\ left' = left \ {p} /\ stuck' = stuck \ {p}
  /\ UNCHANGED <<container, boot, cut>>

\* jj refuses: a warning, and on to the next.
ForgetRefused(p) ==
  /\ cmd.at = "forget" /\ p \in cmd.forget \cap Jj
  /\ cmd' = [cmd EXCEPT !.forget = @ \ {p}]
  /\ CutShort
  /\ UNCHANGED <<container, boot, store>>

Forgotten ==
  /\ cmd.at = "forget" /\ cmd.forget = {}
  /\ cmd' = IF cmd.run = Empty THEN Rest ELSE [cmd EXCEPT !.at = "run"]
  /\ UNCHANGED <<container, boot, store, ghosts>>

\* docker run; it is refused under a name in use.
Run ==
  /\ cmd.at = "run" /\ ctr = "absent"
  /\ ctr' = "running" /\ label' = cmd.run /\ layer' = {} /\ ready' = FALSE
  /\ boot' = Early
  /\ cmd' = [Rest EXCEPT !.at = "wait"]
  /\ UNCHANGED <<store, ghosts>>

RunFails ==
  /\ cmd.at = "run"
  /\ cmd' = Rest /\ CutShort
  /\ UNCHANGED <<container, boot, store>>

\* docker start: what is in the layer is as the last boot left it.
StartContainer ==
  /\ cmd.at = "start"
  /\ ctr' = "running" /\ boot' = Early
  /\ cmd' = [Rest EXCEPT !.at = "wait"]
  /\ UNCHANGED <<label, layer, ready, store, ghosts>>

\* wait_ticket_ready, or its deadline; the container boots on all the same.
SeesReady == cmd.at = "wait" /\ ctr = "running" /\ ready
          /\ cmd' = Rest /\ UNCHANGED <<container, boot, store, ghosts>>
TimesOut  == cmd.at = "wait" /\ cmd' = Rest /\ UNCHANGED <<container, boot, store, ghosts>>

\* The command dies.  Where the container or a move is half done the next command
\* starts from what is left.
Interrupt ==
  /\ cmd.at \notin {"rest", "wait"}
  /\ cmd' = Rest
  /\ IF cmd.at \in {"move", "bookmark", "revert", "remove", "forget", "run"}
     THEN CutShort ELSE UNCHANGED ghosts
  /\ UNCHANGED <<container, boot, store>>

-----------------------------------------------------------------------------
(* move_anchor_commit, repo by repo, and the rollback. *)

\* An operation of this command; "session" is what reverting it brings back.
Op(p, kind) == [path |-> p, kind |-> kind, session |-> store[p]]

Moving(n) == cmd.at = "move" /\ cmd.todo # {} /\ n = Min(cmd.todo)

\* What the parent is, is read without a look at whether that failed: a repo in
\* place may be moved all the same.
InPlace(n) ==
  /\ Moving(n) /\ store[label[n].path].parent = cmd.targets[n]
  /\ cmd' = [cmd EXCEPT !.todo = @ \ {n}]
  /\ UNCHANGED <<container, boot, store, ghosts>>

\* jj rebase -r S: the commits above S stay behind with the bookmark, unless S is
\* inserted under them again, as in shared mode it may be.
Position(old, mode) ==
  IF old = "on" THEN {"on"} ELSE IF mode = "shared" THEN {"above", "adrift"} ELSE {"adrift"}

Rebase(n) ==
  LET p == label[n].path IN
  /\ Moving(n)
  /\ \E b \in Position(store[p].bookmark, label[n].mode) :
       store' = [store EXCEPT ![p].parent = cmd.targets[n], ![p].bookmark = b]
  /\ cmd' = [cmd EXCEPT !.at = "bookmark", !.name = n, !.undo = <<Op(p, "rebase")>> \o @]
  /\ UNCHANGED <<container, boot, ghosts>>

\* Nothing has changed in this repo yet.
RebaseRefused(n) ==
  /\ Moving(n)
  /\ cmd' = [cmd EXCEPT !.at = "revert", !.name = n]
  /\ UNCHANGED <<container, boot, store, ghosts>>

NextMove == [cmd EXCEPT !.at = "move", !.todo = @ \ {cmd.name}]

\* Mutation: the bookmark is left where the rebase took it.
SetBookmarkNever ==
  /\ cmd.at = "bookmark"
  /\ cmd' = NextMove
  /\ UNCHANGED <<container, boot, store, ghosts>>

\* The bookmark rule.
SetBookmark ==
  LET p == label[cmd.name].path IN
  /\ cmd.at = "bookmark"
  /\ IF Findable(p)
     THEN UNCHANGED store /\ cmd' = NextMove
     ELSE /\ store' = [store EXCEPT ![p].bookmark = "on"]
          /\ cmd' = [NextMove EXCEPT !.undo = <<Op(p, "bookmark")>> \o @]
  /\ UNCHANGED <<container, boot, ghosts>>

\* A new conflict, or jj refuses the bookmark: the repo's own rebase is reverted first.
MoveFails ==
  /\ cmd.at = "bookmark"
  /\ cmd' = [cmd EXCEPT !.at = "revert"]
  /\ UNCHANGED <<container, boot, store, ghosts>>

\* The operation log or the conflicts cannot be read after the rebase: that is raised
\* past the code that reverts the repo's own operations.  They stay, the bookmark set
\* or not yet, and only the repos before it are rolled back.
MoveAbandoned ==
  LET p == label[cmd.name].path IN
  /\ cmd.at = "bookmark"
  /\ \/ UNCHANGED store
     \/ ~Findable(p) /\ store' = [store EXCEPT ![p].bookmark = "on"]
  /\ cmd' = [cmd EXCEPT !.at = "revert", !.undo = Tail(@), !.lost = TRUE]
  /\ UNCHANGED <<container, boot, ghosts>>

Moved ==
  /\ cmd.at = "move" /\ cmd.todo = {}
  /\ cmd' = [Rest EXCEPT !.at = "remove", !.run = cmd.run, !.targets = cmd.targets]
  /\ stuck' = stuck \ Paths(label, DOMAIN cmd.targets)
  /\ UNCHANGED <<container, boot, store, cut, left>>

Reverted(op) ==
  IF op.kind = "rebase" THEN [store EXCEPT ![op.path] = op.session]
  ELSE [store EXCEPT ![op.path].bookmark = op.session.bookmark]

\* Mutation: the oldest operation is reverted first.
RevertOldest ==
  /\ cmd.at = "revert" /\ cmd.undo # <<>>
  /\ store' = Reverted(cmd.undo[Len(cmd.undo)])
  /\ cmd' = [cmd EXCEPT !.undo = SubSeq(@, 1, Len(@) - 1)]
  /\ UNCHANGED <<container, boot, ghosts>>

\* jj op revert, newest first.
Revert ==
  /\ cmd.at = "revert" /\ cmd.undo # <<>>
  /\ store' = Reverted(Head(cmd.undo))
  /\ cmd' = [cmd EXCEPT !.undo = Tail(@)]
  /\ UNCHANGED <<container, boot, ghosts>>

\* One is refused.  In the repo whose move failed it is the only one: it stays, and
\* the repos before it are still rolled back.  In one of those the command ends.
OwnRevertRefused ==
  /\ cmd.at = "revert" /\ cmd.undo # <<>> /\ Head(cmd.undo).path = label[cmd.name].path
  /\ cmd' = [cmd EXCEPT !.undo = Tail(@), !.lost = TRUE]
  /\ UNCHANGED <<container, boot, store, ghosts>>

RevertRefused ==
  /\ cmd.at = "revert" /\ cmd.undo # <<>> /\ Head(cmd.undo).path # label[cmd.name].path
  /\ cmd' = Rest /\ CutShort
  /\ UNCHANGED <<container, boot, store>>

\* "reanchor failed, rolled back", whether or not the failing repo is.
RolledBack ==
  /\ cmd.at = "revert" /\ cmd.undo = <<>>
  /\ cmd' = IF cmd.up THEN [Rest EXCEPT !.at = "start"] ELSE Rest
  /\ stuck' = IF cmd.lost /\ ~cut THEN stuck \cup {label[cmd.name].path} ELSE stuck
  /\ UNCHANGED <<container, boot, store, cut, left>>

-----------------------------------------------------------------------------
BootStep ==
  \/ BootBegins \/ Stage \/ BootEnds
  \/ \E n \in Name : WarmRestart(n) \/ Reattach(n) \/ FirstLaunch(n) \/ FirstWorktree(n)

Command ==
  \/ (\E m \in Launches : StartNew(m)) \/ (\E m \in Typed : StartChanged(m))
  \/ StartWarm \/ Restart \/ Shutdown \/ Stop
  \/ cmd = Rest /\ \E names \in (SUBSET Name) \ {{}} : \E targets \in [names -> Rev] : Reanchor(targets)

CommandStep ==
  \/ StopContainer \/ StopRefused \/ Remove \/ RemoveRefused \/ Forgotten
  \/ \E p \in Path : Forget(p) \/ ForgetRefused(p)
  \/ Run \/ RunFails \/ StartContainer \/ SeesReady \/ TimesOut \/ Interrupt
  \/ \E n \in Name : InPlace(n) \/ Rebase(n) \/ RebaseRefused(n)
  \/ SetBookmark \/ MoveFails \/ MoveAbandoned \/ Moved
  \/ Revert \/ OwnRevertRefused \/ RevertRefused \/ RolledBack

Next == BootStep \/ Exit \/ (\E p \in Path : Work(p)) \/ Command \/ CommandStep

Spec == Init /\ [][Next]_vars

-----------------------------------------------------------------------------
Footprint ==
  [bookmark : {"none", "on", "above", "adrift"}, parent : Rev \cup {NoRev}, mode : Mode]
Operation == [path : Path, kind : {"rebase", "bookmark"}, session : Footprint]
CommandRecord ==
  [at : {"rest", "stop", "remove", "forget", "run", "start", "wait", "move", "bookmark",
         "revert"},
   run : Manifest, forget : SUBSET Path,
   targets : UNION {[names -> Rev] : names \in SUBSET Name}, todo : SUBSET Name,
   undo : Seq(Operation), name : Name \cup {0}, up : BOOLEAN, kept : BOOLEAN,
   lost : BOOLEAN, was : [Path -> Footprint] \cup {Empty}]

\* Docker's state agrees with what hangs on it: labels and layer exist with the
\* container only, and only a running one boots.
TypeOK ==
  /\ ctr \in {"absent", "stopped", "running"}
  /\ label \in Manifest /\ (label = Empty <=> ctr = "absent")
  /\ layer \subseteq DOMAIN label
  /\ ready \in BOOLEAN /\ (ready => ctr # "absent")
  /\ boot \in [at : {"off", "early", "loop", "stage", "idle"}, todo : SUBSET DOMAIN label]
  /\ boot.at = "off" <=> ctr # "running"
  /\ boot.at = "stage" => boot.todo # {}
  /\ store \in [Path -> Footprint]
  /\ cmd \in CommandRecord
  /\ cut \in BOOLEAN /\ left \subseteq Path /\ stuck \subseteq Path

\* The session bookmark says that a lifecycle owns the session (vcs-lib.sh:75):
\* between commands no store has one of a ticket that does not mount it, so that
\* the next launch there is a fresh one, unless a command was cut short or a name
\* of the set has moved away from there.
NoStrays ==
  ~cut /\ cmd.at = "rest" =>
    \A p \in Jj \ left :
      store[p].bookmark # "none" => p \in Paths(label, DOMAIN label)

\* The manifest records the anchor its sessions really have (manifest.py:241): the
\* overlap check of later launches trusts it.  Moves, rollbacks, kept repos, boots
\* cut short and commands that gave up waiting keep it so.  It may be wrong after a
\* command that was cut short, where a name moved away and came back, and about the
\* parent in a repo that kept the move it was reported rolled back from.
AnchorIsRecorded ==
  ~cut /\ cmd.at \in {"rest", "wait"} =>
    \A n \in DOMAIN label : LET p == label[n].path IN
      p \in Jj \ left /\ store[p].bookmark # "none" =>
        /\ store[p].mode = label[n].mode
        /\ p \notin stuck => Findable(p) /\ store[p].parent = label[n].base

\* A session is forgotten only when its container is gone, or in a command that docker
\* refused to remove it for: no later boot finds its workspace without its bookmark.
ForgottenWhenGone ==
  [][\A p \in Path :
       store[p].bookmark # "none" /\ store'[p].bookmark = "none" =>
         ctr = "absent" \/ cmd.kept]_vars

\* "reanchor failed, rolled back" (ticket.py:430) is true of every repo but the one
\* whose move failed, the repos moved first too, and of that one unless its move was
\* abandoned or not reverted.
RollbackRestores ==
  cmd.at = "revert" /\ cmd.undo = <<>> =>
    \A p \in Path : store[p] = cmd.was[p] \/ (cmd.lost /\ p = label[cmd.name].path)

\* The moves a command has in hand, and the sessions without what it did so far.
Asked ==
  IF cmd.at \in {"move", "bookmark", "revert"}
  THEN {[path |-> label[n].path, rev |-> cmd.targets[n]] : n \in DOMAIN cmd.targets} ELSE {}
Sessions == IF cmd.at \in {"move", "bookmark", "revert"} THEN cmd.was ELSE store

Promise == INSTANCE Reanchoring
             WITH up <- ctr = "running", broken <- cut, session <- Sessions, asked <- Asked

\* Repo by repo, with a rollback that may itself be refused and a user who may interrupt
\* it, "restart --reanchor" moves all the repos it was asked to, or none, or only the one
\* whose failing move the code does not revert, and touches no other session; cut short,
\* it leaves each as it was or moved (ticket.py:383).
AllOrNone == Promise!Spec

-----------------------------------------------------------------------------
(* What the repository says and its code does not. *)

\* vcs-lib.sh:75: "bookmark $3 exists in the origin store <=> a live or
\* restart-paused lifecycle owns this session": a ticket that reports ready has its
\* bookmark in each repo.
ReadyHasSession ==
  ~cut /\ boot.at = "idle" => \A p \in Paths(label, DOMAIN label) : store[p].bookmark # "none"
=============================================================================
