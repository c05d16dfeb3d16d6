----------------------------- MODULE Supervisor -----------------------------
(***************************************************************************)
(* The supervisor of one task-agent (cld/messenger/agent_loop.py): a loop   *)
(* that gives each message of the agent's inbox, oldest first, to a turn of *)
(* one claude session and answers for claude where claude did not.  The     *)
(* process may die between any two of its file-system writes and may be     *)
(* started again; the mailbox outlives it.                                  *)
(*                                                                         *)
(* Hop and ask budgets are Mailbox's subject: here a correspondent can at   *)
(* any moment become one whose delivery write_message refuses.              *)
(***************************************************************************)
EXTENDS Integers, FiniteSets, Sequences

CONSTANTS
  Sender,      \* correspondents of the agent: its master, its peers
  MaxMsgs,     \* bound: messages delivered to the agent
  MaxSends,    \* bound: messages claude sends
  MaxClosed,   \* bound: correspondents that become unreachable
  MaxBoots     \* bound: times the container is started

ASSUME SupervisorAssumption ==
  MaxMsgs \in Nat /\ MaxSends \in Nat /\ MaxClosed \in Nat /\ MaxBoots \in Nat

VARIABLES
  pc,          \* where the process is; "off" when there is none
  inbox,       \* unread messages
  read,        \* archive/
  outbox,      \* outbox.log of the agent
  current,     \* the message process_one works on
  snapshot,    \* outbox_snapshot taken when its turn began
  phase,       \* "phase" of state.json, and
  shown,       \*   the id in its "current"
  stop,        \* the _stop flag of the process
  closed,      \* correspondents that write_message refuses
  skipped,     \* ids of messages claude archived by itself
  boots        \* starts of the container

mailbox == <<inbox, read, outbox, closed, skipped>>
process == <<pc, current, snapshot, stop>>
state   == <<phase, shown>>
vars    == <<mailbox, process, state, boots>>

\* Messages are numbered in the order oldest_inbox_id sees (mtime); "ts" places
\* a message among the agent's own lines, as the timestamps of both do.
Message == [id : 1..MaxMsgs, from : Sender, expects : BOOLEAN, ts : Nat]
Line    == [to : Sender, answers : 0..MaxMsgs, claude : BOOLEAN]
NoMsg   == [id |-> 0]

Received == inbox \cup read

Init ==
  /\ pc = "off" /\ inbox = {} /\ read = {} /\ outbox = <<>>
  /\ current = NoMsg /\ snapshot = 0 /\ phase = "none" /\ shown = 0
  /\ stop = FALSE /\ closed = {} /\ skipped = {} /\ boots = 0

-----------------------------------------------------------------------------
(* The world outside. *)

\* A correspondent's write_message: up or down, the mailbox takes it.
Deliver(s, expects) ==
  /\ Cardinality(Received) < MaxMsgs
  /\ inbox' = inbox \cup {[id |-> Cardinality(Received) + 1, from |-> s,
                           expects |-> expects, ts |-> Len(outbox)]}
  /\ UNCHANGED <<read, outbox, closed, skipped, process, state, boots>>

\* s is torn down, or the edge to it is spent.
Close(s) ==
  /\ s \notin closed /\ Cardinality(closed) < MaxClosed
  /\ closed' = closed \cup {s}
  /\ UNCHANGED <<inbox, read, outbox, skipped, process, state, boots>>

\* The container starts, first or again: the entrypoint finds or makes the
\* session and main builds a fresh supervisor.
Start ==
  /\ pc = "off" /\ boots < MaxBoots
  /\ pc' = "boot" /\ boots' = boots + 1
  /\ stop' = FALSE /\ current' = NoMsg /\ snapshot' = 0
  /\ UNCHANGED <<mailbox, state>>

Gone == pc' = "off" /\ current' = NoMsg /\ snapshot' = 0 /\ stop' = FALSE

\* SIGKILL, OOM, host reboot; and SIGTERM before run() installed a handler.
Die ==
  /\ pc # "off"
  /\ Gone
  /\ UNCHANGED <<mailbox, state, boots>>

\* SIGTERM and SIGUSR1 only raise a flag; the loop looks at it between turns.
\* They differ in what becomes of the session bookmark, which is left out here.
RequestStop ==
  /\ pc \notin {"off", "boot"} /\ ~stop
  /\ stop' = TRUE
  /\ UNCHANGED <<pc, current, snapshot, mailbox, state, boots>>

-----------------------------------------------------------------------------
(* Claude: what one invocation may do through the messenger tools. *)

ClaudeRuns == pc \in {"kickoff", "turn"}

ByClaude == {i \in DOMAIN outbox : outbox[i].claude}

\* claude follows its instructions in this: it answers a message to its sender,
\* and no message twice.  A send that is refused is no step.
ClaudeSend(to, answers) ==
  /\ ClaudeRuns /\ Cardinality(ByClaude) < MaxSends
  /\ to \notin closed
  /\ answers = 0 \/ \A i \in ByClaude : outbox[i].answers # answers
  /\ outbox' = Append(outbox, [to |-> to, answers |-> answers, claude |-> TRUE])
  /\ UNCHANGED <<inbox, read, closed, skipped, process, state, boots>>

\* The archive tool takes any message of the inbox, not only the current one.
ClaudeArchive(m) ==
  /\ ClaudeRuns
  /\ m \in inbox
  /\ inbox' = inbox \ {m} /\ read' = read \cup {m}
  /\ skipped' = skipped \cup {m.id}
  /\ UNCHANGED <<outbox, closed, process, state, boots>>

-----------------------------------------------------------------------------
(* The supervisor. *)

WriteState(p, id) == phase' = p /\ shown' = id

Goto(p) == pc' = p /\ UNCHANGED <<current, snapshot, stop>>

BeginKickoff ==
  /\ pc = "boot"
  /\ WriteState("kickoff", 0)
  /\ Goto("kickoff")
  /\ UNCHANGED <<mailbox, boots>>

\* Mutation: run() clears the flags once it is ready for messages.
KickoffDoneForgetsStop ==
  /\ pc = "kickoff"
  /\ WriteState("idle", 0)
  /\ pc' = "poll" /\ stop' = FALSE /\ UNCHANGED <<current, snapshot>>
  /\ UNCHANGED <<mailbox, boots>>

KickoffDone ==
  /\ pc = "kickoff"
  /\ WriteState("idle", 0)
  /\ Goto("poll")
  /\ UNCHANGED <<mailbox, boots>>

\* claude failed: the exception ends the process, state.json stays.
KickoffFails ==
  /\ pc = "kickoff"
  /\ Gone
  /\ UNCHANGED <<mailbox, state, boots>>

\* oldest_inbox_id.
Oldest(m) == \A n \in inbox : m.id <= n.id

\* Mutation: state.json is left for the end of the turn.
BeginTurnUnannounced ==
  /\ pc = "poll" /\ ~stop
  /\ \E m \in inbox : Oldest(m) /\ current' = m
  /\ snapshot' = Len(outbox)
  /\ pc' = "turn"
  /\ UNCHANGED <<stop, mailbox, state, boots>>

\* One round of the loop that finds a message: from here process_one holds it.
BeginTurn ==
  /\ pc = "poll" /\ ~stop
  /\ \E m \in inbox : Oldest(m) /\ current' = m
  /\ snapshot' = Len(outbox)
  /\ WriteState("processing", current'.id)
  /\ pc' = "turn"
  /\ UNCHANGED <<stop, mailbox, boots>>

\* Success, or the turn cap: both are a complete envelope.
TurnEnds  == pc = "turn" /\ Goto("ended")  /\ UNCHANGED <<mailbox, state, boots>>
TurnFails == pc = "turn" /\ Goto("failed") /\ UNCHANGED <<mailbox, state, boots>>

\* replied_since: any line to the sender will do.
RepliedSince == \E i \in DOMAIN outbox : i > snapshot /\ outbox[i].to = current.from

\* Mutation: a failed turn is reported in the log only.
OwesReplyUnlessFailed == pc = "ended" /\ current.expects /\ ~RepliedSince

\* A failure is always reported; a finished turn's silence only on a question.
OwesReply == pc = "failed" \/ (current.expects /\ ~RepliedSince)

\* The supervisor's own reply, refused like any other towards a closed one.
Settle ==
  /\ pc \in {"ended", "failed"}
  /\ outbox' = IF OwesReply /\ current.from \notin closed
               THEN Append(outbox, [to |-> current.from, answers |-> current.id,
                                    claude |-> FALSE])
               ELSE outbox
  /\ Goto("settled")
  /\ UNCHANGED <<inbox, read, closed, skipped, state, boots>>

\* Mutation: a message whose sender could not be answered stays for a retry.
ArchiveAnswered ==
  /\ pc = "settled"
  /\ IF current.from \in closed THEN UNCHANGED <<inbox, read>>
     ELSE inbox' = inbox \ {current} /\ read' = read \cup {current}
  /\ Goto("archived")
  /\ UNCHANGED <<outbox, closed, skipped, state, boots>>

\* Mutation: the message is copied, not moved.
ArchiveCopies ==
  /\ pc = "settled"
  /\ read' = read \cup {current}
  /\ Goto("archived")
  /\ UNCHANGED <<inbox, outbox, closed, skipped, state, boots>>

\* archive_message; nothing is left to do if claude has archived it.
Archive ==
  /\ pc = "settled"
  /\ inbox' = inbox \ {current} /\ read' = read \cup {current}
  /\ Goto("archived")
  /\ UNCHANGED <<outbox, closed, skipped, state, boots>>

Idle ==
  /\ pc = "archived"
  /\ WriteState("idle", 0)
  /\ pc' = "poll" /\ current' = NoMsg /\ snapshot' = 0
  /\ UNCHANGED <<stop, mailbox, boots>>

\* The loop is left between turns.
Exit ==
  /\ pc = "poll" /\ stop
  /\ WriteState("stopped", 0)
  /\ Gone
  /\ UNCHANGED <<mailbox, boots>>

-----------------------------------------------------------------------------
\* The steps of the process itself, claude's end among them.
SupervisorStep ==
  \/ BeginKickoff \/ KickoffDone \/ KickoffFails
  \/ BeginTurn \/ TurnEnds \/ TurnFails \/ Settle \/ Archive \/ Idle \/ Exit

Next ==
  \/ \E s \in Sender, expects \in BOOLEAN : Deliver(s, expects)
  \/ \E s \in Sender : Close(s)
  \/ Start \/ Die
  \/ RequestStop
  \/ \E to \in Sender :
       \E answers \in {0} \cup {m.id : m \in {r \in Received : r.from = to}} :
         ClaudeSend(to, answers)
  \/ \E m \in inbox : ClaudeArchive(m)
  \/ SupervisorStep

Spec == Init /\ [][Next]_vars

\* A live process goes on: python runs, and every claude invocation ends
\* (--max-turns bounds it; the code sets no timeout).  Nothing is assumed of the
\* world: nobody need restart a dead container.
FairSpec == Spec /\ WF_vars(SupervisorStep)

-----------------------------------------------------------------------------
TypeOK ==
  /\ pc \in {"off", "boot", "kickoff", "poll", "turn", "ended", "failed", "settled",
             "archived"}
  /\ inbox \subseteq Message /\ read \subseteq Message /\ inbox \cap read = {}
  /\ outbox \in Seq(Line)
  /\ current \in Message \cup {NoMsg}
  /\ snapshot \in 0..Len(outbox)
  /\ phase \in {"none", "kickoff", "idle", "processing", "stopped"}
  /\ shown \in 0..MaxMsgs
  /\ stop \in BOOLEAN
  /\ closed \subseteq Sender /\ skipped \subseteq 1..MaxMsgs
  /\ boots \in 0..MaxBoots

\* No question is lost, whenever the process dies and however often it is
\* started: once it is read, its asker has been sent something since it asked, or
\* can be sent nothing, or claude itself has taken the question out.
NoQuestionLost ==
  \A q \in read :
    q.expects => \/ q.id \in skipped
                 \/ q.from \in closed
                 \/ \E i \in DOMAIN outbox : i > q.ts /\ outbox[i].to = q.from

\* What the reap check reads is true: while a turn is running or its reply is
\* still owed, state.json says so and names the message.
MidTurnIsVisible ==
  pc \in {"turn", "ended", "failed", "settled"} =>
    phase = "processing" /\ shown = current.id

\* Every message is taken out of the inbox unless the process ends first: no
\* message blocks the ones behind it, not even one that cannot be answered.
Handled ==
  \A id \in 1..MaxMsgs :
    (\E m \in inbox : m.id = id) ~> (pc = "off" \/ ~\E m \in inbox : m.id = id)

\* A stop request ends the process, whenever it comes.
StopIsHonoured == stop ~> pc = "off"

\* README.md:279: "A message sent with expects_reply gets exactly one reply".
ExactlyOneReply ==
  \A q \in Received :
    q.expects =>
      Cardinality({i \in DOMAIN outbox : outbox[i].to = q.from /\ outbox[i].answers = q.id}) <= 1
=============================================================================
