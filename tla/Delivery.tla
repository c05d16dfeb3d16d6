------------------------------ MODULE Delivery ------------------------------
(***************************************************************************)
(* write_message and archive_mailbox of cld/messenger/mailbox.py, one       *)
(* file-system call at a time: several processes deliver over the one edge  *)
(* between two task-agents, any of them may die at any call, and an agent   *)
(* may be reaped meanwhile.  Nothing in the code takes a lock.              *)
(*                                                                         *)
(* The edge file is replaced by writing <edge>.json.tmp and renaming it.    *)
(* All writers use that one name, so files are modelled by inode: a writer  *)
(* that opens the .tmp of another truncates, and then shares, its file.     *)
(***************************************************************************)
EXTENDS Integers, FiniteSets, Sequences

CONSTANTS
  End,        \* the two task-agents of the edge
  Process,    \* their senders: claude's tool servers, supervisors
  From,       \* the agent each of them runs in
  Declared,   \* the limit each agent brings to the edge: its peers entry or default
  MaxMsgs     \* bound: deliveries attempted

NoLimit == -1
NoFile == 0
Inode == 1..(Cardinality(Process) + 2)   \* the edge file, its .tmp, one open file each

ASSUME DeliveryAssumption ==
  /\ Cardinality(End) = 2
  /\ IsFiniteSet(Process)
  /\ From \in [Process -> End]
  /\ Declared \in [End -> Nat]   \* a peers entry is 1 or more, the default may be 0
  /\ MaxMsgs \in Nat

VARIABLES
  live,      \* agents with a mailbox directory
  facts,     \* those of them with a meta.json in it
  archived,  \* agents with a directory under _archive/, spawn facts and all
  inbox,     \* messages in the live mailbox of each agent
  buried,    \* messages in the archived one
  logged,    \* lines of the outbox logs
  path,      \* inode of <edge>.json
  tmp,       \* inode of <edge>.json.tmp
  content,   \* what is in each inode
  proc,      \* the senders
  lastId,
  counted,     \* ghost: messages counted, oldest first, until the edge is loose
  overlapped,  \* ghost: two senders have been between edge_spent and the rename
  overtaken    \* ghost: an agent was reaped by when a sender had looked for it

files == <<path, tmp, content>>
boxes == <<live, facts, archived, inbox, buried, logged>>
ghosts == <<counted, overlapped, overtaken>>
vars  == <<boxes, files, proc, lastId, ghosts>>

\* An inode that is not JSON: truncated, or overwritten by something shorter.
Torn  == [count |-> -1, limit |-> NoLimit, open |-> {}]
Fresh == [count |-> 0, limit |-> NoLimit, open |-> {}]

To(p) == CHOOSE n \in End : n # From[p]

AtRest == [at |-> "rest", id |-> 0, answers |-> 0, expects |-> FALSE, peer |-> FALSE,
           edge |-> Fresh, fd |-> NoFile]

Init ==
  /\ live = End /\ facts = End /\ archived = {}
  /\ inbox = [n \in End |-> {}] /\ buried = [n \in End |-> {}] /\ logged = {}
  /\ path = NoFile /\ tmp = NoFile /\ content = [i \in Inode |-> Torn]
  /\ proc = [p \in Process |-> AtRest]
  /\ lastId = 0 /\ counted = <<>> /\ overlapped = FALSE /\ overtaken = FALSE

-----------------------------------------------------------------------------
\* read_edge: no file, or one that does not parse, reads as a fresh edge.
ReadEdge == IF path = NoFile \/ content[path] = Torn THEN Fresh ELSE content[path]

\* Mutation: a torn-down recipient is made afresh.
ReapedUnchecked(n) == FALSE

\* mailbox_reaped, read_meta and read_meta_resolved.
Reaped(n) == n \notin live /\ n \in archived
HasFacts(n) == n \in live /\ n \in facts
HasFactsResolved(n) == IF n \in live THEN n \in facts ELSE n \in archived

Goto(p, at) == proc' = [proc EXCEPT ![p].at = at]
Return(p) == proc' = [proc EXCEPT ![p] = AtRest]

Counting == {"dirs", "read", "open", "write", "rename"}

-----------------------------------------------------------------------------
(* write_message by process p. *)

\* An agent that has not been reaped has processes that send.
Begin(p, answers, expects) ==
  /\ proc[p].at = "rest" /\ From[p] \notin archived
  /\ lastId < MaxMsgs
  /\ lastId' = lastId + 1
  /\ proc' = [proc EXCEPT ![p] = [AtRest EXCEPT !.at = "check", !.id = lastId + 1,
                                   !.answers = answers, !.expects = expects]]
  /\ UNCHANGED <<boxes, files, ghosts>>

\* Is the recipient gone, and is the edge between task-agents?
CheckRecipient(p) ==
  /\ proc[p].at = "check"
  /\ IF Reaped(To(p)) THEN Return(p)
     ELSE LET peer == HasFacts(From[p]) /\ HasFactsResolved(To(p)) IN
          proc' = [proc EXCEPT ![p].peer = peer,
                               ![p].at = IF peer THEN "spent" ELSE "dirs"]
  /\ UNCHANGED <<boxes, files, lastId, ghosts>>

\* Mutation: the check comes one message late.
CheckSpentLate(p) ==
  /\ proc[p].at = "spent"
  /\ IF ReadEdge.limit # NoLimit /\ ReadEdge.count > ReadEdge.limit
     THEN Return(p) /\ UNCHANGED overlapped
     ELSE /\ Goto(p, "dirs")
          /\ overlapped' = (overlapped
               \/ \E q \in Process \ {p} : proc[q].peer /\ proc[q].at \in Counting)
  /\ UNCHANGED <<boxes, files, lastId, counted, overtaken>>

\* edge_spent, the last look at the edge before it is counted.
CheckSpent(p) ==
  /\ proc[p].at = "spent"
  /\ IF ReadEdge.limit # NoLimit /\ ReadEdge.count >= ReadEdge.limit
     THEN Return(p) /\ UNCHANGED overlapped
     ELSE /\ Goto(p, "dirs")
          /\ overlapped' = (overlapped
               \/ \E q \in Process \ {p} : proc[q].peer /\ proc[q].at \in Counting)
  /\ UNCHANGED <<boxes, files, lastId, counted, overtaken>>

\* ensure_mailbox for both ends.
EnsureMailboxes(p) ==
  /\ proc[p].at = "dirs"
  /\ live' = live \cup {From[p], To(p)}
  /\ Goto(p, IF proc[p].peer THEN "read" ELSE "deliver")
  /\ UNCHANGED <<facts, archived, inbox, buried, logged, files, lastId, ghosts>>

\* bump_edge, in four calls: read_edge, open and truncate .tmp, write it, rename.
BumpReads(p) ==
  /\ proc[p].at = "read"
  /\ proc' = [proc EXCEPT ![p].edge = ReadEdge, ![p].at = "open"]
  /\ UNCHANGED <<boxes, files, lastId, ghosts>>

Unused == {i \in Inode : i # path /\ i # tmp /\ \A p \in Process : proc[p].fd # i}

BumpOpens(p) ==
  LET i == IF tmp # NoFile THEN tmp ELSE CHOOSE j \in Unused : TRUE IN
  /\ proc[p].at = "open"
  /\ tmp' = i
  /\ content' = [content EXCEPT ![i] = Torn]
  /\ proc' = [proc EXCEPT ![p].fd = i, ![p].at = "write"]
  /\ UNCHANGED <<boxes, path, lastId, ghosts>>

\* Mutation: the ledger keeps the last question only.
BumpedKeepsLast(p) ==
  LET edge == proc[p].edge IN
  [count |-> edge.count + 1,
   limit |-> IF edge.limit # NoLimit THEN edge.limit ELSE Declared[From[p]],
   open  |-> IF proc[p].expects THEN {proc[p].id} ELSE edge.open \ {proc[p].answers}]

Bumped(p) ==
  LET edge == proc[p].edge IN
  [count |-> edge.count + 1,
   limit |-> IF edge.limit # NoLimit THEN edge.limit ELSE Declared[From[p]],
   open  |-> (edge.open \ {proc[p].answers})
               \cup (IF proc[p].expects THEN {proc[p].id} ELSE {})]

\* Over another writer's text the longer of the two shows through.
BumpWrites(p) ==
  /\ proc[p].at = "write"
  /\ \E text \in {Bumped(p)} \cup (IF content[proc[p].fd] = Torn THEN {} ELSE {Torn}) :
       content' = [content EXCEPT ![proc[p].fd] = text]
  /\ proc' = [proc EXCEPT ![p].fd = NoFile, ![p].at = "rename"]
  /\ UNCHANGED <<boxes, path, tmp, lastId, ghosts>>

Sent(p) == [id |-> proc[p].id, to |-> To(p), answers |-> proc[p].answers,
            expects |-> proc[p].expects,
            hops |-> IF proc[p].peer THEN proc[p].edge.count + 1 ELSE 0]

Loose == overlapped \/ overtaken

\* Mutation: the file is copied into place.
BumpCopies(p) ==
  /\ proc[p].at = "rename"
  /\ IF tmp = NoFile
     THEN Return(p) /\ UNCHANGED <<path, tmp, counted>>
     ELSE /\ path' = tmp /\ UNCHANGED tmp
          /\ Goto(p, "deliver")
          /\ counted' = IF Loose THEN counted ELSE Append(counted, Sent(p))
  /\ UNCHANGED <<boxes, content, lastId, overlapped, overtaken>>

\* A .tmp that another writer has renamed away is an exception.
BumpRenames(p) ==
  /\ proc[p].at = "rename"
  /\ IF tmp = NoFile
     THEN Return(p) /\ UNCHANGED <<path, tmp, counted>>
     ELSE /\ path' = tmp /\ tmp' = NoFile
          /\ Goto(p, "deliver")
          /\ counted' = IF Loose THEN counted ELSE Append(counted, Sent(p))
  /\ UNCHANGED <<boxes, content, lastId, overlapped, overtaken>>

\* Mutation: a missing directory is passed over.
DeliverAnyway(p) ==
  /\ proc[p].at = "deliver"
  /\ inbox' = [inbox EXCEPT ![To(p)] = IF To(p) \in live THEN @ \cup {Sent(p)} ELSE @]
  /\ Goto(p, "log")
  /\ UNCHANGED <<live, facts, archived, buried, logged, files, lastId, ghosts>>

\* <to>/tmp/<id>.json and its rename into <to>/inbox/, if there is a <to>.
Deliver(p) ==
  /\ proc[p].at = "deliver"
  /\ IF To(p) \in live
     THEN inbox' = [inbox EXCEPT ![To(p)] = @ \cup {Sent(p)}] /\ Goto(p, "log")
     ELSE Return(p) /\ UNCHANGED inbox
  /\ UNCHANGED <<live, facts, archived, buried, logged, files, lastId, ghosts>>

Log(p) ==
  /\ proc[p].at = "log"
  /\ logged' = IF From[p] \in live THEN logged \cup {Sent(p)} ELSE logged
  /\ Return(p)
  /\ UNCHANGED <<live, facts, archived, inbox, buried, files, lastId, ghosts>>

\* The process is killed: what it has written stays.
Die(p) ==
  /\ proc[p].at # "rest"
  /\ Return(p)
  /\ UNCHANGED <<boxes, files, lastId, ghosts>>

-----------------------------------------------------------------------------
\* _reap_task_agent: the container goes with every process in it, then its
\* mailbox is renamed under _archive/.  Each agent is reaped once.
Reap(n) ==
  /\ n \in live \ archived
  /\ live' = live \ {n} /\ facts' = facts \ {n} /\ archived' = archived \cup {n}
  /\ buried' = [buried EXCEPT ![n] = inbox[n]] /\ inbox' = [inbox EXCEPT ![n] = {}]
  /\ proc' = [p \in Process |-> IF From[p] = n THEN AtRest ELSE proc[p]]
  /\ overtaken' = (overtaken \/ \E p \in Process : To(p) = n /\ proc[p].at \in {"spent", "dirs"})
  /\ UNCHANGED <<logged, files, lastId, counted, overlapped>>

Crossed == UNION {inbox[n] \cup buried[n] : n \in End}
Owed(n) == {m.id : m \in {q \in inbox[n] : q.expects}}

SendStep(p) ==
  \/ CheckRecipient(p) \/ CheckSpent(p) \/ EnsureMailboxes(p)
  \/ BumpReads(p) \/ BumpOpens(p) \/ BumpWrites(p) \/ BumpRenames(p)
  \/ Deliver(p) \/ Log(p)

Next ==
  \/ \E p \in Process, expects \in BOOLEAN :
       \E answers \in {0} \cup Owed(From[p]) : Begin(p, answers, expects)
  \/ \E p \in Process : SendStep(p) \/ Die(p)
  \/ \E n \in End : Reap(n)

Spec == Init /\ [][Next]_vars

-----------------------------------------------------------------------------
Content == [count : -1..MaxMsgs, limit : Nat \cup {NoLimit}, open : SUBSET (1..MaxMsgs)]
Message == [id : 1..MaxMsgs, to : End, answers : 0..MaxMsgs, expects : BOOLEAN,
            hops : 0..MaxMsgs]
Sender  == [at : {"rest", "check", "spent", "deliver", "log"} \cup Counting,
            id : 0..MaxMsgs, answers : 0..MaxMsgs, expects : BOOLEAN, peer : BOOLEAN,
            edge : Content, fd : Inode \cup {NoFile}]

\* The last two lines: only a writer between open and write holds a file, and
\* the edge file and its .tmp are never one file.
TypeOK ==
  /\ live \subseteq End /\ facts \subseteq live /\ archived \subseteq End
  /\ inbox \in [End -> SUBSET Message] /\ buried \in [End -> SUBSET Message]
  /\ logged \subseteq Message
  /\ path \in Inode \cup {NoFile} /\ tmp \in Inode \cup {NoFile}
  /\ content \in [Inode -> Content]
  /\ proc \in [Process -> Sender]
  /\ lastId \in 0..MaxMsgs /\ counted \in Seq(Message)
  /\ overlapped \in BOOLEAN /\ overtaken \in BOOLEAN
  /\ \A p \in Process : proc[p].fd # NoFile <=> proc[p].at = "write"
  /\ path # NoFile => path # tmp

\* The transcript of a sender does not claim what did not happen: a line in its
\* outbox.log is a message in the recipient's mailbox, live or archived, whoever
\* died or was reaped in between.
LinesAreDelivered == logged \subseteq Crossed

\* "A crash between the two loses a hop, which only tightens the ceiling"
\* (mailbox.py:171): as long as no two senders have counted at the same time and
\* no recipient was reaped under a sender, no more messages have crossed than the
\* edge file says, nor than the limit (but for the first message of the edge, which
\* passes even a limit of 0), and their stamps differ, wherever senders died.
CrashesTighten ==
  ~Loose =>
    /\ Cardinality(Crossed) <= ReadEdge.count
    /\ ReadEdge.limit # NoLimit => ReadEdge.count <= ReadEdge.limit \/ ReadEdge.count = 1
    /\ \A m1, m2 \in Crossed : m1.hops = m2.hops => m1 = m2

Promise == INSTANCE Crossing
             WITH Msg <- Message, arrived <- Crossed, ceiling <- ReadEdge.limit, loose <- Loose

\* The comment at mailbox.py:171 once more, of each step: write_message, call by call
\* and with a crash at any, counts a message under the next number before it delivers
\* it, none but the first above the limit that the first one brought, and each arrives
\* at most once.
CountedFirst == Promise!Spec

Discharged == {counted[i].answers : i \in DOMAIN counted}

\* Under the same condition the ledger forgets no question: one that has been
\* delivered is open in it until an answer to it is counted, though a crash may
\* leave an answer counted that never arrives.
QuestionsStayOpen ==
  ~Loose =>
    {q.id : q \in {m \in Crossed : m.expects}} \subseteq ReadEdge.open \cup Discharged

\* A reaped mailbox stays reaped, unless its reap overtook a delivery that had
\* already looked for it.
ReapIsFinal == ~overtaken => archived \cap live = {}
=============================================================================
