------------------------------ MODULE Mailbox ------------------------------
(***************************************************************************)
(* The messenger transport of cld/messenger/mailbox.py: one directory per  *)
(* container under a shared root, a hop-budget and obligation ledger per   *)
(* pair of task-agents, and the teardown that moves a directory under      *)
(* _archive/.  Every operation is one atomic step here: what its writers   *)
(* and a teardown do to each other between file-system calls is the        *)
(* subject of Delivery.                                                    *)
(*                                                                         *)
(* The containers that own the mailboxes are modelled as far as the        *)
(* transport looks at them: a name is addressable while docker lists it,   *)
(* and a supervisor writes its agent's spawn facts (meta.json) when it     *)
(* boots, after the container already exists.                              *)
(***************************************************************************)
EXTENDS Integers, FiniteSets, Sequences

CONSTANTS
  Agent,         \* task-agent names; the mailbox of a booted one has meta.json
  Ticket,        \* ticket (master) names; their mailboxes never have meta.json
  PeerChoices,   \* the --peer mappings a launch may pass
  DefaultLimit,  \* cfg.peer_absolute_limit
  AskLimit,      \* cfg.root_ask_limit
  MaxMsgs,       \* bound: messages ever delivered
  MaxReaps       \* bound: teardowns of one name

Name    == Agent \cup Ticket
Edge    == {{a, b} : a \in Agent, b \in Agent}    \* pairs that may have a ledger
NoLimit == -1                   \* a missing peers entry, a null "limit"
Limit   == Nat \cup {NoLimit}
NoId    == 0                    \* the empty "answers"

ASSUME MailboxAssumption ==
  /\ Agent \cap Ticket = {}
  /\ PeerChoices \subseteq [Name -> Limit]
  /\ DefaultLimit \in Nat
  /\ AskLimit \in Nat
  /\ MaxMsgs \in Nat
  /\ MaxReaps \in Nat

VARIABLES
  container,  \* docker's view of each task-agent container
  live,       \* names with a directory directly under the mailbox root
  box,        \* content of each live directory
  peers,      \* "peers" of each live meta.json (nothing reads an archived one's)
  graveyard,  \* _archive/<name>, _archive/<name>-2, ... in that order
  edges,      \* _edges/<a>--<b>.json
  lastId      \* messages are numbered in delivery order (uuid + ts in the code)

vars == <<container, live, box, peers, graveyard, edges, lastId>>

Message == [id : Nat, from : Name, to : Name, answers : Nat,
            expects : BOOLEAN, hops : Nat]

\* hops = 0 is an envelope without the stamp.  "facts" says meta.json is there;
\* "sent" is outbox.log, append-only lines whose order is the order of their ids.
Box == [facts : BOOLEAN,
        inbox : SUBSET Message, read : SUBSET Message, sent : SUBSET Message]

\* "root" stands for root_since: the id of the message whose send set it.
EdgeFile == [count : Nat, limit : Limit, open : SUBSET Nat, asks : Nat, root : Nat]

EmptyBox  == [facts |-> FALSE, inbox |-> {}, read |-> {}, sent |-> {}]
NoPeers   == [n \in Name |-> NoLimit]
FreshEdge == [count |-> 0, limit |-> NoLimit, open |-> {}, asks |-> 0, root |-> NoId]

Init ==
  /\ container = [a \in Agent |-> "absent"]
  /\ live = {}
  /\ box = [n \in Name |-> EmptyBox]
  /\ peers = [n \in Name |-> NoPeers]
  /\ graveyard = [n \in Name |-> <<>>]
  /\ edges = [e \in Edge |-> FreshEdge]
  /\ lastId = 0

-----------------------------------------------------------------------------
(* What the transport reads. *)

\* Mutation: deliver to a torn-down recipient as to a fresh one.
ReapedUnchecked(n) == FALSE

\* mailbox_reaped: only an archived directory is left.
Reaped(n) == n \notin live /\ graveyard[n] # <<>>

\* read_meta (live only) and read_meta_resolved (live, else the first archive).
HasFacts(n) == n \in live /\ box[n].facts
HasFactsResolved(n) ==
  IF n \in live THEN box[n].facts
  ELSE graveyard[n] # <<>> /\ graveyard[n][1].facts

\* Mutation: the check comes one message late.
SpentLate(e) == edges[e].limit # NoLimit /\ edges[e].count > edges[e].limit

\* edge_spent: asked before a delivery; an edge without a limit is never spent.
Spent(e) == edges[e].limit # NoLimit /\ edges[e].count >= edges[e].limit

\* Mutation: the check comes one ask late.
AskSpentLate(e) == e \in Edge /\ edges[e].open # {} /\ edges[e].asks > AskLimit

\* ask_spent: counts only while something is open.  An edge with a ticket on it
\* has no file and reads as empty.
AskSpent(e) == e \in Edge /\ edges[e].open # {} /\ edges[e].asks >= AskLimit

\* write_message budgets an edge iff both endpoints have spawn facts.
PeerEdge(frm, to) == HasFacts(frm) /\ HasFactsResolved(to)

\* Mutation: a message that asks does not discharge the question it answers.
OpenAfterAskOrAnswer(open, id, answers, expects) ==
  IF expects THEN open \cup {id} ELSE open \ {answers}

\* The questions open after one more message: it discharges one, it may open one.
OpenAfter(open, id, answers, expects) ==
  (open \ {answers}) \cup (IF expects THEN {id} ELSE {})

\* Mutation: settling the last question forgets the hops as well as the asks.
BumpResetsCount(edge, limit, id, answers, expects) ==
  LET open == OpenAfter(edge.open, id, answers, expects)
  IN [count |-> IF open = {} /\ edge.open # {} THEN 0 ELSE edge.count + 1,
      limit |-> IF edge.limit # NoLimit THEN edge.limit ELSE limit,
      open  |-> open,
      asks  |-> IF open = {} THEN 0 ELSE edge.asks + (IF expects THEN 1 ELSE 0),
      root  |-> NoId]

\* bump_edge: the ledger after one more message.  The stored limit wins.
Bump(edge, limit, id, answers, expects) ==
  LET open == OpenAfter(edge.open, id, answers, expects)
  IN [count |-> edge.count + 1,
      limit |-> IF edge.limit # NoLimit THEN edge.limit ELSE limit,
      open  |-> open,
      asks  |-> IF open = {} THEN 0 ELSE edge.asks + (IF expects THEN 1 ELSE 0),
      root  |-> IF open = {} THEN NoId
                ELSE IF edge.root # NoId THEN edge.root ELSE id]

\* resolve_recipient for a full name: an existing directory, else docker's list.
Resolvable(to) ==
  \/ to \in live
  \/ to \in Ticket
  \/ to \in Agent /\ container[to] # "absent"

\* Only a booted agent has a supervisor or a claude that can send.
CanSend(n) == n \in Ticket \/ (n \in Agent /\ container[n] = "up")

-----------------------------------------------------------------------------
(* Delivery. *)

\* write_message.  A refused delivery changes nothing, so it is no step.
WriteMessage(frm, to, answers, expects, seed) ==
  LET e      == {frm, to}
      peer   == PeerEdge(frm, to)
      id     == lastId + 1
      limit  == IF peers[frm][to] # NoLimit THEN peers[frm][to] ELSE seed
      msg    == [id |-> id, from |-> frm, to |-> to, answers |-> answers,
                 expects |-> expects,
                 hops |-> IF peer THEN edges[e].count + 1 ELSE 0]
  IN /\ lastId < MaxMsgs
     /\ ~Reaped(to)
     /\ ~(peer /\ Spent(e))
     /\ live' = live \cup {frm, to}
     /\ edges' = IF peer
                 THEN [edges EXCEPT ![e] = Bump(@, limit, id, answers, expects)]
                 ELSE edges
     /\ box' = [n \in Name |->
                  [box[n] EXCEPT
                     !.inbox = IF n = to THEN @ \cup {msg} ELSE @,
                     !.sent  = IF n = frm THEN @ \cup {msg} ELSE @]]
     /\ lastId' = id
     /\ UNCHANGED <<container, peers, graveyard>>

\* gated_send: the messenger tool and its CLI twin.
GatedSend(frm, to, answers, expects) ==
  /\ CanSend(frm)
  /\ Resolvable(to)
  /\ ~(expects /\ AskSpent({frm, to}))
  /\ WriteMessage(frm, to, answers, expects, DefaultLimit)

\* The supervisor's own reply to m (a failure report or the synthesized
\* fallback): straight to write_message, with no ask gate and no seed limit.
SupervisorReply(a, m) ==
  /\ container[a] = "up"
  /\ m \in box[a].inbox
  /\ WriteMessage(a, m.from, m.id, FALSE, NoLimit)

\* Mutation: the message is copied, not moved.
ArchiveMessageCopies(n, m) ==
  /\ CanSend(n)
  /\ m \in box[n].inbox
  /\ box' = [box EXCEPT ![n].read = @ \cup {m}]
  /\ UNCHANGED <<container, live, peers, graveyard, edges, lastId>>

\* archive_message, by the supervisor or by claude; again is a no-op.
ArchiveMessage(n, m) ==
  /\ CanSend(n)
  /\ m \in box[n].inbox
  /\ box' = [box EXCEPT ![n].inbox = @ \ {m}, ![n].read = @ \cup {m}]
  /\ UNCHANGED <<container, live, peers, graveyard, edges, lastId>>

-----------------------------------------------------------------------------
(* Containers. *)

\* docker run under a name no container holds (allocate_task_agent_name): a
\* reaped agent's name is free again.  A container that is "down" is listed by
\* docker but has no supervisor: it boots, or it has stopped.
Launch(a) ==
  /\ container[a] = "absent"
  /\ container' = [container EXCEPT ![a] = "down"]
  /\ UNCHANGED <<live, box, peers, graveyard, edges, lastId>>

\* The supervisor's constructor: ensure_mailbox, then ensure_meta, which never
\* overwrites the facts a live directory already has.
Boot(a, named) ==
  /\ container[a] = "down"
  /\ container' = [container EXCEPT ![a] = "up"]
  /\ live' = live \cup {a}
  /\ IF HasFacts(a)
     THEN UNCHANGED <<box, peers>>
     ELSE /\ box' = [box EXCEPT ![a].facts = TRUE]
          /\ peers' = [peers EXCEPT ![a] = named]
  /\ UNCHANGED <<graveyard, edges, lastId>>

\* The supervisor ends, cleanly or not; docker can start the container again.
Stop(a) ==
  /\ container[a] = "up"
  /\ container' = [container EXCEPT ![a] = "down"]
  /\ UNCHANGED <<live, box, peers, graveyard, edges, lastId>>

\* Mutation: the spawn facts survive the teardown.
ArchiveMailboxKeepsPeers(n) ==
  IF n \in live
  THEN /\ live' = live \ {n}
       /\ graveyard' = [graveyard EXCEPT ![n] = Append(@, box[n])]
       /\ box' = [box EXCEPT ![n] = EmptyBox]
       /\ UNCHANGED peers
  ELSE UNCHANGED <<live, box, peers, graveyard>>

\* archive_mailbox: a taken archive name gets the next suffix, never a merge.
ArchiveMailbox(n) ==
  IF n \in live
  THEN /\ live' = live \ {n}
       /\ graveyard' = [graveyard EXCEPT ![n] = Append(@, box[n])]
       /\ box' = [box EXCEPT ![n] = EmptyBox]
       /\ peers' = [peers EXCEPT ![n] = NoPeers]
  ELSE UNCHANGED <<live, box, peers, graveyard>>

\* _reap_task_agent --force: the readiness checks are Fleet's subject.
Reap(a) ==
  /\ Len(graveyard[a]) < MaxReaps
  /\ a \in live \/ container[a] # "absent"
  /\ container' = [container EXCEPT ![a] = "absent"]
  /\ ArchiveMailbox(a)
  /\ UNCHANGED <<edges, lastId>>

-----------------------------------------------------------------------------
\* An answer names a message in its sender's mailbox.
Known(n) == {m.id : m \in box[n].inbox \cup box[n].read}

Next ==
  \/ \E frm \in Name, expects \in BOOLEAN :
       \E to \in Name \ {frm}, answers \in Known(frm) \cup {NoId} :
         GatedSend(frm, to, answers, expects)
  \/ \E a \in Agent : \E m \in box[a].inbox : SupervisorReply(a, m)
  \/ \E n \in Name : \E m \in box[n].inbox : ArchiveMessage(n, m)
  \/ \E a \in Agent : Launch(a)
  \/ \E a \in Agent, named \in PeerChoices : Boot(a, named)
  \/ \E a \in Agent : Stop(a)
  \/ \E a \in Agent : Reap(a)

Spec == Init /\ [][Next]_vars

-----------------------------------------------------------------------------
(* The transcripts: every outbox line ever written, wherever it now lies. *)

Held(n)    == <<box[n]>> \o graveyard[n]
SentIn(q)  == UNION {q[i].sent : i \in DOMAIN q}
Lines(n)   == SentIn(Held(n))
Traffic    == UNION {Lines(n) : n \in Name}
Crossed(e) == {m \in UNION {Lines(n) : n \in e} : {m.from, m.to} = e}
Stamped(e) == {m \in Crossed(e) : m.hops # 0}

\* Every variable has its type, an absent directory holds nothing, and a ticket
\* has no spawn facts and no archive.
TypeOK ==
  /\ container \in [Agent -> {"absent", "down", "up"}]
  /\ live \in SUBSET Name
  /\ box \in [Name -> Box]
  /\ peers \in [Name -> [Name -> Limit]]
  /\ graveyard \in [Name -> Seq(Box)]
  /\ edges \in [Edge -> EdgeFile]
  /\ lastId \in 0..MaxMsgs
  /\ \A n \in Name \ live : box[n] = EmptyBox /\ peers[n] = NoPeers
  /\ \A t \in Ticket : ~box[t].facts /\ graveyard[t] = <<>>

\* The counter file agrees with the transcripts: the hop stamps of an edge are
\* 1..count, each used once, through reaps and reuse of a name.
HopStampsCount ==
  \A e \in Edge : LET over == Stamped(e) IN
    /\ {m.hops : m \in over} = 1..edges[e].count
    /\ \A m1, m2 \in over : m1.hops = m2.hops => m1 = m2

\* A sent message lies in its recipient's mailbox once, unread or read, live or
\* archived: neither archive_message nor archive_mailbox loses or doubles one.
DeliveredOnce ==
  \A m \in Traffic :
    \E i \in DOMAIN Held(m.to) :
      /\ m \in Held(m.to)[i].inbox <=> m \notin Held(m.to)[i].read
      /\ \A j \in DOMAIN Held(m.to) \ {i} :
           m \notin Held(m.to)[j].inbox \cup Held(m.to)[j].read

\* The obligation ledger agrees with the transcripts: what bump_edge keeps open
\* is what was asked over the edge and not yet answered over it.
OpenIsUnanswered ==
  \A e \in Edge : LET over == Stamped(e) IN
    edges[e].open = {m.id : m \in {q \in over :
                       q.expects /\ \A r \in over : r.answers # q.id}}

\* ask_spent bounds a clarification regress: however the two agents interleave
\* asks and answers, no more than AskLimit asks accumulate (the first ask of
\* all is never refused), and at least as many were asked as are open.
AskBudget ==
  \A e \in Edge :
    /\ edges[e].open = {} <=> edges[e].asks = 0
    /\ Cardinality(edges[e].open) <= edges[e].asks
    /\ edges[e].asks <= AskLimit \/ edges[e].asks = 1

\* "A spent edge is silent": once an edge has used its budget no message crosses
\* it, counted or not, whoever sends it and whoever has been torn down since.
SpentEdgeIsSilent ==
  [][\A e \in Edge : Spent(e) => Crossed(e)' = Crossed(e)]_vars

\* The counter file keeps the promise of EdgeBudget about the messages that
\* really carry a hop stamp.
Budget == INSTANCE EdgeBudget
            WITH carried <- [e \in Edge |-> {m.id : m \in Stamped(e)}],
                 ceiling <- [e \in Edge |-> edges[e].limit],
                 Msg <- 1..MaxMsgs
BudgetSpec == Budget!Spec
=============================================================================
