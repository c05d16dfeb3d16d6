--------------------------- MODULE MailboxProofs ---------------------------
(***************************************************************************)
(* Proofs about Mailbox for any number of agents, tickets and messages.    *)
(***************************************************************************)
EXTENDS Mailbox, FiniteSetTheorems, SequenceTheorems, TLAPS

-----------------------------------------------------------------------------
(* Types. *)

LEMMA EmptyBoxType == EmptyBox \in Box /\ NoPeers \in [Name -> Limit]
  BY DEF EmptyBox, Box, NoPeers, Limit, NoLimit

\* bump_edge keeps the ledger's type.
LEMMA BumpType ==
  ASSUME NEW edge \in EdgeFile, NEW limit \in Limit, NEW id \in Nat,
         NEW answers \in Nat, NEW expects \in BOOLEAN
  PROVE  Bump(edge, limit, id, answers, expects) \in EdgeFile
  BY DEF Bump, OpenAfter, EdgeFile, Limit, NoId

\* Only two task-agents are budgeted, so a budgeted pair has a ledger.
LEMMA PeerEdgeInEdge ==
  ASSUME TypeOK, NEW frm \in Name, NEW to \in Name, PeerEdge(frm, to)
  PROVE  frm \in Agent /\ to \in Agent /\ {frm, to} \in Edge
<1>1. frm \in Agent
  BY DEF PeerEdge, HasFacts, TypeOK, Name
<1>2. to \in Agent
  BY DEF PeerEdge, HasFactsResolved, TypeOK, Name
<1> QED BY <1>1, <1>2 DEF Edge

\* The envelope write_message builds, and what it does to each mailbox.
Envelope(frm, to, answers, expects) ==
  [id |-> lastId + 1, from |-> frm, to |-> to, answers |-> answers,
   expects |-> expects,
   hops |-> IF PeerEdge(frm, to) THEN edges[{frm, to}].count + 1 ELSE 0]

LEMMA WriteBox ==
  ASSUME TypeOK, NEW frm \in Name, NEW to \in Name, NEW answers \in Nat,
         NEW expects \in BOOLEAN, NEW seed \in Limit,
         WriteMessage(frm, to, answers, expects, seed)
  PROVE  /\ Envelope(frm, to, answers, expects) \in Message
         /\ box' \in [Name -> Box]
         /\ \A n \in Name :
              /\ box'[n].facts = box[n].facts
              /\ n = frm =>
                   box'[n].sent = box[n].sent \cup {Envelope(frm, to, answers, expects)}
              /\ n # frm => box'[n].sent = box[n].sent
<1> DEFINE msg == Envelope(frm, to, answers, expects)
<1>1. msg \in Message
  <2>1. CASE PeerEdge(frm, to)
    <3>1. edges[{frm, to}].count \in Nat
      BY <2>1, PeerEdgeInEdge DEF TypeOK, EdgeFile
    <3> QED BY <3>1 DEF Envelope, Message, TypeOK
  <2>2. CASE ~PeerEdge(frm, to)
    BY <2>2 DEF Envelope, Message, TypeOK
  <2> QED BY <2>1, <2>2
<1>2. box' = [n \in Name |->
                [box[n] EXCEPT
                   !.inbox = IF n = to THEN @ \cup {msg} ELSE @,
                   !.sent  = IF n = frm THEN @ \cup {msg} ELSE @]]
  BY DEF WriteMessage, Envelope
<1>3. ASSUME NEW n \in Name
      PROVE  /\ box'[n] \in Box
             /\ box'[n].facts = box[n].facts
             /\ n = frm => box'[n].sent = box[n].sent \cup {msg}
             /\ n # frm => box'[n].sent = box[n].sent
  <2>1. box[n] \in Box
    BY DEF TypeOK
  <2> QED BY <1>1, <1>2, <2>1 DEF Box
<1> HIDE DEF msg
<1>4. box' \in [Name -> Box]
  BY <1>2, <1>3
<1> QED BY <1>1, <1>3, <1>4 DEF msg

\* write_message keeps every type.
LEMMA WriteType ==
  ASSUME TypeOK, NEW frm \in Name, NEW to \in Name, NEW answers \in Nat,
         NEW expects \in BOOLEAN, NEW seed \in Limit,
         WriteMessage(frm, to, answers, expects, seed)
  PROVE  TypeOK'
<1> DEFINE e == {frm, to}
           id == lastId + 1
           limit == IF peers[frm][to] # NoLimit THEN peers[frm][to] ELSE seed
<1>1. id \in Nat /\ limit \in Limit /\ lastId' \in 0..MaxMsgs
  <2>1. lastId \in 0..MaxMsgs /\ peers[frm][to] \in Limit
    BY DEF TypeOK
  <2>2. lastId < MaxMsgs /\ lastId' = lastId + 1
    BY DEF WriteMessage
  <2> QED BY <2>1, <2>2, MailboxAssumption
<1>2. edges' \in [Edge -> EdgeFile]
  <2>1. CASE PeerEdge(frm, to)
    <3>1. edges' = [edges EXCEPT ![e] = Bump(edges[e], limit, id, answers, expects)]
      BY <2>1 DEF WriteMessage
    <3>2. e \in Edge
      BY <2>1, PeerEdgeInEdge
    <3>3. Bump(edges[e], limit, id, answers, expects) \in EdgeFile
      BY <1>1, <3>2, BumpType DEF TypeOK
    <3> QED BY <3>1, <3>3 DEF TypeOK
  <2>2. CASE ~PeerEdge(frm, to)
    BY <2>2 DEF TypeOK, WriteMessage
  <2> QED BY <2>1, <2>2
<1>3. /\ live' \in SUBSET Name
      /\ UNCHANGED <<container, peers, graveyard>>
  BY DEF TypeOK, WriteMessage
<1>4. ASSUME NEW n \in Name \ live'
      PROVE  box'[n] = EmptyBox /\ peers'[n] = NoPeers
  <2>1. n \notin live /\ n # frm /\ n # to
    BY DEF WriteMessage
  <2>2. box[n] = EmptyBox /\ peers[n] = NoPeers
    BY <2>1 DEF TypeOK
  <2>3. box'[n] = [box[n] EXCEPT !.inbox = box[n].inbox, !.sent = box[n].sent]
    BY <2>1 DEF WriteMessage
  <2> QED BY <1>3, <2>2, <2>3 DEF EmptyBox
<1>5. box' \in [Name -> Box] /\ \A t \in Ticket : ~box'[t].facts
  <2>1. box' \in [Name -> Box] /\ \A n \in Name : box'[n].facts = box[n].facts
    BY WriteBox
  <2> QED BY <2>1 DEF TypeOK, Name
<1> QED BY <1>1, <1>2, <1>3, <1>4, <1>5 DEF TypeOK

LEMMA TypeInit == Init => TypeOK
<1> SUFFICES ASSUME Init PROVE TypeOK
  OBVIOUS
<1>1. FreshEdge \in EdgeFile
  BY DEF FreshEdge, EdgeFile, Limit, NoId
<1>2. <<>> \in Seq(Box)
  OBVIOUS
<1>3. 0 \in 0..MaxMsgs
  BY MailboxAssumption
<1>4. \A t \in Ticket : t \in Name
  BY DEF Name
<1> QED BY <1>1, <1>2, <1>3, <1>4, EmptyBoxType DEF Init, TypeOK, EmptyBox

\* Every step of the transport and of the containers keeps the types.
LEMMA TypeStep == TypeOK /\ [Next]_vars => TypeOK'
<1> SUFFICES ASSUME TypeOK, [Next]_vars
             PROVE  TypeOK'
  OBVIOUS
<1>1. ASSUME NEW frm \in Name, NEW expects \in BOOLEAN, NEW to \in Name,
             NEW answers \in Known(frm) \cup {NoId},
             GatedSend(frm, to, answers, expects)
      PROVE  TypeOK'
  <2>1. answers \in Nat
    BY DEF Known, NoId, TypeOK, Box, Message
  <2>2. DefaultLimit \in Limit
    BY MailboxAssumption DEF Limit
  <2> QED BY <1>1, <2>1, <2>2, WriteType DEF GatedSend
<1>2. ASSUME NEW a \in Agent, NEW m \in box[a].inbox, SupervisorReply(a, m)
      PROVE  TypeOK'
  <2>1. a \in Name /\ m.from \in Name /\ m.id \in Nat
    BY DEF Name, TypeOK, Box, Message
  <2>2. NoLimit \in Limit /\ FALSE \in BOOLEAN
    BY DEF Limit
  <2>3. WriteMessage(a, m.from, m.id, FALSE, NoLimit)
    BY <1>2 DEF SupervisorReply
  <2> QED BY <2>1, <2>2, <2>3, WriteType
<1>3. ASSUME NEW n \in Name, NEW m \in box[n].inbox, ArchiveMessage(n, m)
      PROVE  TypeOK'
  <2>1. box[n] \in Box
    BY DEF TypeOK
  <2>2. n \in live
    BY DEF TypeOK, EmptyBox
  <2>3. box' = [box EXCEPT ![n] = [@ EXCEPT !.inbox = box[n].inbox \ {m},
                                            !.read = box[n].read \cup {m}]]
    BY <1>3 DEF ArchiveMessage, TypeOK
  <2>4. box'[n] \in Box /\ box'[n].facts = box[n].facts
    BY <2>1, <2>3 DEF Box, TypeOK
  <2>5. \A k \in Name \ {n} : box'[k] = box[k]
    BY <2>3 DEF TypeOK
  <2>6. box' \in [Name -> Box]
    BY <2>3, <2>4 DEF TypeOK
  <2>7. UNCHANGED <<container, live, peers, graveyard, edges, lastId>>
    BY <1>3 DEF ArchiveMessage
  <2> QED BY <2>2, <2>4, <2>5, <2>6, <2>7 DEF TypeOK, Name
<1>4. ASSUME NEW a \in Agent, Launch(a) \/ Stop(a)
      PROVE  TypeOK'
  BY <1>4 DEF Launch, Stop, TypeOK
<1>5. ASSUME NEW a \in Agent, NEW named \in PeerChoices, Boot(a, named)
      PROVE  TypeOK'
  <2>1. a \in Name /\ box[a] \in Box /\ named \in [Name -> Limit] /\ a \notin Ticket
    BY MailboxAssumption DEF Name, TypeOK
  <2>2. container' \in [Agent -> {"absent", "down", "up"}] /\ live' \in SUBSET Name
    BY <1>5, <2>1 DEF Boot, TypeOK
  <2>3. box' \in [Name -> Box] /\ peers' \in [Name -> [Name -> Limit]]
    <3>1. CASE HasFacts(a)
      BY <1>5, <3>1 DEF Boot, TypeOK
    <3>2. CASE ~HasFacts(a)
      <4>1. /\ box' = [box EXCEPT ![a] = [box[a] EXCEPT !.facts = TRUE]]
            /\ peers' = [peers EXCEPT ![a] = named]
        BY <1>5, <3>2, <2>1 DEF Boot, TypeOK
      <4>2. [box[a] EXCEPT !.facts = TRUE] \in Box
        BY <2>1 DEF Box
      <4> QED BY <4>1, <4>2, <2>1 DEF TypeOK
    <3> QED BY <3>1, <3>2
  <2>4. \A n \in Name \ {a} : box'[n] = box[n] /\ peers'[n] = peers[n]
    BY <1>5 DEF Boot, TypeOK
  <2> QED BY <1>5, <2>1, <2>2, <2>3, <2>4 DEF Boot, TypeOK, Name
<1>6. ASSUME NEW a \in Agent, Reap(a)
      PROVE  TypeOK'
  <2>1. a \in Name /\ a \notin Ticket /\ box[a] \in Box
    BY MailboxAssumption DEF Name, TypeOK
  <2>2. container' \in [Agent -> {"absent", "down", "up"}]
    BY <1>6 DEF Reap, TypeOK
  <2>3. CASE a \in live
    <3>1. /\ live' = live \ {a}
          /\ graveyard' = [graveyard EXCEPT ![a] = Append(graveyard[a], box[a])]
          /\ box' = [box EXCEPT ![a] = EmptyBox]
          /\ peers' = [peers EXCEPT ![a] = NoPeers]
      BY <1>6, <2>3 DEF Reap, ArchiveMailbox
    <3>2. Append(graveyard[a], box[a]) \in Seq(Box)
      BY <2>1, AppendProperties DEF TypeOK
    <3>3. /\ graveyard' \in [Name -> Seq(Box)]
          /\ box' \in [Name -> Box]
          /\ peers' \in [Name -> [Name -> Limit]]
      BY <3>1, <3>2, EmptyBoxType DEF TypeOK
    <3> QED BY <1>6, <2>1, <2>2, <3>1, <3>3 DEF Reap, TypeOK, Name
  <2>4. CASE a \notin live
    BY <1>6, <2>2, <2>4 DEF Reap, ArchiveMailbox, TypeOK
  <2> QED BY <2>3, <2>4
<1>7. CASE UNCHANGED vars
  BY <1>7 DEF vars, TypeOK
<1> QED BY <1>1, <1>2, <1>3, <1>4, <1>5, <1>6, <1>7 DEF Next

\* Every reachable state is well typed; in particular the transport budgets
\* nothing but pairs of task-agents.
THEOREM TypeCorrect == Spec => []TypeOK
  BY TypeInit, TypeStep, PTL DEF Spec

-----------------------------------------------------------------------------
(* The steps of the system, as far as the ledger and the mailboxes see them.  *)

\* Every way a message is delivered: who may send, and the gate on an ask.
Delivery(frm, to, answers, expects, seed) ==
  /\ CanSend(frm)
  /\ expects => ~AskSpent({frm, to})
  /\ WriteMessage(frm, to, answers, expects, seed)

LEMMA GatedSendDelivers ==
  ASSUME TypeOK, NEW frm \in Name, NEW expects \in BOOLEAN, NEW to \in Name,
         NEW answers \in Known(frm) \cup {NoId}, GatedSend(frm, to, answers, expects)
  PROVE  answers \in Nat /\ DefaultLimit \in Limit
         /\ Delivery(frm, to, answers, expects, DefaultLimit)
<1>1. answers \in Nat
  BY DEF Known, NoId, TypeOK, Box, Message
<1>2. DefaultLimit \in Limit
  BY MailboxAssumption DEF Limit
<1> QED BY <1>1, <1>2 DEF GatedSend, Delivery

LEMMA SupervisorReplyDelivers ==
  ASSUME TypeOK, NEW a \in Agent, NEW m \in box[a].inbox, SupervisorReply(a, m)
  PROVE  /\ a \in Name /\ m.from \in Name /\ m.id \in Nat /\ NoLimit \in Limit
         /\ Delivery(a, m.from, m.id, FALSE, NoLimit)
<1>1. a \in Name /\ m.from \in Name /\ m.id \in Nat /\ NoLimit \in Limit
  BY DEF Name, TypeOK, Box, Message, Limit
<1>2. CanSend(a)
  BY DEF SupervisorReply, CanSend
<1>3. WriteMessage(a, m.from, m.id, FALSE, NoLimit)
  BY DEF SupervisorReply
<1> QED BY <1>1, <1>2, <1>3 DEF Delivery

\* What a mailbox and its archives have sent.
LEMMA SentInHeld ==
  ASSUME NEW b \in Box, NEW q \in Seq(Box)
  PROVE  SentIn(<<b>> \o q) = b.sent \cup SentIn(q)
<1> DEFINE held == <<b>> \o q
<1>1. <<b>> \in Seq(Box) /\ Len(<<b>>) = 1 /\ <<b>>[1] = b
  OBVIOUS
<1>2. /\ held \in Seq(Box)
      /\ Len(held) = 1 + Len(q)
      /\ \A i \in 1..(1 + Len(q)) : held[i] = IF i <= 1 THEN <<b>>[i] ELSE q[i - 1]
  BY <1>1, ConcatProperties
<1>3. DOMAIN held = 1..(1 + Len(q)) /\ DOMAIN q = 1..Len(q) /\ Len(q) \in Nat
  BY <1>2
<1> HIDE DEF held
<1>4. held[1] = b /\ 1 \in DOMAIN held
  BY <1>1, <1>2, <1>3
<1>5. \A i \in DOMAIN q : i + 1 \in DOMAIN held /\ held[i + 1] = q[i]
  BY <1>2, <1>3
<1>6. \A i \in DOMAIN held : i = 1 \/ (i - 1 \in DOMAIN q /\ held[i] = q[i - 1])
  BY <1>2, <1>3
<1>7. SentIn(held) \subseteq b.sent \cup SentIn(q)
  BY <1>4, <1>6 DEF SentIn
<1>8. b.sent \cup SentIn(q) \subseteq SentIn(held)
  BY <1>4, <1>5 DEF SentIn
<1> QED BY <1>7, <1>8 DEF held

LEMMA NoLines == Init => \A n \in Name : Lines(n) = {}
<1> SUFFICES ASSUME Init, NEW n \in Name PROVE Lines(n) = {}
  OBVIOUS
<1>1. <<>> \in Seq(Box) /\ DOMAIN <<>> = {}
  OBVIOUS
<1>2. SentIn(<<>>) = {}
  BY <1>1 DEF SentIn
<1>3. Lines(n) = EmptyBox.sent \cup SentIn(<<>>)
  BY <1>1, EmptyBoxType, SentInHeld DEF Init, Lines, Held
<1> QED BY <1>2, <1>3 DEF EmptyBox

LEMMA SentInAppend ==
  ASSUME NEW b \in Box, NEW q \in Seq(Box)
  PROVE  SentIn(Append(q, b)) = SentIn(q) \cup b.sent
<1> DEFINE more == Append(q, b)
<1>1. /\ more \in Seq(Box)
      /\ Len(more) = Len(q) + 1
      /\ \A i \in 1..Len(q) : more[i] = q[i]
      /\ more[Len(q) + 1] = b
  BY AppendProperties
<1>2. DOMAIN more = 1..(Len(q) + 1) /\ DOMAIN q = 1..Len(q) /\ Len(q) \in Nat
  BY <1>1
<1> HIDE DEF more
<1>3. Len(q) + 1 \in DOMAIN more
  BY <1>2
<1>4. \A i \in DOMAIN q : i \in DOMAIN more /\ more[i] = q[i]
  BY <1>1, <1>2
<1>5. \A i \in DOMAIN more : i = Len(q) + 1 \/ i \in DOMAIN q
  BY <1>2
<1>6. SentIn(more) \subseteq SentIn(q) \cup b.sent
  BY <1>1, <1>4, <1>5 DEF SentIn
<1>7. SentIn(q) \cup b.sent \subseteq SentIn(more)
  BY <1>1, <1>3, <1>4 DEF SentIn
<1> QED BY <1>6, <1>7 DEF more

\* A delivery adds its envelope to the sender's lines and nothing elsewhere.
LEMMA WriteLines ==
  ASSUME TypeOK, NEW frm \in Name, NEW to \in Name, NEW answers \in Nat,
         NEW expects \in BOOLEAN, NEW seed \in Limit,
         WriteMessage(frm, to, answers, expects, seed), NEW n \in Name
  PROVE  Lines(n)' = IF n = frm
                     THEN Lines(n) \cup {Envelope(frm, to, answers, expects)}
                     ELSE Lines(n)
<1>1. /\ box[n] \in Box /\ box'[n] \in Box
      /\ n = frm =>
           box'[n].sent = box[n].sent \cup {Envelope(frm, to, answers, expects)}
      /\ n # frm => box'[n].sent = box[n].sent
  <2>1. box[n] \in Box
    BY DEF TypeOK
  <2>2. /\ box' \in [Name -> Box]
        /\ n = frm =>
             box'[n].sent = box[n].sent \cup {Envelope(frm, to, answers, expects)}
        /\ n # frm => box'[n].sent = box[n].sent
    BY WriteBox
  <2> QED BY <2>1, <2>2
<1>2. graveyard[n] \in Seq(Box) /\ graveyard'[n] = graveyard[n]
  BY DEF WriteMessage, TypeOK
<1>3. Lines(n) = box[n].sent \cup SentIn(graveyard[n])
  BY <1>1, <1>2, SentInHeld DEF Lines, Held
<1>4. Lines(n)' = box'[n].sent \cup SentIn(graveyard[n])
  <2>1. Lines(n)' = SentIn(<<box'[n]>> \o graveyard[n])
    BY <1>2 DEF Lines, Held
  <2> QED BY <1>1, <1>2, <2>1, SentInHeld
<1> QED BY <1>1, <1>3, <1>4

\* A step is a delivery, or it leaves the ledgers and the transcripts alone.
LEMMA Steps ==
  ASSUME TypeOK, [Next]_vars
  PROVE  \/ \E frm \in Name, to \in Name, answers \in Nat, expects \in BOOLEAN,
                 seed \in Limit : Delivery(frm, to, answers, expects, seed)
         \/ UNCHANGED <<edges, lastId>> /\ \A n \in Name : Lines(n)' = Lines(n)
<1> DEFINE Quiet == UNCHANGED <<edges, lastId>> /\ \A n \in Name : Lines(n)' = Lines(n)
<1>1. ASSUME NEW frm \in Name, NEW expects \in BOOLEAN, NEW to \in Name,
             NEW answers \in Known(frm) \cup {NoId},
             GatedSend(frm, to, answers, expects)
      PROVE  answers \in Nat /\ DefaultLimit \in Limit
             /\ Delivery(frm, to, answers, expects, DefaultLimit)
  BY <1>1, GatedSendDelivers
<1>2. ASSUME NEW a \in Agent, NEW m \in box[a].inbox, SupervisorReply(a, m)
      PROVE  /\ a \in Name /\ m.from \in Name /\ m.id \in Nat /\ NoLimit \in Limit
             /\ Delivery(a, m.from, m.id, FALSE, NoLimit)
  BY <1>2, SupervisorReplyDelivers
<1>3. ASSUME UNCHANGED <<edges, lastId, graveyard>>, TypeOK',
             \A n \in Name : box'[n].sent = box[n].sent
      PROVE  Quiet
  <2> SUFFICES ASSUME NEW n \in Name PROVE Lines(n)' = Lines(n)
    BY <1>3
  <2>1. box[n] \in Box /\ box'[n] \in Box /\ graveyard[n] \in Seq(Box)
    BY <1>3 DEF TypeOK
  <2>2. Lines(n) = box[n].sent \cup SentIn(graveyard[n])
    BY <2>1, SentInHeld DEF Lines, Held
  <2>3. Lines(n)' = box'[n].sent \cup SentIn(graveyard[n])
    <3>1. Lines(n)' = SentIn(<<box'[n]>> \o graveyard[n])
      BY <1>3 DEF Lines, Held
    <3> QED BY <2>1, <3>1, SentInHeld
  <2> QED BY <1>3, <2>2, <2>3
<1>4. TypeOK'
  BY TypeStep
<1>5. ASSUME NEW n \in Name, NEW m \in box[n].inbox, ArchiveMessage(n, m)
      PROVE  Quiet
  <2>1. \A k \in Name : box'[k].sent = box[k].sent
    <3>1. box[n] \in Box
      BY DEF TypeOK
    <3>2. box' = [box EXCEPT ![n] = [box[n] EXCEPT !.inbox = @ \ {m},
                                                  !.read = @ \cup {m}]]
      BY <1>5 DEF ArchiveMessage
    <3> QED BY <3>1, <3>2 DEF TypeOK, Box
  <2> QED BY <1>3, <1>4, <1>5, <2>1 DEF ArchiveMessage
<1>6. ASSUME NEW a \in Agent, Launch(a) \/ Stop(a)
      PROVE  Quiet
  BY <1>3, <1>4, <1>6 DEF Launch, Stop
<1>7. ASSUME NEW a \in Agent, NEW named \in PeerChoices, Boot(a, named)
      PROVE  Quiet
  <2>1. \A k \in Name : box'[k].sent = box[k].sent
    <3>1. box[a] \in Box
      BY DEF TypeOK, Name
    <3>2. UNCHANGED box \/ box' = [box EXCEPT ![a] = [box[a] EXCEPT !.facts = TRUE]]
      BY <1>7 DEF Boot
    <3>3. [box[a] EXCEPT !.facts = TRUE].sent = box[a].sent
      BY <3>1 DEF Box
    <3>4. a \in Name /\ box \in [Name -> Box]
      BY DEF TypeOK, Name
    <3> QED BY <3>2, <3>3, <3>4
  <2> QED BY <1>3, <1>4, <1>7, <2>1 DEF Boot
<1>8. ASSUME NEW a \in Agent, Reap(a)
      PROVE  Quiet
  <2>1. a \in Name /\ UNCHANGED <<edges, lastId>>
    BY <1>8 DEF Reap, Name
  <2>2. CASE a \in live
    <3>1. /\ graveyard' = [graveyard EXCEPT ![a] = Append(graveyard[a], box[a])]
          /\ box' = [box EXCEPT ![a] = EmptyBox]
      BY <1>8, <2>2 DEF Reap, ArchiveMailbox
    <3> SUFFICES ASSUME NEW n \in Name PROVE Lines(n)' = Lines(n)
      BY <2>1
    <3>2. /\ box[n] \in Box /\ box'[n] \in Box
          /\ graveyard[n] \in Seq(Box) /\ graveyard'[n] \in Seq(Box)
      BY <1>4 DEF TypeOK
    <3>3. Lines(n) = box[n].sent \cup SentIn(graveyard[n])
      BY <3>2, SentInHeld DEF Lines, Held
    <3>4. Lines(n)' = box'[n].sent \cup SentIn(graveyard'[n])
      <4>1. Lines(n)' = SentIn(<<box'[n]>> \o graveyard'[n])
        BY DEF Lines, Held
      <4> QED BY <3>2, <4>1, SentInHeld
    <3>5. CASE n = a
      <4>1. box'[n].sent = {} /\ graveyard'[n] = Append(graveyard[n], box[n])
        BY <2>1, <3>1, <3>5 DEF TypeOK, EmptyBox
      <4>2. SentIn(graveyard'[n]) = SentIn(graveyard[n]) \cup box[n].sent
        BY <3>2, <4>1, SentInAppend
      <4> QED BY <3>3, <3>4, <4>1, <4>2
    <3>6. CASE n # a
      BY <3>1, <3>3, <3>4, <3>6 DEF TypeOK
    <3> QED BY <3>5, <3>6
  <2>3. CASE a \notin live
    BY <1>3, <1>4, <1>8, <2>3 DEF Reap, ArchiveMailbox
  <2> QED BY <2>2, <2>3
<1>9. CASE UNCHANGED vars
  BY <1>3, <1>4, <1>9 DEF vars
<1> QED
  <2>1. CASE UNCHANGED vars
    BY <1>9, <2>1
  <2>2. CASE Next
    <3> HIDE DEF Quiet
    <3>1. ASSUME NEW frm \in Name, NEW expects \in BOOLEAN, NEW to \in Name \ {frm},
                 NEW answers \in Known(frm) \cup {NoId},
                 GatedSend(frm, to, answers, expects)
          PROVE  answers \in Nat /\ DefaultLimit \in Limit
                 /\ Delivery(frm, to, answers, expects, DefaultLimit)
      BY <1>1, <3>1
    <3>2. CASE \E frm \in Name, expects \in BOOLEAN :
                 \E to \in Name \ {frm}, answers \in Known(frm) \cup {NoId} :
                   GatedSend(frm, to, answers, expects)
      BY <3>1, <3>2
    <3>3. CASE \E a \in Agent : \E m \in box[a].inbox : SupervisorReply(a, m)
      BY <1>2, <3>3
    <3>4. CASE \/ \E n \in Name : \E m \in box[n].inbox : ArchiveMessage(n, m)
               \/ \E a \in Agent : Launch(a) \/ Stop(a) \/ Reap(a)
               \/ \E a \in Agent, named \in PeerChoices : Boot(a, named)
      <4>1. Quiet
        BY <1>5, <1>6, <1>7, <1>8, <3>4
      <4> QED BY <4>1 DEF Quiet
    <3> QED BY <2>2, <3>2, <3>3, <3>4 DEF Next
  <2> QED BY <2>1, <2>2

-----------------------------------------------------------------------------
(* The ask budget. *)

\* AskBudget with what makes it inductive: the open set is finite.
AskInv ==
  /\ AskBudget
  /\ \A e \in Edge : IsFiniteSet(edges[e].open)

\* One message keeps the ask budget of its edge, if the gate let it ask.
LEMMA BumpAsks ==
  ASSUME NEW edge \in EdgeFile, NEW limit \in Limit, NEW id \in Nat,
         NEW answers \in Nat, NEW expects \in BOOLEAN,
         IsFiniteSet(edge.open),
         edge.open = {} <=> edge.asks = 0,
         Cardinality(edge.open) <= edge.asks,
         edge.asks <= AskLimit \/ edge.asks = 1,
         expects => (edge.open = {} \/ edge.asks < AskLimit)
  PROVE  LET after == Bump(edge, limit, id, answers, expects) IN
         /\ IsFiniteSet(after.open)
         /\ after.open = {} <=> after.asks = 0
         /\ Cardinality(after.open) <= after.asks
         /\ after.asks <= AskLimit \/ after.asks = 1
<1> DEFINE kept  == edge.open \ {answers}
           open  == OpenAfter(edge.open, id, answers, expects)
           after == Bump(edge, limit, id, answers, expects)
<1>1. IsFiniteSet(kept) /\ Cardinality(kept) <= Cardinality(edge.open)
  BY FS_Subset
<1>2. Cardinality(edge.open) \in Nat /\ Cardinality(kept) \in Nat /\ edge.asks \in Nat
  BY <1>1, FS_CardinalityType DEF EdgeFile
<1>3. after.open = open /\ after.asks = IF open = {} THEN 0
                                        ELSE edge.asks + (IF expects THEN 1 ELSE 0)
  BY DEF Bump
<1>4. CASE expects
  <2>1. open = kept \cup {id}
    BY <1>4 DEF OpenAfter
  <2>2. /\ IsFiniteSet(kept \cup {id})
        /\ Cardinality(kept \cup {id}) <= Cardinality(kept) + 1
    <3> HIDE DEF kept
    <3>1. /\ IsFiniteSet(kept \cup {id})
          /\ \/ Cardinality(kept \cup {id}) = Cardinality(kept)
             \/ Cardinality(kept \cup {id}) = Cardinality(kept) + 1
      BY <1>1, FS_AddElement
    <3> QED BY <1>2, <3>1
  <2>3. after.asks = edge.asks + 1 /\ open # {}
    BY <1>3, <1>4, <2>1
  <2>4. Cardinality(open) \in Nat
    BY <2>1, <2>2, FS_CardinalityType
  <2>5. edge.asks = 0 \/ edge.asks + 1 <= AskLimit
    BY <1>2, <1>4, MailboxAssumption
  <2> QED BY <1>1, <1>2, <1>3, <2>1, <2>2, <2>3, <2>4, <2>5
<1>5. CASE ~expects
  <2>1. open = kept
    BY <1>5 DEF OpenAfter
  <2>2. CASE kept = {}
    BY <1>1, <1>3, <2>1, <2>2, FS_EmptySet, MailboxAssumption
  <2>3. CASE kept # {}
    <3>1. after.asks = edge.asks
      BY <1>2, <1>3, <1>5, <2>1, <2>3
    <3>2. edge.asks # 0
      BY <2>3
    <3> QED BY <1>1, <1>2, <1>3, <2>1, <2>3, <3>1, <3>2
  <2> QED BY <2>2, <2>3
<1> QED BY <1>4, <1>5

LEMMA AskInit == Init => AskInv
<1>1. IsFiniteSet({}) /\ Cardinality({}) = 0
  BY FS_EmptySet
<1>2. ASSUME Init, NEW e \in Edge
      PROVE  edges[e].open = {} /\ edges[e].asks = 0
  BY <1>2 DEF Init, FreshEdge
<1>3. ASSUME Init, NEW e \in Edge
      PROVE  /\ edges[e].open = {} <=> edges[e].asks = 0
             /\ Cardinality(edges[e].open) <= edges[e].asks
             /\ edges[e].asks <= AskLimit \/ edges[e].asks = 1
             /\ IsFiniteSet(edges[e].open)
  <2>1. edges[e].open = {} /\ edges[e].asks = 0
    BY <1>2, <1>3
  <2>2. Cardinality(edges[e].open) = 0 /\ IsFiniteSet(edges[e].open)
    BY <1>1, <2>1
  <2> QED BY <2>1, <2>2, MailboxAssumption
<1> QED BY <1>3 DEF AskInv, AskBudget

LEMMA AskStep == TypeOK /\ AskInv /\ [Next]_vars => AskInv'
<1> SUFFICES ASSUME TypeOK, AskInv, [Next]_vars
             PROVE  AskInv'
  OBVIOUS
<1>1. ASSUME NEW frm \in Name, NEW to \in Name, NEW answers \in Nat,
             NEW expects \in BOOLEAN, NEW seed \in Limit,
             Delivery(frm, to, answers, expects, seed)
      PROVE  AskInv'
  <2> DEFINE pair == {frm, to}
             limit == IF peers[frm][to] # NoLimit THEN peers[frm][to] ELSE seed
  <2>1. CASE PeerEdge(frm, to)
    <3>1. pair \in Edge
      BY <2>1, PeerEdgeInEdge
    <3>2. edges' = [edges EXCEPT
                      ![pair] = Bump(edges[pair], limit, lastId + 1, answers, expects)]
      BY <1>1, <2>1 DEF Delivery, WriteMessage
    <3>3. edges[pair] \in EdgeFile /\ limit \in Limit /\ lastId + 1 \in Nat
      BY <3>1, MailboxAssumption DEF TypeOK
    <3>4. expects => (edges[pair].open = {} \/ edges[pair].asks < AskLimit)
      <4>1. edges[pair].asks \in Nat
        BY <3>3 DEF EdgeFile
      <4>2. expects => ~(edges[pair].open # {} /\ edges[pair].asks >= AskLimit)
        BY <1>1, <3>1 DEF Delivery, AskSpent
      <4> HIDE DEF pair
      <4> QED BY <4>1, <4>2, MailboxAssumption
    <3>5. LET after == Bump(edges[pair], limit, lastId + 1, answers, expects) IN
          /\ IsFiniteSet(after.open)
          /\ after.open = {} <=> after.asks = 0
          /\ Cardinality(after.open) <= after.asks
          /\ after.asks <= AskLimit \/ after.asks = 1
      <4>1. /\ IsFiniteSet(edges[pair].open)
            /\ edges[pair].open = {} <=> edges[pair].asks = 0
            /\ Cardinality(edges[pair].open) <= edges[pair].asks
            /\ edges[pair].asks <= AskLimit \/ edges[pair].asks = 1
        BY <3>1 DEF AskInv, AskBudget
      <4> HIDE DEF pair, limit
      <4> QED BY <3>3, <3>4, <4>1, BumpAsks
    <3> QED BY <3>1, <3>2, <3>5 DEF AskInv, AskBudget, TypeOK
  <2>2. CASE ~PeerEdge(frm, to)
    <3>1. UNCHANGED edges
      BY <1>1, <2>2 DEF Delivery, WriteMessage
    <3> QED BY <3>1 DEF AskInv, AskBudget
  <2> QED BY <2>1, <2>2
<1>2. CASE UNCHANGED edges
  BY <1>2 DEF AskInv, AskBudget
<1> QED BY <1>1, <1>2, Steps

\* ask_spent bounds every clarification regress: however many agents there are
\* and however their asks, answers and reaps interleave, an edge never
\* accumulates more than AskLimit asks beyond a first one.
THEOREM AsksAreBounded == Spec => []AskBudget
<1>1. Init => TypeOK /\ AskInv
  BY TypeInit, AskInit
<1>2. TypeOK /\ AskInv /\ [Next]_vars => (TypeOK /\ AskInv)'
  BY TypeStep, AskStep
<1>3. AskInv => AskBudget
  BY DEF AskInv
<1> QED BY <1>1, <1>2, <1>3, PTL DEF Spec

-----------------------------------------------------------------------------
(* No message is lost or doubled. *)

\* DeliveredOnce for one message and the mailboxes its recipient's name has had.
Once(m, held) ==
  \E i \in DOMAIN held :
    /\ m \in held[i].inbox <=> m \notin held[i].read
    /\ \A j \in DOMAIN held \ {i} : m \notin held[j].inbox \cup held[j].read

\* A mailbox, live or archived, holds only messages whose ids were given out.
KnownInv ==
  \A n \in Name :
    /\ \A m \in box[n].inbox \cup box[n].read : m.id \in 1..lastId
    /\ \A i \in DOMAIN graveyard[n] :
         \A m \in graveyard[n][i].inbox \cup graveyard[n][i].read : m.id \in 1..lastId

\* DeliveredOnce, for messages whose ids were given out: with KnownInv, the next
\* message is a new one.
DeliveredInv ==
  \A n \in Name : \A m \in Lines(n) :
    m.to \in Name /\ m.id \in 1..lastId /\ Once(m, Held(m.to))

LEMMA HeldShape ==
  ASSUME NEW b \in Box, NEW q \in Seq(Box)
  PROVE  /\ Len(q) \in Nat
         /\ DOMAIN (<<b>> \o q) = 1..(Len(q) + 1)
         /\ (<<b>> \o q)[1] = b
         /\ \A i \in 2..(Len(q) + 1) : (<<b>> \o q)[i] = q[i - 1]
<1> DEFINE held == <<b>> \o q
<1>1. <<b>> \in Seq(Box) /\ Len(<<b>>) = 1 /\ <<b>>[1] = b
  OBVIOUS
<1>2. /\ held \in Seq(Box)
      /\ Len(held) = 1 + Len(q)
      /\ \A i \in 1..(1 + Len(q)) : held[i] = IF i <= 1 THEN <<b>>[i] ELSE q[i - 1]
  BY <1>1, ConcatProperties
<1>3. DOMAIN held = 1..(1 + Len(q)) /\ Len(q) \in Nat
  BY <1>2
<1> HIDE DEF held
<1>4. held[1] = b
  BY <1>1, <1>2, <1>3
<1>5. \A i \in 2..(Len(q) + 1) : held[i] = q[i - 1]
  BY <1>2, <1>3
<1> QED BY <1>3, <1>4, <1>5 DEF held

\* A change of the live mailbox that does not touch m.
LEMMA OnceFrame ==
  ASSUME NEW b \in Box, NEW c \in Box, NEW q \in Seq(Box), NEW m,
         m \in c.inbox <=> m \in b.inbox,
         m \in c.read <=> m \in b.read,
         Once(m, <<b>> \o q)
  PROVE  Once(m, <<c>> \o q)
<1> DEFINE p == <<b>> \o q
           r == <<c>> \o q
<1>1. DOMAIN r = DOMAIN p
  BY HeldShape
<1>2. \A i \in DOMAIN p : /\ m \in r[i].inbox <=> m \in p[i].inbox
                          /\ m \in r[i].read <=> m \in p[i].read
  <2> TAKE i \in DOMAIN p
  <2>1. CASE i = 1
    BY <2>1, HeldShape
  <2>2. CASE i # 1
    <3>1. i \in 2..(Len(q) + 1)
      BY <2>2, HeldShape
    <3> QED BY <3>1, HeldShape
  <2> QED BY <2>1, <2>2
<1>3. Once(m, p)
  OBVIOUS
<1> HIDE DEF p, r
<1>4. Once(m, r)
  BY <1>1, <1>2, <1>3 DEF Once
<1> QED BY <1>4 DEF r

\* A message written into the live inbox that was nowhere before.
LEMMA OnceWritten ==
  ASSUME NEW b \in Box, NEW c \in Box, NEW q \in Seq(Box), NEW m,
         \A i \in DOMAIN (<<b>> \o q) :
           m \notin (<<b>> \o q)[i].inbox \cup (<<b>> \o q)[i].read,
         c.inbox = b.inbox \cup {m}, c.read = b.read
  PROVE  Once(m, <<c>> \o q)
<1> DEFINE p == <<b>> \o q
           r == <<c>> \o q
<1>1. DOMAIN r = 1..(Len(q) + 1) /\ DOMAIN p = 1..(Len(q) + 1) /\ Len(q) \in Nat
  BY HeldShape
<1>2. p[1] = b /\ r[1] = c /\ \A i \in 2..(Len(q) + 1) : r[i] = q[i - 1] /\ p[i] = q[i - 1]
  BY HeldShape
<1>3. \A i \in DOMAIN p : m \notin p[i].inbox \cup p[i].read
  OBVIOUS
<1> HIDE DEF p, r
<1>4. 1 \in DOMAIN r /\ m \in r[1].inbox /\ m \notin r[1].read
  BY <1>1, <1>2, <1>3
<1>5. \A j \in DOMAIN r \ {1} : m \notin r[j].inbox \cup r[j].read
  BY <1>1, <1>2, <1>3
<1>6. Once(m, r)
  BY <1>4, <1>5 DEF Once
<1> QED BY <1>6 DEF r

\* A message moved from the live inbox to read.
LEMMA OnceArchived ==
  ASSUME NEW b \in Box, NEW c \in Box, NEW q \in Seq(Box), NEW m \in b.inbox,
         c.inbox = b.inbox \ {m}, c.read = b.read \cup {m},
         Once(m, <<b>> \o q)
  PROVE  Once(m, <<c>> \o q)
<1> DEFINE p == <<b>> \o q
           r == <<c>> \o q
<1>1. DOMAIN r = 1..(Len(q) + 1) /\ DOMAIN p = 1..(Len(q) + 1) /\ Len(q) \in Nat
  BY HeldShape
<1>2. p[1] = b /\ r[1] = c /\ \A i \in 2..(Len(q) + 1) : r[i] = q[i - 1] /\ p[i] = q[i - 1]
  BY HeldShape
<1>3. Once(m, p)
  OBVIOUS
<1> HIDE DEF p, r
<1>4. 1 \in DOMAIN p /\ 1 \in DOMAIN r
  BY <1>1
<1>5. \A j \in DOMAIN p \ {1} : m \notin p[j].inbox \cup p[j].read
  BY <1>2, <1>3, <1>4 DEF Once
<1>6. \A j \in DOMAIN r \ {1} : m \notin r[j].inbox \cup r[j].read
  BY <1>1, <1>2, <1>5
<1>7. m \notin r[1].inbox /\ m \in r[1].read
  BY <1>2
<1>8. Once(m, r)
  BY <1>4, <1>6, <1>7 DEF Once
<1> QED BY <1>8 DEF r

\* A teardown: the live mailbox becomes the last of the archives.
LEMMA OnceReaped ==
  ASSUME NEW b \in Box, NEW q \in Seq(Box), NEW m, Once(m, <<b>> \o q)
  PROVE  Once(m, <<EmptyBox>> \o Append(q, b))
<1> DEFINE p == <<b>> \o q
           more == Append(q, b)
           r == <<EmptyBox>> \o more
           last == Len(q) + 2
           Moved(i) == IF i = 1 THEN last ELSE i
<1>1. /\ more \in Seq(Box) /\ Len(more) = Len(q) + 1 /\ Len(q) \in Nat
      /\ \A i \in 1..Len(q) : more[i] = q[i]
      /\ more[Len(q) + 1] = b
  BY AppendProperties
<1>2. /\ DOMAIN p = 1..(Len(q) + 1) /\ p[1] = b
      /\ \A i \in 2..(Len(q) + 1) : p[i] = q[i - 1]
  BY HeldShape
<1>3. Once(m, p)
  OBVIOUS
<1> HIDE DEF more, p
<1>4. /\ DOMAIN r = 1..(Len(more) + 1) /\ r[1] = EmptyBox
      /\ \A i \in 2..(Len(more) + 1) : r[i] = more[i - 1]
  BY <1>1, HeldShape, EmptyBoxType
<1> HIDE DEF r
<1>5. /\ DOMAIN r = 1..last /\ r[1] = EmptyBox /\ r[last] = p[1]
      /\ \A i \in 2..(Len(q) + 1) : r[i] = p[i]
  <2>1. DOMAIN r = 1..last /\ r[1] = EmptyBox
    BY <1>1, <1>4
  <2>2. r[last] = more[Len(q) + 1]
    <3>1. last \in 2..(Len(more) + 1) /\ last - 1 = Len(q) + 1
      BY <1>1
    <3> QED BY <1>4, <3>1
  <2>3. ASSUME NEW i \in 2..(Len(q) + 1)
        PROVE  r[i] = p[i]
    <3>1. i \in 2..(Len(more) + 1) /\ i - 1 \in 1..Len(q)
      BY <1>1
    <3>2. r[i] = more[i - 1] /\ more[i - 1] = q[i - 1]
      BY <1>1, <1>4, <3>1
    <3> QED BY <1>2, <3>2
  <2> QED BY <1>1, <1>2, <2>1, <2>2, <2>3
<1>6. PICK i \in DOMAIN p :
        /\ m \in p[i].inbox <=> m \notin p[i].read
        /\ \A j \in DOMAIN p \ {i} : m \notin p[j].inbox \cup p[j].read
  BY <1>3 DEF Once
<1>7. Moved(i) \in DOMAIN r /\ r[Moved(i)] = p[i]
  BY <1>1, <1>2, <1>5
<1>8. ASSUME NEW j \in DOMAIN r \ {Moved(i)}
      PROVE  m \notin r[j].inbox \cup r[j].read
  <2>1. CASE j = 1
    BY <1>5, <2>1 DEF EmptyBox
  <2>2. CASE j = last
    <3>1. i # 1 /\ 1 \in DOMAIN p
      BY <1>1, <1>2, <1>8, <2>2
    <3> QED BY <1>5, <1>6, <2>2, <3>1
  <2>3. CASE j \in 2..(Len(q) + 1)
    <3>1. j \in DOMAIN p \ {i} /\ r[j] = p[j]
      BY <1>1, <1>2, <1>5, <1>8, <2>3
    <3> QED BY <1>6, <3>1
  <2> QED BY <1>1, <1>5, <2>1, <2>2, <2>3
<1> HIDE DEF Moved
<1>9. Once(m, r)
  BY <1>6, <1>7, <1>8 DEF Once
<1> QED BY <1>9 DEF r, more

\* A mailbox gains a message only from a delivery, and then the new one.
LEMMA KnownStep == TypeOK /\ KnownInv /\ [Next]_vars => KnownInv'
<1> SUFFICES ASSUME TypeOK, KnownInv, [Next]_vars
             PROVE  KnownInv'
  OBVIOUS
<1>0. lastId \in Nat
  BY MailboxAssumption DEF TypeOK
<1>1. ASSUME lastId' = lastId \/ lastId' = lastId + 1, UNCHANGED graveyard,
             \A n \in Name : \A m \in box'[n].inbox \cup box'[n].read :
               \/ m \in box[n].inbox \cup box[n].read
               \/ m.id = lastId' /\ lastId' = lastId + 1
      PROVE  KnownInv'
  <2>0. 1..lastId \subseteq 1..lastId'
    BY <1>0, <1>1
  <2> SUFFICES ASSUME NEW n \in Name, NEW m \in box'[n].inbox \cup box'[n].read
               PROVE  m.id \in 1..lastId'
    BY <1>1, <2>0 DEF KnownInv
  <2>1. CASE m \in box[n].inbox \cup box[n].read
    <3>1. m.id \in 1..lastId
      BY <2>1 DEF KnownInv
    <3> QED BY <1>0, <1>1, <3>1
  <2>2. CASE m.id = lastId' /\ lastId' = lastId + 1
    BY <1>0, <2>2
  <2> QED BY <1>1, <2>1, <2>2
<1>2. ASSUME NEW frm \in Name, NEW to \in Name, NEW answers \in Nat,
             NEW expects \in BOOLEAN, NEW seed \in Limit,
             Delivery(frm, to, answers, expects, seed)
      PROVE  KnownInv'
  <2>1. lastId' = lastId + 1
    BY <1>2 DEF Delivery, WriteMessage
  <2>6. UNCHANGED graveyard
    BY <1>2 DEF Delivery, WriteMessage
  <2>2. PICK msg : msg = Envelope(frm, to, answers, expects)
    OBVIOUS
  <2>3. msg.id = lastId + 1
    BY <2>2 DEF Envelope
  <2>4. box' = [n \in Name |->
                  [box[n] EXCEPT
                     !.inbox = IF n = to THEN @ \cup {msg} ELSE @,
                     !.sent  = IF n = frm THEN @ \cup {msg} ELSE @]]
    BY <1>2, <2>2 DEF Delivery, WriteMessage, Envelope
  <2>5. \A n \in Name : /\ box'[n].inbox \subseteq box[n].inbox \cup {msg}
                        /\ box'[n].read = box[n].read
    <3> TAKE n \in Name
    <3>1. box[n] \in Box
      BY DEF TypeOK
    <3> QED BY <2>4, <3>1 DEF Box
  <2> QED BY <1>1, <2>1, <2>6, <2>3, <2>5
<1>3. ASSUME NEW n \in Name, NEW m \in box[n].inbox, ArchiveMessage(n, m)
      PROVE  KnownInv'
  <2>1. box[n] \in Box
    BY DEF TypeOK
  <2>2. box' = [box EXCEPT ![n] = [box[n] EXCEPT !.inbox = @ \ {m},
                                                !.read = @ \cup {m}]]
    BY <1>3 DEF ArchiveMessage
  <2>3. \A k \in Name : box'[k].inbox \cup box'[k].read = box[k].inbox \cup box[k].read
    BY <2>1, <2>2 DEF TypeOK, Box
  <2> QED BY <1>1, <1>3, <2>3 DEF ArchiveMessage
<1>4. ASSUME NEW a \in Agent, Launch(a) \/ Stop(a)
      PROVE  KnownInv'
  BY <1>1, <1>4 DEF Launch, Stop
<1>5. ASSUME NEW a \in Agent, NEW named \in PeerChoices, Boot(a, named)
      PROVE  KnownInv'
  <2>1. a \in Name /\ box[a] \in Box
    BY DEF Name, TypeOK
  <2>2. UNCHANGED box \/ box' = [box EXCEPT ![a] = [box[a] EXCEPT !.facts = TRUE]]
    BY <1>5 DEF Boot
  <2>3. \A k \in Name : box'[k].inbox = box[k].inbox /\ box'[k].read = box[k].read
    <3>1. LET with == [box[a] EXCEPT !.facts = TRUE] IN
          with.inbox = box[a].inbox /\ with.read = box[a].read
      BY <2>1 DEF Box
    <3>2. box \in [Name -> Box]
      BY DEF TypeOK
    <3> QED BY <2>1, <2>2, <3>1, <3>2
  <2> QED BY <1>1, <1>5, <2>3 DEF Boot
<1>6. ASSUME NEW a \in Agent, Reap(a)
      PROVE  KnownInv'
  <2>1. CASE a \notin live
    BY <1>1, <1>6, <2>1 DEF Reap, ArchiveMailbox
  <2>2. CASE a \in live
    <3>1. /\ graveyard' = [graveyard EXCEPT ![a] = Append(graveyard[a], box[a])]
          /\ box' = [box EXCEPT ![a] = EmptyBox]
          /\ lastId' = lastId
      BY <1>6, <2>2 DEF Reap, ArchiveMailbox
    <3>2. a \in Name /\ box[a] \in Box /\ graveyard[a] \in Seq(Box)
      BY DEF Name, TypeOK
    <3>3. \A k \in Name \ {a} : box'[k] = box[k] /\ graveyard'[k] = graveyard[k]
      BY <3>1 DEF TypeOK
    <3>4. box'[a] = EmptyBox /\ graveyard'[a] = Append(graveyard[a], box[a])
      BY <3>1, <3>2 DEF TypeOK
    <3>5. \A i \in DOMAIN Append(graveyard[a], box[a]) :
            LET b == Append(graveyard[a], box[a])[i] IN
            b = box[a] \/ (i \in DOMAIN graveyard[a] /\ b = graveyard[a][i])
      BY <3>2, AppendProperties
    <3>6. /\ \A m \in box[a].inbox \cup box[a].read : m.id \in 1..lastId
          /\ \A i \in DOMAIN graveyard[a] :
               \A m \in graveyard[a][i].inbox \cup graveyard[a][i].read :
                 m.id \in 1..lastId
      BY <3>2 DEF KnownInv
    <3>7. \A i \in DOMAIN graveyard'[a] :
            \A m \in graveyard'[a][i].inbox \cup graveyard'[a][i].read :
              m.id \in 1..lastId
      BY <3>4, <3>5, <3>6
    <3>8. box'[a].inbox \cup box'[a].read = {}
      BY <3>4 DEF EmptyBox
    <3> SUFFICES ASSUME NEW n \in Name
                 PROVE  /\ \A m \in box'[n].inbox \cup box'[n].read :
                             m.id \in 1..lastId
                        /\ \A i \in DOMAIN graveyard'[n] :
                             \A m \in graveyard'[n][i].inbox \cup graveyard'[n][i].read :
                               m.id \in 1..lastId
      BY <3>1 DEF KnownInv
    <3> QED BY <3>3, <3>7, <3>8 DEF KnownInv
  <2> QED BY <2>1, <2>2
<1>7. CASE UNCHANGED vars
  BY <1>1, <1>7 DEF vars
<1> QED
  BY <1>2, <1>3, <1>4, <1>5, <1>6, <1>7, GatedSendDelivers, SupervisorReplyDelivers
     DEF Next

LEMMA DeliveredInit == Init => KnownInv /\ DeliveredInv
<1> SUFFICES ASSUME Init PROVE KnownInv /\ DeliveredInv
  OBVIOUS
<1>1. \A n \in Name : Lines(n) = {}
  BY NoLines
<1>2. KnownInv
  <2>1. \A n \in Name : box[n] = EmptyBox /\ graveyard[n] = <<>>
    BY DEF Init
  <2>2. DOMAIN <<>> = {}
    OBVIOUS
  <2> QED BY <2>1, <2>2 DEF EmptyBox, KnownInv
<1> QED BY <1>1, <1>2 DEF DeliveredInv

\* Nothing was sent and only mailboxes were rearranged: it is enough that every
\* name's mailboxes still hold each message once.
LEMMA DeliveredKept ==
  ASSUME DeliveredInv, UNCHANGED lastId, \A n \in Name : Lines(n)' = Lines(n),
         \A n \in Name : \A m : Once(m, Held(n)) => Once(m, Held(n)')
  PROVE  DeliveredInv'
<1> SUFFICES ASSUME NEW n \in Name, NEW m \in Lines(n)'
             PROVE  m.to \in Name /\ m.id \in 1..lastId' /\ Once(m, Held(m.to)')
  BY DEF DeliveredInv
<1>1. m \in Lines(n)
  OBVIOUS
<1>2. m.to \in Name /\ m.id \in 1..lastId /\ Once(m, Held(m.to))
  BY <1>1 DEF DeliveredInv
<1> QED BY <1>2

LEMMA DeliveredStep == TypeOK /\ KnownInv /\ DeliveredInv /\ [Next]_vars => DeliveredInv'
<1> SUFFICES ASSUME TypeOK, KnownInv, DeliveredInv, [Next]_vars
             PROVE  DeliveredInv'
  OBVIOUS
<1>0. lastId \in Nat
  BY MailboxAssumption DEF TypeOK
<1>1. /\ \A n \in Name : /\ box[n] \in Box /\ box'[n] \in Box
                         /\ graveyard[n] \in Seq(Box) /\ graveyard'[n] \in Seq(Box)
      /\ \A n : Held(n) = <<box[n]>> \o graveyard[n]
      /\ \A n : Held(n)' = <<box'[n]>> \o graveyard'[n]
  BY TypeStep DEF TypeOK, Held
<1>2. ASSUME NEW frm \in Name, NEW to \in Name, NEW answers \in Nat,
             NEW expects \in BOOLEAN, NEW seed \in Limit,
             Delivery(frm, to, answers, expects, seed)
      PROVE  DeliveredInv'
  <2>1. PICK msg : msg = Envelope(frm, to, answers, expects)
    OBVIOUS
  <2>2. msg.id = lastId + 1 /\ msg.to = to
    BY <2>1 DEF Envelope
  <2>3. lastId' = lastId + 1 /\ UNCHANGED graveyard
    BY <1>2 DEF Delivery, WriteMessage
  <2>4. \A n \in Name : Lines(n)' \subseteq Lines(n) \cup {msg}
    BY <1>2, <2>1, WriteLines DEF Delivery
  <2>5. \A n \in Name : /\ box'[n].inbox = IF n = to THEN box[n].inbox \cup {msg}
                                          ELSE box[n].inbox
                        /\ box'[n].read = box[n].read
    <3>1. box' = [n \in Name |->
                    [box[n] EXCEPT
                       !.inbox = IF n = to THEN @ \cup {msg} ELSE @,
                       !.sent  = IF n = frm THEN @ \cup {msg} ELSE @]]
      BY <1>2, <2>1 DEF Delivery, WriteMessage, Envelope
    <3> TAKE n \in Name
    <3>2. box[n] \in Box
      BY DEF TypeOK
    <3> QED BY <3>1, <3>2 DEF Box
  <2>6. Once(msg, Held(to)')
    <3>1. \A i \in DOMAIN Held(to) : msg \notin Held(to)[i].inbox \cup Held(to)[i].read
      <4> TAKE i \in DOMAIN Held(to)
      <4>1. msg.id \notin 1..lastId
        BY <1>0, <2>2
      <4>2. /\ DOMAIN Held(to) = 1..(Len(graveyard[to]) + 1) /\ Held(to)[1] = box[to]
            /\ \A k \in 2..(Len(graveyard[to]) + 1) :
                 Held(to)[k] = graveyard[to][k - 1] /\ k - 1 \in DOMAIN graveyard[to]
        <5>1. DOMAIN graveyard[to] = 1..Len(graveyard[to])
          BY <1>1
        <5>2. /\ Len(graveyard[to]) \in Nat
              /\ DOMAIN Held(to) = 1..(Len(graveyard[to]) + 1) /\ Held(to)[1] = box[to]
              /\ \A k \in 2..(Len(graveyard[to]) + 1) :
                   Held(to)[k] = graveyard[to][k - 1]
          BY <1>1, HeldShape
        <5> QED BY <5>1, <5>2
      <4>3. CASE i = 1
        BY <4>1, <4>2, <4>3 DEF KnownInv
      <4>4. CASE i \in 2..(Len(graveyard[to]) + 1)
        <5>1. i - 1 \in DOMAIN graveyard[to] /\ Held(to)[i] = graveyard[to][i - 1]
          BY <4>2, <4>4
        <5> QED BY <4>1, <5>1 DEF KnownInv
      <4> QED BY <4>2, <4>3, <4>4
    <3>2. \A i \in DOMAIN (<<box[to]>> \o graveyard[to]) :
            msg \notin (<<box[to]>> \o graveyard[to])[i].inbox
                      \cup (<<box[to]>> \o graveyard[to])[i].read
      BY <1>1, <3>1
    <3>3. Once(msg, <<box'[to]>> \o graveyard[to])
      BY <1>1, <2>5, <3>2, OnceWritten
    <3> QED BY <1>1, <2>3, <3>3
  <2>7. ASSUME NEW n \in Name, NEW m, m.id \in 1..lastId, Once(m, Held(n))
        PROVE  Once(m, Held(n)')
    <3>1. m # msg
      BY <1>0, <2>2, <2>7
    <3>2. /\ m \in box'[n].inbox <=> m \in box[n].inbox
          /\ m \in box'[n].read <=> m \in box[n].read
      BY <2>5, <3>1
    <3>3. Once(m, <<box[n]>> \o graveyard[n])
      BY <1>1, <2>7
    <3>4. Once(m, <<box'[n]>> \o graveyard[n])
      BY <1>1, <3>2, <3>3, OnceFrame
    <3> QED BY <1>1, <2>3, <3>4
  <2>8. ASSUME NEW n \in Name, NEW m \in Lines(n)'
        PROVE  m.to \in Name /\ m.id \in 1..lastId' /\ Once(m, Held(m.to)')
    <3>1. CASE m = msg
      BY <1>0, <2>2, <2>3, <2>6, <3>1
    <3>2. CASE m \in Lines(n)
      <4>1. m.to \in Name /\ m.id \in 1..lastId /\ Once(m, Held(m.to))
        BY <3>2 DEF DeliveredInv
      <4>2. Once(m, Held(m.to)')
        BY <2>7, <4>1
      <4> QED BY <1>0, <2>3, <4>1, <4>2
    <3> QED BY <2>4, <3>1, <3>2
  <2> QED BY <2>8 DEF DeliveredInv
<1>3. ASSUME UNCHANGED lastId
      PROVE  \A n \in Name : Lines(n)' = Lines(n)
  <2>1. ASSUME NEW frm \in Name, NEW to \in Name, NEW answers \in Nat,
               NEW expects \in BOOLEAN, NEW seed \in Limit,
               Delivery(frm, to, answers, expects, seed)
        PROVE  FALSE
    <3>1. lastId' = lastId + 1
      BY <2>1 DEF Delivery, WriteMessage
    <3> QED BY <1>0, <1>3, <3>1
  <2> QED BY <2>1, Steps
<1>4. ASSUME UNCHANGED <<lastId, graveyard>>,
             \A n \in Name : box'[n].inbox = box[n].inbox /\ box'[n].read = box[n].read
      PROVE  DeliveredInv'
  <2>1. ASSUME NEW n \in Name, NEW m, Once(m, Held(n))
        PROVE  Once(m, Held(n)')
    <3>1. Once(m, <<box[n]>> \o graveyard[n])
      BY <1>1, <2>1
    <3>2. Once(m, <<box'[n]>> \o graveyard[n])
      BY <1>1, <1>4, <3>1, OnceFrame
    <3> QED BY <1>1, <1>4, <3>2
  <2> QED BY <1>3, <1>4, <2>1, DeliveredKept
<1>5. ASSUME NEW n \in Name, NEW m \in box[n].inbox, ArchiveMessage(n, m)
      PROVE  DeliveredInv'
  <2>1. UNCHANGED <<lastId, graveyard>>
    BY <1>5 DEF ArchiveMessage
  <2>2. /\ box'[n].inbox = box[n].inbox \ {m} /\ box'[n].read = box[n].read \cup {m}
        /\ \A k \in Name \ {n} : box'[k] = box[k]
    <3>1. box' = [box EXCEPT ![n] = [box[n] EXCEPT !.inbox = @ \ {m},
                                                  !.read = @ \cup {m}]]
      BY <1>5 DEF ArchiveMessage
    <3> QED BY <1>1, <3>1 DEF TypeOK, Box
  <2>3. ASSUME NEW k \in Name, NEW x, Once(x, Held(k))
        PROVE  Once(x, Held(k)')
    <3>1. Once(x, <<box[k]>> \o graveyard[k])
      BY <1>1, <2>3
    <3>2. CASE k = n /\ x = m
      <4>1. Once(m, <<box'[n]>> \o graveyard[n])
        BY <1>1, <2>2, <3>1, <3>2, OnceArchived
      <4> QED BY <1>1, <2>1, <3>2, <4>1
    <3>3. CASE ~(k = n /\ x = m)
      <4>1. /\ x \in box'[k].inbox <=> x \in box[k].inbox
            /\ x \in box'[k].read <=> x \in box[k].read
        BY <2>2, <3>3
      <4>2. Once(x, <<box'[k]>> \o graveyard[k])
        BY <1>1, <3>1, <4>1, OnceFrame
      <4> QED BY <1>1, <2>1, <4>2
    <3> QED BY <3>2, <3>3
  <2> QED BY <1>3, <2>1, <2>3, DeliveredKept
<1>6. ASSUME NEW a \in Agent, Launch(a) \/ Stop(a)
      PROVE  DeliveredInv'
  BY <1>4, <1>6 DEF Launch, Stop
<1>7. ASSUME NEW a \in Agent, NEW named \in PeerChoices, Boot(a, named)
      PROVE  DeliveredInv'
  <2>1. UNCHANGED box \/ box' = [box EXCEPT ![a] = [box[a] EXCEPT !.facts = TRUE]]
    BY <1>7 DEF Boot
  <2>2. LET with == [box[a] EXCEPT !.facts = TRUE] IN
        with.inbox = box[a].inbox /\ with.read = box[a].read
    <3>1. box[a] \in Box
      BY <1>1 DEF Name
    <3> QED BY <3>1 DEF Box
  <2>3. box \in [Name -> Box] /\ a \in Name
    BY DEF TypeOK, Name
  <2>4. \A k \in Name : box'[k].inbox = box[k].inbox /\ box'[k].read = box[k].read
    BY <2>1, <2>2, <2>3
  <2> QED BY <1>4, <1>7, <2>4 DEF Boot
<1>8. ASSUME NEW a \in Agent, Reap(a)
      PROVE  DeliveredInv'
  <2>1. a \in Name /\ UNCHANGED lastId
    BY <1>8 DEF Name, Reap
  <2>2. CASE a \notin live
    BY <1>4, <1>8, <2>2 DEF Reap, ArchiveMailbox
  <2>3. CASE a \in live
    <3>1. /\ box'[a] = EmptyBox /\ graveyard'[a] = Append(graveyard[a], box[a])
          /\ \A k \in Name \ {a} : box'[k] = box[k] /\ graveyard'[k] = graveyard[k]
      BY <1>8, <2>1, <2>3 DEF Reap, ArchiveMailbox, TypeOK
    <3>2. ASSUME NEW k \in Name, NEW x, Once(x, Held(k))
          PROVE  Once(x, Held(k)')
      <4>1. Once(x, <<box[k]>> \o graveyard[k])
        BY <1>1, <3>2
      <4>2. CASE k = a
        <5>1. Once(x, <<EmptyBox>> \o Append(graveyard[a], box[a]))
          BY <1>1, <4>1, <4>2, OnceReaped
        <5> QED BY <1>1, <3>1, <4>2, <5>1
      <4>3. CASE k # a
        BY <1>1, <3>1, <4>1, <4>3
      <4> QED BY <4>2, <4>3
    <3> QED BY <1>3, <2>1, <3>2, DeliveredKept
  <2> QED BY <2>2, <2>3
<1>9. CASE UNCHANGED vars
  BY <1>4, <1>9 DEF vars
<1> QED
  BY <1>2, <1>5, <1>6, <1>7, <1>8, <1>9, GatedSendDelivers, SupervisorReplyDelivers
     DEF Next

\* However sends, reads, teardowns and the reuse of a name interleave, a sent
\* message lies in one of its recipient's mailboxes, once.
THEOREM NoneLostNoneDoubled == Spec => []DeliveredOnce
<1>1. DeliveredInv => DeliveredOnce
  BY DEF DeliveredInv, DeliveredOnce, Traffic, Once
<1> QED
  BY <1>1, TypeInit, TypeStep, DeliveredInit, KnownStep, DeliveredStep, PTL DEF Spec

-----------------------------------------------------------------------------
(***************************************************************************)
(* The hop budget of an edge: the counter file agrees with the transcripts, *)
(* a spent edge is silent, and the transport implements EdgeBudget.         *)
(***************************************************************************)

-----------------------------------------------------------------------------
(* Who has spawn facts. *)

\* A running supervisor's agent has facts; so has each end of an edge that was
\* given a limit, or it has been torn down.
FactsInv ==
  /\ \A a \in Agent : container[a] = "up" => HasFacts(a)
  /\ \A e \in Edge : edges[e].limit # NoLimit =>
       \A n \in e : HasFacts(n) \/ Reaped(n)

\* Both ends of a budgeted delivery have facts, once the teardown check passed.
LEMMA PeersHaveFacts ==
  ASSUME NEW frm, NEW to, PeerEdge(frm, to), ~Reaped(to)
  PROVE  HasFacts(frm) /\ HasFacts(to)
  BY DEF PeerEdge, HasFactsResolved, HasFacts, Reaped

LEMMA FactsInit == Init => FactsInv
  BY DEF Init, FactsInv, FreshEdge

\* A delivery leaves every mailbox's facts as they are, and creates none that
\* was torn down.
LEMMA WriteFacts ==
  ASSUME TypeOK, FactsInv, NEW frm \in Name, NEW to \in Name, NEW answers \in Nat,
         NEW expects \in BOOLEAN, NEW seed \in Limit,
         Delivery(frm, to, answers, expects, seed), NEW n \in Name
  PROVE  /\ HasFacts(n) => HasFacts(n)'
         /\ Reaped(n) => n \in Ticket \/ Reaped(n)'
<1>1. WriteMessage(frm, to, answers, expects, seed) /\ CanSend(frm)
  BY DEF Delivery
<1>2. /\ live' = live \cup {frm, to} /\ graveyard' = graveyard
      /\ box'[n].facts = box[n].facts /\ ~Reaped(to)
  <2>1. box'[n].facts = box[n].facts
    BY <1>1, WriteBox
  <2> QED BY <1>1, <2>1 DEF WriteMessage
<1>3. frm \in Agent => HasFacts(frm)
  BY <1>1, MailboxAssumption DEF CanSend, FactsInv
<1>4. frm \in Agent \/ frm \in Ticket
  BY DEF Name
<1>5. HasFacts(n) => HasFacts(n)'
  BY <1>2 DEF HasFacts
<1>6. Reaped(n) => n # to /\ (n = frm => n \in Ticket)
  BY <1>2, <1>3, <1>4 DEF HasFacts, Reaped
<1> QED BY <1>2, <1>5, <1>6 DEF Reaped

LEMMA FactsStep == TypeOK /\ FactsInv /\ [Next]_vars => FactsInv'
<1> SUFFICES ASSUME TypeOK, FactsInv, [Next]_vars
             PROVE  FactsInv'
  OBVIOUS
<1>1. ASSUME NEW frm \in Name, NEW to \in Name, NEW answers \in Nat,
             NEW expects \in BOOLEAN, NEW seed \in Limit,
             Delivery(frm, to, answers, expects, seed)
      PROVE  FactsInv'
  <2>1. UNCHANGED container
    BY <1>1 DEF Delivery, WriteMessage
  <2>2. \A n \in Name : /\ HasFacts(n) => HasFacts(n)'
                        /\ Reaped(n) => n \in Ticket \/ Reaped(n)'
    BY <1>1, WriteFacts
  <2>3. ASSUME NEW e \in Edge, edges[e].limit # NoLimit, NEW n \in e
        PROVE  HasFacts(n)' \/ Reaped(n)'
    <3>1. n \in Agent /\ n \in Name /\ n \notin Ticket
      BY MailboxAssumption DEF Edge, Name
    <3> QED BY <2>2, <2>3, <3>1 DEF FactsInv
  <2>4. ASSUME NEW e \in Edge, edges'[e].limit # NoLimit, edges[e].limit = NoLimit,
               NEW n \in e
        PROVE  HasFacts(n)'
    <3>1. PeerEdge(frm, to) /\ e = {frm, to}
      BY <1>1, <2>4 DEF Delivery, WriteMessage, TypeOK
    <3>2. HasFacts(frm) /\ HasFacts(to)
      BY <1>1, <3>1, PeersHaveFacts DEF Delivery, WriteMessage
    <3> QED BY <2>2, <3>1, <3>2
  <2>5. \A a \in Agent : container'[a] = "up" => HasFacts(a)'
    BY <2>1, <2>2 DEF FactsInv, Name
  <2> QED BY <2>3, <2>4, <2>5 DEF FactsInv
<1>2. ASSUME NEW frm \in Name, NEW expects \in BOOLEAN, NEW to \in Name,
             NEW answers \in Known(frm) \cup {NoId},
             GatedSend(frm, to, answers, expects)
      PROVE  FactsInv'
  BY <1>1, <1>2, GatedSendDelivers
<1>3. ASSUME NEW a \in Agent, NEW m \in box[a].inbox, SupervisorReply(a, m)
      PROVE  FactsInv'
  BY <1>1, <1>3, SupervisorReplyDelivers
<1>4. ASSUME UNCHANGED <<edges, live, graveyard>>,
             \A n \in Name : box'[n].facts = box[n].facts,
             \A a \in Agent : container'[a] = "up" => container[a] = "up"
      PROVE  FactsInv'
  <2>1. \A n \in Name : HasFacts(n)' = HasFacts(n) /\ Reaped(n)' = Reaped(n)
    BY <1>4 DEF HasFacts, Reaped
  <2>2. \A a \in Agent : a \in Name
    BY DEF Name
  <2>3. \A e \in Edge : \A n \in e : n \in Name
    BY DEF Edge, Name
  <2> QED BY <1>4, <2>1, <2>2, <2>3 DEF FactsInv
<1>5. ASSUME NEW n \in Name, NEW m \in box[n].inbox, ArchiveMessage(n, m)
      PROVE  FactsInv'
  <2>1. box[n] \in Box /\ box \in [Name -> Box]
    BY DEF TypeOK
  <2>2. box' = [box EXCEPT ![n] = [box[n] EXCEPT !.inbox = @ \ {m},
                                                !.read = @ \cup {m}]]
    BY <1>5 DEF ArchiveMessage
  <2>3. \A k \in Name : box'[k].facts = box[k].facts
    BY <2>1, <2>2 DEF Box
  <2> QED BY <1>4, <1>5, <2>3 DEF ArchiveMessage
<1>6. ASSUME NEW a \in Agent, Launch(a) \/ Stop(a)
      PROVE  FactsInv'
  BY <1>4, <1>6 DEF Launch, Stop, TypeOK
<1>7. ASSUME NEW a \in Agent, NEW named \in PeerChoices, Boot(a, named)
      PROVE  FactsInv'
  <2>1. /\ a \in Name /\ live' = live \cup {a} /\ UNCHANGED <<graveyard, edges>>
        /\ container' = [container EXCEPT ![a] = "up"]
    BY <1>7 DEF Boot, Name
  <2>2. HasFacts(a)'
    BY <1>7, <2>1 DEF Boot, HasFacts, TypeOK, Box
  <2>3. \A n \in Name \ {a} : HasFacts(n)' = HasFacts(n) /\ Reaped(n)' = Reaped(n)
    BY <1>7, <2>1 DEF Boot, HasFacts, Reaped, TypeOK
  <2>4. \A k \in Agent : k \in Name
    BY DEF Name
  <2>5. \A e \in Edge : \A n \in e : n \in Name
    BY DEF Edge, Name
  <2>6. \A k \in Agent : container'[k] = "up" => HasFacts(k)'
    BY <2>1, <2>2, <2>3, <2>4 DEF FactsInv, TypeOK
  <2> QED BY <2>1, <2>2, <2>3, <2>5, <2>6 DEF FactsInv
<1>8. ASSUME NEW a \in Agent, Reap(a)
      PROVE  FactsInv'
  <2>1. /\ a \in Name /\ UNCHANGED edges
        /\ container' = [container EXCEPT ![a] = "absent"]
    BY <1>8 DEF Reap, Name
  <2>2. \A k \in Agent : k \in Name
    BY DEF Name
  <2>3. \A e \in Edge : \A n \in e : n \in Name
    BY DEF Edge, Name
  <2>4. CASE a \in live
    <3>1. /\ live' = live \ {a}
          /\ graveyard' = [graveyard EXCEPT ![a] = Append(graveyard[a], box[a])]
          /\ box' = [box EXCEPT ![a] = EmptyBox]
      BY <1>8, <2>4 DEF Reap, ArchiveMailbox
    <3>2. Append(graveyard[a], box[a]) # <<>>
      <4>1. graveyard[a] \in Seq(Box) /\ box[a] \in Box
        BY <2>1 DEF TypeOK
      <4> QED BY <4>1, AppendProperties
    <3>3. Reaped(a)'
      BY <2>1, <3>1, <3>2 DEF Reaped, TypeOK
    <3>4. \A n \in Name \ {a} : HasFacts(n)' = HasFacts(n) /\ Reaped(n)' = Reaped(n)
      BY <3>1 DEF HasFacts, Reaped, TypeOK
    <3>5. \A k \in Agent : container'[k] = "up" => HasFacts(k)'
      BY <2>1, <2>2, <3>4 DEF FactsInv, TypeOK
    <3> QED BY <2>1, <2>3, <3>3, <3>4, <3>5 DEF FactsInv
  <2>5. CASE a \notin live
    BY <1>4, <1>8, <2>1, <2>5 DEF Reap, ArchiveMailbox, TypeOK
  <2> QED BY <2>4, <2>5
<1>9. CASE UNCHANGED vars
  BY <1>4, <1>9 DEF vars
<1> QED
  BY <1>2, <1>3, <1>5, <1>6, <1>7, <1>8, <1>9 DEF Next

-----------------------------------------------------------------------------
(* What crosses an edge. *)

\* A delivery adds its envelope to the traffic of its own pair only.
LEMMA DeliveryCrosses ==
  ASSUME TypeOK, NEW frm \in Name, NEW to \in Name, NEW answers \in Nat,
         NEW expects \in BOOLEAN, NEW seed \in Limit,
         Delivery(frm, to, answers, expects, seed), NEW e \in Edge
  PROVE  /\ e = {frm, to} =>
              Crossed(e)' = Crossed(e) \cup {Envelope(frm, to, answers, expects)}
         /\ e # {frm, to} => Crossed(e)' = Crossed(e)
<1> DEFINE msg == Envelope(frm, to, answers, expects)
<1>1. \A n \in e : n \in Name
  BY DEF Edge, Name
<1>2. WriteMessage(frm, to, answers, expects, seed)
  BY DEF Delivery
<1>3. \A n \in Name : Lines(n)' = IF n = frm THEN Lines(n) \cup {msg} ELSE Lines(n)
  BY <1>2, WriteLines
<1>4. msg.from = frm /\ msg.to = to
  BY DEF Envelope
<1> HIDE DEF msg
<1>5. \A m : m \in Crossed(e) <=> (\E n \in e : m \in Lines(n)) /\ {m.from, m.to} = e
  BY DEF Crossed
<1>6. \A m : m \in Crossed(e)' <=> (\E n \in e : m \in Lines(n)') /\ {m.from, m.to} = e
  BY DEF Crossed
<1>7. CASE e = {frm, to}
  <2>1. frm \in e /\ {msg.from, msg.to} = e
    BY <1>4, <1>7
  <2>2. \A m : (\E n \in e : m \in Lines(n)') <=> (\E n \in e : m \in Lines(n)) \/ m = msg
    BY <1>1, <1>3, <2>1
  <2>3. \A m : m \in Crossed(e)' <=> m \in Crossed(e) \/ m = msg
    BY <1>5, <1>6, <2>1, <2>2
  <2>4. Crossed(e)' = Crossed(e) \cup {msg}
    BY <2>3
  <2> QED BY <1>7, <2>4 DEF msg
<1>8. CASE e # {frm, to}
  <2>1. {msg.from, msg.to} # e
    BY <1>4, <1>8
  <2>2. \A m : /\ (\E n \in e : m \in Lines(n)) => (\E n \in e : m \in Lines(n)')
               /\ (\E n \in e : m \in Lines(n)') => (\E n \in e : m \in Lines(n)) \/ m = msg
    BY <1>1, <1>3
  <2>3. \A m : m \in Crossed(e)' <=> m \in Crossed(e)
    BY <1>5, <1>6, <2>1, <2>2
  <2>4. Crossed(e)' = Crossed(e)
    BY <2>3
  <2> QED BY <1>8, <2>4
<1> QED BY <1>7, <1>8 DEF msg

\* Nothing else adds traffic.
LEMMA QuietCrosses ==
  ASSUME \A n \in Name : Lines(n)' = Lines(n), NEW e \in Edge
  PROVE  Crossed(e)' = Crossed(e)
<1>1. \A n \in e : Lines(n)' = Lines(n)
  BY DEF Edge, Name
<1>2. UNION {Lines(n)' : n \in e} = UNION {Lines(n) : n \in e}
  BY <1>1
<1> QED BY <1>2 DEF Crossed

-----------------------------------------------------------------------------
(* A spent edge is silent. *)

\* Over an edge with a limit no delivery goes around the budget.
LEMMA LimitedIsBudgeted ==
  ASSUME TypeOK, FactsInv, NEW frm \in Name, NEW to \in Name, NEW answers \in Nat,
         NEW expects \in BOOLEAN, NEW seed \in Limit,
         Delivery(frm, to, answers, expects, seed),
         {frm, to} \in Edge, edges[{frm, to}].limit # NoLimit
  PROVE  PeerEdge(frm, to)
<1>1. frm \in Agent /\ frm \notin Ticket /\ to \in Agent
  BY MailboxAssumption DEF Edge
<1>2. HasFacts(frm) /\ ~Reaped(to)
  BY <1>1 DEF Delivery, WriteMessage, CanSend, FactsInv
<1>3. HasFacts(to)
  BY <1>2 DEF FactsInv
<1> QED BY <1>2, <1>3 DEF PeerEdge, HasFacts, HasFactsResolved

\* Once an edge is spent no message crosses it, of either kind and from either
\* end: not after a restart of a supervisor, not after a teardown of an end, and
\* not when its name has been taken again.
THEOREM SpentIsSilent == Spec => SpentEdgeIsSilent
<1>1. ASSUME TypeOK, FactsInv, [Next]_vars, NEW e \in Edge, Spent(e)
      PROVE  Crossed(e)' = Crossed(e)
  <2>1. ASSUME NEW frm \in Name, NEW to \in Name, NEW answers \in Nat,
               NEW expects \in BOOLEAN, NEW seed \in Limit,
               Delivery(frm, to, answers, expects, seed)
        PROVE  Crossed(e)' = Crossed(e)
    <3>1. CASE e = {frm, to}
      <4>1. PeerEdge(frm, to)
        BY <1>1, <2>1, <3>1, LimitedIsBudgeted DEF Spent
      <4> QED BY <1>1, <2>1, <3>1, <4>1 DEF Delivery, WriteMessage
    <3>2. CASE e # {frm, to}
      BY <1>1, <2>1, <3>2, DeliveryCrosses
    <3> QED BY <3>1, <3>2
  <2> QED BY <1>1, <2>1, Steps, QuietCrosses
<1>2. TypeOK /\ FactsInv /\ [Next]_vars =>
        [\A e \in Edge : Spent(e) => Crossed(e)' = Crossed(e)]_vars
  BY <1>1
<1> QED
  BY <1>2, TypeInit, TypeStep, FactsInit, FactsStep, PTL DEF Spec, SpentEdgeIsSilent

-----------------------------------------------------------------------------
(* The counter file. *)

Ids(e) == {m.id : m \in Stamped(e)}

\* HopStampsCount, and what the refinement needs: as many ids as stamps, all of
\* them given out.
StampInv ==
  /\ HopStampsCount
  /\ \A e \in Edge :
       /\ Ids(e) \subseteq 1..lastId
       /\ IsFiniteSet(Ids(e))
       /\ Cardinality(Ids(e)) = edges[e].count

LEMMA StampInit == Init => StampInv /\ \A e \in Edge : Stamped(e) = {}
<1> SUFFICES ASSUME Init PROVE StampInv /\ \A e \in Edge : Stamped(e) = {}
  OBVIOUS
<1>1. \A n \in Name : Lines(n) = {}
  BY NoLines
<1>2. \A e \in Edge : \A n \in e : n \in Name
  BY DEF Edge, Name
<1>3. \A e \in Edge : Stamped(e) = {}
  BY <1>1, <1>2 DEF Stamped, Crossed
<1>4. \A e \in Edge : Ids(e) = {} /\ edges[e].count = 0
  BY <1>3 DEF Ids, Init, FreshEdge
<1>5. HopStampsCount
  BY <1>3, <1>4 DEF HopStampsCount
<1> QED BY <1>3, <1>4, <1>5, FS_EmptySet DEF StampInv

\* What a budgeted delivery adds to its edge.
LEMMA DeliveryStamps ==
  ASSUME TypeOK, NEW frm \in Name, NEW to \in Name, NEW answers \in Nat,
         NEW expects \in BOOLEAN, NEW seed \in Limit,
         Delivery(frm, to, answers, expects, seed), NEW e \in Edge
  PROVE  /\ PeerEdge(frm, to) /\ e = {frm, to} =>
              /\ Stamped(e)' = Stamped(e) \cup {Envelope(frm, to, answers, expects)}
              /\ edges'[e].count = edges[e].count + 1
              /\ Envelope(frm, to, answers, expects).hops = edges[e].count + 1
         /\ ~(PeerEdge(frm, to) /\ e = {frm, to}) =>
              Stamped(e)' = Stamped(e) /\ edges'[e] = edges[e]
<1> DEFINE msg == Envelope(frm, to, answers, expects)
<1>1. /\ e = {frm, to} => Crossed(e)' = Crossed(e) \cup {msg}
      /\ e # {frm, to} => Crossed(e)' = Crossed(e)
  BY DeliveryCrosses
<1>2. msg.hops = IF PeerEdge(frm, to) THEN edges[{frm, to}].count + 1 ELSE 0
  BY DEF Envelope
<1>3. edges[e].count \in Nat
  BY DEF TypeOK, EdgeFile
<1>4. CASE PeerEdge(frm, to) /\ e = {frm, to}
  <2>1. edges'[e].count = edges[e].count + 1
    BY <1>4 DEF Delivery, WriteMessage, Bump, TypeOK
  <2>2. msg.hops = edges[e].count + 1 /\ msg.hops # 0
    BY <1>2, <1>3, <1>4
  <2>3. Crossed(e)' = Crossed(e) \cup {msg}
    BY <1>1, <1>4
  <2> HIDE DEF msg
  <2>4. Stamped(e)' = Stamped(e) \cup {msg}
    BY <2>2, <2>3 DEF Stamped
  <2> QED BY <1>4, <2>1, <2>2, <2>4 DEF msg
<1>5. CASE ~PeerEdge(frm, to)
  <2>1. UNCHANGED edges /\ msg.hops = 0
    BY <1>2, <1>5 DEF Delivery, WriteMessage
  <2> HIDE DEF msg
  <2> QED BY <1>1, <1>5, <2>1 DEF Stamped
<1>6. CASE e # {frm, to}
  <2>1. edges'[e] = edges[e]
    BY <1>6 DEF Delivery, WriteMessage, TypeOK
  <2> QED BY <1>1, <1>6, <2>1 DEF Stamped
<1> QED BY <1>4, <1>5, <1>6

LEMMA StampStep == TypeOK /\ StampInv /\ [Next]_vars => StampInv'
<1> SUFFICES ASSUME TypeOK, StampInv, [Next]_vars
             PROVE  StampInv'
  OBVIOUS
<1>0. lastId \in Nat
  BY MailboxAssumption DEF TypeOK
<1>1. ASSUME NEW e \in Edge, Stamped(e)' = Stamped(e), edges'[e] = edges[e],
             lastId' \in {lastId, lastId + 1}
      PROVE  /\ {m.hops : m \in Stamped(e)'} = 1..edges'[e].count
             /\ \A m1, m2 \in Stamped(e)' : m1.hops = m2.hops => m1 = m2
             /\ Ids(e)' \subseteq 1..lastId'
             /\ IsFiniteSet(Ids(e)')
             /\ Cardinality(Ids(e)') = edges'[e].count
  <2>1. Ids(e)' = Ids(e)
    BY <1>1 DEF Ids
  <2>2. 1..lastId \subseteq 1..lastId'
    BY <1>0, <1>1
  <2> QED BY <1>1, <2>1, <2>2 DEF StampInv, HopStampsCount
<1>2. ASSUME NEW e \in Edge, NEW msg,
             Stamped(e)' = Stamped(e) \cup {msg},
             edges'[e].count = edges[e].count + 1,
             msg.hops = edges[e].count + 1, msg.id = lastId + 1, lastId' = lastId + 1
      PROVE  /\ {m.hops : m \in Stamped(e)'} = 1..edges'[e].count
             /\ \A m1, m2 \in Stamped(e)' : m1.hops = m2.hops => m1 = m2
             /\ Ids(e)' \subseteq 1..lastId'
             /\ IsFiniteSet(Ids(e)')
             /\ Cardinality(Ids(e)') = edges'[e].count
  <2>1. edges[e].count \in Nat
    BY DEF TypeOK, EdgeFile
  <2>2. /\ {m.hops : m \in Stamped(e)} = 1..edges[e].count
        /\ \A m1, m2 \in Stamped(e) : m1.hops = m2.hops => m1 = m2
        /\ Ids(e) \subseteq 1..lastId
        /\ IsFiniteSet(Ids(e))
        /\ Cardinality(Ids(e)) = edges[e].count
    BY DEF StampInv, HopStampsCount
  <2>3. \A m \in Stamped(e) : m.hops \in 1..edges[e].count
    BY <2>2
  <2>4. msg.hops \notin 1..edges[e].count
    BY <1>2, <2>1
  <2>5. \A m1, m2 \in Stamped(e)' : m1.hops = m2.hops => m1 = m2
    BY <1>2, <2>2, <2>3, <2>4
  <2>6. {m.hops : m \in Stamped(e)'} = {m.hops : m \in Stamped(e)} \cup {msg.hops}
    BY <1>2
  <2>7. 1..edges'[e].count = 1..edges[e].count \cup {edges[e].count + 1}
    BY <1>2, <2>1
  <2>8. Ids(e)' = Ids(e) \cup {lastId + 1}
    BY <1>2 DEF Ids
  <2>9. lastId + 1 \notin Ids(e)
    BY <1>0, <2>2
  <2>10. /\ IsFiniteSet(Ids(e) \cup {lastId + 1})
         /\ Cardinality(Ids(e) \cup {lastId + 1}) = Cardinality(Ids(e)) + 1
    BY <2>2, <2>9, FS_AddElement
  <2>11. Ids(e)' \subseteq 1..lastId'
    BY <1>0, <1>2, <2>2, <2>8
  <2> QED BY <1>2, <2>2, <2>5, <2>6, <2>7, <2>8, <2>10, <2>11
<1>3. ASSUME NEW e \in Edge
      PROVE  /\ {m.hops : m \in Stamped(e)'} = 1..edges'[e].count
             /\ \A m1, m2 \in Stamped(e)' : m1.hops = m2.hops => m1 = m2
             /\ Ids(e)' \subseteq 1..lastId'
             /\ IsFiniteSet(Ids(e)')
             /\ Cardinality(Ids(e)') = edges'[e].count
  <2>1. ASSUME NEW frm \in Name, NEW to \in Name, NEW answers \in Nat,
               NEW expects \in BOOLEAN, NEW seed \in Limit,
               Delivery(frm, to, answers, expects, seed)
        PROVE  /\ {m.hops : m \in Stamped(e)'} = 1..edges'[e].count
               /\ \A m1, m2 \in Stamped(e)' : m1.hops = m2.hops => m1 = m2
               /\ Ids(e)' \subseteq 1..lastId'
               /\ IsFiniteSet(Ids(e)')
               /\ Cardinality(Ids(e)') = edges'[e].count
    <3>1. lastId' = lastId + 1 /\ Envelope(frm, to, answers, expects).id = lastId + 1
      BY <2>1 DEF Delivery, WriteMessage, Envelope
    <3> QED BY <1>1, <1>2, <2>1, <3>1, DeliveryStamps
  <2>2. CASE UNCHANGED <<edges, lastId>> /\ \A n \in Name : Lines(n)' = Lines(n)
    <3>1. Stamped(e)' = Stamped(e)
      BY <2>2, QuietCrosses DEF Stamped
    <3> QED BY <1>1, <2>2, <3>1
  <2> QED BY <2>1, <2>2, Steps
<1> QED BY <1>3 DEF StampInv, HopStampsCount

\* The counter file of every edge agrees with the transcripts of its two ends,
\* through every reap and every reuse of a name.
THEOREM StampsCount == Spec => []HopStampsCount
<1>1. StampInv => HopStampsCount
  BY DEF StampInv
<1> QED BY <1>1, TypeInit, TypeStep, StampInit, StampStep, PTL DEF Spec

-----------------------------------------------------------------------------
(* The obligation ledger. *)

\* OpenIsUnanswered, and that no message answers one not yet sent: the message
\* that asks next is unanswered when its id enters the ledger.
OpenInv ==
  /\ OpenIsUnanswered
  /\ \A e \in Edge : \A m \in Stamped(e) : m.answers \in 0..lastId

\* Steps, with what an answer may name.
LEMMA AnswersKnown ==
  ASSUME TypeOK, KnownInv, [Next]_vars
  PROVE  \/ \E frm \in Name, to \in Name, answers \in 0..lastId, expects \in BOOLEAN,
                 seed \in Limit : Delivery(frm, to, answers, expects, seed)
         \/ UNCHANGED <<edges, lastId>> /\ \A n \in Name : Lines(n)' = Lines(n)
<1>0. lastId \in Nat
  BY MailboxAssumption DEF TypeOK
<1>1. ASSUME NEW frm \in Name, NEW expects \in BOOLEAN, NEW to \in Name,
             NEW answers \in Known(frm) \cup {NoId},
             GatedSend(frm, to, answers, expects)
      PROVE  /\ answers \in 0..lastId /\ DefaultLimit \in Limit
             /\ Delivery(frm, to, answers, expects, DefaultLimit)
  <2>1. answers \in 0..lastId
    BY <1>0 DEF KnownInv, Known, NoId
  <2> QED BY <1>1, <2>1, GatedSendDelivers
<1>2. ASSUME NEW a \in Agent, NEW m \in box[a].inbox, SupervisorReply(a, m)
      PROVE  /\ a \in Name /\ m.from \in Name /\ m.id \in 0..lastId /\ NoLimit \in Limit
             /\ Delivery(a, m.from, m.id, FALSE, NoLimit)
  <2>1. a \in Name
    BY DEF Name
  <2>2. m.id \in 0..lastId
    BY <1>0, <2>1 DEF KnownInv
  <2> QED BY <1>2, <2>2, SupervisorReplyDelivers
<1>3. ASSUME UNCHANGED lastId
      PROVE  UNCHANGED <<edges, lastId>> /\ \A n \in Name : Lines(n)' = Lines(n)
  <2>1. ASSUME NEW frm \in Name, NEW to \in Name, NEW answers \in Nat,
               NEW expects \in BOOLEAN, NEW seed \in Limit,
               Delivery(frm, to, answers, expects, seed)
        PROVE  FALSE
    <3>1. lastId' = lastId + 1
      BY <2>1 DEF Delivery, WriteMessage
    <3> QED BY <1>0, <1>3, <3>1
  <2> QED BY <2>1, Steps
<1>4. CASE \E frm \in Name, expects \in BOOLEAN :
             \E to \in Name \ {frm}, answers \in Known(frm) \cup {NoId} :
               GatedSend(frm, to, answers, expects)
  <2>1. PICK frm \in Name, expects \in BOOLEAN :
               \E to \in Name \ {frm}, answers \in Known(frm) \cup {NoId} :
                 GatedSend(frm, to, answers, expects)
    BY <1>4
  <2>2. PICK to \in Name, answers \in Known(frm) \cup {NoId} :
               GatedSend(frm, to, answers, expects)
    BY <2>1
  <2> QED BY <1>1, <2>2
<1>5. CASE \E a \in Agent : \E m \in box[a].inbox : SupervisorReply(a, m)
  <2>1. PICK a \in Agent : \E m \in box[a].inbox : SupervisorReply(a, m)
    BY <1>5
  <2>2. PICK m \in box[a].inbox : SupervisorReply(a, m)
    BY <2>1
  <2> QED BY <1>2, <2>2
<1>6. CASE \/ \E n \in Name : \E m \in box[n].inbox : ArchiveMessage(n, m)
           \/ \E a \in Agent : Launch(a) \/ Stop(a) \/ Reap(a)
           \/ \E a \in Agent, named \in PeerChoices : Boot(a, named)
           \/ UNCHANGED vars
  BY <1>3, <1>6 DEF ArchiveMessage, Launch, Stop, Reap, Boot, vars
<1> QED BY <1>4, <1>5, <1>6 DEF Next

\* The questions of a set of messages that none of them answers.
Unanswered(over) ==
  {m.id : m \in {q \in over : q.expects /\ \A r \in over : r.answers # q.id}}

\* One more message over an edge: a question it answers leaves the ledger, a
\* question it asks enters it.
LEMMA OpenOneMore ==
  ASSUME NEW over, NEW open, NEW msg, NEW last \in Nat,
         \A m \in over : m.id \in 1..last /\ m.answers \in 0..last,
         open = Unanswered(over),
         msg.id = last + 1, msg.answers \in 0..last, msg.expects \in BOOLEAN
  PROVE  OpenAfter(open, msg.id, msg.answers, msg.expects)
           = Unanswered(over \cup {msg})
<1> DEFINE more == over \cup {msg}
           Before(q) == q.expects /\ \A r \in over : r.answers # q.id
           After(q) == q.expects /\ \A r \in more : r.answers # q.id
<1>1. \A q \in over : After(q) <=> Before(q) /\ q.id # msg.answers
  OBVIOUS
<1>2. After(msg) <=> msg.expects
  <2>1. \A r \in more : r.answers # msg.id
    <3> TAKE r \in more
    <3>1. r.answers \in 0..last
      OBVIOUS
    <3> QED BY <3>1
  <2> QED BY <2>1
<1> HIDE DEF Before, After
<1>3. open = {m.id : m \in {q \in over : Before(q)}}
  BY DEF Before, Unanswered
<1>4. {m.id : m \in {q \in more : After(q)}}
        = (open \ {msg.answers}) \cup (IF msg.expects THEN {msg.id} ELSE {})
  <2> DEFINE now == {m.id : m \in {q \in more : After(q)}}
             want == (open \ {msg.answers}) \cup (IF msg.expects THEN {msg.id} ELSE {})
  <2>1. ASSUME NEW q \in more, After(q)
        PROVE  q.id \in want
    <3>1. CASE q \in over
      <4>1. Before(q) /\ q.id # msg.answers
        BY <1>1, <2>1, <3>1
      <4>2. q.id \in open
        BY <1>3, <3>1, <4>1
      <4> QED BY <4>1, <4>2
    <3>2. CASE q = msg
      BY <1>2, <2>1, <3>2
    <3> QED BY <3>1, <3>2
  <2>2. ASSUME NEW x \in want
        PROVE  x \in now
    <3>1. CASE x \in open /\ x # msg.answers
      <4>1. PICK q \in over : Before(q) /\ q.id = x
        BY <1>3, <3>1
      <4>2. After(q)
        BY <1>1, <3>1, <4>1
      <4> QED BY <4>1, <4>2
    <3>2. CASE msg.expects /\ x = msg.id
      BY <1>2, <3>2
    <3> QED BY <3>1, <3>2
  <2> QED BY <2>1, <2>2
<1>5. Unanswered(more) = {m.id : m \in {q \in more : After(q)}}
  BY DEF After, Unanswered
<1> QED BY <1>4, <1>5 DEF OpenAfter

LEMMA OpenInit == Init => OpenInv
<1> SUFFICES ASSUME Init PROVE OpenInv
  OBVIOUS
<1>1. \A e \in Edge : Stamped(e) = {} /\ edges[e].open = {}
  BY StampInit DEF Init, FreshEdge
<1> QED BY <1>1 DEF OpenInv, OpenIsUnanswered

LEMMA OpenStep ==
  TypeOK /\ StampInv /\ KnownInv /\ OpenInv /\ [Next]_vars => OpenInv'
<1> SUFFICES ASSUME TypeOK, StampInv, KnownInv, OpenInv, [Next]_vars, NEW e \in Edge
             PROVE  /\ edges'[e].open = Unanswered(Stamped(e)')
                    /\ \A m \in Stamped(e)' : m.answers \in 0..lastId'
  BY DEF OpenInv, OpenIsUnanswered, Unanswered
<1>0. lastId \in Nat
  BY MailboxAssumption DEF TypeOK
<1>1. /\ edges[e].open = Unanswered(Stamped(e))
      /\ \A m \in Stamped(e) : m.id \in 1..lastId /\ m.answers \in 0..lastId
  BY DEF OpenInv, OpenIsUnanswered, Unanswered, StampInv, Ids
<1>2. ASSUME NEW frm \in Name, NEW to \in Name, NEW answers \in 0..lastId,
             NEW expects \in BOOLEAN, NEW seed \in Limit,
             Delivery(frm, to, answers, expects, seed)
      PROVE  /\ edges'[e].open = Unanswered(Stamped(e)')
             /\ \A m \in Stamped(e)' : m.answers \in 0..lastId'
  <2>0. answers \in Nat /\ lastId' = lastId + 1 /\ 0..lastId \subseteq 0..lastId'
    <3>1. lastId' = lastId + 1
      BY <1>2 DEF Delivery, WriteMessage
    <3> QED BY <1>0, <3>1
  <2>1. CASE PeerEdge(frm, to) /\ e = {frm, to}
    <3>1. PICK msg : msg = Envelope(frm, to, answers, expects)
      OBVIOUS
    <3>2. msg.id = lastId + 1 /\ msg.answers = answers /\ msg.expects = expects
      BY <3>1 DEF Envelope
    <3>3. Stamped(e)' = Stamped(e) \cup {msg}
      BY <1>2, <2>0, <2>1, <3>1, DeliveryStamps
    <3>4. edges'[e].open = OpenAfter(edges[e].open, msg.id, msg.answers, msg.expects)
      <4>1. edges'[e].open = OpenAfter(edges[e].open, lastId + 1, answers, expects)
        BY <1>2, <2>1 DEF Delivery, WriteMessage, Bump, TypeOK
      <4> QED BY <3>2, <4>1
    <3>5. OpenAfter(edges[e].open, msg.id, msg.answers, msg.expects)
            = Unanswered(Stamped(e) \cup {msg})
      BY <1>0, <1>1, <3>2, OpenOneMore
    <3>6. \A m \in Stamped(e)' : m.answers \in 0..lastId'
      BY <1>1, <2>0, <3>2, <3>3
    <3> QED BY <3>3, <3>4, <3>5, <3>6
  <2>2. CASE ~(PeerEdge(frm, to) /\ e = {frm, to})
    <3>1. Stamped(e)' = Stamped(e) /\ edges'[e] = edges[e]
      BY <1>2, <2>0, <2>2, DeliveryStamps
    <3> QED BY <1>1, <2>0, <3>1
  <2> QED BY <2>1, <2>2
<1>3. CASE UNCHANGED <<edges, lastId>> /\ \A n \in Name : Lines(n)' = Lines(n)
  <2>1. Stamped(e)' = Stamped(e)
    BY <1>3, QuietCrosses DEF Stamped
  <2> QED BY <1>1, <1>3, <2>1
<1> QED BY <1>2, <1>3, AnswersKnown

\* What bump_edge keeps open on an edge is exactly what was asked over it and
\* not yet answered over it, through every reap and every reuse of a name.
THEOREM LedgerIsExact == Spec => []OpenIsUnanswered
<1>1. Init => TypeOK /\ StampInv /\ KnownInv /\ OpenInv
  BY TypeInit, StampInit, DeliveredInit, OpenInit
<1>2. TypeOK /\ StampInv /\ KnownInv /\ OpenInv /\ [Next]_vars
        => (TypeOK /\ StampInv /\ KnownInv /\ OpenInv)'
  BY TypeStep, StampStep, KnownStep, OpenStep
<1>3. OpenInv => OpenIsUnanswered
  BY DEF OpenInv
<1> QED BY <1>1, <1>2, <1>3, PTL DEF Spec

-----------------------------------------------------------------------------
(* The transport keeps the promise of EdgeBudget. *)

LEMMA BudgetInit == Init => Budget!Init
<1> SUFFICES ASSUME Init PROVE Budget!Init
  OBVIOUS
<1>1. \A e \in Edge : {m.id : m \in Stamped(e)} = {}
  BY StampInit
<1>2. \A e \in Edge : edges[e].limit = NoLimit
  BY DEF Init, FreshEdge
<1> QED BY <1>1, <1>2 DEF Budget!Init

\* The instance counts as this module does.
LEMMA SameCardinality == \A S : Budget!Cardinality(S) = Cardinality(S)
  BY DEF Cardinality, Budget!Cardinality

\* A budgeted delivery is a Carry of its edge; every other step stutters.
LEMMA BudgetStep ==
  TypeOK /\ StampInv /\ [Next]_vars => [Budget!Next]_(Budget!vars)
<1> SUFFICES ASSUME TypeOK, StampInv, [Next]_vars
             PROVE  Budget!Next \/ UNCHANGED Budget!vars
  OBVIOUS
<1>0. lastId \in Nat
  BY MailboxAssumption DEF TypeOK
<1>1. ASSUME \A e \in Edge : Stamped(e)' = Stamped(e) /\ edges'[e].limit = edges[e].limit
      PROVE  UNCHANGED Budget!vars
  <2>1. \A e \in Edge : {m.id : m \in Stamped(e)}' = {m.id : m \in Stamped(e)}
    BY <1>1
  <2> QED BY <1>1, <2>1 DEF Budget!vars
<1>2. ASSUME NEW frm \in Name, NEW to \in Name, NEW answers \in Nat,
             NEW expects \in BOOLEAN, NEW seed \in Limit,
             Delivery(frm, to, answers, expects, seed), PeerEdge(frm, to)
      PROVE  Budget!Next
  <2> DEFINE pair  == {frm, to}
             id    == lastId + 1
             limit == IF peers[frm][to] # NoLimit THEN peers[frm][to] ELSE seed
  <2>1. pair \in Edge
    BY <1>2, PeerEdgeInEdge
  <2>2. WriteMessage(frm, to, answers, expects, seed)
    BY <1>2 DEF Delivery
  <2>3. id \in 1..MaxMsgs
    <3>1. lastId < MaxMsgs
      BY <2>2 DEF WriteMessage
    <3> QED BY <1>0, <3>1, MailboxAssumption
  <2>4. edges' = [edges EXCEPT ![pair] = Bump(edges[pair], limit, id, answers, expects)]
    BY <1>2, <2>2 DEF WriteMessage
  <2>5. edges[pair].limit \in Limit /\ limit \in Limit /\ edges[pair].count \in Nat
    BY <2>1 DEF TypeOK, EdgeFile
  <2>6. /\ edges'[pair].limit \in Limit
        /\ edges[pair].limit # NoLimit => edges'[pair].limit = edges[pair].limit
        /\ \A e \in Edge : e # pair => edges'[e].limit = edges[e].limit
    <3>1. edges'[pair].limit = IF edges[pair].limit # NoLimit THEN edges[pair].limit
                               ELSE limit
      BY <2>1, <2>4 DEF TypeOK, Bump
    <3>2. \A e \in Edge : e # pair => edges'[e] = edges[e]
      BY <2>4 DEF TypeOK
    <3> QED BY <2>5, <3>1, <3>2
  <2>7. \A e \in Edge : id \notin Ids(e)
    BY <1>0 DEF StampInv
  <2>8. /\ Ids(pair)' = Ids(pair) \cup {id}
        /\ \A e \in Edge : e # pair => Ids(e)' = Ids(e)
    <3>1. Stamped(pair)' = Stamped(pair) \cup {Envelope(frm, to, answers, expects)}
      BY <1>2, <2>1, DeliveryStamps
    <3>2. \A e \in Edge : e # pair => Stamped(e)' = Stamped(e)
      BY <1>2, DeliveryStamps
    <3>3. Envelope(frm, to, answers, expects).id = id
      BY DEF Envelope
    <3> HIDE DEF id, pair
    <3> QED BY <3>1, <3>2, <3>3 DEF Ids
  <2>9. ~Budget!Exhausted(pair)
    <3>1. edges[pair].limit = NoLimit \/ edges[pair].count < edges[pair].limit
      <4>1. ~Spent(pair)
        BY <1>2, <2>2 DEF WriteMessage
      <4> QED BY <2>5, <4>1 DEF Spent, Limit, NoLimit
    <3>2. Cardinality(Ids(pair)) = edges[pair].count
      BY <2>1 DEF StampInv
    <3>3. NoLimit = -1
      BY DEF NoLimit
    <3> HIDE DEF pair
    <3> QED BY <2>1, <2>5, <3>1, <3>2, <3>3, SameCardinality
            DEF Budget!Exhausted, Ids, Limit
  <2> HIDE DEF pair, id, limit
  <2> PICK m \in 1..MaxMsgs : m = id
    BY <2>3
  <2>10. Budget!Carry(pair, m)
    BY <2>1, <2>6, <2>7, <2>8, <2>9 DEF Budget!Carry, Ids, Limit
  <2> HIDE DEF pair
  <2> QED BY <2>1, <2>10 DEF Budget!Next
<1>3. ASSUME NEW frm \in Name, NEW to \in Name, NEW answers \in Nat,
             NEW expects \in BOOLEAN, NEW seed \in Limit,
             Delivery(frm, to, answers, expects, seed), ~PeerEdge(frm, to)
      PROVE  UNCHANGED Budget!vars
  BY <1>1, <1>3, DeliveryStamps
<1>4. CASE UNCHANGED <<edges, lastId>> /\ \A n \in Name : Lines(n)' = Lines(n)
  <2>1. \A e \in Edge : Stamped(e)' = Stamped(e)
    BY <1>4, QuietCrosses DEF Stamped
  <2> QED BY <1>1, <1>4, <2>1
<1> QED BY <1>2, <1>3, <1>4, Steps

\* Read through the hop stamps, every behaviour of the transport is one of
\* EdgeBudget: an edge's limit is fixed by the first message that brings one and
\* it never carries a stamped message beyond it.
THEOREM ImplementsEdgeBudget == Spec => BudgetSpec
<1>1. Init => Budget!Init
  BY BudgetInit
<1>2. TypeOK /\ StampInv /\ [Next]_vars => [Budget!Next]_(Budget!vars)
  BY BudgetStep
<1>3. Spec => []TypeOK
  BY TypeCorrect
<1>4. Spec => []StampInv
  BY TypeInit, TypeStep, StampInit, StampStep, PTL DEF Spec
<1> QED BY <1>1, <1>2, <1>3, <1>4, PTL DEF Spec, BudgetSpec, Budget!Spec
=============================================================================
