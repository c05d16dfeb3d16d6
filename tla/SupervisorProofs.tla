-------------------------- MODULE SupervisorProofs --------------------------
(***************************************************************************)
(* The safety of the supervisor loop, for any number of messages,           *)
(* correspondents, sends and restarts.  TypeInv carries the types and that  *)
(* the message in hand is one that was received; TurnInv that the answer to *)
(* it is out before it is archived.                                         *)
(***************************************************************************)
EXTENDS Supervisor, FiniteSetTheorems, TLAPS

\* process_one holds a message.
Busy == pc \in {"turn", "ended", "failed", "settled", "archived"}

TypeInv ==
  /\ TypeOK
  /\ IsFiniteSet(Received)
  /\ \A m \in Received : m.id <= Cardinality(Received)
  /\ Busy => current \in Received

\* The asker of m has been sent something since, or cannot be.
Answered(m) ==
  m.expects => \/ m.id \in skipped
               \/ m.from \in closed
               \/ \E i \in DOMAIN outbox : i > m.ts /\ outbox[i].to = m.from

\* A received message is older than what is sent from now on, the snapshot lies
\* between the message in hand and its answer, and that answer is out at the end.
TurnInv ==
  /\ \A m \in Received : m.ts <= Len(outbox)
  /\ Busy => current.ts <= snapshot
  /\ pc \in {"settled", "archived"} => Answered(current)

-----------------------------------------------------------------------------
(* What the steps have in common. *)

\* A new line is the last one, and the lines before it stay.
LEMMA OneMoreLine ==
  ASSUME NEW q \in Seq(Line), NEW l \in Line
  PROVE  /\ Append(q, l) \in Seq(Line)
         /\ Len(Append(q, l)) = Len(q) + 1
         /\ \A i \in 1..Len(q) : Append(q, l)[i] = q[i]
         /\ Append(q, l)[Len(q) + 1] = l
         /\ DOMAIN Append(q, l) = 1..(Len(q) + 1)
         /\ DOMAIN q = 1..Len(q) /\ Len(q) \in Nat
  OBVIOUS

-----------------------------------------------------------------------------
(* The type invariant. *)

LEMMA TypeInit == Init => TypeInv
<1> SUFFICES ASSUME Init PROVE TypeInv
  OBVIOUS
<1>1. Received = {} /\ ~Busy
  BY DEF Init, Received, Busy
<1>2. IsFiniteSet(Received)
  BY <1>1, FS_EmptySet
<1>3. outbox \in Seq(Line) /\ Len(outbox) = 0
  <2>1. <<>> \in Seq(Line) /\ Len(<<>>) = 0
    OBVIOUS
  <2> QED
    BY <2>1 DEF Init
<1>4. stop \in BOOLEAN
  BY DEF Init
<1>5. TypeOK
  BY <1>3, <1>4, SupervisorAssumption DEF Init, TypeOK, NoMsg
<1> QED
  BY <1>1, <1>2, <1>5 DEF TypeInv

\* A step that receives nothing new leaves the facts about Received alone.
LEMMA SameReceived ==
  ASSUME TypeInv, Received' = Received, TypeOK', Busy' => current' \in Received
  PROVE  TypeInv'
<1>1. IsFiniteSet(Received)
  BY DEF TypeInv
<1>2. IsFiniteSet(Received')
  BY <1>1
<1>3. \A m \in Received' : m.id <= Cardinality(Received')
  BY DEF TypeInv
<1> QED
  BY <1>2, <1>3 DEF TypeInv

LEMMA DeliverKeepsTypes ==
  ASSUME TypeInv, NEW s \in Sender, NEW expects \in BOOLEAN, Deliver(s, expects)
  PROVE  TypeInv'
<1> DEFINE m == [id |-> Cardinality(Received) + 1, from |-> s,
                 expects |-> expects, ts |-> Len(outbox)]
<1>1. inbox' = inbox \cup {m} /\ Cardinality(Received) < MaxMsgs
      /\ UNCHANGED <<read, outbox, closed, skipped, process, state, boots>>
  BY DEF Deliver
<1>2. Cardinality(Received) \in Nat
  BY FS_CardinalityType DEF TypeInv
<1>3. m \in Message /\ m.id = Cardinality(Received) + 1
  BY <1>1, <1>2, SupervisorAssumption, OneMoreLine DEF TypeInv, TypeOK, Message
<1>4. m \notin Received
  BY <1>2, <1>3 DEF TypeInv
<1>5. Received' = Received \cup {m}
  BY <1>1 DEF Received
<1> HIDE DEF m
<1>6. /\ IsFiniteSet(Received') /\ Cardinality(Received') = Cardinality(Received) + 1
  <2>1. IsFiniteSet(Received)
    BY DEF TypeInv
  <2>2. IsFiniteSet(Received \cup {m})
        /\ Cardinality(Received \cup {m}) = Cardinality(Received) + 1
    BY <1>4, <2>1, FS_AddElement
  <2> QED
    BY <1>5, <2>2
<1>7. \A r \in Received : r.id <= Cardinality(Received) /\ r.id \in Nat
  <2>1. \A r \in Received : r.id <= Cardinality(Received)
    BY DEF TypeInv
  <2>2. Received \subseteq Message
    BY DEF TypeInv, TypeOK, Received
  <2> QED
    BY <2>1, <2>2 DEF Message
<1>8. \A r \in Received' : r.id <= Cardinality(Received')
  BY <1>2, <1>3, <1>5, <1>6, <1>7
<1>9. TypeOK'
  <2>1. inbox' \subseteq Message /\ inbox' \cap read' = {}
    BY <1>1, <1>3, <1>4 DEF TypeInv, TypeOK, Received
  <2> QED
    BY <1>1, <2>1 DEF TypeInv, TypeOK, process, state
<1>10. Busy' => current' \in Received'
  BY <1>1, <1>5 DEF TypeInv, Busy, process
<1> QED
  BY <1>6, <1>8, <1>9, <1>10 DEF TypeInv

LEMMA ClaudeSendKeepsTypes ==
  ASSUME TypeInv, NEW to \in Sender, NEW answers \in 0..MaxMsgs, ClaudeSend(to, answers)
  PROVE  TypeInv'
<1> DEFINE l == [to |-> to, answers |-> answers, claude |-> TRUE]
<1>1. l \in Line
  BY DEF Line
<1>2. outbox' = Append(outbox, l)
      /\ UNCHANGED <<inbox, read, closed, skipped, process, state, boots>>
  BY DEF ClaudeSend
<1> HIDE DEF l
<1>3. outbox' \in Seq(Line) /\ Len(outbox') = Len(outbox) + 1 /\ Len(outbox) \in Nat
  BY <1>1, <1>2, OneMoreLine DEF TypeInv, TypeOK
<1>4. TypeOK'
  BY <1>2, <1>3 DEF TypeInv, TypeOK, process, state
<1> QED
  BY <1>2, <1>4, SameReceived DEF TypeInv, Busy, Received, process

LEMMA SettleKeepsTypes ==
  ASSUME TypeInv, Settle
  PROVE  TypeInv'
<1> DEFINE l == [to |-> current.from, answers |-> current.id, claude |-> FALSE]
<1>1. current \in Received /\ current \in Message
  BY DEF TypeInv, TypeOK, Settle, Busy, Received
<1>2. l \in Line
  BY <1>1 DEF Line, Message
<1>3. outbox' \in {outbox, Append(outbox, l)} /\ pc' = "settled"
      /\ UNCHANGED <<inbox, read, closed, skipped, state, boots, current, snapshot, stop>>
  BY DEF Settle, Goto
<1> HIDE DEF l
<1>4. outbox' \in Seq(Line) /\ Len(outbox') >= Len(outbox) /\ Len(outbox') \in Nat
      /\ Len(outbox) \in Nat
  BY <1>2, <1>3, OneMoreLine DEF TypeInv, TypeOK
<1>5. TypeOK'
  BY <1>3, <1>4 DEF TypeInv, TypeOK, state
<1> QED
  BY <1>1, <1>3, <1>5, SameReceived DEF Received

\* The steps that write no line: messages move from inbox to read at most.
QuietStep ==
  \/ \E s \in Sender : Close(s)
  \/ Start \/ Die \/ RequestStop
  \/ \E m \in inbox : ClaudeArchive(m)
  \/ BeginKickoff \/ KickoffDone \/ KickoffFails
  \/ BeginTurn \/ TurnEnds \/ TurnFails \/ Archive \/ Idle \/ Exit
  \/ UNCHANGED vars

LEMMA QuietStepsKeepTypes ==
  ASSUME TypeInv, QuietStep
  PROVE  TypeInv' /\ Received' = Received /\ outbox' = outbox
<1> USE DEF QuietStep, Close, Start, Die, RequestStop, ClaudeArchive,
         BeginKickoff, KickoffDone, KickoffFails, BeginTurn, TurnEnds, TurnFails, Archive, Idle, Exit,
         Gone, Goto, WriteState, vars, mailbox, process, state
<1>1. Received \subseteq Message /\ Len(outbox) \in Nat
  BY OneMoreLine DEF TypeInv, TypeOK, Received
<1>2. outbox' = outbox
  OBVIOUS
<1>3. Archive => current \in Received
  BY DEF TypeInv, Busy
<1>4. Received' = Received /\ inbox' \cap read' = {}
  BY <1>3 DEF TypeInv, TypeOK, Received
<1>5. pc' \in {"off", "boot", "kickoff", "poll", "turn", "ended", "failed", "settled",
             "archived"}
  BY DEF TypeInv, TypeOK
<1>6. current' \in Message \cup {NoMsg}
  BY DEF TypeInv, TypeOK
<1>7. snapshot' \in 0..Len(outbox')
  BY <1>1, <1>2 DEF TypeInv, TypeOK
<1>8. phase' \in {"none", "kickoff", "idle", "processing", "stopped"}
  BY DEF TypeInv, TypeOK
<1>9. shown' \in 0..MaxMsgs
  BY SupervisorAssumption DEF TypeInv, TypeOK, Message
<1>10. stop' \in BOOLEAN
  BY DEF TypeInv, TypeOK
<1>11. closed' \subseteq Sender
  BY DEF TypeInv, TypeOK
<1>12. skipped' \subseteq 1..MaxMsgs
  BY DEF TypeInv, TypeOK, Message
<1>13. boots' \in 0..MaxBoots
  BY SupervisorAssumption DEF TypeInv, TypeOK
<1>14. Busy' => current' \in Received
  BY DEF TypeInv, TypeOK, Busy, Received
<1> HIDE DEF QuietStep, Close, Start, Die, RequestStop, ClaudeArchive,
         BeginKickoff, KickoffDone, KickoffFails, BeginTurn, TurnEnds, TurnFails, Archive, Idle, Exit,
         Gone, Goto, WriteState, vars, mailbox, process, state
<1>15. TypeOK'
  <2>1. inbox' \subseteq Message /\ read' \subseteq Message
    BY <1>1, <1>4 DEF Received
  <2> QED
    BY <1>2, <1>4, <1>5, <1>6, <1>7, <1>8, <1>9, <1>10, <1>11, <1>12, <1>13, <2>1
       DEF TypeInv, TypeOK
<1> QED
  BY <1>2, <1>4, <1>14, <1>15, SameReceived

\* Every step of the specification is one of these.
LEMMA Steps ==
  ASSUME TypeInv, [Next]_vars
  PROVE  \/ \E s \in Sender, expects \in BOOLEAN : Deliver(s, expects)
         \/ \E to \in Sender, answers \in 0..MaxMsgs : ClaudeSend(to, answers)
         \/ Settle
         \/ QuietStep
<1>1. ASSUME NEW to \in Sender,
             NEW answers \in {0} \cup {m.id : m \in {r \in Received : r.from = to}}
      PROVE  answers \in 0..MaxMsgs
  BY SupervisorAssumption DEF TypeInv, TypeOK, Message, Received
<1> QED
  BY <1>1 DEF Next, SupervisorStep, QuietStep

LEMMA TypeStep ==
  ASSUME TypeInv, [Next]_vars
  PROVE  TypeInv'
BY Steps, DeliverKeepsTypes, ClaudeSendKeepsTypes, SettleKeepsTypes, QuietStepsKeepTypes

\* The variables of the supervisor keep their types, and no message is both read
\* and unread, whatever claude, the senders and the crashes do.
THEOREM TypeCorrect == Spec => []TypeOK
<1>1. TypeInv => TypeOK
  BY DEF TypeInv
<1> QED
  BY <1>1, TypeInit, TypeStep, PTL DEF Spec
-----------------------------------------------------------------------------
(* The answer to a question is out before the question is archived. *)

SafeInv == TypeInv /\ TurnInv /\ NoQuestionLost

\* Lines are never taken back, and closed and skipped only grow.
Grows ==
  /\ closed \subseteq closed' /\ skipped \subseteq skipped'
  /\ \/ outbox' = outbox
     \/ \E l \in Line : outbox' = Append(outbox, l)

LEMMA AnsweredStays ==
  ASSUME TypeInv, Grows, NEW m, Answered(m)
  PROVE  Answered(m)'
<1>1. /\ DOMAIN outbox \subseteq DOMAIN outbox'
      /\ \A i \in DOMAIN outbox : outbox'[i] = outbox[i]
  BY OneMoreLine DEF TypeInv, TypeOK, Grows
<1> QED
  BY <1>1 DEF Grows, Answered

LEMMA StepsGrow ==
  ASSUME TypeInv, [Next]_vars
  PROVE  Grows /\ Len(outbox') >= Len(outbox) /\ Len(outbox) \in Nat /\ Len(outbox') \in Nat
<1>1. ASSUME NEW s \in Sender, NEW expects \in BOOLEAN, Deliver(s, expects) PROVE Grows
  BY <1>1 DEF Deliver, Grows
<1>2. ASSUME NEW to \in Sender, NEW answers \in 0..MaxMsgs, ClaudeSend(to, answers) PROVE Grows
  BY <1>2 DEF ClaudeSend, Grows, Line
<1>3. CASE Settle
  <2>1. current \in Message
    BY <1>3 DEF TypeInv, TypeOK, Settle, Busy, Received
  <2> DEFINE l == [to |-> current.from, answers |-> current.id, claude |-> FALSE]
  <2>2. l \in Line
    BY <2>1 DEF Line, Message
  <2>3. outbox' = outbox \/ outbox' = Append(outbox, l)
    BY <1>3 DEF Settle
  <2> HIDE DEF l
  <2>4. closed' = closed /\ skipped' = skipped
    BY <1>3 DEF Settle
  <2> QED
    BY <2>2, <2>3, <2>4 DEF Grows
<1>4. CASE QuietStep
  BY <1>4 DEF Grows, QuietStep, Close, Start, Die, RequestStop, ClaudeArchive,
         BeginKickoff, KickoffDone, KickoffFails, BeginTurn, TurnEnds, TurnFails, Archive, Idle, Exit,
         Gone, Goto, WriteState, vars, mailbox, process, state
<1>5. Grows
  BY <1>1, <1>2, <1>3, <1>4, Steps
<1>6. Len(outbox') >= Len(outbox) /\ Len(outbox) \in Nat /\ Len(outbox') \in Nat
  BY <1>5, OneMoreLine DEF Grows, TypeInv, TypeOK
<1> QED
  BY <1>5, <1>6

\* A settled turn has its answer: the one claude sent, or the supervisor's own.
LEMMA SettleAnswers ==
  ASSUME TypeInv, TurnInv, Settle
  PROVE  Answered(current)'
<1>1. current \in Message /\ current.ts <= snapshot /\ snapshot \in Nat
      /\ snapshot <= Len(outbox) /\ current.ts \in Nat
  BY OneMoreLine DEF TypeInv, TypeOK, TurnInv, Settle, Busy, Received, Message
<1>2. current' = current /\ closed' = closed
  BY DEF Settle, Goto
<1>3. CASE current.from \in closed
  BY <1>2, <1>3 DEF Answered
<1>4. CASE OwesReply /\ current.from \notin closed
  <2> DEFINE l == [to |-> current.from, answers |-> current.id, claude |-> FALSE]
  <2>1. outbox' = Append(outbox, l) /\ l \in Line /\ l.to = current.from
    BY <1>1, <1>4 DEF Settle, Line, Message
  <2> HIDE DEF l
  <2>2. Len(outbox) + 1 \in DOMAIN outbox' /\ outbox'[Len(outbox) + 1].to = current.from
        /\ Len(outbox) \in Nat
    BY <2>1, OneMoreLine DEF TypeInv, TypeOK
  <2> QED
    BY <1>1, <1>2, <2>2 DEF Answered
<1>5. CASE ~OwesReply
  <2>1. outbox' = outbox /\ (current.expects => RepliedSince)
    BY <1>5 DEF Settle, OwesReply
  <2>2. ASSUME NEW i \in DOMAIN outbox, i > snapshot PROVE i > current.ts
    BY <1>1, <2>2, OneMoreLine DEF TypeInv, TypeOK
  <2> QED
    BY <1>2, <2>1, <2>2 DEF Answered, RepliedSince
<1> QED
  BY <1>3, <1>4, <1>5

LEMMA TurnStep ==
  ASSUME SafeInv, [Next]_vars
  PROVE  TurnInv' /\ NoQuestionLost'
<1>1. TypeInv /\ TurnInv /\ NoQuestionLost
  BY DEF SafeInv
<1>2. Grows /\ Len(outbox') >= Len(outbox) /\ Len(outbox) \in Nat /\ Len(outbox') \in Nat
  BY <1>1, StepsGrow
<1>3. \A m : Answered(m) => Answered(m)'
  BY <1>1, <1>2, AnsweredStays
<1>4. \A m \in Received : m.ts \in Nat /\ m.ts <= Len(outbox)
  BY <1>1 DEF TypeInv, TypeOK, TurnInv, Received, Message
<1>5. \A m \in Received' : m.ts <= Len(outbox')
  <2>1. CASE \E s \in Sender, expects \in BOOLEAN : Deliver(s, expects)
    BY <1>2, <1>4, <2>1 DEF Deliver, Received
  <2>2. CASE Received' = Received
    BY <1>2, <1>4, <2>2
  <2>3. ASSUME NEW to \in Sender, NEW answers \in 0..MaxMsgs, ClaudeSend(to, answers)
        PROVE Received' = Received
    BY <2>3 DEF ClaudeSend, Received
  <2>4. Settle => Received' = Received
    BY DEF Settle, Received
  <2> QED
    BY <1>1, <2>1, <2>2, <2>3, <2>4, Steps, QuietStepsKeepTypes
<1>6. Busy' => current'.ts <= snapshot'
  <2>1. CASE QuietStep
    <3>1. CASE BeginTurn
      BY <1>4, <3>1 DEF BeginTurn, Received
    <3>2. CASE Busy /\ UNCHANGED <<current, snapshot>>
      BY <1>1, <3>2 DEF TurnInv
    <3>3. Busy' => BeginTurn \/ (Busy /\ UNCHANGED <<current, snapshot>>)
      BY <2>1 DEF Busy, QuietStep, Close, Start, Die, RequestStop, ClaudeArchive,
         BeginKickoff, KickoffDone, KickoffFails, BeginTurn, TurnEnds, TurnFails, Archive, Idle, Exit,
         Gone, Goto, WriteState, vars, mailbox, process, state
    <3> QED
      BY <3>1, <3>2, <3>3
  <2>2. ~QuietStep => UNCHANGED <<current, snapshot>> /\ (Busy' => Busy)
    BY <1>1, Steps DEF Deliver, ClaudeSend, Settle, Goto, process, Busy
  <2> QED
    BY <1>1, <2>1, <2>2 DEF TurnInv
<1>7. pc' \in {"settled", "archived"} => Answered(current)'
  <2>1. CASE Settle
    BY <1>1, <2>1, SettleAnswers
  <2>2. CASE pc \in {"settled", "archived"} /\ current' = current
    <3>1. Answered(current)
      BY <1>1, <2>2 DEF TurnInv
    <3> QED
      BY <1>3, <2>2, <3>1 DEF Answered
  <2>3. \/ Settle \/ pc' \notin {"settled", "archived"}
        \/ pc \in {"settled", "archived"} /\ current' = current
    BY <1>1, Steps DEF Deliver, ClaudeSend, QuietStep, Close, Start, Die, RequestStop, ClaudeArchive,
         BeginKickoff, KickoffDone, KickoffFails, BeginTurn, TurnEnds, TurnFails, Archive, Idle, Exit,
         Gone, Goto, WriteState, vars, mailbox, process, state
  <2> QED
    BY <2>1, <2>2, <2>3
<1>8. NoQuestionLost'
  <2>1. ASSUME NEW q \in read' PROVE Answered(q)'
    <3>1. CASE q \in read
      <4>1. Answered(q)
        BY <1>1, <3>1 DEF NoQuestionLost, Answered
      <4> QED
        BY <1>3, <4>1
    <3>2. CASE pc = "settled" /\ q = current
      <4>1. Answered(q)
        BY <1>1, <3>2 DEF TurnInv
      <4> QED
        BY <1>3, <4>1
    <3>3. CASE q.id \in skipped'
      BY <3>3 DEF Answered
    <3>4. q \in read \/ q.id \in skipped' \/ (pc = "settled" /\ q = current)
      <4>1. CASE Archive
        BY <2>1, <4>1 DEF Archive
      <4>2. CASE \E m \in inbox : ClaudeArchive(m)
        BY <2>1, <4>2 DEF ClaudeArchive
      <4>3. Archive \/ (\E m \in inbox : ClaudeArchive(m)) \/ read' = read
        BY <1>1, Steps
        DEF Deliver, ClaudeSend, Settle, QuietStep, Close, Start, Die, RequestStop, BeginKickoff,
           KickoffDone, KickoffFails, BeginTurn, TurnEnds, TurnFails, Idle, Exit,
           Gone, Goto, WriteState, vars, mailbox, process
      <4> QED
        BY <2>1, <4>1, <4>2, <4>3
    <3> QED
      BY <3>1, <3>2, <3>3, <3>4
  <2> QED
    BY <2>1 DEF NoQuestionLost, Answered
<1> QED
  BY <1>5, <1>6, <1>7, <1>8 DEF TurnInv

\* No question is lost, however many messages cross, and however often the
\* process dies between two of its writes and is started again: a question that
\* was read has been followed by a line to its asker, or claude itself took it
\* out, or its asker can be sent nothing.
THEOREM QuestionsAreAnswered == Spec => []NoQuestionLost
<1>1. Init => SafeInv
  <2>1. Init => TurnInv /\ NoQuestionLost
    BY DEF Init, TurnInv, NoQuestionLost, Received, Busy
  <2> QED
    BY <2>1, TypeInit DEF SafeInv
<1>2. SafeInv /\ [Next]_vars => SafeInv'
  BY TypeStep, TurnStep DEF SafeInv
<1>3. SafeInv => NoQuestionLost
  BY DEF SafeInv
<1> QED
  BY <1>1, <1>2, <1>3, PTL DEF Spec

\* state.json names the message in hand for as long as a turn runs or its reply
\* is owed: the reap check, which reads only that file, never takes such an agent
\* for an idle one.
THEOREM TurnsAreVisible == Spec => []MidTurnIsVisible
<1>1. Init => MidTurnIsVisible
  BY DEF Init, MidTurnIsVisible
<1>2. ASSUME TypeInv, MidTurnIsVisible, [Next]_vars PROVE MidTurnIsVisible'
  BY <1>2, Steps DEF MidTurnIsVisible, Deliver, ClaudeSend, Settle, QuietStep, Close, Start, Die, RequestStop, ClaudeArchive,
         BeginKickoff, KickoffDone, KickoffFails, BeginTurn, TurnEnds, TurnFails, Archive, Idle, Exit,
         Gone, Goto, WriteState, vars, mailbox, process, state
<1>3. TypeInv /\ MidTurnIsVisible /\ [Next]_vars => (TypeInv /\ MidTurnIsVisible)'
  BY <1>2, TypeStep
<1> QED
  BY <1>1, <1>3, TypeInit, PTL DEF Spec
=============================================================================
