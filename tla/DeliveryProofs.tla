--------------------------- MODULE DeliveryProofs ---------------------------
(***************************************************************************)
(* Theorems about Delivery, for any number of senders on the two ends, any  *)
(* limits and any number of messages.                                       *)
(***************************************************************************)
EXTENDS Delivery, FiniteSetTheorems, TLAPS

-----------------------------------------------------------------------------
(* Types. *)

\* A sender that has begun and not yet counted, or never will.
Early == {"check", "spent", "dirs", "read", "open", "write"}
Pre   == {p \in Process : proc[p].at \in Early}

\* How many deliveries can have been counted: a count cannot pass it, whatever
\* the senders overwrite.
Given == lastId - Cardinality(Pre)

FileOK(c, given) ==
  /\ c \in Content /\ c.count <= given
  /\ c = Torn \/ (c.count >= 1 /\ c.limit # NoLimit)

ProcOK(r, last, given) ==
  /\ r \in Sender
  /\ r.fd # NoFile <=> r.at = "write"
  /\ r.at # "rest" => r.id \in 1..last
  /\ r.edge.count \in 0..given
  /\ r.peer /\ r.at \in {"rename", "deliver", "log"} => r.edge.count + 1 <= given

\* TypeOK with what makes it inductive.
TypeInv ==
  /\ TypeOK
  /\ Cardinality(Pre) <= lastId
  /\ \A i \in Inode : FileOK(content[i], Given)
  /\ \A p \in Process : ProcOK(proc[p], lastId, Given)

LEMMA PreFinite ==
  /\ \A S \in SUBSET Process : IsFiniteSet(S) /\ Cardinality(S) \in Nat
  /\ Pre \in SUBSET Process
<1>1. ASSUME NEW S \in SUBSET Process
      PROVE  IsFiniteSet(S) /\ Cardinality(S) \in Nat
  <2>1. IsFiniteSet(S)
    BY FS_Subset, DeliveryAssumption
  <2> QED BY <2>1, FS_CardinalityType
<1> QED BY <1>1 DEF Pre

LEMMA GivenType == TypeInv => lastId \in 0..MaxMsgs /\ Given \in 0..lastId
<1> SUFFICES ASSUME TypeInv PROVE lastId \in 0..MaxMsgs /\ Given \in 0..lastId
  OBVIOUS
<1>1. Cardinality(Pre) \in Nat /\ Cardinality(Pre) <= lastId /\ lastId \in 0..MaxMsgs
  BY PreFinite DEF TypeInv, TypeOK
<1> QED BY <1>1, DeliveryAssumption DEF Given

\* The other agent.
LEMMA OtherEnd ==
  ASSUME NEW p \in Process
  PROVE  To(p) \in End /\ To(p) # From[p] /\ From[p] \in End
<1>1. From[p] \in End
  BY DeliveryAssumption
<1>2. \E n \in End : n # From[p]
  <2> SUFFICES ASSUME \A n \in End : n = From[p] PROVE FALSE
    OBVIOUS
  <2>1. End = {From[p]}
    BY <1>1
  <2>2. Cardinality({From[p]}) = 1
    BY FS_Singleton
  <2> QED BY <2>1, <2>2, DeliveryAssumption
<1> QED BY <1>1, <1>2 DEF To

\* What was right stays right while more is given out.
LEMMA Grows ==
  ASSUME NEW last \in Nat, NEW given \in Nat, NEW last2 \in Nat, NEW given2 \in Nat,
         last <= last2, given <= given2
  PROVE  /\ \A r : ProcOK(r, last, given) => ProcOK(r, last2, given2)
         /\ \A c : FileOK(c, given) => FileOK(c, given2)
<1>1. ASSUME NEW r, ProcOK(r, last, given)
      PROVE  ProcOK(r, last2, given2)
  <2>1. 1..last \subseteq 1..last2 /\ 0..given \subseteq 0..given2
    OBVIOUS
  <2>2. r.edge.count \in 0..given
    BY <1>1 DEF ProcOK
  <2>3. r.edge.count + 1 <= given => r.edge.count + 1 <= given2
    BY <2>2
  <2> QED BY <1>1, <2>1, <2>3 DEF ProcOK
<1>2. ASSUME NEW c, FileOK(c, given)
      PROVE  FileOK(c, given2)
  <2>1. c.count \in -1..MaxMsgs
    BY <1>2 DEF FileOK, Content
  <2>2. c.count <= given2
    BY <1>2, <2>1, DeliveryAssumption DEF FileOK
  <2> QED BY <1>2, <2>2 DEF FileOK
<1> QED BY <1>1, <1>2

LEMMA RestOK == TypeInv => \A last \in Nat, given \in Nat : ProcOK(AtRest, last, given)
  BY DeliveryAssumption DEF ProcOK, AtRest, Sender, Fresh, Content, NoFile, Inode, Counting

\* One sender moves on; unless it begins, it gives up its place among the early
\* ones or keeps it.
LEMMA OneMoves ==
  ASSUME TypeInv, NEW p \in Process, UNCHANGED lastId,
         \A q \in Process \ {p} : proc'[q] = proc[q],
         proc'[p].at \in Early => proc[p].at \in Early
  PROVE  /\ Cardinality(Pre') <= lastId' /\ Given' \in Nat /\ Given <= Given'
         /\ proc[p].at \in Early /\ proc'[p].at \notin Early => Given' = Given + 1
<1>1. /\ Pre \in SUBSET Process /\ IsFiniteSet(Pre) /\ Cardinality(Pre) \in Nat
      /\ Cardinality(Pre) <= lastId /\ lastId \in Nat
  BY PreFinite, GivenType, DeliveryAssumption DEF TypeInv
<1>2. CASE proc[p].at \in Early /\ proc'[p].at \notin Early
  <2>1. Pre' = Pre \ {p} /\ p \in Pre
    BY <1>2 DEF Pre
  <2>2. Cardinality(Pre') = Cardinality(Pre) - 1
    BY <1>1, <2>1, FS_RemoveElement
  <2> QED BY <1>1, <1>2, <2>2 DEF Given
<1>3. CASE ~(proc[p].at \in Early /\ proc'[p].at \notin Early)
  <2>1. Pre' = Pre
    BY <1>3 DEF Pre
  <2>2. Given' = Given
    BY <2>1 DEF Given
  <2> QED BY <1>1, <1>3, <2>1, <2>2 DEF Given
<1> QED BY <1>2, <1>3

\* The part of TypeOK that is not about senders and files.
BoxesOK ==
  /\ live \subseteq End /\ facts \subseteq live /\ archived \subseteq End
  /\ inbox \in [End -> SUBSET Message] /\ buried \in [End -> SUBSET Message]
  /\ logged \subseteq Message
  /\ counted \in Seq(Message)
  /\ overlapped \in BOOLEAN /\ overtaken \in BOOLEAN

PathsOK ==
  /\ path \in Inode \cup {NoFile} /\ tmp \in Inode \cup {NoFile}
  /\ path # NoFile => path # tmp

\* TypeInv after a step of one sender, part by part.
LEMMA TypeAfterMove ==
  ASSUME TypeInv, NEW p \in Process, UNCHANGED lastId, BoxesOK', PathsOK',
         DOMAIN proc' = Process, proc' = [q \in Process |-> proc'[q]],
         \A q \in Process \ {p} : proc'[q] = proc[q],
         proc'[p].at \in Early => proc[p].at \in Early,
         ProcOK(proc'[p], lastId, Given'),
         content' \in [Inode -> Content],
         \A i \in Inode : FileOK(content'[i], Given')
  PROVE  TypeInv'
<1>1. /\ Cardinality(Pre') <= lastId' /\ Given' \in Nat /\ Given <= Given'
      /\ Given \in Nat /\ lastId \in Nat
  BY OneMoves, GivenType
<1>2. \A q \in Process : ProcOK(proc'[q], lastId', Given')
  BY <1>1, Grows DEF TypeInv
<1>3. /\ proc' \in [Process -> Sender]
      /\ \A q \in Process : proc'[q].fd # NoFile <=> proc'[q].at = "write"
  BY <1>2 DEF ProcOK
<1>4. lastId' \in 0..MaxMsgs
  BY DEF TypeInv, TypeOK
<1>5. TypeOK'
  BY <1>3, <1>4 DEF TypeOK, BoxesOK, PathsOK
<1> QED BY <1>1, <1>2, <1>5 DEF TypeInv

\* Most steps of a sender do not touch the files.
LEMMA TypeAfterQuietMove ==
  ASSUME TypeInv, NEW p \in Process, NEW r, UNCHANGED <<lastId, files>>, BoxesOK',
         proc' = [proc EXCEPT ![p] = r],
         r.at \in Early => proc[p].at \in Early,
         ProcOK(r, lastId, Given)
  PROVE  TypeInv'
<1>1. /\ proc'[p] = r /\ DOMAIN proc' = Process /\ proc' = [q \in Process |-> proc'[q]]
      /\ \A q \in Process \ {p} : proc'[q] = proc[q]
  BY DEF TypeInv, TypeOK
<1>2. /\ Given' \in Nat /\ Given <= Given' /\ Given \in Nat
      /\ ProcOK(r, lastId, Given')
  <2>1. Given' \in Nat /\ Given <= Given' /\ Given \in Nat /\ lastId \in Nat
    BY <1>1, OneMoves, GivenType
  <2> QED BY <2>1, Grows
<1>3. \A i \in Inode : FileOK(content'[i], Given')
  BY <1>2, Grows DEF TypeInv, files
<1>4. content' \in [Inode -> Content] /\ PathsOK'
  BY DEF TypeInv, TypeOK, files, PathsOK
<1> QED BY <1>1, <1>2, <1>3, <1>4, TypeAfterMove

LEMMA ReadEdgeOK ==
  ASSUME TypeInv
  PROVE  /\ ReadEdge \in Content /\ ReadEdge.count \in 0..Given
         /\ ReadEdge = Fresh \/ (ReadEdge.count >= 1 /\ ReadEdge.limit # NoLimit)
<1>1. Fresh \in Content /\ Fresh.count = 0
  BY DeliveryAssumption DEF Fresh, Content
<1>2. Given \in Nat
  BY GivenType
<1>3. CASE path = NoFile \/ content[path] = Torn
  BY <1>1, <1>2, <1>3 DEF ReadEdge
<1>4. CASE path # NoFile /\ content[path] # Torn
  <2>1. path \in Inode /\ ReadEdge = content[path]
    BY <1>4 DEF TypeInv, TypeOK, ReadEdge
  <2>2. FileOK(content[path], Given)
    BY <2>1 DEF TypeInv
  <2> QED BY <1>2, <1>4, <2>1, <2>2 DEF FileOK, Content
<1> QED BY <1>3, <1>4
LEMMA TypeInit == Init => TypeInv
<1> SUFFICES ASSUME Init PROVE TypeInv
  OBVIOUS
<1>1. Pre = {}
  BY DEF Init, Pre, AtRest, Early
<1>2. Cardinality(Pre) = 0 /\ Given = 0 /\ lastId = 0
  <2>1. Cardinality(Pre) = 0
    BY <1>1, FS_EmptySet
  <2> QED BY <2>1 DEF Given, Init
<1>3. Torn \in Content /\ FileOK(Torn, 0)
  BY DeliveryAssumption DEF Torn, Content, FileOK
<1>4. ProcOK(AtRest, 0, 0)
  BY DeliveryAssumption
     DEF ProcOK, AtRest, Sender, Fresh, Content, NoFile, Inode, Counting
<1>5. AtRest \in Sender /\ AtRest.fd = NoFile /\ AtRest.at # "write"
  BY <1>4 DEF ProcOK, AtRest
<1>6. TypeOK
  <2>1. content \in [Inode -> Content] /\ proc \in [Process -> Sender]
    BY <1>3, <1>5 DEF Init
  <2>2. \A p \in Process : proc[p].fd # NoFile <=> proc[p].at = "write"
    BY <1>5 DEF Init
  <2>3. lastId \in 0..MaxMsgs
    BY DeliveryAssumption DEF Init
  <2>4. counted \in Seq(Message)
    BY DEF Init
  <2>5. path = NoFile /\ tmp = NoFile
    BY DEF Init
  <2>6. BoxesOK
    BY <2>4 DEF Init, BoxesOK
  <2> QED BY <2>1, <2>2, <2>3, <2>5, <2>6 DEF TypeOK, BoxesOK
<1> QED BY <1>2, <1>3, <1>4, <1>6 DEF TypeInv, Init

\* A sender has a file to open: one of the inodes is free.
LEMMA InodeLeft ==
  ASSUME TypeInv, NEW p \in Process, proc[p].at = "open", tmp = NoFile
  PROVE  Unused # {}
<1> DEFINE held == {proc[q].fd : q \in Process \ {p}}
           used == held \cup {path}
<1>1. /\ IsFiniteSet(Process) /\ Cardinality(Process) \in Nat
      /\ IsFiniteSet(Process \ {p})
      /\ Cardinality(Process \ {p}) = Cardinality(Process) - 1
  BY DeliveryAssumption, FS_CardinalityType, FS_RemoveElement
<1>2. IsFiniteSet(held) /\ Cardinality(held) <= Cardinality(Process) - 1
  <2> DEFINE f == [q \in Process \ {p} |-> proc[q].fd]
  <2>1. f \in Surjection(Process \ {p}, held)
    BY DEF Surjection
  <2> HIDE DEF f, held
  <2> QED BY <1>1, <2>1, FS_Surjection
<1>3. IsFiniteSet(used) /\ Cardinality(used) <= Cardinality(Process)
  <2> HIDE DEF held
  <2>1. Cardinality(held) \in Nat
    BY <1>2, FS_CardinalityType
  <2>2. /\ IsFiniteSet(used)
        /\ Cardinality(used) = Cardinality(held) \/ Cardinality(used) = Cardinality(held) + 1
    BY <1>2, FS_AddElement
  <2> QED BY <1>1, <1>2, <2>1, <2>2
<1>4. Cardinality(Inode) = Cardinality(Process) + 2 /\ IsFiniteSet(Inode)
  BY <1>1, FS_Interval DEF Inode
<1>5. ~(Inode \subseteq used)
  <2> HIDE DEF used
  <2>1. Cardinality(used) \in Nat
    BY <1>3, FS_CardinalityType
  <2> QED BY <1>1, <1>3, <1>4, <2>1, FS_Subset
<1>6. PICK i \in Inode : i \notin used
  BY <1>5
<1>7. proc[p].fd = NoFile /\ i # NoFile
  BY DEF TypeInv, TypeOK, Inode, NoFile
<1>8. \A q \in Process : proc[q].fd # i
  BY <1>6, <1>7
<1> QED BY <1>6, <1>7, <1>8 DEF Unused

\* The inode a sender opens is not the edge file.
LEMMA OpenedInode ==
  ASSUME TypeInv, NEW p \in Process, BumpOpens(p)
  PROVE  /\ tmp' \in Inode /\ tmp' # path /\ tmp' # NoFile
         /\ content' = [content EXCEPT ![tmp'] = Torn]
         /\ proc' = [proc EXCEPT ![p] = [proc[p] EXCEPT !.fd = tmp', !.at = "write"]]
<1>1. tmp \in Inode \cup {NoFile} /\ (path # NoFile => path # tmp)
  BY DEF TypeInv, TypeOK
<1>2. tmp' = IF tmp # NoFile THEN tmp ELSE CHOOSE j \in Unused : TRUE
  BY DEF BumpOpens
<1>3. \A i \in Inode : i # NoFile
  BY DEF Inode, NoFile
<1>4. tmp' \in Inode /\ tmp' # path
  <2>1. CASE tmp # NoFile
    BY <1>1, <1>2, <2>1
  <2>2. CASE tmp = NoFile
    <3>1. Unused # {}
      BY <2>2, InodeLeft DEF BumpOpens
    <3>2. tmp' \in Unused
      BY <1>2, <2>2, <3>1
    <3> QED BY <3>2 DEF Unused
  <2> QED BY <2>1, <2>2
<1>5. content' = [content EXCEPT ![tmp'] = Torn]
  BY DEF BumpOpens
<1>6. proc' = [proc EXCEPT ![p] = [proc[p] EXCEPT !.fd = tmp', !.at = "write"]]
  <2>1. proc' = [proc EXCEPT ![p].fd = tmp', ![p].at = "write"]
    BY DEF BumpOpens
  <2> QED BY <2>1 DEF TypeInv, TypeOK
<1> QED BY <1>3, <1>4, <1>5, <1>6

\* The text of one more message is well formed.
LEMMA BumpedOK ==
  ASSUME TypeInv, NEW p \in Process, proc[p].at \in {"write", "rename"}
  PROVE  /\ Bumped(p).count = proc[p].edge.count + 1
         /\ Bumped(p).count <= MaxMsgs => FileOK(Bumped(p), proc[p].edge.count + 1)
         /\ Bumped(p) # Torn
<1>1. /\ proc[p].edge \in Content /\ proc[p].edge.count \in Nat
      /\ proc[p].id \in 1..MaxMsgs /\ proc[p].answers \in 0..MaxMsgs
      /\ proc[p].expects \in BOOLEAN
  <2>1. ProcOK(proc[p], lastId, Given)
    BY DEF TypeInv
  <2>2. lastId \in 0..MaxMsgs /\ Given \in 0..lastId
    BY GivenType
  <2> QED BY <2>1, <2>2, DeliveryAssumption DEF ProcOK, Sender
<1>2. Declared[From[p]] \in Nat
  BY DeliveryAssumption
<1> DEFINE c == Bumped(p)
<1>3. /\ c.count = proc[p].edge.count + 1
      /\ c.limit \in Nat \cup {NoLimit} /\ c.limit # NoLimit
      /\ c.open \in SUBSET (1..MaxMsgs)
  BY <1>1, <1>2 DEF Bumped, Content, NoLimit
<1>4. c = [count |-> c.count, limit |-> c.limit, open |-> c.open]
  BY DEF Bumped
<1>5. c # Torn
  BY <1>1, <1>3 DEF Torn
<1>6. c.count <= MaxMsgs => FileOK(c, proc[p].edge.count + 1)
  <2> HIDE DEF c
  <2> SUFFICES ASSUME c.count <= MaxMsgs PROVE FileOK(c, proc[p].edge.count + 1)
    OBVIOUS
  <2>1. c.count \in -1..MaxMsgs /\ c.count >= 1 /\ c.count <= proc[p].edge.count + 1
    BY <1>1, <1>3, DeliveryAssumption
  <2>2. c \in Content
    BY <1>3, <1>4, <2>1 DEF Content
  <2> QED BY <1>3, <2>1, <2>2 DEF FileOK
<1> QED BY <1>3, <1>5, <1>6
LEMMA SentOK ==
  ASSUME TypeInv, NEW p \in Process, proc[p].at \in {"rename", "deliver", "log"}
  PROVE  Sent(p) \in Message
<1>1. ProcOK(proc[p], lastId, Given) /\ Given \in 0..lastId /\ lastId \in 0..MaxMsgs
  BY GivenType DEF TypeInv
<1>2. proc[p].id \in 1..MaxMsgs /\ proc[p].answers \in 0..MaxMsgs
      /\ proc[p].expects \in BOOLEAN
  BY <1>1, DeliveryAssumption DEF ProcOK, Sender
<1>3. (IF proc[p].peer THEN proc[p].edge.count + 1 ELSE 0) \in 0..MaxMsgs
  BY <1>1, DeliveryAssumption DEF ProcOK
<1> QED BY <1>2, <1>3, OtherEnd DEF Sent, Message

LEMMA TypeStep == TypeInv /\ [Next]_vars => TypeInv'
<1> SUFFICES ASSUME TypeInv, [Next]_vars
             PROVE  TypeInv'
  OBVIOUS
<1>0. /\ BoxesOK /\ PathsOK /\ lastId \in 0..MaxMsgs /\ Given \in 0..lastId
      /\ proc \in [Process -> Sender] /\ content \in [Inode -> Content]
      /\ \A p \in Process : ProcOK(proc[p], lastId, Given)
      /\ \A i \in Inode : FileOK(content[i], Given)
      /\ \A last \in Nat, given \in Nat : ProcOK(AtRest, last, given)
  <2>1. BoxesOK /\ PathsOK
    BY DEF TypeInv, TypeOK, BoxesOK, PathsOK
  <2> QED BY <2>1, GivenType, RestOK DEF TypeInv, TypeOK
<1>a. lastId \in Nat /\ Given \in Nat /\ MaxMsgs \in Nat
  BY <1>0, DeliveryAssumption
<1>1. ASSUME NEW p \in Process, UNCHANGED <<lastId, files>>, BoxesOK', Return(p)
      PROVE  TypeInv'
  <2>1. AtRest.at \notin Early
    BY DEF AtRest, Early
  <2> QED BY <1>0, <1>a, <1>1, <2>1, TypeAfterQuietMove DEF Return
<1>2. ASSUME NEW p \in Process, NEW at, UNCHANGED <<lastId, files>>, BoxesOK',
             Goto(p, at), at \in Early => proc[p].at \in Early,
             at \in {"spent", "dirs", "read", "deliver", "log"},
             proc[p].at \notin {"rest", "write"},
             proc[p].peer /\ at \in {"deliver", "log"} =>
               proc[p].at \in {"rename", "deliver"}
      PROVE  TypeInv'
  <2> DEFINE r == [proc[p] EXCEPT !.at = at]
  <2>1. proc' = [proc EXCEPT ![p] = r]
    BY <1>2 DEF Goto
  <2>2. r.at = at /\ ProcOK(r, lastId, Given)
    <3>1. ProcOK(proc[p], lastId, Given)
      BY <1>0
    <3> QED BY <1>2, <3>1 DEF ProcOK, Sender, Counting
  <2> HIDE DEF r
  <2> QED BY <1>2, <2>1, <2>2, TypeAfterQuietMove
<1>3. ASSUME NEW p \in Process, NEW expects \in BOOLEAN,
             NEW answers \in {0} \cup Owed(From[p]), Begin(p, answers, expects)
      PROVE  TypeInv'
  <2> DEFINE r == [AtRest EXCEPT !.at = "check", !.id = lastId + 1,
                                 !.answers = answers, !.expects = expects]
  <2>1. /\ proc' = [proc EXCEPT ![p] = r] /\ lastId' = lastId + 1 /\ lastId < MaxMsgs
        /\ proc[p].at = "rest" /\ UNCHANGED <<boxes, files, ghosts>>
    BY <1>3 DEF Begin
  <2>2. answers \in 0..MaxMsgs
    <3>1. From[p] \in End
      BY DeliveryAssumption
    <3> QED BY <1>0, <1>a, <3>1 DEF Owed, BoxesOK, Message
  <2>3. lastId' \in 0..MaxMsgs /\ lastId' \in Nat /\ lastId <= lastId'
    BY <1>0, <1>a, <2>1
  <2>4. r.at = "check" /\ ProcOK(r, lastId', Given)
    <3>1. ProcOK(AtRest, 0, Given)
      BY <1>0, <1>a
    <3>2. lastId + 1 \in 1..lastId' /\ lastId + 1 \in 0..MaxMsgs
      BY <1>a, <2>1, <2>3
    <3>3. AtRest.fd = NoFile
      BY DEF AtRest
    <3> QED BY <1>3, <2>2, <3>1, <3>2, <3>3 DEF ProcOK, Sender, AtRest
  <2> HIDE DEF r
  <2>5. Given' = Given /\ Cardinality(Pre') <= lastId'
    <3>1. Pre' = Pre \cup {p} /\ p \notin Pre
      BY <1>0, <2>1, <2>4 DEF Pre, Early
    <3>2. Cardinality(Pre') = Cardinality(Pre) + 1 /\ Cardinality(Pre) \in Nat
      BY <3>1, PreFinite, FS_AddElement
    <3> QED BY <1>a, <2>1, <3>2 DEF Given, TypeInv
  <2>6. \A q \in Process : ProcOK(proc'[q], lastId', Given')
    BY <1>0, <1>a, <2>1, <2>3, <2>4, <2>5, Grows
  <2>7. TypeOK'
    <3>1. proc' \in [Process -> Sender]
          /\ \A q \in Process : proc'[q].fd # NoFile <=> proc'[q].at = "write"
      BY <1>0, <2>1, <2>6 DEF ProcOK
    <3> QED BY <1>0, <2>1, <2>3, <3>1 DEF TypeOK, BoxesOK, PathsOK, boxes, files, ghosts
  <2> QED BY <1>0, <2>1, <2>5, <2>6, <2>7 DEF TypeInv, files
<1>4. ASSUME NEW p \in Process, CheckRecipient(p)
      PROVE  TypeInv'
  <2>1. BoxesOK' /\ UNCHANGED <<lastId, files>>
    BY <1>0, <1>4 DEF CheckRecipient, BoxesOK, boxes, ghosts
  <2>2. CASE Reaped(To(p))
    BY <1>1, <1>4, <2>1, <2>2 DEF CheckRecipient
  <2>3. CASE ~Reaped(To(p))
    <3> DEFINE peer == HasFacts(From[p]) /\ HasFactsResolved(To(p))
               at == IF peer THEN "spent" ELSE "dirs"
               r == [proc[p] EXCEPT !.peer = peer, !.at = at]
    <3>1. proc' = [proc EXCEPT ![p] = r]
      <4>1. proc' = [proc EXCEPT ![p].peer = peer, ![p].at = at]
        BY <1>4, <2>3 DEF CheckRecipient
      <4> HIDE DEF peer, at
      <4> QED BY <1>0, <4>1
    <3>2. peer \in BOOLEAN
      BY <1>0, OtherEnd DEF HasFacts, HasFactsResolved
    <3>3. at \in {"spent", "dirs"}
      OBVIOUS
    <3>4. proc[p].at = "check"
      BY <1>4 DEF CheckRecipient
    <3> HIDE DEF peer, at
    <3>5. ProcOK(r, lastId, Given) /\ (r.at \in Early => proc[p].at \in Early)
      BY <1>0, <3>2, <3>3, <3>4 DEF ProcOK, Sender, Counting, Early
    <3> HIDE DEF r
    <3> QED BY <2>1, <3>1, <3>5, TypeAfterQuietMove
  <2> QED BY <2>2, <2>3
<1>5. ASSUME NEW p \in Process, CheckSpent(p)
      PROVE  TypeInv'
  <2>1. /\ BoxesOK' /\ UNCHANGED <<lastId, files>> /\ proc[p].at = "spent"
        /\ Return(p) \/ Goto(p, "dirs")
    BY <1>0, <1>5 DEF CheckSpent, BoxesOK, boxes
  <2> QED BY <1>1, <1>2, <2>1 DEF Early
<1>6. ASSUME NEW p \in Process, EnsureMailboxes(p)
      PROVE  TypeInv'
  <2>1. BoxesOK'
    BY <1>0, <1>6, OtherEnd DEF EnsureMailboxes, BoxesOK, ghosts
  <2>2. /\ UNCHANGED <<lastId, files>> /\ proc[p].at = "dirs"
        /\ Goto(p, IF proc[p].peer THEN "read" ELSE "deliver")
    BY <1>6 DEF EnsureMailboxes
  <2>3. CASE proc[p].peer
    BY <1>2, <2>1, <2>2, <2>3 DEF Early
  <2>4. CASE ~proc[p].peer
    BY <1>2, <2>1, <2>2, <2>4 DEF Early
  <2> QED BY <2>3, <2>4
<1>7. ASSUME NEW p \in Process, BumpReads(p)
      PROVE  TypeInv'
  <2> DEFINE r == [proc[p] EXCEPT !.edge = ReadEdge, !.at = "open"]
  <2>1. BoxesOK' /\ UNCHANGED <<lastId, files>> /\ proc[p].at = "read"
    BY <1>0, <1>7 DEF BumpReads, BoxesOK, boxes, ghosts
  <2>2. proc' = [proc EXCEPT ![p] = r]
    <3>1. proc' = [proc EXCEPT ![p].edge = ReadEdge, ![p].at = "open"]
      BY <1>7 DEF BumpReads
    <3> QED BY <1>0, <3>1
  <2>3. ProcOK(r, lastId, Given) /\ (r.at \in Early => proc[p].at \in Early)
    BY <1>0, <2>1, ReadEdgeOK DEF ProcOK, Sender, Counting, Early
  <2> HIDE DEF r
  <2> QED BY <2>1, <2>2, <2>3, TypeAfterQuietMove
<1>8. ASSUME NEW p \in Process, BumpOpens(p)
      PROVE  TypeInv'
  <2> DEFINE r == [proc[p] EXCEPT !.fd = tmp', !.at = "write"]
  <2>1. /\ BoxesOK' /\ UNCHANGED <<path, lastId>> /\ proc[p].at = "open"
    BY <1>0, <1>8 DEF BumpOpens, BoxesOK, boxes, ghosts
  <2>2. /\ tmp' \in Inode /\ tmp' # path /\ tmp' # NoFile
        /\ content' = [content EXCEPT ![tmp'] = Torn]
        /\ proc' = [proc EXCEPT ![p] = r]
    BY <1>8, OpenedInode
  <2>3. r.at = "write" /\ ProcOK(r, lastId, Given)
    BY <1>0, <2>1, <2>2 DEF ProcOK, Sender, Counting
  <2> HIDE DEF r
  <2>4. /\ proc'[p] = r /\ DOMAIN proc' = Process /\ proc' = [q \in Process |-> proc'[q]]
        /\ \A q \in Process \ {p} : proc'[q] = proc[q]
        /\ proc'[p].at \in Early => proc[p].at \in Early
    BY <1>0, <2>1, <2>2, <2>3 DEF Early
  <2>5. Given' \in Nat /\ Given <= Given'
    BY <2>1, <2>4, OneMoves
  <2>6. ProcOK(proc'[p], lastId, Given')
    BY <1>a, <2>3, <2>4, <2>5, Grows
  <2>7. Torn \in Content /\ FileOK(Torn, Given')
    BY <1>a, <2>5 DEF Torn, Content, FileOK
  <2>8. /\ content' \in [Inode -> Content]
        /\ \A i \in Inode : FileOK(content'[i], Given')
    BY <1>0, <1>a, <2>2, <2>5, <2>7, Grows
  <2>9. PathsOK'
    BY <1>0, <2>1, <2>2 DEF PathsOK
  <2> QED BY <2>1, <2>4, <2>6, <2>8, <2>9, TypeAfterMove
<1>9. ASSUME NEW p \in Process, BumpWrites(p)
      PROVE  TypeInv'
  <2> DEFINE r == [proc[p] EXCEPT !.fd = NoFile, !.at = "rename"]
  <2>1. /\ BoxesOK' /\ UNCHANGED <<path, tmp, lastId>> /\ proc[p].at = "write"
    BY <1>0, <1>9 DEF BumpWrites, BoxesOK, boxes, ghosts
  <2>2. proc' = [proc EXCEPT ![p] = r]
    <3>1. proc' = [proc EXCEPT ![p].fd = NoFile, ![p].at = "rename"]
      BY <1>9 DEF BumpWrites
    <3> QED BY <1>0, <3>1
  <2>3. r.at = "rename"
    BY <1>0 DEF Sender
  <2>4. /\ proc'[p] = r /\ DOMAIN proc' = Process /\ proc' = [q \in Process |-> proc'[q]]
        /\ \A q \in Process \ {p} : proc'[q] = proc[q]
        /\ proc'[p].at \in Early => proc[p].at \in Early
    BY <1>0, <2>1, <2>2, <2>3 DEF Early
  <2>5. Given' = Given + 1 /\ Given' <= lastId /\ Given' \in Nat
    <3>1. Given' = Given + 1 /\ Cardinality(Pre') <= lastId' /\ Given' \in Nat
      <4>1. proc[p].at \in Early /\ proc'[p].at \notin Early
        BY <2>1, <2>3, <2>4 DEF Early
      <4> QED BY <2>1, <2>4, <4>1, OneMoves
    <3>2. Cardinality(Pre') \in Nat
      <4>1. Pre' \in SUBSET Process
        BY DEF Pre
      <4> QED BY <4>1, PreFinite
    <3>3. Given' = lastId - Cardinality(Pre')
      BY <2>1 DEF Given
    <3> QED BY <1>a, <3>1, <3>2, <3>3
  <2>6. ProcOK(r, lastId, Given')
    <3>1. ProcOK(proc[p], lastId, Given)
      BY <1>0
    <3>2. proc[p].edge.count \in 0..Given' /\ proc[p].edge.count + 1 <= Given'
      BY <1>a, <2>5, <3>1 DEF ProcOK
    <3>3. r \in Sender /\ r.fd = NoFile /\ r.edge = proc[p].edge /\ r.id = proc[p].id
      BY <1>0 DEF Sender, Counting
    <3> QED BY <2>1, <2>3, <3>1, <3>2, <3>3 DEF ProcOK
  <2> HIDE DEF r
  <2>7. proc[p].fd \in Inode /\ FileOK(Torn, Given') /\ FileOK(Bumped(p), Given')
        /\ FileOK(content[proc[p].fd], Given)
    <3>1. ProcOK(proc[p], lastId, Given)
      BY <1>0
    <3>2. proc[p].fd \in Inode
      BY <2>1, <3>1 DEF ProcOK, Sender
    <3>3. FileOK(Torn, Given')
      BY <1>a, <2>5 DEF Torn, Content, FileOK
    <3>4. proc[p].edge.count + 1 <= Given' /\ proc[p].edge.count + 1 \in Nat
      BY <1>a, <2>5, <3>1 DEF ProcOK
    <3>5. Bumped(p).count <= MaxMsgs
      BY <1>0, <1>a, <2>1, <2>5, <3>4, BumpedOK
    <3>6. FileOK(Bumped(p), Given')
      BY <2>1, <2>5, <3>4, <3>5, BumpedOK, Grows
    <3> QED BY <1>0, <3>2, <3>3, <3>6
  <2>8. PICK text : /\ content' = [content EXCEPT ![proc[p].fd] = text]
                    /\ text = Bumped(p) \/ text = Torn
    BY <1>9 DEF BumpWrites
  <2>9. /\ content' \in [Inode -> Content]
        /\ \A i \in Inode : FileOK(content'[i], Given')
    <3>1. \A i \in Inode : FileOK(content[i], Given')
      BY <1>0, <1>a, <2>5, Grows
    <3>2. \A i \in Inode : FileOK(content'[i], Given')
      BY <1>0, <2>7, <2>8, <3>1
    <3> QED BY <1>0, <2>8, <3>2 DEF FileOK
  <2>10. PathsOK'
    BY <1>0, <2>1 DEF PathsOK
  <2>11. ProcOK(proc'[p], lastId, Given')
    BY <2>4, <2>6
  <2> QED BY <2>1, <2>4, <2>9, <2>10, <2>11, TypeAfterMove
<1>10. ASSUME NEW p \in Process, BumpRenames(p)
      PROVE  TypeInv'
  <2>1. /\ proc[p].at = "rename" /\ UNCHANGED <<boxes, content, lastId, overlapped, overtaken>>
        /\ ProcOK(proc[p], lastId, Given)
    BY <1>0, <1>10 DEF BumpRenames
  <2>2. BoxesOK'
    <3>1. counted' \in {counted, Append(counted, Sent(p))}
      BY <1>10 DEF BumpRenames
    <3>2. Sent(p) \in Message
      BY <2>1, SentOK
    <3>3. counted' \in Seq(Message)
      BY <1>0, <3>1, <3>2 DEF BoxesOK
    <3> QED BY <1>0, <2>1, <3>3 DEF BoxesOK, boxes
  <2>3. CASE tmp = NoFile
    BY <1>1, <1>10, <2>1, <2>2, <2>3 DEF BumpRenames, files
  <2>4. CASE tmp # NoFile
    <3> DEFINE r == [proc[p] EXCEPT !.at = "deliver"]
    <3>1. path' = tmp /\ tmp' = NoFile /\ proc' = [proc EXCEPT ![p] = r]
      BY <1>10, <2>4 DEF BumpRenames, Goto
    <3>2. r.at = "deliver" /\ ProcOK(r, lastId, Given)
      BY <2>1 DEF ProcOK, Sender
    <3> HIDE DEF r
    <3>3. /\ proc'[p] = r /\ DOMAIN proc' = Process /\ proc' = [q \in Process |-> proc'[q]]
          /\ \A q \in Process \ {p} : proc'[q] = proc[q]
          /\ proc'[p].at \in Early => proc[p].at \in Early
      BY <1>0, <3>1, <3>2 DEF Early
    <3>4. Given' \in Nat /\ Given <= Given'
      BY <2>1, <3>3, OneMoves
    <3>5. ProcOK(proc'[p], lastId, Given')
      BY <1>a, <3>2, <3>3, <3>4, Grows
    <3>6. content' \in [Inode -> Content] /\ \A i \in Inode : FileOK(content'[i], Given')
      BY <1>0, <1>a, <2>1, <3>4, Grows
    <3>7. PathsOK'
      BY <1>0, <2>4, <3>1 DEF PathsOK
    <3> QED BY <2>1, <2>2, <3>3, <3>5, <3>6, <3>7, TypeAfterMove
  <2> QED BY <2>3, <2>4
<1>11. ASSUME NEW p \in Process, proc[p].at \in {"deliver", "log"}
       PROVE  Sent(p) \in Message
  BY <1>11, SentOK
<1>12. ASSUME NEW p \in Process, Deliver(p)
      PROVE  TypeInv'
  <2>1. Sent(p) \in Message /\ proc[p].at = "deliver"
    BY <1>11, <1>12 DEF Deliver
  <2>2. BoxesOK'
    BY <1>0, <1>12, <2>1 DEF Deliver, BoxesOK, ghosts
  <2>3. UNCHANGED <<lastId, files>> /\ (Return(p) \/ Goto(p, "log"))
    BY <1>12 DEF Deliver
  <2> QED BY <1>1, <1>2, <2>1, <2>2, <2>3 DEF Early
<1>13. ASSUME NEW p \in Process, Log(p)
      PROVE  TypeInv'
  <2>1. Sent(p) \in Message
    BY <1>11, <1>13 DEF Log
  <2>2. BoxesOK'
    BY <1>0, <1>13, <2>1 DEF Log, BoxesOK, ghosts
  <2> QED BY <1>1, <1>13, <2>2 DEF Log
<1>14. ASSUME NEW p \in Process, Die(p)
      PROVE  TypeInv'
  <2>1. BoxesOK'
    BY <1>0, <1>14 DEF Die, BoxesOK, boxes, ghosts
  <2> QED BY <1>1, <1>14, <2>1 DEF Die
<1>15. ASSUME NEW n \in End, Reap(n)
      PROVE  TypeInv'
  <2>1. BoxesOK'
    BY <1>0, <1>15 DEF Reap, BoxesOK
  <2>2. /\ UNCHANGED <<files, lastId>>
        /\ proc' = [p \in Process |-> IF From[p] = n THEN AtRest ELSE proc[p]]
    BY <1>15 DEF Reap
  <2>3. Pre' \subseteq Pre
    BY <2>2 DEF Pre, AtRest, Early
  <2>4. Cardinality(Pre') <= Cardinality(Pre) /\ Cardinality(Pre') \in Nat
        /\ Cardinality(Pre) \in Nat
    <3>1. Pre \in SUBSET Process /\ IsFiniteSet(Pre) /\ Pre' \in SUBSET Process
      BY <2>3, PreFinite
    <3> QED BY <2>3, <3>1, PreFinite, FS_Subset
  <2>5. Given' \in Nat /\ Given <= Given' /\ Cardinality(Pre') <= lastId'
    <3>1. Cardinality(Pre) <= lastId
      BY DEF TypeInv
    <3> QED BY <1>a, <2>2, <2>4, <3>1 DEF Given
  <2>6. \A p \in Process : ProcOK(proc'[p], lastId', Given')
    BY <1>0, <1>a, <2>2, <2>5, Grows
  <2>7. \A i \in Inode : FileOK(content'[i], Given')
    BY <1>0, <1>a, <2>2, <2>5, Grows DEF files
  <2>8. TypeOK'
    <3>1. proc' \in [Process -> Sender]
          /\ \A q \in Process : proc'[q].fd # NoFile <=> proc'[q].at = "write"
      BY <2>2, <2>6 DEF ProcOK
    <3> QED BY <1>0, <2>1, <2>2, <3>1 DEF TypeOK, BoxesOK, PathsOK, files
  <2> QED BY <2>5, <2>6, <2>7, <2>8 DEF TypeInv
<1>16. CASE UNCHANGED vars
  <2>1. Pre' = Pre
    BY <1>16 DEF vars, Pre
  <2>2. Given' = Given
    BY <1>16, <2>1 DEF vars, Given
  <2>3. TypeOK'
    BY <1>16 DEF TypeInv, TypeOK, vars, boxes, files, ghosts
  <2> QED BY <1>16, <2>1, <2>2, <2>3 DEF TypeInv, vars, files
<1> QED
  BY <1>3, <1>4, <1>5, <1>6, <1>7, <1>8, <1>9, <1>10, <1>12, <1>13, <1>14, <1>15, <1>16
     DEF Next, SendStep

\* Every reachable state is well typed: the sum of what is counted never outruns
\* the senders, however many overwrite each other's files and wherever they die.
THEOREM TypeCorrect == Spec => []TypeOK
<1>1. TypeInv => TypeOK
  BY DEF TypeInv
<1> QED BY <1>1, TypeInit, TypeStep, PTL DEF Spec

-----------------------------------------------------------------------------
(* What is in the mailboxes, live and archived. *)

\* An agent that was never reaped has its mailbox and nothing archived; what a
\* sender is about to log has arrived; the senders that run are of agents that
\* were not reaped.
BoxInv ==
  /\ \A n \in End \ archived : n \in live /\ n \in facts /\ buried[n] = {}
  /\ \A p \in Process : proc[p].at = "log" => Sent(p) \in Crossed
  /\ logged \subseteq Crossed
  /\ \A p \in Process : proc[p].at # "rest" => From[p] \notin archived

LEMMA BoxInit == Init => BoxInv
  BY DEF Init, BoxInv, AtRest

LEMMA OneDelivers ==
  ASSUME TypeInv, NEW p \in Process, NEW q \in Process, Deliver(p), Deliver(q)
  PROVE  p = q
<1> SUFFICES ASSUME p # q PROVE FALSE
  OBVIOUS
<1>1. proc[p].at = "deliver" /\ proc[q].at = "deliver" /\ proc \in [Process -> Sender]
  BY DEF Deliver, TypeInv, TypeOK
<1>2. proc' = [proc EXCEPT ![p] = AtRest] \/ proc' = [proc EXCEPT ![p].at = "log"]
  BY DEF Deliver, Return, Goto
<1>3. proc' = [proc EXCEPT ![q] = AtRest] \/ proc' = [proc EXCEPT ![q].at = "log"]
  BY DEF Deliver, Return, Goto
<1>4. proc'[q] = proc[q]
  BY <1>1, <1>2
<1>5. proc'[q].at # "deliver"
  BY <1>1, <1>3 DEF AtRest, Sender
<1> QED BY <1>1, <1>4, <1>5

LEMMA ReapKeeps ==
  ASSUME TypeInv, BoxInv, NEW n \in End, Reap(n)
  PROVE  Crossed' = Crossed
<1>1. /\ buried[n] = {} /\ buried \in [End -> SUBSET Message]
      /\ inbox \in [End -> SUBSET Message]
      /\ buried' = [buried EXCEPT ![n] = inbox[n]] /\ inbox' = [inbox EXCEPT ![n] = {}]
  BY DEF BoxInv, Reap, TypeInv, TypeOK
<1>2. \A k \in End : inbox'[k] \cup buried'[k] = inbox[k] \cup buried[k]
  BY <1>1
<1> QED BY <1>2 DEF Crossed

\* A message joins by its delivery and none ever leaves: a reap moves them.
LEMMA CrossedGrows ==
  ASSUME TypeInv, BoxInv, [Next]_vars
  PROVE  /\ Crossed \subseteq Crossed'
         /\ \A m \in Crossed' \ Crossed :
              \E p \in Process : Deliver(p) /\ To(p) \in live /\ m = Sent(p)
         /\ \A p \in Process : Deliver(p) /\ To(p) \in live => Sent(p) \in Crossed'
<1>0. inbox \in [End -> SUBSET Message] /\ buried \in [End -> SUBSET Message]
  BY DEF TypeInv, TypeOK
<1>1. CASE UNCHANGED <<inbox, buried>>
  <2>1. \A p \in Process : Deliver(p) /\ To(p) \in live => Sent(p) \in inbox'[To(p)]
    BY <1>0, OtherEnd DEF Deliver
  <2> QED BY <1>1, <2>1, OtherEnd DEF Crossed
<1>2. ASSUME NEW p \in Process, Deliver(p)
      PROVE  /\ Crossed \subseteq Crossed'
             /\ \A m \in Crossed' \ Crossed : To(p) \in live /\ m = Sent(p)
             /\ To(p) \in live => Sent(p) \in Crossed'
  <2>1. CASE To(p) \in live
    <3>1. /\ inbox' = [inbox EXCEPT ![To(p)] = @ \cup {Sent(p)}] /\ buried' = buried
          /\ To(p) \in End
      BY <1>2, <2>1, OtherEnd DEF Deliver
    <3>2. \A n \in End : inbox'[n] = IF n = To(p) THEN inbox[n] \cup {Sent(p)} ELSE inbox[n]
      BY <1>0, <3>1
    <3>3. Crossed' = Crossed \cup {Sent(p)}
      BY <3>1, <3>2 DEF Crossed
    <3> QED BY <2>1, <3>3
  <2>2. CASE To(p) \notin live
    BY <1>2, <2>2 DEF Deliver, Crossed
  <2> QED BY <2>1, <2>2
<1>3. ASSUME NEW n \in End, Reap(n)
      PROVE  Crossed' = Crossed
  BY <1>3, ReapKeeps
<1>4. \/ UNCHANGED <<inbox, buried>>
      \/ \E p \in Process : Deliver(p)
      \/ \E n \in End : Reap(n)
  BY DEF Next, SendStep, vars, boxes, Begin, CheckRecipient, CheckSpent, EnsureMailboxes,
         BumpReads, BumpOpens, BumpWrites, BumpRenames, Log, Die
<1> QED BY <1>1, <1>2, <1>3, <1>4, OneDelivers

\* What a step does to the sender p alone, and to the agents.
Sends(p) ==
  \/ SendStep(p) \/ Die(p)
  \/ \E expects \in BOOLEAN : \E answers \in {0} \cup Owed(From[p]) :
       Begin(p, answers, expects)

\* A step of one sender leaves the others where they are, and reaps nobody.
LEMMA OthersStay ==
  ASSUME TypeInv, NEW p \in Process, Sends(p)
  PROVE  /\ \A q \in Process \ {p} : proc'[q] = proc[q]
         /\ UNCHANGED <<archived, facts, buried, overtaken>> /\ live \subseteq live'
<1>1. \E r : proc' = [proc EXCEPT ![p] = r]
  BY Zenon DEF Sends, Begin, Die, SendStep, CheckRecipient, CheckSpent, EnsureMailboxes,
              BumpReads, BumpOpens, BumpWrites, BumpRenames, Deliver, Log, Return, Goto
<1>2. proc \in [Process -> Sender]
  BY DEF TypeInv, TypeOK
<1>3. UNCHANGED <<archived, facts, buried, overtaken>> /\ live \subseteq live'
  BY DEF Sends, Begin, Die, SendStep, CheckRecipient, CheckSpent, EnsureMailboxes,
         BumpReads, BumpOpens, BumpWrites, BumpRenames, Deliver, Log, boxes, ghosts
<1> QED BY <1>1, <1>2, <1>3

LEMMA StepKinds ==
  [Next]_vars => \/ \E p \in Process : Sends(p)
                 \/ \E n \in End : Reap(n)
                 \/ UNCHANGED vars
  BY DEF Next, Sends

LEMMA BoxStep == TypeInv /\ BoxInv /\ [Next]_vars => BoxInv'
<1> SUFFICES ASSUME TypeInv, BoxInv, [Next]_vars
             PROVE  BoxInv'
  OBVIOUS
<1>0. proc \in [Process -> Sender]
  BY DEF TypeInv, TypeOK
<1>1. ASSUME NEW q \in Process, proc'[q] = proc[q]
      PROVE  Sent(q)' = Sent(q)
  BY <1>1 DEF Sent, To
<1>2. \A n \in End \ archived' : n \in live' /\ n \in facts' /\ buried'[n] = {}
  <2>1. ASSUME NEW n \in End, Reap(n)
        PROVE  \A k \in End \ archived' : k \in live' /\ k \in facts' /\ buried'[k] = {}
    <3>1. /\ live' = live \ {n} /\ facts' = facts \ {n} /\ archived' = archived \cup {n}
          /\ buried' = [buried EXCEPT ![n] = inbox[n]] /\ buried \in [End -> SUBSET Message]
      BY <2>1 DEF Reap, TypeInv, TypeOK
    <3> QED BY <3>1 DEF BoxInv
  <2>2. CASE UNCHANGED <<facts, archived, buried>> /\ live \subseteq live'
    BY <2>2 DEF BoxInv
  <2> QED BY <2>1, <2>2, StepKinds, OthersStay DEF vars, boxes
<1>3. \A p \in Process : proc'[p].at = "log" => Sent(p)' \in Crossed'
  <2> SUFFICES ASSUME NEW p \in Process, proc'[p].at = "log"
               PROVE  Sent(p)' \in Crossed'
    OBVIOUS
  <2>1. CASE proc'[p] = proc[p]
    BY <1>1, <2>1, CrossedGrows DEF BoxInv
  <2>2. CASE Deliver(p)
    <3>1. To(p) \in live /\ proc' = [proc EXCEPT ![p].at = "log"]
      BY <1>0, <2>2 DEF Deliver, Return, Goto, AtRest
    <3>2. Sent(p)' = Sent(p)
      BY <1>0, <3>1 DEF Sent, To, Sender
    <3> QED BY <2>2, <3>1, <3>2, CrossedGrows
  <2>3. proc'[p] = proc[p] \/ Deliver(p)
    <3>1. CASE \E n \in End : Reap(n)
      BY <1>0, <3>1 DEF Reap, AtRest
    <3>2. ASSUME Sends(p), ~Deliver(p)
          PROVE  FALSE
      <4>1. ~\E expects \in BOOLEAN : \E answers \in {0} \cup Owed(From[p]) :
               Begin(p, answers, expects)
        BY <1>0 DEF Begin, AtRest
      <4>2. ~Die(p) /\ ~Log(p) /\ ~CheckRecipient(p)
        BY <1>0 DEF Die, Log, CheckRecipient, Return, AtRest, Sender
      <4>3. ~CheckSpent(p) /\ ~EnsureMailboxes(p) /\ ~BumpReads(p)
        BY <1>0 DEF CheckSpent, EnsureMailboxes, BumpReads, Return, Goto, AtRest, Sender
      <4>4. ~BumpOpens(p) /\ ~BumpWrites(p) /\ ~BumpRenames(p)
        BY <1>0 DEF BumpOpens, BumpWrites, BumpRenames, Return, Goto, AtRest, Sender
      <4> QED BY <3>2, <4>1, <4>2, <4>3, <4>4 DEF Sends, SendStep
    <3>3. ASSUME NEW q \in Process, Sends(q), q # p
          PROVE  proc'[p] = proc[p]
      BY <3>3, OthersStay
    <3> QED BY <3>1, <3>2, <3>3, StepKinds DEF vars
  <2> QED BY <2>1, <2>2, <2>3
<1>4. logged' \subseteq Crossed'
  <2>1. ASSUME NEW p \in Process, Log(p)
        PROVE  logged' \subseteq Crossed'
    <3>1. logged' \subseteq logged \cup {Sent(p)} /\ proc[p].at = "log"
      BY <2>1 DEF Log
    <3> QED BY <3>1, CrossedGrows DEF BoxInv
  <2>2. CASE UNCHANGED logged
    BY <2>2, CrossedGrows DEF BoxInv
  <2>3. UNCHANGED logged \/ \E p \in Process : Log(p)
    BY DEF Next, SendStep, vars, boxes, Begin, CheckRecipient, CheckSpent, EnsureMailboxes,
           BumpReads, BumpOpens, BumpWrites, BumpRenames, Deliver, Reap, Die
  <2> QED BY <2>1, <2>2, <2>3
<1>5. \A p \in Process : proc'[p].at # "rest" => From[p] \notin archived'
  <2> SUFFICES ASSUME NEW p \in Process, proc'[p].at # "rest"
               PROVE  From[p] \notin archived'
    OBVIOUS
  <2>1. ASSUME NEW n \in End, Reap(n)
        PROVE  From[p] \notin archived'
    BY <1>0, <2>1 DEF Reap, AtRest, BoxInv
  <2>2. CASE Sends(p)
    <3>1. proc[p].at # "rest" \/ From[p] \notin archived
      BY <2>2 DEF Sends, Begin, Die, SendStep, CheckRecipient, CheckSpent, EnsureMailboxes,
             BumpReads, BumpOpens, BumpWrites, BumpRenames, Deliver, Log
    <3> QED BY <2>2, <3>1, OthersStay DEF BoxInv
  <2>3. CASE proc'[p] = proc[p] /\ UNCHANGED archived
    BY <2>3 DEF BoxInv
  <2> QED BY <2>1, <2>2, <2>3, StepKinds, OthersStay DEF vars, boxes
<1> QED BY <1>2, <1>3, <1>4, <1>5 DEF BoxInv

\* A line in an outbox log is a message in the recipient's mailbox, live or
\* archived, whoever died or was reaped between the delivery and the line.
THEOREM LogsTellTheTruth == Spec => []LinesAreDelivered
<1>1. BoxInv => LinesAreDelivered
  BY DEF BoxInv, LinesAreDelivered
<1> QED BY <1>1, TypeInit, TypeStep, BoxInit, BoxStep, PTL DEF Spec

\* Until a reap overtakes a sender, nobody is both archived and alive, nobody has
\* looked for the recipient before its reap and goes on to make it a directory,
\* and every sender past the check charges the edge.
ReapInv ==
  ~overtaken =>
    /\ archived \cap live = {}
    /\ \A p \in Process : proc[p].at \in {"spent", "dirs"} => To(p) \notin archived
    /\ \A p \in Process : proc[p].at \notin {"rest", "check"} => proc[p].peer

LEMMA ReapInit == Init => ReapInv
  BY DEF Init, ReapInv, AtRest

LEMMA ReapStep == TypeInv /\ BoxInv /\ ReapInv /\ [Next]_vars => ReapInv'
<1> SUFFICES ASSUME TypeInv, BoxInv, ReapInv, [Next]_vars, ~overtaken'
             PROVE  /\ archived' \cap live' = {}
                    /\ \A p \in Process : proc'[p].at \in {"spent", "dirs"} =>
                         To(p) \notin archived'
                    /\ \A p \in Process : proc'[p].at \notin {"rest", "check"} =>
                         proc'[p].peer
  BY DEF ReapInv, To
<1>0. proc \in [Process -> Sender] /\ live \subseteq End /\ archived \subseteq End
  BY DEF TypeInv, TypeOK
<1>1. ASSUME NEW p \in Process, Sends(p)
      PROVE  /\ archived' \cap live' = {}
             /\ proc'[p].at \in {"spent", "dirs"} => To(p) \notin archived
             /\ proc'[p].at \notin {"rest", "check"} => proc'[p].peer
             /\ ~overtaken
  <2>0. UNCHANGED archived /\ ~overtaken
    BY <1>1, OthersStay
  <2>1. CASE CheckRecipient(p)
    <3>1. From[p] \in live /\ From[p] \in facts
      BY <2>1, OtherEnd DEF BoxInv, CheckRecipient
    <3>2. ~Reaped(To(p)) => To(p) \notin archived /\ To(p) \in live /\ To(p) \in facts
      BY <2>0, OtherEnd DEF ReapInv, Reaped, BoxInv
    <3> QED BY <1>0, <2>0, <2>1, <3>1, <3>2
            DEF CheckRecipient, HasFacts, HasFactsResolved, Return, AtRest, Sender,
                boxes, ReapInv
  <2>2. CASE EnsureMailboxes(p)
    <3>1. From[p] \notin archived /\ To(p) \notin archived /\ live' = live \cup {From[p], To(p)}
      BY <2>0, <2>2 DEF EnsureMailboxes, BoxInv, ReapInv
    <3> QED BY <1>0, <2>0, <2>2, <3>1 DEF EnsureMailboxes, Goto, Sender, ReapInv
  <2>3. CASE CheckSpent(p) \/ BumpReads(p) \/ BumpOpens(p) \/ BumpWrites(p) \/ BumpRenames(p)
    BY <1>0, <2>0, <2>3 DEF CheckSpent, BumpReads, BumpOpens, BumpWrites, BumpRenames,
         Return, Goto, AtRest, Sender, boxes, ReapInv
  <2>4. CASE Deliver(p) \/ Log(p) \/ Die(p)
    BY <1>0, <2>0, <2>4 DEF Deliver, Log, Die, Return, Goto, AtRest, Sender, boxes, ReapInv
  <2>5. ASSUME NEW expects \in BOOLEAN, NEW answers \in {0} \cup Owed(From[p]),
               Begin(p, answers, expects)
        PROVE  archived' \cap live' = {} /\ proc'[p].at = "check"
    BY <1>0, <2>0, <2>5 DEF Begin, AtRest, boxes, ReapInv
  <2> QED BY <1>1, <2>0, <2>1, <2>2, <2>3, <2>4, <2>5 DEF Sends, SendStep
<1>2. ASSUME NEW p \in Process, Sends(p)
      PROVE  /\ archived' \cap live' = {}
             /\ \A q \in Process : proc'[q].at \in {"spent", "dirs"} => To(q) \notin archived'
             /\ \A q \in Process : proc'[q].at \notin {"rest", "check"} => proc'[q].peer
  BY <1>1, <1>2, OthersStay DEF ReapInv
<1>3. ASSUME NEW n \in End, Reap(n)
      PROVE  /\ archived' \cap live' = {}
             /\ \A q \in Process : proc'[q].at \in {"spent", "dirs"} => To(q) \notin archived'
             /\ \A q \in Process : proc'[q].at \notin {"rest", "check"} => proc'[q].peer
  <2>1. /\ ~overtaken /\ live' = live \ {n} /\ archived' = archived \cup {n}
        /\ \A q \in Process : proc'[q] = proc[q] \/ proc'[q] = AtRest
        /\ \A q \in Process : To(q) = n => proc[q].at \notin {"spent", "dirs"}
    BY <1>3 DEF Reap
  <2> QED BY <2>1 DEF ReapInv, AtRest
<1>4. CASE UNCHANGED vars
  BY <1>4 DEF vars, boxes, ghosts, ReapInv
<1> QED BY <1>2, <1>3, <1>4, StepKinds

\* An agent that was reaped stays reaped: no delivery makes its mailbox afresh,
\* unless the reap came after the sender had looked for it.
THEOREM ReapedStayReaped == Spec => []ReapIsFinal
<1>1. ReapInv => ReapIsFinal
  BY DEF ReapInv, ReapIsFinal
<1> QED BY <1>1, TypeInit, TypeStep, BoxInit, BoxStep, ReapInit, ReapStep, PTL DEF Spec

-----------------------------------------------------------------------------
(* What a crash can do to the edge, when senders do not count at one time. *)

Sole == \A p, q \in Process : proc[p].at \in Counting /\ proc[q].at \in Counting => p = q

Accounted(id) == id \in ReadEdge.open \cup Discharged

\* What the sender between edge_spent and the rename knows, and has written.
CountsOK(p) ==
  /\ proc[p].at \in Counting =>
       ReadEdge.limit = NoLimit \/ ReadEdge.count < ReadEdge.limit
  /\ proc[p].at \in {"open", "write", "rename"} => proc[p].edge = ReadEdge
  /\ proc[p].at = "write" => proc[p].fd = tmp /\ content[tmp] = Torn
  /\ proc[p].at = "rename" => tmp # NoFile /\ content[tmp] = Bumped(p)

\* A message has been counted at its stamp, and what it asks is accounted for.
StampOK(m) ==
  /\ m.hops \in 1..ReadEdge.count /\ counted[m.hops] = m
  /\ m.expects => Accounted(m.id)

\* So has one on its way, under a number of its own.
BringsOK(p) ==
  proc[p].at = "deliver" =>
    /\ StampOK(Sent(p))
    /\ \A m \in Crossed : m.hops # Sent(p).hops
    /\ \A q \in Process \ {p} : proc[q].at = "deliver" => Sent(q).hops # Sent(p).hops

Clean ==
  /\ Sole
  /\ \A p \in Process : CountsOK(p) /\ BringsOK(p)
  /\ \A m \in Crossed : StampOK(m)
  /\ \A m1, m2 \in Crossed : m1.hops = m2.hops => m1 = m2
  /\ ReadEdge.limit # NoLimit => ReadEdge.count <= ReadEdge.limit \/ ReadEdge.count = 1
  /\ ReadEdge.count = Len(counted)

CleanInv == ~overlapped /\ ~overtaken => Clean

LEMMA CleanInit == Init => CleanInv
<1> SUFFICES ASSUME Init PROVE Clean
  BY DEF CleanInv
<1>1. Crossed = {} /\ \A p \in Process : proc[p].at = "rest"
  BY DEF Init, Crossed, AtRest
<1>2. ReadEdge.limit = NoLimit /\ ReadEdge.count = Len(counted)
  BY DEF Init, ReadEdge, Fresh
<1> QED BY <1>1, <1>2 DEF Clean, Sole, CountsOK, BringsOK, Counting

\* The one sender p moves on; others stand or are gone, and if it touches files
\* nobody else is counting.
LEMMA CleanAfterMove ==
  ASSUME Clean, NEW p, ReadEdge' = ReadEdge, UNCHANGED counted, Crossed' = Crossed,
         \/ UNCHANGED <<tmp, content>>
         \/ \A q \in Process \ {p} : proc[q].at \notin Counting,
         \A q \in Process \ {p} : proc'[q] = proc[q] \/ proc'[q] = AtRest,
         p \in Process => CountsOK(p)' /\ proc'[p].at # "deliver",
         p \in Process /\ proc'[p].at \in Counting =>
           \A q \in Process \ {p} : proc'[q].at \notin Counting
  PROVE  Clean'
<1>1. ASSUME NEW q \in Process, q # p
      PROVE  proc'[q].at = "rest" \/ (proc'[q] = proc[q] /\ Sent(q)' = Sent(q)
                                        /\ Bumped(q)' = Bumped(q))
  <2>1. CASE proc'[q] = AtRest
    BY <2>1 DEF AtRest
  <2>2. CASE proc'[q] = proc[q]
    <3>1. Sent(q)' = Sent(q)
      BY <2>2 DEF Sent, To
    <3>2. Bumped(q)' = Bumped(q)
      BY <2>2 DEF Bumped
    <3> QED BY <2>2, <3>1, <3>2
  <2> QED BY <1>1, <2>1, <2>2
<1>2. Sole'
  <2> SUFFICES ASSUME NEW q \in Process, NEW r \in Process, q # r,
                      proc'[q].at \in Counting, proc'[r].at \in Counting
               PROVE  FALSE
    BY DEF Sole
  <2>1. q # p /\ r # p
    OBVIOUS
  <2> QED BY <1>1, <2>1 DEF Clean, Sole, Counting
<1>3. \A q \in Process : CountsOK(q)'
  <2> SUFFICES ASSUME NEW q \in Process, q # p
               PROVE  CountsOK(q)'
    OBVIOUS
  <2>1. CASE UNCHANGED <<tmp, content>>
    BY <1>1, <2>1 DEF Clean, CountsOK, Counting
  <2>2. CASE proc[q].at \notin Counting
    BY <1>1, <2>2 DEF CountsOK, Counting
  <2> QED BY <2>1, <2>2
<1>4. \A m : StampOK(m)' <=> StampOK(m)
  BY DEF StampOK, Accounted, Discharged
<1>5. \A q \in Process : BringsOK(q)'
  <2> SUFFICES ASSUME NEW q \in Process, proc'[q].at = "deliver"
               PROVE  BringsOK(q)'
    BY DEF BringsOK
  <2>1. q # p /\ proc[q].at = "deliver" /\ Sent(q)' = Sent(q)
    BY <1>1
  <2>2. StampOK(Sent(q))' <=> StampOK(Sent(q))
    BY <2>1 DEF StampOK, Accounted, Discharged
  <2>3. \A r \in Process \ {q} : proc'[r].at = "deliver" => Sent(r)'.hops # Sent(q)'.hops
    BY <1>1, <2>1 DEF Clean, BringsOK
  <2> QED BY <2>1, <2>2, <2>3 DEF Clean, BringsOK
<1> QED BY <1>2, <1>3, <1>4, <1>5 DEF Clean

LEMMA CleanStep == TypeInv /\ BoxInv /\ ReapInv /\ CleanInv /\ [Next]_vars => CleanInv'
<1> SUFFICES ASSUME TypeInv, BoxInv, ReapInv, CleanInv, [Next]_vars,
                    ~overlapped', ~overtaken'
             PROVE  Clean'
  BY DEF CleanInv
<1>0. /\ proc \in [Process -> Sender] /\ content \in [Inode -> Content]
      /\ path \in Inode \cup {NoFile} /\ tmp \in Inode \cup {NoFile}
      /\ path # NoFile => path # tmp
      /\ ReadEdge \in Content /\ ReadEdge.count \in Nat
      /\ ReadEdge = Fresh \/ (ReadEdge.count >= 1 /\ ReadEdge.limit # NoLimit)
  BY ReadEdgeOK, GivenType DEF TypeInv, TypeOK
<1>a. ~overlapped /\ ~overtaken
  <2>1. ASSUME NEW p \in Process, Sends(p)
        PROVE  (overlapped => overlapped') /\ UNCHANGED overtaken
    <3>1. UNCHANGED overlapped \/ CheckSpent(p)
      BY <2>1 DEF Sends, SendStep, ghosts, Begin, CheckRecipient, EnsureMailboxes, BumpReads,
             BumpOpens, BumpWrites, BumpRenames, Deliver, Log, Die
    <3>2. CheckSpent(p) => (overlapped => overlapped')
      BY DEF CheckSpent
    <3> QED BY <2>1, <3>1, <3>2, OthersStay
  <2>2. ASSUME NEW n \in End, Reap(n)
        PROVE  (overtaken => overtaken') /\ UNCHANGED overlapped
    BY <2>2 DEF Reap
  <2> QED BY <2>1, <2>2, StepKinds DEF vars, ghosts
<1>b. Clean /\ \A p \in Process : proc[p].at \notin {"rest", "check"} => proc[p].peer
  BY <1>a DEF CleanInv, ReapInv
<1>c. \A p, q \in Process : proc[p].at \in Counting /\ q # p => proc[q].at \notin Counting
  BY <1>b DEF Clean, Sole
<1>d. ASSUME NEW p \in Process, ~Deliver(p), Sends(p)
      PROVE  Crossed' = Crossed
  <2>1. UNCHANGED <<inbox, buried>>
    BY <1>d DEF Sends, SendStep, boxes, Begin, CheckRecipient, CheckSpent, EnsureMailboxes,
         BumpReads, BumpOpens, BumpWrites, BumpRenames, Log, Die
  <2> QED BY <2>1 DEF Crossed
<1>1. ASSUME NEW p \in Process, Sends(p), UNCHANGED <<files, counted>>, ~Deliver(p),
             proc'[p].at \notin Counting \cup {"deliver"}
      PROVE  Clean'
  <2>1. CountsOK(p)'
    BY <1>1 DEF CountsOK, Counting
  <2>2. ReadEdge' = ReadEdge /\ UNCHANGED <<tmp, content>>
    BY <1>1 DEF files, ReadEdge
  <2> QED BY <1>1, <1>b, <1>d, <2>1, <2>2, OthersStay, CleanAfterMove
<1>2. ASSUME NEW p \in Process, Sends(p), UNCHANGED <<files, counted>>, ~Deliver(p),
             proc[p].at \in Counting, proc'[p].at \in {"dirs", "read", "open"},
             proc'[p].at = "open" => proc'[p].edge = ReadEdge
      PROVE  Clean'
  <2>1. ReadEdge' = ReadEdge /\ UNCHANGED <<path, tmp, content>>
    BY <1>2 DEF files, ReadEdge
  <2>2. CountsOK(p)'
    BY <1>2, <1>b, <2>1 DEF CountsOK, Clean
  <2>3. \A q \in Process \ {p} : proc'[q] = proc[q] /\ proc[q].at \notin Counting
    BY <1>2, <1>c, OthersStay
  <2> QED BY <1>2, <1>b, <1>d, <2>1, <2>2, <2>3, CleanAfterMove
<1>3. ASSUME NEW p \in Process, CheckSpent(p)
      PROVE  Clean'
  <2>1. Sends(p) /\ ~Deliver(p) /\ UNCHANGED <<files, counted>> /\ proc[p].at = "spent"
    BY <1>3 DEF CheckSpent, Sends, SendStep, Deliver
  <2>2. CASE Return(p)
    BY <1>0, <1>1, <2>1, <2>2 DEF Return, AtRest, Counting
  <2>3. CASE ~(ReadEdge.limit # NoLimit /\ ReadEdge.count >= ReadEdge.limit)
    <3>1. /\ Goto(p, "dirs")
          /\ \A q \in Process \ {p} : ~(proc[q].peer /\ proc[q].at \in Counting)
      BY <1>3, <2>3 DEF CheckSpent
    <3>2. \A q \in Process \ {p} : proc'[q] = proc[q] /\ proc[q].at \notin Counting
      BY <1>b, <2>1, <3>1, OthersStay DEF Counting
    <3>3. ReadEdge' = ReadEdge /\ UNCHANGED <<path, tmp, content>>
      BY <2>1 DEF files, ReadEdge
    <3>4. proc'[p].at = "dirs"
      BY <1>0, <3>1 DEF Goto, Sender
    <3>5. ReadEdge.limit = NoLimit \/ ReadEdge.count < ReadEdge.limit
      BY <1>0, <2>3 DEF Content
    <3>6. CountsOK(p)'
      BY <3>3, <3>4, <3>5 DEF CountsOK
    <3> QED BY <1>b, <1>d, <2>1, <3>2, <3>3, <3>4, <3>6, CleanAfterMove
  <2>4. (ReadEdge.limit # NoLimit /\ ReadEdge.count >= ReadEdge.limit) => Return(p)
    BY <1>3 DEF CheckSpent
  <2> QED BY <2>2, <2>3, <2>4
<1>4. ASSUME NEW p \in Process, EnsureMailboxes(p)
      PROVE  Clean'
  <2>1. Sends(p) /\ ~Deliver(p) /\ UNCHANGED <<files, counted>> /\ proc[p].at = "dirs"
    BY <1>4 DEF EnsureMailboxes, Sends, SendStep, Deliver, ghosts
  <2>2. proc'[p].at = "read"
    BY <1>0, <1>b, <1>4, <2>1 DEF EnsureMailboxes, Goto, Sender
  <2> QED BY <1>2, <2>1, <2>2 DEF Counting
<1>5. ASSUME NEW p \in Process, BumpReads(p)
      PROVE  Clean'
  <2>1. Sends(p) /\ ~Deliver(p) /\ UNCHANGED <<files, counted>> /\ proc[p].at = "read"
    BY <1>5 DEF BumpReads, Sends, SendStep, Deliver, ghosts
  <2>2. proc'[p].at = "open" /\ proc'[p].edge = ReadEdge
    BY <1>0, <1>5 DEF BumpReads, Sender
  <2> QED BY <1>2, <2>1, <2>2 DEF Counting
<1>6. ASSUME NEW p \in Process, BumpOpens(p)
      PROVE  Clean'
  <2>1. /\ Sends(p) /\ ~Deliver(p) /\ UNCHANGED <<path, counted>> /\ proc[p].at = "open"
    BY <1>6 DEF BumpOpens, Sends, SendStep, Deliver, ghosts
  <2>2. /\ tmp' \in Inode /\ tmp' # path
        /\ content' = [content EXCEPT ![tmp'] = Torn]
        /\ proc' = [proc EXCEPT ![p] = [proc[p] EXCEPT !.fd = tmp', !.at = "write"]]
    BY <1>6, OpenedInode
  <2>3. ReadEdge' = ReadEdge
    BY <1>0, <2>1, <2>2 DEF ReadEdge
  <2>4. /\ proc'[p].at = "write" /\ proc'[p].fd = tmp' /\ content'[tmp'] = Torn
        /\ proc'[p].edge = proc[p].edge
    BY <1>0, <2>2 DEF Sender
  <2>5. CountsOK(p)'
    BY <1>b, <2>1, <2>3, <2>4 DEF CountsOK, Clean, Counting
  <2>6. \A q \in Process \ {p} : proc'[q] = proc[q] /\ proc[q].at \notin Counting
    BY <1>c, <2>1, OthersStay DEF Counting
  <2> QED BY <1>b, <1>d, <2>1, <2>3, <2>4, <2>5, <2>6, CleanAfterMove
<1>7. ASSUME NEW p \in Process, BumpWrites(p)
      PROVE  Clean'
  <2>1. /\ Sends(p) /\ ~Deliver(p) /\ UNCHANGED <<path, tmp, counted>>
        /\ proc[p].at = "write"
    BY <1>7 DEF BumpWrites, Sends, SendStep, Deliver, ghosts
  <2>2. proc[p].fd = tmp /\ content[tmp] = Torn /\ tmp \in Inode
    BY <1>0, <1>b, <2>1 DEF Clean, CountsOK, TypeInv, TypeOK
  <2>3. content' = [content EXCEPT ![tmp] = Bumped(p)]
    BY <1>7, <2>2 DEF BumpWrites
  <2>4. ReadEdge' = ReadEdge
    BY <1>0, <2>1, <2>2, <2>3 DEF ReadEdge
  <2>5. proc' = [proc EXCEPT ![p] = [proc[p] EXCEPT !.fd = NoFile, !.at = "rename"]]
    <3>1. proc' = [proc EXCEPT ![p].fd = NoFile, ![p].at = "rename"]
      BY <1>7 DEF BumpWrites
    <3> QED BY <1>0, <3>1
  <2>6. proc'[p].at = "rename" /\ proc'[p].edge = proc[p].edge /\ Bumped(p)' = Bumped(p)
    BY <1>0, <2>5 DEF Sender, Bumped
  <2>7. CountsOK(p)'
    <3>1. tmp' # NoFile /\ content'[tmp'] = Bumped(p)'
      BY <1>0, <2>1, <2>2, <2>3, <2>6 DEF Inode, NoFile
    <3> QED BY <1>b, <2>1, <2>4, <2>6, <3>1 DEF CountsOK, Clean, Counting
  <2>8. \A q \in Process \ {p} : proc'[q] = proc[q] /\ proc[q].at \notin Counting
    BY <1>c, <2>1, OthersStay DEF Counting
  <2> QED BY <1>b, <1>d, <2>1, <2>4, <2>6, <2>7, <2>8, CleanAfterMove
<1>8. ASSUME NEW p \in Process, BumpRenames(p)
      PROVE  Clean'
  <2>1. /\ Sends(p) /\ ~Deliver(p) /\ UNCHANGED content /\ proc[p].at = "rename"
    BY <1>8 DEF BumpRenames, Sends, SendStep, Deliver
  <2>2. /\ tmp \in Inode /\ tmp # NoFile /\ content[tmp] = Bumped(p)
        /\ proc[p].edge = ReadEdge
    BY <1>0, <1>b, <2>1 DEF Clean, CountsOK
  <2>3. /\ path' = tmp /\ tmp' = NoFile /\ proc' = [proc EXCEPT ![p].at = "deliver"]
        /\ counted' = Append(counted, Sent(p))
    BY <1>8, <1>a, <2>2 DEF BumpRenames, Goto, Loose
  <2>4. ReadEdge' = Bumped(p)
    BY <2>1, <2>2, <2>3, BumpedOK DEF ReadEdge
  <2>5. /\ ReadEdge'.count = ReadEdge.count + 1
        /\ ReadEdge'.limit = IF ReadEdge.limit # NoLimit THEN ReadEdge.limit
                             ELSE Declared[From[p]]
        /\ ReadEdge'.open = (ReadEdge.open \ {proc[p].answers})
                              \cup (IF proc[p].expects THEN {proc[p].id} ELSE {})
    BY <2>2, <2>4 DEF Bumped
  <2>a. /\ counted \in Seq(Message) /\ ReadEdge.count = Len(counted)
        /\ Sent(p) \in Message /\ Sent(p).answers = proc[p].answers
        /\ Sent(p).hops = ReadEdge.count + 1
    BY <1>b, <2>1, <2>2, SentOK DEF TypeInv, TypeOK, Clean, Sent
  <2>b. /\ Len(counted') = Len(counted) + 1 /\ counted'[Len(counted) + 1] = Sent(p)
        /\ \A i \in DOMAIN counted : i \in DOMAIN counted' /\ counted'[i] = counted[i]
        /\ Len(counted) + 1 \in DOMAIN counted' /\ DOMAIN counted = 1..Len(counted)
    BY <2>3, <2>a
  <2>c. Discharged \cup {proc[p].answers} \subseteq Discharged'
    BY <2>a, <2>b DEF Discharged
  <2>6. \A id \in 1..MaxMsgs : Accounted(id) => Accounted(id)'
    BY <2>5, <2>c DEF Accounted
  <2>7. \A m \in Message : StampOK(m) => StampOK(m)'
    <3> SUFFICES ASSUME NEW m \in Message, StampOK(m) PROVE StampOK(m)'
      OBVIOUS
    <3>1. m.id \in 1..MaxMsgs /\ m.hops \in 1..ReadEdge.count
      BY DEF Message, StampOK
    <3>2. m.hops \in 1..ReadEdge'.count /\ counted'[m.hops] = m
      BY <1>0, <2>5, <2>a, <2>b, <3>1 DEF StampOK
    <3> QED BY <2>6, <3>1, <3>2 DEF StampOK
  <2>8. Crossed \subseteq Message
    BY DEF TypeInv, TypeOK, Crossed
  <2>9. \A q \in Process \ {p} : proc'[q] = proc[q] /\ proc[q].at \notin Counting
    BY <1>c, <2>1, OthersStay DEF Counting
  <2>10. Crossed' = Crossed
    BY <1>d, <2>1
  <2>11. \A q \in Process \ {p} : Sent(q)' = Sent(q)
    BY <2>9 DEF Sent, To
  <2>12. /\ proc'[p].at = "deliver" /\ proc'[p].id = proc[p].id
         /\ proc'[p].expects = proc[p].expects
         /\ Sent(p)'.hops = ReadEdge.count + 1
         /\ Sent(p)'.id = proc[p].id /\ Sent(p)'.expects = proc[p].expects
    <3>1. /\ proc'[p].at = "deliver" /\ proc'[p].id = proc[p].id
          /\ proc'[p].expects = proc[p].expects /\ proc'[p].peer = proc[p].peer
          /\ proc'[p].edge = proc[p].edge
      BY <1>0, <2>3 DEF Sender
    <3>2. proc[p].peer
      BY <1>b, <2>1
    <3> QED BY <2>2, <3>1, <3>2 DEF Sent
  <2>13. StampOK(Sent(p))'
    <3>1. Sent(p)' = Sent(p)
      BY <1>0, <2>3 DEF Sent, To, Sender
    <3>3. Sent(p)'.hops \in 1..ReadEdge'.count /\ counted'[Sent(p)'.hops] = Sent(p)'
      BY <1>0, <2>5, <2>12, <2>a, <2>b, <3>1
    <3>2. Sent(p)'.expects => Accounted(Sent(p).id)'
      BY <2>5, <2>12 DEF Accounted
    <3> QED BY <3>2, <3>3 DEF StampOK
  <2>14. \A q \in Process \ {p} : proc[q].at = "deliver" =>
           StampOK(Sent(q))' /\ Sent(q).hops \in 1..ReadEdge.count
    <3> SUFFICES ASSUME NEW q \in Process \ {p}, proc[q].at = "deliver"
                 PROVE  StampOK(Sent(q))' /\ Sent(q).hops \in 1..ReadEdge.count
      OBVIOUS
    <3>1. StampOK(Sent(q))
      BY <1>b DEF Clean, BringsOK
    <3>2. Sent(q) \in Message
      BY SentOK
    <3>3. StampOK(Sent(q))'
      BY <2>7, <2>11, <3>1, <3>2 DEF StampOK, Accounted
    <3> QED BY <3>1, <3>3 DEF StampOK
  <2>15. \A q \in Process : BringsOK(q)'
    <3>1. \A m \in Crossed : m.hops \in 1..ReadEdge.count
      BY <1>b DEF Clean, StampOK
    <3>2. BringsOK(p)'
      BY <1>0, <2>9, <2>10, <2>11, <2>12, <2>13, <2>14, <3>1 DEF BringsOK
    <3>3. ASSUME NEW q \in Process \ {p}, proc[q].at = "deliver"
          PROVE  BringsOK(q)'
      <4>1. Sent(q)'.hops # Sent(p)'.hops
        BY <1>0, <2>11, <2>12, <2>14, <3>3
      <4>2. \A r \in Process \ {q, p} : proc'[r].at = "deliver" => Sent(r)'.hops # Sent(q)'.hops
        BY <1>b, <2>9, <2>11, <3>3 DEF Clean, BringsOK
      <4>3. \A m \in Crossed' : m.hops # Sent(q)'.hops
        BY <1>b, <2>10, <2>11, <3>3 DEF Clean, BringsOK
      <4> QED BY <2>14, <3>3, <4>1, <4>2, <4>3 DEF BringsOK
    <3> QED BY <2>9, <3>2, <3>3 DEF BringsOK
  <2>16. \A q \in Process : CountsOK(q)'
    BY <2>9, <2>12 DEF CountsOK, Counting
  <2>17. ReadEdge'.limit # NoLimit => ReadEdge'.count <= ReadEdge'.limit \/ ReadEdge'.count = 1
    <3>1. CASE ReadEdge.limit # NoLimit
      <4>1. ReadEdge.count < ReadEdge.limit /\ ReadEdge.limit \in Nat
        BY <1>0, <1>b, <2>1, <3>1 DEF Clean, CountsOK, Counting, Content
      <4> QED BY <1>0, <2>5, <3>1, <4>1
    <3>2. CASE ReadEdge.limit = NoLimit
      <4>1. ReadEdge.count = 0
        BY <1>0, <3>2 DEF Fresh
      <4> QED BY <2>5, <3>2, <4>1
    <3> QED BY <3>1, <3>2
  <2>18. Sole'
    BY <2>9, <2>12 DEF Sole, Counting
  <2>19. ReadEdge'.count = Len(counted')
    BY <2>5, <2>a, <2>b
  <2> QED BY <1>b, <2>7, <2>8, <2>10, <2>15, <2>16, <2>17, <2>18, <2>19 DEF Clean
<1>9. ASSUME NEW p \in Process, Deliver(p)
      PROVE  Clean'
  <2>1. /\ Sends(p) /\ UNCHANGED <<files, counted>> /\ proc[p].at = "deliver"
        /\ ReadEdge' = ReadEdge
    BY <1>9 DEF Deliver, Sends, SendStep, ghosts, files, ReadEdge
  <2>2. \A m : StampOK(m)' <=> StampOK(m)
    BY <2>1 DEF StampOK, Accounted, Discharged
  <2>3. /\ \A q \in Process \ {p} : proc'[q] = proc[q]
        /\ proc'[p].at \in {"rest", "log"}
    BY <1>0, <1>9, <2>1, OthersStay DEF Deliver, Return, Goto, AtRest, Sender
  <2>4. \A q \in Process \ {p} : Sent(q)' = Sent(q) /\ Bumped(q)' = Bumped(q)
    <3> SUFFICES ASSUME NEW q \in Process \ {p}
                 PROVE  Sent(q)' = Sent(q) /\ Bumped(q)' = Bumped(q)
      OBVIOUS
    <3>1. Sent(q)' = Sent(q)
      BY <2>3 DEF Sent, To
    <3>2. Bumped(q)' = Bumped(q)
      BY <2>3 DEF Bumped
    <3> QED BY <3>1, <3>2
  <2>5. \A m \in Crossed' : m \in Crossed \/ m = Sent(p)
    <3>1. \A q \in Process \ {p} : ~Deliver(q)
      BY <1>9, OneDelivers
    <3> QED BY <3>1, CrossedGrows
  <2>6. BringsOK(p)
    BY <1>b DEF Clean
  <2>7. \A q \in Process : CountsOK(q)'
    BY <1>b, <2>1, <2>3, <2>4 DEF Clean, CountsOK, files, Counting
  <2>8. \A q \in Process : BringsOK(q)'
    BY <1>b, <2>1, <2>2, <2>3, <2>4, <2>5, <2>6 DEF Clean, BringsOK
  <2>9. Sole'
    BY <1>b, <2>3 DEF Clean, Sole, Counting
  <2>10. /\ \A m \in Crossed' : StampOK(m)'
         /\ \A m1, m2 \in Crossed' : m1.hops = m2.hops => m1 = m2
    BY <1>b, <2>1, <2>2, <2>5, <2>6 DEF Clean, BringsOK
  <2> QED BY <1>b, <2>1, <2>7, <2>8, <2>9, <2>10 DEF Clean
<1>10. ASSUME NEW p \in Process, CheckRecipient(p)
       PROVE  Clean'
  <2>1. Sends(p) /\ UNCHANGED <<files, counted>> /\ ~Deliver(p)
    BY <1>10 DEF CheckRecipient, Sends, SendStep, ghosts, Deliver
  <2>2. proc'[p].at \notin {"rest", "check"} => proc'[p].peer
    BY ReapStep DEF ReapInv
  <2>3. proc'[p].at \in {"rest", "spent"}
    BY <1>0, <1>10, <2>2 DEF CheckRecipient, Return, AtRest, Sender
  <2> QED BY <1>1, <2>1, <2>3 DEF Counting
<1>11. ASSUME NEW p \in Process, Log(p) \/ Die(p)
       PROVE  Clean'
  <2>1. UNCHANGED <<files, counted>> /\ Return(p)
    BY <1>11 DEF Log, Die, ghosts
  <2>2. proc'[p] = AtRest /\ \A q \in Process \ {p} : proc'[q] = proc[q]
    BY <1>0, <2>1 DEF Return
  <2>3. Crossed' = Crossed
    BY <1>11 DEF Log, Die, boxes, Crossed
  <2>4. ReadEdge' = ReadEdge /\ UNCHANGED <<tmp, content>>
    BY <2>1 DEF files, ReadEdge
  <2>5. CountsOK(p)' /\ proc'[p].at \notin Counting \cup {"deliver"}
    BY <2>2 DEF CountsOK, AtRest, Counting
  <2> QED BY <1>b, <2>1, <2>2, <2>3, <2>4, <2>5, CleanAfterMove
<1>12. ASSUME NEW p \in Process, NEW expects \in BOOLEAN,
              NEW answers \in {0} \cup Owed(From[p]), Begin(p, answers, expects)
       PROVE  Clean'
  <2>1. Sends(p) /\ UNCHANGED <<files, counted>> /\ ~Deliver(p)
    BY <1>12 DEF Begin, Sends, Deliver, ghosts
  <2>2. proc'[p].at = "check"
    BY <1>0, <1>12 DEF Begin, AtRest
  <2> QED BY <1>1, <2>1, <2>2 DEF Counting
<1>13. ASSUME NEW n \in End, Reap(n)
       PROVE  Clean'
  <2>1. UNCHANGED <<files, counted>> /\ \A q \in Process : proc'[q] \in {proc[q], AtRest}
    BY <1>13 DEF Reap
  <2>2. ReadEdge' = ReadEdge /\ UNCHANGED <<tmp, content>>
    BY <2>1 DEF files, ReadEdge
  <2>3. Crossed' = Crossed
    BY <1>13, ReapKeeps
  <2>4. PICK p : p \notin Process
    BY NoSetContainsEverything
  <2> QED BY <1>b, <2>1, <2>2, <2>3, <2>4, CleanAfterMove
<1>14. CASE UNCHANGED vars
  <2>1. ReadEdge' = ReadEdge /\ UNCHANGED <<tmp, content, counted, proc>>
    BY <1>14 DEF vars, files, ghosts, ReadEdge
  <2>2. Crossed' = Crossed
    BY <1>14 DEF vars, boxes, Crossed
  <2>3. PICK p : p \notin Process
    BY NoSetContainsEverything
  <2> QED BY <1>b, <2>1, <2>2, <2>3, CleanAfterMove
<1> QED
  BY <1>3, <1>4, <1>5, <1>6, <1>7, <1>8, <1>9, <1>10, <1>11, <1>12, <1>13, <1>14
     DEF Next, SendStep

\* Wherever senders die, the edge file counts at least the messages that crossed,
\* no more than the limit but for the first, and no two of them bear the same number,
\* unless two senders counted at one time or a reap overtook one.
THEOREM CrashesLoseHopsOnly == Spec => []CrashesTighten
<1>1. TypeInv /\ BoxInv /\ CleanInv => CrashesTighten
  <2> SUFFICES ASSUME TypeInv, Clean
               PROVE  /\ Cardinality(Crossed) <= ReadEdge.count
                      /\ ReadEdge.limit # NoLimit =>
                           ReadEdge.count <= ReadEdge.limit \/ ReadEdge.count = 1
                      /\ \A m1, m2 \in Crossed : m1.hops = m2.hops => m1 = m2
    BY DEF CleanInv, CrashesTighten, Loose
  <2> DEFINE number == [m \in Crossed |-> m.hops]
             T == 1..ReadEdge.count
  <2>1. number \in Injection(Crossed, T)
    <3>1. \A m \in Crossed : m.hops \in T
      BY DEF Clean, StampOK
    <3>2. \A m1, m2 \in Crossed : m1.hops = m2.hops => m1 = m2
      BY DEF Clean
    <3> HIDE DEF T
    <3>3. number \in [Crossed -> T]
      BY <3>1
    <3>4. IsInjective(number)
      BY <3>2 DEF IsInjective
    <3> QED BY <3>3, <3>4 DEF Injection
  <2>2. ReadEdge.count \in Nat
    BY ReadEdgeOK, GivenType
  <2>3. IsFiniteSet(T) /\ Cardinality(T) = ReadEdge.count
    BY <2>2, FS_Interval
  <2>4. Cardinality(Crossed) <= Cardinality(T)
    <3> HIDE DEF number, T
    <3> QED BY <2>1, <2>3, FS_Injection
  <2> QED BY <2>3, <2>4 DEF Clean
<1> QED
  BY <1>1, TypeInit, TypeStep, BoxInit, BoxStep, ReapInit, ReapStep, CleanInit, CleanStep, PTL
  DEF Spec

\* On the same condition no crash loses a question from the ledger before an
\* answer to it was counted.
THEOREM QuestionsKept == Spec => []QuestionsStayOpen
<1>1. CleanInv => QuestionsStayOpen
  BY DEF CleanInv, Clean, StampOK, Accounted, QuestionsStayOpen, Loose
<1> QED
  BY <1>1, TypeInit, TypeStep, BoxInit, BoxStep, ReapInit, ReapStep, CleanInit, CleanStep, PTL
  DEF Spec

-----------------------------------------------------------------------------
(* The edge as a whole. *)

\* Who has not counted yet brings an id that nobody has counted, nor will.
IdsInv ==
  /\ \A p, q \in Process : p # q /\ proc[p].at # "rest" /\ proc[q].at # "rest" =>
       proc[p].id # proc[q].id
  /\ \A i \in DOMAIN counted :
       /\ counted[i].id \in 1..lastId
       /\ \A p \in Process : proc[p].at \in Early \cup {"rename"} => counted[i].id # proc[p].id

LEMMA IdsInit == Init => IdsInv
  BY DEF Init, IdsInv, AtRest, Early

\* A sender that is past its beginning keeps its id, and does not go back.
LEMMA IdKept ==
  ASSUME TypeInv, NEW p \in Process, SendStep(p) \/ Die(p), proc'[p].at # "rest"
  PROVE  /\ proc[p].at # "rest" /\ proc'[p].id = proc[p].id /\ UNCHANGED lastId
         /\ proc'[p].at \in Early \cup {"rename"} => proc[p].at \in Early
<1>0. proc \in [Process -> Sender]
  BY DEF TypeInv, TypeOK
<1>1. CASE CheckRecipient(p) \/ CheckSpent(p) \/ EnsureMailboxes(p) \/ BumpReads(p)
  BY <1>0, <1>1 DEF CheckRecipient, CheckSpent, EnsureMailboxes, BumpReads, Return, Goto,
                    AtRest, Sender, Early
<1>2. CASE BumpOpens(p) \/ BumpWrites(p)
  <2>1. CASE BumpOpens(p)
    <3>1. /\ proc' = [proc EXCEPT ![p] = [proc[p] EXCEPT !.fd = tmp', !.at = "write"]]
          /\ proc[p].at = "open" /\ UNCHANGED lastId
      BY <2>1, OpenedInode DEF BumpOpens
    <3> QED BY <1>0, <3>1 DEF Sender, Early
  <2>2. CASE BumpWrites(p)
    BY <1>0, <2>2 DEF BumpWrites, Sender, Early
  <2> QED BY <1>2, <2>1, <2>2
<1>3. CASE BumpRenames(p) \/ Deliver(p) \/ Log(p) \/ Die(p)
  BY <1>0, <1>3 DEF BumpRenames, Deliver, Log, Die, Return, Goto, AtRest, Sender, Early
<1> QED BY <1>1, <1>2, <1>3 DEF SendStep

\* Only a rename counts, and it counts the message in hand.
LEMMA CountedBy ==
  ASSUME [Next]_vars
  PROVE  \/ UNCHANGED counted
         \/ \E p \in Process :
              BumpRenames(p) /\ proc' = [proc EXCEPT ![p].at = "deliver"]
                /\ ~Loose /\ counted' = Append(counted, Sent(p))
  BY DEF Next, SendStep, vars, ghosts, Begin, CheckRecipient, CheckSpent, EnsureMailboxes,
         BumpReads, BumpOpens, BumpWrites, BumpRenames, Deliver, Log, Die, Reap, Goto

LEMMA IdsStep == TypeInv /\ IdsInv /\ [Next]_vars => IdsInv'
<1> SUFFICES ASSUME TypeInv, IdsInv, [Next]_vars
             PROVE  IdsInv'
  OBVIOUS
<1>0. /\ proc \in [Process -> Sender] /\ counted \in Seq(Message) /\ lastId \in Nat
      /\ \A p \in Process : proc[p].at # "rest" => proc[p].id \in 1..lastId
  BY GivenType, DeliveryAssumption DEF TypeInv, TypeOK, ProcOK
\* What a step leaves of the senders: each keeps its id, rests, or has begun.
<1>1. /\ lastId' \in Nat /\ lastId <= lastId'
      /\ \A p \in Process : proc'[p].at # "rest" =>
           \/ /\ proc[p].at # "rest" /\ proc'[p].id = proc[p].id
              /\ proc'[p].at \in Early \cup {"rename"} => proc[p].at \in Early \cup {"rename"}
           \/ /\ proc'[p].id = lastId + 1 /\ lastId' = lastId + 1 /\ UNCHANGED counted
              /\ \A q \in Process \ {p} : proc'[q] = proc[q]
  <2>1. ASSUME NEW p \in Process, SendStep(p) \/ Die(p)
        PROVE  /\ UNCHANGED lastId
               /\ \A q \in Process \ {p} : proc'[q] = proc[q]
    <3>1. UNCHANGED lastId
      BY <2>1 DEF SendStep, CheckRecipient, CheckSpent, EnsureMailboxes, BumpReads, BumpOpens,
                  BumpWrites, BumpRenames, Deliver, Log, Die
    <3> QED BY <2>1, <3>1, OthersStay DEF Sends
  <2>2. ASSUME NEW p \in Process, NEW expects \in BOOLEAN,
               NEW answers \in {0} \cup Owed(From[p]), Begin(p, answers, expects)
        PROVE  /\ proc'[p].id = lastId + 1 /\ lastId' = lastId + 1 /\ UNCHANGED counted
               /\ \A q \in Process \ {p} : proc'[q] = proc[q]
    BY <1>0, <2>2 DEF Begin, AtRest, ghosts
  <2>3. ASSUME NEW n \in End, Reap(n)
        PROVE  UNCHANGED lastId /\ \A q \in Process : proc'[q] \in {proc[q], AtRest}
    BY <2>3 DEF Reap
  <2>4. CASE UNCHANGED vars
    BY <1>0, <2>4 DEF vars
  <2>5. ASSUME NEW p \in Process, SendStep(p) \/ Die(p)
        PROVE  \A q \in Process : proc'[q].at # "rest" =>
                 /\ proc[q].at # "rest" /\ proc'[q].id = proc[q].id
                 /\ proc'[q].at \in Early \cup {"rename"} => proc[q].at \in Early \cup {"rename"}
    BY <2>1, <2>5, IdKept
  <2>6. CASE \E p \in Process : SendStep(p) \/ Die(p)
    BY <1>0, <2>1, <2>5, <2>6
  <2>7. CASE \E p \in Process, expects \in BOOLEAN :
               \E answers \in {0} \cup Owed(From[p]) : Begin(p, answers, expects)
    BY <1>0, <2>2, <2>7
  <2>8. CASE \E n \in End : Reap(n)
    BY <1>0, <2>3, <2>8 DEF AtRest
  <2> QED BY <2>4, <2>6, <2>7, <2>8 DEF Next
<1>2. \A p, q \in Process : p # q /\ proc'[p].at # "rest" /\ proc'[q].at # "rest" =>
        proc'[p].id # proc'[q].id
  <2>1. \A p \in Process : proc[p].at # "rest" => proc[p].id # lastId + 1
    BY <1>0
  <2> QED BY <1>1, <2>1 DEF IdsInv
<1>3. CASE UNCHANGED counted
  <2>1. \A i \in DOMAIN counted : counted[i].id \in 1..lastId /\ counted[i].id \in 1..lastId'
                                   /\ counted[i].id # lastId + 1
    BY <1>0, <1>1 DEF IdsInv
  <2> QED BY <1>1, <1>2, <1>3, <2>1 DEF IdsInv, Early
<1>4. ASSUME NEW p \in Process, BumpRenames(p), proc' = [proc EXCEPT ![p].at = "deliver"],
             counted' = Append(counted, Sent(p))
      PROVE  IdsInv'
  <2>1. proc[p].at = "rename" /\ UNCHANGED lastId /\ Sent(p).id = proc[p].id
    BY <1>4 DEF BumpRenames, Sent
  <2>2. /\ proc'[p].at = "deliver" /\ \A q \in Process : proc'[q].id = proc[q].id
        /\ \A q \in Process \ {p} : proc'[q] = proc[q]
    BY <1>0, <1>4 DEF Sender
  <2>3. Sent(p) \in Message
    BY <2>1, SentOK
  <2>4. \A i \in DOMAIN counted' : (i \in DOMAIN counted /\ counted'[i] = counted[i])
                                      \/ counted'[i] = Sent(p)
    BY <1>0, <1>4, <2>3
  <2>5. \A q \in Process \ {p} : proc[q].at # "rest" => proc[q].id # proc[p].id
    BY <2>1 DEF IdsInv
  <2>6. \A i \in DOMAIN counted' :
          /\ counted'[i].id \in 1..lastId'
          /\ \A q \in Process : proc'[q].at \in Early \cup {"rename"} => counted'[i].id # proc'[q].id
    BY <1>0, <2>1, <2>2, <2>4, <2>5 DEF IdsInv, Early
  <2> QED BY <1>2, <2>6 DEF IdsInv
<1> QED BY <1>3, <1>4, CountedBy

LEMMA LooseStays == TypeInv /\ [Next]_vars /\ ~Loose' => ~Loose
<1> SUFFICES ASSUME TypeInv, [Next]_vars, Loose PROVE Loose'
  BY DEF Loose
<1>1. overlapped => overlapped'
  BY DEF Next, SendStep, vars, ghosts, Begin, CheckRecipient, CheckSpent, EnsureMailboxes,
         BumpReads, BumpOpens, BumpWrites, BumpRenames, Deliver, Log, Die, Reap
<1>2. overtaken => overtaken'
  BY DEF Next, SendStep, vars, ghosts, Begin, CheckRecipient, CheckSpent, EnsureMailboxes,
         BumpReads, BumpOpens, BumpWrites, BumpRenames, Deliver, Log, Die, Reap
<1> QED BY <1>1, <1>2 DEF Loose

\* Without an overlap, what a sender does to files before its rename, others cannot see.
LEMMA EdgeKept ==
  ASSUME TypeInv, Clean, ~Loose, [Next]_vars, UNCHANGED counted
  PROVE  ReadEdge' = ReadEdge
<1>0. /\ proc \in [Process -> Sender] /\ content \in [Inode -> Content]
      /\ path \in Inode \cup {NoFile} /\ tmp \in Inode \cup {NoFile}
      /\ path # NoFile => path # tmp
      /\ counted \in Seq(Message)
  BY DEF TypeInv, TypeOK
<1>1. ASSUME NEW p \in Process, BumpOpens(p)
      PROVE  ReadEdge' = ReadEdge
  <2>1. /\ tmp' \in Inode /\ tmp' # path /\ UNCHANGED path
        /\ content' = [content EXCEPT ![tmp'] = Torn]
    BY <1>1, OpenedInode DEF BumpOpens
  <2> QED BY <1>0, <2>1 DEF ReadEdge
<1>2. ASSUME NEW p \in Process, BumpWrites(p)
      PROVE  ReadEdge' = ReadEdge
  <2>1. proc[p].fd = tmp /\ content[tmp] = Torn
    BY <1>2 DEF BumpWrites, Clean, CountsOK
  <2>2. content' = [content EXCEPT ![tmp] = Bumped(p)] /\ UNCHANGED path
    BY <1>2, <2>1 DEF BumpWrites
  <2> QED BY <1>0, <2>2 DEF ReadEdge
<1>3. ASSUME NEW p \in Process, BumpRenames(p)
      PROVE  ReadEdge' = ReadEdge
  <2>1. proc[p].at = "rename"
    BY <1>3 DEF BumpRenames
  <2>2. Sent(p) \in Message
    BY <2>1, SentOK
  <2>3. Append(counted, Sent(p)) # counted
    BY <1>0, <2>2
  <2>4. UNCHANGED <<path, content>>
    BY <1>3, <2>3 DEF BumpRenames
  <2> QED BY <2>4 DEF ReadEdge
<1>4. CASE UNCHANGED <<path, content>>
  BY <1>4 DEF ReadEdge
<1>5. \/ UNCHANGED <<path, content>>
      \/ \E p \in Process : BumpOpens(p) \/ BumpWrites(p) \/ BumpRenames(p)
  BY DEF Next, SendStep, vars, files, Begin, CheckRecipient, CheckSpent, EnsureMailboxes,
         BumpReads, Deliver, Log, Die, Reap
<1> QED BY <1>1, <1>2, <1>3, <1>4, <1>5

\* A rename counts the message in hand, under the next number and the ceiling.
LEMMA RenameCounts ==
  ASSUME TypeInv, ReapInv, Clean, IdsInv, ~Loose, UNCHANGED Loose, NEW p \in Process, BumpRenames(p),
         counted' = Append(counted, Sent(p)), UNCHANGED Crossed
  PROVE  Promise!Count
<1>1. /\ proc[p].at = "rename" /\ proc[p].peer /\ UNCHANGED content
      /\ counted \in Seq(Message) /\ proc \in [Process -> Sender]
      /\ tmp \in Inode \cup {NoFile} /\ content \in [Inode -> Content]
      /\ ReadEdge \in Content /\ ReadEdge.count \in Nat
      /\ ReadEdge = Fresh \/ (ReadEdge.count >= 1 /\ ReadEdge.limit # NoLimit)
  BY ReadEdgeOK, GivenType DEF BumpRenames, ReapInv, Loose, TypeInv, TypeOK
<1>2. /\ tmp \in Inode /\ tmp # NoFile /\ content[tmp] = Bumped(p)
      /\ proc[p].edge = ReadEdge
      /\ ReadEdge.limit = NoLimit \/ ReadEdge.count < ReadEdge.limit
      /\ ReadEdge.count = Len(counted)
  BY <1>1 DEF Clean, CountsOK, Counting
<1>3. path' = tmp
  BY <1>2 DEF BumpRenames
<1>4. ReadEdge' = Bumped(p)
  BY <1>1, <1>2, <1>3, BumpedOK DEF ReadEdge
<1>5. /\ Sent(p) \in Message /\ Sent(p).hops = Len(counted) + 1 /\ Sent(p).id = proc[p].id
      /\ ReadEdge'.limit = IF ReadEdge.limit # NoLimit THEN ReadEdge.limit ELSE Declared[From[p]]
  BY <1>1, <1>2, <1>4, SentOK DEF Sent, Bumped
<1>6. ReadEdge'.limit \in Nat
  <2>1. CASE ReadEdge.limit # NoLimit
    <3>1. ReadEdge.limit \in Nat
      BY <1>1, <2>1 DEF Content
    <3> QED BY <1>1, <1>2, <1>5, <2>1, <3>1
  <2>2. CASE ReadEdge.limit = NoLimit
    BY <1>5, <2>2, DeliveryAssumption
  <2> QED BY <2>1, <2>2
<1>7. ~Promise!Exhausted
  <2>1. ReadEdge.limit \in Nat \cup {NoLimit}
    BY <1>1 DEF Content
  <2> QED BY <1>1, <1>2, <2>1 DEF Promise!Exhausted
<1>8. /\ Len(counted') = Len(counted) + 1 /\ counted'[Len(counted) + 1] = Sent(p)
  BY <1>1, <1>5
<1>9. \A i \in DOMAIN counted : counted[i].id # Sent(p).id
  BY <1>1, <1>5 DEF IdsInv
<1> QED BY <1>1, <1>5, <1>6, <1>7, <1>8, <1>9 DEF Promise!Count

\* A delivery takes the message that was counted at its stamp.
LEMMA DeliveryArrives ==
  ASSUME TypeInv, Clean, NEW p \in Process, proc[p].at = "deliver", UNCHANGED <<counted, Loose>>,
         ReadEdge' = ReadEdge, Crossed' = Crossed \cup {Sent(p)}
  PROVE  \E i \in DOMAIN counted : Promise!Arrive(i)
<1>1. StampOK(Sent(p)) /\ \A m \in Crossed : m.hops # Sent(p).hops
  BY DEF Clean, BringsOK
<1>2. counted \in Seq(Message) /\ ReadEdge.count = Len(counted)
  BY DEF TypeInv, TypeOK, Clean
<1>3. Sent(p).hops \in DOMAIN counted /\ counted[Sent(p).hops] = Sent(p)
  BY <1>1, <1>2 DEF StampOK
<1>4. Sent(p) \notin Crossed
  BY <1>1
<1> QED BY <1>3, <1>4 DEF Promise!Arrive

\* write_message call by call, with a crash at any, implements the edge that counts
\* first and delivers after, until senders overlap or a reap overtakes one.
THEOREM DeliveryCountsFirst == Spec => CountedFirst
<1>1. Init => Promise!Init
  <2> SUFFICES ASSUME Init PROVE Promise!Init
    OBVIOUS
  <2>1. Crossed = {}
    BY DEF Init, Crossed
  <2>2. ReadEdge.limit = NoLimit
    BY DEF Init, ReadEdge, Fresh
  <2> QED BY <2>1, <2>2 DEF Init, Promise!Init, Loose
<1>2. TypeInv /\ BoxInv /\ ReapInv /\ CleanInv /\ IdsInv /\ [Next]_vars
        => [Promise!Next]_(Promise!vars)
  <2> SUFFICES ASSUME TypeInv, BoxInv, ReapInv, CleanInv, IdsInv, [Next]_vars
               PROVE  Promise!Next \/ UNCHANGED Promise!vars
    OBVIOUS
  <2>1. CASE Loose'
    BY <2>1 DEF Promise!Next, Promise!Loosen
  <2>2. CASE ~Loose'
    <3>0. ~Loose /\ UNCHANGED Loose /\ Clean /\ inbox \in [End -> SUBSET Message]
      BY <2>2, LooseStays DEF CleanInv, Loose, TypeInv, TypeOK
    <3>1. ASSUME NEW p \in Process, BumpRenames(p), counted' = Append(counted, Sent(p))
          PROVE  Promise!Count
      <4>1. UNCHANGED Crossed
        BY <3>1 DEF BumpRenames, boxes, Crossed
      <4> QED BY <3>0, <3>1, <4>1, RenameCounts
    <3>2. ASSUME NEW p \in Process, Deliver(p), To(p) \in live, UNCHANGED counted
          PROVE  \E i \in DOMAIN counted : Promise!Arrive(i)
      <4>1. Crossed' = Crossed \cup {Sent(p)}
        <5>1. \A q \in Process : Deliver(q) => q = p
          BY <3>2, OneDelivers
        <5> QED BY <3>2, <5>1, CrossedGrows
      <4>2. ReadEdge' = ReadEdge
        BY <3>0, <3>2, EdgeKept
      <4>3. proc[p].at = "deliver"
        BY <3>2 DEF Deliver
      <4> QED BY <3>0, <3>2, <4>1, <4>2, <4>3, DeliveryArrives
    <3>3. CASE UNCHANGED counted /\ ~\E p \in Process : Deliver(p) /\ To(p) \in live
      <4>1. ReadEdge' = ReadEdge
        BY <3>0, <3>3, EdgeKept
      <4>2. Crossed' = Crossed
        BY <3>3, CrossedGrows
      <4> QED BY <3>0, <3>3, <4>1, <4>2 DEF Promise!vars
    <3> QED BY <3>1, <3>2, <3>3, CountedBy DEF Promise!Next
  <2> QED BY <2>1, <2>2
<1> QED
  BY <1>1, <1>2, TypeInit, TypeStep, BoxInit, BoxStep, ReapInit, ReapStep, CleanInit, CleanStep,
     IdsInit, IdsStep, PTL
  DEF Spec, CountedFirst, Promise!Spec
=============================================================================
