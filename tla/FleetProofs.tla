---------------------------- MODULE FleetProofs ----------------------------
(***************************************************************************)
(* Theorems about Fleet, for any number of task-agents, masters and         *)
(* concurrent sweeps, and any peers.                                        *)
(***************************************************************************)
EXTENDS Fleet, FiniteSetTheorems, WellFoundedInduction, TLAPS

-----------------------------------------------------------------------------
(* Types. *)

LEMMA AgentsFinite ==
  /\ Agent \subseteq Nat /\ NoName \notin Agent
  /\ \A S \in SUBSET Agent : IsFiniteSet(S) /\ Cardinality(S) \in 0..N
<1>1. N \in Nat /\ 1 \in Int /\ N \in Int
  BY FleetAssumption
<1>2. IsFiniteSet(Agent) /\ Cardinality(Agent) = N
  BY <1>1, FS_Interval DEF Agent
<1>3. ASSUME NEW S \in SUBSET Agent
      PROVE  IsFiniteSet(S) /\ Cardinality(S) \in 0..N
  <2>1. IsFiniteSet(S) /\ Cardinality(S) <= N
    BY <1>2, FS_Subset
  <2>2. Cardinality(S) \in Nat
    BY <2>1, FS_CardinalityType
  <2> QED BY <1>1, <2>1, <2>2
<1> QED BY <1>3 DEF Agent, NoName

\* A pass takes the first of the names that are left.
LEMMA FirstOfTodo ==
  ASSUME NEW S \in SUBSET Agent, S # {}
  PROVE  Min(S) \in S
<1> DEFINE Less == {ss \in Nat \X Nat : ss[1] < ss[2]}
<1>1. S \subseteq Nat
  BY AgentsFinite
<1>2. IsWellFoundedOn(Less, Nat)
  BY NatLessThanWellFounded DEF OpToRel
<1>3. PICK x \in S : \A y \in S : <<y, x>> \notin Less
  <2> HIDE DEF Less
  <2> QED BY <1>1, <1>2, WFMin
<1>4. ASSUME NEW y \in S PROVE x <= y
  <2>1. x \in Nat /\ y \in Nat
    BY <1>1
  <2>2. ~(y < x)
    BY <1>3, <2>1
  <2> QED BY <2>1, <2>2
<1> QED BY <1>4 DEF Min

LEMMA TypeInit == Init => TypeOK
<1> SUFFICES ASSUME Init PROVE TypeOK
  OBVIOUS
<1>1. AtRest \in SweepRecord
  BY FleetAssumption DEF AtRest, SweepRecord, NoName
<1> QED BY <1>1, FleetAssumption DEF Init, TypeOK, AtRest

\* A sweep that sees another act is the same but for what it has seen.
LEMMA SeenType ==
  ASSUME TypeOK, NEW s \in Sweep, NEW b \in BOOLEAN
  PROVE  /\ Disturbed(sweep[s]) \in SweepRecord
         /\ [Disturbed(sweep[s]) EXCEPT !.unseen = b] \in SweepRecord
  BY DEF TypeOK, SweepRecord, Disturbed

\* The part of TypeOK that is about one sweep.
SweepOK(r) ==
  /\ r \in SweepRecord
  /\ r.todo \cap r.stuck = {}
  /\ r.at \in {"phase", "stop", "archive"} => r.target \in r.todo

LEMMA TypeStep == TypeOK /\ [Next]_vars => TypeOK'
<1> SUFFICES ASSUME TypeOK, [Next]_vars
             PROVE  TypeOK'
  OBVIOUS
<1>1. \A s \in Sweep : SweepOK(sweep[s])
  BY DEF TypeOK, SweepOK
<1>2. ASSUME NEW s \in Sweep, NEW b \in BOOLEAN
      PROVE  /\ SweepOK(Disturbed(sweep[s]))
             /\ SweepOK([Disturbed(sweep[s]) EXCEPT !.unseen = b])
  BY <1>1 DEF SweepOK, SweepRecord, Disturbed
<1>3. ASSUME sup' \in [Agent -> {"absent", "booting", "idle", "turn", "exited"}],
             owner' \in [Agent -> Master],
             meta' \in [Agent -> Master \cup {NoMeta}],
             phase' \in [Agent -> {"none", "idle", "processing"}],
             DOMAIN sweep' = Sweep, sweep' = [s \in Sweep |-> sweep'[s]],
             \A s \in Sweep : SweepOK(sweep'[s])
      PROVE  TypeOK'
  BY <1>3 DEF TypeOK, SweepOK
<1>4. ASSUME NEW a \in Agent, AgentStep(a)
      PROVE  TypeOK'
  <2>1. /\ sup' \in [Agent -> {"absent", "booting", "idle", "turn", "exited"}]
        /\ owner' \in [Agent -> Master]
        /\ meta' \in [Agent -> Master \cup {NoMeta}]
        /\ phase' \in [Agent -> {"none", "idle", "processing"}]
    BY <1>4, FleetAssumption
       DEF TypeOK, AgentStep, Launch, Boot, BeginTurn, EndTurn, Die, Remove
  <2>2. CASE NoSweepSees
    BY <1>2, <1>3, <2>1, <2>2 DEF NoSweepSees
  <2>3. CASE BeginTurn(a)
    <3>1. \A s \in Sweep : (sweep[s].unseen \/ sweep[s].target = a) \in BOOLEAN
      OBVIOUS
    <3>2. sweep' = [s \in Sweep |-> [Disturbed(sweep[s]) EXCEPT
                      !.unseen = sweep[s].unseen \/ sweep[s].target = a]]
      BY <2>3 DEF BeginTurn, Disturbed, TypeOK, SweepRecord
    <3> QED BY <1>2, <1>3, <2>1, <3>1, <3>2
  <2> QED BY <1>4, <2>2, <2>3 DEF AgentStep, Launch, Boot, EndTurn, Die, Remove
<1>5. ASSUME NEW s \in Sweep, NEW r, SweepOK(r), sweep' = [sweep EXCEPT ![s] = r],
             UNCHANGED <<sup, owner, meta, phase>>
      PROVE  TypeOK'
  <2>1. \A t \in Sweep : SweepOK(sweep'[t])
    BY <1>1, <1>5 DEF TypeOK
  <2> QED BY <1>3, <1>5, <2>1 DEF TypeOK
<1>6. ASSUME NEW s \in Sweep, NEW r, SweepOK(r),
             sweep' = [t \in Sweep |-> IF t = s THEN r ELSE Disturbed(sweep[t])]
      PROVE  /\ DOMAIN sweep' = Sweep /\ sweep' = [t \in Sweep |-> sweep'[t]]
             /\ \A t \in Sweep : SweepOK(sweep'[t])
  BY <1>2, <1>6
<1>7. ASSUME NEW s \in Sweep, SweepStep(s)
      PROVE  TypeOK'
  <2> DEFINE r == sweep[s]
  <2>0. SweepOK(r)
    BY <1>1
  <2>1. CASE Check(s)
    <3> DEFINE a == Min(r.todo)
               q == [r EXCEPT !.target = a]
    <3>1. a \in r.todo
      BY <2>0, <2>1, FirstOfTodo DEF Check, SweepOK, SweepRecord
    <3> HIDE DEF a
    <3>2. SweepOK(Refused(q)) /\ SweepOK([q EXCEPT !.at = "stop"])
          /\ SweepOK([q EXCEPT !.at = "phase"])
      BY <2>0, <3>1 DEF SweepOK, SweepRecord, Refused
    <3>3. \/ sweep' = [sweep EXCEPT ![s] = Refused(q)]
          \/ sweep' = [sweep EXCEPT ![s] = [q EXCEPT !.at = "stop"]]
          \/ sweep' = [sweep EXCEPT ![s] = [q EXCEPT !.at = "phase"]]
      BY <2>1 DEF Check, a
    <3>4. UNCHANGED <<sup, owner, meta, phase>>
      BY <2>1 DEF Check
    <3> HIDE DEF q
    <3> QED BY <1>5, <3>2, <3>3, <3>4
  <2>2. CASE AwaitTurn(s)
    <3>1. SweepOK(Refused(r)) /\ SweepOK([r EXCEPT !.at = "stop", !.unseen = FALSE])
      BY <2>0, <2>2 DEF AwaitTurn, SweepOK, SweepRecord, Refused
    <3>2. \/ sweep' = [sweep EXCEPT ![s] = Refused(r)]
          \/ sweep' = [sweep EXCEPT ![s] = [r EXCEPT !.at = "stop", !.unseen = FALSE]]
      BY <2>2 DEF AwaitTurn
    <3>3. UNCHANGED <<sup, owner, meta, phase>>
      BY <2>2 DEF AwaitTurn
    <3> HIDE DEF r
    <3> QED BY <1>5, <3>1, <3>2, <3>3
  <2>3. CASE StopAndRemove(s)
    <3>1. SweepOK([r EXCEPT !.at = "archive"])
      BY <2>0, <2>3 DEF StopAndRemove, SweepOK, SweepRecord
    <3>2. sweep' = [t \in Sweep |-> IF t = s THEN [r EXCEPT !.at = "archive"]
                                    ELSE Disturbed(sweep[t])]
      BY <2>3 DEF StopAndRemove
    <3> QED BY <1>3, <1>6, <2>3, <3>1, <3>2, FleetAssumption DEF StopAndRemove, TypeOK
  <2>4. CASE ArchiveMailbox(s)
    <3>1. SweepOK(Reaped(r))
      BY <2>0, <2>4, AgentsFinite DEF ArchiveMailbox, Reaped, SweepOK, SweepRecord
    <3>2. sweep' = [t \in Sweep |-> IF t = s THEN Reaped(r) ELSE Disturbed(sweep[t])]
      BY <2>4 DEF ArchiveMailbox
    <3> QED BY <1>3, <1>6, <2>4, <3>1, <3>2 DEF ArchiveMailbox, TypeOK
  <2>5. CASE EndPass(s)
    <3> DEFINE q == [r EXCEPT !.todo = r.stuck, !.stuck = {},
                              !.size = Cardinality(r.stuck)]
    <3>1. Cardinality(r.stuck) \in 0..N
      BY <2>0, AgentsFinite DEF SweepOK, SweepRecord
    <3>2. SweepOK([r EXCEPT !.at = "done"]) /\ SweepOK(q)
      BY <2>0, <2>5, <3>1 DEF EndPass, SweepOK, SweepRecord
    <3>3. sweep' = [sweep EXCEPT ![s] = [r EXCEPT !.at = "done"]]
          \/ sweep' = [sweep EXCEPT ![s] = q]
      BY <2>5 DEF EndPass
    <3>4. UNCHANGED <<sup, owner, meta, phase>>
      BY <2>5 DEF EndPass
    <3> HIDE DEF q
    <3> QED BY <1>5, <3>2, <3>3, <3>4
  <2> QED BY <1>7, <2>1, <2>2, <2>3, <2>4, <2>5 DEF SweepStep
<1>8. ASSUME NEW s \in Sweep, Exit(s)
      PROVE  TypeOK'
  <2>1. SweepOK(AtRest)
    BY FleetAssumption DEF SweepOK, AtRest, SweepRecord, NoName
  <2> QED BY <1>5, <1>8, <2>1 DEF Exit
<1>9. ASSUME NEW s \in Sweep, NEW parent \in Master, NEW force \in BOOLEAN,
             Begin(s, parent, force)
      PROVE  TypeOK'
  <2>1. PICK names \in SUBSET Agent :
          sweep' = [sweep EXCEPT ![s] =
            [AtRest EXCEPT !.at = "pass", !.parent = parent, !.force = force,
                           !.todo = names, !.size = Cardinality(names), !.quiet = TRUE]]
    BY <1>9 DEF Begin, Targets, Listed, Fleet
  <2>2. Cardinality(names) \in 0..N
    BY AgentsFinite
  <2>3. SweepOK([AtRest EXCEPT !.at = "pass", !.parent = parent, !.force = force,
                           !.todo = names, !.size = Cardinality(names), !.quiet = TRUE])
    BY <2>2 DEF SweepOK, AtRest, SweepRecord, NoName
  <2> QED BY <1>5, <1>9, <2>1, <2>3 DEF Begin
<1>10. CASE UNCHANGED vars
  BY <1>10 DEF vars, TypeOK
<1> QED BY <1>4, <1>7, <1>8, <1>9, <1>10 DEF Next

\* Every reachable state is well typed; in particular no pass deals with a name
\* twice, and what it stops and archives is a name it has not refused.
THEOREM TypeCorrect == Spec => []TypeOK
  BY TypeInit, TypeStep, PTL DEF Spec

-----------------------------------------------------------------------------
(* Whose turn is cut short. *)

InTurn(a) == sup[a] = "turn" /\ a \in Fleet

\* The state file of an agent in a turn says so, as long as it has a mailbox; and
\* a sweep that may stop an agent in a turn could not have read that it is in one.
SpareInv ==
  /\ \A a \in Agent : InTurn(a) => phase[a] = "processing"
  /\ \A s \in Sweep :
       sweep[s].at = "stop" /\ ~sweep[s].force /\ InTurn(sweep[s].target)
         => sweep[s].unseen

LEMMA SpareInit == Init => SpareInv
  BY DEF Init, SpareInv, InTurn, AtRest

LEMMA SpareStep == TypeOK /\ SpareInv /\ [Next]_vars => SpareInv'
<1> SUFFICES ASSUME TypeOK, SpareInv, [Next]_vars
             PROVE  SpareInv'
  OBVIOUS
<1>1. \A s \in Sweep : /\ sweep[s] \in SweepRecord
                       /\ sweep[s].at = "stop" => sweep[s].target \in Agent
  BY DEF TypeOK, SweepRecord
<1>2. ASSUME NEW a \in Agent, AgentStep(a), ~BeginTurn(a)
      PROVE  SpareInv'
  <2>1. \A k \in Agent : InTurn(k)' => InTurn(k) /\ phase'[k] = phase[k]
    BY <1>2 DEF InTurn, Fleet, AgentStep, Launch, Boot, EndTurn, Die, Remove, TypeOK
  <2>2. sweep' = [s \in Sweep |-> Disturbed(sweep[s])]
    BY <1>2 DEF AgentStep, Launch, Boot, EndTurn, Die, Remove, NoSweepSees
  <2>3. \A s \in Sweep : /\ sweep'[s].at = sweep[s].at
                         /\ sweep'[s].force = sweep[s].force
                         /\ sweep'[s].target = sweep[s].target
                         /\ sweep'[s].unseen = sweep[s].unseen
    BY <1>1, <2>2 DEF Disturbed, SweepRecord
  <2> QED BY <1>1, <2>1, <2>3 DEF SpareInv
<1>3. ASSUME NEW a \in Agent, BeginTurn(a)
      PROVE  SpareInv'
  <2>1. \A k \in Agent : InTurn(k)' => k = a \/ InTurn(k)
    BY <1>3 DEF InTurn, Fleet, BeginTurn, TypeOK
  <2>2. /\ phase'[a] = "processing"
        /\ \A k \in Agent \ {a} : phase'[k] = phase[k]
    BY <1>3 DEF BeginTurn, TypeOK
  <2>3. \A s \in Sweep :
          /\ sweep'[s].at = sweep[s].at
          /\ sweep'[s].force = sweep[s].force
          /\ sweep'[s].target = sweep[s].target
          /\ sweep'[s].unseen = (sweep[s].unseen \/ sweep[s].target = a)
    BY <1>1, <1>3 DEF BeginTurn, Disturbed, SweepRecord
  <2> QED BY <1>1, <2>1, <2>2, <2>3 DEF SpareInv
<1>4. ASSUME NEW s \in Sweep, \A t \in Sweep \ {s} : sweep'[t] = sweep[t],
             UNCHANGED <<sup, owner, meta, phase>>,
             sweep'[s].at = "stop" /\ ~sweep'[s].force => ~InTurn(sweep'[s].target)
      PROVE  SpareInv'
  <2>1. \A k : InTurn(k)' = InTurn(k)
    BY <1>4 DEF InTurn, Fleet
  <2> QED BY <1>4, <2>1 DEF SpareInv
<1>5. ASSUME NEW s \in Sweep, SweepStep(s)
      PROVE  SpareInv'
  <2> DEFINE r == sweep[s]
  <2>0. r \in SweepRecord
    BY <1>1
  <2>1. CASE Check(s)
    <3>1. sweep'[s].at = "stop" => sweep'[s].force
      BY <2>0, <2>1 DEF Check, Refused, SweepRecord, TypeOK
    <3> QED BY <1>4, <2>1, <3>1 DEF Check, TypeOK
  <2>2. CASE AwaitTurn(s)
    <3>1. CASE phase[r.target] # "processing"
      <4>1. sweep'[s].target = r.target /\ r.target \in Agent
        BY <2>0, <2>2, <3>1 DEF AwaitTurn, SweepRecord, TypeOK
      <4>2. ~InTurn(r.target)
        BY <3>1, <4>1 DEF SpareInv
      <4> QED BY <1>4, <2>2, <4>1, <4>2 DEF AwaitTurn, TypeOK
    <3>2. CASE phase[r.target] = "processing"
      <4>1. sweep'[s].at # "stop"
        BY <2>0, <2>2, <3>2 DEF AwaitTurn, Refused, SweepRecord, TypeOK
      <4> QED BY <1>4, <2>2, <4>1 DEF AwaitTurn, TypeOK
    <3> QED BY <3>1, <3>2
  <2>3. CASE StopAndRemove(s) \/ ArchiveMailbox(s)
    <3>1. \A k \in Agent : InTurn(k)' => InTurn(k) /\ phase'[k] = phase[k]
      BY <2>3 DEF InTurn, Fleet, StopAndRemove, ArchiveMailbox, TypeOK
    <3>2. sweep'[s].at # "stop"
      BY <2>0, <2>3 DEF StopAndRemove, ArchiveMailbox, Reaped, SweepRecord
    <3>3. \A t \in Sweep \ {s} : sweep'[t] = Disturbed(sweep[t])
      BY <2>3 DEF StopAndRemove, ArchiveMailbox
    <3>4. \A t \in Sweep \ {s} : /\ sweep'[t].at = sweep[t].at
                                 /\ sweep'[t].force = sweep[t].force
                                 /\ sweep'[t].target = sweep[t].target
                                 /\ sweep'[t].unseen = sweep[t].unseen
      BY <1>1, <3>3 DEF Disturbed, SweepRecord
    <3> QED BY <1>1, <3>1, <3>2, <3>4 DEF SpareInv
  <2>4. CASE EndPass(s)
    <3>1. sweep'[s].at # "stop"
      BY <2>0, <2>4 DEF EndPass, SweepRecord, TypeOK
    <3> QED BY <1>4, <2>4, <3>1 DEF EndPass, TypeOK
  <2> QED BY <1>5, <2>1, <2>2, <2>3, <2>4 DEF SweepStep
<1>6. ASSUME NEW s \in Sweep, Exit(s)
      PROVE  SpareInv'
  BY <1>4, <1>6 DEF Exit, AtRest, TypeOK
<1>7. ASSUME NEW s \in Sweep, NEW parent \in Master, NEW force \in BOOLEAN,
             Begin(s, parent, force)
      PROVE  SpareInv'
  <2>1. sweep'[s].at # "stop"
    BY <1>7 DEF Begin, AtRest, TypeOK
  <2> QED BY <1>4, <1>7, <2>1 DEF Begin, TypeOK
<1>8. CASE UNCHANGED vars
  BY <1>8 DEF vars, SpareInv, InTurn, Fleet
<1> QED BY <1>2, <1>3, <1>5, <1>6, <1>7, <1>8 DEF Next

\* Without --force no sweep stops an agent in a turn it could have read in the
\* state file, however many sweeps run and whatever the agents do meanwhile.
THEOREM NoVisibleTurnIsCut == Spec => TurnsAreSpared
<1>1. SpareInv =>
        [\A s \in Sweep :
           LET r == sweep[s] IN
           (/\ r.at = "stop" /\ sweep'[s].at = "archive" /\ ~r.force
            /\ sup[r.target] = "turn" /\ r.target \in Fleet)
             => r.unseen]_vars
  BY DEF SpareInv, InTurn
<1> QED
  BY <1>1, TypeInit, TypeStep, SpareInit, SpareStep, PTL DEF Spec, TurnsAreSpared

-----------------------------------------------------------------------------
(* Who is left. *)

\* Whom NobodyStranded lets a sweep of each parent leave.
Blocked ==
  [p \in Master |->
     {a \in Agent : \/ phase[a] = "processing"
                    \/ Dependents(a) # {}
                    \/ p # HOST /\ ParentOf(a) # p}]

\* Of the names a pass started with it has dealt with some; until it has reaped
\* one, what it refused still stands, if nobody else has acted.
PassInv(r, blocked) ==
  /\ r.at # "rest" => Cardinality(r.todo \cup r.stuck) <= r.size
  /\ r.at = "done" => r.todo = {} /\ NoProgress(r)
  /\ r.quiet /\ r.at # "archive" /\ Cardinality(r.todo \cup r.stuck) = r.size
       => r.stuck \subseteq blocked[r.parent]

StrandInv == \A s \in Sweep : PassInv(sweep[s], Blocked)

LEMMA StrandInit == Init => StrandInv
<1> SUFFICES ASSUME Init, NEW s \in Sweep PROVE PassInv(sweep[s], Blocked)
  BY DEF StrandInv
<1>1. sweep[s].at = "rest" /\ sweep[s].stuck = {}
  BY DEF Init, AtRest
<1> QED BY <1>1 DEF PassInv

\* Refusing a name that is blocked takes it from what is left to what is stuck.
LEMMA RefusedPass ==
  ASSUME NEW r, SweepOK(r), NEW a \in r.todo, NEW blocked, PassInv(r, blocked),
         r.at \in {"pass", "phase"}, a \in blocked[r.parent]
  PROVE  PassInv(Refused([r EXCEPT !.target = a]), blocked)
<1> DEFINE q == Refused([r EXCEPT !.target = a])
<1>1. /\ q.at = "pass" /\ q.todo = r.todo \ {a} /\ q.stuck = r.stuck \cup {a}
      /\ q.size = r.size /\ q.parent = r.parent /\ q.quiet = r.quiet
  BY DEF Refused, SweepOK, SweepRecord
<1> HIDE DEF q
<1>2. q.todo \cup q.stuck = r.todo \cup r.stuck
  BY <1>1
<1>3. PassInv(q, blocked)
  BY <1>1, <1>2 DEF PassInv
<1> QED BY <1>3 DEF q

LEMMA StrandStep == TypeOK /\ StrandInv /\ [Next]_vars => StrandInv'
<1> SUFFICES ASSUME TypeOK, StrandInv, [Next]_vars
             PROVE  StrandInv'
  OBVIOUS
<1>1. \A s \in Sweep : SweepOK(sweep[s]) /\ PassInv(sweep[s], Blocked)
  BY DEF TypeOK, SweepOK, StrandInv
<1>2. ASSUME NEW s \in Sweep,
             /\ sweep'[s].at = sweep[s].at /\ sweep'[s].todo = sweep[s].todo
             /\ sweep'[s].stuck = sweep[s].stuck /\ sweep'[s].size = sweep[s].size
             /\ ~sweep'[s].quiet
      PROVE  PassInv(sweep'[s], Blocked')
  <2>1. PassInv(sweep[s], Blocked)
    BY <1>1
  <2> QED BY <1>2, <2>1 DEF PassInv, NoProgress
<1>3. ASSUME NEW s \in Sweep, sweep'[s] = Disturbed(sweep[s])
      PROVE  PassInv(sweep'[s], Blocked')
  BY <1>1, <1>2, <1>3 DEF Disturbed, SweepOK, SweepRecord
<1>4. ASSUME NEW a \in Agent, AgentStep(a)
      PROVE  StrandInv'
  <2> SUFFICES ASSUME NEW s \in Sweep PROVE PassInv(sweep'[s], Blocked')
    BY DEF StrandInv
  <2>1. CASE NoSweepSees
    BY <1>3, <2>1 DEF NoSweepSees
  <2>2. CASE BeginTurn(a)
    BY <1>1, <1>2, <2>2 DEF BeginTurn, Disturbed, SweepOK, SweepRecord
  <2> QED BY <1>4, <2>1, <2>2 DEF AgentStep, Launch, Boot, EndTurn, Die, Remove
<1>5. ASSUME NEW s \in Sweep, UNCHANGED <<sup, owner, meta, phase>>,
             \A t \in Sweep \ {s} : sweep'[t] = sweep[t],
             PassInv(sweep'[s], Blocked)
      PROVE  StrandInv'
  <2>1. Blocked' = Blocked
    BY <1>5 DEF Blocked, Dependents, Running, Fleet, ParentOf, Listed
  <2>2. \A t \in Sweep : PassInv(sweep'[t], Blocked)
    BY <1>1, <1>5
  <2> QED BY <2>1, <2>2 DEF StrandInv
<1>6. ASSUME NEW s \in Sweep, SweepStep(s)
      PROVE  StrandInv'
  <2> DEFINE r == sweep[s]
  <2>0. SweepOK(r) /\ PassInv(r, Blocked) /\ r.todo \in SUBSET Agent
        /\ r.stuck \in SUBSET Agent /\ r.parent \in Master
    BY <1>1 DEF SweepOK, SweepRecord
  <2>1. CASE Check(s)
    <3> DEFINE a == Min(r.todo)
               q == [r EXCEPT !.target = a]
    <3>1. a \in r.todo
      BY <2>0, <2>1, FirstOfTodo DEF Check
    <3>2. r.at = "pass" /\ UNCHANGED <<sup, owner, meta, phase>>
          /\ \A t \in Sweep \ {s} : sweep'[t] = sweep[t]
      BY <2>1 DEF Check, TypeOK
    <3>3. sweep'[s] =
            IF q.force THEN [q EXCEPT !.at = "stop"]
            ELSE IF (q.parent # HOST /\ ParentOf(a) # q.parent) \/ Dependents(a) # {}
            THEN Refused(q)
            ELSE [q EXCEPT !.at = "phase"]
      BY <2>1 DEF Check, TypeOK
    <3> HIDE DEF a
    <3>4. CASE sweep'[s] = [q EXCEPT !.at = "stop"] \/ sweep'[s] = [q EXCEPT !.at = "phase"]
      <4>1. /\ sweep'[s].at \in {"stop", "phase"} /\ sweep'[s].todo = r.todo
            /\ sweep'[s].stuck = r.stuck /\ sweep'[s].size = r.size
            /\ sweep'[s].parent = r.parent /\ sweep'[s].quiet = r.quiet
        BY <2>0, <3>4 DEF SweepOK, SweepRecord
      <4>2. PassInv(sweep'[s], Blocked)
        BY <2>0, <3>2, <4>1 DEF PassInv
      <4> QED BY <1>5, <3>2, <4>2
    <3>5. CASE /\ sweep'[s] = Refused(q)
               /\ (q.parent # HOST /\ ParentOf(a) # q.parent) \/ Dependents(a) # {}
      <4>1. a \in Blocked[r.parent]
        <5>1. q.parent = r.parent /\ a \in Agent
          BY <2>0, <3>1 DEF SweepOK, SweepRecord
        <5> QED BY <2>0, <3>5, <5>1 DEF Blocked
      <4>2. PassInv(Refused(q), Blocked)
        BY <2>0, <3>1, <3>2, <4>1, RefusedPass
      <4> QED BY <1>5, <3>2, <3>5, <4>2
    <3> QED BY <3>3, <3>4, <3>5
  <2>2. CASE AwaitTurn(s)
    <3>1. r.at = "phase" /\ UNCHANGED <<sup, owner, meta, phase>>
          /\ \A t \in Sweep \ {s} : sweep'[t] = sweep[t]
      BY <2>2 DEF AwaitTurn, TypeOK
    <3>2. sweep'[s] = IF phase[r.target] # "processing"
                      THEN [r EXCEPT !.at = "stop", !.unseen = FALSE] ELSE Refused(r)
      BY <2>2 DEF AwaitTurn, TypeOK
    <3>3. CASE phase[r.target] # "processing"
      <4>1. /\ sweep'[s].at = "stop" /\ sweep'[s].todo = r.todo
            /\ sweep'[s].stuck = r.stuck /\ sweep'[s].size = r.size
            /\ sweep'[s].parent = r.parent /\ sweep'[s].quiet = r.quiet
        BY <2>0, <3>2, <3>3 DEF SweepOK, SweepRecord
      <4>2. PassInv(sweep'[s], Blocked)
        BY <2>0, <3>1, <4>1 DEF PassInv
      <4> QED BY <1>5, <3>1, <4>2
    <3>4. CASE phase[r.target] = "processing"
      <4>1. r.target \in r.todo /\ r = [r EXCEPT !.target = r.target]
        BY <2>0, <3>1 DEF SweepOK, SweepRecord
      <4>2. r.target \in Blocked[r.parent]
        BY <2>0, <3>4, <4>1 DEF Blocked
      <4>3. PassInv(Refused(r), Blocked)
        BY <2>0, <3>1, <4>1, <4>2, RefusedPass
      <4> QED BY <1>5, <3>1, <3>2, <3>4, <4>3
    <3> QED BY <3>3, <3>4
  <2>3. CASE StopAndRemove(s)
    <3>1. /\ r.at = "stop" /\ sweep'[s] = [r EXCEPT !.at = "archive"]
          /\ \A t \in Sweep \ {s} : sweep'[t] = Disturbed(sweep[t])
      BY <2>3 DEF StopAndRemove
    <3>2. /\ sweep'[s].at = "archive" /\ sweep'[s].todo = r.todo
          /\ sweep'[s].stuck = r.stuck /\ sweep'[s].size = r.size
      BY <2>0, <3>1 DEF SweepOK, SweepRecord
    <3>3. PassInv(sweep'[s], Blocked')
      BY <2>0, <3>1, <3>2 DEF PassInv
    <3> QED BY <1>3, <3>1, <3>3 DEF StrandInv
  <2>4. CASE ArchiveMailbox(s)
    <3>1. /\ r.at = "archive" /\ sweep'[s] = Reaped(r)
          /\ \A t \in Sweep \ {s} : sweep'[t] = Disturbed(sweep[t])
      BY <2>4 DEF ArchiveMailbox
    <3>2. /\ sweep'[s].at = "pass" /\ sweep'[s].todo = r.todo \ {r.target}
          /\ sweep'[s].stuck = r.stuck /\ sweep'[s].size = r.size
      BY <2>0, <3>1 DEF Reaped, SweepOK, SweepRecord
    <3>3. r.target \in r.todo /\ r.target \notin r.stuck /\ r.size \in Nat
      BY <2>0, <3>1 DEF SweepOK, SweepRecord
    <3>4. sweep'[s].todo \cup sweep'[s].stuck = (r.todo \cup r.stuck) \ {r.target}
      BY <3>2, <3>3
    <3>5. Cardinality((r.todo \cup r.stuck) \ {r.target})
            = Cardinality(r.todo \cup r.stuck) - 1
          /\ Cardinality(r.todo \cup r.stuck) \in Nat
      <4>1. IsFiniteSet(r.todo \cup r.stuck) /\ Cardinality(r.todo \cup r.stuck) \in Nat
        <5>1. r.todo \cup r.stuck \in SUBSET Agent
          BY <2>0
        <5> QED BY <5>1, AgentsFinite
      <4> QED BY <3>3, <4>1, FS_RemoveElement
    <3>6. Cardinality(r.todo \cup r.stuck) <= r.size
      BY <2>0, <3>1 DEF PassInv
    <3>7. PassInv(sweep'[s], Blocked')
      <4> DEFINE before == Cardinality(r.todo \cup r.stuck)
                 after == Cardinality(sweep'[s].todo \cup sweep'[s].stuck)
      <4>1. after = before - 1
        BY <3>4, <3>5
      <4>2. before \in Nat /\ before <= r.size /\ r.size \in Nat
        BY <3>3, <3>5, <3>6
      <4> HIDE DEF before
      <4>3. after < r.size /\ after <= r.size /\ after # r.size
        BY <4>1, <4>2
      <4> QED BY <3>2, <4>3 DEF PassInv
    <3> QED BY <1>3, <3>1, <3>7 DEF StrandInv
  <2>5. CASE EndPass(s)
    <3>1. /\ r.at = "pass" /\ r.todo = {} /\ UNCHANGED <<sup, owner, meta, phase>>
          /\ \A t \in Sweep \ {s} : sweep'[t] = sweep[t]
      BY <2>5 DEF EndPass, TypeOK
    <3>2. sweep'[s] = IF NoProgress(r) THEN [r EXCEPT !.at = "done"]
                      ELSE [r EXCEPT !.todo = r.stuck, !.stuck = {},
                                     !.size = Cardinality(r.stuck)]
      BY <2>5 DEF EndPass, TypeOK
    <3>3. CASE NoProgress(r)
      <4>1. /\ sweep'[s].at = "done" /\ sweep'[s].todo = r.todo
            /\ sweep'[s].stuck = r.stuck /\ sweep'[s].size = r.size
            /\ sweep'[s].parent = r.parent /\ sweep'[s].quiet = r.quiet
        BY <2>0, <3>2, <3>3 DEF SweepOK, SweepRecord
      <4>2. PassInv(sweep'[s], Blocked)
        BY <2>0, <3>1, <3>3, <4>1 DEF PassInv, NoProgress
      <4> QED BY <1>5, <3>1, <4>2
    <3>4. CASE ~NoProgress(r)
      <4>1. /\ sweep'[s].at = "pass" /\ sweep'[s].todo = r.stuck
            /\ sweep'[s].stuck = {} /\ sweep'[s].size = Cardinality(r.stuck)
        BY <2>0, <3>1, <3>2, <3>4 DEF SweepOK, SweepRecord
      <4>2. Cardinality(r.stuck) \in Nat
        BY <2>0, AgentsFinite
      <4>3. r.stuck \cup {} = r.stuck
        OBVIOUS
      <4>4. PassInv(sweep'[s], Blocked)
        BY <4>1, <4>2, <4>3 DEF PassInv
      <4> QED BY <1>5, <3>1, <4>4
    <3> QED BY <3>3, <3>4
  <2> QED BY <1>6, <2>1, <2>2, <2>3, <2>4, <2>5 DEF SweepStep
<1>7. ASSUME NEW s \in Sweep, Exit(s)
      PROVE  StrandInv'
  <2>1. sweep'[s].at = "rest" /\ sweep'[s].stuck = {}
    BY <1>7 DEF Exit, AtRest, TypeOK
  <2>2. PassInv(sweep'[s], Blocked)
    BY <2>1 DEF PassInv
  <2> QED BY <1>5, <1>7, <2>2 DEF Exit, TypeOK
<1>8. ASSUME NEW s \in Sweep, NEW parent \in Master, NEW force \in BOOLEAN,
             Begin(s, parent, force)
      PROVE  StrandInv'
  <2>1. /\ sweep'[s].at = "pass" /\ sweep'[s].stuck = {}
        /\ sweep'[s].todo \in SUBSET Agent
        /\ sweep'[s].size = Cardinality(sweep'[s].todo)
    BY <1>8 DEF Begin, AtRest, TypeOK, Targets, Listed, Fleet
  <2>2. Cardinality(sweep'[s].todo) \in Nat
    BY <2>1, AgentsFinite
  <2>3. sweep'[s].todo \cup {} = sweep'[s].todo
    OBVIOUS
  <2>4. PassInv(sweep'[s], Blocked)
    BY <2>1, <2>2, <2>3 DEF PassInv
  <2> QED BY <1>5, <1>8, <2>4 DEF Begin, TypeOK
<1>9. CASE UNCHANGED vars
  <2>1. Blocked' = Blocked
    BY <1>9 DEF vars, Blocked, Dependents, Running, Fleet, ParentOf, Listed
  <2> QED BY <1>1, <1>9, <2>1 DEF vars, StrandInv
<1> QED BY <1>4, <1>6, <1>7, <1>8, <1>9 DEF Next

LEMMA StrandInvIsEnough == TypeOK /\ StrandInv => NobodyStranded
<1> SUFFICES ASSUME TypeOK, StrandInv, NEW s \in Sweep, sweep[s].at = "done",
                    sweep[s].quiet, NEW a \in sweep[s].stuck
             PROVE  \/ phase[a] = "processing" \/ Dependents(a) # {}
                    \/ sweep[s].parent # HOST /\ ParentOf(a) # sweep[s].parent
  BY DEF NobodyStranded
<1>1. PassInv(sweep[s], Blocked) /\ sweep[s].parent \in Master
  BY DEF StrandInv, TypeOK, SweepRecord
<1>2. sweep[s].todo = {} /\ Cardinality(sweep[s].stuck) = sweep[s].size
  BY <1>1 DEF PassInv, NoProgress
<1>3. sweep[s].todo \cup sweep[s].stuck = sweep[s].stuck
  BY <1>2
<1>4. a \in Blocked[sweep[s].parent]
  BY <1>1, <1>2, <1>3 DEF PassInv
<1> QED BY <1>1, <1>4 DEF Blocked

\* The passes of `shutdown --all` reap everyone who can be reaped, whoever peers
\* with whom and in whatever order the names come: an undisturbed sweep leaves
\* only agents that a check still holds against at its end.
THEOREM SweepIsExhaustive == Spec => []NobodyStranded
<1>1. Init => TypeOK /\ StrandInv
  BY TypeInit, StrandInit
<1>2. TypeOK /\ StrandInv /\ [Next]_vars => (TypeOK /\ StrandInv)'
  BY TypeStep, StrandStep
<1> QED BY <1>1, <1>2, StrandInvIsEnough, PTL DEF Spec
=============================================================================
