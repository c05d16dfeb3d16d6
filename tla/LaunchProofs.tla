---------------------------- MODULE LaunchProofs ----------------------------
(***************************************************************************)
(* Theorems about Launch, for any number of launches, whatever they ask for, *)
(* any cap and any number of faults.                                         *)
(***************************************************************************)
EXTENDS Launch, FiniteSetTheorems, WellFoundedInduction, TLAPS

CmdRecord ==
  [pc : {"idle", "name", "cap", "check", "run", "over"},
   ask : Ask \cup {NoAsk}, suffix : Nat, base : Commit]

AskRecord == [kind : Kind, slug : Slug, parent : Parent, mode : Mode]

\* A launch that holds on to the name it probed.
Fixed(l) == cmd[l].pc \notin {"idle", "name"}

\* Every suffix that a launch has passed over was taken by another.
Taken(i) == {0} \cup 2..(i - 1)
Passed(l) ==
  cmd[l].suffix # 0 =>
    \A i \in Taken(cmd[l].suffix) : \E k \in Launch \ {l} : Fixed(k) /\ cmd[k].suffix = i

CmdInv ==
  /\ cmd \in [Launch -> CmdRecord]
  /\ \A l \in Launch : cmd[l].pc # "idle" => cmd[l].ask \in Ask
  /\ \A l \in Launch : cmd[l].suffix # 1 /\ Passed(l)
  /\ \A l \in Launch : cmd[l].pc = "idle" => cmd[l].suffix = 0

CtrInv ==
  /\ ctr \in [Launch -> {"none", "boot", "live", "stopped"}]
  /\ \A l \in Launch : Present(l) => cmd[l].pc = "over"
  /\ \A k, l \in Launch : Present(k) /\ Present(l) /\ NameAt(k) = NameAt(l) => k = l

StoreInv ==
  /\ commits \subseteq Commit
  /\ mark \in [Name -> commits \cup {NoMark}]
  /\ reaping \subseteq Name /\ orphaned \subseteq Name

GhostInv ==
  /\ hasty \subseteq Launch /\ blind \subseteq Launch
  /\ met \subseteq SUBSET Launch
  /\ faults \in 0..Faults

TypeInv == CmdInv /\ CtrInv /\ StoreInv /\ GhostInv

-----------------------------------------------------------------------------
(* Names *)

LEMMA AskKnown ==
  ASSUME NEW ask \in Ask
  PROVE  ask \in AskRecord
BY LaunchAssumption DEF Ask, AskRecord

LEMMA TakenSize ==
  ASSUME NEW i \in Nat, i >= 2
  PROVE  IsFiniteSet(Taken(i)) /\ Cardinality(Taken(i)) = i - 1
<1>1. IsFiniteSet(2..(i - 1)) /\ Cardinality(2..(i - 1)) = i - 2
  <2>1. 2 \in Int /\ i - 1 \in Int
    OBVIOUS
  <2>2. IsFiniteSet(2..(i - 1)) /\ Cardinality(2..(i - 1)) = IF 2 > i - 1 THEN 0 ELSE (i - 1) - 2 + 1
    BY <2>1, FS_Interval
  <2> QED
    BY <2>2
<1>2. 0 \notin 2..(i - 1)
  OBVIOUS
<1>3. IsFiniteSet(2..(i - 1) \cup {0}) /\ Cardinality(2..(i - 1) \cup {0}) = Cardinality(2..(i - 1)) + 1
  BY <1>1, <1>2, FS_AddElement
<1>4. Taken(i) = 2..(i - 1) \cup {0}
  BY DEF Taken
<1> QED
  BY <1>1, <1>3, <1>4

\* A launch passes over fewer suffixes than there are launches.
LEMMA SuffixBounded ==
  ASSUME CmdInv, NEW l \in Launch
  PROVE  cmd[l].suffix \in 0..N
<1>1. cmd[l].suffix \in Nat /\ cmd[l].suffix # 1 /\ N \in Nat
  BY LaunchAssumption DEF CmdInv, CmdRecord
<1>2. CASE cmd[l].suffix = 0
  BY <1>1, <1>2
<1>3. CASE cmd[l].suffix >= 2
  <2> DEFINE i == cmd[l].suffix
             others == Launch \ {l}
             suffixes == {cmd[k].suffix : k \in others}
             suffixOf == [k \in others |-> cmd[k].suffix]
  <2>1. IsFiniteSet(Launch) /\ Cardinality(Launch) = N
    <3>1. 1 \in Int /\ N \in Int
      BY <1>1
    <3>2. IsFiniteSet(1..N) /\ Cardinality(1..N) = IF 1 > N THEN 0 ELSE N - 1 + 1
      BY <3>1, FS_Interval
    <3> QED
      BY <1>1, <3>2 DEF Launch
  <2>2. IsFiniteSet(others) /\ Cardinality(others) = N - 1
    BY <2>1, FS_RemoveElement
  <2>3. IsFiniteSet(suffixes) /\ Cardinality(suffixes) <= Cardinality(others)
    <3>1. suffixOf \in Surjection(others, suffixes)
      BY DEF Surjection
    <3> HIDE DEF others, suffixes, suffixOf
    <3> QED
      BY <2>2, <3>1, FS_Surjection
  <2>4. Taken(i) \subseteq suffixes
    BY <1>3 DEF CmdInv, Passed
  <2>5. Cardinality(Taken(i)) <= Cardinality(suffixes)
    BY <2>3, <2>4, FS_Subset
  <2>6. Cardinality(Taken(i)) = i - 1
    BY <1>1, <1>3, TakenSize
  <2>7. Cardinality(suffixes) \in Nat
    BY <2>3, FS_CardinalityType
  <2> HIDE DEF others, suffixes, suffixOf
  <2> QED
    BY <1>1, <1>3, <2>2, <2>3, <2>5, <2>6, <2>7
<1> QED
  BY <1>1, <1>2, <1>3

LEMMA NameKnown ==
  ASSUME CmdInv, NEW l \in Launch, cmd[l].pc # "idle"
  PROVE  NameAt(l) \in Name /\ NameAt(l)[1] = cmd[l].ask.kind
<1>1. cmd[l].ask \in AskRecord
  BY AskKnown DEF CmdInv
<1>2. cmd[l].ask.kind \in Kind /\ cmd[l].ask.slug \in Slug
  BY <1>1 DEF AskRecord
<1>3. cmd[l].suffix \in 0..N
  BY SuffixBounded
<1> QED
  BY <1>2, <1>3 DEF NameAt, NameOf, Name

-----------------------------------------------------------------------------
(* What each step of a command makes of it *)

\* Nothing but launch l changes.
Only(l) == cmd' \in [Launch -> CmdRecord] /\ \A k \in Launch \ {l} : cmd'[k] = cmd[k]

\* What a command goes on with.
Keeps(l) == cmd'[l].ask = cmd[l].ask /\ cmd'[l].suffix = cmd[l].suffix /\ cmd'[l].base = cmd[l].base

LEMMA GotoEffect ==
  ASSUME TypeInv, NEW l \in Launch, NEW pc \in {"name", "cap", "check", "run", "over"}, Goto(l, pc)
  PROVE  Only(l) /\ Keeps(l) /\ cmd'[l].pc = pc
<1> DEFINE new == [cmd[l] EXCEPT !.pc = pc]
<1>1. cmd \in [Launch -> CmdRecord] /\ cmd[l] \in CmdRecord
  BY DEF TypeInv, CmdInv
<1>2. cmd' = [cmd EXCEPT ![l] = new]
  BY <1>1 DEF Goto
<1>3. /\ new \in CmdRecord /\ new.pc = pc /\ new.ask = cmd[l].ask /\ new.suffix = cmd[l].suffix
      /\ new.base = cmd[l].base
  BY <1>1 DEF CmdRecord
<1> HIDE DEF new
<1> QED
  BY <1>1, <1>2, <1>3 DEF Only, Keeps

LEMMA StartEffect ==
  ASSUME TypeInv, NEW l \in Launch, NEW ask \in Asks[l], Start(l, ask)
  PROVE  /\ Only(l) /\ cmd[l].pc = "idle" /\ cmd'[l].pc \in {"check", "name"}
         /\ cmd'[l].ask = ask /\ ask \in Ask
         /\ cmd'[l].suffix = cmd[l].suffix /\ cmd'[l].base = cmd[l].base
<1> DEFINE pc == IF ask.kind = "run" THEN "check" ELSE "name"
           new == [cmd[l] EXCEPT !.ask = ask, !.pc = pc]
<1>1. cmd \in [Launch -> CmdRecord] /\ cmd[l] \in CmdRecord
  BY DEF TypeInv, CmdInv
<1>2. cmd' = [cmd EXCEPT ![l] = new]
  BY <1>1 DEF Start
<1>3. ask \in Ask /\ pc \in {"check", "name"}
  BY DEF Ask
<1> HIDE DEF pc
<1>4. /\ new \in CmdRecord /\ new.pc = pc /\ new.ask = ask /\ new.suffix = cmd[l].suffix
      /\ new.base = cmd[l].base
  BY <1>1, <1>3 DEF CmdRecord
<1> HIDE DEF new
<1> QED
  BY <1>1, <1>2, <1>3, <1>4 DEF Only, Start

\* A probe that finds the name held, the next suffix being tried.
Probes(l) ==
  /\ Held(NameAt(l)) /\ cmd'[l].pc = "name"
  /\ cmd'[l].suffix = NextSuffix(cmd[l].suffix)

LEMMA ProbeNameEffect ==
  ASSUME TypeInv, NEW l \in Launch, ProbeName(l)
  PROVE  /\ Only(l) /\ cmd[l].pc = "name"
         /\ cmd'[l].ask = cmd[l].ask /\ cmd'[l].base = cmd[l].base
         /\ \/ Probes(l)
            \/ cmd'[l].pc \in {"check", "cap", "over"} /\ cmd'[l].suffix = cmd[l].suffix
<1>1. cmd \in [Launch -> CmdRecord] /\ cmd[l] \in CmdRecord /\ cmd[l].pc = "name"
  BY DEF TypeInv, CmdInv, ProbeName
<1>2. CASE \E pc \in {"check", "cap", "over"} : Goto(l, pc)
  BY <1>1, <1>2, GotoEffect DEF Keeps
<1>3. CASE Held(NameAt(l)) /\ cmd' = [cmd EXCEPT ![l].suffix = NextSuffix(@)]
  <2> DEFINE next == NextSuffix(cmd[l].suffix)
             new == [cmd[l] EXCEPT !.suffix = next]
  <2>1. cmd' = [cmd EXCEPT ![l] = new]
    BY <1>1, <1>3
  <2>2. next \in Nat
    BY <1>1 DEF NextSuffix, CmdRecord
  <2> HIDE DEF next
  <2>3. /\ new \in CmdRecord /\ new.pc = cmd[l].pc /\ new.ask = cmd[l].ask /\ new.suffix = next
        /\ new.base = cmd[l].base
    BY <1>1, <2>2 DEF CmdRecord
  <2> HIDE DEF new
  <2>4. Only(l) /\ cmd'[l] = new
    BY <1>1, <2>1, <2>3 DEF Only
  <2> QED
    BY <1>1, <1>3, <2>3, <2>4 DEF Probes, next
<1> QED
  BY <1>2, <1>3 DEF ProbeName

LEMMA CheckCapacityEffect ==
  ASSUME TypeInv, NEW l \in Launch, NEW missed, CheckCapacity(l, missed)
  PROVE  /\ Only(l) /\ Keeps(l) /\ cmd[l].pc = "cap" /\ cmd'[l].pc \in {"check", "over"}
         /\ cmd'[l].pc = "check" => HasCapacity(Agents(cmd[l].ask.parent) \ missed)
BY GotoEffect DEF CheckCapacity

\* The checks of an anchor that is let through.
LetsThrough(l, base, missed, unread) ==
  /\ \A k \in (Occupants \ missed) \ unread : Overlaps(base, cmd[l].ask.mode, k) => Stacked(l, k)
  /\ unread = {} \/ cmd[l].ask.kind = "ticket"

LEMMA CheckAnchorEffect ==
  ASSUME TypeInv, NEW l \in Launch, NEW base, NEW missed, NEW unread, CheckAnchor(l, base, missed, unread)
  PROVE  /\ Only(l) /\ cmd[l].pc = "check" /\ cmd'[l].pc \in {"run", "over"}
         /\ cmd'[l].ask = cmd[l].ask /\ cmd'[l].suffix = cmd[l].suffix
         /\ \/ cmd'[l].pc = "over" /\ cmd'[l].base = cmd[l].base
            \/ /\ cmd'[l].pc = "run" /\ cmd'[l].base = base
               /\ LetsThrough(l, base, missed, unread)
         /\ base \in commits
<1> DEFINE clash == \E k \in (Occupants \ missed) \ unread :
                      Overlaps(base, cmd[l].ask.mode, k) /\ ~Stacked(l, k)
           refused == clash \/ (unread # {} /\ cmd[l].ask.kind # "ticket")
           pc == IF refused THEN "over" ELSE "run"
           at == IF refused THEN cmd[l].base ELSE base
           new == [cmd[l] EXCEPT !.base = at, !.pc = pc]
<1>1. cmd \in [Launch -> CmdRecord] /\ cmd[l] \in CmdRecord
  BY DEF TypeInv, CmdInv
<1>2. base \in commits /\ cmd[l].pc = "check"
  BY DEF CheckAnchor
<1>3. cmd' = [cmd EXCEPT ![l] = new]
  BY <1>1 DEF CheckAnchor
<1>4. pc \in {"run", "over"} /\ at \in Commit
  BY <1>1, <1>2 DEF TypeInv, StoreInv, CmdRecord
<1>5. ~refused => LetsThrough(l, base, missed, unread)
  BY DEF LetsThrough
<1> HIDE DEF refused
<1>6. (refused => pc = "over" /\ at = cmd[l].base) /\ (~refused => pc = "run" /\ at = base)
  OBVIOUS
<1> HIDE DEF pc, at
<1>7. /\ new \in CmdRecord /\ new.pc = pc /\ new.ask = cmd[l].ask /\ new.suffix = cmd[l].suffix
      /\ new.base = at
  BY <1>1, <1>4 DEF CmdRecord
<1> HIDE DEF new
<1>8. Only(l) /\ cmd'[l] = new
  BY <1>1, <1>3, <1>7 DEF Only
<1> QED
  BY <1>2, <1>4, <1>5, <1>6, <1>7, <1>8

LEMMA DockerRunEffect ==
  ASSUME TypeInv, NEW l \in Launch, DockerRun(l)
  PROVE  Only(l) /\ Keeps(l) /\ cmd[l].pc = "run" /\ cmd'[l].pc = "over"
BY GotoEffect DEF DockerRun

\* Whatever a command does, it keeps what it was asked for, what it has fixed
\* and, once it is over, everything.
LEMMA CommandStep ==
  ASSUME TypeInv, NEW l \in Launch, Command(l)
  PROVE  /\ Only(l) /\ cmd[l].pc # "over" /\ cmd'[l].pc # "idle"
         /\ cmd'[l].ask \in Ask
         /\ cmd[l].pc # "idle" => cmd'[l].ask = cmd[l].ask
         /\ Fixed(l) => Fixed(l)' /\ cmd'[l].suffix = cmd[l].suffix
         /\ cmd'[l].suffix = cmd[l].suffix \/ (Probes(l) /\ cmd[l].pc = "name")
<1>1. cmd[l].pc # "idle" => cmd[l].ask \in Ask
  BY DEF TypeInv, CmdInv
<1>2. ASSUME NEW ask \in Asks[l], Start(l, ask)
      PROVE  /\ Only(l) /\ cmd[l].pc = "idle" /\ cmd'[l].pc # "idle"
             /\ cmd'[l].ask \in Ask /\ cmd'[l].suffix = cmd[l].suffix
  BY <1>2, StartEffect
<1>3. CASE ProbeName(l)
  BY <1>1, <1>3, ProbeNameEffect DEF Fixed, Probes
<1>4. CASE DockerRun(l)
  BY <1>1, <1>4, DockerRunEffect DEF Fixed, Keeps
<1>5. ASSUME NEW missed \in SUBSET Launch, CheckCapacity(l, missed)
      PROVE  Only(l) /\ Keeps(l) /\ cmd[l].pc = "cap" /\ cmd'[l].pc \in {"check", "over"}
  BY <1>5, CheckCapacityEffect
<1>6. ASSUME NEW base \in commits, NEW missed \in SUBSET Launch, NEW unread \in SUBSET Launch,
             CheckAnchor(l, base, missed, unread)
      PROVE  /\ Only(l) /\ cmd[l].pc = "check" /\ cmd'[l].pc \in {"run", "over"}
             /\ cmd'[l].ask = cmd[l].ask /\ cmd'[l].suffix = cmd[l].suffix
  BY <1>6, CheckAnchorEffect
<1>7. CASE \E ask \in Asks[l] : Start(l, ask)
  BY <1>2, <1>7 DEF Fixed
<1>8. CASE \E missed \in SUBSET Launch : CheckCapacity(l, missed)
  BY <1>1, <1>5, <1>8 DEF Fixed, Keeps
<1>9. CASE \E base \in commits, missed, unread \in SUBSET Launch : CheckAnchor(l, base, missed, unread)
  BY <1>1, <1>6, <1>9 DEF Fixed
<1> QED
  BY <1>3, <1>4, <1>7, <1>8, <1>9 DEF Command

-----------------------------------------------------------------------------
(* Type correctness *)

LEMMA CommandsStayOK ==
  ASSUME TypeInv, NEW l \in Launch, Command(l)
  PROVE  CmdInv'
<1>1. /\ Only(l) /\ cmd[l].pc # "over" /\ cmd'[l].pc # "idle" /\ cmd'[l].ask \in Ask
      /\ Fixed(l) => Fixed(l)' /\ cmd'[l].suffix = cmd[l].suffix
      /\ cmd'[l].suffix = cmd[l].suffix \/ (Probes(l) /\ cmd[l].pc = "name")
  BY CommandStep
<1>2. CmdInv /\ cmd[l].suffix \in Nat /\ cmd[l].suffix # 1
  BY DEF TypeInv, CmdInv, CmdRecord
<1>3. \A k \in Launch : Fixed(k) => Fixed(k)' /\ cmd'[k].suffix = cmd[k].suffix
  BY <1>1 DEF Only, Fixed
<1>4. ASSUME NEW k \in Launch, cmd'[k].suffix = cmd[k].suffix PROVE Passed(k)'
  BY <1>2, <1>3, <1>4 DEF CmdInv, Passed
<1>5. CASE Probes(l) /\ cmd[l].pc = "name"
  <2> DEFINE i == cmd[l].suffix
  <2>1. PICK j \in Launch : Present(j) /\ NameAt(j) = NameAt(l)
    BY <1>5 DEF Probes, Held
  <2>2. j # l /\ Fixed(j) /\ cmd[j].suffix = i
    BY <1>5, <2>1 DEF TypeInv, CtrInv, Fixed, NameAt, NameOf
  <2>3. cmd'[l].suffix = NextSuffix(i)
    BY <1>5 DEF Probes
  <2>4. Taken(NextSuffix(i)) \subseteq {i} \cup (IF i = 0 THEN {} ELSE Taken(i))
    BY <1>2 DEF NextSuffix, Taken
  <2>5. ASSUME NEW n \in Taken(NextSuffix(i))
        PROVE  \E k \in Launch \ {l} : Fixed(k)' /\ cmd'[k].suffix = n
    <3>1. CASE n = i
      BY <1>3, <2>2, <3>1
    <3>2. CASE i # 0 /\ n \in Taken(i)
      <4>1. PICK k \in Launch \ {l} : Fixed(k) /\ cmd[k].suffix = n
        BY <1>2, <3>2 DEF CmdInv, Passed
      <4> QED
        BY <1>3, <4>1
    <3> QED
      BY <2>4, <2>5, <3>1, <3>2
  <2>6. Passed(l)' /\ cmd'[l].suffix # 1
    BY <1>2, <2>3, <2>5 DEF Passed, NextSuffix
  <2>7. \A k \in Launch \ {l} : Passed(k)' /\ cmd'[k].suffix # 1
    BY <1>1, <1>2, <1>4 DEF Only, CmdInv
  <2> QED
    BY <1>1, <1>2, <2>6, <2>7 DEF CmdInv, Only
<1>6. CASE cmd'[l].suffix = cmd[l].suffix
  <2>1. \A k \in Launch : Passed(k)' /\ cmd'[k].suffix # 1
    BY <1>1, <1>2, <1>4, <1>6 DEF Only, CmdInv
  <2> QED
    BY <1>1, <1>2, <2>1 DEF CmdInv, Only
<1> QED
  BY <1>1, <1>5, <1>6

\* The commands stand still while a container or a teardown moves.
LEMMA CmdStands ==
  ASSUME TypeInv, UNCHANGED cmd
  PROVE  CmdInv' /\ \A l \in Launch : NameAt(l)' = NameAt(l)
BY DEF TypeInv, CmdInv, Passed, Fixed, NameAt

\* A name is fixed once a container may come of it.
LEMMA NamesStand ==
  ASSUME TypeInv, [Next]_vars, NEW l \in Launch, Fixed(l)
  PROVE  NameAt(l)' = NameAt(l) /\ cmd'[l].ask = cmd[l].ask /\ Fixed(l)' /\ cmd[l].pc # "idle"
<1>1. ASSUME NEW k \in Launch, Command(k)
      PROVE  NameAt(l)' = NameAt(l) /\ cmd'[l].ask = cmd[l].ask /\ Fixed(l)'
  BY <1>1, CommandStep DEF Only, NameAt, Fixed
<1>2. CASE UNCHANGED cmd
  BY <1>2 DEF NameAt, Fixed
<1> QED
  BY <1>1, <1>2 DEF Next, vars, Container, BootFresh, BootReattach, RunEnds, SupervisorExits, PauseTicket,
     ResumeTicket, Die, StopAndRemove, ForgetSession, CutShort, Fixed

LEMMA OverIsOver ==
  ASSUME TypeInv, [Next]_vars, NEW l \in Launch, cmd[l].pc = "over"
  PROVE  cmd'[l] = cmd[l]
<1>1. ASSUME NEW k \in Launch, Command(k) PROVE cmd'[l] = cmd[l]
  BY <1>1, CommandStep DEF Only
<1>2. CASE UNCHANGED cmd
  BY <1>2
<1> QED
  BY <1>1, <1>2 DEF Next, vars, Container, BootFresh, BootReattach, RunEnds, SupervisorExits, PauseTicket,
     ResumeTicket, Die, StopAndRemove, ForgetSession, CutShort

\* Containers only change in the steps of their own launch, and there they keep
\* the name they have.
LEMMA OneContainer ==
  ASSUME TypeInv, NEW l \in Launch, NEW to \in {"none", "boot", "live", "stopped"},
         ctr' = [ctr EXCEPT ![l] = to],
         to # "none" => cmd'[l].pc = "over",
         to # "none" => Present(l) \/ ~Held(NameAt(l)'),
         \A k \in Launch : Present(k) => cmd'[k].pc = "over" /\ NameAt(k)' = NameAt(k)
  PROVE  CtrInv'
<1>1. ctr \in [Launch -> {"none", "boot", "live", "stopped"}]
  BY DEF TypeInv, CtrInv
<1>2. ctr' \in [Launch -> {"none", "boot", "live", "stopped"}]
  BY <1>1
<1>3. ctr'[l] = to /\ \A k \in Launch \ {l} : ctr'[k] = ctr[k]
  BY <1>1
<1>4. \A k \in Launch : Present(k)' => cmd'[k].pc = "over"
  BY <1>3 DEF Present
<1>5. ASSUME NEW k \in Launch, NEW m \in Launch, Present(k)', Present(m)', NameAt(k)' = NameAt(m)'
      PROVE  k = m
  <2>1. CASE Present(k) /\ Present(m)
    BY <1>5, <2>1 DEF TypeInv, CtrInv
  <2>2. CASE ~Present(k)
    <3>1. k = l /\ ~Held(NameAt(l)')
      BY <1>3, <1>5, <2>2 DEF Present
    <3> QED
      BY <1>3, <1>5, <3>1 DEF Held, Present
  <2>3. CASE ~Present(m)
    <3>1. m = l /\ ~Held(NameAt(l)')
      BY <1>3, <1>5, <2>3 DEF Present
    <3> QED
      BY <1>3, <1>5, <3>1 DEF Held, Present
  <2> QED
    BY <2>1, <2>2, <2>3
<1> QED
  BY <1>2, <1>4, <1>5 DEF CtrInv

LEMMA ContainersStand ==
  ASSUME TypeInv, [Next]_vars, UNCHANGED ctr
  PROVE  CtrInv'
<1>1. \A k \in Launch : Present(k) => cmd'[k].pc = "over" /\ NameAt(k)' = NameAt(k)
  <2>1. ASSUME NEW k \in Launch, Present(k) PROVE cmd'[k].pc = "over" /\ NameAt(k)' = NameAt(k)
    <3>1. cmd[k].pc = "over" /\ Fixed(k)
      BY <2>1 DEF TypeInv, CtrInv, Fixed
    <3> QED
      BY <3>1, NamesStand, OverIsOver
  <2> QED
    BY <2>1
<1> QED
  BY <1>1 DEF TypeInv, CtrInv, Present

LEMMA ContainersStayOK ==
  ASSUME TypeInv, [Next]_vars
  PROVE  CtrInv'
<1>1. \A k \in Launch : Present(k) => cmd[k].pc = "over" /\ cmd'[k].pc = "over" /\ NameAt(k)' = NameAt(k)
  <2>1. ASSUME NEW k \in Launch, Present(k)
        PROVE  cmd[k].pc = "over" /\ cmd'[k].pc = "over" /\ NameAt(k)' = NameAt(k)
    <3>1. cmd[k].pc = "over" /\ Fixed(k)
      BY <2>1 DEF TypeInv, CtrInv, Fixed
    <3> QED
      BY <3>1, NamesStand, OverIsOver
  <2> QED
    BY <2>1
<1>2. ASSUME NEW l \in Launch, NEW to \in {"none", "live", "stopped"}, Present(l), UNCHANGED cmd,
             ctr' = [ctr EXCEPT ![l] = to]
      PROVE  CtrInv'
  BY <1>1, <1>2, OneContainer
<1>3. ASSUME NEW l \in Launch, Container(l) PROVE CtrInv'
  <2>1. Present(l) /\ UNCHANGED cmd
    BY <1>3 DEF Container, BootFresh, BootReattach, RunEnds, SupervisorExits, PauseTicket, ResumeTicket, Die, Present
  <2>2. \E to \in {"none", "live", "stopped"} : ctr' = [ctr EXCEPT ![l] = to]
    BY <1>3 DEF Container, BootFresh, BootReattach, RunEnds, SupervisorExits, PauseTicket, ResumeTicket, Die
  <2> QED
    BY <1>2, <2>1, <2>2
<1>4. ASSUME NEW l \in Launch, StopAndRemove(l) PROVE CtrInv'
  BY <1>2, <1>4 DEF StopAndRemove
<1>5. ASSUME NEW l \in Launch, DockerRun(l) PROVE CtrInv'
  <2>1. cmd'[l].pc = "over" /\ NameAt(l)' = NameAt(l)
    BY <1>5, DockerRunEffect DEF Keeps, NameAt
  <2>2. CASE Held(NameAt(l))
    BY <1>5, <2>2, ContainersStand DEF DockerRun
  <2>3. CASE ~Held(NameAt(l))
    <3>1. ctr' = [ctr EXCEPT ![l] = "boot"]
      BY <1>5, <2>3 DEF DockerRun
    <3> QED
      BY <1>1, <2>1, <2>3, <3>1, OneContainer
  <2> QED
    BY <2>2, <2>3
<1>6. ASSUME NEW l \in Launch, Command(l), ~DockerRun(l) PROVE UNCHANGED ctr
  <2>1. ASSUME NEW base, NEW missed, NEW unread, CheckAnchor(l, base, missed, unread) PROVE UNCHANGED ctr
    BY <2>1 DEF CheckAnchor
  <2> QED
    BY <1>6, <2>1 DEF Command, Start, ProbeName, CheckCapacity
<1>7. CASE UNCHANGED ctr
  BY <1>7, ContainersStand
<1>8. ASSUME NEW name \in Name, ForgetSession(name) \/ CutShort(name) PROVE UNCHANGED ctr
  BY <1>8 DEF ForgetSession, CutShort
<1> QED
  BY <1>3, <1>4, <1>5, <1>6, <1>7, <1>8 DEF Next, vars

LEMMA StoreStaysOK ==
  ASSUME TypeInv, [Next]_vars
  PROVE  StoreInv'
<1>1. StoreInv /\ NoMark \in commits \cup {NoMark}
  BY DEF TypeInv
<1>2. ASSUME NEW name \in Name, mark' = [mark EXCEPT ![name] = NoMark], UNCHANGED commits,
             reaping' \subseteq Name, orphaned' \subseteq Name
      PROVE  StoreInv'
  BY <1>1, <1>2 DEF StoreInv
<1>3. ASSUME UNCHANGED <<mark, commits>>, reaping' \subseteq Name, orphaned' \subseteq Name PROVE StoreInv'
  BY <1>1, <1>3 DEF StoreInv
<1>4. \A l \in Launch : Present(l) => NameAt(l) \in Name
  BY NameKnown DEF TypeInv, CtrInv
<1>5. ASSUME NEW l \in Launch, BootFresh(l) PROVE StoreInv'
  <2> DEFINE scratch == cmd[l].base \cup {l}
  <2>1. scratch \in Commit
    BY DEF TypeInv, CmdInv, CmdRecord, Commit
  <2>2. NameAt(l) \in Name
    BY <1>4, <1>5 DEF BootFresh, Present
  <2>3. commits' = commits \cup {scratch} /\ mark' = [mark EXCEPT ![NameAt(l)] = scratch]
        /\ UNCHANGED <<reaping, orphaned>>
    BY <1>5 DEF BootFresh, ghosts
  <2> HIDE DEF scratch
  <2>4. commits' \subseteq Commit /\ mark' \in [Name -> commits' \cup {NoMark}]
    BY <1>1, <2>1, <2>2, <2>3 DEF StoreInv
  <2> QED
    BY <1>1, <2>3, <2>4 DEF StoreInv
<1>6. ASSUME NEW l \in Launch, SupervisorExits(l) PROVE StoreInv'
  <2>1. NameAt(l) \in Name
    BY <1>4, <1>6 DEF SupervisorExits, Present
  <2> QED
    BY <1>1, <1>2, <1>6, <2>1 DEF SupervisorExits, ghosts, StoreInv
<1>7. ASSUME NEW l \in Launch, StopAndRemove(l) PROVE StoreInv'
  BY <1>1, <1>3, <1>4, <1>7 DEF StopAndRemove, ghosts, StoreInv
<1>8. ASSUME NEW name \in Name, ForgetSession(name) PROVE StoreInv'
  BY <1>1, <1>2, <1>8 DEF ForgetSession, StoreInv
<1>9. ASSUME NEW name \in Name, CutShort(name) PROVE StoreInv'
  BY <1>1, <1>3, <1>9 DEF CutShort, StoreInv
<1>10. ASSUME UNCHANGED <<mark, commits, reaping, orphaned>> PROVE StoreInv'
  BY <1>1, <1>3, <1>10 DEF StoreInv
<1>11. ASSUME NEW l \in Launch, Command(l) PROVE UNCHANGED <<mark, commits, reaping, orphaned>>
  <2>1. ASSUME NEW base, NEW missed, NEW unread, CheckAnchor(l, base, missed, unread)
        PROVE  UNCHANGED <<mark, commits, reaping, orphaned>>
    BY <2>1 DEF CheckAnchor
  <2> QED
    BY <1>11, <2>1 DEF Command, Start, ProbeName, CheckCapacity, DockerRun, ghosts
<1>12. ASSUME NEW l \in Launch, BootReattach(l) \/ RunEnds(l) \/ PauseTicket(l) \/ ResumeTicket(l) \/ Die(l)
       PROVE  UNCHANGED <<mark, commits, reaping, orphaned>>
  BY <1>12 DEF BootReattach, RunEnds, PauseTicket, ResumeTicket, Die, ghosts
<1> QED
  BY <1>5, <1>6, <1>7, <1>8, <1>9, <1>10, <1>11, <1>12 DEF Next, vars, ghosts, Container

LEMMA GhostsStayOK ==
  ASSUME TypeInv, [Next]_vars
  PROVE  GhostInv'
<1>1. GhostInv
  BY DEF TypeInv
<1>2. ASSUME Fault PROVE faults' \in 0..Faults
  BY <1>1, <1>2, LaunchAssumption DEF Fault, GhostInv
<1>3. ASSUME UNCHANGED <<hasty, blind, met>>, Fault \/ UNCHANGED faults PROVE GhostInv'
  BY <1>1, <1>2, <1>3 DEF GhostInv
<1>4. ASSUME NEW l \in Launch, Command(l) PROVE GhostInv'
  <2>1. CASE \E ask \in Asks[l] : Start(l, ask)
    <3>1. met' = met \cup {{k, l} : k \in {k \in Launch : InProgress(k)}} /\ UNCHANGED <<hasty, blind, faults>>
      BY <2>1 DEF Start
    <3> QED
      BY <1>1, <3>1 DEF GhostInv
  <2>2. CASE ProbeName(l)
    BY <1>3, <2>2 DEF ProbeName, ghosts
  <2>3. CASE DockerRun(l)
    BY <1>1, <2>3 DEF DockerRun, GhostInv
  <2>4. CASE \E missed \in SUBSET Launch : CheckCapacity(l, missed)
    BY <1>1, <1>2, <2>4 DEF CheckCapacity, GhostInv
  <2>5. CASE \E base \in commits, missed, unread \in SUBSET Launch : CheckAnchor(l, base, missed, unread)
    BY <1>1, <1>2, <2>5 DEF CheckAnchor, GhostInv
  <2> QED
    BY <1>4, <2>1, <2>2, <2>3, <2>4, <2>5 DEF Command
<1> QED
  BY <1>3, <1>4 DEF Next, vars, ghosts, Container, BootFresh, BootReattach, RunEnds, SupervisorExits,
     PauseTicket, ResumeTicket, Die, StopAndRemove, ForgetSession, CutShort

LEMMA CmdStaysOK ==
  ASSUME TypeInv, [Next]_vars
  PROVE  CmdInv'
BY CommandsStayOK, CmdStands DEF Next, vars, Container, BootFresh, BootReattach, RunEnds, SupervisorExits,
   PauseTicket, ResumeTicket, Die, StopAndRemove, ForgetSession, CutShort

LEMMA InitType ==
  ASSUME Init
  PROVE  TypeInv
<1> DEFINE first == [pc |-> "idle", ask |-> NoAsk, suffix |-> 0, base |-> {}]
<1>1. first \in CmdRecord /\ first.pc = "idle" /\ first.suffix = 0
  BY DEF CmdRecord, Commit
<1>2. cmd = [l \in Launch |-> first]
  BY DEF Init
<1> HIDE DEF first
<1>3. CmdInv
  BY <1>1, <1>2 DEF CmdInv, Passed
<1>4. CtrInv
  BY DEF Init, CtrInv, Present
<1>5. StoreInv
  BY DEF Init, StoreInv, Commit
<1>6. GhostInv
  BY LaunchAssumption DEF Init, GhostInv
<1> QED
  BY <1>3, <1>4, <1>5, <1>6 DEF TypeInv

LEMMA TypeInductive == Spec => []TypeInv
<1>1. ASSUME TypeInv, [Next]_vars PROVE TypeInv'
  BY <1>1, CmdStaysOK, ContainersStayOK, StoreStaysOK, GhostsStayOK DEF TypeInv
<1> QED
  BY <1>1, InitType, PTL DEF Spec

\* TypeOK: no name is held twice and no suffix runs away, however many launches
\* probe at once (docker.py, allocate_task_agent_name), and every bookmark is on
\* a commit of the store.
THEOREM TypeCorrect == Spec => []TypeOK
<1>1. ASSUME TypeInv PROVE TypeOK
  BY <1>1, NameKnown DEF TypeInv, CmdInv, CmdRecord, CtrInv, StoreInv, GhostInv, TypeOK
<1> QED
  BY <1>1, TypeInductive, PTL

-----------------------------------------------------------------------------
(* The cap of a master *)

\* Launches start in order, and what is still under way when another starts has
\* met it.
OrderInv ==
  \A l \in Launch : cmd[l].pc # "idle" =>
    \A k \in Launch : k < l =>
      cmd[k].pc # "idle" /\ (InProgress(k) => {k, l} \in met)

\* What the check of l has counted, or would have.
Elders(l) == {k \in Agents(cmd[l].ask.parent) : k < l /\ {k, l} \notin met}

Counted(l) ==
  /\ cmd[l].ask.kind = "task-agent" /\ l \notin blind
  /\ cmd[l].pc \in {"check", "run"} \/ RunningNow(l)

CapInv == \A l \in Launch : cmd[l].pc # "idle" /\ Counted(l) => Cardinality(Elders(l)) < Cap

LEMMA LaunchesFinite ==
  /\ IsFiniteSet(Launch) /\ Launch \subseteq Int
  /\ \A S \in SUBSET Launch : IsFiniteSet(S) /\ Cardinality(S) \in Nat
<1>1. 1 \in Int /\ N \in Int
  BY LaunchAssumption
<1>2. IsFiniteSet(Launch)
  BY <1>1, FS_Interval DEF Launch
<1>3. ASSUME NEW S \in SUBSET Launch PROVE IsFiniteSet(S) /\ Cardinality(S) \in Nat
  BY <1>2, <1>3, FS_Subset, FS_CardinalityType
<1> QED
  BY <1>1, <1>2, <1>3 DEF Launch

\* Of several launches, one is the latest.
LEMMA LatestExists ==
  ASSUME NEW S \in SUBSET Launch, S # {}
  PROVE  \E l \in S : \A k \in S : k <= l
<1> DEFINE Less == {ss \in Nat \X Nat : ss[1] < ss[2]}
           Rest == {N - k : k \in S}
<1>1. N \in Nat /\ S \subseteq 1..N
  BY LaunchAssumption DEF Launch
<1>2. IsWellFoundedOn(Less, Nat)
  BY NatLessThanWellFounded DEF OpToRel
<1>3. Rest \subseteq Nat /\ Rest # {}
  <2>1. ASSUME NEW k \in S PROVE N - k \in Nat
    BY <1>1
  <2> QED
    BY <2>1
<1>4. PICK x \in Rest : \A y \in Rest : <<y, x>> \notin Less
  <2> HIDE DEF Less, Rest
  <2> QED
    BY <1>2, <1>3, WFMin
<1>5. PICK l \in S : x = N - l
  BY <1>4
<1>6. ASSUME NEW k \in S PROVE k <= l
  <2>1. N - k \in Rest /\ N - k \in Nat /\ x \in Nat
    BY <1>3
  <2>2. ~(N - k < x)
    BY <1>4, <2>1
  <2> QED
    BY <1>1, <1>5, <2>2
<1> QED
  BY <1>6

\* met only grows, and only Start takes a launch up.
LEMMA MetGrows ==
  ASSUME TypeInv, [Next]_vars
  PROVE  /\ met \subseteq met' /\ blind \subseteq blind'
         /\ \A l \in Launch : cmd[l].pc # "idle" => cmd'[l].ask = cmd[l].ask
         /\ \A l \in Launch : cmd[l].pc # "idle" => cmd'[l].pc # "idle"
<1>1. ASSUME NEW l \in Launch, Command(l)
      PROVE  /\ met \subseteq met' /\ blind \subseteq blind'
             /\ \A k \in Launch : cmd[k].pc # "idle" => cmd'[k].ask = cmd[k].ask
             /\ \A k \in Launch : cmd[k].pc # "idle" => cmd'[k].pc # "idle"
  <2>1. ASSUME NEW base, NEW missed, NEW unread, CheckAnchor(l, base, missed, unread)
        PROVE  met \subseteq met' /\ blind \subseteq blind'
    BY <2>1 DEF CheckAnchor
  <2>2. met \subseteq met' /\ blind \subseteq blind'
    BY <1>1, <2>1 DEF Command, Start, ProbeName, CheckCapacity, DockerRun, ghosts
  <2> QED
    BY <1>1, <2>2, CommandStep DEF Only
<1>2. CASE UNCHANGED <<cmd, met, blind>>
  BY <1>2
<1>3. ASSUME NEW l \in Launch, Container(l) \/ StopAndRemove(l) PROVE UNCHANGED <<cmd, met, blind>>
  BY <1>3 DEF Container, BootFresh, BootReattach, RunEnds, SupervisorExits, PauseTicket,
     ResumeTicket, Die, StopAndRemove, ghosts
<1>4. ASSUME NEW name \in Name, ForgetSession(name) \/ CutShort(name) PROVE UNCHANGED <<cmd, met, blind>>
  BY <1>4 DEF ForgetSession, CutShort, ghosts
<1> QED
  BY <1>1, <1>2, <1>3, <1>4 DEF Next, vars

LEMMA OrderInductive ==
  ASSUME TypeInv, OrderInv, [Next]_vars
  PROVE  OrderInv'
<1>1. /\ met \subseteq met'
      /\ \A l \in Launch : cmd[l].pc # "idle" => cmd'[l].pc # "idle"
  BY MetGrows
<1>2. ASSUME \A k \in Launch : (InProgress(k)' => InProgress(k)) /\ (cmd'[k].pc # "idle" => cmd[k].pc # "idle")
      PROVE  OrderInv'
  BY <1>1, <1>2 DEF OrderInv
<1>3. ASSUME NEW l \in Launch, NEW ask \in Asks[l], Start(l, ask) PROVE OrderInv'
  <2>1. /\ Only(l) /\ cmd[l].pc = "idle" /\ cmd'[l].pc \in {"check", "name"}
        /\ \A k \in Launch : k < l => cmd[k].pc # "idle"
    <3>1. \A k \in 1..(l - 1) : cmd[k].pc # "idle"
      BY <1>3 DEF Start
    <3>2. \A k \in Launch : k < l => k \in 1..(l - 1)
      BY LaunchesFinite DEF Launch
    <3> QED
      BY <1>3, <3>1, <3>2, StartEffect
  <2>2. met' = met \cup {{k, l} : k \in {k \in Launch : InProgress(k)}}
    BY <1>3 DEF Start
  <2> SUFFICES ASSUME NEW m \in Launch, cmd'[m].pc # "idle", NEW k \in Launch, k < m
               PROVE  cmd'[k].pc # "idle" /\ (InProgress(k)' => {k, m} \in met')
    BY DEF OrderInv
  <2>3. k # m
    BY LaunchesFinite
  <2>4. CASE m = l
    BY <2>1, <2>2, <2>3, <2>4 DEF Only, InProgress
  <2>5. CASE m # l
    <3>1. cmd[m].pc # "idle"
      BY <2>1, <2>5 DEF Only
    <3>2. cmd[k].pc # "idle" /\ k # l
      BY <2>1, <3>1 DEF OrderInv
    <3> QED
      BY <1>1, <2>1, <3>1, <3>2 DEF OrderInv, Only, InProgress
  <2> QED
    BY <2>4, <2>5
<1>4. ASSUME NEW l \in Launch, Command(l), \A ask \in Asks[l] : ~Start(l, ask) PROVE OrderInv'
  <2>1. cmd[l].pc \notin {"idle", "over"}
    <3>1. ASSUME NEW base, NEW missed, NEW unread, CheckAnchor(l, base, missed, unread)
          PROVE  cmd[l].pc = "check"
      BY <3>1 DEF CheckAnchor
    <3> QED
      BY <1>4, <3>1 DEF Command, ProbeName, CheckCapacity, DockerRun
  <2>2. Only(l)
    BY <1>4, CommandStep
  <2> QED
    BY <1>2, <2>1, <2>2 DEF Only, InProgress
<1>5. CASE UNCHANGED cmd
  BY <1>2, <1>5 DEF InProgress
<1> QED
  BY <1>3, <1>4, <1>5 DEF Next, vars, Container, BootFresh, BootReattach, RunEnds, SupervisorExits,
     PauseTicket, ResumeTicket, Die, StopAndRemove, ForgetSession, CutShort

\* A container of a task-agent runs anew only by docker run.
LEMMA RunsAnew ==
  ASSUME TypeInv, [Next]_vars, NEW k \in Launch, RunningNow(k)', ~RunningNow(k),
         cmd'[k].ask.kind = "task-agent"
  PROVE  DockerRun(k) /\ cmd[k].pc = "run"
<1>1. ctr \in [Launch -> {"none", "boot", "live", "stopped"}]
  BY DEF TypeInv, CtrInv
<1>2. ctr'[k] # ctr[k]
  BY DEF RunningNow
<1>3. ASSUME NEW l \in Launch, DockerRun(l) PROVE l = k
  BY <1>1, <1>2, <1>3 DEF DockerRun
<1>4. ASSUME NEW l \in Launch, Container(l) PROVE FALSE
  <2>1. l = k
    BY <1>1, <1>2, <1>4 DEF Container, BootFresh, BootReattach, RunEnds, SupervisorExits, PauseTicket,
       ResumeTicket, Die
  <2>2. UNCHANGED cmd
    BY <1>4 DEF Container, BootFresh, BootReattach, RunEnds, SupervisorExits, PauseTicket, ResumeTicket, Die
  <2>3. ~ResumeTicket(l)
    BY <2>1, <2>2 DEF ResumeTicket
  <2> QED
    BY <1>1, <1>4, <2>1, <2>3 DEF Container, BootFresh, BootReattach, RunEnds, SupervisorExits, PauseTicket,
       Die, RunningNow
<1>5. ASSUME NEW l \in Launch, StopAndRemove(l) PROVE FALSE
  BY <1>1, <1>5 DEF StopAndRemove, RunningNow
<1>6. ASSUME NEW l \in Launch, Command(l), ~DockerRun(l) PROVE UNCHANGED ctr
  <2>1. ASSUME NEW base, NEW missed, NEW unread, CheckAnchor(l, base, missed, unread) PROVE UNCHANGED ctr
    BY <2>1 DEF CheckAnchor
  <2> QED
    BY <1>6, <2>1 DEF Command, Start, ProbeName, CheckCapacity
<1>7. ASSUME NEW name \in Name, ForgetSession(name) \/ CutShort(name) PROVE UNCHANGED ctr
  BY <1>7 DEF ForgetSession, CutShort
<1>8. \E l \in Launch : DockerRun(l)
  BY <1>2, <1>4, <1>5, <1>6, <1>7 DEF Next, vars
<1> QED
  BY <1>3, <1>8 DEF DockerRun

LEMMA EldersShrink ==
  ASSUME TypeInv, OrderInv, [Next]_vars, NEW l \in Launch, cmd[l].pc # "idle"
  PROVE  Elders(l)' \subseteq Elders(l)
<1> SUFFICES ASSUME NEW k \in Elders(l)' PROVE k \in Elders(l)
  OBVIOUS
<1>1. /\ k \in Launch /\ RunningNow(k)' /\ cmd'[k].ask.kind = "task-agent"
      /\ cmd'[k].ask.parent = cmd'[l].ask.parent /\ k < l /\ {k, l} \notin met'
  BY DEF Elders, Agents
<1>2. {k, l} \notin met /\ cmd'[l].ask = cmd[l].ask
  BY <1>1, MetGrows
<1>3. cmd[k].pc # "idle" /\ ~InProgress(k)
  BY <1>1, <1>2 DEF OrderInv
<1>4. cmd'[k].ask = cmd[k].ask
  BY <1>1, <1>3, MetGrows
<1>5. RunningNow(k)
  BY <1>1, <1>3, RunsAnew DEF InProgress
<1> QED
  BY <1>1, <1>2, <1>4, <1>5 DEF Elders, Agents

LEMMA CapInductive ==
  ASSUME TypeInv, OrderInv, CapInv, [Next]_vars
  PROVE  CapInv'
<1> SUFFICES ASSUME NEW l \in Launch, cmd'[l].pc # "idle", Counted(l)'
             PROVE  Cardinality(Elders(l)') < Cap
  BY DEF CapInv
<1>1. /\ cmd'[l].ask.kind = "task-agent" /\ l \notin blind'
      /\ cmd'[l].pc \in {"check", "run"} \/ RunningNow(l)'
  BY DEF Counted
<1>2. l \notin blind
  BY <1>1, MetGrows
<1>3. Cap \in Nat /\ Elders(l) \subseteq Launch /\ Elders(l)' \subseteq Launch
  BY LaunchAssumption DEF Elders, Agents
<1>4. ASSUME cmd[l].pc # "idle", Cardinality(Elders(l)) < Cap PROVE Cardinality(Elders(l)') < Cap
  <2>1. Elders(l)' \subseteq Elders(l)
    BY <1>4, EldersShrink
  <2>2. IsFiniteSet(Elders(l)) /\ Cardinality(Elders(l)) \in Nat /\ Cardinality(Elders(l)') \in Nat
    BY <1>3, LaunchesFinite
  <2>3. Cardinality(Elders(l)') <= Cardinality(Elders(l))
    BY <2>1, <2>2, FS_Subset
  <2> QED
    BY <1>3, <1>4, <2>2, <2>3
<1>5. CASE cmd[l].pc # "idle" /\ Counted(l)
  BY <1>4, <1>5 DEF CapInv
<1>6. CASE cmd[l].pc # "idle" /\ ~Counted(l)
  <2>1. cmd[l].ask.kind = "task-agent" /\ cmd[l].pc \notin {"check", "run"} /\ ~RunningNow(l)
    BY <1>1, <1>2, <1>6, MetGrows DEF Counted
  <2>2. cmd'[l].pc \in {"check", "run"}
    BY <1>1, <2>1, RunsAnew
  <2>3. PICK missed \in SUBSET Launch : CheckCapacity(l, missed) /\ cmd'[l].pc = "check"
    <3>1. Command(l)
      <4>1. ASSUME NEW m \in Launch, Command(m) PROVE m = l
        BY <2>1, <2>2, <4>1, CommandStep DEF Only
      <4>2. cmd' # cmd
        BY <2>1, <2>2
      <4> QED
        BY <4>1, <4>2 DEF Next, vars, Container, BootFresh, BootReattach, RunEnds, SupervisorExits,
           PauseTicket, ResumeTicket, Die, StopAndRemove, ForgetSession, CutShort
    <3>2. ~ProbeName(l)
      <4>1. ASSUME ProbeName(l) PROVE FALSE
        <5>1. CASE ~Held(NameAt(l))
          <6>1. Goto(l, "cap")
            BY <2>1, <4>1, <5>1 DEF ProbeName
          <6> QED
            BY <2>2, <6>1, GotoEffect
        <5>2. CASE Held(NameAt(l))
          <6>1. cmd' = [cmd EXCEPT ![l].suffix = NextSuffix(@)] /\ cmd[l].pc = "name"
            BY <2>1, <4>1, <5>2 DEF ProbeName
          <6>2. cmd'[l].pc = cmd[l].pc
            BY <6>1 DEF TypeInv, CmdInv, CmdRecord
          <6> QED
            BY <2>2, <6>1, <6>2
        <5> QED
          BY <5>1, <5>2
      <4> QED
        BY <4>1
    <3>3. ASSUME NEW ask \in Asks[l], Start(l, ask) PROVE FALSE
      BY <1>6, <3>3, StartEffect
    <3>4. ASSUME NEW base, NEW missed, NEW unread, CheckAnchor(l, base, missed, unread) PROVE FALSE
      BY <2>1, <3>4, CheckAnchorEffect
    <3>5. ~DockerRun(l)
      BY <2>1, DockerRunEffect
    <3> QED
      BY <2>2, <3>1, <3>2, <3>3, <3>4, <3>5, CheckCapacityEffect DEF Command
  <2>4. missed = {}
    BY <1>1, <2>3 DEF CheckCapacity
  <2>5. Cardinality(Agents(cmd[l].ask.parent)) < Cap
    BY <2>3, <2>4, CheckCapacityEffect DEF HasCapacity
  <2>6. Elders(l) \subseteq Agents(cmd[l].ask.parent) /\ Agents(cmd[l].ask.parent) \subseteq Launch
    BY DEF Elders, Agents
  <2>7. Cardinality(Elders(l)) <= Cardinality(Agents(cmd[l].ask.parent))
    BY <2>6, LaunchesFinite, FS_Subset
  <2>8. Cardinality(Elders(l)) \in Nat /\ Cardinality(Agents(cmd[l].ask.parent)) \in Nat
    BY <2>6, LaunchesFinite
  <2> QED
    BY <1>3, <1>4, <1>6, <2>5, <2>7, <2>8
<1>7. CASE cmd[l].pc = "idle"
  <2>1. ~Present(l)
    BY <1>7 DEF TypeInv, CtrInv
  <2>2. ~RunningNow(l)' \/ ~RunningNow(l)
    BY <2>1 DEF RunningNow, Present
  <2>3. cmd'[l].pc \in {"check", "run"}
    BY <1>1, <1>7, <2>1, RunsAnew DEF RunningNow, Present
  <2>4. Command(l)
    <3>1. ASSUME NEW m \in Launch, Command(m) PROVE m = l
      BY <1>7, <3>1, CommandStep DEF Only
    <3>2. cmd' # cmd
      BY <1>7
    <3> QED
      BY <3>1, <3>2 DEF Next, vars, Container, BootFresh, BootReattach, RunEnds, SupervisorExits,
         PauseTicket, ResumeTicket, Die, StopAndRemove, ForgetSession, CutShort
  <2>5. PICK ask \in Asks[l] : Start(l, ask)
    <3>1. ASSUME NEW base, NEW missed, NEW unread, CheckAnchor(l, base, missed, unread) PROVE FALSE
      BY <1>7, <3>1, CheckAnchorEffect
    <3> QED
      BY <1>7, <2>4, <3>1 DEF Command, ProbeName, DockerRun, CheckCapacity
  <2>6. ask.kind = "task-agent"
    BY <1>1, <2>5, StartEffect
  <2>7. cmd'[l].pc = "name"
    <3>1. cmd \in [Launch -> CmdRecord]
      BY DEF TypeInv, CmdInv
    <3> QED
      BY <2>5, <2>6, <3>1 DEF Start, CmdRecord
  <2> QED
    BY <2>3, <2>7
<1> QED
  BY <1>5, <1>6, <1>7

LEMMA CapInvariant == Spec => [](OrderInv /\ CapInv)
<1>1. ASSUME Init PROVE OrderInv /\ CapInv
  BY <1>1 DEF Init, OrderInv, CapInv
<1>2. ASSUME TypeInv, OrderInv /\ CapInv, [Next]_vars PROVE (OrderInv /\ CapInv)'
  BY <1>2, OrderInductive, CapInductive
<1> QED
  BY <1>1, <1>2, TypeInductive, PTL DEF Spec

\* CapHolds: the latest of them counted all the others when it was checked
\* (docker.py, assert_task_agent_capacity).
THEOREM CapIsKept == Spec => []CapHolds
<1>1. ASSUME TypeInv, CapInv PROVE CapHolds
  <2> SUFFICES ASSUME NEW parent \in Parent, NEW together \in SUBSET (Agents(parent) \ blind),
                      \A k, l \in together : k # l => {k, l} \notin met
               PROVE  Cardinality(together) <= Cap
    BY DEF CapHolds
  <2>1. together \in SUBSET Launch /\ IsFiniteSet(together) /\ Cardinality(together) \in Nat
    BY LaunchesFinite DEF Agents
  <2>2. Cap \in Nat
    BY LaunchAssumption
  <2>3. CASE together = {}
    BY <2>2, <2>3, FS_EmptySet
  <2>4. CASE together # {}
    <3>1. together \subseteq Int /\ \A k \in together : k \in 1..N
      BY <2>1, LaunchesFinite DEF Launch
    <3>2. PICK l \in together : \A k \in together : k <= l
      BY <2>1, <2>4, LatestExists
    <3> DEFINE others == together \ {l}
    <3>3. l \in Launch /\ l \in Agents(parent) /\ l \notin blind
      BY <2>1, <3>2
    <3>4. others \subseteq Elders(l)
      <4>1. cmd[l].ask.parent = parent
        BY <3>3 DEF Agents
      <4>2. ASSUME NEW k \in others PROVE k \in Agents(parent) /\ k < l /\ {k, l} \notin met
        BY <3>1, <3>2, <4>2
      <4> QED
        BY <4>1, <4>2 DEF Elders
    <3>5. cmd[l].pc # "idle" /\ Counted(l)
      <4>1. RunningNow(l) /\ cmd[l].ask.kind = "task-agent"
        BY <3>3 DEF Agents
      <4>2. cmd[l].pc = "over"
        BY <1>1, <3>3, <4>1 DEF TypeInv, CtrInv, Present, RunningNow
      <4> QED
        BY <3>3, <4>1, <4>2 DEF Counted
    <3>6. Cardinality(Elders(l)) < Cap /\ Elders(l) \in SUBSET Launch
      BY <1>1, <3>3, <3>5 DEF CapInv, Elders, Agents
    <3>7. Cardinality(others) <= Cardinality(Elders(l)) /\ Cardinality(Elders(l)) \in Nat
      BY <3>4, <3>6, LaunchesFinite, FS_Subset
    <3>8. Cardinality(others) = Cardinality(together) - 1
      BY <2>1, <3>2, FS_RemoveElement
    <3> HIDE DEF others
    <3> QED
      BY <2>1, <2>2, <3>6, <3>7, <3>8
  <2> QED
    BY <2>3, <2>4
<1> QED
  BY <1>1, TypeInductive, CapInvariant, PTL

-----------------------------------------------------------------------------
(* The bookmarks *)

\* The commit that a launch stages.
Own(l) == cmd[l].base \cup {l}

\* A container under a name whose session may have been left behind.
Overtaken(l) == l \in hasty \/ (Present(l) /\ NameAt(l) \in orphaned)

\* Past its check, and not yet gone.
Placed(l) == cmd[l].pc = "run" \/ Present(l)

\* The bookmark of a container's name follows its container.
Follows(l) ==
  /\ ctr[l] = "boot" /\ cmd[l].ask.kind # "run" => mark[NameAt(l)] = NoMark
  /\ ctr[l] = "live" \/ (ctr[l] = "stopped" /\ cmd[l].ask.kind = "ticket")
       => mark[NameAt(l)] = Own(l)
  /\ ctr[l] = "stopped" => mark[NameAt(l)] \in {NoMark, Own(l)}

MarkInv ==
  /\ \A name \in Name \ orphaned :
       name[1] # "run" /\ mark[name] # NoMark => Held(name) \/ name \in reaping
  /\ \A l \in Launch : Present(l) /\ ~Overtaken(l) => Follows(l) /\ NameAt(l) \notin reaping
  /\ \A l \in Launch : Present(l) /\ NameAt(l) \in reaping => l \in hasty
  /\ \A name \in reaping \cup orphaned : name[1] # "run"
  /\ \A l \in hasty : cmd[l].pc # "idle" /\ cmd[l].ask.kind # "run"


\* What is present keeps its name, its ask and its base.
LEMMA PresentStands ==
  ASSUME TypeInv, [Next]_vars, NEW l \in Launch, Present(l)
  PROVE  /\ cmd'[l] = cmd[l] /\ NameAt(l)' = NameAt(l) /\ Own(l)' = Own(l)
         /\ NameAt(l) \in Name /\ NameAt(l)[1] = cmd[l].ask.kind
<1>1. cmd[l].pc = "over"
  BY DEF TypeInv, CtrInv
<1>2. cmd'[l] = cmd[l]
  BY <1>1, OverIsOver
<1> QED
  BY <1>1, <1>2, NameKnown DEF TypeInv, NameAt, Own

\* A container that moves takes only its own bookmark along.
LEMMA ContainerMarks ==
  ASSUME TypeInv, MarkInv, [Next]_vars, NEW l \in Launch, Present(l),
         NEW to \in {"none", "boot", "live", "stopped"},
         ctr' = [ctr EXCEPT ![l] = to], UNCHANGED <<cmd, reaping, orphaned, hasty>>,
         \A name \in Name \ {NameAt(l)} : mark'[name] = mark[name],
         to = "none" => cmd[l].ask.kind = "run",
         to # "none" /\ ~Overtaken(l) => Follows(l)'
  PROVE  MarkInv'
<1>1. ctr'[l] = to /\ \A k \in Launch \ {l} : ctr'[k] = ctr[k]
  BY DEF TypeInv, CtrInv
<1>2. /\ \A k \in Launch : NameAt(k)' = NameAt(k) /\ Own(k)' = Own(k)
      /\ \A k \in Launch : Present(k)' => Present(k) /\ (Overtaken(k)' <=> Overtaken(k))
  BY <1>1 DEF NameAt, Own, Overtaken, Present
<1>3. NameAt(l) \in Name /\ NameAt(l)[1] = cmd[l].ask.kind
  BY PresentStands
<1>4. ASSUME NEW name \in Name \ orphaned, name[1] # "run", mark'[name] # NoMark
      PROVE  Held(name)' \/ name \in reaping
  <2>1. CASE name = NameAt(l)
    BY <1>1, <1>2, <1>3, <1>4, <2>1 DEF Held, Present
  <2>2. CASE name # NameAt(l)
    <3>1. Held(name) \/ name \in reaping
      BY <1>4, <2>2 DEF MarkInv
    <3> QED
      BY <1>1, <1>2, <2>2, <3>1 DEF Held, Present
  <2> QED
    BY <2>1, <2>2
<1>5. ASSUME NEW k \in Launch, Present(k)', ~Overtaken(k) PROVE Follows(k)' /\ NameAt(k) \notin reaping
  <2>1. CASE k = l
    <3>1. NameAt(l) \notin reaping
      BY <1>5, <2>1 DEF MarkInv
    <3> QED
      BY <1>1, <1>5, <2>1, <3>1 DEF Present
  <2>2. CASE k # l
    <3>1. Present(k)
      BY <1>1, <1>5, <2>2 DEF Present
    <3>2. NameAt(k) # NameAt(l) /\ NameAt(k) \in Name
      BY <2>2, <3>1, PresentStands DEF TypeInv, CtrInv
    <3>3. Follows(k) /\ NameAt(k) \notin reaping
      BY <1>5, <3>1 DEF MarkInv
    <3>4. mark'[NameAt(k)] = mark[NameAt(k)] /\ ctr'[k] = ctr[k]
      BY <1>1, <2>2, <3>2
    <3> QED
      BY <1>2, <3>3, <3>4 DEF Follows
  <2> QED
    BY <2>1, <2>2
<1>6. /\ \A name \in reaping \cup orphaned : name[1] # "run"
      /\ \A k \in hasty : cmd[k].pc # "idle" /\ cmd[k].ask.kind # "run"
  BY DEF MarkInv
<1>7. \A k \in Launch : Present(k)' /\ NameAt(k) \in reaping => k \in hasty
  BY <1>2 DEF MarkInv
<1> QED
  BY <1>2, <1>4, <1>5, <1>6, <1>7 DEF MarkInv

\* Every container step keeps the bookmarks.
LEMMA ContainersKeepMarks ==
  ASSUME TypeInv, MarkInv, [Next]_vars, NEW l \in Launch, Container(l)
  PROVE  MarkInv'
<1>1. /\ mark \in [Name -> commits \cup {NoMark}]
      /\ ctr \in [Launch -> {"none", "boot", "live", "stopped"}]
  BY DEF TypeInv, StoreInv, CtrInv
<1>2. Present(l) /\ UNCHANGED <<cmd, reaping, orphaned, hasty>>
  BY DEF Container, BootFresh, BootReattach, RunEnds, SupervisorExits, PauseTicket, ResumeTicket, Die,
     Present, ghosts
<1>3. /\ NameAt(l) \in Name /\ NameAt(l)' = NameAt(l) /\ Own(l)' = Own(l)
      /\ NameAt(l)[1] = cmd[l].ask.kind /\ Own(l) # NoMark /\ cmd' = cmd
  BY <1>2, PresentStands DEF Own, NoMark
<1>4. ~Overtaken(l) => Follows(l)
  BY <1>2 DEF MarkInv
<1>5. cmd[l].ask.kind \in Kind
  BY <1>2, AskKnown DEF TypeInv, CtrInv, CmdInv, AskRecord
<1>6. CASE BootFresh(l)
  <2>1. ctr' = [ctr EXCEPT ![l] = "live"] /\ mark' = [mark EXCEPT ![NameAt(l)] = Own(l)]
    BY <1>6 DEF BootFresh, Own
  <2>2. Follows(l)'
    BY <1>1, <1>3, <2>1 DEF Follows
  <2> QED
    BY <1>1, <1>2, <2>1, <2>2, ContainerMarks
<1>7. CASE BootReattach(l)
  <2> DEFINE to == IF cmd[l].ask.kind = "run" THEN "none" ELSE "live"
  <2>1. ctr' = [ctr EXCEPT ![l] = to] /\ mark' = mark /\ ctr[l] = "boot" /\ mark[NameAt(l)] # NoMark
    BY <1>7 DEF BootReattach
  <2>2. to # "none" => Overtaken(l)
    BY <1>4, <2>1 DEF Follows
  <2> QED
    BY <1>2, <2>1, <2>2, ContainerMarks
<1>8. CASE RunEnds(l)
  BY <1>2, <1>8, ContainerMarks DEF RunEnds
<1>9. CASE SupervisorExits(l)
  <2>1. /\ ctr' = [ctr EXCEPT ![l] = "stopped"] /\ mark' = [mark EXCEPT ![NameAt(l)] = NoMark]
        /\ cmd[l].ask.kind = "task-agent"
    BY <1>9 DEF SupervisorExits
  <2>2. Follows(l)'
    BY <1>1, <1>3, <2>1 DEF Follows
  <2> QED
    BY <1>1, <1>2, <2>1, <2>2, ContainerMarks
<1>10. CASE PauseTicket(l) \/ Die(l)
  <2> DEFINE to == IF cmd[l].ask.kind = "run" THEN "none" ELSE "stopped"
  <2>1. ctr' = [ctr EXCEPT ![l] = to] /\ mark' = mark /\ ctr[l] = "live"
    BY <1>10 DEF PauseTicket, Die
  <2>2. to # "none" /\ ~Overtaken(l) => Follows(l)'
    BY <1>1, <1>3, <1>4, <2>1 DEF Follows
  <2> QED
    BY <1>2, <2>1, <2>2, ContainerMarks
<1>11. CASE ResumeTicket(l)
  <2>1. /\ ctr' = [ctr EXCEPT ![l] = "live"] /\ mark' = mark /\ ctr[l] = "stopped"
        /\ cmd[l].ask.kind = "ticket"
    BY <1>11 DEF ResumeTicket
  <2>2. ~Overtaken(l) => Follows(l)'
    BY <1>1, <1>3, <1>4, <2>1 DEF Follows
  <2> QED
    BY <1>2, <2>1, <2>2, ContainerMarks
<1> QED
  BY <1>6, <1>7, <1>8, <1>9, <1>10, <1>11 DEF Container

\* A container that docker run makes finds no bookmark that it may not.
LEMMA DockerRunKeepsMarks ==
  ASSUME TypeInv, MarkInv, [Next]_vars, NEW l \in Launch, DockerRun(l)
  PROVE  MarkInv'
<1>1. /\ Only(l) /\ Keeps(l) /\ cmd[l].pc = "run"
      /\ mark' = mark /\ reaping' = reaping /\ orphaned' = orphaned
      /\ ctr' = IF Held(NameAt(l)) THEN ctr ELSE [ctr EXCEPT ![l] = "boot"]
      /\ hasty' = IF NameAt(l) \in reaping THEN hasty \cup {l} ELSE hasty
  BY DockerRunEffect DEF DockerRun
<1>2. ~Present(l) /\ ctr \in [Launch -> {"none", "boot", "live", "stopped"}]
  BY <1>1 DEF TypeInv, CtrInv
<1>3. NameAt(l) \in Name /\ NameAt(l)' = NameAt(l) /\ NameAt(l)[1] = cmd[l].ask.kind
  BY <1>1, NameKnown DEF TypeInv, NameAt, Keeps
<1>4. \A k \in Launch \ {l} : ctr'[k] = ctr[k] /\ (k \in hasty' <=> k \in hasty)
  BY <1>1, <1>2
<1>5. ASSUME NEW k \in Launch, Present(k)
      PROVE  /\ k # l /\ ctr'[k] = ctr[k] /\ cmd'[k] = cmd[k]
             /\ NameAt(k)' = NameAt(k) /\ Own(k)' = Own(k) /\ (Overtaken(k)' <=> Overtaken(k))
  <2>1. k # l
    BY <1>2, <1>5
  <2>2. Present(k)'
    BY <1>4, <1>5, <2>1 DEF Present
  <2> QED
    BY <1>1, <1>4, <1>5, <2>1, <2>2, PresentStands DEF Overtaken
<1>6. ASSUME NEW name \in Name \ orphaned, name[1] # "run", mark[name] # NoMark
      PROVE  Held(name)' \/ name \in reaping
  BY <1>5, <1>6 DEF MarkInv, Held, Present
<1>7. ASSUME NEW k \in Launch, Present(k)', ~Overtaken(k)' PROVE Follows(k)' /\ NameAt(k)' \notin reaping
  <2>1. CASE Present(k)
    <3>1. Follows(k) /\ NameAt(k) \notin reaping
      BY <1>5, <1>7, <2>1 DEF MarkInv
    <3> QED
      BY <1>1, <1>5, <2>1, <3>1 DEF Follows
  <2>2. CASE ~Present(k)
    <3>1. k = l /\ ctr'[l] = "boot" /\ ~Held(NameAt(l))
      BY <1>1, <1>2, <1>7, <2>2 DEF Present
    <3>2. NameAt(l) \notin reaping /\ NameAt(l) \notin orphaned
      BY <1>1, <1>3, <1>7, <3>1 DEF Overtaken
    <3>3. cmd[l].ask.kind # "run" => mark[NameAt(l)] = NoMark
      BY <1>3, <3>1, <3>2 DEF MarkInv
    <3> QED
      BY <1>1, <1>3, <3>1, <3>2, <3>3 DEF Follows, Keeps
  <2> QED
    BY <2>1, <2>2
<1>8. \A k \in hasty' : cmd'[k].pc # "idle" /\ cmd'[k].ask.kind # "run"
  <2>1. ASSUME NEW k \in hasty', k = l, k \notin hasty PROVE cmd'[k].pc # "idle" /\ cmd'[k].ask.kind # "run"
    BY <1>1, <1>3, <2>1, DockerRunEffect DEF MarkInv, Keeps
  <2>2. ASSUME NEW k \in hasty PROVE cmd'[k].pc # "idle" /\ cmd'[k].ask.kind # "run"
    <3>1. k \in Launch /\ cmd[k].pc # "idle" /\ cmd[k].ask.kind # "run"
      BY <2>2 DEF MarkInv, TypeInv, GhostInv
    <3> QED
      BY <3>1, MetGrows
  <2> QED
    BY <1>1, <2>1, <2>2
<1>9. \A k \in Launch : Present(k)' /\ NameAt(k)' \in reaping => k \in hasty'
  <2>1. ASSUME NEW k \in Launch, Present(k)', ~Present(k) PROVE k = l
    BY <1>4, <2>1 DEF Present
  <2> QED
    BY <1>1, <1>3, <1>5, <2>1 DEF MarkInv
<1> QED
  BY <1>1, <1>6, <1>7, <1>8, <1>9 DEF MarkInv

\* The checks of a command touch neither store nor containers.
LEMMA ChecksKeepMarks ==
  ASSUME TypeInv, MarkInv, [Next]_vars, UNCHANGED <<ctr, mark, reaping, orphaned, hasty>>
  PROVE  MarkInv'
<1>1. ASSUME NEW k \in Launch, Present(k)
      PROVE  /\ cmd'[k] = cmd[k] /\ NameAt(k)' = NameAt(k) /\ Own(k)' = Own(k)
             /\ (Overtaken(k)' <=> Overtaken(k))
  BY <1>1, PresentStands DEF Overtaken, Present
<1>2. \A name \in Name : Held(name) => Held(name)'
  BY <1>1 DEF Held, Present
<1>3. \A k \in Launch : Present(k)' /\ ~Overtaken(k)' => Follows(k)' /\ NameAt(k)' \notin reaping'
  BY <1>1 DEF MarkInv, Follows, Present
<1>4. \A k \in hasty : cmd'[k].pc # "idle" /\ cmd'[k].ask.kind # "run"
  BY MetGrows DEF MarkInv, TypeInv, GhostInv
<1>5. \A k \in Launch : Present(k)' /\ NameAt(k)' \in reaping => k \in hasty
  BY <1>1 DEF MarkInv, Present
<1> QED
  BY <1>2, <1>3, <1>4, <1>5 DEF MarkInv

\* A teardown takes the container first, and the bookmark later.
LEMMA TeardownKeepsMarks ==
  ASSUME TypeInv, MarkInv, [Next]_vars,
         \/ \E l \in Launch : StopAndRemove(l)
         \/ \E name \in Name : ForgetSession(name) \/ CutShort(name)
  PROVE  MarkInv'
<1>1. mark \in [Name -> commits \cup {NoMark}] /\ UNCHANGED <<cmd, hasty>>
  BY DEF TypeInv, StoreInv, StopAndRemove, ForgetSession, CutShort, ghosts
<1>2. \A k \in Launch : NameAt(k)' = NameAt(k) /\ Own(k)' = Own(k)
  BY <1>1 DEF NameAt, Own
<1>3. ASSUME NEW l \in Launch, StopAndRemove(l) PROVE MarkInv'
  <2>1. /\ Present(l) /\ cmd[l].ask.kind # "run" /\ ctr' = [ctr EXCEPT ![l] = "none"]
        /\ reaping' = reaping \cup {NameAt(l)} /\ UNCHANGED <<mark, orphaned>>
    BY <1>3 DEF StopAndRemove, ghosts
  <2>2. NameAt(l)[1] # "run"
    BY <2>1, PresentStands
  <2>3. ctr'[l] = "none" /\ \A k \in Launch \ {l} : ctr'[k] = ctr[k]
    BY <2>1 DEF TypeInv, CtrInv
  <2>4. ASSUME NEW k \in Launch, Present(k)'
        PROVE  Present(k) /\ ctr'[k] = ctr[k] /\ NameAt(k) # NameAt(l) /\ (Overtaken(k)' <=> Overtaken(k))
    <3>1. k # l
      BY <2>3, <2>4 DEF Present
    <3> QED
      BY <1>1, <1>2, <2>1, <2>3, <2>4, <3>1 DEF TypeInv, CtrInv, Present, Overtaken
  <2>5. \A k \in Launch : Present(k)' /\ ~Overtaken(k)' => Follows(k)' /\ NameAt(k)' \notin reaping'
    <3> SUFFICES ASSUME NEW k \in Launch, Present(k)', ~Overtaken(k)'
                 PROVE  Follows(k)' /\ NameAt(k)' \notin reaping'
      OBVIOUS
    <3>1. Follows(k) /\ NameAt(k) \notin reaping
      BY <2>4 DEF MarkInv
    <3> QED
      BY <1>1, <1>2, <2>1, <2>4, <3>1 DEF Follows
  <2>6. ASSUME NEW name \in Name \ orphaned, name[1] # "run", mark[name] # NoMark
        PROVE  Held(name)' \/ name \in reaping'
    <3>1. Held(name) \/ name \in reaping
      BY <2>6 DEF MarkInv
    <3> QED
      BY <1>2, <2>1, <2>3, <3>1 DEF Held, Present
  <2>7. \A k \in Launch : Present(k)' /\ NameAt(k)' \in reaping' => k \in hasty
    BY <1>2, <2>1, <2>4 DEF MarkInv
  <2> QED
    BY <1>1, <2>1, <2>2, <2>5, <2>6, <2>7 DEF MarkInv
<1>4. ASSUME NEW name \in Name, ForgetSession(name) \/ CutShort(name) PROVE MarkInv'
  <2>1. /\ name \in reaping /\ reaping' = reaping \ {name} /\ ctr' = ctr
        /\ \/ orphaned' = orphaned \ {name} /\ mark' = [mark EXCEPT ![name] = NoMark]
           \/ orphaned' = orphaned \cup {name} /\ mark' = mark
    BY <1>4 DEF ForgetSession, CutShort, ghosts
  <2>2. ASSUME NEW other \in Name \ orphaned', other[1] # "run", mark'[other] # NoMark
        PROVE  Held(other)' \/ other \in reaping'
    <3>1. other # name /\ mark'[other] = mark[other]
      BY <1>1, <2>1, <2>2
    <3>2. Held(other) \/ other \in reaping
      BY <2>1, <2>2, <3>1 DEF MarkInv
    <3> QED
      BY <1>2, <2>1, <3>1, <3>2 DEF Held, Present
  <2>3. ASSUME NEW k \in Launch, Present(k)', ~Overtaken(k)' PROVE Follows(k)' /\ NameAt(k)' \notin reaping'
    <3>1. Present(k) /\ ~Overtaken(k)
      BY <1>1, <1>2, <2>1, <2>3 DEF Present, Overtaken, MarkInv
    <3>2. Follows(k) /\ NameAt(k) \notin reaping /\ NameAt(k) \in Name
      BY <3>1, PresentStands DEF MarkInv
    <3>3. mark'[NameAt(k)] = mark[NameAt(k)]
      BY <1>1, <2>1, <3>2
    <3> QED
      BY <1>1, <1>2, <2>1, <3>2, <3>3 DEF Follows
  <2>4. \A other \in reaping' \cup orphaned' : other[1] # "run"
    BY <2>1 DEF MarkInv
  <2>5. \A k \in Launch : Present(k)' /\ NameAt(k)' \in reaping' => k \in hasty
    BY <1>2, <2>1 DEF MarkInv, Present
  <2> QED
    BY <1>1, <2>2, <2>3, <2>4, <2>5 DEF MarkInv
<1> QED
  BY <1>3, <1>4

LEMMA MarksInductive ==
  ASSUME TypeInv, MarkInv, [Next]_vars
  PROVE  MarkInv'
<1>1. ASSUME NEW l \in Launch, Command(l), ~DockerRun(l) PROVE UNCHANGED <<ctr, mark, reaping, orphaned, hasty>>
  <2>1. ASSUME NEW base, NEW missed, NEW unread, CheckAnchor(l, base, missed, unread)
        PROVE  UNCHANGED <<ctr, mark, reaping, orphaned, hasty>>
    BY <2>1 DEF CheckAnchor
  <2> QED
    BY <1>1, <2>1 DEF Command, Start, ProbeName, CheckCapacity, ghosts
<1>2. CASE UNCHANGED vars
  BY <1>2, ChecksKeepMarks DEF vars, ghosts
<1>3. ASSUME NEW l \in Launch, Command(l) PROVE MarkInv'
  BY <1>1, <1>3, ChecksKeepMarks, DockerRunKeepsMarks
<1>4. ASSUME NEW l \in Launch, Container(l) PROVE MarkInv'
  BY <1>4, ContainersKeepMarks
<1>5. CASE \/ \E l \in Launch : StopAndRemove(l)
           \/ \E name \in Name : ForgetSession(name) \/ CutShort(name)
  BY <1>5, TeardownKeepsMarks
<1> QED
  BY <1>2, <1>3, <1>4, <1>5 DEF Next

LEMMA MarkInvariant == Spec => []MarkInv
<1>1. ASSUME Init PROVE MarkInv
  BY <1>1 DEF Init, MarkInv, Present
<1> QED
  BY <1>1, TypeInductive, MarksInductive, PTL DEF Spec

\* BookmarksAreOwned: the bookmark of an agent or a ticket is made in the store by
\* the container that has its name, and goes before that name can be taken anew
\* (vcs-lib.sh, the lifecycle of a session), also after a teardown that was cut short
\* once another is complete.  Nothing is said of a launch that overtakes a teardown,
\* of a name while the last teardown of it was cut short, and of runs.
THEOREM BookmarksHaveOwners == Spec => []BookmarksAreOwned
<1>1. ASSUME TypeInv, MarkInv PROVE BookmarksAreOwned
  <2> SUFFICES ASSUME NEW name \in Name \ orphaned, name[1] # "run"
               PROVE  /\ mark[name] # NoMark => Held(name) \/ name \in reaping
                      /\ \A l \in Launch \ hasty :
                           ctr[l] = "live" /\ NameAt(l) = name => mark[name] = cmd[l].base \cup {l}
    BY DEF BookmarksAreOwned
  <2>1. ASSUME NEW l \in Launch \ hasty, ctr[l] = "live", NameAt(l) = name
        PROVE  mark[name] = cmd[l].base \cup {l}
    BY <1>1, <2>1 DEF MarkInv, Present, Overtaken, Follows, Own
  <2> QED
    BY <1>1, <2>1 DEF MarkInv
<1> QED
  BY <1>1, TypeInductive, MarkInvariant, PTL

-----------------------------------------------------------------------------
(* The reach of the containers *)

\* A commit that has a launch's change has what that was staged on.
CommitInv ==
  /\ \A commit \in commits : \A l \in commit \cap Launch :
       cmd[l].pc = "over" /\ ctr[l] # "boot" /\ cmd[l].base \subseteq commit
  /\ \A l \in Launch : Placed(l) => cmd[l].base \in commits

\* A container that inherits, while it is there.
Heir(l) == Overtaken(l) \/ (ctr[l] = "boot" /\ cmd[l].ask.kind = "run" /\ mark[NameAt(l)] # NoMark)

\* What a check has settled about two launches.
Apart(c, d) ==
  /\ ~Overtaken(c) /\ cmd[c].ask.mode = "isolated" => c \notin cmd[d].base
  /\ ~Heir(c) /\ ~Heir(d) /\ cmd[c].ask.mode = "shared" /\ {c, d} \notin met
       => ~(cmd[c].base \subseteq cmd[d].base)

ReachInv ==
  \A c, d \in Launch :
    c # d /\ Placed(c) /\ Placed(d) /\ ~Stacked(c, d) /\ {c, d} \cap blind = {} => Apart(c, d)

\* What is placed keeps what it was checked for.
LEMMA PlacedStands ==
  ASSUME TypeInv, [Next]_vars, NEW l \in Launch, Placed(l)
  PROVE  /\ cmd'[l].base = cmd[l].base /\ cmd'[l].ask = cmd[l].ask /\ NameAt(l)' = NameAt(l)
         /\ cmd[l].pc \in {"run", "over"}
<1>1. CASE Present(l)
  BY <1>1, PresentStands DEF TypeInv, CtrInv
<1>2. CASE cmd[l].pc = "run"
  <2>1. cmd'[l].ask = cmd[l].ask /\ NameAt(l)' = NameAt(l)
    BY <1>2, NamesStand DEF Fixed
  <2>2. ASSUME NEW k \in Launch, Command(k) PROVE cmd'[l].base = cmd[l].base
    <3>1. CASE k # l
      BY <2>2, <3>1, CommandStep DEF Only
    <3>2. CASE k = l
      <4>1. ASSUME NEW base, NEW missed, NEW unread, CheckAnchor(l, base, missed, unread) PROVE FALSE
        BY <1>2, <4>1 DEF CheckAnchor
      <4>2. DockerRun(l)
        BY <1>2, <2>2, <3>2, <4>1 DEF Command, Start, ProbeName, CheckCapacity
      <4> QED
        BY <4>2, DockerRunEffect DEF Keeps
    <3> QED
      BY <3>1, <3>2
  <2>3. ASSUME UNCHANGED cmd PROVE cmd'[l].base = cmd[l].base
    BY <2>3
  <2> QED
    BY <1>2, <2>1, <2>2, <2>3 DEF Next, vars, Container, BootFresh, BootReattach, RunEnds, SupervisorExits,
       PauseTicket, ResumeTicket, Die, StopAndRemove, ForgetSession, CutShort
<1> QED
  BY <1>1, <1>2 DEF Placed

\* A container is there only by docker run.
LEMMA AppearsByRun ==
  ASSUME TypeInv, [Next]_vars, NEW l \in Launch, ctr'[l] # "none",
         ctr[l] = "none" \/ (ctr'[l] = "boot" /\ ctr[l] # "boot")
  PROVE  cmd[l].pc = "run" /\ DockerRun(l)
<1>1. ctr \in [Launch -> {"none", "boot", "live", "stopped"}] /\ ctr'[l] # ctr[l]
  BY DEF TypeInv, CtrInv
<1>2. ASSUME NEW k \in Launch, Container(k) \/ StopAndRemove(k) PROVE FALSE
  <2>1. ctr'[k] # "boot" /\ (ctr[k] # "none") /\ \A j \in Launch \ {k} : ctr'[j] = ctr[j]
    BY <1>1, <1>2 DEF Container, BootFresh, BootReattach, RunEnds, SupervisorExits, PauseTicket,
       ResumeTicket, Die, StopAndRemove, Present
  <2> QED
    BY <1>1, <2>1
<1>3. ASSUME NEW k \in Launch, Command(k), ~DockerRun(k) PROVE UNCHANGED ctr
  <2>1. ASSUME NEW base, NEW missed, NEW unread, CheckAnchor(k, base, missed, unread) PROVE UNCHANGED ctr
    BY <2>1 DEF CheckAnchor
  <2> QED
    BY <1>3, <2>1 DEF Command, Start, ProbeName, CheckCapacity
<1>4. ASSUME NEW name \in Name, ForgetSession(name) \/ CutShort(name) PROVE UNCHANGED ctr
  BY <1>4 DEF ForgetSession, CutShort
<1>5. PICK k \in Launch : DockerRun(k)
  BY <1>1, <1>2, <1>3, <1>4 DEF Next, vars
<1> QED
  BY <1>1, <1>5 DEF DockerRun

\* A launch is placed only by its check.
LEMMA PlacedByCheck ==
  ASSUME TypeInv, [Next]_vars, NEW l \in Launch, Placed(l)', ~Placed(l)
  PROVE  \E base \in commits, missed, unread \in SUBSET Launch :
           CheckAnchor(l, base, missed, unread) /\ cmd'[l].pc = "run"
<1>1. ~Present(l)' \/ Present(l)
  BY AppearsByRun DEF Present, Placed
<1>2. cmd'[l].pc = "run" /\ cmd[l].pc # "run"
  BY <1>1 DEF Placed
<1>3. Command(l)
  <2>1. ASSUME NEW k \in Launch, Command(k) PROVE k = l
    BY <1>2, <2>1, CommandStep DEF Only
  <2>2. cmd' # cmd
    BY <1>2
  <2> QED
    BY <2>1, <2>2 DEF Next, vars, Container, BootFresh, BootReattach, RunEnds, SupervisorExits, PauseTicket,
       ResumeTicket, Die, StopAndRemove, ForgetSession, CutShort
<1>4. ASSUME NEW ask \in Asks[l], Start(l, ask) PROVE FALSE
  BY <1>2, <1>4, StartEffect
<1>5. ASSUME NEW missed \in SUBSET Launch, CheckCapacity(l, missed) PROVE FALSE
  BY <1>2, <1>5, CheckCapacityEffect
<1> QED
  BY <1>2, <1>3, <1>4, <1>5, ProbeNameEffect, DockerRunEffect DEF Command, Probes

LEMMA CommitsInductive ==
  ASSUME TypeInv, CommitInv, [Next]_vars
  PROVE  CommitInv'
<1>1. ASSUME NEW l \in Launch, cmd[l].pc = "over", ctr[l] # "boot"
      PROVE  cmd'[l] = cmd[l] /\ ctr'[l] # "boot"
  BY <1>1, OverIsOver, AppearsByRun
<1>2. commits \subseteq commits'
  <2>1. ASSUME NEW l \in Launch, NEW base, NEW missed, NEW unread, CheckAnchor(l, base, missed, unread)
        PROVE UNCHANGED commits
    BY <2>1 DEF CheckAnchor
  <2> QED
    BY <2>1 DEF Next, vars, Command, Start, ProbeName, CheckCapacity, DockerRun, Container, BootFresh,
       BootReattach, RunEnds, SupervisorExits, PauseTicket, ResumeTicket, Die, StopAndRemove, ForgetSession,
       CutShort
<1>3. ASSUME NEW commit \in commits, NEW l \in commit \cap Launch
      PROVE  cmd'[l].pc = "over" /\ ctr'[l] # "boot" /\ cmd'[l].base \subseteq commit
  BY <1>1, <1>3 DEF CommitInv
<1>4. ASSUME NEW commit \in commits', commit \notin commits, NEW l \in commit \cap Launch
      PROVE  cmd'[l].pc = "over" /\ ctr'[l] # "boot" /\ cmd'[l].base \subseteq commit
  <2>1. PICK c \in Launch : BootFresh(c) /\ commit = cmd[c].base \cup {c}
    <3>1. ASSUME NEW k \in Launch, NEW base, NEW missed, NEW unread, CheckAnchor(k, base, missed, unread)
          PROVE  UNCHANGED commits
      BY <3>1 DEF CheckAnchor
    <3> QED
      BY <1>4, <3>1 DEF Next, vars, Command, Start, ProbeName, CheckCapacity, DockerRun, Container, BootFresh,
         BootReattach, RunEnds, SupervisorExits, PauseTicket, ResumeTicket, Die, StopAndRemove, ForgetSession,
         CutShort
  <2>2. ctr[c] = "boot" /\ ctr' = [ctr EXCEPT ![c] = "live"] /\ cmd' = cmd
    BY <2>1 DEF BootFresh
  <2>3. cmd[c].pc = "over" /\ cmd[c].base \in commits /\ ctr'[c] = "live"
    BY <2>2 DEF TypeInv, CtrInv, CommitInv, Placed, Present
  <2>4. CASE l = c
    BY <2>1, <2>2, <2>3, <2>4
  <2>5. CASE l # c
    <3>1. l \in cmd[c].base
      BY <2>1, <2>5
    <3> QED
      BY <1>3, <2>1, <2>3, <3>1
  <2> QED
    BY <2>4, <2>5
<1>5. ASSUME NEW l \in Launch, Placed(l)' PROVE cmd'[l].base \in commits'
  <2>1. CASE Placed(l)
    BY <1>2, <2>1, PlacedStands DEF CommitInv
  <2>2. CASE ~Placed(l)
    <3>1. PICK base \in commits, missed, unread \in SUBSET Launch :
            CheckAnchor(l, base, missed, unread) /\ cmd'[l].pc = "run"
      BY <1>5, <2>2, PlacedByCheck
    <3>2. cmd'[l].base = base
      BY <3>1, CheckAnchorEffect
    <3> QED
      BY <1>2, <3>2
  <2> QED
    BY <2>1, <2>2
<1> QED
  BY <1>3, <1>4, <1>5 DEF CommitInv

\* What a container inherits it keeps.
LEMMA InheritsStays ==
  ASSUME TypeInv, MarkInv, [Next]_vars, NEW l \in Launch, Placed(l), Placed(l)'
  PROVE  /\ Overtaken(l) => Overtaken(l)'
         /\ Heir(l) => Heir(l)'
<1>1. NameAt(l)' = NameAt(l) /\ cmd'[l].ask = cmd[l].ask
  BY PlacedStands
<1>2. /\ hasty \subseteq hasty'
      /\ orphaned \subseteq orphaned' \/ \E name \in reaping : orphaned' = orphaned \ {name}
  <2>1. ASSUME NEW k \in Launch, NEW base, NEW missed, NEW unread, CheckAnchor(k, base, missed, unread)
        PROVE  UNCHANGED <<hasty, orphaned>>
    BY <2>1 DEF CheckAnchor
  <2> QED
    BY <2>1 DEF Next, vars, Command, Start, ProbeName, CheckCapacity, DockerRun, Container, BootFresh,
       BootReattach, RunEnds, SupervisorExits, PauseTicket, ResumeTicket, Die, StopAndRemove, ForgetSession,
       CutShort, ghosts
<1>3. ASSUME ctr[l] = "boot", cmd[l].ask.kind = "run", mark[NameAt(l)] # NoMark
      PROVE  ctr'[l] = "boot" /\ mark'[NameAt(l)] # NoMark
  <2>1. /\ ctr \in [Launch -> {"none", "boot", "live", "stopped"}] /\ mark \in [Name -> commits \cup {NoMark}]
        /\ Present(l) /\ cmd[l].pc = "over"
    BY <1>3 DEF TypeInv, CtrInv, StoreInv, Present
  <2>2. NameAt(l) \in Name /\ NameAt(l)[1] = "run" /\ cmd' [l] = cmd[l]
    BY <1>3, <2>1, PresentStands
  <2>3. ASSUME NEW k \in Launch, Command(k) PROVE ctr'[l] = ctr[l] /\ mark' = mark
    <3>1. ASSUME NEW base, NEW missed, NEW unread, CheckAnchor(k, base, missed, unread)
          PROVE  UNCHANGED <<ctr, mark>>
      BY <3>1 DEF CheckAnchor
    <3>2. ASSUME DockerRun(k) PROVE ctr'[l] = ctr[l] /\ mark' = mark
      BY <2>1, <3>2 DEF DockerRun
    <3> QED
      BY <2>3, <3>1, <3>2 DEF Command, Start, ProbeName, CheckCapacity
  <2>4. ASSUME NEW k \in Launch, Container(k) PROVE ctr'[l] = ctr[l] /\ mark'[NameAt(l)] = mark[NameAt(l)]
    <3>1. Present(k)
      BY <2>4 DEF Container, BootFresh, BootReattach, RunEnds, SupervisorExits, PauseTicket, ResumeTicket,
         Die, Present
    <3>2. CASE k = l
      <4>1. BootReattach(l)
        BY <1>3, <2>4, <3>2 DEF Container, BootFresh, RunEnds, SupervisorExits, PauseTicket, ResumeTicket, Die
      <4>2. ctr'[l] = "none" /\ cmd'[l].pc = "over"
        BY <1>3, <2>1, <2>2, <4>1 DEF BootReattach
      <4> QED
        BY <4>2 DEF Placed, Present
    <3>3. CASE k # l
      <4>1. NameAt(k) # NameAt(l)
        BY <2>1, <3>1, <3>3 DEF TypeInv, CtrInv
      <4> QED
        BY <2>1, <2>2, <2>4, <3>3, <4>1 DEF Container, BootFresh, BootReattach, RunEnds, SupervisorExits,
           PauseTicket, ResumeTicket, Die
    <3> QED
      BY <3>2, <3>3
  <2>5. ASSUME NEW k \in Launch, StopAndRemove(k) PROVE ctr'[l] = ctr[l] /\ mark' = mark
    BY <1>3, <2>1, <2>5 DEF StopAndRemove
  <2>6. ASSUME NEW name \in Name, ForgetSession(name) \/ CutShort(name)
        PROVE  ctr'[l] = ctr[l] /\ mark'[NameAt(l)] = mark[NameAt(l)]
    <3>1. name # NameAt(l)
      BY <2>2, <2>6 DEF ForgetSession, CutShort, MarkInv
    <3> QED
      BY <2>1, <2>2, <2>6, <3>1 DEF ForgetSession, CutShort
  <2> QED
    BY <1>3, <2>3, <2>4, <2>5, <2>6 DEF Next, vars
<1>4. Present(l) => Present(l)'
  <2>1. CASE Present(l) /\ cmd[l].pc = "over"
    BY <2>1, OverIsOver DEF Placed
  <2> QED
    BY <2>1 DEF TypeInv, CtrInv
<1>5. ASSUME Overtaken(l) PROVE Overtaken(l)'
  <2>1. CASE l \in hasty
    BY <1>2, <2>1 DEF Overtaken
  <2>2. CASE l \notin hasty
    <3>1. Present(l) /\ NameAt(l) \in orphaned /\ NameAt(l) \notin reaping
      BY <1>5, <2>2 DEF Overtaken, MarkInv
    <3> QED
      BY <1>1, <1>2, <1>4, <3>1 DEF Overtaken
  <2> QED
    BY <2>1, <2>2
<1> QED
  BY <1>1, <1>3, <1>5 DEF Heir

\* What docker and the store show of a container.
LEMMA WhatIsSeen ==
  ASSUME TypeInv, MarkInv, NEW l \in Launch, Present(l)
  PROVE  /\ cmd[l].ask.mode = "shared" => Effective(l) = cmd[l].base
         /\ ~Overtaken(l) /\ ctr[l] # "boot" => Effective(l) \in {cmd[l].base, Own(l)}
         /\ ~Heir(l) => Effective(l) \in {cmd[l].base, Own(l)}
<1>1. ~Overtaken(l) => Follows(l)
  BY DEF MarkInv
<1>2. ctr[l] \in {"boot", "live", "stopped"}
  BY DEF TypeInv, CtrInv, Present
<1> QED
  BY <1>1, <1>2 DEF Effective, Follows, Heir, Overtaken

\* A check that could see lets nothing through that overlaps.
LEMMA CheckSees ==
  ASSUME TypeInv, NEW d \in Launch, NEW base \in commits, NEW missed, NEW unread,
         CheckAnchor(d, base, missed, unread), cmd'[d].pc = "run", d \notin blind',
         NEW c \in Launch, Present(c), ~Stacked(c, d)
  PROVE  ~Overlaps(base, cmd[d].ask.mode, c)
<1>1. missed = {} /\ unread = {}
  BY DEF CheckAnchor
<1>2. LetsThrough(d, base, missed, unread)
  BY CheckAnchorEffect
<1> QED
  BY <1>1, <1>2 DEF LetsThrough, Occupants, Stacked

\* The later of two launches that were never in progress together finds the
\* earlier one's container.
LEMMA EarlierIsOver ==
  ASSUME TypeInv, OrderInv, [Next]_vars, NEW c \in Launch, NEW d \in Launch, c # d,
         Placed(c), cmd[d].pc = "check", {c, d} \notin met'
  PROVE  Present(c)
<1>1. {c, d} \notin met /\ cmd[c].pc \in {"run", "over"} /\ c \in Int /\ d \in Int
  BY MetGrows, PlacedStands, LaunchesFinite
<1>2. CASE c < d
  BY <1>1, <1>2 DEF OrderInv, InProgress, Placed
<1>3. CASE d < c
  <2>1. {d, c} \in met
    BY <1>1, <1>3 DEF OrderInv, InProgress
  <2> QED
    BY <1>1, <2>1
<1> QED
  BY <1>1, <1>2, <1>3

\* The launch d passes its check while c is placed.
LEMMA CheckedApart ==
  ASSUME TypeInv, OrderInv, MarkInv, CommitInv, [Next]_vars,
         NEW c \in Launch, NEW d \in Launch, c # d, Placed(c), Placed(c)', ~Stacked(c, d)',
         d \notin blind', NEW base \in commits, NEW missed, NEW unread,
         CheckAnchor(d, base, missed, unread), cmd'[d].pc = "run"
  PROVE  Apart(c, d)' /\ Apart(d, c)'
<1>1. /\ cmd[d].pc = "check" /\ cmd'[d].ask = cmd[d].ask /\ cmd'[d].base = base
      /\ cmd'[c].ask = cmd[c].ask /\ cmd'[c].base = cmd[c].base /\ cmd[c].base \in commits
      /\ UNCHANGED <<ctr, mark, commits>>
  <2>1. UNCHANGED <<ctr, mark, commits>>
    BY DEF CheckAnchor
  <2>2. cmd[c].base \in commits
    BY DEF CommitInv
  <2>3. cmd[d].pc = "check" /\ cmd'[d].ask = cmd[d].ask /\ cmd'[d].base = base
    BY CheckAnchorEffect
  <2> QED
    BY <2>1, <2>2, <2>3, PlacedStands
<1>2. ASSUME Present(c) PROVE ~Overlaps(base, cmd[d].ask.mode, c)
  BY <1>1, <1>2, CheckSees DEF Stacked
<1>3. ASSUME ~Overtaken(c), c \in base PROVE FALSE
  <2>1. cmd[c].pc = "over" /\ ctr[c] # "boot" /\ cmd[c].base \subseteq base
    BY <1>3 DEF CommitInv
  <2>2. Present(c) /\ Own(c) \subseteq base
    BY <1>3, <2>1 DEF Placed, Own
  <2>3. Effective(c) \subseteq base
    BY <1>3, <2>1, <2>2, WhatIsSeen
  <2> QED
    BY <1>2, <2>2, <2>3 DEF Overlaps, Above
<1>4. d \notin cmd[c].base
  BY <1>1 DEF CommitInv
<1>5. ASSUME cmd[c].ask.mode = "shared", {c, d} \notin met', cmd[c].base \subseteq base PROVE FALSE
  <2>1. Present(c)
    BY <1>1, <1>5, EarlierIsOver
  <2> QED
    BY <1>2, <1>5, <2>1, WhatIsSeen DEF Overlaps, Above
<1>6. ASSUME ~Heir(c), cmd[d].ask.mode = "shared", {c, d} \notin met', base \subseteq cmd[c].base PROVE FALSE
  <2>1. Present(c)
    BY <1>1, <1>6, EarlierIsOver
  <2>2. Effective(c) \in {cmd[c].base, Own(c)}
    BY <1>6, <2>1, WhatIsSeen
  <2> QED
    BY <1>2, <1>6, <2>1, <2>2 DEF Overlaps, Above, Own
<1>7. (~Overtaken(c)' => ~Overtaken(c)) /\ (~Heir(c)' => ~Heir(c))
  BY InheritsStays
<1>8. Apart(c, d)'
  BY <1>1, <1>3, <1>5, <1>7 DEF Apart
<1>9. {d, c} = {c, d}
  OBVIOUS
<1>10. Apart(d, c)'
  BY <1>1, <1>4, <1>6, <1>7, <1>9 DEF Apart
<1> QED
  BY <1>8, <1>10

LEMMA ReachInductive ==
  ASSUME TypeInv, OrderInv, MarkInv, CommitInv, ReachInv, [Next]_vars
  PROVE  ReachInv'
<1> SUFFICES ASSUME NEW c \in Launch, NEW d \in Launch, c # d, Placed(c)', Placed(d)', ~Stacked(c, d)',
                    {c, d} \cap blind' = {}
             PROVE  Apart(c, d)'
  BY DEF ReachInv
<1>1. blind \subseteq blind' /\ met \subseteq met'
  BY MetGrows
<1>2. CASE Placed(c) /\ Placed(d)
  <2>1. /\ cmd'[c].ask = cmd[c].ask /\ cmd'[c].base = cmd[c].base
        /\ cmd'[d].ask = cmd[d].ask /\ cmd'[d].base = cmd[d].base
    BY <1>2, PlacedStands
  <2>2. Apart(c, d)
    BY <1>1, <1>2, <2>1 DEF ReachInv, Stacked
  <2>3. /\ ~Overtaken(c)' => ~Overtaken(c)
        /\ ~Heir(c)' => ~Heir(c)
        /\ ~Heir(d)' => ~Heir(d)
    BY <1>2, InheritsStays
  <2> QED
    BY <1>1, <2>1, <2>2, <2>3 DEF Apart
<1>3. CASE ~Placed(d)
  <2>1. PICK base \in commits, missed, unread \in SUBSET Launch :
          CheckAnchor(d, base, missed, unread) /\ cmd'[d].pc = "run"
    BY <1>3, PlacedByCheck
  <2>2. Placed(c)
    <3>1. cmd'[c] = cmd[c] /\ ctr' = ctr
      BY <2>1, CheckAnchorEffect DEF Only, CheckAnchor
    <3> QED
      BY <3>1 DEF Placed, Present
  <2> QED
    BY <2>1, <2>2, CheckedApart
<1>4. CASE ~Placed(c)
  <2>1. PICK base \in commits, missed, unread \in SUBSET Launch :
          CheckAnchor(c, base, missed, unread) /\ cmd'[c].pc = "run"
    BY <1>4, PlacedByCheck
  <2>2. Placed(d)
    <3>1. cmd'[d] = cmd[d] /\ ctr' = ctr
      BY <2>1, CheckAnchorEffect DEF Only, CheckAnchor
    <3> QED
      BY <3>1 DEF Placed, Present
  <2>3. ~Stacked(d, c)'
    BY DEF Stacked
  <2> QED
    BY <2>1, <2>2, <2>3, CheckedApart
<1> QED
  BY <1>2, <1>3, <1>4

LEMMA ReachInvariant == Spec => [](CommitInv /\ ReachInv)
<1>1. ASSUME Init PROVE CommitInv /\ ReachInv
  <2>1. \A l \in Launch : ~Placed(l)
    BY <1>1 DEF Init, Placed, Present
  <2> QED
    BY <1>1, <2>1, LaunchAssumption DEF Init, CommitInv, ReachInv
<1>2. ASSUME TypeInv, OrderInv /\ CapInv, MarkInv, CommitInv /\ ReachInv, [Next]_vars
      PROVE  (CommitInv /\ ReachInv)'
  BY <1>2, CommitsInductive, ReachInductive
<1> QED
  BY <1>1, <1>2, TypeInductive, CapInvariant, MarkInvariant, PTL DEF Spec

\* ReachIsDisjoint: what an anchor check that could see let through cannot come into
\* another's reach later, however containers stop, resume and are torn down
\* (docker.py, assert_anchor_free).  Two launches in progress together may still share
\* a shared tree; stacked tickets, a check with a failed read, and a container that
\* took over the session of another are excepted.
THEOREM ReachStaysDisjoint == Spec => []ReachIsDisjoint
<1>1. ASSUME TypeInv, ReachInv PROVE ReachIsDisjoint
  <2> SUFFICES ASSUME NEW c \in Launch, NEW d \in Launch, c # d, Present(c), Present(d),
                      ~Stacked(c, d), {c, d} \cap blind = {}, ~Inherits(c), ~Inherits(d),
                      Reaches(c, cmd[d].base)
               PROVE  cmd[c].ask.mode = "shared" /\ {c, d} \in met
    BY DEF ReachIsDisjoint
  <2>1. Apart(c, d) /\ ~Overtaken(c) /\ ~Heir(c) /\ ~Heir(d)
    BY <1>1 DEF ReachInv, Placed, Inherits, Overtaken, Heir
  <2>2. cmd[c].ask.mode \in Mode
    BY <1>1, AskKnown DEF TypeInv, CtrInv, CmdInv, AskRecord
  <2> QED
    BY <2>1, <2>2 DEF Apart, Reaches, Above, Mode
<1> QED
  BY <1>1, TypeInductive, ReachInvariant, PTL

=============================================================================
