----------------------------- MODULE ChainProofs -----------------------------
(***************************************************************************)
(* Theorems about Chain, for any number of commands, any chain files,        *)
(* anchors and steps, and any number of faults.                              *)
(*                                                                         *)
(* RunOK says how far a run has come by its own record: every step of a run  *)
(* replaces that record by another that is in order, so the invariant needs  *)
(* one lemma for each way of making a record (Begun, Save, Collect).         *)
(***************************************************************************)
EXTENDS Chain, FiniteSetTheorems, SequenceTheorems, TLAPS

RunRecord ==
  [pc : {"none", "boot", "init", "launch", "wait", "advance", "end", "ended", "dead"},
   attached : BOOLEAN, doc : Docs \cup {<<>>}, anchor : Anchors \cup {{}}, item : Nat,
   fed : SUBSET Step, seen : SUBSET Step, launched : Nat, got : Nat, failed : BOOLEAN,
   outcome : {"none", "launch", "failed", "interrupted", "success"}]

FileRecord ==
  [status : {"none", "running", "success", "failed"},
   pid : Run \cup {NoPid}, doc : Docs \cup {<<>>}, anchor : Anchors \cup {{}}]

CmdRecord ==
  [pc : {"idle", "gc", "spawn", "record", "done"},
   doc : Docs \cup {<<>>}, anchor : Anchors \cup {{}}]

\* A chain that validate_chain has accepted, and a pinned anchor.
Accepted(doc, anchor) == doc \in Docs /\ Valid(doc) /\ anchor \in Anchors

\* How far the run has come: where its item is, what was launched and awaited.
Counts(x) ==
  /\ x.pc \notin {"none", "boot", "dead"} =>
       Accepted(x.doc, x.anchor) /\ x.item \in DOMAIN x.doc
  /\ x.pc \in {"none", "boot", "init", "dead"} =>
       x.item = 1 /\ x.launched = 0 /\ x.got = 0 /\ x.fed = {} /\ x.seen = {}
  /\ x.pc = "boot" => x.attached = FALSE
  /\ x.got <= x.launched
  /\ x.pc = "launch" => x.got = 0 /\ x.launched < Len(x.doc[x.item].steps)
  /\ x.pc = "wait" => /\ x.launched = Len(x.doc[x.item].steps)
                      /\ x.got < Len(x.doc[x.item].steps)
  /\ x.pc = "advance" => x.got = x.launched /\ x.launched = Len(x.doc[x.item].steps)
  /\ x.pc \notin {"end", "ended"} => x.outcome = "none"

\* What an item is fed is what each of its steps wants, unless it is overlooked.
Whole(doc, i, fed) ==
  \A k \in DOMAIN doc[i].steps : Overlooked(doc, i, k) \/ fed = Wanted(doc, i, k)

\* What the run has seen and what its brief carries.
Briefed(x) ==
  /\ x.fed \subseteq x.seen
  /\ x.pc \in {"launch", "wait", "advance"} =>
       Whole(x.doc, x.item, x.fed) /\ Before(x.doc, x.item) \subseteq x.seen
  /\ x.pc = "wait" => \A k \in 1..x.got : x.doc[x.item].steps[k].name \in x.seen
  /\ x.pc = "advance" => Names(x.doc[x.item]) \subseteq x.seen

RunOK(x) == x \in RunRecord /\ Counts(x) /\ Briefed(x)

FileOK(f) == f \in FileRecord /\ (f # NoFile => Accepted(f.doc, f.anchor))

HostInv ==
  /\ FileOK(file)
  /\ cmd \in [Run -> CmdRecord]
  /\ \A r \in Run : cmd[r].pc \notin {"idle", "done"} => Accepted(cmd[r].doc, cmd[r].anchor)

RunInv == run \in [Run -> RunRecord] /\ \A r \in Run : RunOK(run[r])

StoreInv ==
  /\ branch \in Commit
  /\ mark \in [Session -> [at : Commit, summary : {"none", "success", "failed"}]]
  /\ ctr \in [Session -> [phase : {"none", "boot", "work"}, base : Commit, by : Run \cup {NoPid}]]
  /\ spaces \subseteq Session
  /\ raced \in BOOLEAN /\ entangled \subseteq Run /\ lied \subseteq Run /\ faults \in 0..Faults

TypeInv == HostInv /\ RunInv /\ StoreInv

-----------------------------------------------------------------------------
(* Chain files and run records *)

\* An accepted chain has an item, every item a step.
LEMMA DocShape ==
  ASSUME NEW doc, NEW anchor, Accepted(doc, anchor)
  PROVE  /\ doc \in Seq(Item) /\ 1 \in DOMAIN doc /\ Len(doc) \in Nat
         /\ \A i \in DOMAIN doc :
              /\ i \in Nat
              /\ doc[i].steps \in Seq([name : Step, inputs : SUBSET Step])
              /\ Len(doc[i].steps) \in Nat /\ 1 \in DOMAIN doc[i].steps
              /\ ~doc[i].parallel => DOMAIN doc[i].steps = {1}
              /\ \A k \in DOMAIN doc[i].steps : /\ doc[i].steps[k].name \in Step
                                                /\ doc[i].steps[k].inputs \subseteq Before(doc, i)
<1>1. doc \in Seq(Item) /\ doc # <<>>
  BY ChainAssumption DEF Accepted, Valid
<1>2. ASSUME NEW i \in DOMAIN doc
      PROVE  /\ doc[i].steps \in Seq([name : Step, inputs : SUBSET Step])
             /\ doc[i].steps # <<>>
             /\ doc[i].parallel \/ Len(doc[i].steps) = 1
             /\ \A k \in DOMAIN doc[i].steps : doc[i].steps[k].inputs \subseteq Before(doc, i)
  <2>1. doc[i] \in Item
    BY <1>1
  <2> QED
    BY <2>1 DEF Accepted, Valid, Item
<1>3. ASSUME NEW s \in Seq([name : Step, inputs : SUBSET Step]), s # <<>>
      PROVE  /\ Len(s) \in Nat /\ 1 \in DOMAIN s /\ \A k \in DOMAIN s : s[k].name \in Step
             /\ Len(s) = 1 => DOMAIN s = {1}
  <2>1. Len(s) \in Nat /\ DOMAIN s = 1..Len(s) /\ Len(s) # 0
    BY <1>3
  <2>2. ASSUME NEW k \in DOMAIN s PROVE s[k].name \in Step
    <3>1. s[k] \in [name : Step, inputs : SUBSET Step]
      BY ElementOfSeq, <2>1
    <3> QED
      BY <3>1
  <2> QED
    BY <2>1, <2>2
<1>4. 1 \in DOMAIN doc /\ Len(doc) \in Nat /\ DOMAIN doc = 1..Len(doc)
  BY <1>1
<1>5. ASSUME NEW i \in DOMAIN doc
      PROVE  /\ i \in Nat
             /\ doc[i].steps \in Seq([name : Step, inputs : SUBSET Step])
             /\ Len(doc[i].steps) \in Nat /\ 1 \in DOMAIN doc[i].steps
             /\ ~doc[i].parallel => DOMAIN doc[i].steps = {1}
             /\ \A k \in DOMAIN doc[i].steps : /\ doc[i].steps[k].name \in Step
                                               /\ doc[i].steps[k].inputs \subseteq Before(doc, i)
  <2>1. i \in Nat
    BY <1>4
  <2>2. /\ doc[i].steps \in Seq([name : Step, inputs : SUBSET Step])
        /\ doc[i].steps # <<>>
        /\ doc[i].parallel \/ Len(doc[i].steps) = 1
        /\ \A k \in DOMAIN doc[i].steps : doc[i].steps[k].inputs \subseteq Before(doc, i)
    BY <1>2
  <2>3. /\ Len(doc[i].steps) \in Nat /\ 1 \in DOMAIN doc[i].steps
        /\ \A k \in DOMAIN doc[i].steps : doc[i].steps[k].name \in Step
    BY <1>3, <2>2
  <2> QED
    BY <2>1, <2>2, <2>3
<1> QED
  BY <1>1, <1>4, <1>5

\* Every step of an accepted chain has a session.
LEMMA SessionKnown ==
  ASSUME NEW doc \in Docs, NEW i \in DOMAIN doc, NEW k \in DOMAIN doc[i].steps
  PROVE  SessionOf(doc, i, k) \in Session
BY DEF Session, Sessions

\* Of what is wanted, a brief carries what has been seen; with every earlier
\* output seen, all of it.
LEMMA BriefComplete ==
  ASSUME NEW doc, NEW anchor, Accepted(doc, anchor), NEW i \in DOMAIN doc, NEW seen
  PROVE  /\ PriorOutputs(doc, i, seen) \subseteq seen
         /\ Before(doc, i) \subseteq seen => Whole(doc, i, PriorOutputs(doc, i, seen))
<1>1. /\ 1 \in DOMAIN doc[i].steps /\ doc[i].steps[1].inputs \subseteq Before(doc, i)
      /\ ~doc[i].parallel => DOMAIN doc[i].steps = {1}
  BY DocShape
<1>2. i # 1 => Names(doc[i - 1]) \subseteq Before(doc, i)
  <2>1. i \in Nat /\ i >= 1
    BY DocShape
  <2> QED
    BY <2>1 DEF Before
<1> QED
  BY <1>1, <1>2 DEF PriorOutputs, Whole, Overlooked, Wanted

LEMMA BeforeNext ==
  ASSUME NEW doc, NEW i \in Nat, i >= 1
  PROVE  Before(doc, i + 1) = Before(doc, i) \cup Names(doc[i])
<1>1. 1..((i + 1) - 1) = (1..(i - 1)) \cup {i}
  OBVIOUS
<1> QED
  BY <1>1 DEF Before

\* Beginning an item with every earlier output seen leaves the run in order.
LEMMA BegunOK ==
  ASSUME NEW x \in RunRecord, Accepted(x.doc, x.anchor), NEW i \in DOMAIN x.doc,
         Before(x.doc, i) \subseteq x.seen, x.outcome = "none"
  PROVE  RunOK(Begun(x, i))
<1> DEFINE new == Begun(x, i)
<1>1. i \in Nat /\ Len(x.doc[i].steps) \in Nat /\ 0 < Len(x.doc[i].steps)
  BY DocShape
<1>2. /\ PriorOutputs(x.doc, i, x.seen) \subseteq x.seen
      /\ Whole(x.doc, i, PriorOutputs(x.doc, i, x.seen))
  BY BriefComplete
<1>3. /\ new.pc = "launch" /\ new.item = i /\ new.launched = 0 /\ new.got = 0
      /\ new.fed = PriorOutputs(x.doc, i, x.seen) /\ new.seen = x.seen /\ new.doc = x.doc
      /\ new.anchor = x.anchor /\ new.outcome = "none"
  BY <1>2 DEF Begun, RunRecord
<1>4. new \in RunRecord
  BY <1>1, <1>2 DEF Begun, RunRecord
<1>5. Counts(new)
  BY <1>1, <1>3 DEF Counts
<1>6. Briefed(new)
  <2>1. Whole(new.doc, new.item, new.fed)
    BY <1>2, <1>3 DEF Whole
  <2> HIDE DEF new
  <2> QED
    BY <1>2, <1>3, <2>1 DEF Briefed
<1> QED
  BY <1>4, <1>5, <1>6 DEF RunOK

-----------------------------------------------------------------------------
(* Ways of changing a run record *)

LEMMA PutOK ==
  ASSUME RunInv, NEW r \in Run, NEW new, RunOK(new), run' = [run EXCEPT ![r] = new]
  PROVE  RunInv'
<1>1. new \in RunRecord
  BY DEF RunOK
<1>2. run' \in [Run -> RunRecord]
  BY <1>1 DEF RunInv
<1>3. ASSUME NEW q \in Run PROVE RunOK(run'[q])
  <2>1. run'[q] = IF q = r THEN new ELSE run[q]
    BY DEF RunInv
  <2> QED
    BY <2>1 DEF RunInv
<1> QED
  BY <1>2, <1>3 DEF RunInv

LEMMA FreshOK == RunOK(NoRun)
BY DEF RunOK, NoRun, RunRecord, Counts, Briefed

LEMMA DeadOK ==
  ASSUME RunInv, NEW r \in Run
  PROVE  RunOK(Dead(r))
<1>1. run[r].attached \in BOOLEAN /\ NoRun \in RunRecord
  BY FreshOK DEF RunInv, RunRecord, RunOK
<1>2. Dead(r) \in RunRecord
  BY <1>1 DEF Dead, RunRecord
<1>3. /\ Dead(r).pc = "dead" /\ Dead(r).item = 1 /\ Dead(r).launched = 0 /\ Dead(r).got = 0
      /\ Dead(r).fed = {} /\ Dead(r).seen = {} /\ Dead(r).outcome = "none"
  BY DEF Dead, NoRun
<1> QED
  BY <1>2, <1>3 DEF RunOK, Counts, Briefed

\* Saving a run leaves it in order or dead, and the file with an accepted chain.
LEMMA SaveOK ==
  ASSUME RunInv, FileOK(file), NEW r \in Run, NEW new, RunOK(new),
         new.pc \notin {"none", "boot", "dead"}, Save(r, new)
  PROVE  RunInv' /\ FileOK(file')
<1>1. Accepted(new.doc, new.anchor)
  BY DEF RunOK, Counts
<1>2. FileOK(State(r, new))
  BY <1>1 DEF FileOK, State, FileRecord, Accepted
<1>3. RunOK(Dead(r))
  BY DeadOK
<1>4. /\ run' = [run EXCEPT ![r] = new] \/ run' = [run EXCEPT ![r] = Dead(r)]
      /\ file' = file \/ file' = State(r, new)
  BY DEF Save
<1>5. RunInv'
  BY <1>3, <1>4, PutOK
<1> QED
  BY <1>2, <1>4, <1>5

\* What has been awaited has been seen, so with the last result all of the item is.
LEMMA ItemSeen ==
  ASSUME NEW x, RunOK(x), x.pc = "wait"
  PROVE  LET step == x.doc[x.item].steps[x.got + 1]
         IN  /\ x.got + 1 \in DOMAIN x.doc[x.item].steps
             /\ step.name \in Step
             /\ x.got + 1 = Len(x.doc[x.item].steps) =>
                  Names(x.doc[x.item]) \subseteq x.seen \cup {step.name}
<1>1. /\ Accepted(x.doc, x.anchor) /\ x.item \in DOMAIN x.doc
      /\ x.got \in Nat /\ x.got < Len(x.doc[x.item].steps)
      /\ \A k \in 1..x.got : x.doc[x.item].steps[k].name \in x.seen
  BY DEF RunOK, Counts, Briefed, RunRecord
<1>2. /\ x.doc[x.item].steps \in Seq([name : Step, inputs : SUBSET Step])
      /\ Len(x.doc[x.item].steps) \in Nat
      /\ \A k \in DOMAIN x.doc[x.item].steps : x.doc[x.item].steps[k].name \in Step
  BY <1>1, DocShape
<1>3. DOMAIN x.doc[x.item].steps = 1..Len(x.doc[x.item].steps)
  BY <1>2
<1>4. x.got + 1 \in DOMAIN x.doc[x.item].steps
  BY <1>1, <1>2, <1>3
<1>5. ASSUME x.got + 1 = Len(x.doc[x.item].steps), NEW k \in DOMAIN x.doc[x.item].steps
      PROVE  x.doc[x.item].steps[k].name \in x.seen \cup {x.doc[x.item].steps[x.got + 1].name}
  <2>1. k \in 1..x.got \/ k = x.got + 1
    BY <1>1, <1>2, <1>3, <1>5
  <2> QED
    BY <1>1, <2>1
<1> QED
  BY <1>2, <1>4, <1>5 DEF Names

LEMMA CollectOK ==
  ASSUME RunInv, FileOK(file), NEW r \in Run, NEW status, run[r].pc = "wait", Collect(r, status)
  PROVE  RunInv' /\ FileOK(file')
<1> DEFINE x == run[r]
           step == Current(r).steps[x.got + 1]
           new == [x EXCEPT !.got = @ + 1, !.failed = @ \/ status \notin Ok,
                            !.seen = @ \cup {step.name}]
           all == Len(Current(r).steps)
<1>1. RunOK(x) /\ x \in RunRecord
  BY DEF RunInv, RunOK
<1>2. Accepted(x.doc, x.anchor) /\ x.item \in DOMAIN x.doc /\ x.launched = all /\ x.got < all
  BY <1>1 DEF RunOK, Counts, Current
<1>3. /\ x.got + 1 \in DOMAIN Current(r).steps /\ step.name \in Step
      /\ x.got + 1 = all => Names(Current(r)) \subseteq x.seen \cup {step.name}
  BY <1>1, ItemSeen DEF Current
<1>4. all \in Nat /\ x.got \in Nat
  BY <1>1, <1>2, DocShape DEF Current, RunRecord
<1>5. /\ new \in RunRecord /\ new.got = x.got + 1 /\ new.seen = x.seen \cup {step.name}
      /\ new.doc = x.doc /\ new.anchor = x.anchor /\ new.item = x.item /\ new.fed = x.fed
      /\ new.launched = x.launched /\ new.pc = "wait" /\ new.outcome = x.outcome
  <2>1. (x.failed \/ status \notin Ok) \in BOOLEAN /\ x.got + 1 \in Nat
    BY <1>4
  <2>2. x.seen \cup {step.name} \in SUBSET Step
    BY <1>1, <1>3 DEF RunRecord
  <2> QED
    BY <1>1, <2>1, <2>2 DEF RunRecord
<1> HIDE DEF new
<1>6. CASE new.got < all
  <2>1. Counts(new)
    BY <1>1, <1>2, <1>4, <1>5, <1>6 DEF RunOK, Counts, Current
  <2>2. ASSUME NEW k \in 1..new.got PROVE new.doc[new.item].steps[k].name \in new.seen
    <3>1. k \in 1..x.got \/ k = x.got + 1
      BY <1>4, <1>5
    <3> QED
      BY <1>1, <1>5, <3>1 DEF RunOK, Briefed, Current
  <2>3. Briefed(new)
    BY <1>1, <1>5, <2>2 DEF RunOK, Briefed
  <2>4. run' = [run EXCEPT ![r] = new] /\ file' = file
    BY <1>6 DEF Collect, new
  <2> QED
    BY <1>5, <2>1, <2>3, <2>4, PutOK DEF RunOK
<1>7. CASE ~(new.got < all)
  <2>1. new.got = all
    BY <1>2, <1>4, <1>5, <1>7
  <2> DEFINE over == [new EXCEPT !.pc = "end", !.outcome = "failed"]
             kept == [new EXCEPT !.pc = "advance"]
  <2>2. /\ over \in RunRecord /\ over.doc = x.doc /\ over.anchor = x.anchor
        /\ over.item = x.item /\ over.got = all /\ over.launched = all /\ over.pc = "end"
        /\ over.fed = x.fed /\ over.seen = new.seen
    BY <1>2, <1>5, <2>1 DEF RunRecord
  <2>4. /\ kept \in RunRecord /\ kept.doc = x.doc /\ kept.anchor = x.anchor
        /\ kept.item = x.item /\ kept.got = all /\ kept.launched = all
        /\ kept.pc = "advance" /\ kept.fed = x.fed /\ kept.seen = new.seen
        /\ kept.outcome = x.outcome
    <3>1. /\ kept \in RunRecord /\ kept.doc = new.doc /\ kept.anchor = new.anchor
          /\ kept.item = new.item /\ kept.got = new.got /\ kept.launched = new.launched
          /\ kept.pc = "advance" /\ kept.fed = new.fed /\ kept.seen = new.seen
          /\ kept.outcome = new.outcome
      BY <1>5 DEF RunRecord
    <3> QED
      BY <1>2, <1>5, <2>1, <3>1
  <2>5. Names(x.doc[x.item]) \subseteq kept.seen
    BY <1>3, <1>5, <2>1, <2>4 DEF Current
  <2>6. Save(r, over) \/ Save(r, kept)
    BY <1>7 DEF Collect, new
  <2> HIDE DEF over, kept
  <2>7. RunOK(over)
    <3>1. Counts(over)
      BY <1>1, <1>2, <1>4, <2>2 DEF Counts
    <3>2. Briefed(over)
      BY <1>1, <1>5, <2>2 DEF RunOK, Briefed
    <3> QED
      BY <2>2, <3>1, <3>2 DEF RunOK
  <2>8. RunOK(kept)
    <3>1. Counts(kept)
      BY <1>1, <1>2, <1>4, <2>4 DEF RunOK, Counts
    <3>2. Briefed(kept)
      BY <1>1, <1>5, <2>4, <2>5 DEF RunOK, Briefed
    <3> QED
      BY <2>4, <3>1, <3>2 DEF RunOK
  <2> QED
    BY <2>2, <2>4, <2>6, <2>7, <2>8, SaveOK
<1> QED
  BY <1>6, <1>7

-----------------------------------------------------------------------------
(* The type invariant, one lemma for the command, one for each step of a run *)

LEMMA TypeInit == Init => TypeInv
<1> SUFFICES ASSUME Init PROVE TypeInv
  OBVIOUS
<1>1. RunInv
  BY FreshOK DEF Init, RunInv, RunOK
<1>2. HostInv
  BY DEF Init, HostInv, FileOK, FileRecord, CmdRecord, NoFile
<1>3. StoreInv
  <2>1. {} \in Commit /\ 0 \in 0..Faults
    BY ChainAssumption DEF Commit
  <2>2. NoMark \in [at : Commit, summary : {"none", "success", "failed"}]
    BY <2>1 DEF NoMark
  <2>3. NoContainer \in [phase : {"none", "boot", "work"}, base : Commit, by : Run \cup {NoPid}]
    BY <2>1 DEF NoContainer
  <2> QED
    BY <2>1, <2>2, <2>3 DEF Init, StoreInv
<1> QED
  BY <1>1, <1>2, <1>3 DEF TypeInv

LEMMA TypeCommand ==
  ASSUME TypeInv, NEW r \in Run,
         \/ \E doc \in Docs, anchor \in Anchors : Start(r, doc, anchor) \/ StartAttached(r, doc, anchor)
         \/ Command(r)
  PROVE  HostInv' /\ RunInv'
<1> USE DEF TypeInv
<1>1. ASSUME NEW doc \in Docs, NEW anchor \in Anchors, Start(r, doc, anchor)
      PROVE  HostInv' /\ RunInv'
  <2>1. Accepted(doc, anchor)
    BY <1>1 DEF Start, Accepted
  <2>2. HostInv'
    BY <1>1, <2>1 DEF Start, HostInv, CmdRecord
  <2> QED
    BY <1>1, <2>2 DEF Start, RunInv
<1>2. ASSUME NEW doc \in Docs, NEW anchor \in Anchors, StartAttached(r, doc, anchor)
      PROVE  HostInv' /\ RunInv'
  <2> DEFINE new == [NoRun EXCEPT !.pc = "init", !.attached = TRUE, !.doc = doc, !.anchor = anchor]
  <2>1. Accepted(doc, anchor) /\ 1 \in DOMAIN doc
    BY <1>2, DocShape DEF StartAttached, Accepted
  <2>2. NoRun \in RunRecord /\ doc \in Docs
    BY <2>1, FreshOK DEF RunOK, Accepted
  <2>3. new \in RunRecord
    BY <2>2 DEF RunRecord
  <2>4. /\ new.pc = "init" /\ new.doc = doc /\ new.anchor = anchor /\ new.item = 1
        /\ new.launched = 0 /\ new.got = 0 /\ new.fed = {} /\ new.seen = {} /\ new.outcome = "none"
    BY DEF NoRun
  <2>5. RunOK(new)
    BY <2>1, <2>3, <2>4 DEF RunOK, Counts, Briefed
  <2>6. RunInv'
    BY <1>2, <2>5, PutOK DEF StartAttached
  <2>7. HostInv'
    BY <1>2 DEF StartAttached, HostInv, CmdRecord
  <2> QED
    BY <2>6, <2>7
<1>3. CASE GcOrRefuse(r)
  BY <1>3 DEF GcOrRefuse, HostInv, FileOK, FileRecord, CmdRecord, NoFile, RunInv
<1>4. CASE Spawn(r)
  <2>1. Accepted(cmd[r].doc, cmd[r].anchor)
    BY <1>4 DEF Spawn, HostInv
  <2>2. FileOK(file')
    BY <1>4, <2>1 DEF Spawn, InitialState, FileOK, FileRecord, Accepted
  <2>3. HostInv'
    BY <1>4, <2>2 DEF Spawn, HostInv, CmdRecord
  <2>4. RunOK([NoRun EXCEPT !.pc = "boot"])
    <3> DEFINE new == [NoRun EXCEPT !.pc = "boot"]
    <3>1. new \in RunRecord
      BY FreshOK DEF RunOK, RunRecord
    <3>2. /\ new.pc = "boot" /\ new.attached = FALSE /\ new.item = 1 /\ new.launched = 0
          /\ new.got = 0 /\ new.fed = {} /\ new.seen = {} /\ new.outcome = "none"
      BY DEF NoRun
    <3> QED
      BY <3>1, <3>2 DEF RunOK, Counts, Briefed
  <2> QED
    BY <1>4, <2>3, <2>4, PutOK DEF Spawn
<1>5. CASE RecordPid(r)
  <2>1. Accepted(cmd[r].doc, cmd[r].anchor)
    BY <1>5 DEF RecordPid, HostInv
  <2>2. FileOK(InitialState(r, r)) /\ FileOK(NoFile)
    BY <2>1 DEF InitialState, FileOK, FileRecord, Accepted, NoFile
  <2>3. HostInv'
    BY <1>5, <2>2 DEF RecordPid, HostInv, CmdRecord
  <2> QED
    BY <1>5, <2>3 DEF RecordPid, RunInv
<1> QED
  BY <1>1, <1>2, <1>3, <1>4, <1>5 DEF Command

LEMMA TypeBoot ==
  ASSUME TypeInv, NEW r \in Run, Boot(r)
  PROVE  RunInv' /\ FileOK(file')
<1> DEFINE x == run[r]
           new == [x EXCEPT !.pc = "init", !.doc = file.doc, !.anchor = file.anchor]
<1>1. RunOK(x) /\ x.pc = "boot" /\ x.attached = FALSE /\ Save(r, new) /\ FileOK(file)
  BY DEF TypeInv, HostInv, RunInv, Boot, RunOK, Counts
<1>2. CASE file = NoFile
  <2>1. new.attached = FALSE
    BY <1>1 DEF RunOK, RunRecord
  <2>2. run' = [run EXCEPT ![r] = Dead(r)] /\ file' = file
    BY <1>1, <1>2, <2>1 DEF Save
  <2> QED
    BY <1>1, <2>2, DeadOK, PutOK DEF TypeInv
<1>3. CASE file # NoFile
  <2>1. Accepted(file.doc, file.anchor) /\ 1 \in DOMAIN file.doc
    BY <1>1, <1>3, DocShape DEF FileOK
  <2>2. /\ new \in RunRecord /\ new.pc = "init" /\ new.doc = file.doc /\ new.anchor = file.anchor
        /\ new.item = x.item /\ new.launched = x.launched /\ new.got = x.got
        /\ new.fed = x.fed /\ new.seen = x.seen /\ new.outcome = x.outcome
    BY <1>1, <2>1 DEF RunOK, RunRecord, Accepted
  <2> HIDE DEF new
  <2>3. RunOK(new)
    BY <1>1, <2>1, <2>2 DEF RunOK, Counts, Briefed
  <2> QED
    BY <1>1, <2>2, <2>3, SaveOK DEF TypeInv
<1> QED
  BY <1>2, <1>3

LEMMA TypeInitialise ==
  ASSUME TypeInv, NEW r \in Run, InitialiseBranch(r)
  PROVE  RunInv' /\ FileOK(file')
<1> DEFINE x == run[r]
<1>1. RunOK(x) /\ x.pc = "init" /\ Save(r, Begun(x, 1)) /\ FileOK(file) /\ RunInv
  BY DEF TypeInv, HostInv, RunInv, InitialiseBranch
<1>2. x \in RunRecord /\ Accepted(x.doc, x.anchor) /\ x.outcome = "none" /\ 1 \in DOMAIN x.doc
  BY <1>1, DocShape DEF RunOK, Counts
<1>3. Before(x.doc, 1) = {}
  <2>1. 1..(1 - 1) = {}
    OBVIOUS
  <2> QED
    BY <2>1 DEF Before
<1>4. RunOK(Begun(x, 1)) /\ Begun(x, 1).pc = "launch"
  BY <1>2, <1>3, BegunOK DEF Begun, RunRecord
<1> QED
  BY <1>1, <1>4, SaveOK

LEMMA TypeLaunch ==
  ASSUME TypeInv, NEW r \in Run, Launch(r)
  PROVE  RunInv' /\ FileOK(file')
<1> DEFINE x == run[r]
           all == Len(Current(r).steps)
           ended == [x EXCEPT !.pc = "end", !.outcome = "launch"]
           more == [x EXCEPT !.launched = x.launched + 1,
                             !.pc = IF x.launched + 1 = all THEN "wait" ELSE "launch"]
<1>1. /\ RunOK(x) /\ x \in RunRecord /\ x.pc = "launch" /\ FileOK(file) /\ RunInv
      /\ run \in [Run -> RunRecord] /\ file' = file
  BY DEF TypeInv, HostInv, RunInv, RunOK, Launch, host
<1>2. /\ Accepted(x.doc, x.anchor) /\ x.item \in DOMAIN x.doc /\ x.got = 0
      /\ x.launched \in Nat /\ x.launched < all /\ x.outcome = "none"
  BY <1>1 DEF RunOK, RunRecord, Counts, Current
<1>3. all \in Nat
  BY <1>2, DocShape DEF Current
<1>4. run' = [run EXCEPT ![r] = ended] \/ run' = [run EXCEPT ![r] = more]
  BY <1>1 DEF Launch
<1>5. RunOK(ended)
  <2>1. /\ ended \in RunRecord /\ ended.pc = "end" /\ ended.got = x.got /\ ended.seen = x.seen
        /\ ended.doc = x.doc /\ ended.anchor = x.anchor /\ ended.item = x.item
        /\ ended.fed = x.fed /\ ended.launched = x.launched
    BY <1>1 DEF RunRecord
  <2> HIDE DEF ended
  <2> QED
    BY <1>1, <2>1 DEF RunOK, Counts, Briefed
<1>6. RunOK(more)
  <2>1. x.launched + 1 \in Nat
    BY <1>2
  <2>2. /\ more \in RunRecord /\ more.got = x.got /\ more.seen = x.seen
        /\ more.doc = x.doc /\ more.anchor = x.anchor /\ more.item = x.item
        /\ more.fed = x.fed /\ more.launched = x.launched + 1 /\ more.outcome = x.outcome
        /\ more.pc = IF x.launched + 1 = all THEN "wait" ELSE "launch"
    BY <1>1, <2>1 DEF RunRecord
  <2> HIDE DEF more
  <2>3. Counts(more)
    BY <1>1, <1>2, <1>3, <2>2 DEF RunOK, Counts, Current
  <2>4. Briefed(more)
    BY <1>1, <1>2, <2>2 DEF RunOK, Briefed
  <2> QED
    BY <2>2, <2>3, <2>4 DEF RunOK
<1> QED
  BY <1>1, <1>4, <1>5, <1>6, PutOK

LEMMA TypeAdvance ==
  ASSUME TypeInv, NEW r \in Run, AdvanceBranch(r)
  PROVE  RunInv' /\ FileOK(file')
<1> DEFINE x == run[r]
           ended(outcome) == [x EXCEPT !.pc = "end", !.outcome = outcome]
<1>1. /\ RunOK(x) /\ x \in RunRecord /\ x.pc = "advance" /\ FileOK(file) /\ RunInv
      /\ run \in [Run -> RunRecord]
  BY DEF TypeInv, HostInv, RunInv, RunOK, AdvanceBranch
<1>2. /\ Accepted(x.doc, x.anchor) /\ x.item \in DOMAIN x.doc /\ x.outcome = "none"
      /\ Names(x.doc[x.item]) \subseteq x.seen /\ Before(x.doc, x.item) \subseteq x.seen
  BY <1>1 DEF RunOK, Counts, Briefed
<1>3. ASSUME NEW outcome \in {"failed", "success"} PROVE RunOK(ended(outcome))
  <2> DEFINE new == ended(outcome)
  <2>1. /\ new \in RunRecord /\ new.pc = "end" /\ new.got = x.got /\ new.seen = x.seen
        /\ new.doc = x.doc /\ new.anchor = x.anchor /\ new.item = x.item
        /\ new.fed = x.fed /\ new.launched = x.launched
    BY <1>1 DEF RunRecord
  <2> HIDE DEF new
  <2>2. RunOK(new)
    BY <1>1, <2>1 DEF RunOK, Counts, Briefed
  <2> QED
    BY <2>2 DEF new
<1>4. CASE \E outcome \in {"failed", "success"} :
             run' = [run EXCEPT ![r] = ended(outcome)] /\ file' = file
  BY <1>1, <1>3, <1>4, PutOK
<1>5. CASE x.item # Len(x.doc) /\ Save(r, Begun(x, x.item + 1))
  <2>1. x.item \in Nat /\ x.item >= 1 /\ x.item + 1 \in DOMAIN x.doc
    BY <1>2, <1>5, DocShape
  <2>2. Before(x.doc, x.item + 1) \subseteq x.seen
    BY <1>2, <2>1, BeforeNext
  <2>3. RunOK(Begun(x, x.item + 1)) /\ Begun(x, x.item + 1).pc = "launch"
    BY <1>1, <1>2, <2>1, <2>2, BegunOK DEF Begun, RunRecord
  <2> QED
    BY <1>1, <1>5, <2>3, SaveOK
<1> QED
  BY <1>1, <1>4, <1>5 DEF AdvanceBranch

LEMMA TypeEnd ==
  ASSUME TypeInv, NEW r \in Run, End(r)
  PROVE  RunInv' /\ FileOK(file')
<1> DEFINE x == run[r]
           new == [x EXCEPT !.pc = "ended", !.item = 1, !.fed = {}, !.seen = {}, !.launched = 0,
                     !.got = 0, !.failed = FALSE,
                     !.outcome = IF x.outcome = "success" THEN x.outcome ELSE "failed"]
<1>1. RunOK(x) /\ x \in RunRecord /\ x.pc = "end" /\ FileOK(file) /\ RunInv /\ Save(r, new)
  BY DEF TypeInv, HostInv, RunInv, RunOK, End
<1>2. Accepted(x.doc, x.anchor) /\ 1 \in DOMAIN x.doc
  BY <1>1, DocShape DEF RunOK, Counts
<1>3. /\ new \in RunRecord /\ new.pc = "ended" /\ new.item = 1 /\ new.fed = {}
      /\ new.launched = 0 /\ new.got = 0 /\ new.doc = x.doc /\ new.anchor = x.anchor
  BY <1>1 DEF RunRecord
<1> HIDE DEF new
<1>4. RunOK(new)
  BY <1>2, <1>3 DEF RunOK, Counts, Briefed
<1> QED
  BY <1>1, <1>3, <1>4, SaveOK

LEMMA TypeRunner ==
  ASSUME TypeInv, NEW r \in Run, Runner(r) \/ Interrupt(r) \/ Kill(r)
  PROVE  HostInv' /\ RunInv'
<1>1. CASE AgentGone(r) \/ PsFails(r) \/ \E stopped \in BOOLEAN : TimeOut(r, stopped)
  <2>1. PICK status : Collect(r, status)
    BY <1>1 DEF AgentGone, PsFails, TimeOut
  <2>2. run[r].pc = "wait" /\ cmd' = cmd
    BY <1>1 DEF AgentGone, PsFails, TimeOut
  <2>3. RunInv' /\ FileOK(file')
    BY <2>1, <2>2, CollectOK DEF TypeInv, HostInv
  <2> QED
    BY <2>2, <2>3 DEF TypeInv, HostInv
<1>2. CASE Interrupt(r)
  <2> DEFINE x == run[r]
             new == [x EXCEPT !.pc = "end", !.outcome = "interrupted"]
  <2>1. /\ RunOK(x) /\ x \in RunRecord /\ x.pc \in {"launch", "wait", "advance"}
        /\ RunInv /\ run' = [run EXCEPT ![r] = new] /\ file' = file /\ cmd' = cmd
    BY <1>2 DEF TypeInv, RunInv, RunOK, Interrupt, host
  <2>2. /\ new \in RunRecord /\ new.pc = "end" /\ new.got = x.got /\ new.seen = x.seen
        /\ new.doc = x.doc /\ new.anchor = x.anchor /\ new.item = x.item
        /\ new.fed = x.fed /\ new.launched = x.launched
    BY <2>1 DEF RunRecord
  <2> HIDE DEF new
  <2>3. RunOK(new)
    BY <2>1, <2>2 DEF RunOK, Counts, Briefed
  <2> QED
    BY <2>1, <2>3, PutOK DEF TypeInv, HostInv
<1>3. CASE Kill(r)
  BY <1>3, DeadOK, PutOK DEF TypeInv, HostInv, Kill, host
<1>4. CASE Boot(r) \/ InitialiseBranch(r) \/ Launch(r) \/ AdvanceBranch(r) \/ End(r)
  <2>1. cmd' = cmd
    BY <1>4 DEF Boot, InitialiseBranch, Launch, AdvanceBranch, End, host
  <2> QED
    BY <1>4, <2>1, TypeBoot, TypeInitialise, TypeLaunch, TypeAdvance, TypeEnd DEF TypeInv, HostInv
<1> QED
  BY <1>1, <1>2, <1>3, <1>4 DEF Runner

-----------------------------------------------------------------------------
(* The store and the containers *)

\* Where the bookmarks and containers are with respect to the chain branch.
DescentInv ==
  /\ \A s \in Session : mark[s].at \subseteq branch \cup {s} /\ ctr[s].base \subseteq branch
  /\ SuccessDescends

LEMMA Faulted ==
  ASSUME faults \in 0..Faults, Fault \/ faults' = faults
  PROVE  faults' \in 0..Faults
BY ChainAssumption DEF Fault

LEMMA StoreCommand ==
  ASSUME TypeInv, DescentInv, NEW r \in Run,
         \/ \E doc \in Docs, anchor \in Anchors : Start(r, doc, anchor) \/ StartAttached(r, doc, anchor)
         \/ Command(r)
  PROVE  StoreInv' /\ DescentInv' /\ branch' = branch
<1>1. StoreInv /\ RunInv /\ run \in [Run -> RunRecord]
  BY DEF TypeInv, RunInv
<1>2. UNCHANGED <<store, ctr, lied, faults>> /\ raced' \in BOOLEAN /\ entangled' \subseteq Run
  BY <1>1 DEF Start, Meets, StartAttached, Command, GcOrRefuse, Spawn, RecordPid, bounded, StoreInv
<1>3. StoreInv'
  BY <1>1, <1>2 DEF StoreInv, store
<1>4. ASSUME NEW q \in Run, run'[q].outcome = "success"
      PROVE  run[q].outcome = "success" /\ run'[q].anchor = run[q].anchor
  <2>1. run'[q] = run[q] \/ run'[q].outcome = "none"
    BY <1>1 DEF Start, StartAttached, Command, GcOrRefuse, Spawn, RecordPid, NoRun
  <2> QED
    BY <1>4, <2>1
<1> QED
  BY <1>2, <1>3, <1>4 DEF DescentInv, SuccessDescends, store

\* Whatever a run does but to advance the branch with its last item, it has not
\* succeeded by it.
LEMMA SameSuccess ==
  ASSUME RunInv, NEW r \in Run, NEW new, new.outcome # "success", 
         run' = [run EXCEPT ![r] = new]
  PROVE  \A q \in Run : run'[q].outcome = "success" =>
           run[q].outcome = "success" /\ run'[q].anchor = run[q].anchor
BY DEF RunInv

LEMMA SavedSuccess ==
  ASSUME RunInv, NEW r \in Run, NEW new, Save(r, new),
         new.outcome = "success" => run[r].outcome = "success" /\ new.anchor = run[r].anchor
  PROVE  \A q \in Run : run'[q].outcome = "success" =>
           run[q].outcome = "success" /\ run'[q].anchor = run[q].anchor
<1>1. Dead(r).outcome = "none"
  BY DEF Dead, NoRun
<1>2. run' = [run EXCEPT ![r] = new] \/ run' = [run EXCEPT ![r] = Dead(r)]
  BY DEF Save
<1> QED
  BY <1>1, <1>2 DEF RunInv

\* What holds when runs did not come to success, the branch grew and a session
\* stayed on its base.
LEMMA DescentKept ==
  ASSUME DescentInv, branch \subseteq branch',
         \A q \in Run : run'[q].outcome = "success" =>
           run[q].outcome = "success" /\ run'[q].anchor = run[q].anchor,
         \A s \in Session : mark'[s].at \subseteq branch' \cup {s} /\ ctr'[s].base \subseteq branch'
  PROVE  DescentInv'
BY DEF DescentInv, SuccessDescends

LEMMA BranchGrows ==
  ASSUME NEW commit
  PROVE  branch \subseteq SetBranch(commit) /\ SetBranch(commit) \in {branch, commit}
BY DEF SetBranch

LEMMA StoreContainer ==
  ASSUME TypeInv, DescentInv, NEW s \in Session, Container(s)
  PROVE  StoreInv' /\ DescentInv' /\ UNCHANGED <<host, run, branch>>
<1> DEFINE Mark == [at : Commit, summary : {"none", "success", "failed"}]
           Ctr == [phase : {"none", "boot", "work"}, base : Commit, by : Run \cup {NoPid}]
<1>1. StoreInv /\ mark \in [Session -> Mark] /\ ctr \in [Session -> Ctr] /\ branch \in Commit
  BY DEF TypeInv, StoreInv
<1>2. /\ Tip(s) \in Commit /\ Tip(s) \subseteq branch \cup {s} /\ {} \in Commit
      /\ mark[s].at \in Commit /\ mark[s].at \subseteq branch \cup {s}
      /\ ctr[s].base \subseteq branch
  <2>1. mark[s].at \in Commit /\ ctr[s].base \in Commit
    BY <1>1
  <2>2. mark[s].at \subseteq branch \cup {s} /\ ctr[s].base \subseteq branch
    BY DEF DescentInv
  <2> QED
    BY <2>1, <2>2 DEF Tip, Commit
<1>3. NoContainer \in Ctr /\ NoContainer.base = {}
  BY <1>2 DEF NoContainer
<1>4. UNCHANGED <<host, run, branch, raced, entangled, lied>> /\ faults' \in 0..Faults
  BY <1>1, Faulted DEF Container, BootStaged, BootRefused, BootDies, WorkEmpty, WorkDies, WorkCommitted,
       store, bounded, StoreInv
<1>5. spaces' \subseteq Session
  BY <1>1 DEF Container, BootStaged, BootRefused, BootDies, WorkEmpty, WorkDies, WorkCommitted,
       store, StoreInv
<1>6. \/ ctr' = [ctr EXCEPT ![s] = NoContainer]
      \/ ctr' = [ctr EXCEPT ![s].phase = "work"]
  BY DEF Container, BootStaged, BootRefused, BootDies, WorkEmpty, WorkDies, WorkCommitted, Exit
<1>7. ctr' \in [Session -> Ctr] /\ \A q \in Session : ctr'[q].base \subseteq branch
  <2>1. \A q \in Session : ctr[q].base \subseteq branch
    BY DEF DescentInv
  <2>2. CASE ctr' = [ctr EXCEPT ![s] = NoContainer]
    BY <1>1, <1>3, <2>1, <2>2
  <2>3. CASE ctr' = [ctr EXCEPT ![s].phase = "work"]
    BY <1>1, <2>1, <2>3
  <2> QED
    BY <1>6, <2>2, <2>3
<1> DEFINE Marked(new) == new.at \subseteq branch \cup {s} /\ mark' = [mark EXCEPT ![s] = new]
<1>8. \E new \in Mark : Marked(new)
  <2>1. CASE mark' = mark
    <3>1. mark[s] \in Mark /\ mark' = [mark EXCEPT ![s] = mark[s]]
      BY <1>1, <2>1
    <3> QED
      BY <1>2, <3>1
  <2>2. ASSUME NEW summary \in {"none", "success", "failed"},
               mark' = [mark EXCEPT ![s] = [at |-> Tip(s), summary |-> summary]]
        PROVE  \E new \in Mark : Marked(new)
    <3>1. [at |-> Tip(s), summary |-> summary] \in Mark
      BY <1>2
    <3>2. Marked([at |-> Tip(s), summary |-> summary])
      BY <1>2, <2>2
    <3> QED
      BY <3>1, <3>2
  <2>3. CASE mark' = [mark EXCEPT ![s].summary = "success"]
    <3>1. [mark[s] EXCEPT !.summary = "success"] \in Mark
      BY <1>1
    <3>2. [mark[s] EXCEPT !.summary = "success"].at = mark[s].at
      BY <1>1
    <3>3. mark' = [mark EXCEPT ![s] = [mark[s] EXCEPT !.summary = "success"]]
      BY <2>3
    <3> QED
      BY <1>2, <3>1, <3>2, <3>3
  <2>4. \/ mark' = mark \/ mark' = [mark EXCEPT ![s].summary = "success"]
        \/ \E summary \in {"none", "success", "failed"} :
             mark' = [mark EXCEPT ![s] = [at |-> Tip(s), summary |-> summary]]
    BY DEF Container, BootStaged, BootRefused, BootDies, WorkEmpty, WorkDies, WorkCommitted, store
  <2> QED
    BY <2>1, <2>2, <2>3, <2>4
<1>9. mark' \in [Session -> Mark] /\ \A q \in Session : mark'[q].at \subseteq branch \cup {q}
  <2>1. \A q \in Session : mark[q].at \subseteq branch \cup {q}
    BY DEF DescentInv
  <2>2. PICK new \in Mark : new.at \subseteq branch \cup {s} /\ mark' = [mark EXCEPT ![s] = new]
    BY <1>8
  <2> QED
    BY <1>1, <2>1, <2>2
<1>10. StoreInv'
  BY <1>1, <1>4, <1>5, <1>7, <1>9 DEF StoreInv
<1> QED
  BY <1>4, <1>7, <1>9, <1>10 DEF DescentInv, SuccessDescends

\* A launch stages nothing yet: the new container's base is the branch itself.
LEMMA StoreLaunch ==
  ASSUME TypeInv, DescentInv, NEW r \in Run, Launch(r)
  PROVE  StoreInv' /\ DescentInv' /\ branch' = branch
<1> DEFINE Ctr == [phase : {"none", "boot", "work"}, base : Commit, by : Run \cup {NoPid}]
           s == SessionAt(r, run[r].launched + 1)
           booting == [phase |-> "boot", base |-> branch, by |-> r]
<1>1. StoreInv /\ RunInv /\ ctr \in [Session -> Ctr] /\ branch \in Commit /\ run[r].outcome = "none"
  BY DEF TypeInv, StoreInv, RunInv, RunOK, Counts, Launch
<1>2. UNCHANGED <<store, raced, lied, faults>> /\ entangled' \subseteq Run
  BY <1>1 DEF Launch, StoreInv, bounded
<1>3. booting \in Ctr /\ booting.base = branch
  BY <1>1
<1>4. ctr' = ctr \/ ctr' = [ctr EXCEPT ![s] = booting]
  BY DEF Launch
<1>5. ctr' \in [Session -> Ctr] /\ \A q \in Session : ctr'[q].base \subseteq branch
  <2>1. \A q \in Session : ctr[q].base \subseteq branch
    BY DEF DescentInv
  <2> QED
    BY <1>1, <1>3, <1>4, <2>1
<1>6. \A q \in Run : run'[q].outcome = "success" =>
        run[q].outcome = "success" /\ run'[q].anchor = run[q].anchor
  <2>1. run \in [Run -> RunRecord]
    BY DEF TypeInv, RunInv
  <2>2. CASE run' = [run EXCEPT ![r].pc = "end", ![r].outcome = "launch"]
    BY <1>1, <2>1, <2>2 DEF RunRecord
  <2>3. ASSUME NEW pc, run' = [run EXCEPT ![r].launched = @ + 1, ![r].pc = pc]
        PROVE  \A q \in Run : run'[q].outcome = run[q].outcome /\ run'[q].anchor = run[q].anchor
    BY <2>1, <2>3 DEF RunRecord
  <2>4. \/ run' = [run EXCEPT ![r].pc = "end", ![r].outcome = "launch"]
        \/ \E pc : run' = [run EXCEPT ![r].launched = @ + 1, ![r].pc = pc]
    BY DEF Launch
  <2> QED
    BY <2>2, <2>3, <2>4
<1>7. StoreInv'
  BY <1>1, <1>2, <1>5 DEF StoreInv, store, bounded
<1>8. \A q \in Session : mark'[q].at \subseteq branch' \cup {q} /\ ctr'[q].base \subseteq branch'
  BY <1>2, <1>5 DEF DescentInv, store
<1> QED
  BY <1>2, <1>6, <1>7, <1>8, DescentKept DEF store

\* The results of an item change no commit.
LEMMA StoreCollect ==
  ASSUME TypeInv, DescentInv, NEW r \in Run,
         AgentGone(r) \/ PsFails(r) \/ \E stopped \in BOOLEAN : TimeOut(r, stopped)
  PROVE  StoreInv' /\ DescentInv' /\ branch' = branch
<1> DEFINE Ctr == [phase : {"none", "boot", "work"}, base : Commit, by : Run \cup {NoPid}]
<1>1. /\ StoreInv /\ RunInv /\ ctr \in [Session -> Ctr] /\ branch \in Commit
      /\ run[r].outcome = "none" /\ run[r] \in RunRecord
  BY DEF TypeInv, StoreInv, RunInv, RunOK, Counts, AgentGone, PsFails, TimeOut
<1>2. NoContainer \in Ctr /\ NoContainer.base = {}
  BY DEF NoContainer, Commit
<1>3. /\ UNCHANGED <<store, raced, entangled>> /\ lied' \subseteq Run /\ faults' \in 0..Faults
      /\ ctr' = ctr \/ ctr' = [ctr EXCEPT ![Awaited(r)] = NoContainer]
  BY <1>1, Faulted DEF AgentGone, PsFails, TimeOut, bounded, StoreInv
<1>4. ctr' \in [Session -> Ctr] /\ \A q \in Session : ctr'[q].base \subseteq branch
  <2>1. \A q \in Session : ctr[q].base \subseteq branch
    BY DEF DescentInv
  <2> QED
    BY <1>1, <1>2, <1>3, <2>1
<1>5. \A q \in Run : run'[q].outcome = "success" =>
        run[q].outcome = "success" /\ run'[q].anchor = run[q].anchor
  <2>1. PICK status : Collect(r, status)
    BY DEF AgentGone, PsFails, TimeOut
  <2> DEFINE new == [run[r] EXCEPT !.got = @ + 1, !.failed = @ \/ status \notin Ok,
                        !.seen = @ \cup {Current(r).steps[run[r].got + 1].name}]
  <2>2. /\ new.outcome = "none"
        /\ [new EXCEPT !.pc = "end", !.outcome = "failed"].outcome = "failed"
        /\ [new EXCEPT !.pc = "advance"].outcome = "none"
    BY <1>1 DEF RunRecord
  <2>3. \/ run' = [run EXCEPT ![r] = new]
        \/ Save(r, [new EXCEPT !.pc = "end", !.outcome = "failed"])
        \/ Save(r, [new EXCEPT !.pc = "advance"])
    BY <2>1 DEF Collect
  <2> HIDE DEF new
  <2> QED
    BY <1>1, <2>2, <2>3, SameSuccess, SavedSuccess
<1>6. StoreInv'
  BY <1>1, <1>3, <1>4 DEF StoreInv, store
<1>7. \A q \in Session : mark'[q].at \subseteq branch' \cup {q} /\ ctr'[q].base \subseteq branch'
  BY <1>3, <1>4 DEF DescentInv, store
<1> QED
  BY <1>3, <1>5, <1>6, <1>7, DescentKept DEF store

LEMMA StoreInitialise ==
  ASSUME TypeInv, DescentInv, NEW r \in Run, InitialiseBranch(r)
  PROVE  StoreInv' /\ DescentInv' /\ branch \subseteq branch'
<1>1. /\ StoreInv /\ RunInv /\ run[r].outcome = "none" /\ run[r] \in RunRecord
      /\ run[r].anchor \in Anchors
  BY DEF TypeInv, RunInv, RunOK, Counts, InitialiseBranch, Accepted
<1>2. branch' = SetBranch(run[r].anchor) /\ UNCHANGED <<mark, spaces, ctr, bounded>>
  BY DEF InitialiseBranch
<1>3. branch \subseteq branch' /\ branch' \in Commit
  BY <1>1, <1>2, BranchGrows DEF StoreInv, Commit
<1>4. Save(r, Begun(run[r], 1)) /\ Begun(run[r], 1).outcome = "none"
  BY <1>1 DEF InitialiseBranch, Begun, RunRecord
<1>5. \A q \in Run : run'[q].outcome = "success" =>
        run[q].outcome = "success" /\ run'[q].anchor = run[q].anchor
  BY <1>1, <1>4, SavedSuccess
<1>6. \A q \in Session : mark'[q].at \subseteq branch' \cup {q} /\ ctr'[q].base \subseteq branch'
  BY <1>2, <1>3 DEF DescentInv
<1> QED
  BY <1>1, <1>2, <1>3, <1>5, <1>6, DescentKept DEF StoreInv, bounded

\* The bookmark of a session adds one change to what is on the branch already, and
\* no anchor contains it: if the bookmark is above the anchor, so is the branch,
\* moved or not.
LEMMA AnchorOnBranch ==
  ASSUME TypeInv, DescentInv, NEW r \in Run, AdvanceBranch(r), Descends(r, SessionAt(r, 1))
  PROVE  run[r].anchor \subseteq SetBranch(mark[SessionAt(r, 1)].at)
<1> DEFINE s == SessionAt(r, 1)
<1>1. Accepted(run[r].doc, run[r].anchor) /\ run[r].item \in DOMAIN run[r].doc
  BY DEF TypeInv, RunInv, RunOK, Counts, AdvanceBranch
<1>2. s \in Session
  BY <1>1, DocShape, SessionKnown DEF Accepted, SessionAt
<1>3. mark[s].at \subseteq branch \cup {s} /\ run[r].anchor \subseteq mark[s].at
  BY <1>2 DEF DescentInv, Descends
<1>4. run[r].anchor \cap Session = {}
  BY <1>1, AnchorAssumption DEF Accepted
<1>5. run[r].anchor \subseteq branch
  BY <1>2, <1>3, <1>4
<1> QED
  BY <1>3, <1>5 DEF SetBranch

LEMMA StoreAdvance ==
  ASSUME TypeInv, DescentInv, NEW r \in Run, AdvanceBranch(r)
  PROVE  StoreInv' /\ DescentInv' /\ branch \subseteq branch'
<1> DEFINE Mark == [at : Commit, summary : {"none", "success", "failed"}]
           s == SessionAt(r, 1)
<1>1. /\ StoreInv /\ RunInv /\ run[r].outcome = "none" /\ run[r] \in RunRecord
      /\ mark \in [Session -> Mark] /\ run \in [Run -> RunRecord]
      /\ Accepted(run[r].doc, run[r].anchor) /\ run[r].item \in DOMAIN run[r].doc
  BY DEF TypeInv, StoreInv, RunInv, RunOK, Counts, AdvanceBranch
<1>2. UNCHANGED <<spaces, ctr, bounded>>
  BY DEF AdvanceBranch
<1>3. s \in Session
  BY <1>1, DocShape, SessionKnown DEF Accepted, SessionAt
<1>4. branch' \in {branch, SetBranch(mark[s].at)} /\ branch \subseteq branch' /\ branch' \in Commit
  <2>1. branch' = branch \/ branch' = SetBranch(mark[s].at)
    BY DEF AdvanceBranch
  <2>2. mark[s].at \in Commit /\ branch \in Commit
    BY <1>1, <1>3 DEF StoreInv
  <2> QED
    BY <2>1, <2>2, BranchGrows
<1>5. NoMark \in Mark /\ NoMark.at = {}
  BY DEF NoMark, Commit
<1>6. /\ mark' \in [Session -> Mark]
      /\ \A q \in Session : mark'[q] \in {mark[q], NoMark}
  BY <1>1, <1>5 DEF AdvanceBranch
<1>7. \A q \in Session : mark'[q].at \subseteq branch' \cup {q} /\ ctr'[q].base \subseteq branch'
  <2>1. \A q \in Session : mark[q].at \subseteq branch \cup {q} /\ ctr[q].base \subseteq branch
    BY DEF DescentInv
  <2> QED
    BY <1>2, <1>4, <1>5, <1>6, <2>1
<1>8. SuccessDescends'
  <2>1. CASE Descends(r, s) /\ run[r].item = Len(run[r].doc)
    <3>1. /\ run' = [run EXCEPT ![r].pc = "end", ![r].outcome = "success"]
          /\ branch' = SetBranch(mark[s].at)
      BY <2>1 DEF AdvanceBranch
    <3>2. run[r].anchor \subseteq branch'
      BY <2>1, <3>1, AnchorOnBranch
    <3>3. \A q \in Run : /\ run'[q].anchor = run[q].anchor
                         /\ q # r => run'[q] = run[q]
      BY <1>1, <3>1 DEF RunRecord
    <3> QED
      BY <1>4, <3>2, <3>3 DEF DescentInv, SuccessDescends
  <2>2. CASE ~Descends(r, s)
    <3>1. run' = [run EXCEPT ![r].pc = "end", ![r].outcome = "failed"]
      BY <2>2 DEF AdvanceBranch
    <3>2. \A q \in Run : run'[q].outcome = "success" => run'[q] = run[q]
      BY <1>1, <3>1 DEF RunRecord
    <3> QED
      BY <1>4, <3>2 DEF DescentInv, SuccessDescends
  <2>3. CASE Descends(r, s) /\ run[r].item # Len(run[r].doc)
    <3>1. Save(r, Begun(run[r], run[r].item + 1)) /\ Begun(run[r], run[r].item + 1).outcome = "none"
      BY <1>1, <2>3 DEF AdvanceBranch, Begun, RunRecord
    <3> QED
      BY <1>1, <1>4, <3>1, SavedSuccess DEF DescentInv, SuccessDescends
  <2> QED
    BY <2>1, <2>2, <2>3
<1> QED
  BY <1>1, <1>2, <1>4, <1>6, <1>7, <1>8 DEF DescentInv, StoreInv, bounded

LEMMA StoreRunner ==
  ASSUME TypeInv, DescentInv, NEW r \in Run, Runner(r) \/ Interrupt(r) \/ Kill(r)
  PROVE  StoreInv' /\ DescentInv' /\ branch \subseteq branch'
<1>1. CASE Boot(r) \/ End(r) \/ Interrupt(r) \/ Kill(r)
  <2>1. RunInv /\ StoreInv /\ run[r] \in RunRecord /\ run \in [Run -> RunRecord]
    BY DEF TypeInv, RunInv
  <2>2. UNCHANGED <<store, ctr, raced, entangled, lied>> /\ faults' \in 0..Faults
    BY <1>1, <2>1, Faulted DEF Boot, End, Interrupt, Kill, bounded, StoreInv
  <2>3. \A q \in Run : run'[q].outcome = "success" =>
          run[q].outcome = "success" /\ run'[q].anchor = run[q].anchor
    <3>1. CASE Boot(r)
      <4>1. Save(r, [run[r] EXCEPT !.pc = "init", !.doc = file.doc, !.anchor = file.anchor])
        BY <3>1 DEF Boot
      <4>2. [run[r] EXCEPT !.pc = "init", !.doc = file.doc, !.anchor = file.anchor].outcome = "none"
        BY <3>1, <2>1 DEF Boot, RunInv, RunOK, RunRecord, Counts
      <4> QED
        BY <2>1, <4>1, <4>2, SavedSuccess
    <3>2. CASE End(r)
      <4> DEFINE new == [run[r] EXCEPT !.pc = "ended", !.item = 1, !.fed = {}, !.seen = {},
                           !.launched = 0, !.got = 0, !.failed = FALSE,
                           !.outcome = IF @ = "success" THEN @ ELSE "failed"]
      <4>1. Save(r, new)
        BY <3>2 DEF End
      <4>2. new.outcome = "success" => run[r].outcome = "success" /\ new.anchor = run[r].anchor
        BY <2>1 DEF RunRecord
      <4> HIDE DEF new
      <4> QED
        BY <2>1, <4>1, <4>2, SavedSuccess
    <3>3. CASE Interrupt(r)
      <4>1. run' = [run EXCEPT ![r].pc = "end", ![r].outcome = "interrupted"]
        BY <3>3 DEF Interrupt
      <4> QED
        BY <2>1, <4>1 DEF RunRecord
    <3>4. CASE Kill(r)
      <4>1. run' = [run EXCEPT ![r] = Dead(r)] /\ Dead(r).outcome = "none"
        BY <3>4 DEF Kill, Dead, NoRun
      <4> QED
        BY <2>1, <4>1
    <3> QED
      BY <1>1, <3>1, <3>2, <3>3, <3>4
  <2>4. StoreInv' /\ branch' = branch
    BY <2>1, <2>2 DEF StoreInv, store
  <2>5. \A q \in Session : mark'[q].at \subseteq branch' \cup {q} /\ ctr'[q].base \subseteq branch'
    BY <2>2 DEF DescentInv, store
  <2> QED
    BY <2>3, <2>4, <2>5, DescentKept
<1>2. CASE \/ InitialiseBranch(r) \/ Launch(r) \/ AdvanceBranch(r)
           \/ AgentGone(r) \/ PsFails(r) \/ \E stopped \in BOOLEAN : TimeOut(r, stopped)
  BY <1>2, StoreInitialise, StoreLaunch, StoreAdvance, StoreCollect
<1> QED
  BY <1>1, <1>2 DEF Runner

-----------------------------------------------------------------------------
(* The type and descent theorems *)

LEMMA TypeNext ==
  ASSUME TypeInv, DescentInv, [Next]_vars
  PROVE  TypeInv' /\ DescentInv' /\ branch \subseteq branch'
<1>1. ASSUME NEW r \in Run,
             \/ \E doc \in Docs, anchor \in Anchors : Start(r, doc, anchor) \/ StartAttached(r, doc, anchor)
             \/ Command(r)
      PROVE  TypeInv' /\ DescentInv' /\ branch \subseteq branch'
  BY <1>1, TypeCommand, StoreCommand DEF TypeInv
<1>2. ASSUME NEW r \in Run, Runner(r) \/ Interrupt(r) \/ Kill(r)
      PROVE  TypeInv' /\ DescentInv' /\ branch \subseteq branch'
  BY <1>2, TypeRunner, StoreRunner DEF TypeInv
<1>3. ASSUME NEW s \in Session, Container(s)
      PROVE  TypeInv' /\ DescentInv' /\ branch \subseteq branch'
  BY <1>3, StoreContainer DEF TypeInv, HostInv, RunInv, host
<1>4. CASE UNCHANGED vars
  BY <1>4 DEF vars, TypeInv, HostInv, RunInv, StoreInv, DescentInv, SuccessDescends
<1> QED
  BY <1>1, <1>2, <1>3, <1>4 DEF Next

LEMMA DescentInit == Init => DescentInv
BY DEF Init, DescentInv, SuccessDescends, NoMark, NoContainer, NoRun

LEMMA Inductive == Spec => [](TypeInv /\ DescentInv)
<1>1. Init => TypeInv /\ DescentInv
  BY TypeInit, DescentInit
<1>2. TypeInv /\ DescentInv /\ [Next]_vars => (TypeInv /\ DescentInv)'
  BY TypeNext
<1> QED
  BY <1>1, <1>2, PTL DEF Spec

LEMMA TypeImplied == TypeInv => TypeOK
<1> SUFFICES ASSUME TypeInv PROVE TypeOK
  OBVIOUS
<1>1. ASSUME NEW r \in Run
      PROVE  /\ run[r].pc \in {"none", "boot", "init", "launch", "wait",
                               "advance", "end", "ended", "dead"}
             /\ run[r].attached \in BOOLEAN
             /\ run[r].anchor \in Anchors \cup {{}}
             /\ run[r].pc \notin {"none", "boot", "dead"} => run[r].doc \in Docs
             /\ run[r].pc \notin {"none", "boot", "dead"} => run[r].item \in DOMAIN run[r].doc
             /\ run[r].fed \subseteq run[r].seen /\ run[r].seen \subseteq Step
             /\ run[r].got \in 0..run[r].launched /\ run[r].failed \in BOOLEAN
  <2>1. run[r] \in RunRecord /\ Counts(run[r]) /\ Briefed(run[r])
    BY DEF TypeInv, RunInv, RunOK
  <2>2. /\ run[r].got \in Nat /\ run[r].launched \in Nat /\ run[r].seen \subseteq Step
        /\ run[r].attached \in BOOLEAN /\ run[r].failed \in BOOLEAN
        /\ run[r].anchor \in Anchors \cup {{}}
        /\ run[r].pc \in {"none", "boot", "init", "launch", "wait",
                          "advance", "end", "ended", "dead"}
    BY <2>1 DEF RunRecord
  <2>3. run[r].got \in 0..run[r].launched
    BY <2>1, <2>2 DEF Counts
  <2> QED
    BY <2>1, <2>2, <2>3 DEF Counts, Briefed, Accepted
<1>2. /\ file \in FileRecord /\ cmd \in [Run -> CmdRecord] /\ StoreInv
  BY DEF TypeInv, HostInv, FileOK
<1> QED
  BY <1>1, <1>2 DEF TypeOK, FileRecord, CmdRecord, StoreInv

\* Every variable keeps its type, a run's item is one of its chain and its counts
\* agree, whichever state file it was booted from.
THEOREM TypeCorrect == Spec => []TypeOK
<1>1. TypeInv /\ DescentInv => TypeOK
  BY TypeImplied
<1> QED
  BY <1>1, Inductive, PTL

\* A success has left the chain branch above the anchor that was given.
THEOREM SuccessIsAboveAnchor == Spec => []SuccessDescends
<1>1. TypeInv /\ DescentInv => SuccessDescends
  BY DEF DescentInv
<1> QED
  BY <1>1, Inductive, PTL

\* No step of anybody takes work off the chain branch.
THEOREM BranchLosesNothing == Spec => BranchOnlyGrows
<1>1. TypeInv /\ DescentInv /\ [Next]_vars => [branch \subseteq branch']_vars
  BY TypeNext
<1> QED
  BY <1>1, Inductive, PTL DEF Spec, BranchOnlyGrows

\* A step is fed the output of every step it wants and of no other, whichever
\* chain file, for every run; but for the siblings of a group that name inputs,
\* which the code overlooks (chain.py:711-713).
THEOREM BriefsAreWhole == Spec => []BriefIsWhole
<1>1. TypeInv /\ DescentInv => BriefIsWhole
  BY DEF TypeInv, RunInv, RunOK, Briefed, Whole, BriefIsWhole, Current
<1> QED
  BY <1>1, Inductive, PTL

-----------------------------------------------------------------------------
(* One runner at a time *)

Detached(r) == run[r].attached = FALSE /\ Alive(r)

\* While no two commands overlap, a detached runner that is alive is in the state
\* file under its own pid, or the one command in progress is about to put it there.
AloneInv ==
  raced = FALSE =>
    /\ \A p, q \in Run : Busy(p) /\ Busy(q) => p = q
    /\ \A p \in Run : Detached(p) =>
         cmd[p].pc = "record" \/ (file.status = "running" /\ file.pid = p)
    /\ \A p, q \in Run : cmd[p].pc = "spawn" => ~Detached(q)
    /\ \A p, q \in Run : cmd[p].pc = "record" => file # NoFile /\ (Detached(q) => q = p)

\* What a step of a runner does to the rest: it writes the file only as its own,
\* only while it is alive and detached, and only over a file.
Alone(r) ==
  /\ cmd' = cmd /\ raced' = raced
  /\ \A q \in Run : q # r => run'[q] = run[q]
  /\ Detached(r)' => Detached(r)
  /\ \/ file' = file
     \/ /\ Detached(r) /\ file # NoFile /\ file' # NoFile /\ file'.pid = r
        /\ Detached(r)' => file'.status = "running"

LEMMA PutAlone ==
  ASSUME RunInv, NEW r \in Run, NEW new, run' = [run EXCEPT ![r] = new],
         run[r].pc \notin {"none", "ended", "dead"}, new.attached = run[r].attached,
         UNCHANGED <<file, cmd, raced>>
  PROVE  Alone(r)
<1>1. run \in [Run -> RunRecord] /\ r # NoPid
  BY DEF RunInv, Run, NoPid
<1> QED
  BY <1>1 DEF Alone, Detached, Alive

LEMMA SaveAlone ==
  ASSUME RunInv, NEW r \in Run, NEW new, Save(r, new),
         run[r].pc \notin {"none", "ended", "dead"}, new.attached = run[r].attached,
         UNCHANGED <<cmd, raced>>
  PROVE  Alone(r)
<1>1. run \in [Run -> RunRecord] /\ r # NoPid /\ new.attached \in BOOLEAN
  BY DEF RunInv, Run, NoPid, RunRecord
<1>2. Dead(r) \in RunRecord /\ Dead(r).attached = run[r].attached
  BY DeadOK DEF RunOK, Dead, NoRun
<1>3. CASE UNCHANGED file
  <2>1. run' = [run EXCEPT ![r] = new] \/ run' = [run EXCEPT ![r] = Dead(r)]
    BY DEF Save
  <2> QED
    BY <1>2, <1>3, <2>1, PutAlone
<1>4. CASE new.attached = FALSE /\ file # NoFile /\ run' = [run EXCEPT ![r] = new]
           /\ file' = State(r, new)
  <2>1. run'[r] = new /\ \A q \in Run : q # r => run'[q] = run[q]
    BY <1>1, <1>4
  <2>2. file'.pid = r /\ file' # NoFile /\ (new.pc # "ended" => file'.status = "running")
    BY <1>4 DEF State, NoFile
  <2>3. Detached(r) /\ (Detached(r)' => new.pc # "ended")
    BY <1>1, <1>4, <2>1 DEF Detached, Alive
  <2> QED
    BY <1>4, <2>1, <2>2, <2>3 DEF Alone
<1> QED
  BY <1>1, <1>3, <1>4 DEF Save

LEMMA RunnerAlone ==
  ASSUME TypeInv, NEW r \in Run, Runner(r) \/ Interrupt(r) \/ Kill(r)
  PROVE  Alone(r)
<1>1. RunInv /\ run \in [Run -> RunRecord] /\ run[r] \in RunRecord
  BY DEF TypeInv, RunInv
<1>2. cmd' = cmd /\ raced' = raced
  BY DEF Runner, Boot, InitialiseBranch, Launch, AgentGone, PsFails, TimeOut, AdvanceBranch, End,
         Interrupt, Kill, host, bounded
<1>3. CASE Boot(r)
  <2>1. Save(r, [run[r] EXCEPT !.pc = "init", !.doc = file.doc, !.anchor = file.anchor])
    BY <1>3 DEF Boot
  <2>2. [run[r] EXCEPT !.pc = "init", !.doc = file.doc, !.anchor = file.anchor].attached
          = run[r].attached
    BY <1>1 DEF RunRecord
  <2> QED
    BY <1>1, <1>2, <1>3, <2>1, <2>2, SaveAlone DEF Boot
<1>4. CASE InitialiseBranch(r)
  <2>1. Save(r, Begun(run[r], 1)) /\ Begun(run[r], 1).attached = run[r].attached
    BY <1>1, <1>4 DEF InitialiseBranch, Begun, RunRecord
  <2> QED
    BY <1>1, <1>2, <1>4, <2>1, SaveAlone DEF InitialiseBranch
<1>5. CASE Launch(r)
  <2> DEFINE ended == [run[r] EXCEPT !.pc = "end", !.outcome = "launch"]
             more(pc) == [run[r] EXCEPT !.launched = @ + 1, !.pc = pc]
  <2>1. run' = [run EXCEPT ![r] = ended] \/ \E pc : run' = [run EXCEPT ![r] = more(pc)]
    BY <1>1, <1>5 DEF Launch
  <2>2. ended.attached = run[r].attached /\ \A pc : more(pc).attached = run[r].attached
    BY <1>1 DEF RunRecord
  <2>3. UNCHANGED <<file, cmd, raced>> /\ run[r].pc = "launch"
    BY <1>5 DEF Launch, host, bounded
  <2> QED
    BY <1>1, <2>1, <2>2, <2>3, PutAlone
<1>6. CASE AgentGone(r) \/ PsFails(r) \/ \E stopped \in BOOLEAN : TimeOut(r, stopped)
  <2>1. PICK status : Collect(r, status)
    BY <1>6 DEF AgentGone, PsFails, TimeOut
  <2> DEFINE new == [run[r] EXCEPT !.got = @ + 1, !.failed = @ \/ status \notin Ok,
                        !.seen = @ \cup {Current(r).steps[run[r].got + 1].name}]
  <2>2. /\ new.attached = run[r].attached
        /\ [new EXCEPT !.pc = "end", !.outcome = "failed"].attached = run[r].attached
        /\ [new EXCEPT !.pc = "advance"].attached = run[r].attached
    BY <1>1 DEF RunRecord
  <2>3. \/ run' = [run EXCEPT ![r] = new] /\ file' = file
        \/ Save(r, [new EXCEPT !.pc = "end", !.outcome = "failed"])
        \/ Save(r, [new EXCEPT !.pc = "advance"])
    BY <2>1 DEF Collect
  <2>4. run[r].pc = "wait"
    BY <1>6 DEF AgentGone, PsFails, TimeOut
  <2> HIDE DEF new
  <2> QED
    BY <1>1, <1>2, <2>2, <2>3, <2>4, PutAlone, SaveAlone
<1>7. CASE AdvanceBranch(r)
  <2> DEFINE ended(outcome) == [run[r] EXCEPT !.pc = "end", !.outcome = outcome]
  <2>1. \/ Save(r, Begun(run[r], run[r].item + 1))
        \/ file' = file /\ \E outcome : run' = [run EXCEPT ![r] = ended(outcome)]
    BY <1>1, <1>7 DEF AdvanceBranch
  <2>2. /\ Begun(run[r], run[r].item + 1).attached = run[r].attached
        /\ \A outcome : ended(outcome).attached = run[r].attached
    BY <1>1 DEF Begun, RunRecord
  <2>3. run[r].pc = "advance"
    BY <1>7 DEF AdvanceBranch
  <2> QED
    BY <1>1, <1>2, <2>1, <2>2, <2>3, PutAlone, SaveAlone
<1>8. CASE End(r)
  <2> DEFINE new == [run[r] EXCEPT !.pc = "ended", !.item = 1, !.fed = {}, !.seen = {},
                       !.launched = 0, !.got = 0, !.failed = FALSE,
                       !.outcome = IF @ = "success" THEN @ ELSE "failed"]
  <2>1. Save(r, new) /\ new.attached = run[r].attached /\ run[r].pc = "end"
    BY <1>1, <1>8 DEF End, RunRecord
  <2> HIDE DEF new
  <2> QED
    BY <1>1, <1>2, <2>1, SaveAlone
<1>9. CASE Interrupt(r)
  <2> DEFINE new == [run[r] EXCEPT !.pc = "end", !.outcome = "interrupted"]
  <2>1. /\ run' = [run EXCEPT ![r] = new] /\ new.attached = run[r].attached /\ file' = file
        /\ run[r].pc \notin {"none", "ended", "dead"}
    BY <1>1, <1>9 DEF Interrupt, host, RunRecord
  <2> QED
    BY <1>1, <1>2, <2>1, PutAlone
<1>10. CASE Kill(r)
  <2>1. /\ run' = [run EXCEPT ![r] = Dead(r)] /\ Dead(r).attached = run[r].attached
        /\ file' = file /\ run[r].pc \notin {"none", "ended", "dead"}
    BY <1>10 DEF Kill, host, Dead, NoRun
  <2> QED
    BY <1>1, <1>2, <2>1, PutAlone
<1> QED
  BY <1>3, <1>4, <1>5, <1>6, <1>7, <1>8, <1>9, <1>10 DEF Runner

LEMMA AloneRunner ==
  ASSUME TypeInv, AloneInv, NEW r \in Run, Alone(r)
  PROVE  AloneInv'
<1>1. \A q \in Run : Detached(q)' => Detached(q)
  BY DEF Alone, Detached, Alive
<1>2. \A q \in Run : Busy(q)' = Busy(q)
  BY DEF Alone, Busy
<1> SUFFICES ASSUME raced = FALSE
             PROVE  /\ \A p, q \in Run : Busy(p)' /\ Busy(q)' => p = q
                    /\ \A p \in Run : Detached(p)' =>
                         cmd'[p].pc = "record" \/ (file'.status = "running" /\ file'.pid = p)
                    /\ \A p, q \in Run : cmd'[p].pc = "spawn" => ~Detached(q)'
                    /\ \A p, q \in Run : cmd'[p].pc = "record" =>
                         file' # NoFile /\ (Detached(q)' => q = p)
  BY DEF AloneInv, Alone
<1>3. ASSUME NEW p \in Run, Detached(p)', cmd[p].pc # "record"
      PROVE  file'.status = "running" /\ file'.pid = p
  <2>1. file.status = "running" /\ file.pid = p
    BY <1>1, <1>3 DEF AloneInv
  <2>2. CASE file' = file
    BY <2>1, <2>2
  <2>3. CASE /\ Detached(r) /\ file # NoFile /\ file' # NoFile /\ file'.pid = r
             /\ Detached(r)' => file'.status = "running"
    <3>1. CASE cmd[r].pc = "record"
      <4>1. p = r
        BY <1>1, <1>3, <3>1 DEF AloneInv
      <4> QED
        BY <1>3, <3>1, <4>1
    <3>2. CASE cmd[r].pc # "record"
      <4>1. file.pid = r
        BY <2>3, <3>2 DEF AloneInv
      <4> QED
        BY <1>3, <2>1, <2>3, <4>1
    <3> QED
      BY <3>1, <3>2
  <2> QED
    BY <2>2, <2>3 DEF Alone
<1> QED
  BY <1>1, <1>2, <1>3 DEF AloneInv, Alone

LEMMA AloneCommand ==
  ASSUME TypeInv, AloneInv, NEW r \in Run,
         \/ \E doc \in Docs, anchor \in Anchors : Start(r, doc, anchor) \/ StartAttached(r, doc, anchor)
         \/ Command(r)
  PROVE  AloneInv'
<1>1. /\ RunInv /\ run \in [Run -> RunRecord] /\ cmd \in [Run -> CmdRecord] /\ r # NoPid
      /\ \A q \in Run : q # NoPid
  BY DEF TypeInv, RunInv, HostInv, Run, NoPid
<1>2. ASSUME NEW doc, NEW anchor, Start(r, doc, anchor)
      PROVE  AloneInv'
  <2>1. CASE \E q \in Run : Busy(q)
    BY <1>2, <2>1 DEF Start, AloneInv
  <2>2. CASE \A q \in Run : ~Busy(q)
    <3>1. /\ cmd'[r].pc = "gc" /\ \A q \in Run : q # r => cmd'[q] = cmd[q]
          /\ UNCHANGED <<file, run>>
      BY <1>1, <1>2 DEF Start
    <3>2. \A q \in Run : /\ Detached(q)' = Detached(q)
                         /\ Busy(q)' => q = r
                         /\ cmd[q].pc \notin {"gc", "spawn", "record"}
      BY <1>1, <2>2, <3>1 DEF Detached, Alive, Busy, CmdRecord
    <3>3. raced' = FALSE => raced = FALSE
      <4>1. raced' = (raced \/ \E q \in Run : Busy(q)) /\ raced \in BOOLEAN
        BY <1>2 DEF Start, TypeInv, StoreInv
      <4>2. CASE raced = TRUE
        BY <4>1, <4>2
      <4> QED
        BY <4>1, <4>2
    <3> QED
      BY <3>1, <3>2, <3>3 DEF AloneInv
  <2> QED
    BY <2>1, <2>2
<1>3. ASSUME NEW doc, NEW anchor, StartAttached(r, doc, anchor)
      PROVE  AloneInv'
  <2>1. /\ cmd'[r].pc = "done" /\ \A q \in Run : q # r => cmd'[q] = cmd[q]
        /\ run'[r].attached = TRUE /\ \A q \in Run : q # r => run'[q] = run[q]
        /\ UNCHANGED <<file, raced>> /\ cmd[r].pc = "idle"
    BY <1>1, <1>3 DEF StartAttached, Given, NoRun, CmdRecord, bounded
  <2>2. \A q \in Run : /\ Detached(q)' => Detached(q) /\ q # r
                       /\ Busy(q)' => Busy(q)
                       /\ cmd'[q].pc \in {"spawn", "record"} => cmd'[q].pc = cmd[q].pc
    BY <1>1, <2>1 DEF Detached, Alive, Busy
  <2> QED
    BY <2>1, <2>2 DEF AloneInv
<1>4. CASE GcOrRefuse(r)
  <2>1. /\ cmd'[r].pc \in {"done", "spawn"} /\ \A q \in Run : q # r => cmd'[q] = cmd[q]
        /\ UNCHANGED <<run, raced>> /\ cmd[r].pc = "gc"
        /\ cmd'[r].pc = "done" => file' = file
        /\ cmd'[r].pc = "spawn" => ~(file.status = "running" /\ Alive(file.pid))
    BY <1>1, <1>4 DEF GcOrRefuse, bounded, CmdRecord
  <2>2. \A q \in Run : /\ Detached(q)' = Detached(q)
                       /\ Busy(q)' => Busy(q)
                       /\ cmd'[q].pc = "record" => cmd[q].pc = "record" /\ q # r
                       /\ cmd'[q].pc = "spawn" => cmd[q].pc = "spawn" \/ q = r
    BY <1>1, <2>1 DEF Detached, Alive, Busy
  <2>3. Busy(r) 
    BY <2>1 DEF Busy
  <2>4. ASSUME raced = FALSE, NEW q \in Run, cmd[q].pc \in {"spawn", "record"} PROVE FALSE
    BY <2>1, <2>3, <2>4 DEF AloneInv, Busy
  <2>5. ASSUME raced = FALSE, cmd'[r].pc = "spawn", NEW q \in Run, Detached(q) PROVE FALSE
    <3>1. file.status = "running" /\ file.pid = q
      BY <2>4, <2>5 DEF AloneInv
    <3> QED
      BY <2>1, <2>5, <3>1 DEF Detached
  <2>6. CASE cmd'[r].pc = "done"
    BY <2>1, <2>2, <2>6 DEF AloneInv
  <2>7. CASE cmd'[r].pc = "spawn"
    BY <2>1, <2>2, <2>4, <2>5, <2>7 DEF AloneInv
  <2> QED
    BY <2>1, <2>6, <2>7
<1>5. CASE Spawn(r)
  <2>1. /\ cmd'[r].pc = "record" /\ \A q \in Run : q # r => cmd'[q] = cmd[q]
        /\ \A q \in Run : q # r => run'[q] = run[q]
        /\ raced' = raced /\ cmd[r].pc = "spawn" /\ file' # NoFile
    BY <1>1, <1>5 DEF Spawn, bounded, CmdRecord, InitialState, NoFile
  <2>2. Busy(r)
    BY <2>1 DEF Busy
  <2>3. \A q \in Run : /\ Busy(q)' => Busy(q)
                       /\ q # r => Detached(q)' = Detached(q)
    BY <1>1, <2>1 DEF Detached, Alive, Busy
  <2>4. ASSUME raced = FALSE, NEW q \in Run, q # r
        PROVE  cmd[q].pc \notin {"spawn", "record"} /\ ~Detached(q)
    BY <2>1, <2>2, <2>4 DEF AloneInv, Busy
  <2> QED
    BY <2>1, <2>3, <2>4 DEF AloneInv
<1>6. CASE RecordPid(r)
  <2>1. /\ cmd'[r].pc = "done" /\ \A q \in Run : q # r => cmd'[q] = cmd[q]
        /\ UNCHANGED <<run, raced>> /\ cmd[r].pc = "record"
        /\ file # NoFile => file'.status = "running" /\ file'.pid = r
    BY <1>1, <1>6 DEF RecordPid, bounded, CmdRecord, InitialState
  <2>2. Busy(r)
    BY <2>1 DEF Busy
  <2>3. \A q \in Run : /\ Busy(q)' => Busy(q)
                       /\ Detached(q)' = Detached(q)
                       /\ cmd'[q].pc \in {"spawn", "record"} => cmd'[q].pc = cmd[q].pc /\ q # r
    BY <1>1, <2>1 DEF Detached, Alive, Busy
  <2>4. ASSUME raced = FALSE, NEW q \in Run
        PROVE  /\ cmd[q].pc \in {"spawn", "record"} => q = r
               /\ file # NoFile /\ (Detached(q) => q = r)
    BY <2>1, <2>2, <2>4 DEF AloneInv, Busy
  <2> QED
    BY <2>1, <2>3, <2>4 DEF AloneInv
<1> QED
  BY <1>2, <1>3, <1>4, <1>5, <1>6 DEF Command

LEMMA AloneInit == Init => AloneInv
BY DEF Init, AloneInv, Busy, Detached, Alive, NoRun

LEMMA AloneNext ==
  ASSUME TypeInv, DescentInv, AloneInv, [Next]_vars
  PROVE  AloneInv'
<1>1. CASE UNCHANGED <<file, cmd, run, raced>>
  BY <1>1 DEF AloneInv, Busy, Detached, Alive
<1>2. ASSUME NEW s \in Session, Container(s) PROVE AloneInv'
  <2>1. UNCHANGED <<file, cmd, run, raced>>
    BY <1>2 DEF Container, BootStaged, BootRefused, BootDies, WorkEmpty, WorkDies, WorkCommitted,
         host, bounded
  <2> QED
    BY <1>1, <2>1
<1>3. ASSUME NEW r \in Run, Runner(r) \/ Interrupt(r) \/ Kill(r) PROVE AloneInv'
  BY <1>3, RunnerAlone, AloneRunner
<1> QED
  BY <1>1, <1>2, <1>3, AloneCommand DEF Next, vars

LEMMA AloneImplied == AloneInv => OneRunner
<1> SUFFICES ASSUME AloneInv, ~raced
             PROVE  Cardinality({r \in Run : ~run[r].attached /\ Alive(r)}) <= 1
  BY DEF OneRunner
<1> DEFINE Those == {r \in Run : ~run[r].attached /\ Alive(r)}
<1>1. raced = FALSE
  OBVIOUS
<1>2. \A r \in Those : r \in Run /\ Detached(r)
  BY DEF Detached
<1>3. \A p, q \in Those : p = q
  BY <1>1, <1>2 DEF AloneInv
<1>4. Those = {} \/ \E r : Those = {r}
  BY <1>3
<1> HIDE DEF Those
<1>5. Those = {} => Cardinality(Those) <= 1
  BY FS_EmptySet
<1>6. ASSUME NEW r, Those = {r} PROVE Cardinality(Those) <= 1
  <2>1. Cardinality({r}) = 1
    BY FS_Singleton
  <2> QED
    BY <1>6, <2>1
<1>7. Cardinality(Those) <= 1
  BY <1>4, <1>5, <1>6
<1> QED
  BY <1>7 DEF Those

\* Commands given one after the other never have two detached runners alive.
THEOREM RunnersAreAlone == Spec => []OneRunner
<1>1. Init => TypeInv /\ DescentInv /\ AloneInv
  BY TypeInit, DescentInit, AloneInit
<1>2. TypeInv /\ DescentInv /\ AloneInv /\ [Next]_vars => (TypeInv /\ DescentInv /\ AloneInv)'
  BY TypeNext, AloneNext
<1>3. AloneInv => OneRunner
  BY AloneImplied
<1> QED
  BY <1>1, <1>2, <1>3, PTL DEF Spec

-----------------------------------------------------------------------------
(* What has been awaited is gone *)

Ours(r, s) == Running(s) /\ ctr[s].by = r

\* The containers that a run has running are those of its item that it has not
\* awaited, unless it has left them behind or docker has misreported one.
GoneAt(r) ==
  /\ cmd[r].pc \in {"idle", "gc", "spawn"} => run[r].pc = "none"
  /\ \A s \in Session : Ours(r, s) =>
       \/ r \in lied
       \/ /\ run[r].pc \in {"launch", "wait"}
          /\ \E k \in (run[r].got + 1)..run[r].launched : s = SessionAt(r, k)
       \/ run[r].pc = "end" /\ run[r].outcome \in {"launch", "interrupted"}
       \/ run[r].pc \in {"ended", "dead"}
  /\ run[r].pc \in {"none", "boot", "init"} => \A s \in Session : ~Ours(r, s)

GoneInv == \A r \in Run : GoneAt(r)

\* A run is not concerned by steps that leave its record and its command alone and
\* start no container of its own.
LEMMA GoneOther ==
  ASSUME NEW q \in Run, GoneAt(q), run'[q] = run[q], lied \subseteq lied',
         cmd'[q].pc \in {"idle", "gc", "spawn"} => cmd[q].pc \in {"idle", "gc", "spawn"},
         \A s \in Session : Ours(q, s)' => Ours(q, s)
  PROVE  GoneAt(q)'
BY DEF GoneAt, SessionAt

LEMMA GoneContainer ==
  ASSUME TypeInv, GoneInv, NEW s \in Session, Container(s)
  PROVE  GoneInv'
<1>1. UNCHANGED <<cmd, run, lied>>
  BY DEF Container, BootStaged, BootRefused, BootDies, WorkEmpty, WorkDies, WorkCommitted,
       host, bounded
<1>2. \/ ctr' = [ctr EXCEPT ![s] = NoContainer]
      \/ Running(s) /\ ctr' = [ctr EXCEPT ![s].phase = "work"]
  BY DEF Container, BootStaged, BootRefused, BootDies, WorkEmpty, WorkDies, WorkCommitted, Exit, Running
<1>3. \A q \in Run, t \in Session : Ours(q, t)' => Ours(q, t)
  <2> DEFINE Ctr == [phase : {"none", "boot", "work"}, base : Commit, by : Run \cup {NoPid}]
  <2>1. ctr \in [Session -> Ctr]
    BY DEF TypeInv, StoreInv
  <2>2. CASE ctr' = [ctr EXCEPT ![s] = NoContainer]
    BY <2>1, <2>2 DEF Ours, Running, NoContainer
  <2>3. CASE Running(s) /\ ctr' = [ctr EXCEPT ![s].phase = "work"]
    <3>1. ctr'[s].by = ctr[s].by /\ \A t \in Session : t # s => ctr'[t] = ctr[t]
      BY <2>1, <2>3
    <3> QED
      BY <2>3, <3>1 DEF Ours, Running
  <2> QED
    BY <1>2, <2>2, <2>3
<1> QED
  BY <1>1, <1>3, GoneOther DEF GoneInv

LEMMA GoneCommand ==
  ASSUME TypeInv, GoneInv, NEW r \in Run,
         \/ \E doc \in Docs, anchor \in Anchors : Start(r, doc, anchor) \/ StartAttached(r, doc, anchor)
         \/ Command(r)
  PROVE  GoneInv'
<1>1. /\ run \in [Run -> RunRecord] /\ cmd \in [Run -> CmdRecord] /\ GoneAt(r)
      /\ UNCHANGED <<ctr, lied>> /\ \A q \in Run : q # r => run'[q] = run[q] /\ cmd'[q] = cmd[q]
  BY DEF TypeInv, RunInv, HostInv, GoneInv, Start, StartAttached, Command, GcOrRefuse, Spawn,
         RecordPid, bounded
<1>2. \A q \in Run, s \in Session : Ours(q, s)' => Ours(q, s)
  BY <1>1 DEF Ours, Running
<1>3. \A q \in Run : q # r => GoneAt(q)'
  BY <1>1, <1>2, GoneOther DEF GoneInv
<1>4. GoneAt(r)'
  <2>1. CASE run' = run /\ (cmd'[r].pc \in {"idle", "gc", "spawn"} =>
                              cmd[r].pc \in {"idle", "gc", "spawn"})
    BY <1>1, <1>2, <2>1, GoneOther
  <2>2. CASE /\ cmd[r].pc \in {"idle", "spawn"} /\ cmd'[r].pc \notin {"idle", "gc", "spawn"}
             /\ run'[r].pc \in {"init", "boot"}
    BY <1>1, <1>2, <2>2 DEF GoneAt
  <2>3. ASSUME NEW doc, NEW anchor, Start(r, doc, anchor) PROVE GoneAt(r)'
    BY <1>1, <2>1, <2>3 DEF Start, Given
  <2>4. ASSUME NEW doc, NEW anchor, StartAttached(r, doc, anchor) PROVE GoneAt(r)'
    BY <1>1, <2>2, <2>4 DEF StartAttached, Given, NoRun, CmdRecord
  <2>5. CASE GcOrRefuse(r) \/ RecordPid(r)
    BY <1>1, <2>1, <2>5 DEF GcOrRefuse, RecordPid, CmdRecord
  <2>6. CASE Spawn(r)
    BY <1>1, <2>2, <2>6 DEF Spawn, NoRun, CmdRecord
  <2> QED
    BY <2>3, <2>4, <2>5, <2>6 DEF Command
<1> QED
  BY <1>3, <1>4 DEF GoneInv

\* What a step of a runner leaves to be shown: that its own containers are right.
LEMMA GoneOthers ==
  ASSUME TypeInv, GoneInv, NEW r \in Run, Runner(r) \/ Interrupt(r) \/ Kill(r)
  PROVE  /\ cmd' = cmd /\ lied \subseteq lied'
         /\ \A q \in Run : q # r => GoneAt(q)'
<1>1. cmd' = cmd /\ \A q \in Run : q # r => run'[q] = run[q]
  BY RunnerAlone DEF Alone
<1>2. lied \subseteq lied'
  BY DEF Runner, Boot, InitialiseBranch, Launch, AgentGone, PsFails, TimeOut, AdvanceBranch, End,
         Interrupt, Kill, bounded
<1>3. \/ ctr' = ctr \/ \E s : ctr' = [ctr EXCEPT ![s] = NoContainer]
      \/ \E s : ctr' = [ctr EXCEPT ![s] = [phase |-> "boot", base |-> branch, by |-> r]]
  BY DEF Runner, Boot, InitialiseBranch, Launch, AgentGone, PsFails, TimeOut, AdvanceBranch, End,
         Interrupt, Kill
<1>4. \A q \in Run, t \in Session : q # r /\ Ours(q, t)' => Ours(q, t)
  <2> DEFINE Ctr == [phase : {"none", "boot", "work"}, base : Commit, by : Run \cup {NoPid}]
  <2>1. ctr \in [Session -> Ctr]
    BY DEF TypeInv, StoreInv
  <2> QED
    BY <1>3, <2>1 DEF Ours, Running, NoContainer
<1> QED
  BY <1>1, <1>2, <1>4, GoneOther DEF GoneInv

\* Once a run has nothing running, it may be anywhere.
LEMMA NothingLeft ==
  ASSUME NEW r \in Run, GoneAt(r), cmd'[r].pc \in {"idle", "gc", "spawn"} => run'[r].pc = "none",
         \A s \in Session : ~Ours(r, s)'
  PROVE  GoneAt(r)'
BY DEF GoneAt

\* A run that has left its containers behind needs no more of them.
LEMMA LeftBehind ==
  ASSUME NEW r \in Run, GoneAt(r), cmd'[r].pc \notin {"idle", "gc", "spawn"},
         \/ run'[r].pc = "end" /\ run'[r].outcome \in {"launch", "interrupted"}
         \/ run'[r].pc \in {"ended", "dead"}
  PROVE  GoneAt(r)'
BY DEF GoneAt

LEMMA OnlyLied ==
  ASSUME NEW r \in Run, cmd'[r].pc \notin {"idle", "gc", "spawn"},
         run'[r].pc \notin {"none", "boot", "init"}, \A s \in Session : Ours(r, s)' => r \in lied'
  PROVE  GoneAt(r)'
BY DEF GoneAt

LEMMA SavedPc ==
  ASSUME RunInv, NEW r \in Run, NEW new, Save(r, new)
  PROVE  run'[r] = new \/ run'[r].pc = "dead"
<1>1. Dead(r).pc = "dead"
  BY DEF Dead, NoRun
<1> QED
  BY <1>1 DEF RunInv, Save

LEMMA GoneLaunch ==
  ASSUME TypeInv, GoneInv, NEW r \in Run, Launch(r)
  PROVE  GoneAt(r)'
<1> DEFINE Ctr == [phase : {"none", "boot", "work"}, base : Commit, by : Run \cup {NoPid}]
           s == SessionAt(r, run[r].launched + 1)
<1>1. /\ run \in [Run -> RunRecord] /\ run[r] \in RunRecord /\ ctr \in [Session -> Ctr] /\ GoneAt(r)
      /\ run[r].pc = "launch" /\ UNCHANGED <<cmd, lied>>
      /\ run[r].got \in Nat /\ run[r].launched \in Nat /\ run[r].got <= run[r].launched
  BY DEF TypeInv, RunInv, RunOK, Counts, StoreInv, GoneInv, Launch, host, bounded, RunRecord
<1>2. cmd[r].pc \notin {"idle", "gc", "spawn"}
  BY <1>1 DEF GoneAt
<1>3. CASE run' = [run EXCEPT ![r].pc = "end", ![r].outcome = "launch"]
  <2>1. run'[r].pc = "end" /\ run'[r].outcome = "launch"
    BY <1>1, <1>3 DEF RunRecord
  <2> QED
    BY <1>1, <1>2, <2>1, LeftBehind
<1>4. ASSUME NEW pc \in {"launch", "wait"},
             run' = [run EXCEPT ![r].launched = @ + 1, ![r].pc = pc],
             ctr' = [ctr EXCEPT ![s] = [phase |-> "boot", base |-> branch, by |-> r]]
      PROVE  GoneAt(r)'
  <2>1. /\ run'[r].pc = pc /\ run'[r].launched = run[r].launched + 1 /\ run'[r].got = run[r].got
        /\ run'[r].doc = run[r].doc /\ run'[r].item = run[r].item
    BY <1>1, <1>4 DEF RunRecord
  <2>2. \A k : SessionAt(r, k)' = SessionAt(r, k)
    BY <2>1 DEF SessionAt
  <2>3. ASSUME NEW t \in Session, Ours(r, t)', r \notin lied
        PROVE  \E k \in (run'[r].got + 1)..run'[r].launched : t = SessionAt(r, k)'
    <3>1. CASE t = s
      <4>1. run[r].launched + 1 \in (run'[r].got + 1)..run'[r].launched
        BY <1>1, <2>1
      <4> QED
        BY <2>2, <3>1, <4>1
    <3>2. CASE t # s
      <4>1. Ours(r, t)
        BY <1>1, <1>4, <2>3, <3>2 DEF Ours, Running
      <4>2. PICK k \in (run[r].got + 1)..run[r].launched : t = SessionAt(r, k)
        BY <1>1, <2>3, <4>1 DEF GoneAt
      <4>3. k \in (run'[r].got + 1)..run'[r].launched
        BY <1>1, <2>1, <4>2
      <4> QED
        BY <2>2, <4>2, <4>3
    <3> QED
      BY <3>1, <3>2
  <2> QED
    BY <1>1, <1>2, <2>1, <2>3 DEF GoneAt
<1>5. \/ run' = [run EXCEPT ![r].pc = "end", ![r].outcome = "launch"]
      \/ /\ \E pc \in {"launch", "wait"} : run' = [run EXCEPT ![r].launched = @ + 1, ![r].pc = pc]
         /\ ctr' = [ctr EXCEPT ![s] = [phase |-> "boot", base |-> branch, by |-> r]]
  BY DEF Launch
<1> QED
  BY <1>3, <1>4, <1>5

\* A result is taken of a session that is not running any more, or docker has lied.
LEMMA GoneCollect ==
  ASSUME TypeInv, GoneInv, NEW r \in Run,
         AgentGone(r) \/ PsFails(r) \/ \E stopped \in BOOLEAN : TimeOut(r, stopped)
  PROVE  GoneAt(r)'
<1> DEFINE Ctr == [phase : {"none", "boot", "work"}, base : Commit, by : Run \cup {NoPid}]
           x == run[r]
           all == Len(Current(r).steps)
<1>1. /\ RunInv /\ run \in [Run -> RunRecord] /\ x \in RunRecord /\ ctr \in [Session -> Ctr]
      /\ GoneAt(r) /\ x.pc = "wait" /\ cmd' = cmd
      /\ x.got \in Nat /\ x.launched = all /\ x.launched \in Nat /\ x.got < all
  BY DEF TypeInv, RunInv, RunOK, Counts, StoreInv, GoneInv, AgentGone, PsFails, TimeOut,
         RunRecord, Current
<1>2. cmd'[r].pc \notin {"idle", "gc", "spawn"}
  BY <1>1 DEF GoneAt
<1>3. PICK status : Collect(r, status)
  BY DEF AgentGone, PsFails, TimeOut
<1>4. lied \subseteq lied' /\ (r \notin lied' =>
        \A t \in Session : Ours(r, t)' => Ours(r, t) /\ t # Awaited(r))
  <2>1. CASE AgentGone(r)
    BY <2>1 DEF AgentGone, bounded, Ours, Running
  <2>2. CASE PsFails(r)
    BY <2>2 DEF PsFails
  <2>3. ASSUME NEW stopped \in BOOLEAN, TimeOut(r, stopped)
        PROVE  lied \subseteq lied' /\ (r \notin lied' =>
                 \A t \in Session : Ours(r, t)' => Ours(r, t) /\ t # Awaited(r))
    <3>1. \/ r \in lied' /\ lied \subseteq lied'
          \/ lied' = lied /\ ctr' = [ctr EXCEPT ![Awaited(r)] = NoContainer]
      BY <2>3 DEF TimeOut
    <3> QED
      BY <1>1, <3>1 DEF Ours, Running, NoContainer
  <2> QED
    BY <2>1, <2>2, <2>3
<1> DEFINE new == [x EXCEPT !.got = @ + 1, !.failed = @ \/ status \notin Ok,
                      !.seen = @ \cup {Current(r).steps[x.got + 1].name}]
<1>5. /\ new.got = x.got + 1 /\ new.pc = "wait" /\ new.launched = x.launched
      /\ new.doc = x.doc /\ new.item = x.item
      /\ [new EXCEPT !.pc = "end", !.outcome = "failed"].pc = "end"
      /\ [new EXCEPT !.pc = "advance"].pc = "advance"
  BY <1>1 DEF RunRecord
<1>6. \/ x.got + 1 < all /\ run' = [run EXCEPT ![r] = new]
      \/ /\ ~(x.got + 1 < all)
         /\ \/ Save(r, [new EXCEPT !.pc = "end", !.outcome = "failed"])
            \/ Save(r, [new EXCEPT !.pc = "advance"])
  BY <1>3, <1>5 DEF Collect
<1> HIDE DEF new
<1>7. ASSUME NEW t \in Session, Ours(r, t)', r \notin lied'
      PROVE  \E k \in (x.got + 2)..x.launched : t = SessionAt(r, k)
  <2>1. Ours(r, t) /\ t # Awaited(r) /\ r \notin lied
    BY <1>4, <1>7
  <2>2. PICK k \in (x.got + 1)..x.launched : t = SessionAt(r, k)
    BY <1>1, <2>1 DEF GoneAt
  <2>3. k # x.got + 1
    BY <2>1, <2>2 DEF Awaited
  <2> QED
    BY <1>1, <2>2, <2>3
<1>8. CASE x.got + 1 < all /\ run' = [run EXCEPT ![r] = new]
  <2>1. /\ run'[r].got = x.got + 1 /\ run'[r].pc = "wait" /\ run'[r].launched = x.launched
        /\ run'[r].doc = x.doc /\ run'[r].item = x.item
    BY <1>1, <1>5, <1>8
  <2>2. \A k : SessionAt(r, k)' = SessionAt(r, k)
    BY <2>1 DEF SessionAt
  <2>3. x.got + 2 = run'[r].got + 1
    BY <1>1, <2>1
  <2> QED
    BY <1>2, <1>7, <2>1, <2>2, <2>3 DEF GoneAt
<1>9. CASE ~(x.got + 1 < all) /\ (\/ Save(r, [new EXCEPT !.pc = "end", !.outcome = "failed"])
                                 \/ Save(r, [new EXCEPT !.pc = "advance"]))
  <2>1. run'[r].pc \in {"end", "advance", "dead"}
    BY <1>1, <1>5, <1>9, SavedPc
  <2>2. \A t \in Session : Ours(r, t)' => r \in lied'
    BY <1>1, <1>7, <1>9
  <2> QED
    BY <1>2, <2>1, <2>2, OnlyLied
<1> QED
  BY <1>6, <1>8, <1>9

LEMMA GoneRunner ==
  ASSUME TypeInv, GoneInv, NEW r \in Run, Runner(r) \/ Interrupt(r) \/ Kill(r)
  PROVE  GoneInv'
<1>1. /\ cmd' = cmd /\ lied \subseteq lied'
      /\ \A q \in Run : q # r => GoneAt(q)'
  BY GoneOthers
<1>2. /\ RunInv /\ run \in [Run -> RunRecord] /\ run[r] \in RunRecord /\ GoneAt(r)
  BY DEF TypeInv, RunInv, GoneInv
<1>3. cmd'[r].pc \notin {"idle", "gc", "spawn"}
  BY <1>1, <1>2 DEF GoneAt, Runner, Boot, InitialiseBranch, Launch, AgentGone, PsFails, TimeOut,
       AdvanceBranch, End, Interrupt, Kill
<1>4. CASE Boot(r) \/ InitialiseBranch(r)
  <2>1. ctr' = ctr /\ run[r].pc \in {"boot", "init"}
    BY <1>4 DEF Boot, InitialiseBranch
  <2>2. \A s \in Session : ~Ours(r, s)'
    BY <1>2, <2>1 DEF GoneAt, Ours, Running
  <2> QED
    BY <1>1, <1>2, <1>3, <2>2, NothingLeft DEF GoneInv
<1>5. CASE AdvanceBranch(r)
  <2> DEFINE ended(outcome) == [run EXCEPT ![r].pc = "end", ![r].outcome = outcome]
  <2>1. ctr' = ctr /\ lied' = lied /\ run[r].pc = "advance"
    BY <1>5 DEF AdvanceBranch, bounded
  <2>2. \A s \in Session : Ours(r, s)' => r \in lied'
    BY <1>2, <2>1 DEF GoneAt, Ours, Running
  <2>3. Save(r, Begun(run[r], run[r].item + 1)) \/ \E outcome : run' = ended(outcome)
    BY <1>5 DEF AdvanceBranch
  <2>4. /\ Begun(run[r], run[r].item + 1).pc = "launch"
        /\ \A outcome : ended(outcome)[r].pc = "end"
    BY <1>2 DEF Begun, RunRecord
  <2>5. run'[r].pc \in {"launch", "end", "dead"}
    <3>1. CASE Save(r, Begun(run[r], run[r].item + 1))
      <4>1. run'[r] = Begun(run[r], run[r].item + 1) \/ run'[r].pc = "dead"
        BY <1>2, <3>1, SavedPc
      <4> QED
        BY <2>4, <4>1
    <3>2. CASE \E outcome : run' = ended(outcome)
      <4>1. run'[r].pc = "end"
        BY <2>4, <3>2
      <4> QED
        BY <4>1
    <3> QED
      BY <2>3, <3>1, <3>2
  <2> QED
    BY <1>1, <1>3, <2>2, <2>5, OnlyLied DEF GoneInv
<1>6. CASE End(r)
  <2> DEFINE new == [run[r] EXCEPT !.pc = "ended", !.item = 1, !.fed = {}, !.seen = {},
                       !.launched = 0, !.got = 0, !.failed = FALSE,
                       !.outcome = IF @ = "success" THEN @ ELSE "failed"]
  <2>1. Save(r, new) /\ new.pc = "ended"
    BY <1>2, <1>6 DEF End, RunRecord
  <2> HIDE DEF new
  <2>2. run'[r].pc \in {"ended", "dead"}
    BY <1>2, <2>1, SavedPc
  <2> QED
    BY <1>1, <1>2, <1>3, <2>2, LeftBehind DEF GoneInv
<1>7. CASE Interrupt(r) \/ Kill(r)
  <2>1. \/ run'[r].pc = "end" /\ run'[r].outcome = "interrupted"
        \/ run'[r].pc = "dead"
    <3>1. CASE Interrupt(r)
      BY <1>2, <3>1 DEF Interrupt, RunRecord
    <3>2. CASE Kill(r)
      <4>1. run'[r] = Dead(r) /\ Dead(r).pc = "dead"
        BY <1>2, <3>2 DEF Kill, Dead, NoRun
      <4> QED
        BY <4>1
    <3> QED
      BY <1>7, <3>1, <3>2
  <2> QED
    BY <1>1, <1>2, <1>3, <2>1, LeftBehind DEF GoneInv
<1> QED
  BY <1>1, <1>4, <1>5, <1>6, <1>7, GoneLaunch, GoneCollect DEF GoneInv, Runner

LEMMA GoneInit == Init => GoneInv
BY DEF Init, GoneInv, GoneAt, Ours, Running, NoContainer, NoRun

LEMMA GoneNext ==
  ASSUME TypeInv, GoneInv, [Next]_vars
  PROVE  GoneInv'
<1>1. CASE UNCHANGED vars
  BY <1>1 DEF vars, GoneInv, GoneAt, Ours, Running, SessionAt
<1> QED
  BY <1>1, GoneCommand, GoneRunner, GoneContainer DEF Next

\* Once an item's results are in, nothing its run launched is running.
THEOREM AwaitedIsGone == Spec => []WaitedIsGone
<1>1. Init => TypeInv /\ DescentInv /\ GoneInv
  BY TypeInit, DescentInit, GoneInit
<1>2. TypeInv /\ DescentInv /\ GoneInv /\ [Next]_vars => (TypeInv /\ DescentInv /\ GoneInv)'
  BY TypeNext, GoneNext
<1>3. GoneInv => WaitedIsGone
  BY DEF GoneInv, GoneAt, Ours, WaitedIsGone
<1> QED
  BY <1>1, <1>2, <1>3, PTL DEF Spec

-----------------------------------------------------------------------------
(* What has been done is on the branch *)

\* A session is in none of its later phases before it has staged.
StagedInv == \A s \in Session : s \notin spaces => mark[s] = NoMark /\ ctr[s].phase # "work"

\* The session's commit, if it has one, adds its change to what the branch has, and
\* so does any it will yet make.
Above(s) ==
  /\ mark[s] = NoMark \/ mark[s].at = branch \cup {s}
  /\ Running(s) => ctr[s].base = branch

\* Of a run that is not entangled: nobody else is about to move the branch, what it
\* has launched is right above the branch, and what it has gone past is on it.
KeptAt(r) ==
  r \notin entangled =>
    /\ Alive(r) => \A q \in Run \ {r} : ~Alive(q)
    /\ \A i \in DoneItems(r) : SessionOf(run[r].doc, i, 1) \in branch
    /\ run[r].pc \in {"launch", "wait", "advance"} =>
         \A k \in 1..run[r].launched : Above(SessionAt(r, k))
  
KeptInv == \A r \in Run : KeptAt(r)

\* A run that is not alive needs only that the branch keeps what it has.
LEMMA KeptDead ==
  ASSUME NEW r \in Run, KeptAt(r), ~Alive(r), run'[r] = run[r],
         branch \subseteq branch', entangled \subseteq entangled'
  PROVE  KeptAt(r)'
<1>1. r # NoPid
  BY DEF Run, NoPid
<1>2. run'[r].pc \in {"none", "ended", "dead"}
  BY <1>1 DEF Alive
<1>3. DoneItems(r)' = DoneItems(r)
  BY DEF DoneItems
<1> QED
  BY <1>2, <1>3 DEF KeptAt, Alive

LEMMA LaunchedKnown ==
  ASSUME TypeInv, NEW r \in Run, run[r].pc \in {"launch", "wait", "advance"}
  PROVE  /\ run[r].launched \in Nat /\ 1 <= Len(Current(r).steps)
         /\ run[r].pc \in {"wait", "advance"} => run[r].launched = Len(Current(r).steps)
         /\ \A k \in 1..run[r].launched : SessionAt(r, k) \in Session
<1>1. RunOK(run[r]) /\ Accepted(run[r].doc, run[r].anchor) /\ run[r].item \in DOMAIN run[r].doc
  BY DEF TypeInv, RunInv, RunOK, Counts
<1>2. /\ Len(Current(r).steps) \in Nat /\ 1 \in DOMAIN Current(r).steps
      /\ DOMAIN Current(r).steps = 1..Len(Current(r).steps)
  BY <1>1, DocShape DEF Current
<1>3. run[r].launched \in Nat /\ run[r].launched <= Len(Current(r).steps)
  BY <1>1, <1>2 DEF RunOK, RunRecord, Counts, Current
<1>4. \A k \in 1..run[r].launched : k \in DOMAIN Current(r).steps
  BY <1>2, <1>3
<1>5. \A k \in 1..run[r].launched : SessionAt(r, k) \in Session
  BY <1>1, <1>4, SessionKnown DEF Accepted, SessionAt, Current
<1> QED
  BY <1>1, <1>2, <1>3, <1>5 DEF RunOK, Counts, Current

LEMMA StagedNext ==
  ASSUME TypeInv, StagedInv, [Next]_vars
  PROVE  StagedInv'
<1> DEFINE Mark == [at : Commit, summary : {"none", "success", "failed"}]
           Ctr == [phase : {"none", "boot", "work"}, base : Commit, by : Run \cup {NoPid}]
<1>1. mark \in [Session -> Mark] /\ ctr \in [Session -> Ctr]
  BY DEF TypeInv, StoreInv
<1>2. CASE UNCHANGED <<mark, spaces, ctr>>
  BY <1>2 DEF StagedInv
<1>3. ASSUME NEW r \in Run, Launch(r) PROVE StagedInv'
  <2>1. /\ UNCHANGED <<mark, spaces>>
        /\ \/ ctr' = ctr
           \/ \E s : ctr' = [ctr EXCEPT ![s] = [phase |-> "boot", base |-> branch, by |-> r]]
    BY <1>3 DEF Launch, store
  <2> QED
    BY <1>1, <2>1 DEF StagedInv
<1>4. ASSUME NEW r \in Run, NEW stopped, TimeOut(r, stopped) PROVE StagedInv'
  <2>1. /\ UNCHANGED <<mark, spaces>>
        /\ ctr' = ctr \/ ctr' = [ctr EXCEPT ![Awaited(r)] = NoContainer]
    BY <1>4 DEF TimeOut, store
  <2> QED
    BY <1>1, <2>1 DEF StagedInv, NoContainer
<1>5. ASSUME NEW r \in Run, AdvanceBranch(r) PROVE StagedInv'
  <2>1. /\ UNCHANGED <<ctr, spaces>>
        /\ \A s \in Session : mark'[s] \in {mark[s], NoMark}
    BY <1>1, <1>5 DEF AdvanceBranch
  <2> QED
    BY <2>1 DEF StagedInv
<1>6. ASSUME NEW s \in Session, Container(s) PROVE StagedInv'
  <2>1. CASE BootStaged(s)
    BY <1>1, <2>1 DEF BootStaged, StagedInv
  <2>2. CASE BootRefused(s) \/ BootDies(s) \/ WorkDies(s)
    <3>1. mark' = mark /\ spaces \subseteq spaces' /\ ctr' = [ctr EXCEPT ![s] = NoContainer]
      BY <2>2 DEF BootRefused, BootDies, WorkDies, Exit, store
    <3> QED
      BY <1>1, <3>1 DEF StagedInv, NoContainer
  <2>3. CASE WorkEmpty(s) \/ \E status \in {"success", "failed"} : WorkCommitted(s, status)
    <3>1. /\ ctr[s].phase = "work" /\ spaces' = spaces
          /\ ctr' = [ctr EXCEPT ![s] = NoContainer]
          /\ \A t \in Session \ {s} : mark'[t] = mark[t]
      BY <1>1, <2>3 DEF WorkEmpty, WorkCommitted, Exit
    <3> QED
      BY <1>1, <3>1 DEF StagedInv, NoContainer
  <2> QED
    BY <1>6, <2>1, <2>2, <2>3 DEF Container
<1>7. ASSUME NEW r \in Run,
             \/ \E doc \in Docs, anchor \in Anchors : Start(r, doc, anchor) \/ StartAttached(r, doc, anchor)
             \/ Command(r) \/ Boot(r) \/ InitialiseBranch(r) \/ AgentGone(r) \/ PsFails(r) \/ End(r)
             \/ Interrupt(r) \/ Kill(r)
      PROVE  UNCHANGED <<mark, spaces, ctr>>
  BY <1>7 DEF Start, StartAttached, Command, GcOrRefuse, Spawn, RecordPid, Boot, InitialiseBranch,
     AgentGone, PsFails, End, Interrupt, Kill, store
<1>8. CASE UNCHANGED vars
  BY <1>2, <1>8 DEF vars
<1> QED
  BY <1>2, <1>3, <1>4, <1>5, <1>6, <1>7, <1>8 DEF Next, Runner

\* A container moves its own bookmark, and only to right above its base.
LEMMA KeptContainer ==
  ASSUME TypeInv, KeptInv, NEW s \in Session, Container(s)
  PROVE  KeptInv'
<1> DEFINE Mark == [at : Commit, summary : {"none", "success", "failed"}]
           Ctr == [phase : {"none", "boot", "work"}, base : Commit, by : Run \cup {NoPid}]
<1>1. mark \in [Session -> Mark] /\ ctr \in [Session -> Ctr]
  BY DEF TypeInv, StoreInv
<1>2. UNCHANGED <<run, branch, entangled>>
  BY DEF Container, BootStaged, BootRefused, BootDies, WorkEmpty, WorkDies, WorkCommitted,
         store, bounded
<1>3. Running(s)
  BY DEF Container, BootStaged, BootRefused, BootDies, WorkEmpty, WorkDies, WorkCommitted, Running
<1>4. ASSUME NEW t \in Session, Above(t) PROVE Above(t)'
  <2>1. CASE t # s
    <3>1. mark'[t] = mark[t] /\ ctr'[t] = ctr[t]
      BY <1>1, <2>1 DEF Container, BootStaged, BootRefused, BootDies, WorkEmpty, WorkDies,
         WorkCommitted, Exit, store
    <3> QED
      BY <1>2, <1>4, <3>1 DEF Above, Running
  <2>2. CASE t = s
    <3>1. ctr'[s] = NoContainer \/ ctr'[s].base = ctr[s].base
      BY <1>1 DEF Container, BootStaged, BootRefused, BootDies, WorkEmpty, WorkDies,
         WorkCommitted, Exit
    <3>2. mark'[s].at = Tip(s) \/ mark'[s] = mark[s] \/ (mark[s] # NoMark /\ mark'[s].at = mark[s].at)
      BY <1>1 DEF Container, BootStaged, BootRefused, BootDies, WorkEmpty, WorkDies,
         WorkCommitted, store
    <3>3. Tip(s) = branch \cup {s}
      BY <1>3, <1>4, <2>2 DEF Above, Tip
    <3> QED
      BY <1>2, <1>3, <1>4, <2>2, <3>1, <3>2, <3>3 DEF Above, Running, NoContainer
  <2> QED
    BY <2>1, <2>2
<1>5. ASSUME NEW r \in Run, KeptAt(r) PROVE KeptAt(r)'
  <2>1. /\ Alive(r)' = Alive(r) /\ \A q \in Run : Alive(q)' = Alive(q)
        /\ DoneItems(r)' = DoneItems(r) /\ \A k : SessionAt(r, k)' = SessionAt(r, k)
    BY <1>2 DEF Alive, DoneItems, SessionAt
  <2>2. run[r].pc \in {"launch", "wait", "advance"} =>
          \A k \in 1..run[r].launched : SessionAt(r, k) \in Session
    BY LaunchedKnown
  <2> QED
    BY <1>2, <1>4, <1>5, <2>1, <2>2 DEF KeptAt
<1> QED
  BY <1>5 DEF KeptInv

LEMMA KeptBegun ==
  ASSUME TypeInv, KeptInv, NEW r \in Run, mark' = mark, branch' = branch, ctr' = ctr,
         Meets(r), NEW new, new.pc = "init" \/ new.pc = "boot", new.item = 1, new.outcome = "none",
         run' = [run EXCEPT ![r] = new]
  PROVE  KeptInv'
<1>0. run \in [Run -> RunRecord]
  BY DEF TypeInv, RunInv
<1> DEFINE others == {q \in Run \ {r} : Alive(q)}
<1>1. run'[r] = new /\ \A q \in Run \ {r} : run'[q] = run[q] /\ (Alive(q)' <=> Alive(q))
  BY <1>0 DEF Alive
<1>2. /\ entangled \subseteq entangled'
      /\ others # {} => others \cup {r} \subseteq entangled'
  BY DEF Meets
<1>3. ASSUME NEW q \in Run \ {r} PROVE KeptAt(q)'
  <2>1. CASE Alive(q)
    BY <1>2, <2>1 DEF KeptAt
  <2>2. CASE ~Alive(q)
    BY <1>0, <1>1, <1>2, <2>2, KeptDead DEF KeptInv
  <2> QED
    BY <2>1, <2>2
<1>4. KeptAt(r)'
  <2>1. DoneItems(r)' = {}
    BY <1>1 DEF DoneItems
  <2> QED
    BY <1>1, <1>2, <2>1 DEF KeptAt
<1> QED
  BY <1>3, <1>4 DEF KeptInv

\* A run that begins finds itself alone, or is entangled with whoever else is there.
LEMMA KeptCommand ==
  ASSUME TypeInv, KeptInv, NEW r \in Run,
         \/ \E doc \in Docs, anchor \in Anchors : Start(r, doc, anchor) \/ StartAttached(r, doc, anchor)
         \/ Command(r)
  PROVE  KeptInv'
<1>1. run \in [Run -> RunRecord] /\ mark' = mark /\ branch' = branch /\ ctr' = ctr
  BY DEF TypeInv, RunInv, Start, StartAttached, Command, GcOrRefuse, Spawn, RecordPid, store
<1>2. CASE UNCHANGED <<run, entangled>>
  <2>1. ASSUME NEW q \in Run PROVE KeptAt(q)'
    <3>1. KeptAt(q)
      BY DEF KeptInv
    <3> QED
      BY <1>1, <1>2, <3>1 DEF KeptAt, Alive, DoneItems, SessionAt, Above, Running
  <2> QED
    BY <2>1 DEF KeptInv
<1>3. ASSUME NEW doc, NEW anchor, StartAttached(r, doc, anchor) PROVE KeptInv'
  <2> DEFINE new == [NoRun EXCEPT !.pc = "init", !.attached = TRUE, !.doc = doc, !.anchor = anchor]
  <2>1. new.pc = "init" /\ new.item = 1 /\ new.outcome = "none"
    BY DEF NoRun
  <2>2. run' = [run EXCEPT ![r] = new] /\ Meets(r)
    BY <1>3 DEF StartAttached
  <2> QED
    BY <1>1, <2>1, <2>2, KeptBegun, Zenon
<1>4. CASE Spawn(r)
  <2> DEFINE new == [NoRun EXCEPT !.pc = "boot"]
  <2>1. new.pc = "boot" /\ new.item = 1 /\ new.outcome = "none"
    BY DEF NoRun
  <2>2. run' = [run EXCEPT ![r] = new] /\ Meets(r)
    BY <1>4 DEF Spawn
  <2> QED
    BY <1>1, <2>1, <2>2, KeptBegun, Zenon
<1>5. ASSUME GcOrRefuse(r) \/ RecordPid(r) \/ \E doc, anchor : Start(r, doc, anchor)
      PROVE  UNCHANGED <<run, entangled>>
  BY <1>5 DEF GcOrRefuse, RecordPid, Start, bounded
<1> QED
  BY <1>2, <1>3, <1>4, <1>5 DEF Command

\* While a runner moves, it is the only one, or it and the others are entangled.
LEMMA KeptOthers ==
  ASSUME TypeInv, KeptInv, NEW r \in Run, Runner(r) \/ Interrupt(r) \/ Kill(r),
         branch \subseteq branch'
  PROVE  /\ entangled \subseteq entangled' /\ Alive(r)
         /\ \A q \in Run : q # r => KeptAt(q)'
         /\ r \notin entangled => \A q \in Run \ {r} : ~Alive(q)
<1>1. Alive(r)
  BY DEF Runner, Boot, InitialiseBranch, Launch, AgentGone, PsFails, TimeOut, AdvanceBranch, End,
         Interrupt, Kill, Alive, Run, NoPid
<1>2. \A q \in Run : q # r => run'[q] = run[q] /\ (Alive(q)' <=> Alive(q))
  BY RunnerAlone DEF Alone, Alive
<1>3. entangled \subseteq entangled'
  BY DEF Runner, Boot, InitialiseBranch, Launch, AgentGone, PsFails, TimeOut, AdvanceBranch, End,
         Interrupt, Kill, bounded
<1>4. ASSUME NEW q \in Run, q # r PROVE KeptAt(q)'
  <2>1. CASE Alive(q)
    <3>1. q \in entangled
      BY <1>1, <1>4, <2>1 DEF KeptInv, KeptAt
    <3> QED
      BY <1>3, <3>1 DEF KeptAt
  <2>2. CASE ~Alive(q)
    BY <1>2, <1>3, <1>4, <2>2, KeptDead DEF KeptInv
  <2> QED
    BY <2>1, <2>2
<1> QED
  BY <1>1, <1>2, <1>3, <1>4 DEF KeptInv, KeptAt

\* A run that has no item in hand and has gone past none has nothing to keep.
LEMMA KeptNothing ==
  ASSUME NEW r \in Run, KeptAt(r), \A q \in Run \ {r} : run'[q] = run[q],
         r \notin entangled => \A q \in Run \ {r} : ~Alive(q), entangled \subseteq entangled',
         run'[r].outcome # "success", run'[r].item = 1,
         run'[r].pc \in {"launch", "wait", "advance"} => run'[r].launched = 0
  PROVE  KeptAt(r)'
<1>1. DoneItems(r)' = {}
  BY DEF DoneItems
<1>2. \A q \in Run \ {r} : Alive(q)' <=> Alive(q)
  BY DEF Alive
<1> QED
  BY <1>1, <1>2 DEF KeptAt

\* A run that stops keeps what it has gone past.
LEMMA KeptStopped ==
  ASSUME NEW r \in Run, KeptAt(r), \A q \in Run \ {r} : run'[q] = run[q], branch' = branch,
         r \notin entangled => \A q \in Run \ {r} : ~Alive(q), entangled \subseteq entangled',
         run'[r].pc \notin {"launch", "wait", "advance"},
         run'[r].doc = run[r].doc, DoneItems(r)' \subseteq DoneItems(r)
  PROVE  KeptAt(r)'
<1>1. \A q \in Run \ {r} : Alive(q)' <=> Alive(q)
  BY DEF Alive
<1> QED
  BY <1>1 DEF KeptAt

\* Until its last launch a run has a next session.
LEMMA NextKnown ==
  ASSUME TypeInv, NEW r \in Run, run[r].pc = "launch"
  PROVE  SessionAt(r, run[r].launched + 1) \in Session
<1>1. /\ RunOK(run[r]) /\ Accepted(run[r].doc, run[r].anchor) /\ run[r].item \in DOMAIN run[r].doc
      /\ run[r].launched \in Nat
  BY DEF TypeInv, RunInv, RunOK, Counts, RunRecord
<1>2. run[r].launched + 1 \in DOMAIN run[r].doc[run[r].item].steps
  BY <1>1, DocShape DEF RunOK, Counts
<1> QED
  BY <1>1, <1>2, SessionKnown DEF Accepted, SessionAt

\* What is launched starts on the branch, and unless its name has been staged before
\* it has no bookmark yet.
LEMMA KeptLaunch ==
  ASSUME TypeInv, StagedInv, KeptInv, NEW r \in Run, Launch(r)
  PROVE  KeptAt(r)'
<1> DEFINE Ctr == [phase : {"none", "boot", "work"}, base : Commit, by : Run \cup {NoPid}]
           s == SessionAt(r, run[r].launched + 1)
<1>1. /\ run \in [Run -> RunRecord] /\ run[r] \in RunRecord /\ ctr \in [Session -> Ctr]
      /\ KeptAt(r) /\ run[r].pc = "launch" /\ run[r].outcome = "none"
      /\ UNCHANGED <<mark, branch, spaces>>
  BY DEF TypeInv, RunInv, RunOK, Counts, StoreInv, KeptInv, Launch, store
<1>2. /\ entangled \subseteq entangled'
      /\ \A q \in Run \ {r} : run'[q] = run[q]
      /\ r \notin entangled => \A q \in Run \ {r} : ~Alive(q)
  <2>1. Runner(r) /\ branch \subseteq branch'
    BY <1>1 DEF Runner
  <2>2. Alone(r)
    BY <2>1, RunnerAlone
  <2> QED
    BY <2>1, <2>2, KeptOthers DEF Alone
<1>3. CASE run' = [run EXCEPT ![r].pc = "end", ![r].outcome = "launch"]
  <2>1. /\ run'[r].pc = "end" /\ run'[r].outcome = "launch" /\ run'[r].item = run[r].item
        /\ run'[r].doc = run[r].doc
    BY <1>1, <1>3 DEF RunRecord
  <2>2. DoneItems(r)' = DoneItems(r)
    BY <1>1, <2>1 DEF DoneItems
  <2> QED
    BY <1>1, <1>2, <2>1, <2>2, KeptStopped
<1>4. ASSUME NEW pc \in {"launch", "wait"},
             run' = [run EXCEPT ![r].launched = @ + 1, ![r].pc = pc],
             ctr' = [ctr EXCEPT ![s] = [phase |-> "boot", base |-> branch, by |-> r]],
             s \in spaces => r \in entangled'
      PROVE  KeptAt(r)'
  <2>1. /\ run'[r].pc = pc /\ run'[r].launched = run[r].launched + 1 /\ run'[r].item = run[r].item
        /\ run'[r].doc = run[r].doc /\ run'[r].outcome = run[r].outcome
    BY <1>1, <1>4 DEF RunRecord
  <2>2. DoneItems(r)' = DoneItems(r) /\ \A k : SessionAt(r, k)' = SessionAt(r, k)
    BY <2>1 DEF DoneItems, SessionAt
  <2>3. ASSUME r \notin entangled', NEW k \in 1..run'[r].launched
        PROVE  Above(SessionAt(r, k))'
    <3>1. run[r].launched \in Nat /\ \A j \in 1..run[r].launched : SessionAt(r, j) \in Session
      BY <1>1, LaunchedKnown
    <3>2. s \in Session
      BY <1>1, NextKnown
    <3>3. SessionAt(r, k) = s => mark[s] = NoMark
      BY <1>4, <2>3, <3>2 DEF StagedInv
    <3>4. SessionAt(r, k) # s => SessionAt(r, k) \in Session /\ Above(SessionAt(r, k))
      <4>1. k = run[r].launched + 1 \/ k \in 1..run[r].launched
        BY <2>1, <3>1
      <4> QED
        BY <1>1, <1>2, <2>3, <3>1, <4>1 DEF KeptAt
    <3>5. CASE SessionAt(r, k) = s
      <4>1. ctr'[s].base = branch
        BY <1>1, <1>4, <3>2
      <4>2. mark'[s] = NoMark /\ SessionAt(r, k)' = s
        BY <1>1, <2>2, <3>3, <3>5
      <4> HIDE DEF s
      <4> QED
        BY <1>1, <4>1, <4>2 DEF Above
    <3>6. CASE SessionAt(r, k) # s
      <4> DEFINE t == SessionAt(r, k)
      <4>1. ctr'[t] = ctr[t]
        BY <1>1, <1>4, <3>4, <3>6
      <4>2. Above(t)
        BY <3>4, <3>6
      <4> HIDE DEF t
      <4>3. mark'[t].at = branch' \cup {t} \/ mark'[t] = NoMark
        BY <1>1, <4>2 DEF Above
      <4>4. ctr'[t].phase # "none" => ctr'[t].base = branch'
        BY <1>1, <4>1, <4>2 DEF Above, Running
      <4>5. SessionAt(r, k)' = t
        BY <2>2 DEF t
      <4> QED
        BY <4>3, <4>4, <4>5 DEF Above, Running
    <3> QED
      BY <3>5, <3>6
  <2>4. \A q \in Run \ {r} : Alive(q)' <=> Alive(q)
    BY <1>2 DEF Alive
  <2>5. r \notin entangled' =>
          /\ \A q \in Run \ {r} : ~Alive(q)'
          /\ \A i \in DoneItems(r)' : SessionOf(run'[r].doc, i, 1) \in branch'
    BY <1>1, <1>2, <2>1, <2>2, <2>4 DEF KeptAt
  <2>6. run'[r].pc # "advance"
    BY <1>4, <2>1
  <2> QED
    BY <2>3, <2>5, <2>6 DEF KeptAt
<1>5. \/ run' = [run EXCEPT ![r].pc = "end", ![r].outcome = "launch"]
      \/ /\ \E pc \in {"launch", "wait"} : run' = [run EXCEPT ![r].launched = @ + 1, ![r].pc = pc]
         /\ ctr' = [ctr EXCEPT ![s] = [phase |-> "boot", base |-> branch, by |-> r]]
         /\ s \in spaces => r \in entangled'
  BY DEF Launch
<1> QED
  BY <1>3, <1>4, <1>5

\* Waiting changes no bookmark; whom it stops is no longer running.
LEMMA KeptCollect ==
  ASSUME TypeInv, KeptInv, NEW r \in Run,
         AgentGone(r) \/ PsFails(r) \/ \E stopped \in BOOLEAN : TimeOut(r, stopped)
  PROVE  KeptAt(r)'
<1> DEFINE Ctr == [phase : {"none", "boot", "work"}, base : Commit, by : Run \cup {NoPid}]
           x == run[r]
<1>1. /\ run \in [Run -> RunRecord] /\ x \in RunRecord /\ ctr \in [Session -> Ctr]
      /\ RunInv /\ KeptAt(r) /\ x.pc = "wait" /\ x.outcome = "none"
  BY DEF TypeInv, RunInv, RunOK, Counts, StoreInv, KeptInv, AgentGone, PsFails, TimeOut
<1>2. /\ UNCHANGED <<mark, branch, entangled>>
      /\ ctr' = ctr \/ ctr' = [ctr EXCEPT ![Awaited(r)] = NoContainer]
  BY DEF AgentGone, PsFails, TimeOut, store, bounded
<1>3. /\ \A q \in Run \ {r} : run'[q] = run[q] /\ (Alive(q)' <=> Alive(q))
      /\ r \notin entangled => \A q \in Run \ {r} : ~Alive(q)
  <2>1. Runner(r) /\ branch \subseteq branch'
    BY <1>2 DEF Runner
  <2>2. Alone(r)
    BY <2>1, RunnerAlone
  <2> QED
    BY <2>1, <2>2, KeptOthers DEF Alone, Alive
<1>4. \/ /\ run'[r].item = x.item /\ run'[r].doc = x.doc /\ run'[r].launched = x.launched
         /\ run'[r].outcome # "success"
      \/ run'[r] = Dead(r)
  <2>1. PICK status : Collect(r, status)
    BY DEF AgentGone, PsFails, TimeOut
  <2> DEFINE new == [x EXCEPT !.got = @ + 1, !.failed = @ \/ status \notin Ok,
                        !.seen = @ \cup {Current(r).steps[x.got + 1].name}]
             failed == [new EXCEPT !.pc = "end", !.outcome = "failed"]
             done == [new EXCEPT !.pc = "advance"]
  <2>2. \/ run' = [run EXCEPT ![r] = new] \/ Save(r, failed) \/ Save(r, done)
    BY <2>1 DEF Collect
  <2>3. \A y \in {new, failed, done} :
          /\ y.item = x.item /\ y.doc = x.doc /\ y.launched = x.launched /\ y.outcome # "success"
    BY <1>1 DEF RunRecord
  <2> HIDE DEF new, failed, done
  <2>4. run'[r] \in {new, failed, done, Dead(r)}
    BY <1>1, <2>2 DEF Save
  <2> QED
    BY <2>3, <2>4
<1>5. CASE run'[r] = Dead(r)
  <2>1. Dead(r).outcome # "success" /\ Dead(r).item = 1 /\ Dead(r).pc = "dead"
    BY DEF Dead, NoRun
  <2> QED
    BY <1>1, <1>2, <1>3, <1>5, <2>1, KeptNothing
<1>6. CASE /\ run'[r].item = x.item /\ run'[r].doc = x.doc /\ run'[r].launched = x.launched
           /\ run'[r].outcome # "success"
  <2>1. DoneItems(r)' = DoneItems(r) /\ \A k : SessionAt(r, k)' = SessionAt(r, k)
    BY <1>1, <1>6 DEF DoneItems, SessionAt
  <2>2. \A k \in 1..x.launched : SessionAt(r, k) \in Session
    BY <1>1, LaunchedKnown
  <2>3. ASSUME NEW t \in Session, Above(t) PROVE Above(t)'
    <3>1. ctr'[t] = ctr[t] \/ ctr'[t] = NoContainer
      BY <1>1, <1>2
    <3> QED
      BY <1>2, <2>3, <3>1 DEF Above, Running, NoContainer
  <2>4. ASSUME r \notin entangled, NEW k \in 1..x.launched PROVE Above(SessionAt(r, k))'
    <3> DEFINE t == SessionAt(r, k)
    <3>1. t \in Session /\ Above(t) /\ SessionAt(r, k)' = t
      BY <1>1, <2>1, <2>2, <2>4 DEF KeptAt
    <3> HIDE DEF t
    <3>2. /\ mark'[t] = NoMark \/ mark'[t].at = branch' \cup {t}
          /\ ctr'[t].phase # "none" => ctr'[t].base = branch'
      <4>1. ctr'[t] = ctr[t] \/ ctr'[t] = NoContainer
        BY <1>1, <1>2, <3>1
      <4> QED
        BY <1>2, <3>1, <4>1 DEF Above, Running, NoContainer
    <3> QED
      BY <3>1, <3>2 DEF Above, Running
  <2> QED
    BY <1>1, <1>2, <1>3, <1>6, <2>1, <2>4 DEF KeptAt
<1> QED
  BY <1>4, <1>5, <1>6

\* The branch moves on to the first session of the item: that is above it, for what
\* the run has launched is, so the bookmark is not refused.
LEMMA KeptAdvance ==
  ASSUME TypeInv, DescentInv, KeptInv, NEW r \in Run, AdvanceBranch(r)
  PROVE  KeptAt(r)'
<1> DEFINE s == SessionAt(r, 1)
           x == run[r]
           new == Begun(x, x.item + 1)
<1>1. /\ run \in [Run -> RunRecord] /\ x \in RunRecord /\ RunInv /\ KeptAt(r) /\ x.pc = "advance"
      /\ Accepted(x.doc, x.anchor) /\ x.item \in DOMAIN x.doc /\ x.outcome = "none"
  BY DEF TypeInv, RunInv, RunOK, Counts, KeptInv, AdvanceBranch
<1>2. entangled' = entangled /\ branch \subseteq branch'
  BY StoreAdvance DEF AdvanceBranch, bounded
<1>3. /\ \A q \in Run \ {r} : run'[q] = run[q] /\ (Alive(q)' <=> Alive(q))
      /\ r \notin entangled => \A q \in Run \ {r} : ~Alive(q)
  <2>1. Alone(r) /\ Runner(r)
    BY RunnerAlone DEF Runner
  <2> QED
    BY <1>2, <2>1, KeptOthers DEF Alone, Alive
<1>4. DOMAIN x.doc = 1..Len(x.doc) /\ Len(x.doc) \in Nat /\ x.item \in Nat
  BY <1>1, DocShape
<1>5. DoneItems(r) = 1..(x.item - 1)
  BY <1>1 DEF DoneItems
<1>6. CASE ~Descends(r, s)
  <2>1. run' = [run EXCEPT ![r].pc = "end", ![r].outcome = "failed"] /\ branch' = branch
    BY <1>6 DEF AdvanceBranch
  <2>2. /\ run'[r].pc = "end" /\ run'[r].outcome = "failed" /\ run'[r].item = x.item
        /\ run'[r].doc = x.doc
    BY <1>1, <2>1 DEF RunRecord
  <2>3. DoneItems(r)' = DoneItems(r)
    BY <1>5, <2>2 DEF DoneItems
  <2> QED
    BY <1>1, <1>2, <1>3, <2>1, <2>2, <2>3, KeptStopped
<1>7. CASE Descends(r, s)
  <2>1. ASSUME r \notin entangled PROVE s \in branch'
    <3>1. 1 \in 1..x.launched
      BY <1>1, LaunchedKnown
    <3>2. Above(s) /\ mark[s] # NoMark
      BY <1>1, <1>7, <2>1, <3>1 DEF KeptAt, Descends
    <3>3. branch' = SetBranch(mark[s].at)
      BY <1>7 DEF AdvanceBranch
    <3> QED
      BY <3>2, <3>3 DEF Above, SetBranch
  <2>2. ASSUME r \notin entangled, NEW i \in 1..x.item
        PROVE  SessionOf(x.doc, i, 1) \in branch'
    <3>1. CASE i = x.item
      BY <2>1, <2>2, <3>1 DEF SessionAt
    <3>2. CASE i # x.item
      <4>1. i \in 1..(x.item - 1)
        BY <1>4, <3>2
      <4> QED
        BY <1>1, <1>2, <1>5, <2>2, <4>1 DEF KeptAt
    <3> QED
      BY <3>1, <3>2
  <2>3. CASE x.item = Len(x.doc)
    <3>1. run' = [run EXCEPT ![r].pc = "end", ![r].outcome = "success"]
      BY <1>7, <2>3 DEF AdvanceBranch
    <3>2. run'[r].pc = "end" /\ run'[r].outcome = "success" /\ run'[r].doc = x.doc
      BY <1>1, <3>1 DEF RunRecord
    <3>3. DoneItems(r)' = 1..x.item
      BY <1>4, <2>3, <3>2 DEF DoneItems
    <3> QED
      BY <1>2, <1>3, <2>2, <3>2, <3>3 DEF KeptAt
  <2>4. CASE x.item # Len(x.doc)
    <3>1. Save(r, new)
      BY <1>7, <2>4 DEF AdvanceBranch
    <3>2. /\ new.pc = "launch" /\ new.item = x.item + 1 /\ new.launched = 0 /\ new.doc = x.doc
          /\ new.outcome = "none"
      BY <1>1, <1>4 DEF Begun, RunRecord
    <3> HIDE DEF new
    <3>3. run'[r] = new \/ run'[r] = Dead(r)
      BY <1>1, <3>1 DEF Save
    <3>4. CASE run'[r] = new
      <4>1. DoneItems(r)' = 1..x.item
        BY <1>4, <3>2, <3>4 DEF DoneItems
      <4> QED
        BY <1>2, <1>3, <2>2, <3>2, <3>4, <4>1 DEF KeptAt
    <3>5. CASE run'[r] = Dead(r)
      <4>1. Dead(r).outcome # "success" /\ Dead(r).item = 1 /\ Dead(r).pc = "dead"
        BY DEF Dead, NoRun
      <4> QED
        BY <1>1, <1>2, <1>3, <3>5, <4>1, KeptNothing
    <3> QED
      BY <3>3, <3>4, <3>5
  <2> QED
    BY <2>3, <2>4
<1> QED
  BY <1>6, <1>7

LEMMA KeptRunner ==
  ASSUME TypeInv, DescentInv, StagedInv, KeptInv, NEW r \in Run,
         Runner(r) \/ Interrupt(r) \/ Kill(r)
  PROVE  KeptInv'
<1>1. /\ run \in [Run -> RunRecord] /\ run[r] \in RunRecord /\ RunInv /\ KeptAt(r)
      /\ RunOK(run[r])
  BY DEF TypeInv, RunInv, KeptInv
<1>2. branch \subseteq branch'
  BY StoreRunner
<1>3. /\ entangled \subseteq entangled' /\ \A q \in Run : q # r => KeptAt(q)'
      /\ r \notin entangled => \A q \in Run \ {r} : ~Alive(q)
  BY <1>2, KeptOthers
<1> SUFFICES KeptAt(r)'
  BY <1>3 DEF KeptInv
<1>4. \A q \in Run \ {r} : run'[q] = run[q]
  BY RunnerAlone DEF Alone
<1>5. Dead(r).outcome # "success" /\ Dead(r).item = 1 /\ Dead(r).pc = "dead"
  BY DEF Dead, NoRun
<1>6. ASSUME run'[r] = Dead(r) PROVE KeptAt(r)'
  BY <1>1, <1>3, <1>4, <1>5, <1>6, KeptNothing
<1>7. CASE Boot(r) \/ InitialiseBranch(r)
  <2>1. CASE Boot(r)
    <3> DEFINE new == [run[r] EXCEPT !.pc = "init", !.doc = file.doc, !.anchor = file.anchor]
    <3>1. Save(r, new) /\ new.outcome = "none" /\ new.item = 1 /\ new.launched = 0
      BY <1>1, <2>1 DEF Boot, RunOK, Counts, RunRecord
    <3> HIDE DEF new
    <3>2. run'[r] = new \/ run'[r] = Dead(r)
      BY <1>1, <3>1 DEF Save
    <3> QED
      BY <1>1, <1>3, <1>4, <1>6, <3>1, <3>2, KeptNothing
  <2>2. CASE InitialiseBranch(r)
    <3> DEFINE new == Begun(run[r], 1)
    <3>1. Save(r, new) /\ new.outcome = "none" /\ new.item = 1 /\ new.launched = 0
      BY <1>1, <2>2 DEF InitialiseBranch, RunOK, Counts, RunRecord, Begun
    <3> HIDE DEF new
    <3>2. run'[r] = new \/ run'[r] = Dead(r)
      BY <1>1, <3>1 DEF Save
    <3> QED
      BY <1>1, <1>3, <1>4, <1>6, <3>1, <3>2, KeptNothing
  <2> QED
    BY <1>7, <2>1, <2>2
<1>8. CASE End(r)
  <2> DEFINE new == [run[r] EXCEPT !.pc = "ended", !.item = 1, !.fed = {}, !.seen = {},
                       !.launched = 0, !.got = 0, !.failed = FALSE,
                       !.outcome = IF @ = "success" THEN @ ELSE "failed"]
  <2>1. Save(r, new) /\ branch' = branch /\ entangled' = entangled
    BY <1>8 DEF End, store, bounded
  <2>2. /\ new.pc = "ended" /\ new.item = 1 /\ new.doc = run[r].doc
        /\ new.outcome = IF run[r].outcome = "success" THEN "success" ELSE "failed"
    BY <1>1 DEF RunRecord
  <2> HIDE DEF new
  <2>3. run'[r] = new \/ run'[r] = Dead(r)
    BY <1>1, <2>1 DEF Save
  <2>4. CASE run'[r] = new
    <3>1. DoneItems(r)' \subseteq DoneItems(r)
      <4>1. run[r].outcome = "success" => DoneItems(r)' = DoneItems(r)
        BY <2>2, <2>4 DEF DoneItems
      <4>2. run[r].outcome # "success" => DoneItems(r)' = {}
        BY <2>2, <2>4 DEF DoneItems
      <4> QED
        BY <4>1, <4>2
    <3> QED
      BY <1>1, <1>3, <1>4, <2>1, <2>2, <2>4, <3>1, KeptStopped
  <2> QED
    BY <1>6, <2>3, <2>4
<1>9. CASE Interrupt(r)
  <2>1. /\ run' = [run EXCEPT ![r].pc = "end", ![r].outcome = "interrupted"]
        /\ branch' = branch /\ run[r].pc \in {"launch", "wait", "advance"}
    BY <1>9 DEF Interrupt, store
  <2>2. /\ run'[r].pc = "end" /\ run'[r].outcome = "interrupted" /\ run'[r].item = run[r].item
        /\ run'[r].doc = run[r].doc
    BY <1>1, <2>1 DEF RunRecord
  <2>3. run[r].outcome = "none"
    BY <1>1, <2>1 DEF RunOK, Counts
  <2>4. DoneItems(r)' = DoneItems(r)
    BY <2>2, <2>3 DEF DoneItems
  <2> QED
    BY <1>1, <1>3, <1>4, <2>1, <2>2, <2>4, KeptStopped
<1>10. CASE Kill(r)
  BY <1>1, <1>6, <1>10 DEF Kill
<1>11. CASE \/ Launch(r) \/ AdvanceBranch(r)
            \/ AgentGone(r) \/ PsFails(r) \/ \E stopped \in BOOLEAN : TimeOut(r, stopped)
  BY <1>11, KeptLaunch, KeptAdvance, KeptCollect
<1> QED
  BY <1>7, <1>8, <1>9, <1>10, <1>11 DEF Runner

LEMMA KeptInit == Init => StagedInv /\ KeptInv
BY DEF Init, StagedInv, KeptInv, KeptAt, DoneItems, Alive, NoMark, NoContainer, NoRun

LEMMA KeptNext ==
  ASSUME TypeInv, DescentInv, StagedInv, KeptInv, [Next]_vars
  PROVE  KeptInv'
<1>1. CASE UNCHANGED vars
  <2>1. ASSUME NEW q \in Run PROVE KeptAt(q)'
    <3>1. KeptAt(q)
      BY DEF KeptInv
    <3> QED
      BY <1>1, <3>1 DEF vars, KeptAt, Alive, DoneItems, SessionAt, Above, Running
  <2> QED
    BY <2>1 DEF KeptInv
<1> QED
  BY <1>1, KeptCommand, KeptRunner, KeptContainer DEF Next

\* What a run that met nobody has gone past is on the branch for good.
THEOREM WorkStays == Spec => []WorkIsKept
<1>1. Init => TypeInv /\ DescentInv /\ StagedInv /\ KeptInv
  BY TypeInit, DescentInit, KeptInit
<1>2. TypeInv /\ DescentInv /\ StagedInv /\ KeptInv /\ [Next]_vars
        => (TypeInv /\ DescentInv /\ StagedInv /\ KeptInv)'
  BY TypeNext, StagedNext, KeptNext
<1>3. KeptInv => WorkIsKept
  BY DEF KeptInv, KeptAt, WorkIsKept
<1> QED
  BY <1>1, <1>2, <1>3, PTL DEF Spec

=============================================================================
