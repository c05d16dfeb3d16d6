---------------------------- MODULE TicketProofs ----------------------------
(***************************************************************************)
(* Theorems about Ticket, for any repos, revisions, manifests and number of *)
(* commands.                                                                *)
(***************************************************************************)
EXTENDS Ticket, SequenceTheorems, WellFoundedInduction, TLAPS

-----------------------------------------------------------------------------
(* Types, and what each command's step knows of the container. *)

Moves == {"move", "bookmark", "revert"}

OnePathEach(manifest) ==
  \A i, j \in DOMAIN manifest : manifest[i].path = manifest[j].path => i = j

\* A command that has not yet removed the container finds it there, and off while
\* it moves anchors; the repos it moves are mounted ones.
StepOK ==
  /\ cmd.at \in {"stop", "remove", "start", "wait"} \cup Moves => ctr # "absent"
  /\ cmd.at \in Moves => boot = Off /\ cmd.was \in [Path -> Footprint]
  /\ cmd.at = "remove" /\ cmd.targets # Empty => boot = Off
  /\ cmd.at \in {"stop", "remove"} \cup Moves =>
       DOMAIN cmd.targets \subseteq DOMAIN label /\ cmd.todo \subseteq DOMAIN cmd.targets
  /\ cmd.at \in {"bookmark", "revert"} => cmd.name \in cmd.todo
  /\ cmd.at = "bookmark" => cmd.undo # <<>>
  /\ cmd.at = "run" => cmd.run # Empty
  /\ cmd.at \in {"rest", "wait", "start"} => cmd.run = Empty

GhostsOK == cut \in BOOLEAN /\ left \subseteq Path /\ stuck \subseteq Path

TypeInv ==
  /\ TypeOK
  /\ boot.at \in {"off", "early", "idle"} => boot.todo = {}
  /\ OnePathEach(label) /\ OnePathEach(cmd.run)
  /\ StepOK

-----------------------------------------------------------------------------
(* The rollback. *)

\* The operations to revert are a stack: a rebase is the oldest of its path and
\* brings back what was there at first; a bookmark is newer than its path's rebase.
Stack(undo, was) ==
  /\ \A i \in DOMAIN undo : undo[i].kind = "rebase" => undo[i].session = was[undo[i].path]
  /\ \A i \in DOMAIN undo : undo[i].kind # "rebase" =>
       \E j \in DOMAIN undo : i < j /\ undo[j].path = undo[i].path
  /\ \A i, j \in DOMAIN undo : i < j /\ undo[i].kind = "rebase" => undo[i].path # undo[j].path

Touched(undo) == {undo[i].path : i \in DOMAIN undo}

Own == label[cmd.name].path

\* A path without any is as it was, and only the repos moved so far have some.  Of the
\* repo whose move failed the newest is the rebase, or it keeps what was done there.
UndoOK ==
  /\ Stack(cmd.undo, cmd.was)
  /\ \A p \in Path \ Touched(cmd.undo) : store[p] = cmd.was[p] \/ (cmd.lost /\ p = Own)
  /\ cmd.at = "move" => Touched(cmd.undo) \subseteq Paths(label, DOMAIN cmd.targets \ cmd.todo)
  /\ cmd.at = "bookmark" =>
       /\ cmd.undo # <<>> /\ Head(cmd.undo).kind = "rebase" /\ Head(cmd.undo).path = Own
       /\ Touched(cmd.undo) \subseteq
            Paths(label, (DOMAIN cmd.targets \ cmd.todo) \cup {cmd.name})
  /\ cmd.at = "revert" =>
       \A i \in DOMAIN cmd.undo :
         cmd.undo[i].path = Own => cmd.undo[i].kind = "rebase" /\ ~cmd.lost

UndoInv ==
  /\ cmd.at = "stop" => cmd.undo = <<>> /\ ~cmd.lost
  /\ cmd.at \in Moves => UndoOK

LostInv == cmd.lost => cmd.at = "revert"

-----------------------------------------------------------------------------
(* The sessions, as long as nothing was cut short. *)

Anchored(session, entry) ==
  session.bookmark \in {"on", "above"} /\ session.parent = entry.base /\ session.mode = entry.mode

\* Of a repo that is stuck with a move the entry knows the mode only.
Matches(session, entry, stranded) ==
  session.mode = entry.mode /\ (entry.path \in stranded \/ Anchored(session, entry))

\* The manifest is right about the sessions, except at some paths.
Recorded(sessions, manifest, except, stranded) ==
  \A n \in DOMAIN manifest :
    manifest[n].path \in Jj \ except /\ sessions[manifest[n].path].bookmark # "none" =>
      Matches(sessions[manifest[n].path], manifest[n], stranded)

Owners == IF cmd.at \in {"forget", "run"}
          THEN cmd.forget \cup Paths(cmd.run, DOMAIN cmd.run)
          ELSE Paths(label, DOMAIN label)

Targeted == cmd.targets # Empty

\* What a command that leaves the anchors where they are knows on its way to docker rm.
KeepsOK ==
  /\ \A n \in DOMAIN cmd.run, k \in DOMAIN label :
       cmd.run[n].path = label[k].path /\ label[k].path \notin left \cup cmd.forget =>
         cmd.run[n] = label[k]
  /\ Paths(label, DOMAIN label) \subseteq left \cup cmd.forget \cup Paths(cmd.run, DOMAIN cmd.run)

\* And one that moves them.
TargetsOK ==
  /\ cmd.forget = {}
  /\ cmd.run = [n \in DOMAIN label |->
                  IF n \in DOMAIN cmd.targets THEN [label[n] EXCEPT !.base = cmd.targets[n]]
                  ELSE label[n]]
  /\ \A n \in DOMAIN cmd.targets : label[n].path \in Jj
  /\ cmd.at = "stop" =>
       cmd.todo = DOMAIN cmd.targets /\ \A n \in DOMAIN cmd.targets : Findable(label[n].path)

MovesOK ==
  /\ Recorded(cmd.was, label, left, stuck)
  /\ \A n \in DOMAIN cmd.targets : cmd.was[label[n].path].bookmark \in {"on", "above"}
  /\ \A p \in Path : store[p].mode = cmd.was[p].mode
  /\ \A i \in DOMAIN cmd.undo :
       cmd.undo[i].session.bookmark # "none" /\ cmd.undo[i].path \in Paths(label, DOMAIN label)
  /\ cmd.at \in {"move", "bookmark"} =>
       \A n \in DOMAIN cmd.targets \ cmd.todo :
         label[n].path \notin left => Anchored(store[label[n].path], cmd.run[n])
  /\ cmd.at = "bookmark" =>
       /\ store[label[cmd.name].path].parent = cmd.targets[cmd.name]
       /\ store[label[cmd.name].path].bookmark # "none"

Clean ==
  /\ \A p \in Jj \ left : store[p].bookmark # "none" => p \in Owners
  /\ cmd.at \in {"forget", "run"} => ctr = "absent"
  /\ cmd.at = "run" => cmd.forget = {}
  /\ cmd.at \in {"rest", "wait", "start", "stop"} \/ (cmd.at = "remove" /\ ~Targeted) =>
       Recorded(store, label, left, stuck)
  /\ cmd.at \in {"forget", "run"} \/ (cmd.at = "remove" /\ Targeted) =>
       Recorded(store, cmd.run, left \cup cmd.forget, stuck)
  /\ cmd.at \in {"stop", "remove"} /\ ~Targeted => KeepsOK
  /\ cmd.at \in {"stop", "remove"} \cup Moves /\ Targeted => TargetsOK
  /\ cmd.at \in Moves => MovesOK /\ Targeted

CleanInv == ~cut => Clean

-----------------------------------------------------------------------------
(* Manifests. *)

LEMMA ManifestFacts ==
  /\ \A m \in Manifest : DOMAIN m \subseteq Name /\ (\A n \in DOMAIN m : m[n] \in Entry)
                         /\ m = [n \in DOMAIN m |-> m[n]]
  /\ \A names \in SUBSET Name : \A m \in [names -> Entry] : m \in Manifest
  BY DEF Manifest

LEMMA EmptyManifest ==
  Empty \in Manifest /\ DOMAIN Empty = {} /\ OnePathEach(Empty)
<1>1. DOMAIN Empty = {} /\ Empty \in [{} -> Entry]
  BY DEF Empty
<1> QED BY <1>1, ManifestFacts DEF OnePathEach

-----------------------------------------------------------------------------
(* What launch arguments resolve to. *)

LEMMA RegistryFacts ==
  ASSUME NEW raw
  PROVE  /\ DOMAIN Registry(raw) \subseteq Name /\ DOMAIN Registry(raw) \subseteq DOMAIN raw
         /\ \A name \in DOMAIN Registry(raw) : Registry(raw)[name] = raw[name]
  BY DEF Registry

LEMMA NamedFacts ==
  ASSUME NEW registry, DOMAIN registry \subseteq Name, NEW spec, Named(registry, spec) # 0
  PROVE  Named(registry, spec) \in Name
<1> DEFINE base == Split(spec).base
<1>1. CASE IsRegistered(registry, base)
  <2>1. PICK name \in DOMAIN registry : base = <<name>>
    BY <1>1 DEF IsRegistered
  <2>2. base[1] = name
    BY <2>1
  <2>3. Named(registry, spec) = base[1]
    BY <1>1 DEF Named, NameOf
  <2> QED BY <2>2, <2>3
<1>2. CASE ~IsRegistered(registry, base)
  <2>1. base \in DOMAIN Expand /\ Named(registry, spec) = BaseName[base]
    BY <1>2 DEF Named, NameOf
  <2> QED BY <2>1, ReposAssumption
<1> QED BY <1>1, <1>2

LEMMA NamesFacts ==
  ASSUME NEW registry, DOMAIN registry \subseteq Name, NEW specs, NEW shared,
         NEW m \in Manifests(registry, specs, shared), DOMAIN specs # {}
  PROVE  m \in Manifest /\ DOMAIN m = Names(registry, specs) /\ DOMAIN m # {}
<1>1. Resolves(registry, specs, shared) /\ m \in [Names(registry, specs) -> Entry]
  BY DEF Manifests
<1>2. Names(registry, specs) \subseteq Name
  BY <1>1, NamedFacts DEF Names, Resolves
<1>3. m \in Manifest
  BY <1>1, <1>2, ManifestFacts
<1>4. Names(registry, specs) # {}
  BY DEF Names
<1> QED BY <1>1, <1>3, <1>4

\* Who picks, picks something.
LEMMA PickedFacts ==
  ASSUME NEW registry, NEW picks, CanPick(registry, picks)
  PROVE  DOMAIN Picked(registry, picks) # {}
<1>1. PICK i \in DOMAIN picks : \E name \in DOMAIN registry : Number(registry, name) = i
  BY DEF CanPick
<1>2. PICK name \in DOMAIN registry : Number(registry, name) = i
  BY <1>1
<1>3. name \in {k \in DOMAIN registry : Number(registry, k) \in DOMAIN picks}
  BY <1>1, <1>2
<1> QED BY <1>3 DEF Picked

\* What a launch resolves to is a manifest of at least one repo.
LEMMA LaunchFacts ==
  ASSUME NEW m \in Launches
  PROVE  m \in Manifest /\ m # Empty /\ OnePathEach(m)
<1>1. \E registry, specs, shared :
        /\ DOMAIN registry \subseteq Name /\ DOMAIN specs # {}
        /\ m \in Manifests(registry, specs, shared)
  <2>1. CASE m \in Typed
    <3>1. PICK config \in Configs : m \in FromArguments(Registry(RawRepos(config)))
      BY <2>1 DEF Typed
    <3> DEFINE registry == Registry(RawRepos(config))
    <3>2. PICK r \in {r \in Requests : DOMAIN r.specs # {}} :
            m \in Manifests(registry, r.specs, r.shared)
      BY <3>1 DEF FromArguments
    <3> QED BY <3>2, RegistryFacts
  <2>2. CASE m \notin Typed
    <3>1. PICK config \in Configs : m \in FromPicker(Registry(RawRepos(config)))
      BY <2>2 DEF Launches
    <3> DEFINE registry == Registry(RawRepos(config))
    <3>2. PICK r \in {r \in Requests : DOMAIN r.specs = {} /\ CanPick(registry, r.picks)} :
            m \in Manifests(registry, Picked(registry, r.picks), r.shared)
      BY <3>1 DEF FromPicker
    <3> QED BY <3>2, RegistryFacts, PickedFacts
  <2> QED BY <2>1, <2>2
<1>2. m \in Manifest /\ DOMAIN m # {}
  BY <1>1, NamesFacts
<1> QED BY <1>2, EmptyManifest, TicketAssumption DEF OnePathEach

LEMMA TypedIsLaunched == Typed \subseteq Launches
  BY DEF Launches

\* diff_manifests is empty for equal manifests only.
LEMMA DiffersFacts ==
  ASSUME NEW old \in Manifest, NEW new \in Manifest
  PROVE  Differs(old, new) <=> old # new
<1>1. old = [n \in DOMAIN old |-> old[n]] /\ new = [n \in DOMAIN new |-> new[n]]
  BY ManifestFacts
<1>2. ASSUME ~Differs(old, new) PROVE old = new
  <2>1. DOMAIN old = DOMAIN new /\ \A n \in DOMAIN old : old[n] = new[n]
    BY <1>2 DEF Differs, Added, Removed, Changed
  <2> QED BY <1>1, <2>1
<1>3. ASSUME old = new PROVE ~Differs(old, new)
  BY <1>3 DEF Differs, Added, Removed, Changed
<1> QED BY <1>2, <1>3

\* A name that was picked comes back as itself, with the revision typed or offered,
\* unless the argument made of it happens to be an existing path (ticket.py:164,
\* manifest.py:133).
THEOREM PickedIsItself ==
  ASSUME NEW Part, Name \subseteq Part, NEW raw, NEW picks,
         \A i \in DOMAIN picks : picks[i] \in Seq(Part),
         \A k \in DOMAIN Registry(raw) : raw[k].rev \in Seq(Part),
         Trunk \in Seq(Part),
         NEW name \in DOMAIN Picked(Registry(raw), picks),
         Picked(Registry(raw), picks)[name] \notin Existing
  PROVE  LET spec == Picked(Registry(raw), picks)[name]
             typed == picks[Number(Registry(raw), name)]
         IN  /\ Named(Registry(raw), spec) = name
             /\ Found(Registry(raw), spec) = raw[name]
             /\ Revision(Registry(raw), spec) = IF typed # Unset THEN typed ELSE Offered(raw[name])
<1> DEFINE registry == Registry(raw)
           spec == Picked(registry, picks)[name]
           typed == picks[Number(registry, name)]
           rev == IF typed # Unset THEN typed ELSE Offered(raw[name])
<1>1. /\ name \in DOMAIN registry /\ name \in Part /\ registry[name] = raw[name]
      /\ Number(registry, name) \in DOMAIN picks
  BY RegistryFacts DEF Picked
<1>2. spec = <<name>> \o rev
  BY <1>1 DEF Picked
<1>3. rev \in Seq(Part) /\ rev # Unset
  BY <1>1, ReposAssumption DEF Offered
<1>4. spec \notin Existing
  OBVIOUS
<1> HIDE DEF spec, rev
<1>5. Head(spec) = name /\ Tail(spec) = rev
  BY <1>1, <1>2, <1>3
<1>6. Split(spec).base = <<name>> /\ Split(spec).rev = rev
  BY <1>4, <1>5 DEF Split
<1>7. IsRegistered(registry, <<name>>)
  BY <1>1 DEF IsRegistered
<1>8. Named(registry, spec) = name /\ Found(registry, spec) = raw[name]
  BY <1>1, <1>6, <1>7 DEF Named, NameOf, Found, EntryOf
<1>9. Revision(registry, spec) = rev
  BY <1>3, <1>6 DEF Revision
<1> QED BY <1>8, <1>9 DEF spec, rev

\* As long as a ticket's labels give the paths of a launch, the entries it was launched
\* from cannot be removed (the comment at manifest.py:188).
THEOREM RemovalIsRefused ==
  ASSUME NEW raw, NEW specs, NEW shared, NEW m \in Manifests(Registry(raw), specs, shared),
         NEW manifest, FlatLabels(manifest) = FlatLabels(m),
         NEW name \in DOMAIN Registry(raw), NEW i \in DOMAIN specs,
         Split(specs[i]).base = <<name>>,
         NEW tickets, FlatLabels(manifest) \in tickets
  PROVE  ~CanRemove(raw, name, tickets)
<1> DEFINE registry == Registry(raw)
<1>1. Named(registry, specs[i]) = name /\ Found(registry, specs[i]) = raw[name]
  <2>1. IsRegistered(registry, <<name>>)
    BY DEF IsRegistered
  <2> QED BY <2>1, RegistryFacts DEF Named, NameOf, Found, EntryOf
<1>2. name \in DOMAIN m /\ m[name].path = Expand[raw[name].path]
  BY <1>1 DEF Manifests, Names
<1>3. name \in DOMAIN FlatLabels(m) /\ FlatLabels(m)[name] = Expand[raw[name].path]
  BY <1>2 DEF FlatLabels
<1> QED BY <1>3 DEF CanRemove, References

\* "repos add" adds its entry and changes no other, and "repos rm" of the same name gives
\* back the table as it was, with what a launch would skip in it.
THEOREM RegistryEdits ==
  ASSUME NEW Key, NEW Value, NEW raw \in [Key -> Value], NEW name, NEW entry,
         CanAdd(raw, name, entry)
  PROVE  LET added == AddRepo(raw, name, entry)
         IN  /\ name \notin DOMAIN Registry(raw)
             /\ entry.path # Unset =>
                  name \in DOMAIN Registry(added) /\ Registry(added)[name] = entry
             /\ \A k \in DOMAIN raw : added[k] = raw[k]
             /\ \A k \in DOMAIN Registry(raw) :
                  k \in DOMAIN Registry(added) /\ Registry(added)[k] = Registry(raw)[k]
             /\ RemoveRepo(added, name) = raw
<1> DEFINE added == AddRepo(raw, name, entry)
           removed == RemoveRepo(added, name)
<1>1. name \in Name /\ name \notin DOMAIN raw
  BY DEF CanAdd
<1>2. /\ DOMAIN added = DOMAIN raw \cup {name} /\ added[name] = entry
      /\ \A k \in DOMAIN raw : added[k] = raw[k]
  BY <1>1 DEF AddRepo
<1> HIDE DEF added
<1>3. DOMAIN removed = DOMAIN raw /\ \A k \in DOMAIN raw : removed[k] = raw[k]
  BY <1>1, <1>2 DEF RemoveRepo
<1> HIDE DEF removed
<1>4. \A k \in DOMAIN Registry(raw) :
        k \in DOMAIN Registry(added) /\ Registry(added)[k] = Registry(raw)[k]
  BY <1>2 DEF Registry
<1>5. entry.path # Unset => name \in DOMAIN Registry(added) /\ Registry(added)[name] = entry
  BY <1>1, <1>2 DEF Registry
<1>6. removed = raw
  <2>1. removed = [k \in DOMAIN raw |-> raw[k]]
    BY <1>1, <1>2, <1>3 DEF removed, RemoveRepo
  <2> QED BY <2>1
<1> QED BY <1>1, <1>2, <1>4, <1>5, <1>6, RegistryFacts DEF added, removed

-----------------------------------------------------------------------------
(* Entries, footprints and stacks. *)

LEMMA EntryFacts ==
  \A e \in Entry : /\ e.path \in Path /\ e.base \in Rev /\ e.mode \in Mode
                   /\ Session(e) \in Footprint
                   /\ \A r \in Rev : [e EXCEPT !.base = r] \in Entry
                                     /\ [e EXCEPT !.base = r].path = e.path
                                     /\ [e EXCEPT !.base = r].mode = e.mode
                                     /\ [e EXCEPT !.base = r].base = r
  BY DEF Entry, Session, Footprint

LEMMA MinInName ==
  ASSUME NEW S \in SUBSET Name, S # {}
  PROVE  Min(S) \in S
<1> DEFINE Less == {ss \in Nat \X Nat : ss[1] < ss[2]}
<1>1. S \subseteq Nat
  BY TicketAssumption DEF Name
<1>2. PICK x \in S : \A y \in S : <<y, x>> \notin Less
  <2>1. IsWellFoundedOn(Less, Nat)
    BY NatLessThanWellFounded DEF OpToRel
  <2> HIDE DEF Less
  <2> QED BY <1>1, <2>1, WFMin
<1>3. ASSUME NEW y \in S PROVE x <= y
  <2>1. x \in Nat /\ y \in Nat
    BY <1>1
  <2>2. ~(y < x)
    BY <1>2, <2>1
  <2> QED BY <2>1, <2>2
<1> QED BY <1>3 DEF Min

LEMMA Pushed ==
  ASSUME NEW S, NEW op \in S, NEW s \in Seq(S)
  PROVE  /\ <<op>> \o s \in Seq(S) /\ 1 \in DOMAIN (<<op>> \o s) /\ (<<op>> \o s)[1] = op
         /\ \A i \in DOMAIN (<<op>> \o s) :
              i \in Nat /\ (i # 1 => i - 1 \in DOMAIN s /\ (<<op>> \o s)[i] = s[i - 1])
         /\ \A i \in DOMAIN s : i \in Nat /\ i >= 1 /\ i + 1 \in DOMAIN (<<op>> \o s)
                                /\ (<<op>> \o s)[i + 1] = s[i]
<1> DEFINE t == <<op>> \o s
<1>1. <<op>> \in Seq(S) /\ Len(<<op>>) = 1 /\ <<op>>[1] = op
  OBVIOUS
<1>2. /\ t \in Seq(S) /\ Len(t) = Len(s) + 1 /\ Len(s) \in Nat
      /\ \A i \in 1..(Len(s) + 1) : t[i] = IF i <= 1 THEN <<op>>[i] ELSE s[i - 1]
  BY <1>1, ConcatProperties
<1>3. DOMAIN t = 1..(Len(s) + 1) /\ DOMAIN s = 1..Len(s)
  BY <1>2
<1> HIDE DEF t
<1>4. t[1] = op
  BY <1>1, <1>2
<1>5. \A i \in DOMAIN t : i \in Nat /\ (i # 1 => i - 1 \in DOMAIN s /\ t[i] = s[i - 1])
  BY <1>2, <1>3
<1>6. \A i \in DOMAIN s : i \in Nat /\ i >= 1 /\ i + 1 \in DOMAIN t /\ t[i + 1] = s[i]
  BY <1>2, <1>3
<1> QED BY <1>2, <1>3, <1>4, <1>5, <1>6 DEF t

LEMMA Popped ==
  ASSUME NEW S, NEW s \in Seq(S), s # <<>>
  PROVE  /\ Head(s) \in S /\ Head(s) = s[1] /\ 1 \in DOMAIN s /\ Tail(s) \in Seq(S)
         /\ \A i \in DOMAIN Tail(s) : i \in Nat /\ i + 1 \in DOMAIN s /\ Tail(s)[i] = s[i + 1]
         /\ \A i \in DOMAIN s : i \in Nat /\ i >= 1 /\
              (i # 1 => i - 1 \in DOMAIN Tail(s) /\ Tail(s)[i - 1] = s[i])
<1>1. /\ Head(s) \in S /\ Tail(s) \in Seq(S) /\ Len(Tail(s)) = Len(s) - 1
      /\ \A i \in 1..Len(Tail(s)) : Tail(s)[i] = s[i + 1]
  BY HeadTailProperties
<1>2. Len(s) \in Nat /\ Len(s) # 0 /\ Head(s) = s[1]
  OBVIOUS
<1>3. DOMAIN s = 1..Len(s) /\ DOMAIN Tail(s) = 1..(Len(s) - 1)
  BY <1>1
<1> QED BY <1>1, <1>2, <1>3

LEMMA RestType == Rest \in CommandRecord /\ Rest.run = Empty /\ Rest.targets = Empty
                  /\ Rest.todo = {}
<1>1. Empty \in UNION {[names -> Rev] : names \in SUBSET Name}
  BY DEF Empty
<1>2. <<>> \in Seq(Operation)
  OBVIOUS
<1> QED BY <1>1, <1>2, EmptyManifest DEF Rest, CommandRecord

LEMMA TypeInit == Init => TypeInv
<1> SUFFICES ASSUME Init PROVE TypeInv
  OBVIOUS
<1>1. NoSession \in Footprint
  BY DEF NoSession, Footprint, Mode
<1>2. boot \in [at : {"off", "early", "loop", "stage", "idle"}, todo : SUBSET DOMAIN label]
  BY DEF Init, Off
<1>3. TypeOK
  BY <1>1, <1>2, RestType, EmptyManifest DEF Init, TypeOK, Off
<1>4. StepOK
  BY DEF Init, StepOK, Rest, Moves
<1> QED BY <1>3, <1>4, EmptyManifest DEF TypeInv, Init, Off, Rest

\* The entrypoint's half of the types: a boot of the container that is there.
LEMMA TypeBoot ==
  ASSUME TypeInv, BootStep
  PROVE  TypeInv'
<1>1. UNCHANGED <<ctr, label, cmd, ghosts>> /\ boot.at \in {"early", "loop", "stage"}
  BY DEF BootStep, BootBegins, Stage, BootEnds, WarmRestart, Reattach, FirstLaunch,
         FirstWorktree, FirstTime, Booting, container
<1>2. /\ label \in Manifest /\ DOMAIN label \subseteq Name
      /\ \A n \in DOMAIN label : label[n] \in Entry
      /\ layer \subseteq DOMAIN label /\ boot.todo \subseteq DOMAIN label
      /\ boot \in [at : {"off", "early", "loop", "stage", "idle"}, todo : SUBSET DOMAIN label]
      /\ store \in [Path -> Footprint] /\ ctr = "running"
  BY <1>1, ManifestFacts DEF TypeInv, TypeOK
<1>3. /\ boot.todo # {} => Min(boot.todo) \in DOMAIN label
      /\ \A n \in Name : Booting(n) => n \in DOMAIN label /\ n \in boot.todo
  BY <1>2, MinInName DEF Booting
<1>4. layer' \subseteq DOMAIN label
  BY <1>2, <1>3 DEF BootStep, BootBegins, Stage, BootEnds, WarmRestart, Reattach, FirstLaunch,
         FirstWorktree, FirstTime, container
<1>5. /\ boot' \in [at : {"off", "early", "loop", "stage", "idle"}, todo : SUBSET DOMAIN label]
      /\ boot'.at # "off" /\ (boot'.at = "stage" => boot'.todo # {})
      /\ boot'.at \in {"off", "early", "idle"} => boot'.todo = {}
  <2>1. ASSUME NEW n \in Name, Booting(n), Booted(n)
        PROVE  boot' \in [at : {"loop"}, todo : SUBSET DOMAIN label]
    BY <1>2, <2>1 DEF Booted
  <2>2. CASE BootBegins
    BY <1>2, <2>2 DEF BootBegins
  <2>3. CASE Stage
    BY <1>2, <2>3 DEF Stage, Booted
  <2>4. CASE BootEnds
    BY <1>2, <2>4 DEF BootEnds
  <2>5. ASSUME NEW n \in Name, FirstLaunch(n)
        PROVE  boot' = [boot EXCEPT !.at = "stage"] /\ boot.todo # {}
    BY <2>5 DEF FirstLaunch, FirstTime, Booting
  <2> QED BY <1>2, <2>1, <2>2, <2>3, <2>4, <2>5
          DEF BootStep, WarmRestart, Reattach, FirstWorktree, FirstTime
<1>6. store' \in [Path -> Footprint]
  <2>1. CASE UNCHANGED store
    BY <1>2, <2>1
  <2>2. ASSUME NEW n \in DOMAIN label,
               store' = [store EXCEPT ![label[n].path] = Session(label[n])]
        PROVE  store' \in [Path -> Footprint]
    BY <1>2, <2>2, EntryFacts
  <2>3. Stage => boot.todo # {}
    BY DEF Stage, TypeInv, TypeOK
  <2> QED BY <1>3, <2>1, <2>2, <2>3
          DEF BootStep, BootBegins, Stage, BootEnds, WarmRestart, Reattach, FirstLaunch,
              FirstWorktree, FirstTime
<1>7. ready' \in BOOLEAN
  BY DEF TypeInv, TypeOK, BootStep, BootBegins, Stage, BootEnds, WarmRestart, Reattach,
         FirstLaunch, FirstWorktree, container
<1>8. TypeOK'
  BY <1>1, <1>2, <1>4, <1>5, <1>6, <1>7 DEF TypeInv, TypeOK, ghosts
<1>9. StepOK'
  BY <1>1, <1>2 DEF TypeInv, StepOK, Off
<1> QED BY <1>1, <1>5, <1>8, <1>9 DEF TypeInv, OnePathEach

LEMMA KeepAttachedOK ==
  ASSUME NEW old \in Manifest, NEW new \in Manifest
  PROVE  LET kept == KeepAttached(old, new) IN
         /\ kept \in Manifest /\ DOMAIN kept = DOMAIN new
         /\ \A n \in DOMAIN new :
              /\ kept[n].path = new[n].path
              /\ n \in DOMAIN old /\ old[n].path = new[n].path => kept[n] = old[n]
         /\ OnePathEach(new) => OnePathEach(kept)
<1> DEFINE kept == KeepAttached(old, new)
<1>1. /\ DOMAIN kept = DOMAIN new
      /\ \A n \in DOMAIN new :
           /\ kept[n] = IF n \in DOMAIN old /\ old[n].path = new[n].path
                        THEN old[n] ELSE new[n]
           /\ kept[n] \in Entry
  BY ManifestFacts DEF KeepAttached
<1>2. kept \in [DOMAIN new -> Entry]
  BY <1>1 DEF KeepAttached
<1>3. kept \in Manifest
  BY <1>2, ManifestFacts
<1>4. \A n \in DOMAIN new : kept[n].path = new[n].path
  BY <1>1
<1> HIDE DEF kept
<1>5. OnePathEach(new) => OnePathEach(kept)
  BY <1>1, <1>4 DEF OnePathEach
<1> QED BY <1>1, <1>3, <1>4, <1>5 DEF kept

\* Once a ticket was recreated, the launch that asked for it changes it no further: the
\* same repos, none moves away, and what is kept is what is there (manifest.py:236).
THEOREM RecreationSettles ==
  ASSUME NEW old \in Manifest, NEW new \in Manifest
  PROVE  LET kept == KeepAttached(old, new) IN
         /\ Added(kept, new) = {} /\ Removed(kept, new) = {} /\ MovedAway(kept, new) = {}
         /\ KeepAttached(kept, new) = kept
<1> DEFINE kept == KeepAttached(old, new)
<1>1. DOMAIN kept = DOMAIN new /\ (\A n \in DOMAIN new : kept[n].path = new[n].path)
  BY KeepAttachedOK
<1>2. kept = [n \in DOMAIN new |-> kept[n]]
  BY DEF KeepAttached
<1> HIDE DEF kept
<1>3. Added(kept, new) = {} /\ Removed(kept, new) = {} /\ MovedAway(kept, new) = {}
  BY <1>1 DEF Added, Removed, MovedAway
<1>4. KeepAttached(kept, new) = [n \in DOMAIN new |-> kept[n]]
  BY <1>1 DEF KeepAttached
<1> QED BY <1>2, <1>3, <1>4 DEF kept

\* The manifest a re-anchoring will launch.
Reanchored(targets) ==
  [n \in DOMAIN label |->
     IF n \in DOMAIN targets THEN [label[n] EXCEPT !.base = targets[n]] ELSE label[n]]

LEMMA ReanchoredOK ==
  ASSUME label \in Manifest, OnePathEach(label), NEW names \in SUBSET Name,
         NEW targets \in [names -> Rev]
  PROVE  /\ Reanchored(targets) \in Manifest /\ OnePathEach(Reanchored(targets))
         /\ DOMAIN Reanchored(targets) = DOMAIN label
         /\ \A n \in DOMAIN label :
              /\ Reanchored(targets)[n].path = label[n].path
              /\ Reanchored(targets)[n].mode = label[n].mode
              /\ n \in DOMAIN targets => Reanchored(targets)[n].base = targets[n]
              /\ n \notin DOMAIN targets => Reanchored(targets)[n] = label[n]
<1> DEFINE run == Reanchored(targets)
<1>1. /\ DOMAIN run = DOMAIN label
      /\ \A n \in DOMAIN label :
           /\ run[n] = IF n \in DOMAIN targets THEN [label[n] EXCEPT !.base = targets[n]]
                       ELSE label[n]
           /\ label[n] \in Entry
           /\ n \in DOMAIN targets => targets[n] \in Rev
  BY ManifestFacts DEF Reanchored
<1>2. run = [n \in DOMAIN run |-> run[n]]
  BY DEF Reanchored
<1> HIDE DEF run
<1>3. \A n \in DOMAIN label :
        /\ run[n] \in Entry /\ run[n].path = label[n].path /\ run[n].mode = label[n].mode
        /\ n \in DOMAIN targets => run[n].base = targets[n]
        /\ n \notin DOMAIN targets => run[n] = label[n]
  <2> SUFFICES ASSUME NEW n \in DOMAIN label
               PROVE  /\ run[n] \in Entry /\ run[n].path = label[n].path
                      /\ run[n].mode = label[n].mode
                      /\ n \in DOMAIN targets => run[n].base = targets[n]
                      /\ n \notin DOMAIN targets => run[n] = label[n]
    OBVIOUS
  <2>1. CASE n \in DOMAIN targets
    <3>1. run[n] = [label[n] EXCEPT !.base = targets[n]] /\ label[n] \in Entry
          /\ targets[n] \in Rev
      BY <1>1, <2>1
    <3> QED BY <2>1, <3>1, EntryFacts
  <2>2. CASE n \notin DOMAIN targets
    BY <1>1, <2>2
  <2> QED BY <2>1, <2>2
<1>4. run \in [DOMAIN run -> Entry] /\ DOMAIN run \in SUBSET Name
  BY <1>1, <1>2, <1>3, ManifestFacts
<1>5. run \in Manifest
  BY <1>4, ManifestFacts
<1>6. OnePathEach(run)
  BY <1>1, <1>3 DEF OnePathEach
<1> QED BY <1>1, <1>3, <1>5, <1>6 DEF run

\* What the ghosts note are paths.
LEMMA GhostStep == TypeInv /\ [Next]_vars => GhostsOK'
<1> SUFFICES ASSUME TypeInv, [Next]_vars
             PROVE  GhostsOK'
  OBVIOUS
<1>1. /\ cut \in BOOLEAN /\ left \subseteq Path /\ stuck \subseteq Path
      /\ \A n \in DOMAIN label : label[n].path \in Path
  BY ManifestFacts, EntryFacts DEF TypeInv, TypeOK
<1>2. UNCHANGED ghosts \/ CutShort => GhostsOK'
  BY <1>1 DEF GhostsOK, CutShort, ghosts
<1>3. CASE BootStep \/ Exit \/ (\E p \in Path : Work(p)) \/ UNCHANGED vars
  <2>1. UNCHANGED ghosts
    BY <1>3 DEF BootStep, BootBegins, Stage, BootEnds, WarmRestart, Reattach, FirstLaunch,
                FirstWorktree, Exit, Work, vars
  <2> QED BY <1>2, <2>1
<1>4. ASSUME NEW m, StartChanged(m)
      PROVE  GhostsOK'
  BY <1>1, <1>4 DEF StartChanged, MovedAway, GhostsOK
<1>5. CASE Command
  BY <1>2, <1>4, <1>5 DEF Command, StartNew, StartWarm, Restart, Shutdown, Stop, Reanchor
<1>6. ASSUME NEW p \in Path, Forget(p)
      PROVE  GhostsOK'
  BY <1>1, <1>6 DEF Forget, GhostsOK
<1>7. CASE Moved
  BY <1>1, <1>7 DEF Moved, GhostsOK
<1>8. CASE RolledBack
  <2>1. cmd.at = "revert" => label[cmd.name].path \in Path
    BY <1>1 DEF TypeInv, StepOK, Moves
  <2> QED BY <1>1, <1>8, <2>1 DEF RolledBack, GhostsOK
<1>9. CASE RemoveRefused \/ RunFails \/ RevertRefused \/ Interrupt \/ \E p \in Path : ForgetRefused(p)
  <2>1. UNCHANGED ghosts \/ CutShort
    BY <1>9 DEF RemoveRefused, RunFails, RevertRefused, Interrupt, ForgetRefused
  <2> QED BY <1>2, <2>1
<1>10. CASE \/ StopContainer \/ StopRefused \/ Remove \/ Forgotten \/ Run \/ StartContainer
            \/ SeesReady \/ TimesOut \/ SetBookmark \/ MoveFails \/ MoveAbandoned \/ Revert
            \/ OwnRevertRefused \/ \E n \in Name : InPlace(n) \/ Rebase(n) \/ RebaseRefused(n)
  <2>1. UNCHANGED ghosts
    BY <1>10 DEF StopContainer, StopRefused, Remove, Forgotten, Run, StartContainer, SeesReady,
                 TimesOut, SetBookmark, MoveFails, MoveAbandoned, Revert, OwnRevertRefused,
                 InPlace, Rebase, RebaseRefused
  <2> QED BY <1>2, <2>1
<1> QED BY <1>3, <1>5, <1>6, <1>7, <1>8, <1>9, <1>10 DEF Next, CommandStep

\* Nothing else is in progress when a command begins, and nothing is done yet.
LEMMA TypeCommand ==
  ASSUME TypeInv, GhostsOK', Command
  PROVE  TypeInv'
<1>0. /\ label \in Manifest /\ OnePathEach(label) /\ (label = Empty <=> ctr = "absent")
      /\ store \in [Path -> Footprint] /\ left \subseteq Path
      /\ \A n \in DOMAIN label : label[n] \in Entry /\ n \in Name
  BY ManifestFacts DEF TypeInv, TypeOK
<1>1. CASE Stop
  <2>1. /\ ctr' = "stopped" /\ boot' = Off /\ UNCHANGED <<label, layer, ready, store, cmd, ghosts>>
        /\ ctr = "running" /\ cmd = Rest
    BY <1>1 DEF Stop
  <2>2. TypeOK'
    BY <2>1 DEF TypeInv, TypeOK, Off, ghosts
  <2>3. StepOK'
    BY <2>1 DEF StepOK, Rest, Moves
  <2> QED BY <2>1, <2>2, <2>3 DEF TypeInv, Off, OnePathEach
<1>2. ASSUME NEW c \in CommandRecord, cmd' = c, UNCHANGED <<container, boot, store>>,
             OnePathEach(c.run), StepOK'
      PROVE  TypeInv'
  <2>1. TypeOK'
    BY <1>2 DEF TypeInv, TypeOK, container, GhostsOK
  <2> QED BY <1>2, <2>1 DEF TypeInv, container, OnePathEach
<1>3. ASSUME NEW m \in Launches, StartNew(m)
      PROVE  TypeInv'
  <2> DEFINE c == [Rest EXCEPT !.at = "run", !.run = m]
  <2>1. m \in Manifest /\ OnePathEach(m) /\ m # Empty
    BY LaunchFacts
  <2>2. c \in CommandRecord /\ c.run = m /\ c.at = "run"
    BY <2>1, RestType DEF CommandRecord
  <2>3. cmd' = c /\ UNCHANGED <<container, boot, store>>
    BY <1>3 DEF StartNew
  <2> HIDE DEF c
  <2>4. StepOK'
    BY <2>1, <2>2, <2>3 DEF StepOK, Moves
  <2> QED BY <1>0, <1>2, <2>1, <2>2, <2>3, <2>4
<1>4. ASSUME NEW m \in Typed, StartChanged(m)
      PROVE  TypeInv'
  <2> DEFINE kept == KeepAttached(label, m)
             forget == Paths(label, Removed(label, m))
             c == [Rest EXCEPT !.at = "stop", !.run = kept, !.forget = forget]
  <2>1. m \in Manifest /\ OnePathEach(m)
    BY LaunchFacts, TypedIsLaunched
  <2>2. kept \in Manifest /\ OnePathEach(kept)
    BY <1>0, <2>1, KeepAttachedOK
  <2>3. forget \subseteq Path
    BY <1>0, EntryFacts DEF Paths, Removed
  <2>4. cmd' = c /\ UNCHANGED <<container, boot, store>> /\ ctr # "absent"
    BY <1>0, <1>4, <2>3 DEF StartChanged
  <2> HIDE DEF kept, forget
  <2>5. /\ c \in CommandRecord /\ c.run = kept /\ c.at = "stop"
        /\ c.targets = Empty /\ c.todo = {}
    BY <2>2, <2>3, RestType DEF CommandRecord
  <2> HIDE DEF c
  <2>6. StepOK'
    BY <2>4, <2>5, EmptyManifest DEF StepOK, Moves, container
  <2> QED BY <1>2, <2>2, <2>4, <2>5, <2>6
<1>5. CASE StartWarm
  <2> DEFINE c == [Rest EXCEPT !.at = "start"]
  <2>1. cmd' = c /\ UNCHANGED <<container, boot, store, ghosts>> /\ ctr = "stopped"
    BY <1>5 DEF StartWarm
  <2>2. c \in CommandRecord /\ c.at = "start" /\ c.run = Empty
    BY RestType DEF CommandRecord
  <2> HIDE DEF c
  <2>3. StepOK'
    BY <2>1, <2>2 DEF StepOK, Moves, container
  <2> QED BY <1>0, <1>2, <2>1, <2>2, <2>3, EmptyManifest DEF ghosts
<1>6. CASE Restart \/ Shutdown
  <2>1. PICK c \in CommandRecord :
          /\ c.at = "stop" /\ c.targets = Empty /\ c.todo = {} /\ OnePathEach(c.run)
          /\ cmd' = c /\ UNCHANGED <<container, boot, store, ghosts>> /\ ctr # "absent"
    <3>1. CASE Restart
      <4> DEFINE c == [Rest EXCEPT !.at = "stop", !.run = label]
      <4>1. c \in CommandRecord /\ c.at = "stop" /\ c.targets = Empty /\ c.todo = {}
            /\ c.run = label
        BY <1>0, RestType DEF CommandRecord
      <4> QED BY <1>0, <3>1, <4>1 DEF Restart
    <3>2. CASE Shutdown
      <4> DEFINE gone == Paths(label, DOMAIN label)
                 c == [Rest EXCEPT !.at = "stop", !.forget = gone]
      <4>1. gone \subseteq Path
        BY <1>0, EntryFacts DEF Paths
      <4>2. cmd' = c /\ UNCHANGED <<container, boot, store, ghosts>> /\ ctr # "absent"
        BY <3>2 DEF Shutdown
      <4> HIDE DEF gone
      <4>3. c \in CommandRecord /\ c.at = "stop" /\ c.targets = Empty /\ c.todo = {}
            /\ c.run = Empty
        BY <4>1, RestType DEF CommandRecord
      <4> QED BY <4>2, <4>3, EmptyManifest
    <3> QED BY <1>6, <3>1, <3>2
  <2>2. StepOK'
    BY <2>1, EmptyManifest DEF StepOK, Moves, container
  <2> QED BY <1>0, <1>2, <2>1, <2>2 DEF ghosts
<1>7. ASSUME NEW names \in (SUBSET Name) \ {{}}, NEW targets \in [names -> Rev],
             Reanchor(targets)
      PROVE  TypeInv'
  <2> DEFINE run == Reanchored(targets)
             at == IF ctr = "running" THEN "stop" ELSE "move"
             c == [Rest EXCEPT !.at = at, !.up = ctr = "running", !.targets = targets,
                               !.todo = DOMAIN targets, !.was = store, !.run = run]
  <2>1. run \in Manifest /\ OnePathEach(run)
    BY <1>0, ReanchoredOK
  <2>2. cmd' = c /\ UNCHANGED <<container, boot, store, ghosts>> /\ ctr # "absent"
        /\ DOMAIN targets \subseteq DOMAIN label
    BY <1>7 DEF Reanchor, Reanchored
  <2>3. at \in {"stop", "move"} /\ (ctr = "running") \in BOOLEAN
    OBVIOUS
  <2>4. targets \in UNION {[ns -> Rev] : ns \in SUBSET Name} /\ DOMAIN targets \in SUBSET Name
    BY <1>7
  <2>5. boot.at = "off" <=> ctr # "running"
    BY DEF TypeInv, TypeOK
  <2> HIDE DEF run
  <2>6. at = "move" => boot = Off
    <3>1. boot.at = "off" => boot = Off
      BY DEF TypeInv, TypeOK, Off
    <3> QED BY <2>5, <3>1
  <2> HIDE DEF at
  <2>7. /\ c \in CommandRecord /\ c.run = run /\ c.at = at
        /\ c.targets = targets /\ c.todo = DOMAIN targets /\ c.was = store
    BY <1>0, <2>1, <2>3, <2>4, RestType DEF CommandRecord
  <2> HIDE DEF c
  <2>8. StepOK'
    BY <1>0, <2>2, <2>3, <2>6, <2>7 DEF StepOK, Moves, container
  <2> QED BY <1>0, <1>2, <2>1, <2>2, <2>7, <2>8 DEF ghosts
<1> QED BY <1>1, <1>3, <1>4, <1>5, <1>6, <1>7 DEF Command

\* The rest of a command: first what changes the container, then what does not.
LEMMA TypeContainer ==
  ASSUME TypeInv, StopContainer \/ Remove \/ Run \/ StartContainer
  PROVE  TypeInv'
<1>0. /\ cmd \in CommandRecord /\ label \in Manifest /\ (label = Empty <=> ctr = "absent")
      /\ boot.at = "off" <=> ctr # "running"
      /\ store \in [Path -> Footprint] /\ left \subseteq Path
      /\ OnePathEach(label) /\ OnePathEach(cmd.run)
  BY DEF TypeInv, TypeOK
<1>1. CASE StopContainer
  <2>1. /\ ctr' = "stopped" /\ boot' = Off /\ cmd' = Stopped /\ cmd.at = "stop"
        /\ UNCHANGED <<label, layer, ready, store, ghosts>>
    BY <1>1 DEF StopContainer
  <2>2. ctr # "absent"
    BY <2>1 DEF TypeInv, StepOK
  <2>3. /\ cmd' \in CommandRecord /\ cmd'.run = cmd.run /\ cmd'.targets = cmd.targets
        /\ cmd'.todo = cmd.todo
        /\ cmd'.at = IF cmd.targets = Empty THEN "remove" ELSE "move"
        /\ cmd.targets # Empty => cmd'.was = store
    BY <1>0, <2>1 DEF Stopped, CommandRecord
  <2>4. TypeOK'
    BY <1>0, <2>1, <2>2, <2>3 DEF TypeInv, TypeOK, Off, ghosts
  <2>5. StepOK'
    BY <1>0, <2>1, <2>3 DEF TypeInv, StepOK, Moves, Off
  <2> QED BY <1>0, <2>1, <2>3, <2>4, <2>5 DEF TypeInv, Off, OnePathEach
<1>2. CASE Remove
  <2>1. /\ ctr' = "absent" /\ label' = Empty /\ layer' = {} /\ ready' = FALSE
        /\ cmd' = [cmd EXCEPT !.at = "forget"] /\ cmd.at = "remove" /\ ctr # "running"
        /\ UNCHANGED <<boot, store, ghosts>>
    BY <1>2 DEF Remove
  <2>2. boot.at = "off" /\ boot.todo = {}
    BY <1>0, <2>1 DEF TypeInv
  <2>3. cmd' \in CommandRecord /\ cmd'.at = "forget" /\ cmd'.run = cmd.run
    BY <1>0, <2>1 DEF CommandRecord
  <2>4. boot' \in [at : {"off", "early", "loop", "stage", "idle"}, todo : SUBSET DOMAIN label']
    BY <2>1, <2>2 DEF TypeInv, TypeOK
  <2>5. TypeOK'
    BY <1>0, <2>1, <2>2, <2>3, <2>4, EmptyManifest DEF TypeInv, TypeOK, ghosts
  <2>6. StepOK'
    BY <2>3 DEF StepOK, Moves
  <2> QED BY <1>0, <2>1, <2>2, <2>3, <2>5, <2>6, EmptyManifest DEF TypeInv, OnePathEach
<1>3. CASE Run
  <2>1. /\ ctr' = "running" /\ label' = cmd.run /\ layer' = {} /\ ready' = FALSE
        /\ boot' = Early /\ cmd' = [Rest EXCEPT !.at = "wait"] /\ cmd.at = "run"
        /\ UNCHANGED <<store, ghosts>>
    BY <1>3 DEF Run
  <2>2. cmd.run # Empty /\ cmd.run \in Manifest
    BY <1>0, <2>1 DEF TypeInv, StepOK, CommandRecord
  <2>3. cmd' \in CommandRecord /\ cmd'.at = "wait" /\ cmd'.run = Empty
    BY <2>1, RestType DEF CommandRecord
  <2>4. boot' \in [at : {"off", "early", "loop", "stage", "idle"}, todo : SUBSET DOMAIN label']
        /\ boot'.at = "early" /\ boot'.todo = {}
    BY <2>1 DEF Early
  <2>5. TypeOK'
    BY <1>0, <2>1, <2>2, <2>3, <2>4 DEF TypeInv, TypeOK, ghosts
  <2>6. StepOK'
    BY <2>1, <2>3 DEF StepOK, Moves
  <2> QED BY <1>0, <2>1, <2>3, <2>4, <2>5, <2>6, EmptyManifest DEF TypeInv, OnePathEach
<1>4. CASE StartContainer
  <2>1. /\ ctr' = "running" /\ boot' = Early /\ cmd' = [Rest EXCEPT !.at = "wait"]
        /\ cmd.at = "start" /\ UNCHANGED <<label, layer, ready, store, ghosts>>
    BY <1>4 DEF StartContainer
  <2>2. ctr # "absent"
    BY <2>1 DEF TypeInv, StepOK
  <2>3. cmd' \in CommandRecord /\ cmd'.at = "wait" /\ cmd'.run = Empty
    BY <2>1, RestType DEF CommandRecord
  <2>4. boot' \in [at : {"off", "early", "loop", "stage", "idle"}, todo : SUBSET DOMAIN label']
        /\ boot'.at = "early" /\ boot'.todo = {}
    BY <2>1 DEF Early
  <2>5. TypeOK'
    BY <1>0, <2>1, <2>2, <2>3, <2>4 DEF TypeInv, TypeOK, ghosts
  <2>6. StepOK'
    BY <2>1, <2>3 DEF StepOK, Moves
  <2> QED BY <1>0, <2>1, <2>3, <2>4, <2>5, <2>6, EmptyManifest DEF TypeInv, OnePathEach
<1> QED BY <1>1, <1>2, <1>3, <1>4

\* Reverting puts footprints back.
LEMMA RevertedType ==
  ASSUME store \in [Path -> Footprint], NEW op \in Operation
  PROVE  /\ Reverted(op) \in [Path -> Footprint]
         /\ \A p \in Path \ {op.path} : Reverted(op)[p] = store[p]
         /\ op.kind = "rebase" => Reverted(op)[op.path] = op.session
         /\ Reverted(op)[op.path].bookmark = op.session.bookmark
<1>1. op.path \in Path /\ op.session \in Footprint
  BY DEF Operation
<1>2. CASE op.kind = "rebase"
  BY <1>1, <1>2 DEF Reverted
<1>3. CASE op.kind # "rebase"
  <2>1. /\ Reverted(op) = [store EXCEPT ![op.path].bookmark = op.session.bookmark]
        /\ op.session.bookmark \in {"none", "on", "above", "adrift"}
    BY <1>1, <1>3 DEF Reverted, Footprint
  <2>2. [store[op.path] EXCEPT !.bookmark = op.session.bookmark] \in Footprint
    BY <1>1, <2>1 DEF Footprint
  <2> QED BY <1>1, <1>3, <2>1, <2>2 DEF Footprint
<1> QED BY <1>2, <1>3

LEMMA TypeMoves ==
  ASSUME TypeInv, GhostsOK',
         \/ \E n \in Name : InPlace(n) \/ Rebase(n) \/ RebaseRefused(n)
         \/ SetBookmark \/ MoveFails \/ MoveAbandoned \/ Moved
         \/ Revert \/ OwnRevertRefused \/ RevertRefused \/ RolledBack
  PROVE  TypeInv'
<1>0. /\ cmd \in CommandRecord /\ label \in Manifest /\ store \in [Path -> Footprint]
      /\ OnePathEach(label) /\ OnePathEach(cmd.run) /\ cmd.undo \in Seq(Operation)
      /\ cmd.at \in Moves /\ ctr # "absent" /\ boot = Off /\ cmd.was \in [Path -> Footprint]
      /\ DOMAIN cmd.targets \subseteq DOMAIN label /\ cmd.todo \subseteq DOMAIN cmd.targets
      /\ DOMAIN label \subseteq Name /\ \A n \in DOMAIN label : label[n] \in Entry
      /\ \A n \in DOMAIN cmd.targets : cmd.targets[n] \in Rev
  <2>1. cmd.at \in Moves
    BY DEF InPlace, Rebase, RebaseRefused, Moving, SetBookmark, MoveFails, MoveAbandoned,
           Moved, Revert, OwnRevertRefused, RevertRefused, RolledBack, Moves
  <2> QED BY <2>1, ManifestFacts DEF TypeInv, TypeOK, StepOK, CommandRecord
<1>1. ASSUME NEW c \in CommandRecord, cmd' = c, UNCHANGED <<container, boot>>,
             store' \in [Path -> Footprint], OnePathEach(c.run), StepOK'
      PROVE  TypeInv'
  <2>1. TypeOK'
    BY <1>1 DEF TypeInv, TypeOK, container, GhostsOK
  <2> QED BY <1>1, <2>1 DEF TypeInv, container, OnePathEach
<1>2. ASSUME NEW c \in CommandRecord, cmd' = c, UNCHANGED <<container, boot>>,
             store' \in [Path -> Footprint],
             c.at \in Moves \cup {"remove"}, c.run = cmd.run, c.targets = cmd.targets,
             c.todo \subseteq cmd.todo, c.was = cmd.was,
             c.at \in {"bookmark", "revert"} => c.name \in c.todo,
             c.at = "bookmark" => c.undo # <<>>
      PROVE  TypeInv'
  <2>1. StepOK'
    BY <1>0, <1>2 DEF StepOK, Moves, container
  <2> QED BY <1>0, <1>1, <1>2, <2>1
<1>3. \A n \in Name : Moving(n) => n \in cmd.todo
  <2>1. cmd.todo \in SUBSET Name
    BY <1>0
  <2> QED BY <2>1, MinInName DEF Moving
<1>5. ASSUME NEW n \in Name, InPlace(n)
      PROVE  TypeInv'
  <2> DEFINE c == [cmd EXCEPT !.todo = cmd.todo \ {n}]
  <2>1. cmd' = c /\ UNCHANGED <<container, boot, store, ghosts>> /\ cmd.at = "move"
    BY <1>5 DEF InPlace, Moving
  <2>2. /\ c \in CommandRecord /\ c.at = cmd.at /\ c.run = cmd.run /\ c.targets = cmd.targets
        /\ c.todo \subseteq cmd.todo /\ c.was = cmd.was
    BY <1>0 DEF CommandRecord
  <2> HIDE DEF c
  <2> QED BY <1>0, <1>2, <2>1, <2>2 DEF Moves
<1>6. ASSUME NEW n \in Name, Rebase(n)
      PROVE  TypeInv'
  <2> DEFINE p == label[n].path
             op == Op(p, "rebase")
             undo == <<op>> \o cmd.undo
             c == [cmd EXCEPT !.at = "bookmark", !.name = n, !.undo = undo]
  <2>1. n \in cmd.todo /\ n \in DOMAIN label /\ p \in Path /\ cmd.targets[n] \in Rev
    BY <1>0, <1>3, <1>6, EntryFacts DEF Rebase
  <2>2. op \in Operation
    BY <1>0, <2>1 DEF Op, Operation
  <2>3. undo \in Seq(Operation)
    BY <1>0, <2>2, Pushed
  <2>8. undo # <<>>
    BY <1>0, <2>2, Pushed
  <2>4. cmd' = c /\ UNCHANGED <<container, boot, ghosts>>
    BY <1>6 DEF Rebase
  <2> HIDE DEF op, undo
  <2>5. /\ c \in CommandRecord /\ c.at = "bookmark" /\ c.run = cmd.run /\ c.undo = undo
        /\ c.targets = cmd.targets /\ c.todo = cmd.todo /\ c.was = cmd.was /\ c.name = n
    BY <1>0, <2>3 DEF CommandRecord
  <2>6. PICK b \in {"on", "above", "adrift"} :
          store' = [store EXCEPT ![p].parent = cmd.targets[n], ![p].bookmark = b]
    BY <1>6 DEF Rebase, Position
  <2>7. store' \in [Path -> Footprint]
    BY <1>0, <2>1, <2>6 DEF Footprint
  <2> HIDE DEF c
  <2> QED BY <1>0, <1>2, <2>1, <2>4, <2>5, <2>7, <2>8 DEF Moves
<1>7. ASSUME NEW n \in Name, RebaseRefused(n)
      PROVE  TypeInv'
  <2> DEFINE c == [cmd EXCEPT !.at = "revert", !.name = n]
  <2>1. cmd' = c /\ UNCHANGED <<container, boot, store, ghosts>> /\ n \in cmd.todo
    BY <1>3, <1>7 DEF RebaseRefused
  <2>2. /\ c \in CommandRecord /\ c.at = "revert" /\ c.run = cmd.run
        /\ c.targets = cmd.targets /\ c.todo = cmd.todo /\ c.was = cmd.was /\ c.name = n
    BY <1>0 DEF CommandRecord
  <2> HIDE DEF c
  <2> QED BY <1>0, <1>2, <2>1, <2>2 DEF Moves
<1>8. CASE SetBookmark
  <2> DEFINE p == label[cmd.name].path
             op == Op(p, "bookmark")
             undo == <<op>> \o cmd.undo
             next == NextMove
             c == [next EXCEPT !.undo = undo]
  <2>1. cmd.name \in DOMAIN label /\ p \in Path
    BY <1>0, <1>8, EntryFacts DEF SetBookmark, TypeInv, StepOK
  <2>2. op \in Operation
    BY <1>0, <2>1 DEF Op, Operation
  <2>3. undo \in Seq(Operation)
    BY <1>0, <2>2, Pushed
  <2>9. [next EXCEPT !.undo = <<op>> \o @] = c
    <3>1. next.undo = cmd.undo
      BY <1>0 DEF CommandRecord, NextMove
    <3> QED BY <3>1
  <2>4. /\ UNCHANGED <<container, boot, ghosts>>
        /\ \/ cmd' = next /\ store' = store
           \/ cmd' = c /\ store' = [store EXCEPT ![p].bookmark = "on"]
    BY <1>8, <2>9 DEF SetBookmark
  <2> HIDE DEF op, undo
  <2>5. /\ next \in CommandRecord /\ next.at = "move" /\ next.run = cmd.run
        /\ next.targets = cmd.targets /\ next.todo \subseteq cmd.todo /\ next.was = cmd.was
    BY <1>0 DEF CommandRecord, NextMove
  <2> HIDE DEF next
  <2>6. /\ c \in CommandRecord /\ c.at = "move" /\ c.run = cmd.run
        /\ c.targets = cmd.targets /\ c.todo \subseteq cmd.todo /\ c.was = cmd.was
    BY <2>3, <2>5 DEF CommandRecord
  <2> HIDE DEF c, p
  <2>7. store' \in [Path -> Footprint]
    <3>1. [store[p] EXCEPT !.bookmark = "on"] \in Footprint
      BY <1>0, <2>1 DEF Footprint
    <3>2. CASE store' = [store EXCEPT ![p].bookmark = "on"]
      BY <1>0, <2>1, <3>1, <3>2
    <3> QED BY <1>0, <2>4, <3>2
  <2> QED BY <1>0, <1>2, <2>4, <2>5, <2>6, <2>7 DEF Moves
<1>9. CASE MoveFails
  <2> DEFINE c == [cmd EXCEPT !.at = "revert"]
  <2>1. cmd' = c /\ UNCHANGED <<container, boot, store, ghosts>> /\ cmd.name \in cmd.todo
    BY <1>9 DEF MoveFails, TypeInv, StepOK
  <2>2. /\ c \in CommandRecord /\ c.at = "revert" /\ c.run = cmd.run
        /\ c.targets = cmd.targets /\ c.todo = cmd.todo /\ c.was = cmd.was /\ c.name = cmd.name
    BY <1>0 DEF CommandRecord
  <2> HIDE DEF c
  <2> QED BY <1>0, <1>2, <2>1, <2>2 DEF Moves
<1>10. CASE Moved
  <2> DEFINE c == [Rest EXCEPT !.at = "remove", !.run = cmd.run, !.targets = cmd.targets]
  <2>1. cmd' = c /\ UNCHANGED <<container, boot, store>>
    BY <1>10 DEF Moved
  <2>2. /\ c \in CommandRecord /\ c.at = "remove" /\ c.run = cmd.run
        /\ c.targets = cmd.targets /\ c.todo = {}
    BY <1>0, RestType DEF CommandRecord
  <2> HIDE DEF c
  <2>3. StepOK'
    BY <1>0, <2>1, <2>2 DEF StepOK, Moves, container
  <2> QED BY <1>0, <1>1, <2>1, <2>2, <2>3
<1>11. CASE Revert
  <2> DEFINE rest == Tail(cmd.undo)
             c == [cmd EXCEPT !.undo = rest]
  <2>1. cmd' = c /\ UNCHANGED <<container, boot, ghosts>> /\ store' = Reverted(Head(cmd.undo))
        /\ cmd.undo # <<>> /\ cmd.at = "revert" /\ cmd.name \in cmd.todo
    BY <1>11 DEF Revert, TypeInv, StepOK
  <2>2. rest \in Seq(Operation) /\ Head(cmd.undo) \in Operation
    BY <1>0, <2>1, Popped
  <2>3. store' \in [Path -> Footprint]
    BY <1>0, <2>1, <2>2, RevertedType
  <2> HIDE DEF rest
  <2>4. /\ c \in CommandRecord /\ c.at = "revert" /\ c.run = cmd.run
        /\ c.targets = cmd.targets /\ c.todo = cmd.todo /\ c.was = cmd.was /\ c.name = cmd.name
    BY <1>0, <2>1, <2>2 DEF CommandRecord
  <2> HIDE DEF c
  <2> QED BY <1>0, <1>2, <2>1, <2>3, <2>4 DEF Moves
<1>12. CASE cmd' = Rest /\ UNCHANGED <<container, boot, store>>
  <2>1. StepOK'
    BY <1>12, RestType DEF StepOK, Rest, Moves
  <2> QED BY <1>0, <1>1, <1>12, <2>1, RestType, EmptyManifest
<1>13. CASE MoveAbandoned \/ OwnRevertRefused
  <2> DEFINE rest == Tail(cmd.undo)
             c == [cmd EXCEPT !.at = "revert", !.undo = rest, !.lost = TRUE]
  <2>1. UNCHANGED <<container, boot>> /\ cmd.name \in cmd.todo
    BY <1>13 DEF MoveAbandoned, OwnRevertRefused, TypeInv, StepOK
  <2>2. cmd' = c
    BY <1>0, <1>13 DEF MoveAbandoned, OwnRevertRefused, CommandRecord
  <2>3. rest \in Seq(Operation)
    <3>1. cmd.undo # <<>>
      BY <1>13 DEF MoveAbandoned, OwnRevertRefused, TypeInv, StepOK
    <3> QED BY <1>0, <3>1, Popped
  <2>4. store' \in [Path -> Footprint]
    <3>1. \A p \in Path : [store[p] EXCEPT !.bookmark = "on"] \in Footprint
      BY <1>0 DEF Footprint
    <3> QED BY <1>0, <1>13, <3>1 DEF MoveAbandoned, OwnRevertRefused
  <2> HIDE DEF rest
  <2>5. /\ c \in CommandRecord /\ c.at = "revert" /\ c.run = cmd.run
        /\ c.targets = cmd.targets /\ c.todo = cmd.todo /\ c.was = cmd.was /\ c.name = cmd.name
    BY <1>0, <2>3 DEF CommandRecord
  <2> HIDE DEF c
  <2> QED BY <1>0, <1>2, <2>1, <2>2, <2>4, <2>5 DEF Moves
<1>15. CASE RevertRefused
  BY <1>12, <1>15 DEF RevertRefused
<1>14. CASE RolledBack
  <2> DEFINE c == [Rest EXCEPT !.at = "start"]
  <2>1. cmd' \in {c, Rest} /\ UNCHANGED <<container, boot, store>>
    BY <1>14 DEF RolledBack
  <2>2. c \in CommandRecord /\ c.run = Empty /\ c.at = "start"
    BY RestType DEF CommandRecord
  <2>3. CASE cmd' = c
    <3>1. StepOK'
      BY <1>0, <2>1, <2>2, <2>3 DEF StepOK, Moves, container
    <3> QED BY <1>0, <1>1, <2>1, <2>2, <2>3, <3>1, EmptyManifest
  <2> QED BY <1>12, <2>1, <2>3
<1> QED BY <1>5, <1>6, <1>7, <1>8, <1>9, <1>10, <1>11, <1>13, <1>14, <1>15

LEMMA TypeStep == TypeInv /\ [Next]_vars => TypeInv'
<1> SUFFICES ASSUME TypeInv, [Next]_vars
             PROVE  TypeInv'
  OBVIOUS
<1>0. /\ cmd \in CommandRecord /\ store \in [Path -> Footprint] /\ label \in Manifest
      /\ OnePathEach(label) /\ OnePathEach(cmd.run) /\ GhostsOK'
  BY GhostStep DEF TypeInv, TypeOK
<1>1. CASE Exit
  <2>1. ctr' = "stopped" /\ boot' = Off /\ UNCHANGED <<label, layer, ready, store, cmd, ghosts>>
        /\ ctr = "running"
    BY <1>1 DEF Exit
  <2>2. TypeOK'
    BY <2>1 DEF TypeInv, TypeOK, Off, ghosts
  <2>3. StepOK'
    BY <2>1 DEF TypeInv, StepOK
  <2> QED BY <2>1, <2>2, <2>3 DEF TypeInv, Off, OnePathEach
<1>2. ASSUME NEW p \in Path, Work(p)
      PROVE  TypeInv'
  <2>1. store' = [store EXCEPT ![p].bookmark = "above"] /\ UNCHANGED <<container, boot, cmd, ghosts>>
    BY <1>2 DEF Work
  <2>2. store' \in [Path -> Footprint]
    BY <1>0, <2>1 DEF Footprint
  <2>3. TypeOK'
    BY <2>1, <2>2 DEF TypeInv, TypeOK, container, ghosts
  <2>4. StepOK'
    BY <2>1 DEF TypeInv, StepOK, container
  <2> QED BY <2>1, <2>3, <2>4 DEF TypeInv, OnePathEach, container
<1>3. ASSUME NEW c \in CommandRecord, cmd' = c, UNCHANGED <<container, boot>>,
             store' \in [Path -> Footprint], OnePathEach(c.run), StepOK'
      PROVE  TypeInv'
  <2>1. TypeOK'
    BY <1>0, <1>3 DEF TypeInv, TypeOK, container, GhostsOK
  <2> QED BY <1>3, <2>1 DEF TypeInv, container, OnePathEach
<1>4. CASE RunFails \/ SeesReady \/ TimesOut \/ Interrupt \/ (Forgotten /\ cmd.run = Empty)
  <2>1. cmd' = Rest /\ UNCHANGED <<container, boot, store>>
    BY <1>0, <1>4 DEF RunFails, SeesReady, TimesOut, Interrupt, Forgotten, ghosts
  <2>2. StepOK'
    BY <2>1, RestType DEF StepOK, Rest, Moves
  <2> QED BY <1>0, <1>3, <2>1, <2>2, RestType, EmptyManifest
<1>5. CASE StopRefused
  <2> DEFINE c == [cmd EXCEPT !.at = "remove"]
  <2>1. cmd' = c /\ UNCHANGED <<container, boot, store, ghosts>> /\ cmd.at = "stop"
        /\ cmd.targets = Empty
    BY <1>5 DEF StopRefused, Stopped
  <2>2. /\ c \in CommandRecord /\ c.at = "remove" /\ c.run = cmd.run
        /\ c.targets = cmd.targets /\ c.todo = cmd.todo
    BY <1>0 DEF CommandRecord
  <2> HIDE DEF c
  <2>3. StepOK'
    BY <2>1, <2>2 DEF TypeInv, StepOK, Moves, container
  <2> QED BY <1>0, <1>3, <2>1, <2>2, <2>3 DEF ghosts
<1>6. CASE RemoveRefused \/ (Forgotten /\ cmd.run # Empty)
  <2>1. PICK at \in {"forget", "run"}, kept \in BOOLEAN :
          /\ cmd' = [cmd EXCEPT !.at = at, !.kept = kept] /\ UNCHANGED <<container, boot, store>>
          /\ (at = "run" => cmd.run # Empty)
    <3>1. [cmd EXCEPT !.at = "run"] = [cmd EXCEPT !.at = "run", !.kept = cmd.kept]
          /\ cmd.kept \in BOOLEAN
      BY <1>0 DEF CommandRecord
    <3> QED BY <1>6, <3>1 DEF RemoveRefused, Forgotten
  <2> DEFINE c == [cmd EXCEPT !.at = at, !.kept = kept]
  <2>2. c \in CommandRecord /\ c.at = at /\ c.run = cmd.run
    BY <1>0 DEF CommandRecord
  <2>3. cmd' = c
    BY <2>1
  <2> HIDE DEF c
  <2>4. StepOK'
    BY <2>1, <2>2, <2>3 DEF StepOK, Moves
  <2> QED BY <1>0, <1>3, <2>1, <2>2, <2>3, <2>4
<1>7. ASSUME NEW p \in Path, Forget(p) \/ ForgetRefused(p)
      PROVE  TypeInv'
  <2> DEFINE c == [cmd EXCEPT !.forget = cmd.forget \ {p}]
  <2>1. /\ cmd' = c /\ UNCHANGED <<container, boot>> /\ cmd.at = "forget"
        /\ store' \in {store, [store EXCEPT ![p] = NoSession]}
    BY <1>0, <1>7 DEF Forget, ForgetRefused
  <2>2. c \in CommandRecord /\ c.at = "forget" /\ c.run = cmd.run
    BY <1>0, <2>1 DEF CommandRecord
  <2>3. store' \in [Path -> Footprint]
    <3>1. NoSession \in Footprint
      BY DEF NoSession, Footprint, Mode
    <3> QED BY <1>0, <2>1, <3>1
  <2> HIDE DEF c
  <2>4. StepOK'
    BY <2>1, <2>2 DEF StepOK, Moves
  <2> QED BY <1>0, <1>3, <2>1, <2>2, <2>3, <2>4
<1>8. CASE UNCHANGED vars
  BY <1>8 DEF TypeInv, TypeOK, StepOK, OnePathEach, vars, container, ghosts
<1> QED BY <1>1, <1>2, <1>4, <1>5, <1>6, <1>7, <1>8, TypeBoot, TypeCommand, TypeContainer,
           TypeMoves, GhostStep DEF Next, CommandStep

\* Docker's state, what the container's layer holds, the entrypoint and the command
\* in progress fit each other in every reachable state.
THEOREM TypeCorrect == Spec => []TypeOK
<1>1. TypeInv => TypeOK
  BY DEF TypeInv
<1> QED BY <1>1, TypeInit, TypeStep, PTL DEF Spec

-----------------------------------------------------------------------------
(* The rollback. *)

LEMMA EmptyStack == \A was : Stack(<<>>, was) /\ Touched(<<>>) = {}
  BY DEF Stack, Touched

\* An operation is pushed: the first of its path, or on top of others.
LEMMA PushedStack ==
  ASSUME NEW op \in Operation, NEW undo \in Seq(Operation), NEW was, Stack(undo, was),
         \/ op.kind = "rebase" /\ op.session = was[op.path] /\ op.path \notin Touched(undo)
         \/ op.kind # "rebase" /\ op.path \in Touched(undo)
  PROVE  Stack(<<op>> \o undo, was) /\ Touched(<<op>> \o undo) = Touched(undo) \cup {op.path}
<1> DEFINE t == <<op>> \o undo
<1>1. /\ 1 \in DOMAIN t /\ t[1] = op
      /\ \A i \in DOMAIN t : i \in Nat /\ (i # 1 => i - 1 \in DOMAIN undo /\ t[i] = undo[i - 1])
      /\ \A i \in DOMAIN undo : i \in Nat /\ i >= 1 /\ i + 1 \in DOMAIN t /\ t[i + 1] = undo[i]
  BY Pushed
<1> HIDE DEF t
<1>2. Touched(t) = Touched(undo) \cup {op.path}
  BY <1>1 DEF Touched
<1>3. \A i \in DOMAIN t : t[i].kind = "rebase" => t[i].session = was[t[i].path]
  BY <1>1 DEF Stack
<1>4. ASSUME NEW i \in DOMAIN t, t[i].kind # "rebase"
      PROVE  \E j \in DOMAIN t : i < j /\ t[j].path = t[i].path
  <2>1. CASE i = 1
    <3>1. PICK j \in DOMAIN undo : undo[j].path = op.path
      BY <1>1, <1>4, <2>1 DEF Touched
    <3> QED BY <1>1, <2>1, <3>1
  <2>2. CASE i # 1
    <3>1. i - 1 \in DOMAIN undo /\ t[i] = undo[i - 1]
      BY <1>1, <2>2
    <3>2. PICK j \in DOMAIN undo : i - 1 < j /\ undo[j].path = undo[i - 1].path
      BY <1>4, <3>1 DEF Stack
    <3>3. j + 1 \in DOMAIN t /\ t[j + 1] = undo[j] /\ i < j + 1
      BY <1>1, <3>2
    <3> QED BY <3>1, <3>2, <3>3
  <2> QED BY <2>1, <2>2
<1>5. ASSUME NEW i \in DOMAIN t, NEW j \in DOMAIN t, i < j, t[i].kind = "rebase"
      PROVE  t[i].path # t[j].path
  <2>1. i \in Nat /\ j \in Nat /\ j # 1 /\ j - 1 \in DOMAIN undo /\ t[j] = undo[j - 1]
    <3>1. i \in Nat /\ i >= 1 /\ j \in Nat
      BY <1>1
    <3> QED BY <1>1, <1>5, <3>1
  <2>2. CASE i = 1
    BY <1>1, <1>5, <2>1, <2>2 DEF Touched
  <2>3. CASE i # 1
    <3>1. i - 1 \in DOMAIN undo /\ t[i] = undo[i - 1] /\ i - 1 < j - 1
      BY <1>1, <1>5, <2>1, <2>3
    <3> QED BY <1>5, <2>1, <3>1 DEF Stack
  <2> QED BY <2>2, <2>3
<1> QED BY <1>2, <1>3, <1>4, <1>5 DEF t, Stack

\* The newest is popped: below a rebase nothing of its path is left, below a
\* bookmark its path's rebase is.
LEMMA PoppedStack ==
  ASSUME NEW undo \in Seq(Operation), NEW was, Stack(undo, was), undo # <<>>
  PROVE  /\ Stack(Tail(undo), was)
         /\ Touched(undo) \subseteq Touched(Tail(undo)) \cup {Head(undo).path}
         /\ IF Head(undo).kind = "rebase"
            THEN /\ Head(undo).session = was[Head(undo).path]
                 /\ Head(undo).path \notin Touched(Tail(undo))
            ELSE Head(undo).path \in Touched(Tail(undo))
<1> DEFINE t == Tail(undo)
<1>1. /\ Head(undo) = undo[1] /\ 1 \in DOMAIN undo
      /\ \A i \in DOMAIN t : i \in Nat /\ i + 1 \in DOMAIN undo /\ t[i] = undo[i + 1]
      /\ \A i \in DOMAIN undo : i \in Nat /\ i >= 1 /\
           (i # 1 => i - 1 \in DOMAIN t /\ t[i - 1] = undo[i])
  BY Popped
<1> HIDE DEF t
<1>2. Touched(undo) \subseteq Touched(t) \cup {undo[1].path}
  BY <1>1 DEF Touched
<1>3. \A i \in DOMAIN t : t[i].kind = "rebase" => t[i].session = was[t[i].path]
  BY <1>1 DEF Stack
<1>4. ASSUME NEW i \in DOMAIN t, t[i].kind # "rebase"
      PROVE  \E j \in DOMAIN t : i < j /\ t[j].path = t[i].path
  <2>1. PICK j \in DOMAIN undo : i + 1 < j /\ undo[j].path = undo[i + 1].path
    BY <1>1, <1>4 DEF Stack
  <2>2. j # 1 /\ j - 1 \in DOMAIN t /\ t[j - 1] = undo[j] /\ i < j - 1
    BY <1>1, <2>1
  <2> QED BY <1>1, <2>1, <2>2
<1>5. ASSUME NEW i \in DOMAIN t, NEW j \in DOMAIN t, i < j, t[i].kind = "rebase"
      PROVE  t[i].path # t[j].path
  BY <1>1, <1>5 DEF Stack
<1>6. undo[1].kind # "rebase" => undo[1].path \in Touched(t)
  <2>1. SUFFICES ASSUME undo[1].kind # "rebase" PROVE undo[1].path \in Touched(t)
    OBVIOUS
  <2>2. PICK j \in DOMAIN undo : 1 < j /\ undo[j].path = undo[1].path
    BY <1>1, <2>1 DEF Stack
  <2>3. j - 1 \in DOMAIN t /\ t[j - 1] = undo[j]
    BY <1>1, <2>2
  <2> QED BY <2>2, <2>3 DEF Touched
<1>7. ASSUME undo[1].kind = "rebase"
      PROVE  undo[1].session = was[undo[1].path] /\ undo[1].path \notin Touched(t)
  <2>1. \A i \in DOMAIN t : 1 < i + 1
    <3>1. DOMAIN t = 1..Len(t) /\ Len(t) \in Nat
      BY Popped DEF t
    <3> QED BY <3>1
  <2>2. \A i \in DOMAIN t : t[i].path # undo[1].path
    BY <1>1, <1>7, <2>1 DEF Stack
  <2> QED BY <1>1, <1>7, <2>2 DEF Stack, Touched
<1> QED BY <1>1, <1>2, <1>3, <1>4, <1>5, <1>6, <1>7 DEF t, Stack

\* The repo in hand has its rebase among the operations to revert and nothing else.
LEMMA OwnIsOldest ==
  ASSUME cmd.undo \in Seq(Operation), UndoOK, cmd.at = "bookmark"
  PROVE  \A i \in DOMAIN cmd.undo : cmd.undo[i].path = Own => cmd.undo[i].kind = "rebase"
<1>1. /\ 1 \in DOMAIN cmd.undo /\ cmd.undo[1].kind = "rebase" /\ cmd.undo[1].path = Own
      /\ \A i \in DOMAIN cmd.undo : i \in Nat /\ i >= 1
  BY Popped DEF UndoOK
<1>2. \A j \in DOMAIN cmd.undo : 1 < j => cmd.undo[j].path # Own
  BY <1>1 DEF UndoOK, Stack
<1> QED BY <1>1, <1>2

LEMMA UndoMoves ==
  ASSUME TypeInv, TypeInv', UndoInv, LostInv,
         \/ \E n \in Name : InPlace(n) \/ Rebase(n) \/ RebaseRefused(n)
         \/ SetBookmark \/ MoveFails \/ MoveAbandoned \/ Revert \/ OwnRevertRefused
  PROVE  UndoInv'
<1>0. /\ cmd \in CommandRecord /\ store \in [Path -> Footprint] /\ label \in Manifest
      /\ OnePathEach(label) /\ cmd.undo \in Seq(Operation)
      /\ cmd.at \in Moves /\ cmd.was \in [Path -> Footprint]
      /\ DOMAIN cmd.targets \subseteq DOMAIN label /\ cmd.todo \subseteq DOMAIN cmd.targets
      /\ \A n \in DOMAIN label : label[n] \in Entry /\ label[n].path \in Path
  <2>1. cmd.at \in Moves
    BY DEF InPlace, Rebase, RebaseRefused, Moving, SetBookmark, MoveFails, MoveAbandoned,
           Revert, OwnRevertRefused, Moves
  <2> QED BY <2>1, ManifestFacts, EntryFacts DEF TypeInv, TypeOK, StepOK, CommandRecord
<1>1. cmd.at # "revert" => ~cmd.lost
  BY DEF LostInv
<1>2. UndoOK
  BY <1>0 DEF UndoInv
<1>3. \A n \in Name : Moving(n) => n \in cmd.todo
  <2>1. cmd.todo \in SUBSET Name
    BY <1>0, ManifestFacts
  <2> QED BY <2>1, MinInName DEF Moving
<1>4. ASSUME NEW n \in Name, InPlace(n)
      PROVE  UndoInv'
  <2>1. /\ cmd'.at = "move" /\ cmd'.undo = cmd.undo /\ cmd'.was = cmd.was
        /\ cmd'.targets = cmd.targets /\ cmd'.todo = cmd.todo \ {n} /\ cmd.at = "move"
        /\ store' = store /\ label' = label /\ ~cmd.lost
    BY <1>0, <1>1, <1>4 DEF InPlace, Moving, CommandRecord, container
  <2>2. Paths(label, DOMAIN cmd.targets \ cmd.todo)
          \subseteq Paths(label, DOMAIN cmd.targets \ cmd'.todo)
    BY <2>1 DEF Paths
  <2> QED BY <1>2, <2>1, <2>2 DEF UndoInv, UndoOK
<1>5. ASSUME NEW n \in Name, Rebase(n)
      PROVE  UndoInv'
  <2> DEFINE p == label[n].path
             op == Op(p, "rebase")
             undo == <<op>> \o cmd.undo
  <2>1. /\ cmd' = [cmd EXCEPT !.at = "bookmark", !.name = n, !.undo = undo]
        /\ label' = label /\ cmd.at = "move" /\ n \in cmd.todo /\ p \in Path /\ ~cmd.lost
    BY <1>0, <1>1, <1>3, <1>5 DEF Rebase, Moving, container
  <2>2. store' \in [Path -> Footprint] /\ \A q \in Path \ {p} : store'[q] = store[q]
    BY <1>0, <1>5 DEF Rebase, TypeInv, TypeOK
  <2>3. op \in Operation /\ op.kind = "rebase" /\ op.path = p /\ op.session = store[p]
    BY <1>0, <2>1 DEF Op, Operation
  <2>4. p \notin Touched(cmd.undo)
    BY <1>0, <1>2, <2>1 DEF UndoOK, Paths, OnePathEach
  <2>5. store[p] = cmd.was[p]
    BY <1>2, <2>1, <2>4 DEF UndoOK
  <2> HIDE DEF op
  <2>6. Stack(undo, cmd.was) /\ Touched(undo) = Touched(cmd.undo) \cup {p}
    BY <1>0, <1>2, <2>3, <2>4, <2>5, PushedStack DEF UndoOK
  <2> HIDE DEF undo
  <2>7. /\ cmd'.at = "bookmark" /\ cmd'.undo = undo /\ cmd'.was = cmd.was /\ cmd'.name = n
        /\ cmd'.targets = cmd.targets /\ cmd'.todo = cmd.todo
    BY <1>0, <2>1 DEF CommandRecord
  <2>8. Touched(undo) \subseteq Paths(label, (DOMAIN cmd.targets \ cmd.todo) \cup {n})
    BY <1>2, <2>1, <2>6 DEF UndoOK, Paths
  <2>9. undo # <<>> /\ Head(undo) = op
    BY <1>0, <2>3, Pushed DEF undo
  <2> QED BY <1>2, <2>1, <2>2, <2>3, <2>6, <2>7, <2>8, <2>9 DEF UndoInv, UndoOK, Own
<1>6. ASSUME NEW n \in Name, RebaseRefused(n)
      PROVE  UndoInv'
  <2>1. /\ cmd'.at = "revert" /\ cmd'.undo = cmd.undo /\ cmd'.was = cmd.was /\ store' = store
        /\ cmd'.name = n /\ cmd'.lost = cmd.lost /\ label' = label /\ cmd.at = "move"
        /\ n \in cmd.todo /\ ~cmd.lost
    BY <1>0, <1>1, <1>3, <1>6 DEF RebaseRefused, Moving, CommandRecord, container
  <2>2. label[n].path \notin Touched(cmd.undo)
    BY <1>0, <1>2, <2>1 DEF UndoOK, Paths, OnePathEach
  <2>3. \A i \in DOMAIN cmd.undo : cmd.undo[i].path # label[n].path
    BY <2>2 DEF Touched
  <2> QED BY <1>2, <2>1, <2>3 DEF UndoInv, UndoOK, Own
<1>7. CASE SetBookmark
  <2> DEFINE p == label[cmd.name].path
             op == Op(p, "bookmark")
             undo == <<op>> \o cmd.undo
             next == NextMove
  <2>1. /\ cmd.at = "bookmark" /\ cmd.name \in cmd.todo /\ label' = label /\ p \in Path
        /\ ~cmd.lost
    BY <1>0, <1>1, <1>7 DEF SetBookmark, TypeInv, StepOK, container
  <2>2. /\ next.at = "move" /\ next.undo = cmd.undo /\ next.was = cmd.was
        /\ next.targets = cmd.targets /\ next.todo = cmd.todo \ {cmd.name}
        /\ next \in CommandRecord
    BY <1>0 DEF NextMove, CommandRecord
  <2>3. Touched(cmd.undo) \subseteq Paths(label, DOMAIN cmd.targets \ next.todo)
    <3>1. (DOMAIN cmd.targets \ cmd.todo) \cup {cmd.name} \subseteq DOMAIN cmd.targets \ next.todo
      BY <1>0, <2>1, <2>2
    <3> QED BY <1>2, <2>1, <3>1 DEF UndoOK, Paths
  <2>4. CASE cmd' = next /\ store' = store
    BY <1>2, <2>1, <2>2, <2>3, <2>4 DEF UndoInv, UndoOK
  <2>5. CASE cmd' = [next EXCEPT !.undo = undo] /\ store' = [store EXCEPT ![p].bookmark = "on"]
    <3>1. op \in Operation /\ op.kind # "rebase" /\ op.path = p
      BY <1>0, <2>1 DEF Op, Operation
    <3>2. p \in Touched(cmd.undo)
      BY <1>0, <1>2, <2>1, Popped DEF UndoOK, Own, Touched
    <3> HIDE DEF op
    <3>3. Stack(undo, cmd.was) /\ Touched(undo) = Touched(cmd.undo)
      <4>1. Stack(cmd.undo, cmd.was)
        BY <1>2 DEF UndoOK
      <4>2. Stack(undo, cmd.was) /\ Touched(undo) = Touched(cmd.undo) \cup {op.path}
        BY <1>0, <3>1, <3>2, <4>1, PushedStack
      <4> QED BY <3>1, <3>2, <4>2
    <3> HIDE DEF undo, next
    <3>4. /\ cmd'.at = "move" /\ cmd'.undo = undo /\ cmd'.was = cmd.was
          /\ cmd'.targets = cmd.targets /\ cmd'.todo = next.todo
      BY <2>2, <2>5 DEF CommandRecord
    <3>5. \A q \in Path \ {p} : store'[q] = store[q]
      BY <1>0, <2>5
    <3> QED BY <1>2, <2>1, <2>3, <3>2, <3>3, <3>4, <3>5 DEF UndoInv, UndoOK
  <2>6. [next EXCEPT !.undo = <<op>> \o @] = [next EXCEPT !.undo = undo]
    BY <2>2
  <2> QED BY <1>7, <2>4, <2>5, <2>6 DEF SetBookmark
<1>8. CASE MoveFails
  <2>1. /\ cmd'.at = "revert" /\ cmd'.undo = cmd.undo /\ cmd'.was = cmd.was /\ store' = store
        /\ cmd'.name = cmd.name /\ cmd'.lost = cmd.lost /\ label' = label
        /\ cmd.at = "bookmark" /\ ~cmd.lost
    BY <1>0, <1>1, <1>8 DEF MoveFails, CommandRecord, container
  <2>2. \A i \in DOMAIN cmd.undo : cmd.undo[i].path = Own => cmd.undo[i].kind = "rebase"
    BY <1>0, <1>2, <2>1, OwnIsOldest
  <2> QED BY <1>2, <2>1, <2>2 DEF UndoInv, UndoOK, Own
<1>9. CASE Revert
  <2> DEFINE op == Head(cmd.undo)
             rest == Tail(cmd.undo)
  <2>1. cmd.at = "revert" /\ cmd.undo # <<>> /\ cmd' = [cmd EXCEPT !.undo = rest]
        /\ store' = Reverted(op)
    BY <1>9 DEF Revert
  <2>2. /\ op \in Operation /\ Stack(rest, cmd.was)
        /\ Touched(cmd.undo) \subseteq Touched(rest) \cup {op.path}
        /\ op.kind = "rebase" => op.session = cmd.was[op.path]
        /\ op.kind # "rebase" => op.path \in Touched(rest)
        /\ \A i \in DOMAIN rest : rest[i].path = Own => rest[i].kind = "rebase" /\ ~cmd.lost
    BY <1>0, <1>2, <2>1, Popped, PoppedStack DEF UndoOK
  <2> HIDE DEF op, rest
  <2>3. /\ \A q \in Path \ {op.path} : store'[q] = store[q]
        /\ op.kind = "rebase" => store'[op.path] = op.session
    BY <1>0, <2>1, <2>2, RevertedType
  <2>4. /\ cmd'.at = "revert" /\ cmd'.undo = rest /\ cmd'.was = cmd.was /\ Own' = Own
        /\ cmd'.lost = cmd.lost
    BY <1>0, <1>9, <2>1 DEF CommandRecord, Revert, container, Own
  <2>5. ASSUME NEW q \in Path \ Touched(rest)
        PROVE  store'[q] = cmd.was[q] \/ (cmd.lost /\ q = Own)
    <3>1. CASE q = op.path
      BY <2>2, <2>3, <2>5, <3>1
    <3>2. CASE q # op.path
      BY <1>2, <2>2, <2>3, <2>5, <3>2 DEF UndoOK
    <3> QED BY <3>1, <3>2
  <2> QED BY <2>2, <2>4, <2>5 DEF UndoInv, UndoOK
<1>10. CASE MoveAbandoned \/ OwnRevertRefused
  <2> DEFINE op == Head(cmd.undo)
             rest == Tail(cmd.undo)
  <2>1. /\ cmd.at \in {"bookmark", "revert"} /\ cmd.undo # <<>> /\ op.path = Own
        /\ cmd'.at = "revert" /\ cmd'.undo = rest /\ cmd'.was = cmd.was /\ Own' = Own
        /\ cmd'.lost
    BY <1>0, <1>2, <1>10 DEF MoveAbandoned, OwnRevertRefused, UndoOK, Own, container, CommandRecord
  <2>2. \A q \in Path \ {Own} : store'[q] = store[q]
    BY <1>0, <1>10 DEF MoveAbandoned, OwnRevertRefused, Own
  <2>3. op.kind = "rebase"
    BY <1>0, <1>2, <2>1, Popped DEF UndoOK
  <2>4. /\ Stack(rest, cmd.was) /\ Own \notin Touched(rest)
        /\ Touched(cmd.undo) \subseteq Touched(rest) \cup {Own}
    BY <1>0, <1>2, <2>1, <2>3, PoppedStack DEF UndoOK
  <2> HIDE DEF op, rest
  <2>5. \A i \in DOMAIN rest : rest[i].path # Own
    BY <2>4 DEF Touched
  <2>6. \A q \in Path \ Touched(rest) : store'[q] = cmd.was[q] \/ q = Own
    BY <1>2, <2>2, <2>4 DEF UndoOK
  <2> QED BY <2>1, <2>4, <2>5, <2>6 DEF UndoInv, UndoOK
<1> QED BY <1>4, <1>5, <1>6, <1>7, <1>8, <1>9, <1>10

LEMMA UndoStep == TypeInv /\ UndoInv /\ LostInv /\ [Next]_vars => UndoInv' /\ LostInv'
<1> SUFFICES ASSUME TypeInv, UndoInv, LostInv, [Next]_vars
             PROVE  UndoInv' /\ LostInv'
  OBVIOUS
<1>0. cmd \in CommandRecord /\ boot \in [at : {"off", "early", "loop", "stage", "idle"},
                                          todo : SUBSET DOMAIN label]
  BY DEF TypeInv, TypeOK
<1>1. ASSUME UNCHANGED <<cmd, cut>>, boot # Off \/ UNCHANGED <<label, store>>
      PROVE  UndoInv' /\ LostInv'
  BY <1>1 DEF UndoInv, LostInv, UndoOK, Own, TypeInv, StepOK
<1>2. CASE BootStep \/ Exit \/ (\E p \in Path : Work(p)) \/ Stop \/ UNCHANGED vars
  <2>1. BootStep => boot # Off /\ UNCHANGED <<cmd, cut>>
    BY DEF BootStep, BootBegins, Stage, BootEnds, WarmRestart, Reattach, FirstLaunch,
           FirstWorktree, FirstTime, Booting, Off, ghosts
  <2>2. Exit \/ Stop \/ UNCHANGED vars => UNCHANGED <<cmd, cut, label, store>>
    BY DEF Exit, Stop, vars, ghosts, container
  <2>3. \A p \in Path : Work(p) => boot # Off /\ UNCHANGED <<cmd, cut>>
    BY DEF Work, Off, ghosts
  <2> QED BY <1>1, <1>2, <2>1, <2>2, <2>3
<1>3. ASSUME cmd'.at \notin Moves, cmd'.lost = FALSE, cmd'.undo = <<>>
      PROVE  UndoInv' /\ LostInv'
  BY <1>3 DEF UndoInv, LostInv, Moves
<1>4. Rest.lost = FALSE /\ Rest.undo = <<>> /\ Rest.at = "rest"
  BY DEF Rest
<1>5. ASSUME NEW names \in (SUBSET Name) \ {{}}, NEW targets \in [names -> Rev],
             Reanchor(targets)
      PROVE  UndoInv' /\ LostInv'
  <2>1. cmd'.lost = FALSE /\ cmd'.undo = <<>> /\ cmd'.at \in {"stop", "move"} /\ cmd'.was = store
        /\ UNCHANGED store
    BY <1>5 DEF Reanchor, Rest
  <2> QED BY <2>1, EmptyStack DEF UndoInv, UndoOK, LostInv
<1>6. CASE Command
  <2>1. ASSUME cmd'.at \in {"run", "stop", "start"}, cmd'.lost = FALSE, cmd'.undo = <<>>
        PROVE  UndoInv' /\ LostInv'
    BY <1>3, <2>1 DEF Moves
  <2>2. ASSUME NEW m, StartNew(m) \/ StartChanged(m)
        PROVE  UndoInv' /\ LostInv'
    BY <2>1, <2>2 DEF StartNew, StartChanged, Rest
  <2>3. StartWarm \/ Restart \/ Shutdown => UndoInv' /\ LostInv'
    BY <2>1 DEF StartWarm, Restart, Shutdown, Rest
  <2> QED BY <1>2, <1>5, <1>6, <2>2, <2>3 DEF Command
<1>7. CASE Run \/ RunFails \/ StartContainer \/ SeesReady \/ TimesOut \/ Interrupt \/ RolledBack
           \/ (Forgotten /\ cmd.run = Empty)
  <2>1. cmd' \in {Rest, [Rest EXCEPT !.at = "wait"], [Rest EXCEPT !.at = "start"]}
    BY <1>7 DEF Run, RunFails, StartContainer, SeesReady, TimesOut, Interrupt, RolledBack, Forgotten
  <2>2. cmd'.at \notin Moves /\ cmd'.lost = FALSE /\ cmd'.undo = <<>>
    BY <2>1 DEF Rest, Moves
  <2> QED BY <1>3, <2>2
<1>8. CASE StopContainer \/ StopRefused
  <2>1. cmd.undo = <<>> /\ ~cmd.lost /\ UNCHANGED store /\ cmd' = Stopped
    BY <1>8 DEF StopContainer, StopRefused, UndoInv
  <2>2. /\ cmd'.lost = FALSE /\ cmd'.undo = <<>> /\ cmd'.at \in {"remove", "move"}
        /\ cmd'.at = "move" => cmd'.was = store
    BY <1>0, <2>1 DEF Stopped, CommandRecord
  <2> QED BY <2>1, <2>2, EmptyStack DEF UndoInv, UndoOK, LostInv, Moves
<1>9. CASE \/ Remove \/ RemoveRefused \/ Moved \/ (Forgotten /\ cmd.run # Empty)
           \/ \E p \in Path : Forget(p) \/ ForgetRefused(p)
  <2>1. cmd'.at \in {"forget", "remove", "run"} /\ cmd.at # "revert"
        /\ (cmd'.lost = cmd.lost \/ cmd'.lost = FALSE)
    BY <1>0, <1>9 DEF Remove, RemoveRefused, Moved, Forgotten, Forget, ForgetRefused, Rest,
                      CommandRecord
  <2> QED BY <2>1 DEF UndoInv, LostInv, Moves
<1>10. CASE \/ \E n \in Name : InPlace(n) \/ Rebase(n) \/ RebaseRefused(n)
            \/ SetBookmark \/ MoveFails \/ MoveAbandoned \/ Revert \/ OwnRevertRefused
  <2>1. UndoInv'
    BY <1>10, TypeStep, UndoMoves
  <2>2. \/ cmd'.lost = cmd.lost /\ cmd.at # "revert"
        \/ cmd'.at = "revert"
    BY <1>0, <1>10 DEF InPlace, Rebase, RebaseRefused, Moving, SetBookmark, NextMove, MoveFails,
                       MoveAbandoned, Revert, OwnRevertRefused, CommandRecord
  <2> QED BY <2>1, <2>2 DEF LostInv
<1>11. CASE RevertRefused
  BY <1>3, <1>4, <1>11 DEF RevertRefused, Moves
<1> QED BY <1>2, <1>6, <1>7, <1>8, <1>9, <1>10, <1>11 DEF Next, CommandStep

\* When a re-anchoring ends with its rollback, every store has the session it had, but
\* the one of the repo whose own move was abandoned or not reverted.
THEOREM RolledBackExactly == Spec => []RollbackRestores
<1>1. Init => UndoInv /\ LostInv
  BY DEF Init, Rest, UndoInv, LostInv, Moves
<1>2. TypeInv /\ UndoInv => RollbackRestores
  <2>1. SUFFICES ASSUME TypeInv, UndoInv, cmd.at = "revert", cmd.undo = <<>>, NEW p \in Path
                 PROVE  store[p] = cmd.was[p] \/ (cmd.lost /\ p = label[cmd.name].path)
    BY DEF RollbackRestores
  <2> QED BY <2>1, EmptyStack DEF UndoInv, UndoOK, Own, Moves
<1> QED BY <1>1, <1>2, TypeInit, TypeStep, UndoStep, PTL DEF Spec

-----------------------------------------------------------------------------
(* Sessions and the manifest. *)

\* The entrypoint, those who work in the container, and its death.
LEMMA CleanBoot ==
  ASSUME TypeInv, Clean,
         BootStep \/ (\E p \in Path : Work(p)) \/ Exit \/ Stop \/ UNCHANGED vars
  PROVE  Clean'
<1>0. /\ label \in Manifest /\ OnePathEach(label) /\ store \in [Path -> Footprint]
      /\ boot.todo \subseteq DOMAIN label /\ DOMAIN label \subseteq Name
      /\ \A n \in DOMAIN label : label[n] \in Entry /\ label[n].path \in Path
  BY ManifestFacts, EntryFacts DEF TypeInv, TypeOK
<1>1. CASE UNCHANGED vars
  BY <1>1 DEF Clean, Owners, Targeted, KeepsOK, TargetsOK, MovesOK, Recorded, Matches, Findable,
              vars, container, ghosts
<1>2. CASE Exit \/ Stop
  <2>1. ctr = "running" /\ UNCHANGED <<label, store, cmd, left, stuck>>
    BY <1>2 DEF Exit, Stop, ghosts
  <2> QED BY <2>1 DEF Clean, Owners, Targeted, KeepsOK, TargetsOK, MovesOK, Recorded, Matches,
                      Findable
<1>3. CASE BootStep \/ \E p \in Path : Work(p)
  <2>1. boot # Off /\ ctr = "running" /\ UNCHANGED <<ctr, label, cmd, left, stuck>>
    <3>1. boot.at \in {"early", "loop", "stage", "idle"} /\ UNCHANGED <<ctr, label, cmd, left, stuck>>
      BY <1>3 DEF BootStep, BootBegins, Stage, BootEnds, WarmRestart, Reattach, FirstLaunch,
                  FirstWorktree, FirstTime, Booting, Work, container, ghosts
    <3> QED BY <3>1 DEF TypeInv, TypeOK, Off
  <2>2. cmd.at \notin Moves \cup {"forget", "run"} /\ ~(cmd.at = "remove" /\ Targeted)
    BY <2>1 DEF TypeInv, StepOK, Clean, Targeted
  <2>3. ASSUME NEW p \in Path
        PROVE  \/ store'[p] = store[p]
               \/ \E n \in DOMAIN label : label[n].path = p /\ store'[p] = Session(label[n])
               \/ /\ p \in Paths(label, DOMAIN label) /\ store[p].bookmark = "on"
                  /\ store'[p] = [store[p] EXCEPT !.bookmark = "above"]
    <3>1. ASSUME NEW n \in DOMAIN label,
                 store' = [store EXCEPT ![label[n].path] = Session(label[n])]
          PROVE  store'[p] = store[p] \/ (label[n].path = p /\ store'[p] = Session(label[n]))
      BY <1>0, <3>1
    <3>2. \A n \in Name : FirstWorktree(n) => n \in DOMAIN label
      <4>1. boot.todo \in SUBSET Name
        BY <1>0
      <4> QED BY <1>0, <4>1, MinInName DEF FirstWorktree, FirstTime, Booting
    <3>3. Stage => Min(boot.todo) \in DOMAIN label
      <4>1. boot.todo \in SUBSET Name
        BY <1>0
      <4> QED BY <1>0, <4>1, MinInName DEF Stage, TypeInv, TypeOK
    <3>4. \A q \in Path : Work(q) =>
             \/ store'[p] = store[p]
             \/ /\ p \in Paths(label, DOMAIN label) /\ store[p].bookmark = "on"
                /\ store'[p] = [store[p] EXCEPT !.bookmark = "above"]
      BY <1>0 DEF Work
    <3>5. ASSUME NEW n \in Name, FirstWorktree(n)
          PROVE  \E k \in DOMAIN label : store' = [store EXCEPT ![label[k].path] = Session(label[k])]
      BY <3>2, <3>5 DEF FirstWorktree
    <3>6. Stage => \E k \in DOMAIN label :
                     store' = [store EXCEPT ![label[k].path] = Session(label[k])]
      BY <3>3 DEF Stage
    <3>7. ASSUME NEW n \in Name, WarmRestart(n) \/ Reattach(n) \/ FirstLaunch(n)
          PROVE  UNCHANGED store
      BY <3>7 DEF WarmRestart, Reattach, FirstLaunch
    <3>8. BootBegins \/ BootEnds => UNCHANGED store
      BY DEF BootBegins, BootEnds
    <3> QED BY <1>3, <3>1, <3>4, <3>5, <3>6, <3>7, <3>8 DEF BootStep
  <2>4. \A n \in DOMAIN label : Matches(Session(label[n]), label[n], stuck)
                                /\ Session(label[n]).bookmark = "above"
    BY DEF Matches, Anchored, Session
  <2>5. ASSUME NEW n \in DOMAIN label
        PROVE  \/ store'[label[n].path] = store[label[n].path]
               \/ /\ Matches(store'[label[n].path], label[n], stuck)
                  /\ store'[label[n].path].bookmark = "above"
               \/ /\ store[label[n].path].bookmark = "on"
                  /\ store'[label[n].path] = [store[label[n].path] EXCEPT !.bookmark = "above"]
    BY <1>0, <2>3, <2>4 DEF OnePathEach
  <2>6. \A p \in Path : store[p].bookmark = "on" =>
          LET s == [store[p] EXCEPT !.bookmark = "above"] IN
          s.bookmark = "above" /\ s.parent = store[p].parent /\ s.mode = store[p].mode
    BY <1>0 DEF Footprint
  <2>7. ASSUME Recorded(store, label, left, stuck)
        PROVE  Recorded(store', label, left, stuck)
    <3> SUFFICES ASSUME NEW n \in DOMAIN label, label[n].path \in Jj \ left,
                        store'[label[n].path].bookmark # "none"
                 PROVE  Matches(store'[label[n].path], label[n], stuck)
      BY DEF Recorded
    <3>1. CASE store'[label[n].path] = store[label[n].path]
      BY <2>7, <3>1 DEF Recorded
    <3>2. CASE /\ store[label[n].path].bookmark = "on"
               /\ store'[label[n].path] = [store[label[n].path] EXCEPT !.bookmark = "above"]
      <4>1. Matches(store[label[n].path], label[n], stuck)
        BY <2>7, <3>2 DEF Recorded
      <4> QED BY <1>0, <2>6, <3>2, <4>1 DEF Matches, Anchored
    <3> QED BY <2>5, <3>1, <3>2
  <2>8. \A n \in DOMAIN label : Findable(label[n].path) => Findable(label[n].path)'
    BY <1>0, <2>1, <2>5, <2>6 DEF Findable, Matches
  <2>9. ASSUME NEW p \in Jj \ left, store'[p].bookmark # "none"
        PROVE  p \in Paths(label, DOMAIN label)
    BY <2>2, <2>3, <2>9 DEF Clean, Owners, Paths, Jj
  <2>10. (KeepsOK => KeepsOK') /\ (TargetsOK => TargetsOK')
    BY <1>0, <2>1, <2>8, ManifestFacts DEF KeepsOK, TargetsOK, TypeInv, StepOK
  <2> QED BY <2>1, <2>2, <2>7, <2>9, <2>10 DEF Clean, Owners, Targeted
<1> QED BY <1>1, <1>2, <1>3

\* Commands start between commands.
LEMMA CleanCommand ==
  ASSUME TypeInv, Clean, ~cut, Command
  PROVE  Clean'
<1>0. /\ label \in Manifest /\ OnePathEach(label) /\ store \in [Path -> Footprint]
      /\ DOMAIN label \subseteq Name /\ (label = Empty <=> ctr = "absent")
      /\ \A n \in DOMAIN label : label[n] \in Entry /\ label[n].path \in Path
  BY ManifestFacts, EntryFacts DEF TypeInv, TypeOK
<1>1. CASE Stop
  BY <1>1, CleanBoot
<1>2. SUFFICES ASSUME cmd = Rest
               PROVE  Clean'
  BY <1>1 DEF Command, StartNew, StartChanged, StartWarm, Restart, Shutdown, Reanchor
<1>3. /\ \A p \in Jj \ left : store[p].bookmark # "none" => p \in Paths(label, DOMAIN label)
      /\ Recorded(store, label, left, stuck)
  BY <1>2 DEF Clean, Owners, Rest
<1>4. ASSUME NEW m \in Launches, StartNew(m)
      PROVE  Clean'
  <2>1. /\ cmd'.at = "run" /\ cmd'.run = m /\ cmd'.forget = {} /\ cmd'.targets = Empty
        /\ ctr = "absent" /\ ctr' = "absent" /\ UNCHANGED <<store, left, stuck>>
    BY <1>4 DEF StartNew, Rest, container, ghosts
  <2>2. \A p \in Jj \ left : store[p].bookmark = "none"
    BY <1>0, <1>3, <2>1, EmptyManifest DEF Paths
  <2> QED BY <2>1, <2>2 DEF Clean, Owners, Targeted, Recorded, Moves
<1>5. ASSUME NEW m \in Typed, StartChanged(m)
      PROVE  Clean'
  <2> DEFINE kept == KeepAttached(label, m)
             gone == Paths(label, Removed(label, m))
             away == MovedAway(label, m)
  <2>1. /\ cmd'.at = "stop" /\ cmd'.run = kept /\ cmd'.forget = gone /\ cmd'.targets = Empty
        /\ UNCHANGED <<label, store, stuck>> /\ left' = left \cup away
    BY <1>5 DEF StartChanged, Rest, container
  <2>2. m \in Manifest /\ OnePathEach(m)
    BY LaunchFacts, TypedIsLaunched
  <2>3. /\ DOMAIN kept = DOMAIN m
        /\ \A n \in DOMAIN m :
             /\ kept[n].path = m[n].path
             /\ n \in DOMAIN label /\ label[n].path = m[n].path => kept[n] = label[n]
    BY <1>0, <2>2, KeepAttachedOK
  <2>4. \A k \in DOMAIN label :
          \/ label[k].path \in gone
          \/ label[k].path \in away
          \/ k \in DOMAIN m /\ label[k].path = m[k].path
    BY DEF Paths, Removed, MovedAway
  <2> HIDE DEF kept, gone, away
  <2>5. ASSUME NEW n \in DOMAIN kept, NEW k \in DOMAIN label,
               kept[n].path = label[k].path, label[k].path \notin left \cup away \cup gone
        PROVE  kept[n] = label[k]
    <3>1. k \in DOMAIN m /\ label[k].path = m[k].path
      BY <2>4, <2>5
    <3>2. n = k
      BY <2>2, <2>3, <2>5, <3>1 DEF OnePathEach
    <3> QED BY <2>3, <3>1, <3>2
  <2>6. ASSUME NEW k \in DOMAIN label
        PROVE  label[k].path \in left \cup away \cup gone \cup Paths(kept, DOMAIN kept)
    BY <2>3, <2>4 DEF Paths
  <2>7. KeepsOK'
    BY <2>1, <2>5, <2>6 DEF KeepsOK, Paths
  <2> QED BY <1>3, <2>1, <2>7 DEF Clean, Owners, Targeted, Recorded, Moves
<1>6. CASE StartWarm
  <2>1. cmd'.at = "start" /\ cmd'.targets = Empty /\ UNCHANGED <<label, store, left, stuck>>
    BY <1>6 DEF StartWarm, Rest, container, ghosts
  <2> QED BY <1>3, <2>1 DEF Clean, Owners, Targeted, Moves
<1>7. CASE Restart
  <2>1. /\ cmd'.at = "stop" /\ cmd'.targets = Empty /\ UNCHANGED <<label, store, left, stuck>>
        /\ cmd'.run = label /\ cmd'.forget = {}
    BY <1>7 DEF Restart, Rest, container, ghosts
  <2>2. KeepsOK'
    BY <1>0, <2>1 DEF KeepsOK, OnePathEach
  <2> QED BY <1>3, <2>1, <2>2 DEF Clean, Owners, Targeted, Moves
<1>8. CASE Shutdown
  <2>1. /\ cmd'.at = "stop" /\ cmd'.targets = Empty /\ UNCHANGED <<label, store, left, stuck>>
        /\ cmd'.run = Empty /\ cmd'.forget = Paths(label, DOMAIN label)
    BY <1>8 DEF Shutdown, Rest, container, ghosts
  <2>2. KeepsOK'
    BY <2>1, EmptyManifest DEF KeepsOK
  <2> QED BY <1>3, <2>1, <2>2 DEF Clean, Owners, Targeted, Moves
<1>9. ASSUME NEW names \in (SUBSET Name) \ {{}}, NEW targets \in [names -> Rev],
             Reanchor(targets)
      PROVE  Clean'
  <2>1. /\ cmd'.at \in {"stop", "move"} /\ cmd'.targets = targets
        /\ UNCHANGED <<label, store, left, stuck>> /\ cmd'.was = store /\ cmd'.forget = {}
        /\ cmd'.todo = DOMAIN targets /\ cmd'.run = Reanchored(targets) /\ cmd'.undo = <<>>
    BY <1>9 DEF Reanchor, Reanchored, Rest, container, ghosts
  <2>2. \A n \in DOMAIN targets :
          n \in DOMAIN label /\ label[n].path \in Jj /\ Findable(label[n].path)
    BY <1>9 DEF Reanchor
  <2>3. targets # Empty
    BY <1>9, EmptyManifest
  <2>4. TargetsOK'
    BY <2>1, <2>2 DEF TargetsOK, Findable, Reanchored
  <2>5. cmd'.at = "move" => MovesOK'
    BY <1>3, <2>1, <2>2 DEF MovesOK, Findable
  <2> QED BY <1>3, <2>1, <2>3, <2>4, <2>5 DEF Clean, Owners, Targeted, Moves
<1> QED BY <1>1, <1>4, <1>5, <1>6, <1>7, <1>8, <1>9 DEF Command

\* A command stops and removes the container, forgets sessions, launches.
LEMMA CleanContainer ==
  ASSUME TypeInv, UndoInv, Clean,
         \/ StopContainer \/ StopRefused \/ Remove \/ Forgotten \/ Run \/ StartContainer
         \/ SeesReady \/ TimesOut \/ (Interrupt /\ ~cut') \/ \E p \in Path : Forget(p)
  PROVE  Clean'
<1>0. /\ label \in Manifest /\ OnePathEach(label) /\ store \in [Path -> Footprint]
      /\ cmd \in CommandRecord /\ (label = Empty <=> ctr = "absent")
      /\ \A n \in DOMAIN label : label[n] \in Entry /\ label[n].path \in Path
  BY ManifestFacts, EntryFacts DEF TypeInv, TypeOK
<1>1. ASSUME cmd'.at \in {"rest", "wait"}, cmd.at \in {"rest", "wait", "start", "stop"},
             UNCHANGED <<label, store, left, stuck>>
      PROVE  Clean'
  BY <1>1 DEF Clean, Owners, Moves
<1>2. CASE StartContainer \/ SeesReady \/ TimesOut \/ (Interrupt /\ ~cut')
  <2>1. UNCHANGED <<label, store, left, stuck>>
    BY <1>2 DEF StartContainer, SeesReady, TimesOut, Interrupt, CutShort, container, ghosts
  <2>2. cmd'.at \in {"rest", "wait"}
    BY <1>2 DEF StartContainer, SeesReady, TimesOut, Interrupt, Rest
  <2>3. cmd.at \in {"rest", "wait", "start", "stop"}
    BY <1>0, <1>2 DEF StartContainer, SeesReady, TimesOut, Interrupt, CutShort, CommandRecord
  <2> QED BY <1>1, <2>1, <2>2, <2>3
<1>3. CASE StopContainer \/ StopRefused
  <2>1. /\ cmd' = Stopped /\ cmd.at = "stop" /\ UNCHANGED <<label, store, left, stuck>>
        /\ Targeted => StopContainer
    BY <1>3 DEF StopContainer, StopRefused, Targeted, container, ghosts
  <2>2. /\ cmd'.targets = cmd.targets /\ cmd'.run = cmd.run /\ cmd'.forget = cmd.forget
        /\ cmd'.todo = cmd.todo /\ cmd'.undo = cmd.undo
        /\ cmd'.at = IF Targeted THEN "move" ELSE "remove"
        /\ Targeted => cmd'.was = store
    BY <1>0, <2>1 DEF Stopped, Targeted, CommandRecord
  <2>3. CASE Targeted
    <3>1. TargetsOK'
      BY <2>1, <2>2, <2>3 DEF Clean, TargetsOK
    <3>2. MovesOK'
      <4>1. cmd.undo = <<>> /\ cmd.todo = DOMAIN cmd.targets /\ Recorded(store, label, left, stuck)
        BY <2>1, <2>3 DEF UndoInv, Clean, TargetsOK
      <4>2. \A n \in DOMAIN cmd.targets : store[label[n].path].bookmark \in {"on", "above"}
        BY <2>1, <2>3 DEF Clean, TargetsOK, Findable
      <4> QED BY <2>1, <2>2, <2>3, <4>1, <4>2 DEF MovesOK
    <3> QED BY <2>1, <2>2, <2>3, <3>1, <3>2 DEF Clean, Owners, Targeted, Moves
  <2>4. CASE ~Targeted
    <3>1. KeepsOK'
      BY <2>1, <2>2, <2>4 DEF Clean, KeepsOK
    <3> QED BY <2>1, <2>2, <2>4, <3>1 DEF Clean, Owners, Targeted, Moves
  <2> QED BY <2>3, <2>4
<1>4. CASE Remove
  <2>1. /\ cmd.at = "remove" /\ ctr' = "absent" /\ UNCHANGED <<store, left, stuck>>
        /\ cmd'.at = "forget" /\ cmd'.run = cmd.run /\ cmd'.forget = cmd.forget
    BY <1>0, <1>4 DEF Remove, CommandRecord, ghosts
  <2>2. CASE Targeted
    <3>1. Recorded(store, cmd.run, left \cup cmd.forget, stuck) /\ TargetsOK
      BY <2>1, <2>2 DEF Clean
    <3>2. Paths(label, DOMAIN label) \subseteq Paths(cmd.run, DOMAIN cmd.run)
      <4>1. DOMAIN cmd.run = DOMAIN label /\ \A n \in DOMAIN label : cmd.run[n].path = label[n].path
        BY <1>0, <3>1 DEF TargetsOK, Entry
      <4> QED BY <4>1 DEF Paths
    <3>3. \A p \in Jj \ left : store[p].bookmark # "none" => p \in Paths(cmd.run, DOMAIN cmd.run)
      BY <2>1, <3>2 DEF Clean, Owners
    <3> QED BY <2>1, <3>1, <3>3 DEF Clean, Owners, Moves
  <2>3. CASE ~Targeted
    <3>1. Recorded(store, label, left, stuck) /\ KeepsOK
      BY <2>1, <2>3 DEF Clean
    <3>2. \A p \in Jj \ left : store[p].bookmark # "none" => p \in Paths(label, DOMAIN label)
      BY <2>1 DEF Clean, Owners
    <3>3. \A p \in Jj \ left : store[p].bookmark # "none" =>
            p \in cmd.forget \cup Paths(cmd.run, DOMAIN cmd.run)
      BY <3>1, <3>2 DEF KeepsOK
    <3>4. ASSUME NEW n \in DOMAIN cmd.run, cmd.run[n].path \in Jj \ (left \cup cmd.forget),
                 store[cmd.run[n].path].bookmark # "none"
          PROVE  Matches(store[cmd.run[n].path], cmd.run[n], stuck)
      <4>1. PICK k \in DOMAIN label : label[k].path = cmd.run[n].path
        BY <3>2, <3>4 DEF Paths
      <4>2. cmd.run[n] = label[k]
        BY <3>1, <3>4, <4>1 DEF KeepsOK
      <4> QED BY <3>1, <3>4, <4>1, <4>2 DEF Recorded
    <3>5. Recorded(store, cmd.run, left \cup cmd.forget, stuck)
      BY <3>4 DEF Recorded
    <3> QED BY <2>1, <3>3, <3>5 DEF Clean, Owners, Moves
  <2> QED BY <2>2, <2>3
<1>5. ASSUME NEW p \in Path, Forget(p)
      PROVE  Clean'
  <2>1. /\ cmd.at = "forget" /\ cmd'.at = "forget" /\ UNCHANGED ctr
        /\ left' = left \ {p} /\ stuck' = stuck \ {p}
        /\ cmd'.run = cmd.run /\ cmd'.forget = cmd.forget \ {p}
        /\ store' = IF p \in Jj THEN [store EXCEPT ![p] = NoSession] ELSE store
    BY <1>0, <1>5 DEF Forget, CommandRecord, container
  <2>2. \A q \in Jj : store'[q].bookmark # "none" => q # p /\ store'[q] = store[q]
    BY <1>0, <2>1 DEF Jj, NoSession
  <2>3. \A q \in Jj \ left' : store'[q].bookmark # "none" =>
          q \in cmd'.forget \cup Paths(cmd.run, DOMAIN cmd.run)
    BY <2>1, <2>2 DEF Clean, Owners
  <2>4. Recorded(store', cmd.run, left' \cup cmd'.forget, stuck')
    <3>1. Recorded(store, cmd.run, left \cup cmd.forget, stuck)
      BY <2>1 DEF Clean
    <3> QED BY <2>1, <2>2, <3>1 DEF Recorded, Matches
  <2> QED BY <2>1, <2>3, <2>4 DEF Clean, Owners, Moves
<1>6. CASE Forgotten
  <2>1. cmd.at = "forget" /\ cmd.forget = {} /\ ctr = "absent" /\ UNCHANGED <<ctr, label, store, left, stuck>>
    BY <1>6 DEF Forgotten, Clean, container, ghosts
  <2>2. CASE cmd.run = Empty
    <3>1. cmd'.at = "rest"
      BY <1>6, <2>2 DEF Forgotten, Rest
    <3>2. label = Empty
      BY <1>0, <2>1
    <3>3. \A p \in Jj \ left : store[p].bookmark = "none"
      BY <2>1, <2>2, EmptyManifest DEF Clean, Owners, Paths
    <3> QED BY <2>1, <3>1, <3>2, <3>3, EmptyManifest DEF Clean, Recorded, Moves
  <2>3. CASE cmd.run # Empty
    <3>1. cmd'.at = "run" /\ cmd'.run = cmd.run /\ cmd'.forget = cmd.forget
      BY <1>0, <1>6, <2>3 DEF Forgotten, CommandRecord
    <3> QED BY <2>1, <3>1 DEF Clean, Owners, Moves
  <2> QED BY <2>2, <2>3
<1>7. CASE Run
  <2>1. cmd.at = "run" /\ cmd'.at = "wait" /\ label' = cmd.run /\ UNCHANGED <<store, left, stuck>>
    BY <1>7 DEF Run, Rest, ghosts
  <2>2. cmd.forget = {} /\ Recorded(store, cmd.run, left, stuck)
    BY <2>1 DEF Clean, Recorded
  <2> QED BY <2>1, <2>2 DEF Clean, Owners, Moves
<1> QED BY <1>2, <1>3, <1>4, <1>5, <1>6, <1>7

\* A move that neither starts nor ends a series leaves the manifests alone.
LEMMA CleanInMoves ==
  ASSUME Clean, cmd.at \in Moves, cmd'.at \in Moves, UNCHANGED <<label, left, stuck>>, MovesOK',
         cmd'.run = cmd.run, cmd'.forget = cmd.forget, cmd'.targets = cmd.targets,
         \A p \in Jj \ left : store'[p].bookmark # "none" =>
           store[p].bookmark # "none" \/ p \in Paths(label, DOMAIN label)
  PROVE  Clean'
<1>1. TargetsOK'
  BY DEF Clean, TargetsOK, Moves
<1>2. Targeted'
  BY DEF Clean, Targeted
<1> QED BY <1>1, <1>2 DEF Clean, Owners, Moves

\* A repo that no operation has touched has the session the manifest records.
LEMMA Untouched ==
  ASSUME TypeInv, UndoInv, LostInv, Clean, cmd.at = "move",
         NEW n \in DOMAIN label, label[n].path \notin Touched(cmd.undo)
  PROVE  /\ store[label[n].path] = cmd.was[label[n].path]
         /\ label[n].path \in Jj \ left /\ store[label[n].path].bookmark # "none" =>
              Matches(store[label[n].path], label[n], stuck)
         /\ n \in DOMAIN cmd.targets => store[label[n].path].bookmark \in {"on", "above"}
<1>1. UndoOK /\ MovesOK
  BY DEF UndoInv, Clean, Moves
<1>2. label[n].path \in Path
  BY ManifestFacts, EntryFacts DEF TypeInv, TypeOK
<1>3. store[label[n].path] = cmd.was[label[n].path]
  BY <1>1, <1>2 DEF UndoOK, LostInv
<1> QED BY <1>1, <1>3 DEF MovesOK, Recorded

LEMMA CleanMoves ==
  ASSUME TypeInv, UndoInv, LostInv, Clean, ~cut,
         \/ \E n \in Name : InPlace(n) \/ Rebase(n) \/ RebaseRefused(n)
         \/ SetBookmark \/ MoveFails \/ MoveAbandoned \/ Moved
         \/ Revert \/ OwnRevertRefused \/ RolledBack
  PROVE  Clean'
<1>0. /\ cmd \in CommandRecord /\ store \in [Path -> Footprint] /\ label \in Manifest
      /\ OnePathEach(label) /\ cmd.undo \in Seq(Operation)
      /\ cmd.at \in Moves /\ cmd.was \in [Path -> Footprint]
      /\ DOMAIN cmd.targets \subseteq DOMAIN label /\ cmd.todo \subseteq DOMAIN cmd.targets
      /\ \A n \in DOMAIN label : label[n] \in Entry /\ label[n].path \in Path
      /\ \A n \in DOMAIN cmd.targets : cmd.targets[n] \in Rev
  <2>1. cmd.at \in Moves
    BY DEF InPlace, Rebase, RebaseRefused, Moving, SetBookmark, MoveFails, MoveAbandoned,
           Moved, Revert, OwnRevertRefused, RolledBack, Moves
  <2> QED BY <2>1, ManifestFacts, EntryFacts DEF TypeInv, TypeOK, StepOK, CommandRecord
<1>1. UndoOK /\ MovesOK /\ TargetsOK
  BY <1>0 DEF UndoInv, LostInv, Clean
<1>2. /\ DOMAIN cmd.run = DOMAIN label
      /\ \A n \in DOMAIN label :
           /\ cmd.run[n].path = label[n].path /\ cmd.run[n].mode = label[n].mode
           /\ n \in DOMAIN cmd.targets => cmd.run[n].base = cmd.targets[n]
           /\ n \notin DOMAIN cmd.targets => cmd.run[n] = label[n]
  <2>1. cmd.run = [n \in DOMAIN label |->
                     IF n \in DOMAIN cmd.targets THEN [label[n] EXCEPT !.base = cmd.targets[n]]
                     ELSE label[n]]
    BY <1>1 DEF TargetsOK
  <2> QED BY <1>0, <2>1, EntryFacts
<1>3. \A n \in Name : Moving(n) => n \in cmd.todo
  <2>1. cmd.todo \in SUBSET Name
    BY <1>0, ManifestFacts
  <2> QED BY <2>1, MinInName DEF Moving
<1>4. \A n \in DOMAIN cmd.targets, k \in DOMAIN label :
        label[n].path = label[k].path => n = k
  BY <1>0 DEF OnePathEach
<1>5. ASSUME NEW n \in Name, InPlace(n)
      PROVE  Clean'
  <2>1. /\ cmd'.at = "move" /\ cmd'.undo = cmd.undo /\ cmd'.was = cmd.was /\ cmd.at = "move"
        /\ cmd'.targets = cmd.targets /\ cmd'.todo = cmd.todo \ {n} /\ cmd'.run = cmd.run
        /\ cmd'.forget = cmd.forget /\ UNCHANGED <<store, label, left, stuck>>
        /\ n \in cmd.todo /\ store[label[n].path].parent = cmd.targets[n]
    BY <1>0, <1>3, <1>5 DEF InPlace, Moving, CommandRecord, container, ghosts
  <2>2. label[n].path \notin Touched(cmd.undo)
    BY <1>0, <1>1, <1>4, <2>1 DEF UndoOK, Paths
  <2>3. label[n].path \notin left => Anchored(store[label[n].path], cmd.run[n])
    <3>1. SUFFICES ASSUME label[n].path \notin left
                   PROVE  Anchored(store[label[n].path], cmd.run[n])
      OBVIOUS
    <3>2. label[n].path \in Jj /\ store[label[n].path].bookmark \in {"on", "above"}
      BY <1>0, <1>1, <2>1, <2>2, Untouched DEF TargetsOK
    <3>3. Matches(store[label[n].path], label[n], stuck)
      BY <1>0, <2>1, <2>2, <3>1, <3>2, Untouched
    <3> QED BY <1>0, <1>2, <2>1, <3>2, <3>3 DEF Matches, Anchored
  <2>4. MovesOK'
    BY <1>1, <2>1, <2>3 DEF MovesOK
  <2> QED BY <1>0, <2>1, <2>4, CleanInMoves DEF Moves
<1>6. ASSUME NEW n \in Name, Rebase(n)
      PROVE  Clean'
  <2> DEFINE p == label[n].path
             op == Op(p, "rebase")
             undo == <<op>> \o cmd.undo
  <2>1. /\ cmd' = [cmd EXCEPT !.at = "bookmark", !.name = n, !.undo = undo]
        /\ UNCHANGED <<label, left, stuck>> /\ cmd.at = "move" /\ n \in cmd.todo /\ p \in Path
    BY <1>0, <1>3, <1>6 DEF Rebase, Moving, container, ghosts
  <2>2. p \notin Touched(cmd.undo)
    BY <1>0, <1>1, <1>4, <2>1 DEF UndoOK, Paths
  <2>3. store[p] = cmd.was[p] /\ store[p].bookmark \in {"on", "above"}
    BY <1>0, <2>1, <2>2, Untouched
  <2>4. op \in Operation /\ op.path = p /\ op.session = store[p]
    BY <1>0, <2>1 DEF Op, Operation
  <2>5. PICK b \in {"on", "above", "adrift"} :
          store' = [store EXCEPT ![p].parent = cmd.targets[n], ![p].bookmark = b]
    BY <1>6 DEF Rebase, Position
  <2>6. /\ store'[p].parent = cmd.targets[n] /\ store'[p].bookmark = b
        /\ store'[p].mode = store[p].mode
        /\ \A q \in Path \ {p} : store'[q] = store[q]
    BY <1>0, <2>1, <2>5 DEF Footprint
  <2> HIDE DEF op
  <2>7. \A i \in DOMAIN undo :
          undo[i].session.bookmark # "none" /\ undo[i].path \in Paths(label, DOMAIN label)
    <3>1. /\ undo[1] = op
          /\ \A i \in DOMAIN undo : i # 1 => i - 1 \in DOMAIN cmd.undo /\ undo[i] = cmd.undo[i - 1]
      BY <1>0, <2>4, Pushed
    <3>2. p \in Paths(label, DOMAIN label)
      BY <1>0, <2>1 DEF Paths
    <3> HIDE DEF undo
    <3>3. \A i \in DOMAIN cmd.undo :
            /\ cmd.undo[i].session.bookmark # "none"
            /\ cmd.undo[i].path \in Paths(label, DOMAIN label)
      BY <1>1 DEF MovesOK
    <3>4. op.session.bookmark # "none" /\ op.path \in Paths(label, DOMAIN label)
      BY <2>3, <2>4, <3>2
    <3> QED BY <3>1, <3>3, <3>4
  <2> HIDE DEF undo
  <2>8. /\ cmd'.at = "bookmark" /\ cmd'.undo = undo /\ cmd'.was = cmd.was /\ cmd'.name = n
        /\ cmd'.targets = cmd.targets /\ cmd'.todo = cmd.todo /\ cmd'.run = cmd.run
        /\ cmd'.forget = cmd.forget
    BY <1>0, <2>1 DEF CommandRecord
  <2>9. ASSUME NEW k \in DOMAIN cmd.targets \ cmd.todo, label[k].path \notin left
        PROVE  Anchored(store'[label[k].path], cmd.run[k])
    <3>1. k # n /\ label[k].path # p /\ label[k].path \in Path
      BY <1>0, <1>4, <2>1
    <3> QED BY <1>1, <2>1, <2>6, <2>9, <3>1 DEF MovesOK
  <2>10. MovesOK'
    <3>1. /\ Recorded(cmd.was, label, left, stuck)
          /\ \A k \in DOMAIN cmd.targets : cmd.was[label[k].path].bookmark \in {"on", "above"}
      BY <1>1 DEF MovesOK
    <3>2. \A q \in Path : store'[q].mode = cmd.was[q].mode
      BY <1>1, <2>6 DEF MovesOK
    <3> QED BY <2>1, <2>3, <2>6, <2>7, <2>8, <2>9, <3>1, <3>2 DEF MovesOK
  <2>11. \A q \in Jj \ left : store'[q].bookmark # "none" =>
           store[q].bookmark # "none" \/ q \in Paths(label, DOMAIN label)
    BY <2>3, <2>6 DEF Jj
  <2> QED BY <1>0, <2>1, <2>8, <2>10, <2>11, CleanInMoves DEF Moves
<1>7. CASE (\E n \in Name : RebaseRefused(n)) \/ MoveFails
  <2>1. /\ cmd'.at = "revert" /\ cmd'.undo = cmd.undo /\ cmd'.was = cmd.was
        /\ cmd'.targets = cmd.targets /\ cmd'.run = cmd.run
        /\ cmd'.forget = cmd.forget /\ UNCHANGED <<store, label, left, stuck>>
    BY <1>0, <1>7 DEF RebaseRefused, MoveFails, CommandRecord, container, ghosts
  <2>2. MovesOK'
    BY <1>1, <2>1 DEF MovesOK
  <2> QED BY <1>0, <2>1, <2>2, CleanInMoves DEF Moves
<1>8. CASE SetBookmark
  <2> DEFINE n == cmd.name
             p == label[n].path
             op == Op(p, "bookmark")
             undo == <<op>> \o cmd.undo
             next == NextMove
  <2>1. cmd.at = "bookmark" /\ n \in cmd.todo /\ UNCHANGED <<label, left, stuck>> /\ p \in Path
    BY <1>0, <1>8 DEF SetBookmark, TypeInv, StepOK, container, ghosts
  <2>2. /\ next.at = "move" /\ next.undo = cmd.undo /\ next.was = cmd.was
        /\ next.targets = cmd.targets /\ next.todo = cmd.todo \ {n} /\ next.run = cmd.run
        /\ next.forget = cmd.forget /\ next \in CommandRecord
    BY <1>0 DEF NextMove, CommandRecord
  <2>3. /\ store[p].parent = cmd.targets[n] /\ store[p].bookmark # "none"
        /\ store[p].mode = cmd.was[p].mode
    BY <1>1, <2>1 DEF MovesOK
  <2>4. p \notin left => store[p].mode = cmd.run[n].mode /\ store[p].parent = cmd.run[n].base
    <3>1. SUFFICES ASSUME p \notin left
                   PROVE  store[p].mode = cmd.run[n].mode /\ store[p].parent = cmd.run[n].base
      OBVIOUS
    <3>2. p \in Jj /\ n \in DOMAIN label /\ cmd.was[p].bookmark \in {"on", "above"}
      BY <1>0, <1>1, <2>1 DEF TargetsOK, MovesOK
    <3>3. Matches(cmd.was[p], label[n], stuck)
      BY <1>1, <3>1, <3>2 DEF MovesOK, Recorded
    <3> QED BY <1>0, <1>2, <2>1, <2>3, <3>3 DEF Matches
  <2>5. \/ cmd' = next /\ store' = store /\ store[p].bookmark \in {"on", "above"}
        \/ cmd' = [next EXCEPT !.undo = undo] /\ store' = [store EXCEPT ![p].bookmark = "on"]
    <3>1. [next EXCEPT !.undo = <<op>> \o @] = [next EXCEPT !.undo = undo]
      BY <2>2
    <3> QED BY <1>8, <3>1 DEF SetBookmark, Findable
  <2>6. op \in Operation /\ op.path = p /\ op.session = store[p]
    BY <1>0, <2>1 DEF Op, Operation
  <2>7. /\ undo \in Seq(Operation)
        /\ undo[1] = op
        /\ \A i \in DOMAIN undo : i # 1 => i - 1 \in DOMAIN cmd.undo /\ undo[i] = cmd.undo[i - 1]
    BY <1>0, <2>6, Pushed
  <2> HIDE DEF op, undo, next
  <2>8. /\ cmd'.at = "move" /\ cmd'.undo \in {cmd.undo, undo} /\ cmd'.was = cmd.was
        /\ cmd'.targets = cmd.targets /\ cmd'.todo = cmd.todo \ {n} /\ cmd'.run = cmd.run
        /\ cmd'.forget = cmd.forget
    BY <2>2, <2>5, <2>7 DEF CommandRecord
  <2>9. /\ store'[p].parent = store[p].parent /\ store'[p].mode = store[p].mode
        /\ store'[p].bookmark \in {"on", "above"}
        /\ \A q \in Path \ {p} : store'[q] = store[q]
    BY <1>0, <2>1, <2>5 DEF Footprint
  <2>10. \A i \in DOMAIN cmd'.undo :
           cmd'.undo[i].session.bookmark # "none"
           /\ cmd'.undo[i].path \in Paths(label, DOMAIN label)
    <3>1. \A i \in DOMAIN cmd.undo :
            /\ cmd.undo[i].session.bookmark # "none"
            /\ cmd.undo[i].path \in Paths(label, DOMAIN label)
      BY <1>1 DEF MovesOK
    <3>2. op.session.bookmark # "none" /\ op.path \in Paths(label, DOMAIN label)
      BY <1>0, <2>1, <2>3, <2>6 DEF Paths
    <3>3. \A i \in DOMAIN undo :
            /\ undo[i].session.bookmark # "none"
            /\ undo[i].path \in Paths(label, DOMAIN label)
      BY <2>7, <3>1, <3>2
    <3> QED BY <2>8, <3>1, <3>3
  <2>11. ASSUME NEW k \in DOMAIN cmd.targets \ (cmd.todo \ {n}), label[k].path \notin left
         PROVE  Anchored(store'[label[k].path], cmd.run[k])
    <3>1. CASE k = n
      BY <2>4, <2>9, <2>11, <3>1 DEF Anchored
    <3>2. CASE k # n
      <4>1. label[k].path # p /\ label[k].path \in Path
        BY <1>0, <1>4, <2>1, <3>2
      <4> QED BY <1>1, <2>1, <2>9, <2>11, <3>2, <4>1 DEF MovesOK
    <3> QED BY <3>1, <3>2
  <2>12. MovesOK'
    <3>1. /\ Recorded(cmd.was, label, left, stuck)
          /\ \A k \in DOMAIN cmd.targets : cmd.was[label[k].path].bookmark \in {"on", "above"}
      BY <1>1 DEF MovesOK
    <3>2. \A q \in Path : store'[q].mode = cmd.was[q].mode
      BY <1>1, <2>9 DEF MovesOK
    <3> QED BY <2>1, <2>8, <2>10, <2>11, <3>1, <3>2 DEF MovesOK
  <2>13. \A q \in Jj \ left : store'[q].bookmark # "none" =>
           store[q].bookmark # "none" \/ q \in Paths(label, DOMAIN label)
    BY <2>3, <2>9 DEF Jj
  <2> QED BY <1>0, <2>1, <2>8, <2>12, <2>13, CleanInMoves DEF Moves
<1>9. CASE Moved
  <2>1. /\ cmd.at = "move" /\ cmd.todo = {} /\ cmd'.at = "remove" /\ cmd'.run = cmd.run
        /\ cmd'.targets = cmd.targets /\ cmd'.forget = {} /\ cmd.forget = {}
        /\ UNCHANGED <<store, label, left>> /\ stuck' = stuck \ Paths(label, DOMAIN cmd.targets)
    BY <1>0, <1>1, <1>9 DEF Moved, Rest, TargetsOK, CommandRecord, container
  <2>2. ASSUME NEW n \in DOMAIN label, label[n].path \in Jj \ left,
               store[label[n].path].bookmark # "none"
        PROVE  Matches(store[label[n].path], cmd.run[n], stuck')
    <3>1. CASE n \in DOMAIN cmd.targets
      BY <1>1, <2>1, <2>2, <3>1 DEF MovesOK, Matches, Anchored
    <3>2. CASE n \notin DOMAIN cmd.targets
      <4>1. label[n].path \notin Touched(cmd.undo) \cup Paths(label, DOMAIN cmd.targets)
        BY <1>1, <1>4, <2>1, <3>2 DEF UndoOK, Paths
      <4>2. Matches(store[label[n].path], label[n], stuck)
        BY <1>0, <2>1, <2>2, <4>1, Untouched
      <4> QED BY <1>2, <2>1, <3>2, <4>1, <4>2 DEF Matches
    <3> QED BY <3>1, <3>2
  <2>3. Recorded(store, cmd.run, left \cup cmd'.forget, stuck')
    BY <1>2, <2>1, <2>2 DEF Recorded
  <2>4. TargetsOK'
    BY <1>1, <2>1 DEF TargetsOK
  <2>5. \A p \in Jj \ left : store[p].bookmark # "none" => p \in Paths(label, DOMAIN label)
    BY <1>0 DEF Clean, Owners, Moves
  <2>6. Targeted /\ Targeted'
    BY <1>0, <2>1 DEF Clean, Targeted
  <2> QED BY <2>1, <2>3, <2>4, <2>5, <2>6 DEF Clean, Owners, Moves
<1>10. CASE Revert
  <2> DEFINE op == Head(cmd.undo)
             rest == Tail(cmd.undo)
  <2>1. cmd.at = "revert" /\ cmd.undo # <<>> /\ cmd' = [cmd EXCEPT !.undo = rest]
        /\ store' = Reverted(op) /\ UNCHANGED <<label, left, stuck>>
    BY <1>10 DEF Revert, container, ghosts
  <2>2. /\ op \in Operation /\ op = cmd.undo[1] /\ 1 \in DOMAIN cmd.undo
        /\ \A i \in DOMAIN rest : i + 1 \in DOMAIN cmd.undo /\ rest[i] = cmd.undo[i + 1]
    BY <1>0, <2>1, Popped
  <2> HIDE DEF op, rest
  <2>3. op.path \in Paths(label, DOMAIN label)
    BY <1>1, <2>2 DEF MovesOK
  <2>4. \A q \in Path \ {op.path} : store'[q] = store[q]
    BY <1>0, <2>1, <2>2, RevertedType
  <2>5. /\ cmd'.at = "revert" /\ cmd'.undo = rest /\ cmd'.was = cmd.was
        /\ cmd'.targets = cmd.targets /\ cmd'.run = cmd.run /\ cmd'.forget = cmd.forget
    BY <1>0, <2>1 DEF CommandRecord
  <2>8. \A q \in Path : store'[q].mode = cmd.was[q].mode
    <3>1. op.kind = "rebase" => op.session = cmd.was[op.path]
      BY <1>0, <1>1, <2>1, PoppedStack DEF UndoOK, op
    <3>2. op.kind # "rebase" => store'[op.path].mode = store[op.path].mode
      BY <1>0, <2>1, <2>2 DEF Reverted, Operation, Footprint
    <3>3. op.kind = "rebase" => store'[op.path] = op.session
      BY <1>0, <2>1, <2>2, RevertedType
    <3> QED BY <1>1, <2>4, <3>1, <3>2, <3>3 DEF MovesOK
  <2>6. MovesOK'
    BY <1>1, <2>1, <2>2, <2>5, <2>8 DEF MovesOK
  <2>7. \A q \in Jj \ left : store'[q].bookmark # "none" =>
          store[q].bookmark # "none" \/ q \in Paths(label, DOMAIN label)
    BY <2>3, <2>4 DEF Jj
  <2> QED BY <1>0, <2>1, <2>5, <2>6, <2>7, CleanInMoves DEF Moves
<1>11. CASE RolledBack
  <2> DEFINE n == cmd.name
             p == label[n].path
  <2>1. /\ cmd.undo = <<>> /\ cmd.at = "revert" /\ cmd'.at \in {"rest", "start"}
        /\ UNCHANGED <<store, label, left>>
        /\ stuck' = IF cmd.lost THEN stuck \cup {p} ELSE stuck
    BY <1>11 DEF RolledBack, Rest, container
  <2>2. n \in DOMAIN cmd.targets
    BY <1>0, <2>1 DEF TypeInv, StepOK
  <2>3. ASSUME NEW k \in DOMAIN label, label[k].path \in Jj \ left,
               store[label[k].path].bookmark # "none"
        PROVE  Matches(store[label[k].path], label[k], stuck')
    <3>1. CASE cmd.lost /\ label[k].path = p
      <4>1. k = n /\ cmd.was[p].bookmark \in {"on", "above"}
        BY <1>1, <1>4, <2>2, <3>1 DEF MovesOK
      <4>2. Matches(cmd.was[p], label[n], stuck) /\ store[p].mode = cmd.was[p].mode
        BY <1>0, <1>1, <2>3, <3>1, <4>1 DEF MovesOK, Recorded
      <4> QED BY <2>1, <3>1, <4>1, <4>2 DEF Matches
    <3>2. CASE ~(cmd.lost /\ label[k].path = p)
      <4>1. store[label[k].path] = cmd.was[label[k].path]
        BY <1>0, <1>1, <2>1, <3>2, EmptyStack DEF UndoOK, Own
      <4> QED BY <1>1, <2>1, <2>3, <4>1 DEF MovesOK, Recorded, Matches
    <3> QED BY <3>1, <3>2
  <2>4. Recorded(store, label, left, stuck')
    BY <2>3 DEF Recorded
  <2>5. \A q \in Jj \ left : store[q].bookmark # "none" => q \in Paths(label, DOMAIN label)
    BY <1>0 DEF Clean, Owners, Moves
  <2> QED BY <2>1, <2>4, <2>5 DEF Clean, Owners, Moves
<1>12. CASE MoveAbandoned \/ OwnRevertRefused
  <2> DEFINE n == cmd.name
             p == label[n].path
             rest == Tail(cmd.undo)
  <2>1. /\ cmd.undo # <<>> /\ n \in DOMAIN cmd.targets /\ p \in Path
        /\ cmd'.at = "revert" /\ cmd'.undo = rest /\ cmd'.was = cmd.was
        /\ cmd'.targets = cmd.targets /\ cmd'.run = cmd.run /\ cmd'.forget = cmd.forget
        /\ UNCHANGED <<label, left, stuck>>
    BY <1>0, <1>12 DEF MoveAbandoned, OwnRevertRefused, CommandRecord, TypeInv, StepOK, container,
                       ghosts
  <2>2. /\ \A q \in Path : store'[q].mode = store[q].mode
        /\ \A q \in Path \ {p} : store'[q] = store[q]
    BY <1>0, <1>12, <2>1 DEF MoveAbandoned, OwnRevertRefused, Footprint
  <2>3. \A i \in DOMAIN rest : i + 1 \in DOMAIN cmd.undo /\ rest[i] = cmd.undo[i + 1]
    BY <1>0, <2>1, Popped
  <2> HIDE DEF rest
  <2>4. MovesOK'
    BY <1>1, <2>1, <2>2, <2>3 DEF MovesOK
  <2>5. \A q \in Jj \ left : store'[q].bookmark # "none" =>
          store[q].bookmark # "none" \/ q \in Paths(label, DOMAIN label)
    BY <1>0, <2>1, <2>2 DEF Jj, Paths
  <2> QED BY <1>0, <2>1, <2>4, <2>5, CleanInMoves DEF Moves
<1> QED BY <1>5, <1>6, <1>7, <1>8, <1>9, <1>10, <1>11, <1>12

LEMMA CleanStep ==
  TypeInv /\ UndoInv /\ LostInv /\ CleanInv /\ [Next]_vars => CleanInv'
<1> SUFFICES ASSUME TypeInv, UndoInv, LostInv, CleanInv, [Next]_vars, ~cut'
             PROVE  Clean'
  BY DEF CleanInv
<1>1. CASE BootStep \/ Exit \/ (\E p \in Path : Work(p)) \/ UNCHANGED vars
  <2>1. UNCHANGED cut
    BY <1>1 DEF BootStep, BootBegins, Stage, BootEnds, WarmRestart, Reattach, FirstLaunch,
                FirstWorktree, FirstTime, Exit, Work, vars, ghosts
  <2> QED BY <1>1, <2>1, CleanBoot DEF CleanInv
<1>2. CASE Command
  <2>1. UNCHANGED cut
    BY <1>2 DEF Command, StartNew, StartChanged, StartWarm, Restart, Shutdown, Stop, Reanchor,
                ghosts
  <2> QED BY <1>2, <2>1, CleanCommand DEF CleanInv
<1>3. CASE \/ StopContainer \/ StopRefused \/ Remove \/ Forgotten \/ Run \/ StartContainer
           \/ SeesReady \/ TimesOut \/ Interrupt \/ \E p \in Path : Forget(p)
  <2>1. ~cut
    BY <1>3 DEF StopContainer, StopRefused, Remove, Forgotten, Run, StartContainer, SeesReady,
                TimesOut, Interrupt, CutShort, Forget, ghosts
  <2> QED BY <1>3, <2>1, CleanContainer DEF CleanInv
<1>4. CASE \/ \E n \in Name : InPlace(n) \/ Rebase(n) \/ RebaseRefused(n)
           \/ SetBookmark \/ MoveFails \/ MoveAbandoned \/ Moved
           \/ Revert \/ OwnRevertRefused \/ RolledBack
  <2>1. UNCHANGED cut
    BY <1>4 DEF InPlace, Rebase, RebaseRefused, SetBookmark, MoveFails, MoveAbandoned, Moved, Revert,
                OwnRevertRefused, RolledBack, ghosts
  <2> QED BY <1>4, <2>1, CleanMoves DEF CleanInv
<1>5. CASE RemoveRefused \/ RunFails \/ RevertRefused \/ \E p \in Path : ForgetRefused(p)
  BY <1>5 DEF RemoveRefused, RunFails, RevertRefused, ForgetRefused, CutShort
<1> QED BY <1>1, <1>2, <1>3, <1>4, <1>5 DEF Next, CommandStep

Sound == TypeInv /\ UndoInv /\ LostInv /\ CleanInv

THEOREM Soundness == Spec => []Sound
<1>1. Init => Sound
  <2>1. Init => Clean
    BY EmptyManifest DEF Init, Rest, NoSession, Clean, Recorded, Moves, Jj
  <2> QED BY <2>1, TypeInit DEF Init, Rest, UndoInv, LostInv, CleanInv, Moves, Sound
<1>2. Sound /\ [Next]_vars => Sound'
  BY TypeStep, UndoStep, CleanStep DEF Sound
<1> QED BY <1>1, <1>2, PTL DEF Spec

\* Between commands no jj store has a session of a repo that is not mounted, as long
\* as nothing was cut short and no name moved away from there.
THEOREM NoneLeftBehind == Spec => []NoStrays
<1>1. Sound => NoStrays
  BY DEF Sound, CleanInv, Clean, Owners, NoStrays
<1> QED BY <1>1, Soundness, PTL

\* The manifest among the container's labels is right about the mode of every session it
\* names, and about its anchor unless the repo kept a move it was reported rolled back
\* from.  Where a command was cut short, or a name of the set moved away from the path, it
\* need not be right, and no path has two names (TicketAssumption).
THEOREM ManifestTellsTheTruth == Spec => []AnchorIsRecorded
<1>1. Sound => AnchorIsRecorded
  BY DEF Sound, CleanInv, Clean, Recorded, Matches, Anchored, Findable, AnchorIsRecorded
<1> QED BY <1>1, Soundness, PTL

-----------------------------------------------------------------------------
(* The labels go back to a launch. *)

AsLaunched(manifest) ==
  manifest = Empty \/ \E m \in Launches : FlatLabels(manifest) = FlatLabels(m)

LaunchInv == AsLaunched(label) /\ AsLaunched(cmd.run)

LEMMA FlatLabelsKept ==
  /\ \A old, new \in Manifest : FlatLabels(KeepAttached(old, new)) = FlatLabels(new)
  /\ \A targets : label \in Manifest => FlatLabels(Reanchored(targets)) = FlatLabels(label)
<1>1. ASSUME NEW old \in Manifest, NEW new \in Manifest
      PROVE  FlatLabels(KeepAttached(old, new)) = FlatLabels(new)
  <2> DEFINE kept == KeepAttached(old, new)
  <2>1. DOMAIN kept = DOMAIN new /\ \A n \in DOMAIN new : kept[n].path = new[n].path
    BY KeepAttachedOK
  <2> HIDE DEF kept
  <2> QED BY <2>1 DEF FlatLabels, kept
<1>2. ASSUME label \in Manifest, NEW targets
      PROVE  FlatLabels(Reanchored(targets)) = FlatLabels(label)
  <2> DEFINE moved == Reanchored(targets)
  <2>1. \A n \in DOMAIN label : label[n] \in Entry
    BY <1>2, ManifestFacts
  <2>2. DOMAIN moved = DOMAIN label /\ \A n \in DOMAIN label : moved[n].path = label[n].path
    BY <2>1 DEF Reanchored, Entry
  <2> HIDE DEF moved
  <2> QED BY <2>2 DEF FlatLabels, moved
<1> QED BY <1>1, <1>2

LEMMA LaunchStep == TypeInv /\ LaunchInv /\ [Next]_vars => LaunchInv'
<1> SUFFICES ASSUME TypeInv, LaunchInv, [Next]_vars
             PROVE  LaunchInv'
  OBVIOUS
<1>0. cmd \in CommandRecord /\ label \in Manifest
  BY DEF TypeInv, TypeOK
<1>1. ASSUME cmd'.run \in {cmd.run, Empty}, label' = label \/ label' = Empty \/ label' = cmd.run
      PROVE  LaunchInv'
  BY <1>1 DEF LaunchInv, AsLaunched
<1>2. CASE Command
  <2>1. ASSUME UNCHANGED label, AsLaunched(cmd'.run)
        PROVE  LaunchInv'
    BY <2>1 DEF LaunchInv, AsLaunched
  <2>2. ASSUME NEW m \in Launches, StartNew(m)
        PROVE  LaunchInv'
    <3>1. UNCHANGED label /\ cmd'.run = m
      BY <2>2 DEF StartNew, Rest, container
    <3> QED BY <2>1, <3>1 DEF AsLaunched
  <2>3. ASSUME NEW m \in Typed, StartChanged(m)
        PROVE  LaunchInv'
    <3>1. UNCHANGED label /\ cmd'.run = KeepAttached(label, m)
      BY <2>3 DEF StartChanged, Rest, container
    <3>2. m \in Launches /\ FlatLabels(KeepAttached(label, m)) = FlatLabels(m)
      BY <1>0, TypedIsLaunched, LaunchFacts, FlatLabelsKept
    <3> QED BY <2>1, <3>1, <3>2 DEF AsLaunched
  <2>4. ASSUME NEW names \in (SUBSET Name) \ {{}}, NEW targets \in [names -> Rev],
               Reanchor(targets)
        PROVE  LaunchInv'
    <3>1. UNCHANGED label /\ cmd'.run = Reanchored(targets) /\ label # Empty
      BY <1>0, <2>4 DEF Reanchor, Reanchored, Rest, container, TypeInv, TypeOK
    <3>2. \E m \in Launches : FlatLabels(label) = FlatLabels(m)
      BY <3>1 DEF LaunchInv, AsLaunched
    <3> QED BY <1>0, <2>1, <3>1, <3>2, FlatLabelsKept DEF AsLaunched
  <2>5. CASE StartWarm \/ Restart \/ Shutdown \/ Stop
    <3>1. UNCHANGED label /\ cmd'.run \in {cmd.run, Empty, label}
      BY <2>5 DEF StartWarm, Restart, Shutdown, Stop, Rest, container
    <3> QED BY <2>1, <3>1 DEF LaunchInv, AsLaunched
  <2> QED BY <1>2, <2>2, <2>3, <2>4, <2>5 DEF Command
<1>3. CASE BootStep \/ Exit \/ (\E p \in Path : Work(p)) \/ UNCHANGED vars
  <2>1. UNCHANGED <<cmd, label>>
    BY <1>3 DEF BootStep, BootBegins, Stage, BootEnds, WarmRestart, Reattach, FirstLaunch,
                FirstWorktree, FirstTime, Exit, Work, vars, container
  <2> QED BY <1>1, <2>1
<1>4. CASE \/ StopContainer \/ StopRefused \/ Remove \/ RemoveRefused \/ Forgotten
           \/ (\E p \in Path : Forget(p) \/ ForgetRefused(p))
           \/ Run \/ RunFails \/ StartContainer \/ SeesReady \/ TimesOut \/ Interrupt
  <2>1. cmd'.run \in {cmd.run, Empty}
    BY <1>0, <1>4, RestType
       DEF StopContainer, StopRefused, Stopped, Remove, RemoveRefused, Forgotten, Forget,
           ForgetRefused, Run, RunFails, StartContainer, SeesReady, TimesOut, Interrupt,
           CommandRecord, Rest
  <2>2. label' = label \/ label' = Empty \/ label' = cmd.run
    BY <1>4 DEF StopContainer, StopRefused, Remove, RemoveRefused, Forgotten, Forget,
                ForgetRefused, Run, RunFails, StartContainer, SeesReady, TimesOut, Interrupt,
                container
  <2> QED BY <1>1, <2>1, <2>2
<1>5. CASE \/ \E n \in Name : InPlace(n) \/ Rebase(n) \/ RebaseRefused(n)
           \/ SetBookmark \/ MoveFails \/ MoveAbandoned \/ Moved
           \/ Revert \/ OwnRevertRefused \/ RevertRefused \/ RolledBack
  <2>1. UNCHANGED label
    BY <1>5 DEF InPlace, Rebase, RebaseRefused, SetBookmark, MoveFails, MoveAbandoned, Moved, Revert,
                OwnRevertRefused, RevertRefused, RolledBack, container
  <2>2. cmd'.run \in {cmd.run, Empty}
    BY <1>0, <1>5, RestType
       DEF InPlace, Rebase, RebaseRefused, SetBookmark, NextMove, MoveFails, MoveAbandoned, Moved,
           Revert, OwnRevertRefused, RevertRefused, RolledBack, CommandRecord, Rest
  <2> QED BY <1>1, <2>1, <2>2
<1> QED BY <1>2, <1>3, <1>4, <1>5 DEF Next, CommandStep

\* Whatever commands a ticket has seen, its labels mount the repos that some launch
\* resolved to, all of them and at the same paths: with RemovalIsRefused, the entries it
\* was launched from stay registered.
THEOREM LabelsNameALaunch ==
  Spec => [](label # Empty => \E m \in Launches : FlatLabels(label) = FlatLabels(m))
<1>1. Init => LaunchInv
  BY RestType DEF Init, LaunchInv, AsLaunched
<1>2. LaunchInv => (label # Empty => \E m \in Launches : FlatLabels(label) = FlatLabels(m))
  BY DEF LaunchInv, AsLaunched
<1>3. Sound => TypeInv
  BY DEF Sound
<1> QED BY <1>1, <1>2, <1>3, LaunchStep, Soundness, PTL DEF Spec

-----------------------------------------------------------------------------
(* A re-anchoring moves all its repos, or none, or the one that failed. *)

\* How far a repo's move has come, whatever was cut short before.
MidMove(n) ==
  Promise!HasMoved(cmd.was[label[n].path], store[label[n].path], cmd.targets[n])

InHand == IF cmd.at = "bookmark" THEN {cmd.name} ELSE {}

HalfOK ==
  /\ Stack(cmd.undo, cmd.was)
  /\ Targeted
  /\ \A n \in DOMAIN cmd.targets : cmd.was[label[n].path].bookmark \in {"on", "above"}
  /\ \A p \in Path :
       store[p] = cmd.was[p] \/ \E n \in DOMAIN cmd.targets : label[n].path = p /\ MidMove(n)
  /\ \A i \in DOMAIN cmd.undo :
       /\ cmd.undo[i].session.bookmark # "none"
       /\ \E n \in DOMAIN cmd.targets : label[n].path = cmd.undo[i].path /\ MidMove(n)
  /\ cmd.at = "revert" /\ cmd.lost => MidMove(cmd.name)

\* On the way forth every repo is done, in hand or untouched.
ForthOK ==
  /\ \A n \in DOMAIN cmd.targets \ cmd.todo : MidMove(n) /\ Findable(label[n].path)
  /\ \A n \in cmd.todo \ InHand : store[label[n].path] = cmd.was[label[n].path]
  /\ \A n \in InHand : MidMove(n) /\ store[label[n].path].bookmark # "none"

AtomicInv ==
  /\ cmd.at = "stop" /\ Targeted =>
       cmd.todo = DOMAIN cmd.targets /\ \A n \in DOMAIN cmd.targets : Findable(label[n].path)
  /\ cmd.at \in Moves => HalfOK
  /\ cmd.at \in {"move", "bookmark"} => ForthOK

\* Before any of them began, nothing differs.
LEMMA AtomicBegins ==
  ASSUME cmd'.at \in {"stop", "move"}, cmd'.targets # Empty, cmd'.todo = DOMAIN cmd'.targets,
         cmd'.undo = <<>>, cmd'.at = "move" => cmd'.was = store,
         UNCHANGED <<label, store>>, \A n \in DOMAIN cmd'.targets : Findable(label[n].path)
  PROVE  AtomicInv'
<1>1. cmd'.at = "move" => HalfOK' /\ ForthOK'
  BY EmptyStack DEF HalfOK, ForthOK, Targeted, InHand, Findable
<1> QED BY <1>1 DEF AtomicInv, Findable, Moves

\* The session of one repo is set, among its moves.
LEMMA MidMoveKept ==
  ASSUME UNCHANGED <<label>>, cmd'.was = cmd.was, cmd'.targets = cmd.targets, NEW n,
         NEW p, label[n].path # p, \A q \in Path \ {p} : store'[q] = store[q],
         label[n].path \in Path
  PROVE  /\ MidMove(n)' <=> MidMove(n)
         /\ Findable(label[n].path)' <=> Findable(label[n].path)
BY DEF MidMove, Findable, Promise!HasMoved

\* One repo has moved, or its bookmark was set after that.
LEMMA MoveMade ==
  ASSUME HalfOK, OnePathEach(label), NEW n \in DOMAIN cmd.targets, NEW p, p = label[n].path,
         DOMAIN cmd.targets \subseteq DOMAIN label,
         \A k \in DOMAIN label : label[k].path \in Path,
         UNCHANGED label, cmd'.was = cmd.was, cmd'.targets = cmd.targets,
         \A q \in Path \ {p} : store'[q] = store[q],
         MidMove(n)', Stack(cmd'.undo, cmd'.was), cmd'.at # "revert",
         \A i \in DOMAIN cmd'.undo : cmd'.undo[i].session.bookmark # "none",
         \A i \in DOMAIN cmd'.undo :
           cmd'.undo[i].path = p \/ \E j \in DOMAIN cmd.undo : cmd'.undo[i] = cmd.undo[j]
  PROVE  /\ HalfOK'
         /\ \A k \in DOMAIN cmd.targets \ {n} :
              /\ label[k].path \in Path /\ label[k].path # p
              /\ MidMove(k)' <=> MidMove(k)
              /\ Findable(label[k].path)' <=> Findable(label[k].path)
<1>1. \A k \in DOMAIN cmd.targets \ {n} :
        /\ label[k].path \in Path /\ label[k].path # p
        /\ MidMove(k)' <=> MidMove(k)
        /\ Findable(label[k].path)' <=> Findable(label[k].path)
  <2>1. \A k \in DOMAIN cmd.targets \ {n} : label[k].path \in Path /\ label[k].path # p
    BY DEF OnePathEach
  <2> QED BY <2>1, MidMoveKept
<1>2. ASSUME NEW q \in Path
      PROVE  store'[q] = cmd.was[q] \/ \E k \in DOMAIN cmd.targets : label[k].path = q /\ MidMove(k)'
  <2>1. CASE q = p
    BY <2>1
  <2>2. CASE q # p
    BY <1>1, <2>2 DEF HalfOK
  <2> QED BY <2>1, <2>2
<1>3. ASSUME NEW i \in DOMAIN cmd'.undo
      PROVE  \E k \in DOMAIN cmd.targets : label[k].path = cmd'.undo[i].path /\ MidMove(k)'
  <2>1. CASE cmd'.undo[i].path = p
    BY <2>1
  <2>2. CASE cmd'.undo[i].path # p
    <3>1. PICK j \in DOMAIN cmd.undo : cmd'.undo[i] = cmd.undo[j]
      BY <2>2
    <3>2. PICK k \in DOMAIN cmd.targets : label[k].path = cmd.undo[j].path /\ MidMove(k)
      BY DEF HalfOK
    <3> QED BY <1>1, <2>2, <3>1, <3>2
  <2> QED BY <2>1, <2>2
<1>4. HalfOK'
  BY <1>2, <1>3 DEF HalfOK, Targeted
<1> QED BY <1>1, <1>4

LEMMA AtomicMoves ==
  ASSUME TypeInv, UndoInv, LostInv, AtomicInv, UndoInv', LostInv', TypeInv',
         \/ \E n \in Name : InPlace(n) \/ Rebase(n) \/ RebaseRefused(n)
         \/ SetBookmark \/ MoveFails \/ MoveAbandoned \/ Revert \/ OwnRevertRefused
  PROVE  AtomicInv'
<1>0. /\ cmd \in CommandRecord /\ store \in [Path -> Footprint] /\ label \in Manifest
      /\ store' \in [Path -> Footprint]
      /\ OnePathEach(label) /\ cmd.undo \in Seq(Operation)
      /\ cmd.at \in Moves /\ cmd.was \in [Path -> Footprint]
      /\ DOMAIN cmd.targets \subseteq DOMAIN label /\ cmd.todo \subseteq DOMAIN cmd.targets
      /\ \A n \in DOMAIN label : label[n] \in Entry /\ label[n].path \in Path
      /\ HalfOK
  <2>1. cmd.at \in Moves
    BY DEF InPlace, Rebase, RebaseRefused, Moving, SetBookmark, MoveFails, MoveAbandoned,
           Revert, OwnRevertRefused, Moves
  <2> QED BY <2>1, ManifestFacts, EntryFacts DEF TypeInv, TypeOK, StepOK, CommandRecord, AtomicInv
<1>1. \A n \in Name : Moving(n) => n \in cmd.todo
  <2>1. cmd.todo \in SUBSET Name
    BY <1>0, ManifestFacts
  <2> QED BY <2>1, MinInName DEF Moving
<1>2. cmd.at \in {"move", "bookmark"} => ForthOK
  BY DEF AtomicInv
<1>3. UNCHANGED label
  BY DEF InPlace, Rebase, RebaseRefused, SetBookmark, MoveFails, MoveAbandoned, Revert,
         OwnRevertRefused, container
<1>4. ASSUME NEW n \in Name, InPlace(n)
      PROVE  AtomicInv'
  <2>1. /\ cmd.at = "move" /\ n \in cmd.todo /\ UNCHANGED store
        /\ store[label[n].path].parent = cmd.targets[n]
    BY <1>1, <1>4 DEF InPlace, Moving
  <2>2. /\ cmd'.at = "move" /\ cmd'.undo = cmd.undo /\ cmd'.was = cmd.was
        /\ cmd'.targets = cmd.targets /\ cmd'.todo = cmd.todo \ {n}
    BY <1>0, <1>4, <2>1 DEF InPlace, CommandRecord
  <2>3. MidMove(n) /\ Findable(label[n].path)
    BY <1>0, <1>2, <2>1 DEF HalfOK, ForthOK, InHand, MidMove, Findable, Promise!HasMoved
  <2>4. HalfOK'
    BY <1>0, <1>3, <2>1, <2>2 DEF HalfOK, MidMove, Targeted
  <2>5. ForthOK'
    BY <1>2, <1>3, <2>1, <2>2, <2>3 DEF ForthOK, MidMove, Findable, InHand
  <2> QED BY <2>2, <2>4, <2>5 DEF AtomicInv
<1>5. ASSUME NEW n \in Name, RebaseRefused(n)
      PROVE  AtomicInv'
  <2>1. /\ UNCHANGED store /\ cmd'.at = "revert" /\ cmd'.undo = cmd.undo /\ cmd'.was = cmd.was
        /\ cmd'.targets = cmd.targets /\ ~cmd'.lost
    BY <1>0, <1>5 DEF RebaseRefused, Moving, CommandRecord, LostInv
  <2>2. HalfOK'
    BY <1>0, <1>3, <2>1 DEF HalfOK, MidMove, Targeted
  <2> QED BY <2>1, <2>2 DEF AtomicInv
<1>6. CASE MoveFails
  <2>1. /\ UNCHANGED store /\ cmd'.at = "revert" /\ cmd'.undo = cmd.undo /\ cmd'.was = cmd.was
        /\ cmd'.targets = cmd.targets /\ ~cmd'.lost
    BY <1>0, <1>6 DEF MoveFails, CommandRecord, LostInv
  <2>2. HalfOK'
    BY <1>0, <1>3, <2>1 DEF HalfOK, MidMove, Targeted
  <2> QED BY <2>1, <2>2 DEF AtomicInv
<1>7. ASSUME NEW n \in Name, Rebase(n)
      PROVE  AtomicInv'
  <2>0. SUFFICES ASSUME NEW p, p = label[n].path
                 PROVE  AtomicInv'
    OBVIOUS
  <2>1. cmd.at = "move" /\ n \in cmd.todo /\ n \in DOMAIN cmd.targets /\ p \in Path
    BY <1>0, <1>1, <1>7, <2>0 DEF Rebase, Moving
  <2>2. /\ cmd'.at = "bookmark" /\ cmd'.undo = <<Op(p, "rebase")>> \o cmd.undo /\ cmd'.was = cmd.was
        /\ cmd'.targets = cmd.targets /\ cmd'.todo = cmd.todo /\ cmd'.name = n /\ ~cmd'.lost
    BY <1>0, <1>7, <2>0, <2>1 DEF Rebase, CommandRecord, LostInv
  <2>3. /\ \A q \in Path \ {p} : store'[q] = store[q]
        /\ store'[p].parent = cmd.targets[n] /\ store'[p].mode = store[p].mode
        /\ store'[p].bookmark # "none"
    <3>1. PICK b \in {"on", "above", "adrift"} :
            store' = [store EXCEPT ![p].parent = cmd.targets[n], ![p].bookmark = b]
      BY <1>7, <2>0 DEF Rebase, Position
    <3> QED BY <1>0, <2>1, <3>1 DEF Footprint
  <2>4. store[p] = cmd.was[p]
    BY <1>2, <2>0, <2>1 DEF ForthOK, InHand
  <2>5. MidMove(n)'
    BY <1>3, <2>0, <2>2, <2>3, <2>4 DEF MidMove, Promise!HasMoved
  <2>6. Stack(cmd'.undo, cmd'.was)
    BY <2>2 DEF UndoInv, UndoOK, Moves
  <2>7. \A i \in DOMAIN cmd'.undo :
          cmd'.undo[i].path = p \/ \E j \in DOMAIN cmd.undo : cmd'.undo[i] = cmd.undo[j]
    <3>1. Op(p, "rebase") \in Operation /\ Op(p, "rebase").path = p
      BY <1>0, <2>1 DEF Op, Operation
    <3>2. PICK op \in Operation : op = Op(p, "rebase") /\ op.path = p
      BY <3>1
    <3> QED BY <1>0, <2>2, <3>2, Pushed
  <2>10. \A i \in DOMAIN cmd'.undo : cmd'.undo[i].session.bookmark # "none"
    <3>1. Op(p, "rebase") \in Operation /\ Op(p, "rebase").session = store[p]
      BY <1>0, <2>1 DEF Op, Operation
    <3>2. PICK op \in Operation : op = Op(p, "rebase") /\ op.session = store[p]
      BY <3>1
    <3>3. op.session.bookmark # "none"
      BY <1>0, <2>0, <2>1, <2>4, <3>2 DEF HalfOK
    <3>4. \A i \in DOMAIN cmd.undo : cmd.undo[i].session.bookmark # "none"
      BY <1>0 DEF HalfOK
    <3> QED BY <1>0, <2>2, <3>2, <3>3, <3>4, Pushed
  <2>8. /\ HalfOK'
        /\ \A k \in DOMAIN cmd.targets \ {n} :
             /\ label[k].path \in Path /\ label[k].path # p
             /\ MidMove(k)' <=> MidMove(k)
             /\ Findable(label[k].path)' <=> Findable(label[k].path)
    BY <1>0, <1>3, <2>0, <2>1, <2>2, <2>3, <2>5, <2>6, <2>7, <2>10, MoveMade
  <2>9. ForthOK'
    <3>1. InHand' = {n} /\ InHand = {}
      BY <2>1, <2>2 DEF InHand
    <3>2. \A k \in DOMAIN cmd.targets \ cmd.todo : MidMove(k)' /\ Findable(label[k].path)'
      BY <1>2, <2>1, <2>8 DEF ForthOK
    <3>3. \A k \in cmd.todo \ {n} : store'[label[k].path] = cmd.was[label[k].path]
      <4>1. \A k \in cmd.todo : store[label[k].path] = cmd.was[label[k].path]
        BY <1>2, <2>1, <3>1 DEF ForthOK
      <4>2. cmd.todo \ {n} \subseteq DOMAIN cmd.targets \ {n}
        BY <1>0
      <4> QED BY <2>3, <2>8, <4>1, <4>2
    <3> QED BY <1>3, <2>0, <2>2, <2>3, <2>5, <3>1, <3>2, <3>3 DEF ForthOK, Findable
  <2> QED BY <2>2, <2>8, <2>9 DEF AtomicInv
<1>8. CASE SetBookmark
  <2>1. SUFFICES ASSUME NEW n, n = cmd.name, NEW p, p = label[n].path
                 PROVE  AtomicInv'
    OBVIOUS
  <2>2. cmd.at = "bookmark" /\ n \in cmd.todo /\ n \in DOMAIN cmd.targets /\ p \in Path
    BY <1>0, <1>8, <2>1 DEF SetBookmark, TypeInv, StepOK
  <2>3. PICK undo : /\ undo = cmd.undo \/ undo = <<Op(p, "bookmark")>> \o cmd.undo
                    /\ cmd'.undo = undo
                    /\ cmd'.at = "move" /\ cmd'.was = cmd.was /\ cmd'.targets = cmd.targets
                    /\ cmd'.todo = cmd.todo \ {n}
    BY <1>0, <1>8, <2>1 DEF SetBookmark, NextMove, CommandRecord
  <2>4. /\ \A q \in Path \ {p} : store'[q] = store[q]
        /\ store'[p].parent = store[p].parent /\ store'[p].mode = store[p].mode
        /\ store'[p].bookmark \in {"on", "above"}
    BY <1>0, <1>8, <2>1, <2>2 DEF SetBookmark, Findable, Footprint
  <2>5. MidMove(n) /\ store[p].bookmark # "none"
    BY <1>2, <2>1, <2>2 DEF ForthOK, InHand
  <2>6. MidMove(n)' /\ Findable(label[n].path)'
    BY <1>3, <2>1, <2>3, <2>4, <2>5 DEF MidMove, Findable, Promise!HasMoved
  <2>7. Stack(cmd'.undo, cmd'.was)
    <3>1. ~cmd.lost /\ ~cmd'.lost
      BY <2>2, <2>3 DEF LostInv
    <3> QED BY <2>3, <3>1 DEF UndoInv, UndoOK, Moves
  <2>8. \A i \in DOMAIN undo :
          undo[i].path = p \/ \E j \in DOMAIN cmd.undo : undo[i] = cmd.undo[j]
    <3>0. Op(p, "bookmark") \in Operation /\ Op(p, "bookmark").path = p
      BY <1>0, <2>2 DEF Op, Operation
    <3>1. PICK op \in Operation : op = Op(p, "bookmark") /\ op.path = p
      BY <3>0
    <3>2. CASE undo = cmd.undo
      BY <3>2
    <3>3. CASE undo = <<op>> \o cmd.undo
      BY <1>0, <3>1, <3>3, Pushed
    <3> QED BY <2>3, <3>1, <3>2, <3>3
  <2>11. \A i \in DOMAIN undo : undo[i].session.bookmark # "none"
    <3>0. Op(p, "bookmark") \in Operation /\ Op(p, "bookmark").session = store[p]
      BY <1>0, <2>2 DEF Op, Operation
    <3>1. PICK op \in Operation : op = Op(p, "bookmark") /\ op.session = store[p]
      BY <3>0
    <3>2. \A i \in DOMAIN cmd.undo : cmd.undo[i].session.bookmark # "none"
      BY <1>0 DEF HalfOK
    <3>3. CASE undo = <<op>> \o cmd.undo
      BY <1>0, <2>5, <3>1, <3>2, <3>3, Pushed
    <3> QED BY <2>3, <3>1, <3>2, <3>3
  <2>9. /\ HalfOK'
        /\ \A k \in DOMAIN cmd.targets \ {n} :
             /\ label[k].path \in Path /\ label[k].path # p
             /\ MidMove(k)' <=> MidMove(k)
             /\ Findable(label[k].path)' <=> Findable(label[k].path)
    BY <1>0, <1>3, <2>1, <2>2, <2>3, <2>4, <2>6, <2>7, <2>8, <2>11, MoveMade
  <2>10. ForthOK'
    <3>1. InHand' = {} /\ InHand = {n}
      BY <2>1, <2>2, <2>3 DEF InHand
    <3>2. \A k \in DOMAIN cmd.targets \ cmd'.todo : MidMove(k)' /\ Findable(label[k].path)'
      BY <1>2, <2>2, <2>3, <2>6, <2>9 DEF ForthOK
    <3>3. \A k \in cmd'.todo : store'[label[k].path] = cmd.was[label[k].path]
      BY <1>0, <1>2, <2>2, <2>3, <2>4, <2>9, <3>1 DEF ForthOK
    <3> QED BY <1>3, <2>3, <3>1, <3>2, <3>3 DEF ForthOK, Findable
  <2> QED BY <2>3, <2>9, <2>10 DEF AtomicInv
<1>9. CASE Revert
  <2> DEFINE op == Head(cmd.undo)
             rest == Tail(cmd.undo)
  <2>1. /\ cmd.at = "revert" /\ cmd.undo # <<>> /\ store' = Reverted(op)
        /\ cmd' = [cmd EXCEPT !.undo = rest]
    BY <1>9 DEF Revert
  <2>2. /\ op \in Operation /\ op = cmd.undo[1] /\ 1 \in DOMAIN cmd.undo
        /\ \A i \in DOMAIN rest : i \in Nat /\ i + 1 \in DOMAIN cmd.undo /\ rest[i] = cmd.undo[i + 1]
    BY <1>0, <2>1, Popped
  <2>3. /\ Stack(rest, cmd.was)
        /\ op.kind = "rebase" => op.session = cmd.was[op.path]
    BY <1>0, <2>1, PoppedStack DEF HalfOK
  <2>4. /\ cmd'.at = "revert" /\ cmd'.was = cmd.was /\ cmd'.targets = cmd.targets
        /\ cmd'.undo = rest /\ cmd'.lost = cmd.lost /\ cmd'.name = cmd.name
    BY <1>0, <2>1 DEF CommandRecord
  <2>5. PICK n \in DOMAIN cmd.targets : label[n].path = op.path /\ MidMove(n)
    BY <1>0, <2>2 DEF HalfOK
  <2>6. \A i \in DOMAIN rest : op.kind = "rebase" => rest[i].path # op.path
    BY <1>0, <2>2 DEF HalfOK, Stack
  <2> HIDE DEF op, rest
  <2>7. /\ \A q \in Path \ {op.path} : store'[q] = store[q]
        /\ op.kind = "rebase" => store'[op.path] = cmd.was[op.path]
    BY <1>0, <2>1, <2>2, <2>3, RevertedType
  <2>8. op.kind # "rebase" => MidMove(n)'
    <3>1. op.path \in Path
      BY <2>2 DEF Operation
    <3>2. op.kind # "rebase" =>
            /\ store'[op.path].parent = store[op.path].parent
            /\ store'[op.path].mode = store[op.path].mode
      BY <1>0, <2>1, <3>1 DEF Reverted, Footprint
    <3> QED BY <1>3, <2>4, <2>5, <3>2 DEF MidMove, Promise!HasMoved
  <2>9. \A k \in DOMAIN cmd.targets : label[k].path # op.path =>
          label[k].path \in Path /\ (MidMove(k)' <=> MidMove(k))
    BY <1>0, <1>3, <2>4, <2>7, MidMoveKept
  <2>10. HalfOK'
    <3>1. ASSUME NEW q \in Path
          PROVE  store'[q] = cmd.was[q] \/ \E k \in DOMAIN cmd.targets : label[k].path = q /\ MidMove(k)'
      <4>1. CASE q = op.path
        BY <2>5, <2>7, <2>8, <4>1
      <4>2. CASE q # op.path
        BY <1>0, <2>7, <2>9, <4>2 DEF HalfOK
      <4> QED BY <4>1, <4>2
    <3>2. ASSUME NEW i \in DOMAIN rest
          PROVE  \E k \in DOMAIN cmd.targets : label[k].path = rest[i].path /\ MidMove(k)'
      <4>1. PICK k \in DOMAIN cmd.targets : label[k].path = rest[i].path /\ MidMove(k)
        BY <1>0, <2>2 DEF HalfOK
      <4>2. CASE rest[i].path = op.path
        BY <2>5, <2>6, <2>8, <4>2
      <4>3. CASE rest[i].path # op.path
        BY <2>9, <4>1, <4>3
      <4> QED BY <4>2, <4>3
    <3>3. \A i \in DOMAIN rest : rest[i].session.bookmark # "none"
      BY <1>0, <2>2 DEF HalfOK
    <3>4. cmd.lost => MidMove(cmd.name)'
      <4>1. cmd.lost => label[cmd.name].path # op.path
        BY <1>0, <2>1, <2>2 DEF UndoInv, UndoOK, Own
      <4>2. cmd.name \in DOMAIN cmd.targets
        BY <1>0, <2>1 DEF TypeInv, StepOK
      <4> QED BY <1>0, <2>1, <2>9, <4>1, <4>2 DEF HalfOK
    <3> QED BY <1>0, <1>3, <2>3, <2>4, <3>1, <3>2, <3>3, <3>4 DEF HalfOK, Targeted
  <2> QED BY <2>4, <2>10 DEF AtomicInv
<1>10. CASE MoveAbandoned \/ OwnRevertRefused
  <2>0. SUFFICES ASSUME NEW n, n = cmd.name, NEW p, p = label[n].path
                 PROVE  AtomicInv'
    OBVIOUS
  <2>1. /\ cmd.undo # <<>> /\ n \in DOMAIN cmd.targets /\ p \in Path
        /\ cmd'.at = "revert" /\ cmd'.was = cmd.was /\ cmd'.targets = cmd.targets
        /\ cmd'.undo = Tail(cmd.undo) /\ cmd'.name = n
    BY <1>0, <1>10, <2>0 DEF MoveAbandoned, OwnRevertRefused, CommandRecord, TypeInv, StepOK
  <2>2. /\ \A q \in Path \ {p} : store'[q] = store[q]
        /\ store'[p].parent = store[p].parent /\ store'[p].mode = store[p].mode
    BY <1>0, <1>10, <2>0, <2>1 DEF MoveAbandoned, OwnRevertRefused, Footprint
  <2>3. MidMove(n)
    <3>1. CASE MoveAbandoned
      BY <1>2, <2>0, <3>1 DEF MoveAbandoned, ForthOK, InHand
    <3>2. CASE OwnRevertRefused
      <4>1. cmd.undo[1].path = p /\ 1 \in DOMAIN cmd.undo
        BY <1>0, <2>0, <2>1, <3>2, Popped DEF OwnRevertRefused
      <4>2. PICK k \in DOMAIN cmd.targets : label[k].path = p /\ MidMove(k)
        BY <1>0, <4>1 DEF HalfOK
      <4>3. k = n
        BY <1>0, <2>0, <2>1, <4>2 DEF OnePathEach
      <4> QED BY <4>2, <4>3
    <3> QED BY <1>10, <3>1, <3>2
  <2>4. \A k \in DOMAIN cmd.targets : MidMove(k)' <=> MidMove(k)
    <3>1. \A k \in DOMAIN cmd.targets \ {n} : label[k].path \in Path /\ label[k].path # p
      BY <1>0, <2>0, <2>1 DEF OnePathEach
    <3>2. MidMove(n)' <=> MidMove(n)
      BY <1>3, <2>0, <2>1, <2>2 DEF MidMove, Promise!HasMoved
    <3> QED BY <1>0, <1>3, <2>1, <2>2, <3>1, <3>2, MidMoveKept
  <2>5. \A i \in DOMAIN cmd'.undo : i + 1 \in DOMAIN cmd.undo /\ cmd'.undo[i] = cmd.undo[i + 1]
    BY <1>0, <2>1, Popped
  <2>6. Stack(cmd'.undo, cmd'.was)
    BY <1>0, <2>1, PoppedStack DEF HalfOK
  <2>7. ASSUME NEW q \in Path
        PROVE  store'[q] = cmd.was[q] \/ \E k \in DOMAIN cmd.targets : label[k].path = q /\ MidMove(k)'
    <3>1. CASE q = p
      BY <2>0, <2>1, <2>3, <2>4, <3>1
    <3>2. CASE q # p
      BY <1>0, <2>2, <2>4, <3>2 DEF HalfOK
    <3> QED BY <3>1, <3>2
  <2>8. HalfOK'
    BY <1>0, <1>3, <2>1, <2>3, <2>4, <2>5, <2>6, <2>7 DEF HalfOK, Targeted
  <2> QED BY <2>1, <2>8 DEF AtomicInv
<1> QED BY <1>4, <1>5, <1>6, <1>7, <1>8, <1>9, <1>10

\* Where a command is after it ended, or began to wait.
LEMMA RestAt ==
  /\ Rest.at = "rest"
  /\ [Rest EXCEPT !.at = "wait"].at = "wait" /\ [Rest EXCEPT !.at = "start"].at = "start"
  /\ \A run, targets :
       [Rest EXCEPT !.at = "remove", !.run = run, !.targets = targets].at = "remove"
BY DEF Rest

LEMMA AtomicStep ==
  TypeInv /\ UndoInv /\ LostInv /\ AtomicInv /\ [Next]_vars => AtomicInv'
<1> SUFFICES ASSUME TypeInv, UndoInv, LostInv, AtomicInv, [Next]_vars
             PROVE  AtomicInv'
  OBVIOUS
<1>0. /\ cmd \in CommandRecord /\ store \in [Path -> Footprint] /\ label \in Manifest
      /\ \A n \in DOMAIN label : label[n].path \in Path
      /\ TypeInv' /\ UndoInv' /\ LostInv'
  BY ManifestFacts, EntryFacts, TypeStep, UndoStep DEF TypeInv, TypeOK
<1>1. ASSUME cmd'.at \notin Moves, cmd'.at = "stop" => cmd'.targets = Empty
      PROVE  AtomicInv'
  BY <1>1 DEF AtomicInv, Targeted, Moves
<1>2. ASSUME UNCHANGED <<cmd, label>>, cmd.at \notin Moves,
             \A p \in Path : Findable(p) => Findable(p)'
      PROVE  AtomicInv'
  <2>1. \A n \in DOMAIN cmd.targets : cmd.at = "stop" => n \in DOMAIN label
    BY DEF TypeInv, StepOK
  <2>2. \A n \in DOMAIN label : Findable(label[n].path) => Findable(label[n].path)'
    BY <1>0, <1>2 DEF Findable
  <2> QED BY <1>2, <2>1, <2>2 DEF AtomicInv, Targeted, Moves
<1>3. CASE UNCHANGED vars
  <2>1. UNCHANGED <<cmd, label, store>>
    BY <1>3 DEF vars, container
  <2> QED BY <2>1 DEF AtomicInv, HalfOK, ForthOK, MidMove, Findable, Targeted, InHand
<1>4. CASE BootStep \/ Exit \/ (\E p \in Path : Work(p)) \/ Stop
  <2>1. UNCHANGED <<cmd, label>>
    BY <1>4 DEF BootStep, BootBegins, Stage, BootEnds, WarmRestart, Reattach, FirstLaunch,
                FirstWorktree, FirstTime, Exit, Work, Stop, container
  <2>2. boot # Off \/ cmd = Rest
    BY <1>4 DEF BootStep, BootBegins, Stage, BootEnds, WarmRestart, Reattach, FirstLaunch,
                FirstWorktree, FirstTime, Booting, Exit, Work, Stop, Off, TypeInv, TypeOK
  <2>3. cmd.at \notin Moves
    BY <2>2 DEF TypeInv, StepOK, Rest, Moves
  <2>4. ASSUME NEW q, NEW s, s.bookmark = "above", store' = [store EXCEPT ![q] = s]
        PROVE  \A p \in Path : Findable(p) => Findable(p)'
    BY <1>0, <2>4 DEF Findable
  <2>5. \A n : Session(label[n]).bookmark = "above"
    BY DEF Session
  <2>6. ASSUME NEW q \in Path, Work(q)
        PROVE  \A p \in Path : Findable(p) => Findable(p)'
    BY <1>0, <2>6 DEF Work, Findable, Footprint
  <2>7. UNCHANGED store => \A p \in Path : Findable(p) => Findable(p)'
    BY DEF Findable
  <2>8. CASE Stage
    BY <1>2, <2>1, <2>3, <2>4, <2>5, <2>8 DEF Stage
  <2>9. CASE \E n \in Name : FirstWorktree(n)
    BY <1>2, <2>1, <2>3, <2>4, <2>5, <2>9 DEF FirstWorktree
  <2>10. CASE \/ BootBegins \/ BootEnds \/ Exit \/ Stop
              \/ \E n \in Name : WarmRestart(n) \/ Reattach(n) \/ FirstLaunch(n)
    BY <1>2, <2>1, <2>3, <2>7, <2>10
       DEF BootBegins, BootEnds, WarmRestart, Reattach, FirstLaunch, Exit, Stop
  <2> QED BY <1>2, <1>4, <2>1, <2>3, <2>6, <2>8, <2>9, <2>10 DEF BootStep
<1>5. ASSUME NEW names \in (SUBSET Name) \ {{}}, NEW targets \in [names -> Rev],
             Reanchor(targets)
      PROVE  AtomicInv'
  <2>1. /\ cmd'.at \in {"stop", "move"} /\ cmd'.targets = targets /\ cmd'.was = store
        /\ cmd'.todo = DOMAIN targets /\ cmd'.undo = <<>> /\ UNCHANGED <<label, store>>
        /\ \A n \in DOMAIN targets : Findable(label[n].path)
    BY <1>5 DEF Reanchor, Rest, container
  <2>2. targets # Empty
    BY <1>5 DEF Empty
  <2> QED BY <2>1, <2>2, AtomicBegins
<1>6. CASE Command
  <2>1. ASSUME NEW m, StartNew(m) \/ StartChanged(m)
        PROVE  AtomicInv'
    BY <1>1, <2>1 DEF StartNew, StartChanged, Rest, Moves
  <2>2. StartWarm \/ Restart \/ Shutdown => AtomicInv'
    BY <1>1 DEF StartWarm, Restart, Shutdown, Rest, Moves
  <2> QED BY <1>4, <1>5, <1>6, <2>1, <2>2 DEF Command
<1>7. CASE StopContainer \/ StopRefused
  <2>1. CASE cmd.targets = Empty
    <3>1. cmd'.at = "remove"
      BY <1>0, <1>7, <2>1 DEF StopContainer, StopRefused, Stopped, CommandRecord
    <3> QED BY <1>1, <3>1 DEF Moves
  <2>2. CASE cmd.targets # Empty
    <3>1. cmd.at = "stop" /\ cmd' = Stopped /\ UNCHANGED <<label, store>>
      BY <1>7, <2>2 DEF StopContainer, StopRefused
    <3>2. /\ cmd'.at = "move" /\ cmd'.targets = cmd.targets /\ cmd'.todo = cmd.todo
          /\ cmd'.undo = cmd.undo /\ cmd'.was = store
      BY <1>0, <2>2, <3>1 DEF Stopped, CommandRecord
    <3>3. cmd.undo = <<>>
      BY <3>1 DEF UndoInv
    <3>4. cmd.todo = DOMAIN cmd.targets /\ \A n \in DOMAIN cmd.targets : Findable(label[n].path)
      BY <2>2, <3>1 DEF AtomicInv, Targeted
    <3> QED BY <2>2, <3>1, <3>2, <3>3, <3>4, AtomicBegins
  <2> QED BY <2>1, <2>2
<1>8. CASE \/ Remove \/ RemoveRefused \/ Forgotten \/ Moved \/ RolledBack \/ Run \/ RunFails
           \/ StartContainer \/ SeesReady \/ TimesOut \/ Interrupt \/ RevertRefused
           \/ \E p \in Path : Forget(p) \/ ForgetRefused(p)
  <2>1. CASE \/ Remove \/ RemoveRefused \/ Forgotten
             \/ \E p \in Path : Forget(p) \/ ForgetRefused(p)
    <3>1. Remove \/ RemoveRefused => cmd'.at = "forget"
      BY <1>0 DEF Remove, RemoveRefused, CommandRecord
    <3>2. Forgotten => cmd'.at \in {"rest", "run"}
      BY <1>0, RestAt DEF Forgotten, CommandRecord
    <3>3. \A p \in Path : Forget(p) \/ ForgetRefused(p) => cmd'.at = "forget"
      BY <1>0 DEF Forget, ForgetRefused, CommandRecord
    <3> QED BY <1>1, <2>1, <3>1, <3>2, <3>3 DEF Moves
  <2>2. CASE \/ Moved \/ RolledBack \/ Run \/ RunFails \/ StartContainer \/ SeesReady \/ TimesOut
             \/ Interrupt \/ RevertRefused
    <3>1. Moved => cmd'.at = "remove"
      BY DEF Moved, Rest
    <3>3. RolledBack \/ RevertRefused => cmd'.at \in {"rest", "start"}
      BY RestAt DEF RolledBack, RevertRefused
    <3>2. Run \/ RunFails \/ StartContainer \/ SeesReady \/ TimesOut \/ Interrupt =>
            cmd'.at \in {"rest", "wait"}
      BY RestAt DEF Run, RunFails, StartContainer, SeesReady, TimesOut, Interrupt
    <3> QED BY <1>1, <2>2, <3>1, <3>2, <3>3 DEF Moves
  <2> QED BY <1>8, <2>1, <2>2
<1>9. CASE \/ \E n \in Name : InPlace(n) \/ Rebase(n) \/ RebaseRefused(n)
           \/ SetBookmark \/ MoveFails \/ MoveAbandoned \/ Revert \/ OwnRevertRefused
  BY <1>0, <1>9, AtomicMoves
<1> QED BY <1>3, <1>4, <1>6, <1>7, <1>8, <1>9 DEF Next, CommandStep

\* A repo about to be staged has no session yet: commands set none meanwhile.
StageInv == boot.at = "stage" => store[label[Min(boot.todo)].path].bookmark = "none"

LEMMA StageStep == TypeInv /\ StageInv /\ [Next]_vars => StageInv'
<1> SUFFICES ASSUME TypeInv, StageInv, [Next]_vars
             PROVE  StageInv'
  OBVIOUS
<1>0. store \in [Path -> Footprint] /\ cmd \in CommandRecord
  BY DEF TypeInv, TypeOK
<1>1. ASSUME boot'.at # "stage" PROVE StageInv'
  BY <1>1 DEF StageInv
<1>2. ASSUME UNCHANGED <<boot, label, store>> PROVE StageInv'
  BY <1>2 DEF StageInv
<1>3. CASE BootStep
  <2>1. ASSUME NEW n \in Name, FirstLaunch(n)
        PROVE  StageInv'
    BY <2>1 DEF FirstLaunch, FirstTime, Booting, StageInv
  <2>2. \A n \in Name : Booted(n) => StageInv'
    BY <1>1 DEF Booted
  <2>3. BootBegins \/ BootEnds => boot'.at # "stage"
    BY DEF BootBegins, BootEnds, TypeInv, TypeOK
  <2>4. Stage => boot'.at # "stage"
    BY DEF Stage, Booted
  <2> QED BY <1>1, <1>3, <2>1, <2>2, <2>3, <2>4 DEF BootStep, WarmRestart, Reattach, FirstWorktree
<1>4. CASE Exit \/ Stop \/ StopContainer \/ Run \/ StartContainer \/ \E p \in Path : Work(p)
  <2>1. boot'.at # "stage"
    BY <1>4 DEF Exit, Stop, StopContainer, Run, StartContainer, Work, Off, Early
  <2> QED BY <1>1, <2>1
<1>5. CASE Remove
  BY <1>5, <1>1 DEF Remove, TypeInv, TypeOK
<1>6. ASSUME NEW p \in Path, Forget(p)
      PROVE  StageInv'
  <2>1. \A q : store[q].bookmark = "none" /\ q \in Path => store'[q].bookmark = "none"
    BY <1>0, <1>6 DEF Forget, NoSession
  <2>2. boot.at = "stage" => label[Min(boot.todo)].path \in Path
    <3>1. boot.at = "stage" => boot.todo # {} /\ boot.todo \in SUBSET Name
          /\ boot.todo \subseteq DOMAIN label
      BY ManifestFacts DEF TypeInv, TypeOK
    <3> QED BY <3>1, MinInName, ManifestFacts, EntryFacts DEF TypeInv, TypeOK
  <2>3. UNCHANGED <<boot, label>>
    BY <1>6 DEF Forget, container
  <2> QED BY <2>1, <2>2, <2>3 DEF StageInv
<1>7. CASE \/ \E n \in Name : InPlace(n) \/ Rebase(n) \/ RebaseRefused(n)
           \/ SetBookmark \/ MoveFails \/ MoveAbandoned \/ Revert \/ OwnRevertRefused
  <2>1. cmd.at \in Moves /\ UNCHANGED boot
    BY <1>7 DEF InPlace, Rebase, RebaseRefused, Moving, SetBookmark, MoveFails, MoveAbandoned, Revert,
                OwnRevertRefused, Moves
  <2>2. boot.at = "off"
    BY <2>1 DEF TypeInv, StepOK, Off
  <2> QED BY <1>1, <2>1, <2>2
<1> QED BY <1>2, <1>3, <1>4, <1>5, <1>6, <1>7
        DEF Next, Command, StartNew, StartChanged, StartWarm, Restart, Shutdown, Reanchor,
            CommandStep, StopRefused, RemoveRefused, ForgetRefused, Forgotten, RunFails, SeesReady,
            TimesOut, Interrupt, Moved, RevertRefused, RolledBack, container, vars

LEMMA NonEmpty ==
  ASSUME NEW S, NEW T, NEW f \in [S -> T], f # Empty
  PROVE  DOMAIN f = S /\ S # {}
<1>1. S # {}
  BY DEF Empty
<1> QED BY <1>1

InHands == {[path |-> label[n].path, rev |-> cmd.targets[n]] : n \in DOMAIN cmd.targets}

\* What the abstract variables are, and when they stay.
LEMMA Mapping ==
  /\ cmd.at \notin Moves => Asked = {} /\ Sessions = store
  /\ cmd.at \in Moves => Asked = InHands /\ Sessions = cmd.was
  /\ cmd'.at \notin Moves => Asked' = {} /\ Sessions' = store'
  /\ cmd'.at \in Moves => Asked' = InHands' /\ Sessions' = cmd'.was
BY DEF Asked, Sessions, InHands, Moves

LEMMA Stutters ==
  ASSUME UNCHANGED <<ctr, cut>>,
         \/ cmd.at \notin Moves /\ cmd'.at \notin Moves /\ UNCHANGED store
         \/ /\ cmd.at \in Moves /\ cmd'.at \in Moves /\ UNCHANGED label
            /\ cmd'.was = cmd.was /\ cmd'.targets = cmd.targets
  PROVE  UNCHANGED Promise!vars
<1>1. InHands' = InHands \/ cmd.at \notin Moves
  BY DEF InHands
<1>2. UNCHANGED <<Sessions, Asked>>
  BY <1>1, Mapping
<1> QED BY <1>2 DEF Promise!vars

\* A command in its moves ends with each session as it was or moved.
LEMMA BreaksOff ==
  ASSUME cmd \in CommandRecord, HalfOK, cmd.at \in Moves, cmd'.at \notin Moves,
         UNCHANGED <<ctr, store, label>>, cut'
  PROVE  Promise!Break
<1>1. Asked = InHands /\ Sessions = cmd.was /\ Asked' = {} /\ Sessions' = store
  BY Mapping
<1>2. Asked # {}
  <2>1. PICK names : cmd.targets \in [names -> Rev]
    BY DEF CommandRecord
  <2>2. \E n : n \in DOMAIN cmd.targets
    BY <2>1, NonEmpty DEF HalfOK, Targeted
  <2> QED BY <1>1, <2>2 DEF InHands
<1>3. ASSUME NEW p \in Path
      PROVE  \/ store[p] = cmd.was[p]
             \/ \E a \in Asked : a.path = p /\ Promise!HasMoved(cmd.was[p], store[p], a.rev)
  <2>1. CASE store[p] # cmd.was[p]
    <3>1. PICK n \in DOMAIN cmd.targets : label[n].path = p /\ MidMove(n)
      BY <2>1 DEF HalfOK
    <3>2. [path |-> label[n].path, rev |-> cmd.targets[n]] \in Asked
      BY <1>1 DEF InHands
    <3> QED BY <3>1, <3>2 DEF MidMove
  <2> QED BY <2>1
<1> QED BY <1>1, <1>2, <1>3 DEF Promise!Break

\* It begins them.
LEMMA Begins ==
  ASSUME TypeInv, cmd.at \notin Moves, cmd'.at \in Moves, cmd'.was = store, UNCHANGED <<label, cut>>,
         ctr' # "running", cmd'.targets # Empty, NEW names \in SUBSET Name,
         cmd'.targets \in [names -> Rev], names \subseteq DOMAIN label,
         \A n \in names : Findable(label[n].path)
  PROVE  Promise!Ask
<1>1. Asked = {} /\ Sessions = store /\ Asked' = InHands' /\ Sessions' = store
  BY Mapping
<1>2. DOMAIN cmd'.targets = names /\ names # {}
  BY NonEmpty
<1>3. \A n \in names : label[n].path \in Path /\ cmd'.targets[n] \in Rev
  BY ManifestFacts, EntryFacts DEF TypeInv, TypeOK
<1>4. InHands' = {[path |-> label[n].path, rev |-> cmd'.targets[n]] : n \in names}
  BY <1>2 DEF InHands
<1>5. Asked' \in (SUBSET Promise!Move) \ {{}}
  <2>1. \A n \in names : [path |-> label[n].path, rev |-> cmd'.targets[n]] \in Promise!Move
    BY <1>3 DEF Promise!Move
  <2>2. InHands' \subseteq Promise!Move
    BY <1>4, <2>1
  <2>3. PICK n \in names : TRUE
    BY <1>2
  <2>4. InHands' # {}
    BY <1>4, <2>3
  <2> QED BY <1>1, <2>2, <2>4
<1>6. \A a \in Asked' : Promise!InReach(Sessions[a.path])
  BY <1>1, <1>4 DEF Promise!InReach, Findable
<1> QED BY <1>1, <1>5, <1>6 DEF Promise!Ask

\* The container's steps.
LEMMA AtomicBoot ==
  ASSUME TypeInv, CleanInv, StageInv, BootStep \/ Exit \/ (\E p \in Path : Work(p)) \/ Stop
  PROVE  [Promise!Next]_(Promise!vars)
<1>0. store \in [Path -> Footprint] /\ label \in Manifest
      /\ \A n \in DOMAIN label : label[n] \in Entry /\ label[n].path \in Path
  BY ManifestFacts, EntryFacts DEF TypeInv, TypeOK
<1>1. UNCHANGED <<cmd, cut, label>>
  BY DEF BootStep, BootBegins, Stage, BootEnds, WarmRestart, Reattach, FirstLaunch,
         FirstWorktree, FirstTime, Exit, Work, Stop, container, ghosts
<1>2. boot # Off \/ cmd = Rest
  BY DEF BootStep, BootBegins, Stage, BootEnds, WarmRestart, Reattach, FirstLaunch,
         FirstWorktree, FirstTime, Booting, Exit, Work, Stop, Off, TypeInv, TypeOK
<1>3. cmd.at \notin Moves
  BY <1>2 DEF TypeInv, StepOK, Rest, Moves
<1>4. Asked = {} /\ Sessions = store /\ Asked' = {} /\ Sessions' = store'
  BY <1>1, <1>3, Mapping
<1>5. ASSUME NEW n \in DOMAIN label, UNCHANGED ctr, boot.at \in {"loop", "stage"},
             store[label[n].path].bookmark = "none",
             store' = [store EXCEPT ![label[n].path] = Session(label[n])]
      PROVE  Promise!Next
  <2>1. ctr = "running"
    BY <1>5 DEF TypeInv, TypeOK
  <2>2. Session(label[n]) \in Promise!Fresh
    BY <1>0 DEF Session, Promise!Fresh, Entry
  <2>3. Promise!Stage(label[n].path)
    BY <1>0, <1>1, <1>4, <1>5, <2>1, <2>2 DEF Promise!Stage, Promise!Others
  <2> QED BY <1>0, <2>3 DEF Promise!Next
<1>6. CASE Stage
  <2>1. boot.todo # {} /\ boot.todo \in SUBSET Name /\ boot.todo \subseteq DOMAIN label
    BY <1>6, ManifestFacts DEF Stage, TypeInv, TypeOK
  <2>2. Min(boot.todo) \in DOMAIN label
    BY <2>1, MinInName
  <2> QED BY <1>5, <1>6, <2>2 DEF Stage, StageInv, container
<1>7. ASSUME NEW n \in Name, FirstWorktree(n)
      PROVE  Promise!Next
  <2>1. boot.todo # {} /\ boot.todo \in SUBSET Name /\ boot.todo \subseteq DOMAIN label
        /\ n = Min(boot.todo)
    BY <1>7, ManifestFacts DEF FirstWorktree, FirstTime, Booting, TypeInv, TypeOK
  <2>2. n \in DOMAIN label
    BY <2>1, MinInName
  <2> QED BY <1>5, <1>7, <2>2 DEF FirstWorktree, FirstTime, Booting
<1>8. ASSUME NEW p \in Path, Work(p)
      PROVE  Promise!Next
  <2>1. ctr = "running" /\ UNCHANGED ctr
    BY <1>8 DEF Work, TypeInv, TypeOK, container
  <2>2. Promise!Work(p)
    BY <1>0, <1>1, <1>4, <1>8, <2>1 DEF Work, Promise!Work, Promise!Others
  <2> QED BY <2>2 DEF Promise!Next
<1>9. CASE Exit \/ Stop
  <2>1. Promise!Down
    BY <1>1, <1>4, <1>9 DEF Exit, Stop, Promise!Down
  <2> QED BY <2>1 DEF Promise!Next
<1>10. CASE BootBegins \/ BootEnds \/ \E n \in Name : WarmRestart(n) \/ Reattach(n) \/ FirstLaunch(n)
  <2>1. UNCHANGED <<ctr, store>>
    BY <1>10 DEF BootBegins, BootEnds, WarmRestart, Reattach, FirstLaunch, container
  <2> QED BY <1>1, <1>3, <2>1, Stutters
<1> QED BY <1>6, <1>7, <1>8, <1>9, <1>10 DEF BootStep

AtomicSound == Sound /\ AtomicInv /\ StageInv

\* A command's steps.
LEMMA AtomicCommand ==
  ASSUME AtomicSound, Command \/ CommandStep, ~Stop
  PROVE  [Promise!Next]_(Promise!vars)
<1>0. /\ TypeInv /\ UndoInv /\ LostInv /\ CleanInv /\ AtomicInv
      /\ cmd \in CommandRecord /\ store \in [Path -> Footprint]
      /\ \A n \in DOMAIN label : label[n].path \in Path
      /\ cmd.at \in Moves => ctr # "running" /\ HalfOK
  BY ManifestFacts, EntryFacts DEF AtomicSound, Sound, TypeInv, TypeOK, StepOK, Off, AtomicInv
<1>1. ASSUME UNCHANGED <<ctr, cut, store>>, cmd.at \notin Moves, cmd'.at \notin Moves
      PROVE  [Promise!Next]_(Promise!vars)
  BY <1>1, Stutters
<1>2. ASSUME UNCHANGED <<ctr, cut, label>>, cmd.at \in Moves, cmd'.at \in Moves,
             cmd'.was = cmd.was, cmd'.targets = cmd.targets
      PROVE  [Promise!Next]_(Promise!vars)
  BY <1>2, Stutters
<1>3. ASSUME cmd.at \in Moves, cmd'.at \notin Moves, UNCHANGED <<ctr, store, label>>, cut'
      PROVE  Promise!Next
  BY <1>0, <1>3, BreaksOff DEF Promise!Next
<1>4. ASSUME cmd.at \notin Moves, cmd'.at \notin Moves, UNCHANGED <<ctr, store>>, cut'
      PROVE  Promise!Next
  <2>1. Asked = {} /\ Sessions = store /\ Asked' = {} /\ Sessions' = store'
    BY <1>4, Mapping
  <2>2. Promise!Break
    BY <1>4, <2>1 DEF Promise!Break
  <2> QED BY <2>2 DEF Promise!Next
<1>5. ASSUME cmd.at \notin Moves, cmd'.at \notin Moves, UNCHANGED <<cut, store>>,
             ctr' \in {"stopped", "running"}
      PROVE  Promise!Next
  <2>1. Asked = {} /\ Sessions = store /\ Asked' = {} /\ Sessions' = store'
    BY <1>5, Mapping
  <2>2. Promise!Up \/ Promise!Down
    BY <1>5, <2>1 DEF Promise!Up, Promise!Down
  <2> QED BY <2>2 DEF Promise!Next
<1>6. ASSUME NEW names \in (SUBSET Name) \ {{}}, NEW targets \in [names -> Rev],
             Reanchor(targets)
      PROVE  [Promise!Next]_(Promise!vars)
  <2>1. /\ cmd'.targets = targets /\ cmd'.was = store /\ UNCHANGED <<ctr, label, store, cut>>
        /\ cmd'.at = IF ctr = "running" THEN "stop" ELSE "move"
        /\ cmd.at = "rest" /\ names \subseteq DOMAIN label
        /\ \A n \in names : Findable(label[n].path)
    BY <1>6 DEF Reanchor, Rest, container, ghosts
  <2>2. CASE ctr = "running"
    BY <1>1, <2>1, <2>2 DEF Moves
  <2>3. CASE ctr # "running"
    <3>1. cmd'.at \in Moves /\ cmd.at \notin Moves /\ ctr' # "running"
      BY <2>1, <2>3 DEF Moves
    <3>2. targets # Empty
      BY DEF Empty
    <3>3. Promise!Ask
      BY <1>0, <2>1, <3>1, <3>2, Begins
    <3> QED BY <3>3 DEF Promise!Next
  <2> QED BY <2>2, <2>3
<1>7. CASE Command
  <2>1. ASSUME NEW m, StartNew(m) \/ StartChanged(m)
        PROVE  [Promise!Next]_(Promise!vars)
    <3>1. UNCHANGED <<ctr, cut, store>>
      BY <2>1 DEF StartNew, StartChanged, container, ghosts
    <3>2. cmd = Rest
      BY <2>1 DEF StartNew, StartChanged
    <3>3. cmd'.at \in {"run", "stop"}
      BY <2>1 DEF StartNew, StartChanged, Rest
    <3> QED BY <1>1, <3>1, <3>2, <3>3 DEF Rest, Moves
  <2>2. CASE StartWarm \/ Restart \/ Shutdown
    <3>1. UNCHANGED <<ctr, cut, store>>
      BY <2>2 DEF StartWarm, Restart, Shutdown, container, ghosts
    <3>2. cmd = Rest
      BY <2>2 DEF StartWarm, Restart, Shutdown
    <3>3. cmd'.at \in {"start", "stop"}
      BY <2>2 DEF StartWarm, Restart, Shutdown, Rest
    <3> QED BY <1>1, <3>1, <3>2, <3>3 DEF Rest, Moves
  <2> QED BY <1>6, <1>7, <2>1, <2>2 DEF Command
<1>8. CASE StopContainer /\ cmd.targets # Empty
  <2>1. cmd.at = "stop" /\ cmd' = Stopped /\ ctr' = "stopped" /\ UNCHANGED <<label, store, cut>>
    BY <1>8 DEF StopContainer, ghosts
  <2>2. cmd'.at = "move" /\ cmd'.targets = cmd.targets /\ cmd'.was = store
    BY <1>0, <1>8, <2>1 DEF Stopped, CommandRecord
  <2>3. \A n \in DOMAIN cmd.targets : Findable(label[n].path)
    BY <1>0, <1>8, <2>1 DEF AtomicInv, Targeted
  <2>4. PICK names \in SUBSET Name : cmd.targets \in [names -> Rev]
    BY <1>0 DEF CommandRecord
  <2>5. DOMAIN cmd.targets = names /\ names \subseteq DOMAIN label
    BY <1>0, <2>1, <2>4 DEF TypeInv, StepOK
  <2>6. cmd.at \notin Moves /\ cmd'.at \in Moves /\ ctr' # "running"
    BY <2>1, <2>2 DEF Moves
  <2>7. Promise!Ask
    BY <1>0, <1>8, <2>1, <2>2, <2>3, <2>4, <2>5, <2>6, Begins
  <2> QED BY <2>7 DEF Promise!Next
<1>9. CASE \/ (StopContainer /\ cmd.targets = Empty) \/ StopRefused
           \/ Run \/ StartContainer
  <2>1. /\ UNCHANGED <<cut, store>> /\ ctr' \in {ctr, "stopped", "running"}
        /\ cmd.at \in {"stop", "run", "start"} /\ cmd'.at \in {"remove", "wait"}
    BY <1>0, <1>9 DEF StopContainer, StopRefused, Stopped, Run, StartContainer, Rest, container,
                      ghosts, CommandRecord
  <2>2. ctr' = ctr \/ ctr' \in {"stopped", "running"}
    BY <2>1
  <2>3. cmd.at \notin Moves /\ cmd'.at \notin Moves
    BY <2>1 DEF Moves
  <2> QED BY <1>1, <1>5, <2>1, <2>2, <2>3
<1>10. CASE Remove
  <2>1. /\ ctr # "running" /\ ctr' # "running" /\ UNCHANGED <<cut, store>>
        /\ cmd.at = "remove" /\ cmd'.at = "forget"
    BY <1>0, <1>10 DEF Remove, ghosts, CommandRecord
  <2>2. UNCHANGED <<Asked, Sessions>>
    BY <2>1, Mapping DEF Moves
  <2> QED BY <2>1, <2>2 DEF Promise!vars
<1>11. CASE Forgotten \/ SeesReady \/ TimesOut
  <2>1. /\ UNCHANGED <<ctr, cut, store>>
        /\ cmd.at \in {"forget", "wait"} /\ cmd'.at \in {"rest", "run"}
    BY <1>0, <1>11 DEF Forgotten, SeesReady, TimesOut, Rest, container, ghosts, CommandRecord
  <2> QED BY <1>1, <2>1 DEF Moves
<1>12. CASE RemoveRefused \/ RunFails \/ \E p \in Path : ForgetRefused(p)
  <2>1. UNCHANGED <<ctr, store>> /\ cut' /\ cmd.at \in {"remove", "run", "forget"}
    BY <1>12 DEF RemoveRefused, RunFails, ForgetRefused, CutShort, container
  <2>2. cmd'.at \in {"forget", "rest"}
    BY <1>0, <1>12, RestAt DEF RemoveRefused, RunFails, ForgetRefused, CommandRecord
  <2> QED BY <1>4, <2>1, <2>2 DEF Moves
<1>13. ASSUME NEW p \in Path, Forget(p)
       PROVE  [Promise!Next]_(Promise!vars)
  <2>1. UNCHANGED <<ctr, cut>> /\ cmd.at = "forget" /\ cmd'.at = "forget"
    BY <1>0, <1>13 DEF Forget, container, CommandRecord
  <2>2. Asked = {} /\ Sessions = store /\ Asked' = {} /\ Sessions' = store'
    BY <2>1, Mapping DEF Moves
  <2>3. CASE UNCHANGED store
    BY <1>1, <2>1, <2>3 DEF Moves
  <2>4. CASE store' = [store EXCEPT ![p] = NoSession]
    <3>1. ctr = "absent" \/ cut
      BY <1>0, <2>1 DEF CleanInv, Clean
    <3>2. Promise!Forget(p)
      BY <1>0, <2>1, <2>2, <2>4, <3>1 DEF Promise!Forget, Promise!Others
    <3> QED BY <3>2 DEF Promise!Next
  <2> QED BY <1>13, <2>3, <2>4 DEF Forget
<1>14. CASE Interrupt
  <2>1. UNCHANGED <<ctr, store, label>> /\ cmd'.at = "rest"
    BY <1>14 DEF Interrupt, Rest, container
  <2>2. CASE cmd.at \in Moves
    BY <1>3, <1>14, <2>1, <2>2 DEF Interrupt, CutShort, Moves
  <2>3. CASE cmd.at \notin Moves
    <3>1. UNCHANGED cut \/ cut'
      BY <1>0, <1>14 DEF Interrupt, CutShort, ghosts
    <3>2. cmd'.at \notin Moves
      BY <2>1 DEF Moves
    <3>3. UNCHANGED cut => [Promise!Next]_(Promise!vars)
      BY <1>1, <2>1, <2>3, <3>2
    <3>4. cut' => [Promise!Next]_(Promise!vars)
      BY <1>4, <2>1, <2>3, <3>2
    <3> QED BY <3>1, <3>3, <3>4
  <2> QED BY <2>2, <2>3
<1>15. CASE \/ \E n \in Name : InPlace(n) \/ Rebase(n) \/ RebaseRefused(n)
            \/ SetBookmark \/ MoveFails \/ MoveAbandoned \/ Revert \/ OwnRevertRefused
  <2>1. UNCHANGED <<ctr, cut, label>>
    BY <1>15 DEF InPlace, Rebase, RebaseRefused, SetBookmark, MoveFails, MoveAbandoned, Revert,
                 OwnRevertRefused, container, ghosts
  <2>2. ASSUME NEW n \in Name, InPlace(n) \/ Rebase(n) \/ RebaseRefused(n)
        PROVE  cmd.at \in Moves /\ cmd'.at \in Moves /\ cmd'.was = cmd.was
               /\ cmd'.targets = cmd.targets
    BY <1>0, <2>2 DEF InPlace, Rebase, RebaseRefused, Moving, Moves, CommandRecord
  <2>3. CASE SetBookmark \/ MoveFails \/ MoveAbandoned \/ Revert \/ OwnRevertRefused
    <3>1. cmd.at \in Moves
      BY <2>3 DEF SetBookmark, MoveFails, MoveAbandoned, Revert, OwnRevertRefused, Moves
    <3>2. cmd'.at \in Moves /\ cmd'.was = cmd.was /\ cmd'.targets = cmd.targets
      BY <1>0, <2>3 DEF SetBookmark, NextMove, MoveFails, MoveAbandoned, Revert, OwnRevertRefused,
                        Moves, CommandRecord
    <3> QED BY <1>2, <2>1, <3>1, <3>2
  <2> QED BY <1>2, <1>15, <2>1, <2>2, <2>3
<1>16. CASE Moved
  <2>1. /\ UNCHANGED <<ctr, cut, store>> /\ cmd.at = "move" /\ cmd'.at = "remove" /\ cmd.todo = {}
    BY <1>0, <1>16 DEF Moved, Rest, container, CommandRecord
  <2>2. Asked = InHands /\ Sessions = cmd.was /\ Asked' = {} /\ Sessions' = store
    BY <2>1, Mapping DEF Moves
  <2>3. HalfOK /\ \A n \in DOMAIN cmd.targets : MidMove(n) /\ Findable(label[n].path)
    BY <1>0, <2>1 DEF AtomicInv, ForthOK, Moves
  <2>4. \A a \in Asked : \E n \in DOMAIN cmd.targets :
          a.path = label[n].path /\ a.rev = cmd.targets[n]
    BY <2>2 DEF InHands
  <2>5. \A n \in DOMAIN cmd.targets : \E a \in Asked : a.path = label[n].path
    <3>1. \A n \in DOMAIN cmd.targets :
            [path |-> label[n].path, rev |-> cmd.targets[n]] \in Asked
      BY <2>2 DEF InHands
    <3> QED BY <3>1
  <2>6. Asked # {}
    <3>1. PICK names : cmd.targets \in [names -> Rev]
      BY <1>0 DEF CommandRecord
    <3>2. \E n : n \in DOMAIN cmd.targets
      BY <2>3, <3>1, NonEmpty DEF HalfOK, Targeted
    <3> QED BY <2>5, <3>2
  <2>7. \A a \in Asked :
          Promise!HasMoved(Sessions[a.path], Sessions'[a.path], a.rev)
          /\ Promise!InReach(Sessions'[a.path])
    BY <2>2, <2>3, <2>4 DEF MidMove, Findable, Promise!InReach
  <2>8. \A p \in Path \ {a.path : a \in Asked} : Sessions'[p] = Sessions[p]
    BY <2>2, <2>3, <2>5 DEF HalfOK
  <2>9. Promise!Commit
    BY <2>1, <2>2, <2>6, <2>7, <2>8 DEF Promise!Commit
  <2> QED BY <2>9 DEF Promise!Next
<1>17. CASE RevertRefused
  <2>1. UNCHANGED <<ctr, store, label>> /\ cut' /\ cmd.at \in Moves /\ cmd'.at \notin Moves
    BY <1>17 DEF RevertRefused, CutShort, Rest, container, Moves
  <2> QED BY <1>3, <2>1
<1>18. CASE RolledBack
  <2>1. /\ UNCHANGED <<ctr, store, label, cut>> /\ cmd.at = "revert" /\ cmd.undo = <<>>
        /\ cmd'.at \in {"rest", "start"}
    BY <1>18 DEF RolledBack, Rest, container
  <2>2. cmd.at \in Moves /\ cmd'.at \notin Moves
    BY <2>1 DEF Moves
  <2>3. /\ Asked = InHands /\ Sessions = cmd.was /\ Asked' = {} /\ Sessions' = store
        /\ \A p \in Path : store[p] = cmd.was[p] \/ (cmd.lost /\ p = Own)
    BY <1>0, <2>1, <2>2, EmptyStack, Mapping DEF UndoInv, UndoOK
  <2>4. CASE cmd.lost
    <3>1. cmd.name \in DOMAIN cmd.targets /\ MidMove(cmd.name)
      BY <1>0, <2>1, <2>2, <2>4 DEF HalfOK, TypeInv, StepOK
    <3>2. PICK a \in Asked : a.path = Own /\ a.rev = cmd.targets[cmd.name]
      <4>1. [path |-> label[cmd.name].path, rev |-> cmd.targets[cmd.name]] \in Asked
        BY <2>3, <3>1 DEF InHands
      <4> QED BY <4>1 DEF Own
    <3>3. Promise!Strand
      BY <2>1, <2>3, <3>1, <3>2 DEF Promise!Strand, Promise!Others, MidMove, Own
    <3> QED BY <3>3 DEF Promise!Next
  <2>5. CASE ~cmd.lost
    <3>1. cmd.was = store
      BY <1>0, <2>2, <2>3, <2>5 DEF TypeInv, StepOK
    <3>2. Promise!Abort \/ UNCHANGED Promise!vars
      BY <2>1, <2>3, <3>1 DEF Promise!Abort, Promise!vars
    <3> QED BY <3>2 DEF Promise!Next
  <2> QED BY <2>4, <2>5
<1> QED BY <1>7, <1>8, <1>9, <1>10, <1>11, <1>12, <1>13, <1>14, <1>15, <1>16, <1>17, <1>18
        DEF CommandStep

\* "restart --reanchor" implements its promise, whatever is refused, killed or
\* interrupted on the way: all its repos move at once, or none does, or only the one
\* whose move failed and was not reverted; no other session changes while it runs, and
\* one cut short leaves each repo moved or as it was.
THEOREM ReanchoringIsAtomic == Spec => AllOrNone
<1>1. Init => Promise!Init /\ AtomicInv /\ StageInv
  BY DEF Init, Promise!Init, Asked, Sessions, Rest, Off, AtomicInv, StageInv, Moves
<1>2. AtomicSound /\ [Next]_vars => [Promise!Next]_(Promise!vars)
  <2>1. UNCHANGED vars => UNCHANGED Promise!vars
    BY DEF vars, container, ghosts, Promise!vars, Asked, Sessions
  <2> QED BY <2>1, AtomicBoot, AtomicCommand DEF AtomicSound, Sound, Next
<1>3. Sound /\ AtomicInv /\ [Next]_vars => AtomicInv'
  BY AtomicStep DEF Sound
<1>4. Sound /\ StageInv /\ [Next]_vars => StageInv'
  BY StageStep DEF Sound
<1>5. Sound /\ AtomicInv /\ StageInv => AtomicSound
  BY DEF AtomicSound
<1> QED BY <1>1, <1>2, <1>3, <1>4, <1>5, Soundness, PTL DEF Spec, AllOrNone, Promise!Spec

\* Sessions are forgotten where the container is gone, or was kept by docker.
ForgetInv == cmd.at = "forget" => ctr = "absent" \/ cmd.kept

LEMMA ForgetStep == TypeInv /\ ForgetInv /\ [Next]_vars => ForgetInv'
<1> SUFFICES ASSUME TypeInv, ForgetInv, [Next]_vars, cmd'.at = "forget"
             PROVE  ctr' = "absent" \/ cmd'.kept
  BY DEF ForgetInv
<1>0. cmd \in CommandRecord
  BY DEF TypeInv, TypeOK
<1>1. CASE BootStep \/ Exit \/ (\E p \in Path : Work(p)) \/ UNCHANGED vars
  BY <1>1 DEF BootStep, BootBegins, Stage, BootEnds, WarmRestart, Reattach, FirstLaunch,
              FirstWorktree, FirstTime, Exit, Work, vars, container, ForgetInv
<1>2. CASE Command
  <2>1. cmd = Rest => cmd.at # "forget"
    BY RestAt
  <2>2. ASSUME NEW m, StartNew(m) \/ StartChanged(m)
        PROVE  cmd'.at # "forget"
    BY <2>2 DEF StartNew, StartChanged, Rest
  <2>3. StartWarm \/ Restart \/ Shutdown => cmd'.at # "forget"
    BY DEF StartWarm, Restart, Shutdown, Rest
  <2>4. Stop => cmd'.at # "forget"
    BY <2>1 DEF Stop
  <2>5. ASSUME NEW targets, Reanchor(targets)
        PROVE  cmd'.at # "forget"
    BY <2>5 DEF Reanchor, Rest
  <2> QED BY <1>2, <2>2, <2>3, <2>4, <2>5 DEF Command
<1>3. CASE Remove \/ RemoveRefused \/ \E p \in Path : Forget(p) \/ ForgetRefused(p)
  <2>1. Remove => ctr' = "absent"
    BY DEF Remove
  <2>2. RemoveRefused => cmd'.kept
    BY <1>0 DEF RemoveRefused, CommandRecord
  <2>3. ASSUME NEW p \in Path, Forget(p) \/ ForgetRefused(p)
        PROVE  cmd.at = "forget" /\ cmd'.kept = cmd.kept /\ ctr' = ctr
    BY <1>0, <2>3 DEF Forget, ForgetRefused, container, CommandRecord
  <2> QED BY <1>3, <2>1, <2>2, <2>3 DEF ForgetInv
<1>4. CASE \/ StopContainer \/ StopRefused \/ Forgotten \/ Run \/ RunFails \/ StartContainer
           \/ SeesReady \/ TimesOut \/ Interrupt \/ Moved \/ RevertRefused \/ RolledBack
  <2>1. StopContainer \/ StopRefused \/ Forgotten => cmd'.at # "forget"
    BY <1>0, RestAt DEF StopContainer, StopRefused, Stopped, Forgotten, CommandRecord
  <2>2. Run \/ RunFails \/ StartContainer \/ SeesReady \/ TimesOut \/ Interrupt => cmd'.at # "forget"
    BY RestAt DEF Run, RunFails, StartContainer, SeesReady, TimesOut, Interrupt
  <2>3. Moved \/ RevertRefused \/ RolledBack => cmd'.at # "forget"
    BY RestAt DEF Moved, RevertRefused, RolledBack
  <2> QED BY <1>4, <2>1, <2>2, <2>3
<1>5. CASE \/ \E n \in Name : InPlace(n) \/ Rebase(n) \/ RebaseRefused(n)
           \/ SetBookmark \/ MoveFails \/ MoveAbandoned \/ Revert \/ OwnRevertRefused
  <2>1. ASSUME NEW n \in Name, InPlace(n) \/ Rebase(n) \/ RebaseRefused(n)
        PROVE  cmd'.at # "forget"
    BY <1>0, <2>1 DEF InPlace, Rebase, RebaseRefused, Moving, CommandRecord
  <2>2. SetBookmark \/ MoveFails \/ MoveAbandoned \/ Revert \/ OwnRevertRefused => cmd'.at # "forget"
    BY <1>0 DEF SetBookmark, NextMove, MoveFails, MoveAbandoned, Revert, OwnRevertRefused,
                CommandRecord
  <2> QED BY <1>5, <2>1, <2>2
<1> QED BY <1>1, <1>2, <1>3, <1>4, <1>5 DEF Next, CommandStep

\* A session is forgotten only once its container is gone, after cut-short commands too;
\* the exception is a command whose docker rm was refused.
THEOREM ForgottenAfterRemoval == Spec => ForgottenWhenGone
<1> DEFINE Gone(p) == store[p].bookmark # "none" /\ store'[p].bookmark = "none"
<1>1. ASSUME Sound, AtomicInv, ForgetInv, [Next]_vars, NEW p \in Path, Gone(p)
      PROVE  ctr = "absent" \/ cmd.kept
  <2>1. store \in [Path -> Footprint] /\ cmd \in CommandRecord /\ cmd.undo \in Seq(Operation)
    BY <1>1 DEF Sound, TypeInv, TypeOK, CommandRecord
  <2>2. ASSUME NEW q \in Path, Forget(q)
        PROVE  ctr = "absent" \/ cmd.kept
    BY <1>1, <2>2 DEF Forget, ForgetInv
  <2>3. ASSUME NEW q, NEW s, store' = [store EXCEPT ![q] = s], s.bookmark # "none"
        PROVE  FALSE
    BY <1>1, <2>1, <2>3
  <2>4. ~Stage /\ (\A n \in Name : ~FirstWorktree(n))
    <3>1. \A n : Session(label[n]).bookmark # "none"
      BY DEF Session
    <3> QED BY <2>3, <3>1 DEF Stage, FirstWorktree
  <2>5. ASSUME NEW q, NEW b \in {"on", "above", "adrift"},
               store' = [store EXCEPT ![q].bookmark = b]
        PROVE  FALSE
    BY <1>1, <2>1, <2>5 DEF Footprint
  <2>6. ASSUME NEW n \in Name, Rebase(n)
        PROVE  FALSE
    <3>1. PICK b \in {"on", "above", "adrift"} :
            store' = [store EXCEPT ![label[n].path].parent = cmd.targets[n],
                                   ![label[n].path].bookmark = b]
      BY <2>6 DEF Rebase, Position
    <3> QED BY <1>1, <2>1, <3>1 DEF Footprint
  <2>7. ASSUME Revert
        PROVE  FALSE
    <3>1. HalfOK
      BY <1>1, <2>7 DEF Revert, AtomicInv, Moves
    <3>2. Head(cmd.undo) \in Operation /\ Head(cmd.undo).session.bookmark # "none"
      BY <2>1, <2>7, <3>1, Popped DEF Revert, HalfOK
    <3> QED BY <1>1, <2>1, <2>7, <3>2, RevertedType DEF Revert
  <2>8. (\A q \in Path : ~Work(q)) /\ (SetBookmark \/ MoveAbandoned => UNCHANGED store)
    BY <2>5 DEF Work, SetBookmark, MoveAbandoned
  <2>9. store' # store
    BY <1>1
  <2> QED BY <1>1, <2>2, <2>4, <2>6, <2>7, <2>8, <2>9
          DEF Next, BootStep, BootBegins, BootEnds, WarmRestart, Reattach, FirstLaunch, Exit,
              Command, StartNew, StartChanged, StartWarm, Restart, Shutdown, Stop, Reanchor,
              CommandStep, StopContainer, StopRefused, Remove, RemoveRefused, Forgotten,
              ForgetRefused, Run, RunFails, StartContainer, SeesReady, TimesOut, Interrupt,
              InPlace, RebaseRefused, MoveFails, Moved, OwnRevertRefused, RevertRefused, RolledBack,
              vars
<1>2. Sound /\ AtomicInv /\ ForgetInv /\ [Next]_vars =>
        [\A p \in Path : Gone(p) => ctr = "absent" \/ cmd.kept]_vars
  BY <1>1
<1>3. Init => AtomicInv /\ ForgetInv
  BY DEF Init, Rest, AtomicInv, ForgetInv, Moves
<1>4. Sound /\ AtomicInv /\ ForgetInv /\ [Next]_vars => AtomicInv' /\ ForgetInv'
  BY AtomicStep, ForgetStep DEF Sound
<1> QED BY <1>2, <1>3, <1>4, Soundness, PTL DEF Spec, ForgottenWhenGone
=============================================================================
