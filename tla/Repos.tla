-------------------------------- MODULE Repos --------------------------------
(***************************************************************************)
(* The repos of a ticket: the registry in the user's config                 *)
(* (cld/registry.py), and the manifest that a launch's arguments resolve to *)
(* (cld/manifest.py), which docker keeps among the container's labels.      *)
(*                                                                         *)
(* A text is the sequence of its parts between the "@"s; a part is a valid  *)
(* name, Blank, or another word.  A valid name is its place in the          *)
(* alphabet.  A manifest is taken in the order of its names, whatever the   *)
(* order of the arguments.                                                  *)
(***************************************************************************)
EXTENDS Integers, FiniteSets, Sequences

CONSTANTS
  N,         \* valid names, of registry entries and of directories
  Path,      \* where repos are on the host
  Rev,       \* changes to anchor on
  Blank,     \* the empty part
  Expand,    \* texts that look like a path, and where each leads
  BaseName,  \* the name their last component gives, 0 if it is not a valid one
  Existing,  \* those that are there
  Trunk,     \* the text "trunk()"
  Pin,       \* changes that a revision may turn out to be, by path and text
  Configs,   \* configs at the time of a launch
  Requests   \* what a launch may be asked for

Name == 1..N
Mode == {"isolated", "shared"}
Entry == [path : Path, base : Rev, mode : Mode]
Manifest == UNION {[names -> Entry] : names \in SUBSET Name}
Empty == <<>>
Unset == <<>>

ASSUME ReposAssumption ==
  /\ N \in Nat
  /\ BaseName \in [DOMAIN Expand -> Name \cup {0}]
  /\ Trunk # Unset

-----------------------------------------------------------------------------
(* The registry.  A config has the "repos" of the user's file and of the project's, *)
(* as written: also under keys that are no names, and entries that are no table or    *)
(* have no path, which is then Unset.                                                 *)

\* from_env, with _load_toml: the project's are ignored.
RawRepos(config) == config.user

\* parse_repos: what is broken is skipped.
Registry(raw) ==
  [name \in {k \in DOMAIN raw : k \in Name /\ raw[k].path # Unset} |-> raw[name]]

\* host_registry, the broker's reading of the user's file: it looks at no name.
HostRegistry(raw) ==
  [k \in {k \in DOMAIN raw : raw[k].path # Unset} |-> Expand[raw[k].path]]

CanAdd(raw, name, entry) ==
  name \in Name /\ entry.path \in Existing /\ name \notin DOMAIN raw

AddRepo(raw, name, entry) ==
  [k \in DOMAIN raw \cup {name} |-> IF k = name THEN entry ELSE raw[k]]

\* manifest_labels has the paths once more, as labels that are read without JSON.
FlatLabels(manifest) == [name \in DOMAIN manifest |-> manifest[name].path]

\* tickets_referencing, for one ticket.
References(labels, name, path) == name \in DOMAIN labels /\ labels[name] = Expand[path]

\* "repos rm" is refused for a repo that some ticket's labels hold.
CanRemove(raw, name, tickets) ==
  /\ name \in DOMAIN raw
  /\ name \in DOMAIN Registry(raw) =>
       \A labels \in tickets : ~References(labels, name, raw[name].path)

RemoveRepo(raw, name) == [k \in DOMAIN raw \ {name} |-> raw[k]]

-----------------------------------------------------------------------------
(* Launch arguments. *)

\* _split_rev: at the first "@", unless the whole is an existing path.
Split(spec) ==
  IF Len(spec) > 1 /\ spec \in Existing THEN [base |-> spec, rev |-> Unset]
  ELSE [base |-> <<Head(spec)>>, rev |-> Tail(spec)]

\* resolve_repo_specs: a registry name goes before a path.  0 is a refusal.
IsRegistered(registry, base) == \E name \in DOMAIN registry : base = <<name>>

NameOf(registry, base) ==
  IF IsRegistered(registry, base) THEN base[1]
  ELSE IF base \in DOMAIN Expand THEN BaseName[base] ELSE 0

EntryOf(registry, base) ==
  IF IsRegistered(registry, base) THEN registry[base[1]] ELSE [path |-> base, rev |-> Unset]

Named(registry, spec) == NameOf(registry, Split(spec).base)
Found(registry, spec) == EntryOf(registry, Split(spec).base)

Offered(entry) == IF entry.rev # Unset THEN entry.rev ELSE Trunk

\* The argument's revision goes before the registry's, and that before trunk.
Revision(registry, spec) ==
  IF Split(spec).rev # Unset THEN Split(spec).rev ELSE Offered(Found(registry, spec))

Names(registry, specs) == {Named(registry, specs[i]) : i \in DOMAIN specs}

\* No name may be resolved twice.
Resolves(registry, specs, shared) ==
  /\ \A i \in DOMAIN specs :
       Split(specs[i]).rev # <<Blank>> /\ Named(registry, specs[i]) # 0
  /\ \A i, j \in DOMAIN specs :
       Named(registry, specs[i]) = Named(registry, specs[j]) => i = j
  /\ shared \subseteq Names(registry, specs)

\* resolve_manifest, with the outcomes of pinning its revisions; where it raises
\* there are none.
Manifests(registry, specs, shared) ==
  {m \in [Names(registry, specs) -> Entry] :
     /\ Resolves(registry, specs, shared)
     /\ \A i \in DOMAIN specs :
          LET e == m[Named(registry, specs[i])] IN
          /\ e.path = Expand[Found(registry, specs[i]).path]
          /\ e.base \in Pin[e.path][Revision(registry, specs[i])]
          /\ e.mode = IF Named(registry, specs[i]) \in shared THEN "shared" ELSE "isolated"}

\* The picker numbers the names in order.  "picks" gives the numbers chosen, each
\* with the revision typed at the prompt, Unset for the one it offers; the choice
\* comes back as arguments.
Number(registry, name) == Cardinality({k \in DOMAIN registry : k <= name})

CanPick(registry, picks) ==
  /\ DOMAIN picks # {}
  /\ \A i \in DOMAIN picks : \E name \in DOMAIN registry : Number(registry, name) = i

Picked(registry, picks) ==
  LET typed(name) == picks[Number(registry, name)] IN
  [name \in {k \in DOMAIN registry : Number(registry, k) \in DOMAIN picks} |->
     <<name>> \o (IF typed(name) # Unset THEN typed(name) ELSE Offered(registry[name]))]

\* A launch with arguments.
FromArguments(registry) ==
  UNION {Manifests(registry, r.specs, r.shared) : r \in {r \in Requests : DOMAIN r.specs # {}}}

\* Without any, a new ticket asks the picker.
FromPicker(registry) ==
  UNION {Manifests(registry, Picked(registry, r.picks), r.shared) :
           r \in {r \in Requests : DOMAIN r.specs = {} /\ CanPick(registry, r.picks)}}

Typed == UNION {FromArguments(Registry(RawRepos(config))) : config \in Configs}
Launches == Typed \cup UNION {FromPicker(Registry(RawRepos(config))) : config \in Configs}

-----------------------------------------------------------------------------
(* Manifests against each other. *)

Paths(manifest, names) == {manifest[n].path : n \in names}

\* diff_manifests, by name.
Added(old, new) == DOMAIN new \ DOMAIN old
Removed(old, new) == DOMAIN old \ DOMAIN new
Changed(old, new) == {n \in DOMAIN old \cap DOMAIN new : old[n] # new[n]}
Differs(old, new) ==
  Added(old, new) # {} \/ Removed(old, new) # {} \/ Changed(old, new) # {}

\* keep_attached_anchors: a name that stays on its path keeps its anchor.
KeepAttached(old, new) ==
  [n \in DOMAIN new |->
     IF n \in DOMAIN old /\ old[n].path = new[n].path THEN old[n] ELSE new[n]]

\* A name that moves leaves its session behind: only sessions of names that go are
\* forgotten.
MovedAway(old, new) ==
  {old[n].path : n \in {k \in DOMAIN old \cap DOMAIN new : old[k].path # new[k].path}}
=============================================================================
