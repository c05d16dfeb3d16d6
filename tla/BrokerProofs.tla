---------------------------- MODULE BrokerProofs ----------------------------
(***************************************************************************)
(* Theorems about Broker, for any number of concurrent requests, any         *)
(* sessions with any mounts, and any number of changes.                      *)
(***************************************************************************)
EXTENDS Broker, TLAPS

SweepPcs == {"sweep", "pick", "reap", "misled", "swept"}

RequestRecord ==
  [pc : SweepPcs \cup {"idle", "over", "look", "clear", "cleared", "run", "port", "await",
                       "stop", "stopped"},
   who : Session \cup {"none"}, repo : Repo \cup {NoRepo}, next : {"over", "look", "run"},
   todo : SUBSET Session, target : Session \cup {"none"}, label : Repo \cup {NoRepo},
   orphans : SUBSET Session]

\* A request of a session, of a repository it mounts.
Authorised(x) == x.who \in Session /\ x.repo \in Mounts[x.who]

\* What is known of a request by where it is.
RequestOK(x) ==
  /\ x \in RequestRecord
  /\ x.pc \in SweepPcs => x.next # "run" /\ (x.next = "look" => Authorised(x))
  /\ x.pc \in {"reap", "misled", "swept"} => x.target \in Session
  /\ x.pc \in {"look", "clear", "cleared", "run", "port", "await", "stop", "stopped"} => Authorised(x)
  /\ x.pc \in {"run", "port", "await"} \/ (x.pc \in {"clear", "cleared"} /\ x.next = "run") =>
       x.repo \in Configured
  /\ x.pc \in {"clear", "cleared"} => x.next # "look"

ServerOK(s, x) ==
  x = NoServer \/ (/\ x \in [phase : {"boot", "install", "up", "exited"}, repo : Repo]
                   /\ x.repo \in Mounts[s] \cap Configured)

ServersOK ==
  /\ server \in [Session -> [phase : {"none", "boot", "install", "up", "exited"},
                             repo : Repo \cup {NoRepo}]]
  /\ \A s \in Session : ServerOK(s, server[s])

RequestsOK == req \in [Request -> RequestRecord] /\ \A c \in Request : RequestOK(req[c])

TypeInv ==
  /\ session \in [Session -> {"absent", "stopped", "running"}]
  /\ ServersOK
  /\ \A w \in ws : w[1] \in Session /\ w[2] \in Mounts[w[1]] \cap Configured
  /\ RequestsOK
  /\ raced \subseteq Session /\ leaked \subseteq ws /\ bereft \subseteq Session
  /\ changes \in 0..Changes

-----------------------------------------------------------------------------
(* Ways of changing a request *)

LEMMA IdleOK ==
  /\ NoRequest \in RequestRecord
  /\ RequestOK(NoRequest) /\ RequestOK(Over)
<1>1. NoRequest \in RequestRecord
  BY DEF NoRequest, RequestRecord, SweepPcs, NoRepo
<1>2. Over \in RequestRecord /\ Over.pc = "over"
  <2>1. "over" \in SweepPcs \cup {"idle", "over", "look", "clear", "cleared", "run", "port", "await",
                                 "stop", "stopped"}
    OBVIOUS
  <2> QED
    BY <1>1, <2>1 DEF Over, RequestRecord
<1>3. NoRequest.pc = "idle"
  BY DEF NoRequest
<1> QED
  BY <1>1, <1>2, <1>3 DEF RequestOK, SweepPcs

LEMMA StatusOK ==
  ASSUME NEW s \in Session
  PROVE  /\ RequestOK(Status(s)) /\ Status(s).pc = "sweep" /\ Status(s).who = s
         /\ Status(s).target = "none" /\ Status(s).orphans = {}
<1> DEFINE x == [NoRequest EXCEPT !.who = s]
<1>1. x \in RequestRecord /\ x.orphans = {} /\ x.who = s /\ x.target = "none"
  BY IdleOK DEF RequestRecord, NoRequest
<1> DEFINE new == Sweeping(x, "over")
<1>2. /\ new \in RequestRecord /\ new.pc = "sweep" /\ new.next = "over" /\ new.who = s
      /\ new.target = "none" /\ new.orphans = {}
  <2> HIDE DEF x
  <2> QED
    BY <1>1 DEF Sweeping, RequestRecord, SweepPcs
<1>3. Status(s) = new
  BY DEF Status
<1> HIDE DEF new
<1> QED
  BY <1>2, <1>3 DEF RequestOK, SweepPcs

-----------------------------------------------------------------------------
(* What each step makes of its request *)

\* Nothing but request c changes.
Only(c) == req' \in [Request -> RequestRecord] /\ \A d \in Request \ {c} : req'[d] = req[d]

\* Where the request goes, whose session and which repository it keeps.
Keeps(c, pc, next) ==
  /\ req'[c].pc = pc /\ req'[c].next = next
  /\ req'[c].who = req[c].who /\ req'[c].repo = req[c].repo

\* It goes on, with what it swept.
Move(c, pc, next, target, label) ==
  /\ Only(c) /\ Keeps(c, pc, next)
  /\ req'[c].target = target /\ req'[c].label = label
  /\ req'[c].todo = req[c].todo /\ req'[c].orphans \subseteq req[c].orphans

\* It becomes another one.
Turns(c, new) == Only(c) /\ req'[c] = new

LEMMA SweepListEffect ==
  ASSUME TypeInv, NEW c \in Request, SweepList(c)
  PROVE  /\ Only(c) /\ Keeps(c, "pick", req[c].next) /\ req[c].pc = "sweep"
         /\ req'[c].orphans = {s \in req'[c].todo : Gone(s)}
         /\ req'[c].target = req[c].target /\ req'[c].label = req[c].label
         /\ UNCHANGED <<session, server, ws, ghosts>>
<1>1. /\ req \in [Request -> RequestRecord] /\ req[c] \in RequestRecord
  BY DEF TypeInv, RequestsOK, ServersOK
<1>2. PICK listed \in {{s \in Session : Served(s)}, {}} :
        req' = [req EXCEPT ![c].pc = "pick", ![c].todo = listed,
                           ![c].orphans = {s \in listed : Gone(s)}]
  BY DEF SweepList
<1> DEFINE orphans == {s \in listed : Gone(s)}
<1>3. listed \in SUBSET Session /\ orphans \in SUBSET Session
  BY <1>2
<1> HIDE DEF orphans
<1> DEFINE new == [req[c] EXCEPT !.pc = "pick", !.todo = listed, !.orphans = orphans]
<1>4. /\ new \in RequestRecord
      /\ new.pc = "pick" /\ new.next = req[c].next /\ new.who = req[c].who
      /\ new.repo = req[c].repo /\ new.todo = listed /\ new.orphans = orphans
      /\ new.target = req[c].target /\ new.label = req[c].label
  BY <1>1, <1>3 DEF RequestRecord, SweepPcs
<1>5. req' = [req EXCEPT ![c] = new]
  BY <1>1, <1>2 DEF orphans
<1> HIDE DEF new
<1>6. Only(c) /\ req'[c] = new
  BY <1>1, <1>4, <1>5 DEF Only
<1>7. req[c].pc = "sweep" /\ UNCHANGED <<session, server, ws, ghosts>>
  BY DEF SweepList
<1> QED
  BY <1>4, <1>6, <1>7 DEF Keeps, orphans

\* A sweep goes on past a server, takes an orphan, or takes for an orphan what is
\* none because docker inspect has failed.
Past(c, s) == ~Served(s) \/ ~Gone(s)
Takes(c, s, pc) ==
  /\ Keeps(c, pc, req[c].next) /\ req'[c].target = s
  /\ raced' = IF Busy(s, c) THEN raced \cup {s} ELSE raced

LEMMA SweepCheckEffect ==
  ASSUME TypeInv, NEW c \in Request, NEW s \in Session, SweepCheck(c, s)
  PROVE  /\ Only(c) /\ req[c].pc = "pick" /\ s \in req[c].todo
         /\ \/ /\ Keeps(c, "pick", req[c].next) /\ req'[c].target = "none" /\ UNCHANGED raced
               /\ Past(c, s)
            \/ Takes(c, s, "reap") /\ Gone(s)
            \/ Takes(c, s, "misled") /\ ~Gone(s)
         /\ req'[c].todo = req[c].todo \ {s} /\ req'[c].orphans = req[c].orphans
         /\ req'[c].label = req[c].label
         /\ UNCHANGED <<session, server, ws, leaked, bereft>>
<1>1. /\ req \in [Request -> RequestRecord] /\ req[c] \in RequestRecord
  BY DEF TypeInv, RequestsOK, ServersOK
<1>2. PICK found \in {~Gone(s), FALSE} :
        /\ req' = [req EXCEPT ![c].todo = @ \ {s},
                              ![c].pc = IF SweepKeeps(s, found) THEN "pick"
                                        ELSE IF found = ~Gone(s) THEN "reap" ELSE "misled",
                              ![c].target = IF SweepKeeps(s, found) THEN "none" ELSE s]
        /\ raced' = IF ~SweepKeeps(s, found) /\ Busy(s, c) THEN raced \cup {s} ELSE raced
  BY DEF SweepCheck
<1> DEFINE pc == IF SweepKeeps(s, found) THEN "pick" ELSE IF found = ~Gone(s) THEN "reap" ELSE "misled"
           target == IF SweepKeeps(s, found) THEN "none" ELSE s
           new == [req[c] EXCEPT !.todo = @ \ {s}, !.pc = pc, !.target = target]
<1>3. req' = [req EXCEPT ![c] = new]
  BY <1>1, <1>2
<1>4. pc \in {"pick", "reap", "misled"} /\ target \in Session \cup {"none"}
      /\ req[c].todo \ {s} \in SUBSET Session
  BY <1>1 DEF RequestRecord
<1>5. \/ SweepKeeps(s, found) /\ Past(c, s) /\ pc = "pick" /\ target = "none"
      \/ ~SweepKeeps(s, found) /\ Gone(s) /\ pc = "reap" /\ target = s
      \/ ~SweepKeeps(s, found) /\ ~Gone(s) /\ pc = "misled" /\ target = s
  BY <1>2 DEF SweepKeeps, Past
<1>6. /\ new \in RequestRecord
      /\ new.pc = pc /\ new.next = req[c].next /\ new.who = req[c].who
      /\ new.repo = req[c].repo /\ new.todo = req[c].todo \ {s} /\ new.orphans = req[c].orphans
      /\ new.target = target /\ new.label = req[c].label
  <2> HIDE DEF pc, target
  <2> QED
    BY <1>1, <1>4 DEF RequestRecord, SweepPcs
<1> HIDE DEF new, pc, target
<1>7. Only(c) /\ req'[c] = new
  BY <1>1, <1>3, <1>6 DEF Only
<1>8. /\ req[c].pc = "pick" /\ s \in req[c].todo
      /\ UNCHANGED <<session, server, ws, leaked, bereft>>
  BY DEF SweepCheck
<1> QED
  BY <1>2, <1>5, <1>6, <1>7, <1>8 DEF Keeps, Takes

LEMMA SweepSkipsEffect ==
  ASSUME TypeInv, NEW c \in Request, NEW s \in Session, SweepSkips(c, s)
  PROVE  /\ Only(c) /\ Keeps(c, "pick", req[c].next) /\ req[c].pc = "pick"
         /\ req'[c].todo = req[c].todo \ {s} /\ req'[c].orphans = req[c].orphans \ {s}
         /\ req'[c].target = req[c].target /\ req'[c].label = req[c].label
         /\ UNCHANGED <<session, server, ws, ghosts>>
<1>1. /\ req \in [Request -> RequestRecord] /\ req[c] \in RequestRecord /\ req[c].pc = "pick"
  BY DEF TypeInv, RequestsOK, SweepSkips
<1> DEFINE new == [req[c] EXCEPT !.todo = @ \ {s}, !.orphans = @ \ {s}]
<1>2. req' = [req EXCEPT ![c] = new]
  BY <1>1 DEF SweepSkips
<1>3. /\ new \in RequestRecord
      /\ new.pc = "pick" /\ new.next = req[c].next /\ new.who = req[c].who /\ new.repo = req[c].repo
      /\ new.target = req[c].target /\ new.label = req[c].label
      /\ new.todo = req[c].todo \ {s} /\ new.orphans = req[c].orphans \ {s}
  BY <1>1 DEF RequestRecord, SweepPcs
<1> HIDE DEF new
<1> QED
  BY <1>1, <1>2, <1>3 DEF Only, Keeps, SweepSkips

\* docker rm -f has gone one way or the other.
LEMMA TakenDown ==
  ASSUME NEW s, NEW label, NEW repo, TakeDown(s, label, repo)
  PROVE  Drop(s, repo) \/ Refuse(s)
BY DEF TakeDown, RemoveContainer

LEMMA SweepRemoveEffect ==
  ASSUME TypeInv, NEW c \in Request, SweepRemove(c)
  PROVE  /\ req[c].pc \in {"reap", "misled"} /\ req[c].target \in Session
         /\ \E label : /\ Move(c, "swept", req[c].next, req[c].target, label)
                       /\ Drop(req[c].target, label) \/ Refuse(req[c].target)
         /\ req'[c].orphans = IF server'[req[c].target] # NoServer THEN req[c].orphans \ {req[c].target}
                              ELSE req[c].orphans
         /\ UNCHANGED <<session, ws, raced>>
<1>1. req \in [Request -> RequestRecord] /\ req[c] \in RequestRecord
  BY DEF TypeInv, RequestsOK, ServersOK
<1>2. req[c].pc \in {"reap", "misled"} /\ req[c].target \in Session
  BY DEF TypeInv, RequestsOK, RequestOK, SweepRemove
<1> DEFINE t == req[c].target
           orphans == IF server'[t] # NoServer THEN req[c].orphans \ {t} ELSE req[c].orphans
<1>3. PICK label \in {server[t].repo, NoRepo} :
        /\ TakeDown(t, label, label)
        /\ req' = [req EXCEPT ![c].pc = "swept", ![c].label = label,
                              ![c].orphans = IF server'[t] # NoServer THEN @ \ {t} ELSE @]
  BY DEF SweepRemove
<1>4. label \in Repo \cup {NoRepo}
  BY <1>2, <1>3 DEF TypeInv, ServersOK
<1>5. req' = [req EXCEPT ![c] = [@ EXCEPT !.pc = "swept", !.label = label, !.orphans = orphans]]
  BY <1>1, <1>3
<1>6. orphans \in SUBSET Session /\ orphans \subseteq req[c].orphans
  BY <1>1 DEF RequestRecord
<1> HIDE DEF orphans
<1> DEFINE new == [req[c] EXCEPT !.pc = "swept", !.label = label, !.orphans = orphans]
<1>7. /\ new \in RequestRecord
      /\ new.pc = "swept" /\ new.next = req[c].next /\ new.who = req[c].who /\ new.repo = req[c].repo
      /\ new.target = req[c].target /\ new.label = label
      /\ new.todo = req[c].todo /\ new.orphans = orphans
  BY <1>1, <1>4, <1>6 DEF RequestRecord, SweepPcs
<1> HIDE DEF new
<1>8. Only(c) /\ req'[c] = new
  <2>1. req' = [req EXCEPT ![c] = new]
    BY <1>5 DEF new
  <2> QED
    BY <1>1, <1>7, <2>1 DEF Only
<1>9. Move(c, "swept", req[c].next, t, label)
  BY <1>6, <1>7, <1>8 DEF Move, Keeps
<1>10. Drop(t, label) \/ Refuse(t)
  BY <1>3, TakenDown
<1>11. UNCHANGED <<session, ws, raced>>
  BY DEF SweepRemove
<1> QED
  BY <1>2, <1>7, <1>8, <1>9, <1>10, <1>11 DEF orphans

LEMMA SweepForgetEffect ==
  ASSUME TypeInv, NEW c \in Request, SweepForget(c)
  PROVE  Move(c, "pick", req[c].next, "none", NoRepo)
<1> DEFINE new == [req[c] EXCEPT !.pc = "pick", !.target = "none", !.label = NoRepo]
<1>1. req \in [Request -> RequestRecord] /\ req[c] \in RequestRecord
  BY DEF TypeInv, RequestsOK, ServersOK
<1>2. req' = [req EXCEPT ![c] = new]
  BY <1>1 DEF SweepForget
<1>4. /\ new \in RequestRecord
      /\ new.pc = "pick" /\ new.next = req[c].next /\ new.who = req[c].who /\ new.repo = req[c].repo
      /\ new.target = "none" /\ new.label = NoRepo
      /\ new.todo = req[c].todo /\ new.orphans = req[c].orphans
  BY <1>1 DEF RequestRecord, SweepPcs
<1> HIDE DEF new
<1> QED
  BY <1>1, <1>2, <1>4 DEF Move, Only, Keeps

LEMMA SweepGoesOnEffect ==
  ASSUME TypeInv, NEW c \in Request, SweepEnds(c), req[c].next # "over"
  PROVE  Move(c, req[c].next, "over", req[c].target, req[c].label)
<1> DEFINE new == [req[c] EXCEPT !.pc = req[c].next, !.next = "over"]
<1>1. req \in [Request -> RequestRecord] /\ req[c] \in RequestRecord
  BY DEF TypeInv, RequestsOK, ServersOK
<1>2. req' = [req EXCEPT ![c] = new]
  BY <1>1 DEF SweepEnds
<1>3. req[c].next \in {"over", "look", "run"}
  BY <1>1 DEF RequestRecord
<1>4. /\ new \in RequestRecord
      /\ new.pc = req[c].next /\ new.next = "over" /\ new.who = req[c].who /\ new.repo = req[c].repo
      /\ new.target = req[c].target /\ new.label = req[c].label
      /\ new.todo = req[c].todo /\ new.orphans = req[c].orphans
  BY <1>1, <1>3 DEF RequestRecord, SweepPcs
<1> HIDE DEF new
<1> QED
  BY <1>1, <1>2, <1>4 DEF Move, Only, Keeps

LEMMA LookClearsEffect ==
  ASSUME TypeInv, NEW c \in Request, Look(c), req[c].repo \in Configured,
         ~IsRunning(req[c].who), Served(req[c].who)
  PROVE  Move(c, "clear", "run", req[c].target, req[c].label)
<1> DEFINE new == [req[c] EXCEPT !.pc = "clear", !.next = "run"]
<1>1. req \in [Request -> RequestRecord] /\ req[c] \in RequestRecord
  BY DEF TypeInv, RequestsOK, ServersOK
<1>2. req' = [req EXCEPT ![c] = new]
  BY <1>1 DEF Look
<1>4. /\ new \in RequestRecord
      /\ new.pc = "clear" /\ new.next = "run" /\ new.who = req[c].who /\ new.repo = req[c].repo
      /\ new.target = req[c].target /\ new.label = req[c].label
      /\ new.todo = req[c].todo /\ new.orphans = req[c].orphans
  BY <1>1 DEF RequestRecord, SweepPcs
<1> HIDE DEF new
<1> QED
  BY <1>1, <1>2, <1>4 DEF Move, Only, Keeps

LEMMA LookRunsEffect ==
  ASSUME TypeInv, NEW c \in Request, Look(c), req[c].repo \in Configured,
         ~IsRunning(req[c].who), ~Served(req[c].who)
  PROVE  Move(c, "run", req[c].next, req[c].target, req[c].label)
<1> DEFINE new == [req[c] EXCEPT !.pc = "run"]
<1>1. req \in [Request -> RequestRecord] /\ req[c] \in RequestRecord
  BY DEF TypeInv, RequestsOK, ServersOK
<1>2. req' = [req EXCEPT ![c] = new]
  BY <1>1 DEF Look
<1>4. /\ new \in RequestRecord
      /\ new.pc = "run" /\ new.next = req[c].next /\ new.who = req[c].who /\ new.repo = req[c].repo
      /\ new.target = req[c].target /\ new.label = req[c].label
      /\ new.todo = req[c].todo /\ new.orphans = req[c].orphans
  BY <1>1 DEF RequestRecord, SweepPcs
<1> HIDE DEF new
<1> QED
  BY <1>1, <1>2, <1>4 DEF Move, Only, Keeps

LEMMA GotoEffect ==
  ASSUME TypeInv, NEW c \in Request, NEW pc \in {"await", "cleared", "run", "stop"}, Goto(c, pc)
  PROVE  Move(c, pc, req[c].next, req[c].target, req[c].label)
<1> DEFINE new == [req[c] EXCEPT !.pc = pc]
<1>1. req \in [Request -> RequestRecord] /\ req[c] \in RequestRecord
  BY DEF TypeInv, RequestsOK, ServersOK
<1>2. req' = [req EXCEPT ![c] = new]
  BY <1>1 DEF Goto
<1>4. /\ new \in RequestRecord
      /\ new.pc = pc /\ new.next = req[c].next /\ new.who = req[c].who /\ new.repo = req[c].repo
      /\ new.target = req[c].target /\ new.label = req[c].label
      /\ new.todo = req[c].todo /\ new.orphans = req[c].orphans
  BY <1>1 DEF RequestRecord, SweepPcs
<1> HIDE DEF new
<1> QED
  BY <1>1, <1>2, <1>4 DEF Move, Only, Keeps

LEMMA SeesDeadEffect ==
  ASSUME TypeInv, NEW c \in Request, SeesDead(c)
  PROVE  Move(c, "clear", "over", req[c].target, req[c].label)
<1> DEFINE new == [req[c] EXCEPT !.pc = "clear", !.next = "over"]
<1>1. req \in [Request -> RequestRecord] /\ req[c] \in RequestRecord
  BY DEF TypeInv, RequestsOK, ServersOK
<1>2. req' = [req EXCEPT ![c] = new]
  BY <1>1 DEF SeesDead
<1>4. /\ new \in RequestRecord
      /\ new.pc = "clear" /\ new.next = "over" /\ new.who = req[c].who /\ new.repo = req[c].repo
      /\ new.target = req[c].target /\ new.label = req[c].label
      /\ new.todo = req[c].todo /\ new.orphans = req[c].orphans
  BY <1>1 DEF RequestRecord, SweepPcs
<1> HIDE DEF new
<1> QED
  BY <1>1, <1>2, <1>4 DEF Move, Only, Keeps

LEMMA StopRemoveEffect ==
  ASSUME TypeInv, NEW c \in Request, StopRemove(c)
  PROVE  /\ req[c].pc = "stop" /\ req[c].who \in Session
         /\ \E repo : /\ Move(c, "stopped", req[c].next, req[c].target, repo)
                      /\ Drop(req[c].who, repo) \/ Refuse(req[c].who)
         /\ UNCHANGED <<session, ws, raced>>
<1> DEFINE t == req[c].who
<1>1. req \in [Request -> RequestRecord] /\ req[c] \in RequestRecord
  BY DEF TypeInv, RequestsOK, ServersOK
<1>2. req[c].pc = "stop" /\ req[c].who \in Session /\ UNCHANGED <<session, ws, raced>>
  BY DEF TypeInv, RequestsOK, RequestOK, StopRemove, Authorised
<1> DEFINE Read(label) == IF label = NoRepo THEN req[c].repo ELSE label
<1>3. PICK label \in {server[t].repo, NoRepo} :
        TakeDown(t, label, Read(label)) /\ req' = [req EXCEPT ![c].pc = "stopped", ![c].label = Read(label)]
  BY DEF StopRemove
<1> DEFINE repo == Read(label)
<1>4. repo \in Repo \cup {NoRepo}
  BY <1>1, <1>2, <1>3 DEF TypeInv, ServersOK, RequestRecord
<1>5. TakeDown(t, label, repo) /\ req' = [req EXCEPT ![c].pc = "stopped", ![c].label = repo]
  BY <1>3
<1> HIDE DEF Read, repo
<1> DEFINE new == [req[c] EXCEPT !.pc = "stopped", !.label = repo]
<1>6. /\ new \in RequestRecord
      /\ new.pc = "stopped" /\ new.next = req[c].next /\ new.who = req[c].who /\ new.repo = req[c].repo
      /\ new.target = req[c].target /\ new.label = repo
      /\ new.todo = req[c].todo /\ new.orphans = req[c].orphans
  BY <1>1, <1>4 DEF RequestRecord, SweepPcs
<1>7. req' = [req EXCEPT ![c] = new]
  BY <1>1, <1>5
<1> HIDE DEF new
<1>8. Move(c, "stopped", req[c].next, req[c].target, repo)
  BY <1>1, <1>6, <1>7 DEF Move, Only, Keeps
<1> QED
  BY <1>2, <1>5, <1>8, TakenDown

LEMMA StopRestartsEffect ==
  ASSUME TypeInv, NEW c \in Request, StopForget(c), req[c].next = "look"
  PROVE  Move(c, "sweep", "look", req[c].target, NoRepo)
<1> DEFINE new == [req[c] EXCEPT !.pc = "sweep", !.next = "look", !.label = NoRepo]
<1>1. req \in [Request -> RequestRecord] /\ req[c] \in RequestRecord
  BY DEF TypeInv, RequestsOK, ServersOK
<1>2. req' = [req EXCEPT ![c] = new]
  BY <1>1 DEF StopForget, Sweeping
<1>4. /\ new \in RequestRecord
      /\ new.pc = "sweep" /\ new.next = "look" /\ new.who = req[c].who /\ new.repo = req[c].repo
      /\ new.target = req[c].target /\ new.label = NoRepo
      /\ new.todo = req[c].todo /\ new.orphans = req[c].orphans
  BY <1>1 DEF RequestRecord, SweepPcs
<1> HIDE DEF new
<1> QED
  BY <1>1, <1>2, <1>4 DEF Move, Only, Keeps

LEMMA TurnsEffect ==
  ASSUME TypeInv, NEW c \in Request, NEW new \in RequestRecord, req' = [req EXCEPT ![c] = new]
  PROVE  Turns(c, new)
BY DEF TypeInv, RequestsOK, ServersOK, Turns, Only

LEMMA FinishEffect ==
  ASSUME TypeInv, NEW c \in Request, Finish(c)
  PROVE  Turns(c, Over)
<1>1. Over \in RequestRecord
  BY IdleOK DEF RequestOK
<1> QED
  BY <1>1, TurnsEffect DEF Finish

\* A session's name is taken off what the sweeps have to remove.
LEMMA OwnedFields ==
  ASSUME NEW x \in RequestRecord, NEW s
  PROVE  /\ Owned(x, s) \in RequestRecord /\ Owned(x, s).pc = x.pc /\ Owned(x, s).next = x.next
         /\ Owned(x, s).who = x.who /\ Owned(x, s).repo = x.repo /\ Owned(x, s).todo = x.todo
         /\ Owned(x, s).target = x.target /\ Owned(x, s).label = x.label
         /\ Owned(x, s).orphans = x.orphans \ {s}
BY DEF Owned, RequestRecord

\* A request that has lost nothing but orphans.
Same(d, s) ==
  /\ req'[d].pc = req[d].pc /\ req'[d].next = req[d].next /\ req'[d].who = req[d].who
  /\ req'[d].repo = req[d].repo /\ req'[d].todo = req[d].todo /\ req'[d].target = req[d].target
  /\ req'[d].label = req[d].label /\ req'[d].orphans = req[d].orphans \ {s}

LEMMA RelaunchEffect ==
  ASSUME TypeInv, NEW s \in Session, Relaunch(s)
  PROVE  req' \in [Request -> RequestRecord] /\ \A d \in Request : Same(d, s)
<1>1. \A d \in Request : req[d] \in RequestRecord
  BY DEF TypeInv, RequestsOK, ServersOK
<1>2. req' = [d \in Request |-> Owned(req[d], s)]
  BY DEF Relaunch
<1> QED
  BY <1>1, <1>2, OwnedFields DEF Same

\* docker run: the name stands for the new container, started or not.
LEMMA RunEffect ==
  ASSUME TypeInv, NEW c \in Request, Run(c), ~Served(req[c].who)
  PROVE  /\ req' \in [Request -> RequestRecord]
         /\ \A d \in Request \ {c} : Same(d, req[c].who)
         /\ \/ Keeps(c, "port", "over") /\ req'[c].target = req[c].target
            \/ req'[c].pc = "over" /\ req'[c].who = "none" /\ req'[c].target = "none"
         /\ req'[c].orphans \subseteq req[c].orphans \ {req[c].who}
         /\ \E phase \in {"boot", "exited"} :
              server' = [server EXCEPT ![req[c].who] = [phase |-> phase, repo |-> req[c].repo]]
<1> DEFINE port == [req[c] EXCEPT !.pc = "port", !.next = "over"]
           s == req[c].who
<1>1. \A d \in Request : req[d] \in RequestRecord
  BY DEF TypeInv, RequestsOK, ServersOK
<1>2. /\ port \in RequestRecord
      /\ port.pc = "port" /\ port.next = "over" /\ port.who = req[c].who /\ port.repo = req[c].repo
      /\ port.todo = req[c].todo /\ port.target = req[c].target /\ port.label = req[c].label
      /\ port.orphans = req[c].orphans
  <2>1. req[c] \in RequestRecord
    BY <1>1
  <2> QED
    BY <2>1 DEF RequestRecord, SweepPcs
<1>3. /\ Over \in RequestRecord /\ Over.pc = "over" /\ Over.who = "none" /\ Over.target = "none"
      /\ Over.orphans = {}
  <2>1. Over \in RequestRecord
    BY IdleOK DEF RequestOK
  <2> QED
    BY <2>1 DEF Over, NoRequest
<1>4. PICK new \in {port, Over}, phase \in {"boot", "exited"} : Create(c, s, new, phase)
  BY DEF Run
<1> HIDE DEF port
<1> DEFINE old(d) == IF d = c THEN new ELSE req[d]
<1>5. req' = [d \in Request |-> Owned(old(d), s)]
  BY <1>4 DEF Create
<1>6. \A d \in Request : old(d) \in RequestRecord
  BY <1>1, <1>2, <1>3, <1>4
<1>7. req' \in [Request -> RequestRecord] /\ \A d \in Request : req'[d] = Owned(old(d), s)
  <2> HIDE DEF old
  <2> QED
    BY <1>5, <1>6, OwnedFields
<1>8. \A d \in Request \ {c} : Same(d, s)
  BY <1>1, <1>7, OwnedFields DEF Same
<1>9. req'[c] = Owned(new, s) /\ new \in RequestRecord
  BY <1>2, <1>3, <1>4, <1>7
<1>10. server' = [server EXCEPT ![s] = [phase |-> phase, repo |-> req[c].repo]]
  BY <1>4 DEF Create
<1>11. /\ req'[c].pc = new.pc /\ req'[c].next = new.next /\ req'[c].who = new.who
       /\ req'[c].repo = new.repo /\ req'[c].target = new.target
       /\ req'[c].orphans = new.orphans \ {s}
  BY <1>9, OwnedFields
<1>12. CASE new = port
  <2>1. Keeps(c, "port", "over") /\ req'[c].target = req[c].target
    BY <1>2, <1>11, <1>12 DEF Keeps
  <2>2. req'[c].orphans = req[c].orphans \ {s}
    BY <1>2, <1>11, <1>12
  <2> QED
    BY <1>4, <1>7, <1>8, <1>10, <2>1, <2>2
<1>13. CASE new = Over
  <2>1. /\ req'[c].pc = "over" /\ req'[c].who = "none" /\ req'[c].target = "none"
        /\ req'[c].orphans \subseteq req[c].orphans \ {s}
    BY <1>3, <1>11, <1>13
  <2> QED
    BY <1>4, <1>7, <1>8, <1>10, <2>1
<1> QED
  BY <1>4, <1>12, <1>13

\* What Ask makes of a request by the operation.
LEMMA AskEffect ==
  ASSUME TypeInv, NEW c \in Request, NEW s \in Session, NEW op \in {"start", "stop", "restart", "status"},
         NEW repo \in Mounts[s], Ask(c, s, op, repo)
  PROVE  /\ Only(c) /\ RequestOK(req'[c])
         /\ req'[c].pc \in {"sweep", "stop"} /\ req'[c].who = s /\ req'[c].target = "none"
         /\ req'[c].orphans = {}
<1> DEFINE asked == [NoRequest EXCEPT !.who = s, !.repo = repo]
           Fits(x) == /\ RequestOK(x) /\ x.pc \in {"sweep", "stop"} /\ x.who = s
                      /\ x.target = "none" /\ x.orphans = {}
<1>1. repo \in Repo
  BY DEF Repo
<1>2. /\ asked \in RequestRecord /\ asked.who = s /\ asked.repo = repo /\ asked.next = "over"
      /\ asked.target = "none" /\ asked.orphans = {}
  BY <1>1 DEF NoRequest, RequestRecord, SweepPcs, NoRepo
<1> HIDE DEF asked
<1>3. CASE op = "status"
  <2>1. Fits(Status(s)) /\ Status(s) \in RequestRecord
    BY StatusOK DEF RequestOK
  <2>2. req' = [req EXCEPT ![c] = Status(s)]
    BY <1>3 DEF Ask
  <2> QED
    BY <2>1, <2>2, TurnsEffect DEF Turns
<1>4. CASE op = "start"
  <2> DEFINE new == Sweeping(asked, "look")
  <2>1. /\ new \in RequestRecord /\ new.pc = "sweep" /\ new.next = "look" /\ new.who = s
        /\ new.repo = repo /\ new.target = "none" /\ new.orphans = {}
    BY <1>2 DEF Sweeping, RequestRecord, SweepPcs
  <2>2. req' = [req EXCEPT ![c] = new]
    BY <1>4 DEF Ask, asked
  <2> HIDE DEF new
  <2>3. Fits(new)
    BY <2>1 DEF RequestOK, Authorised, SweepPcs
  <2> QED
    BY <2>1, <2>2, <2>3, TurnsEffect DEF Turns
<1>5. CASE op = "stop"
  <2> DEFINE new == [asked EXCEPT !.pc = "stop"]
  <2>1. /\ new \in RequestRecord /\ new.pc = "stop" /\ new.who = s
        /\ new.repo = repo /\ new.target = "none" /\ new.orphans = {}
    BY <1>2 DEF RequestRecord, SweepPcs
  <2>2. req' = [req EXCEPT ![c] = new]
    BY <1>5 DEF Ask, asked
  <2> HIDE DEF new
  <2>3. Fits(new)
    BY <2>1 DEF RequestOK, Authorised, SweepPcs
  <2> QED
    BY <2>1, <2>2, <2>3, TurnsEffect DEF Turns
<1>6. CASE op = "restart"
  <2> DEFINE new == [asked EXCEPT !.pc = "stop", !.next = "look"]
  <2>1. /\ new \in RequestRecord /\ new.pc = "stop" /\ new.who = s
        /\ new.repo = repo /\ new.target = "none" /\ new.orphans = {}
    BY <1>2 DEF RequestRecord, SweepPcs
  <2>2. req' = [req EXCEPT ![c] = new]
    BY <1>6 DEF Ask, asked
  <2> HIDE DEF new
  <2>3. Fits(new)
    BY <2>1 DEF RequestOK, Authorised, SweepPcs
  <2> QED
    BY <2>1, <2>2, <2>3, TurnsEffect DEF Turns
<1> QED
  BY <1>3, <1>4, <1>5, <1>6

LEMMA AskSweepEffect ==
  ASSUME TypeInv, NEW c \in Request, AskSweep(c)
  PROVE  /\ Only(c) /\ RequestOK(req'[c])
         /\ req'[c].pc = "sweep" /\ req'[c].who = "none" /\ req'[c].target = "none"
         /\ req'[c].orphans = {}
<1> DEFINE new == Sweeping(NoRequest, "over")
<1>1. /\ new \in RequestRecord /\ new.pc = "sweep" /\ new.next = "over" /\ new.who = "none"
      /\ new.target = "none" /\ new.orphans = {}
  BY DEF Sweeping, NoRequest, RequestRecord, SweepPcs, NoRepo
<1>2. req' = [req EXCEPT ![c] = new]
  BY DEF AskSweep
<1> HIDE DEF new
<1>3. RequestOK(new)
  BY <1>1 DEF RequestOK, SweepPcs
<1> QED
  BY <1>1, <1>2, <1>3, TurnsEffect DEF Turns

\* The sweep of an operator or of a status ends the request.
LEMMA SweepIsOverEffect ==
  ASSUME TypeInv, NEW c \in Request, SweepEnds(c), req[c].next = "over"
  PROVE  /\ Only(c) /\ RequestOK(req'[c])
         /\ req'[c].pc = "over" /\ req'[c].who = "none" /\ req'[c].target = "none"
         /\ req'[c].orphans = req[c].orphans
<1> DEFINE new == [Over EXCEPT !.orphans = req[c].orphans]
<1>1. /\ new \in RequestRecord /\ new.pc = "over" /\ new.who = "none" /\ new.target = "none"
      /\ new.orphans = req[c].orphans
  <2>1. Over = [pc |-> "over", who |-> "none", repo |-> NoRepo, next |-> "over",
                todo |-> {}, target |-> "none", label |-> NoRepo, orphans |-> {}]
    BY DEF Over, NoRequest
  <2>2. new = [pc |-> "over", who |-> "none", repo |-> NoRepo, next |-> "over",
               todo |-> {}, target |-> "none", label |-> NoRepo, orphans |-> req[c].orphans]
    BY <2>1
  <2>3. req[c].orphans \in SUBSET Session
    BY DEF TypeInv, RequestsOK, ServersOK, RequestRecord
  <2> HIDE DEF new
  <2> QED
    BY <2>2, <2>3 DEF RequestRecord, SweepPcs, NoRepo
<1>2. req' = [req EXCEPT ![c] = new]
  BY DEF SweepEnds
<1> HIDE DEF new
<1>3. RequestOK(new)
  BY <1>1 DEF RequestOK, SweepPcs
<1> QED
  BY <1>1, <1>2, <1>3, TurnsEffect DEF Turns

-----------------------------------------------------------------------------
(* Type correctness *)

\* A request that goes on is in order when what its place asks for holds.
LEMMA MoveOK ==
  ASSUME TypeInv, NEW c \in Request, NEW pc, NEW next, NEW target, NEW label,
         Move(c, pc, next, target, label),
         pc \in SweepPcs => next # "run" /\ (next = "look" => Authorised(req[c])),
         pc \in {"reap", "misled", "swept"} => target \in Session,
         pc \in {"look", "clear", "cleared", "run", "port", "await", "stop", "stopped"} =>
           Authorised(req[c]),
         pc \in {"run", "port", "await"} \/ (pc \in {"clear", "cleared"} /\ next = "run") =>
           req[c].repo \in Configured,
         pc \in {"clear", "cleared"} => next # "look"
  PROVE  Only(c) /\ RequestOK(req'[c])
<1>1. req'[c] \in RequestRecord /\ Only(c)
  BY DEF Move, Only
<1> QED
  BY <1>1 DEF Move, Keeps, RequestOK, Authorised

LEMMA StepRequestOK ==
  ASSUME TypeInv, NEW c \in Request, RequestStep(c), ~Run(c)
  PROVE  Only(c) /\ RequestOK(req'[c])
<1>1. RequestOK(req[c]) /\ req[c] \in RequestRecord
  BY DEF TypeInv, RequestsOK, ServersOK
<1>2. ASSUME NEW new, RequestOK(new), req' = [req EXCEPT ![c] = new]
      PROVE  Only(c) /\ RequestOK(req'[c])
  BY <1>2, TurnsEffect DEF Turns, RequestOK
<1>3. CASE SweepList(c)
  <2>1. /\ Only(c) /\ req'[c].pc = "pick" /\ req'[c].next = req[c].next
        /\ req'[c].who = req[c].who /\ req'[c].repo = req[c].repo /\ req[c].pc = "sweep"
    BY <1>3, SweepListEffect DEF Keeps
  <2>2. req'[c] \in RequestRecord
    BY <2>1 DEF Only
  <2> QED
    BY <1>1, <2>1, <2>2 DEF RequestOK, Authorised, SweepPcs
<1>4. ASSUME NEW s \in Session, SweepCheck(c, s) PROVE Only(c) /\ RequestOK(req'[c])
  <2>1. /\ Only(c) /\ req'[c].pc \in {"pick", "reap", "misled"} /\ req'[c].next = req[c].next
        /\ req'[c].pc # "pick" => req'[c].target = s
        /\ req'[c].who = req[c].who /\ req'[c].repo = req[c].repo /\ req[c].pc = "pick"
    BY <1>4, SweepCheckEffect DEF Keeps, Takes
  <2>2. req'[c] \in RequestRecord
    BY <2>1 DEF Only
  <2> QED
    BY <1>1, <2>1, <2>2 DEF RequestOK, Authorised, SweepPcs
<1>17. ASSUME NEW s \in Session, SweepSkips(c, s) PROVE Only(c) /\ RequestOK(req'[c])
  <2>1. /\ Only(c) /\ req'[c].pc = "pick" /\ req'[c].next = req[c].next
        /\ req'[c].who = req[c].who /\ req'[c].repo = req[c].repo /\ req[c].pc = "pick"
    BY <1>17, SweepSkipsEffect DEF Keeps
  <2>2. req'[c] \in RequestRecord
    BY <2>1 DEF Only
  <2> QED
    BY <1>1, <2>1, <2>2 DEF RequestOK, Authorised, SweepPcs
<1>18. CASE LookFails(c)
  <2>1. req[c].pc = "look" /\ req[c].repo \in Configured /\ Goto(c, "run")
    BY <1>18 DEF LookFails
  <2> QED
    BY <1>1, <2>1, GotoEffect, MoveOK DEF RequestOK, SweepPcs
<1>19. CASE ReadsNoPort(c)
  BY <1>2, <1>19, IdleOK DEF ReadsNoPort, Finish
<1>5. CASE SweepRemove(c)
  <2>1. req[c].pc \in {"reap", "misled"}
    BY <1>5 DEF SweepRemove
  <2> QED
    BY <1>1, <1>5, <2>1, SweepRemoveEffect, MoveOK DEF RequestOK, SweepPcs
<1>6. CASE SweepForget(c)
  <2>1. req[c].pc = "swept"
    BY <1>6 DEF SweepForget
  <2> QED
    BY <1>1, <1>6, <2>1, SweepForgetEffect, MoveOK DEF RequestOK, SweepPcs
<1>7. CASE SweepEnds(c)
  <2>1. CASE req[c].next = "over"
    BY <1>7, <2>1, SweepIsOverEffect
  <2>2. CASE req[c].next # "over"
    <3>1. req[c].pc = "pick" /\ req[c].next = "look" /\ Authorised(req[c])
      BY <1>1, <1>7, <2>2 DEF SweepEnds, RequestOK, SweepPcs, RequestRecord
    <3>2. Move(c, "look", "over", req[c].target, req[c].label)
      BY <1>7, <2>2, <3>1, SweepGoesOnEffect
    <3> QED
      BY <3>1, <3>2, MoveOK DEF SweepPcs
  <2> QED
    BY <2>1, <2>2
<1>8. CASE Look(c)
  <2> DEFINE s == req[c].who
  <2>1. req[c].pc = "look" /\ Authorised(req[c]) /\ s \in Session
    BY <1>1, <1>8 DEF Look, RequestOK, Authorised
  <2>2. CASE req[c].repo \notin Configured \/ (IsRunning(s) /\ server[s].repo # req[c].repo)
    <3>1. req' = [req EXCEPT ![c] = Over]
      BY <1>8, <2>2 DEF Look
    <3> QED
      BY <1>2, <3>1, IdleOK
  <2>3. CASE req[c].repo \in Configured /\ IsRunning(s) /\ server[s].repo = req[c].repo
    <3>1. req' = [req EXCEPT ![c] = Status(s)]
      BY <1>8, <2>3 DEF Look
    <3> QED
      BY <1>2, <2>1, <3>1, StatusOK
  <2>4. CASE req[c].repo \in Configured /\ ~IsRunning(s) /\ Served(s)
    BY <1>1, <1>8, <2>1, <2>4, LookClearsEffect, MoveOK DEF SweepPcs
  <2>5. CASE req[c].repo \in Configured /\ ~IsRunning(s) /\ ~Served(s)
    BY <1>1, <1>8, <2>1, <2>5, LookRunsEffect, MoveOK DEF SweepPcs
  <2> QED
    BY <2>2, <2>3, <2>4, <2>5
<1>9. CASE Clear(c)
  <2>1. req[c].pc = "clear" /\ Goto(c, "cleared")
    BY <1>9 DEF Clear
  <2> QED
    BY <1>1, <2>1, GotoEffect, MoveOK DEF RequestOK, SweepPcs
<1>10. CASE ClearForget(c)
  <2>1. req[c].pc = "cleared" /\ req[c].next \in {"over", "run"}
    BY <1>1, <1>10 DEF ClearForget, RequestOK, RequestRecord
  <2>2. CASE req[c].next = "over"
    BY <1>2, <1>10, <2>2, IdleOK DEF ClearForget, Finish
  <2>3. CASE req[c].next = "run"
    <3>1. Goto(c, "run")
      BY <1>10, <2>3 DEF ClearForget
    <3> QED
      BY <1>1, <2>1, <2>3, <3>1, GotoEffect, MoveOK DEF RequestOK, SweepPcs
  <2> QED
    BY <2>1, <2>2, <2>3
<1>11. CASE ReadPort(c)
  <2>1. CASE IsRunning(req[c].who)
    <3>1. req[c].pc = "port" /\ Goto(c, "await")
      BY <1>11, <2>1 DEF ReadPort
    <3> QED
      BY <1>1, <3>1, GotoEffect, MoveOK DEF RequestOK, SweepPcs
  <2>2. CASE ~IsRunning(req[c].who)
    BY <1>2, <1>11, <2>2, IdleOK DEF ReadPort, Finish
  <2> QED
    BY <2>1, <2>2
<1>12. CASE SeesDead(c)
  <2>1. req[c].pc = "await"
    BY <1>12 DEF SeesDead
  <2> QED
    BY <1>1, <1>12, <2>1, SeesDeadEffect, MoveOK DEF RequestOK, SweepPcs
<1>13. CASE SeesUp(c)
  <2>1. req[c].who \in Session
    BY <1>1, <1>13 DEF SeesUp, RequestOK, Authorised
  <2> QED
    BY <1>2, <1>13, <2>1, StatusOK DEF SeesUp
<1>14. CASE TimeOut(c)
  <2>1. req[c].pc = "await" /\ Goto(c, "stop")
    BY <1>14 DEF TimeOut, Goto
  <2> QED
    BY <1>1, <2>1, GotoEffect, MoveOK DEF RequestOK, SweepPcs
<1>15. CASE StopRemove(c)
  <2>1. req[c].pc = "stop"
    BY <1>15 DEF StopRemove
  <2> QED
    BY <1>1, <1>15, <2>1, StopRemoveEffect, MoveOK DEF RequestOK, SweepPcs
<1>16. CASE StopForget(c)
  <2>1. req[c].pc = "stopped"
    BY <1>16 DEF StopForget
  <2>2. CASE req[c].next = "look"
    BY <1>1, <1>16, <2>1, <2>2, StopRestartsEffect, MoveOK DEF RequestOK, SweepPcs
  <2>3. CASE req[c].next # "look"
    BY <1>2, <1>16, <2>3, IdleOK DEF StopForget
  <2> QED
    BY <2>2, <2>3
<1> QED
  BY <1>3, <1>4, <1>5, <1>6, <1>7, <1>8, <1>9, <1>10, <1>11, <1>12, <1>13, <1>14, <1>15, <1>16,
     <1>17, <1>18, <1>19 DEF RequestStep

\* Whatever happens, every request stays in order.
LEMMA RequestsStayOK ==
  ASSUME TypeInv, [Next]_vars
  PROVE  RequestsOK'
<1>1. RequestsOK
  BY DEF TypeInv
<1>2. ASSUME UNCHANGED req PROVE RequestsOK'
  BY <1>1, <1>2 DEF RequestsOK
<1>3. ASSUME NEW c \in Request, Only(c), RequestOK(req'[c]) PROVE RequestsOK'
  BY <1>1, <1>3 DEF RequestsOK, Only
<1>4. ASSUME NEW d \in Request, NEW s, Same(d, s), req'[d] \in RequestRecord PROVE RequestOK(req'[d])
  BY <1>1, <1>4 DEF RequestsOK, RequestOK, Same, Authorised
<1>5. ASSUME NEW s \in Session, Relaunch(s) PROVE RequestsOK'
  BY <1>4, <1>5, RelaunchEffect DEF RequestsOK
<1>6. ASSUME NEW c \in Request, Run(c) PROVE RequestsOK'
  <2>1. CASE Served(req[c].who)
    <3>1. Finish(c)
      BY <1>6, <2>1 DEF Run, Create
    <3> QED
      BY <1>3, <3>1, FinishEffect, IdleOK DEF Turns
  <2>2. CASE ~Served(req[c].who)
    <3>1. RequestOK(req[c]) /\ req[c].pc = "run"
      BY <1>1, <1>6 DEF RequestsOK, Run
    <3>2. RequestOK(req'[c])
      BY <1>6, <2>2, <3>1, RunEffect DEF RequestOK, Authorised, Keeps, SweepPcs
    <3> QED
      BY <1>4, <1>6, <2>2, <3>2, RunEffect DEF RequestsOK
  <2> QED
    BY <2>1, <2>2
<1>7. ASSUME NEW c \in Request, Kill(c) PROVE RequestsOK'
  <2>1. Finish(c)
    BY <1>7 DEF Kill
  <2> QED
    BY <1>3, <2>1, FinishEffect, IdleOK DEF Turns
<1>8. ASSUME NEW s \in Session, Pause(s) \/ Resume(s) \/ Remove(s) \/ Materialise(s) \/ BootFails(s)
                               \/ Serve(s) \/ Crash(s)
      PROVE  UNCHANGED req
  BY <1>8 DEF Pause, Resume, Remove, Materialise, BootFails, Serve, Crash, SetPhase
<1> QED
  BY <1>2, <1>3, <1>5, <1>6, <1>7, <1>8, AskEffect, AskSweepEffect, StepRequestOK DEF Next, vars

LEMMA PutServer ==
  ASSUME TypeInv, NEW s \in Session, NEW x \in [phase : {"boot", "install", "up", "exited"}, repo : Repo],
         x.repo \in Mounts[s] \cap Configured, server' = [server EXCEPT ![s] = x]
  PROVE  ServersOK'
BY DEF TypeInv, ServersOK, ServerOK

LEMMA DropServer ==
  ASSUME TypeInv, NEW s \in Session, server' = [server EXCEPT ![s] = NoServer]
  PROVE  ServersOK'
<1>1. NoServer \in [phase : {"none", "boot", "install", "up", "exited"}, repo : Repo \cup {NoRepo}]
  BY DEF NoServer
<1> QED
  BY <1>1 DEF TypeInv, ServersOK, ServerOK

\* A server that is there has a repository that its session may have served.
LEMMA ServedRepo ==
  ASSUME TypeInv, NEW s \in Session, Served(s)
  PROVE  /\ server[s] \in [phase : {"boot", "install", "up", "exited"}, repo : Repo]
         /\ server[s].repo \in Mounts[s] \cap Configured
<1>1. ServerOK(s, server[s])
  BY DEF TypeInv, ServersOK
<1>2. NoServer.phase = "none"
  BY DEF NoServer
<1> QED
  BY <1>1, <1>2 DEF ServerOK, Served

\* A name that serves nothing has no repository.
LEMMA UnservedRepo ==
  ASSUME TypeInv, NEW s \in Session, ~Served(s)
  PROVE  server[s] = NoServer /\ server[s].repo \notin Repo
<1>1. ServerOK(s, server[s])
  BY DEF TypeInv, ServersOK
<1>2. server[s] = NoServer
  BY <1>1 DEF ServerOK, Served
<1> QED
  BY <1>2, BrokerAssumption DEF NoServer, NoRepo

\* The steps of the servers' containers.
LEMMA ContainerType ==
  ASSUME TypeInv, NEW s \in Session, NEW phase \in {"boot", "install", "up", "exited"},
         Served(s), SetPhase(s, phase)
  PROVE  /\ ServersOK' /\ server'[s].phase = phase /\ server'[s].repo = server[s].repo
         /\ \A t \in Session \ {s} : server'[t] = server[t]
         /\ UNCHANGED <<session, req, raced, bereft, changes>>
<1> DEFINE x == [server[s] EXCEPT !.phase = phase]
<1>1. /\ server \in [Session -> [phase : {"none", "boot", "install", "up", "exited"},
                                 repo : Repo \cup {NoRepo}]]
  BY DEF TypeInv, ServersOK
<1>2. server' = [server EXCEPT ![s] = x]
  BY <1>1 DEF SetPhase
<1>3. /\ x \in [phase : {"boot", "install", "up", "exited"}, repo : Repo]
      /\ x.phase = phase /\ x.repo = server[s].repo
  BY ServedRepo
<1>4. server[s].repo \in Mounts[s] \cap Configured
  BY ServedRepo
<1> HIDE DEF x
<1>5. ServersOK'
  BY <1>2, <1>3, <1>4, PutServer
<1> QED
  BY <1>1, <1>2, <1>3, <1>5 DEF SetPhase

\* What docker rm -f leaves, whether it works or not.
Removes(t) == (\E repo : Drop(t, repo)) \/ Refuse(t)

LEMMA RemovalEffect ==
  ASSUME TypeInv, NEW t \in Session, Removes(t)
  PROVE  /\ ServersOK'
         /\ \A u \in Session \ {t} : server'[u] = server[u] /\ (u \in bereft' <=> u \in bereft)
         /\ \/ server'[t] = NoServer /\ ~Served(t)' /\ ~IsRunning(t)'
            \/ /\ Served(t) /\ Served(t)' /\ server'[t].repo = server[t].repo /\ t \in bereft'
               /\ server'[t].phase \in {server[t].phase, "exited"} /\ UNCHANGED leaked
<1>1. server \in [Session -> [phase : {"none", "boot", "install", "up", "exited"}, repo : Repo \cup {NoRepo}]]
  BY DEF TypeInv, ServersOK
<1>2. CASE \E repo : Drop(t, repo)
  <2>1. server' = [server EXCEPT ![t] = NoServer] /\ bereft' = bereft \ {t}
    BY <1>2 DEF Drop
  <2>2. server'[t] = NoServer /\ NoServer.phase = "none"
    BY <1>1, <2>1 DEF NoServer
  <2>3. ~Served(t)' /\ ~IsRunning(t)'
    BY <2>2 DEF Served, IsRunning
  <2> QED
    BY <1>1, <2>1, <2>2, <2>3, DropServer
<1>3. CASE Refuse(t)
  <2>1. PICK phase \in {server[t].phase, "exited"} : server' = [server EXCEPT ![t].phase = phase]
    BY <1>3 DEF Refuse
  <2>2. Served(t) /\ bereft' = bereft \cup {t} /\ UNCHANGED leaked
    BY <1>3 DEF Refuse
  <2> DEFINE x == [server[t] EXCEPT !.phase = phase]
  <2>3. /\ x \in [phase : {"boot", "install", "up", "exited"}, repo : Repo]
        /\ x.phase = phase /\ x.repo = server[t].repo /\ x.repo \in Mounts[t] \cap Configured
    BY <2>1, <2>2, ServedRepo
  <2>4. server' = [server EXCEPT ![t] = x]
    BY <1>1, <2>1
  <2> HIDE DEF x
  <2>5. ServersOK' /\ server'[t] = x /\ x.phase # "none"
    BY <1>1, <2>3, <2>4, PutServer
  <2>6. Served(t)'
    BY <2>5 DEF Served
  <2> QED
    BY <1>1, <2>1, <2>2, <2>3, <2>4, <2>5, <2>6
<1> QED
  BY <1>2, <1>3 DEF Removes

\* The requests' steps that touch a server.
LEMMA Removing ==
  ASSUME TypeInv, NEW c \in Request,
         SweepRemove(c) \/ Clear(c) \/ StopRemove(c) \/ ReadsNoPort(c)
  PROVE  \E t \in Session : t \in {req[c].who, req[c].target} /\ Removes(t)
<1>1. RequestOK(req[c])
  BY DEF TypeInv, RequestsOK
<1>2. CASE SweepRemove(c)
  BY <1>2, SweepRemoveEffect DEF Removes
<1>3. CASE Clear(c)
  <2>1. req[c].who \in Session /\ RemoveContainer(req[c].who, req[c].repo)
    BY <1>1, <1>3 DEF Clear, RequestOK, Authorised
  <2> QED
    BY <2>1 DEF RemoveContainer, Removes
<1>4. CASE StopRemove(c)
  BY <1>4, StopRemoveEffect DEF Removes
<1>5. CASE ReadsNoPort(c)
  <2>1. req[c].who \in Session /\ (Drop(req[c].who, NoRepo) \/ Refuse(req[c].who))
    BY <1>1, <1>5 DEF ReadsNoPort, RequestOK, Authorised
  <2> QED
    BY <2>1 DEF Removes
<1> QED
  BY <1>2, <1>3, <1>4, <1>5

LEMMA StepServers ==
  ASSUME TypeInv, NEW c \in Request, RequestStep(c)
  PROVE  \/ UNCHANGED <<server, bereft>>
         \/ Run(c)
         \/ \E t \in Session : t \in {req[c].who, req[c].target} /\ Removes(t)
<1>1. CASE SweepRemove(c) \/ Clear(c) \/ StopRemove(c) \/ ReadsNoPort(c)
  BY <1>1, Removing
<1>2. CASE SweepList(c) \/ (\E s \in Session : SweepCheck(c, s) \/ SweepSkips(c, s)) \/ SweepForget(c)
           \/ SweepEnds(c)
  BY <1>2 DEF SweepList, SweepCheck, SweepSkips, SweepForget, SweepEnds, ghosts
<1>3. CASE Look(c) \/ LookFails(c) \/ ClearForget(c) \/ ReadPort(c) \/ SeesDead(c) \/ SeesUp(c)
           \/ TimeOut(c) \/ StopForget(c)
  BY <1>3 DEF Look, LookFails, ClearForget, ReadPort, SeesDead, SeesUp, TimeOut, StopForget, ghosts
<1> QED
  BY <1>1, <1>2, <1>3 DEF RequestStep

LEMMA StepSession ==
  ASSUME NEW c \in Request, RequestStep(c)
  PROVE  UNCHANGED session
BY DEF RequestStep, SweepList, SweepCheck, SweepSkips, SweepRemove, SweepForget, SweepEnds, Look, LookFails,
   Clear, ClearForget, Run, ReadPort, ReadsNoPort, SeesDead, SeesUp, TimeOut, StopRemove, StopForget

\* What a request's step does to the servers.
LEMMA RequestServers ==
  ASSUME TypeInv, NEW c \in Request, RequestStep(c)
  PROVE  ServersOK'
<1>1. ASSUME UNCHANGED server PROVE ServersOK'
  BY <1>1 DEF TypeInv, ServersOK
<1>2. CASE Run(c)
  <2>1. CASE Served(req[c].who)
    BY <1>1, <1>2, <2>1 DEF Run, Create
  <2>2. CASE ~Served(req[c].who)
    <3>1. PICK phase \in {"boot", "exited"} :
            server' = [server EXCEPT ![req[c].who] = [phase |-> phase, repo |-> req[c].repo]]
      BY <1>2, <2>2, RunEffect
    <3> DEFINE x == [phase |-> phase, repo |-> req[c].repo]
    <3>2. /\ req[c].who \in Session /\ req[c].repo \in Mounts[req[c].who] \cap Configured
      BY <1>2 DEF Run, TypeInv, RequestsOK, RequestOK, Authorised
    <3>3. req[c].repo \in Repo
      BY <3>2 DEF Repo
    <3> QED
      BY <3>1, <3>2, <3>3, PutServer
  <2> QED
    BY <2>1, <2>2
<1> QED
  BY <1>1, <1>2, StepServers, RemovalEffect

LEMMA ServersStayOK ==
  ASSUME TypeInv, [Next]_vars
  PROVE  ServersOK'
<1>1. ASSUME UNCHANGED server PROVE ServersOK'
  BY <1>1 DEF TypeInv, ServersOK
<1>2. ASSUME NEW s \in Session, Materialise(s) \/ BootFails(s) \/ Serve(s) \/ Crash(s)
      PROVE  ServersOK'
  <2>1. Served(s)
    BY <1>2 DEF Materialise, BootFails, Serve, Crash, IsRunning, Served
  <2>2. \E phase \in {"install", "exited", "up"} : SetPhase(s, phase)
    BY <1>2 DEF Materialise, BootFails, Serve, Crash
  <2> QED
    BY <2>1, <2>2, ContainerType
<1>3. ASSUME NEW s \in Session, Pause(s) \/ Resume(s) \/ Remove(s) \/ Relaunch(s)
      PROVE  UNCHANGED server
  BY <1>3 DEF Pause, Resume, Remove, Relaunch, SetSession
<1> QED
  BY <1>1, <1>2, <1>3, RequestServers DEF Next, vars, Ask, AskSweep, Kill

LEMMA ForgetEffect ==
  ASSUME NEW t, NEW repo, Forget(t, repo)
  PROVE  /\ ws' \subseteq ws /\ (leaked \subseteq ws => leaked' \subseteq ws')
         /\ ws' \ leaked' = (ws \ leaked) \ {<<t, repo>>}
BY DEF Forget

\* The workspaces and what is known of them.
WorkspacesOK ==
  /\ \A w \in ws : w[1] \in Session /\ w[2] \in Mounts[w[1]] \cap Configured
  /\ leaked \subseteq ws

LEMMA WorkspacesStayOK ==
  ASSUME TypeInv, [Next]_vars
  PROVE  WorkspacesOK'
<1>1. ASSUME ws' \subseteq ws, leaked' \subseteq ws' PROVE WorkspacesOK'
  BY <1>1 DEF TypeInv, WorkspacesOK
<1>2. ASSUME UNCHANGED <<ws, leaked>> PROVE WorkspacesOK'
  BY <1>1, <1>2 DEF TypeInv
<1>3. ASSUME NEW s \in Session, Materialise(s) PROVE WorkspacesOK'
  <2>1. Served(s) /\ ws' = ws \cup {<<s, server[s].repo>>} /\ UNCHANGED leaked
    BY <1>3 DEF Materialise, Served, Mine
  <2> QED
    BY <2>1, ServedRepo DEF TypeInv, WorkspacesOK
<1>4. ASSUME NEW s \in Session, BootFails(s) PROVE WorkspacesOK'
  <2>1. ws' \subseteq ws /\ leaked' \subseteq ws'
    BY <1>4 DEF BootFails, TypeInv
  <2> QED
    BY <1>1, <2>1
<1>5. ASSUME NEW s \in Session, \/ Pause(s) \/ Resume(s) \/ Remove(s) \/ Relaunch(s) \/ Serve(s)
                               \/ Crash(s)
      PROVE  UNCHANGED <<ws, leaked>>
  BY <1>5 DEF Pause, Resume, Remove, Relaunch, SetSession, Serve, Crash
<1>6. ASSUME NEW c \in Request, SweepForget(c) \/ ClearForget(c) \/ StopForget(c)
      PROVE  WorkspacesOK'
  <2>1. \E t, repo : Forget(t, repo)
    BY <1>6 DEF SweepForget, ClearForget, StopForget
  <2> QED
    BY <1>1, <2>1, ForgetEffect DEF TypeInv
<1>7. ASSUME NEW c \in Request, SweepRemove(c) \/ Clear(c) \/ StopRemove(c) \/ ReadsNoPort(c)
      PROVE  WorkspacesOK'
  <2>1. PICK t \in Session : Removes(t)
    BY <1>7, Removing
  <2>2. UNCHANGED ws
    BY <1>7 DEF SweepRemove, Clear, StopRemove, ReadsNoPort
  <2>3. leaked' \subseteq ws
    BY <2>1 DEF TypeInv, Removes, Drop, Refuse
  <2> QED
    BY <1>1, <2>2, <2>3
<1>8. ASSUME NEW c \in Request, Kill(c) PROVE WorkspacesOK'
  <2>1. UNCHANGED ws /\ leaked' \subseteq ws
    BY <1>8 DEF Kill, TypeInv
  <2> QED
    BY <1>1, <2>1
<1>9. ASSUME NEW c \in Request,
             \/ SweepList(c) \/ (\E s \in Session : SweepCheck(c, s) \/ SweepSkips(c, s)) \/ SweepEnds(c)
             \/ Look(c) \/ LookFails(c) \/ Run(c) \/ ReadPort(c) \/ SeesDead(c) \/ SeesUp(c) \/ TimeOut(c)
             \/ AskSweep(c)
      PROVE  UNCHANGED <<ws, leaked>>
  BY <1>9 DEF SweepList, SweepCheck, SweepSkips, SweepEnds, Look, LookFails, Run, ReadPort, SeesDead,
     SeesUp, TimeOut, AskSweep, ghosts
<1>10. ASSUME NEW c \in Request, RequestStep(c) PROVE WorkspacesOK'
  BY <1>2, <1>6, <1>7, <1>9, <1>10 DEF RequestStep
<1> QED
  BY <1>2, <1>3, <1>4, <1>5, <1>8, <1>9, <1>10 DEF Next, vars, Ask

LEMMA RestStaysOK ==
  ASSUME TypeInv, [Next]_vars
  PROVE  /\ session' \in [Session -> {"absent", "stopped", "running"}]
         /\ raced' \subseteq Session /\ bereft' \subseteq Session
         /\ changes' \in 0..Changes
<1> DEFINE SessionOK == session' \in [Session -> {"absent", "stopped", "running"}]
           RacedOK == raced' \subseteq Session
           BereftOK == bereft' \subseteq Session
           CountOK == changes' \in 0..Changes
<1>1. SessionOK
  <2>1. ASSUME NEW s \in Session, NEW state \in {"absent", "stopped", "running"}, SetSession(s, state)
        PROVE  SessionOK
    BY <2>1 DEF SetSession, TypeInv
  <2>2. ASSUME UNCHANGED session PROVE SessionOK
    BY <2>2 DEF TypeInv
  <2> HIDE DEF SessionOK
  <2> QED
    BY <2>1, <2>2, StepSession DEF Next, vars, Pause, Resume, Remove, Relaunch, Materialise, BootFails,
         Serve, Crash, SetPhase, Ask, AskSweep, Kill
<1>2. CountOK
  <2>1. ASSUME Change \/ UNCHANGED changes PROVE CountOK
    BY <2>1, BrokerAssumption DEF Change, TypeInv
  <2>2. ASSUME NEW c \in Request, RequestStep(c) PROVE Change \/ UNCHANGED changes
    <3>1. CASE SweepList(c) \/ (\E s \in Session : SweepCheck(c, s) \/ SweepSkips(c, s)) \/ SweepEnds(c)
      BY <3>1 DEF SweepList, SweepCheck, SweepSkips, SweepEnds
    <3>2. CASE SweepRemove(c) \/ Clear(c) \/ StopRemove(c) \/ ReadsNoPort(c)
      BY <3>2 DEF SweepRemove, Clear, StopRemove, ReadsNoPort, TakeDown, RemoveContainer
    <3>3. CASE SweepForget(c) \/ ClearForget(c) \/ StopForget(c)
      BY <3>3 DEF SweepForget, ClearForget, StopForget, Forget
    <3>4. CASE Look(c) \/ LookFails(c) \/ Run(c) \/ ReadPort(c) \/ SeesDead(c) \/ SeesUp(c) \/ TimeOut(c)
      BY <3>4 DEF Look, LookFails, Run, ReadPort, SeesDead, SeesUp, TimeOut
    <3> QED
      BY <2>2, <3>1, <3>2, <3>3, <3>4 DEF RequestStep
  <2> HIDE DEF CountOK
  <2> QED
    BY <2>1, <2>2 DEF Next, vars, Pause, Resume, Remove, Relaunch, SetSession, Materialise, BootFails,
         Serve, Crash, SetPhase, Ask, AskSweep, Kill
<1>3. RacedOK
  <2>1. ASSUME UNCHANGED raced PROVE RacedOK
    BY <2>1 DEF TypeInv
  <2>2. ASSUME NEW s \in Session, raced' \subseteq raced \cup {s} PROVE RacedOK
    BY <2>2 DEF TypeInv
  <2>3. ASSUME NEW s \in Session, Relaunch(s) PROVE RacedOK
    BY <2>2, <2>3 DEF Relaunch
  <2>4. ASSUME NEW c \in Request, RequestStep(c) PROVE RacedOK
    <3>1. ASSUME NEW s \in Session, SweepCheck(c, s) PROVE RacedOK
      BY <2>2, <3>1 DEF SweepCheck
    <3>2. ASSUME ~\E s \in Session : SweepCheck(c, s) PROVE UNCHANGED raced
      BY <2>4, <3>2 DEF RequestStep, SweepList, SweepSkips, SweepRemove, SweepForget, SweepEnds, Look,
         LookFails, Clear, ClearForget, Run, ReadPort, ReadsNoPort, SeesDead, SeesUp, TimeOut, StopRemove,
         StopForget, ghosts
    <3> QED
      BY <2>1, <3>1, <3>2
  <2>5. ASSUME NEW s \in Session, NEW c \in Request,
               NEW op \in {"start", "stop", "restart", "status"}, NEW repo \in Mounts[s],
               Ask(c, s, op, repo)
        PROVE  RacedOK
    BY <2>2, <2>5 DEF Ask
  <2> HIDE DEF RacedOK
  <2> QED
    BY <2>1, <2>3, <2>4, <2>5 DEF Next, vars, ghosts, Pause, Resume, Remove,
         Materialise, BootFails, Serve, Crash, SetPhase, AskSweep, Kill
<1>4. BereftOK
  <2>1. ASSUME UNCHANGED bereft PROVE BereftOK
    BY <2>1 DEF TypeInv
  <2>2. ASSUME NEW c \in Request, RequestStep(c) PROVE BereftOK
    <3>1. CASE Run(c)
      BY <2>1, <3>1 DEF Run, ghosts
    <3>2. ASSUME NEW t \in Session, Removes(t) PROVE BereftOK
      BY <3>2 DEF Removes, Drop, Refuse, TypeInv
    <3> QED
      BY <2>1, <2>2, <3>1, <3>2, StepServers
  <2> HIDE DEF BereftOK
  <2> QED
    BY <2>1, <2>2 DEF Next, vars, ghosts, Pause, Resume, Remove, Relaunch, SetSession,
         Materialise, BootFails, Serve, Crash, SetPhase, Ask, AskSweep, Kill
<1> QED
  BY <1>1, <1>2, <1>3, <1>4

LEMMA TypeInductive == Spec => []TypeInv
<1>1. ASSUME Init PROVE TypeInv
  <2>1. NoServer \in [phase : {"none", "boot", "install", "up", "exited"}, repo : Repo \cup {NoRepo}]
    BY DEF NoServer
  <2>2. ServersOK
    BY <1>1, <2>1 DEF Init, ServersOK, ServerOK
  <2>3. RequestsOK
    BY <1>1, IdleOK DEF Init, RequestsOK
  <2> QED
    BY <1>1, <2>2, <2>3, BrokerAssumption DEF Init, TypeInv
<1>2. ASSUME TypeInv, [Next]_vars PROVE TypeInv'
  BY <1>2, RequestsStayOK, ServersStayOK, WorkspacesStayOK, RestStaysOK DEF TypeInv, WorkspacesOK
<1> QED
  BY <1>1, <1>2, PTL DEF Spec

\* TypeOK: every request, server and workspace keeps its type; a server's
\* repository is one its session mounts and that has a graphql_command, whatever
\* requests cross (cld-broker.py, resolve_gql_scope, do_graphql_start).
THEOREM TypeCorrect == Spec => []TypeOK
<1>1. ASSUME TypeInv PROVE TypeOK
  <2>1. \A s \in Session : server[s] = NoServer \/
          (/\ server[s].phase \in {"boot", "install", "up", "exited"}
           /\ server[s].repo \in Mounts[s] \cap Configured)
    BY <1>1 DEF TypeInv, ServersOK, ServerOK
  <2>2. ASSUME NEW c \in Request
        PROVE /\ req[c].pc \in {"idle", "over", "sweep", "pick", "reap", "misled", "swept",
                                "look", "clear", "cleared", "run", "port", "await", "stop", "stopped"}
              /\ req[c].next \in {"over", "look", "run"}
              /\ req[c].todo \subseteq Session
              /\ req[c].pc \in {"reap", "misled", "swept"} => req[c].target \in Session
              /\ req[c].pc \in {"look", "clear", "cleared", "run", "port", "await", "stop", "stopped"}
                   => req[c].who \in Session /\ req[c].repo \in Mounts[req[c].who]
    <3>1. RequestOK(req[c]) /\ req[c] \in RequestRecord
      BY <1>1 DEF TypeInv, RequestsOK
    <3> QED
      BY <3>1 DEF RequestOK, RequestRecord, Authorised, SweepPcs
  <2> QED
    BY <1>1, <2>1, <2>2 DEF TypeOK, TypeInv
<1> QED
  BY <1>1, TypeInductive, PTL

-----------------------------------------------------------------------------
(* Orphans are swept *)

\* The sweep of request c still has s before it.
Pending(c, s) ==
  /\ req[c].pc \in {"pick", "reap", "misled", "swept"}
  /\ s \in req[c].todo \/ (req[c].pc = "reap" /\ req[c].target = s)

OrphanOK(c) == \A s \in req[c].orphans : Gone(s) /\ (Served(s) => Pending(c, s))
OrphanInv == \A c \in Request : OrphanOK(c)

\* Nothing is served anew but by docker run.
LEMMA NothingServedAnew ==
  ASSUME TypeInv, [Next]_vars, \A c \in Request : ~Run(c), NEW s \in Session
  PROVE  /\ Served(s)' => Served(s)
         /\ IsRunning(s)' => IsRunning(s)
         /\ Served(s)' /\ s \notin bereft' => s \notin bereft
<1> DEFINE Anew == \/ Served(s)' /\ ~Served(s)
                   \/ IsRunning(s)' /\ ~IsRunning(s)
                   \/ Served(s)' /\ s \notin bereft' /\ s \in bereft
<1>1. ASSUME NEW t \in Session, Removes(t) PROVE ~Anew
  <2>1. CASE s = t
    BY <1>1, <2>1, RemovalEffect DEF IsRunning, Served
  <2>2. CASE s # t
    BY <1>1, <2>2, RemovalEffect DEF IsRunning, Served
  <2> QED
    BY <2>1, <2>2
<1>2. ASSUME UNCHANGED <<server, bereft>> PROVE ~Anew
  BY <1>2 DEF Served, IsRunning
<1>3. ASSUME NEW t \in Session, Materialise(t) \/ BootFails(t) \/ Serve(t) \/ Crash(t)
      PROVE  ~Anew
  <2>1. Served(t) /\ IsRunning(t)
    BY <1>3 DEF Materialise, BootFails, Serve, Crash, Served, IsRunning
  <2>2. \E phase \in {"install", "exited", "up"} : SetPhase(t, phase)
    BY <1>3 DEF Materialise, BootFails, Serve, Crash
  <2> QED
    BY <2>1, <2>2, ContainerType DEF Served, IsRunning
<1>4. ASSUME NEW c \in Request, RequestStep(c) PROVE ~Anew
  <2> HIDE DEF Anew
  <2> QED
    BY <1>1, <1>2, <1>4, StepServers
<1>5. ~Anew
  <2> HIDE DEF Anew
  <2> QED
    BY <1>2, <1>3, <1>4 DEF Next, vars, ghosts, Pause, Resume, Remove, Relaunch, SetSession, Ask, AskSweep, Kill
<1> QED
  BY <1>5

\* A request whose orphans only get fewer, while none of them is served anew.
LEMMA OrphansKept ==
  ASSUME TypeInv, OrphanInv, NEW d \in Request, req'[d].orphans \subseteq req[d].orphans,
         \A s \in req'[d].orphans : /\ Gone(s) => Gone(s)'
                                    /\ Served(s)' => Served(s)
                                    /\ Served(s)' /\ Pending(d, s) => Pending(d, s)'
  PROVE  OrphanOK(d)'
BY DEF OrphanInv, OrphanOK

LEMMA OrphansOfOthers ==
  ASSUME TypeInv, OrphanInv, NEW d \in Request, req'[d] = req[d], \A c \in Request : ~Run(c), [Next]_vars,
         \A s \in Session : Gone(s) => Gone(s)'
  PROVE  OrphanOK(d)'
<1>1. req[d].orphans \subseteq Session
  BY DEF TypeInv, RequestsOK, RequestRecord
<1> QED
  BY <1>1, NothingServedAnew, OrphansKept DEF Pending

\* docker run is a request's own step: it ends there or goes on to its port.
LEMMA RunMoves ==
  ASSUME TypeInv, NEW c \in Request, Run(c)
  PROVE  req[c].pc = "run" /\ req'[c].pc \in {"over", "port"} /\ req'[c] # req[c]
<1>1. CASE Served(req[c].who)
  <2>1. req'[c] = Over
    BY <1>1, FinishEffect DEF Run, Create, Turns
  <2> QED
    BY <2>1 DEF Run, Over, NoRequest
<1>2. CASE ~Served(req[c].who)
  <2>1. req[c].pc = "run"
    BY DEF Run
  <2> QED
    BY <1>2, <2>1, RunEffect DEF Keeps
<1> QED
  BY <1>1, <1>2

LEMMA OrphanSession ==
  ASSUME TypeInv, OrphanInv, NEW s \in Session, Pause(s) \/ Resume(s) \/ Remove(s) \/ Relaunch(s)
  PROVE  OrphanInv'
<1>1. session \in [Session -> {"absent", "stopped", "running"}]
  BY DEF TypeInv
<1> SUFFICES ASSUME NEW d \in Request PROVE OrphanOK(d)'
  BY DEF OrphanInv
<1>2. req[d].orphans \subseteq Session /\ UNCHANGED server
  BY DEF TypeInv, RequestsOK, RequestRecord, Pause, Resume, Remove, Relaunch, SetSession
<1>3. CASE Relaunch(s)
  <2>1. Same(d, s)
    BY <1>3, RelaunchEffect
  <2>2. \A t \in Session \ {s} : session'[t] = session[t]
    BY <1>1, <1>3 DEF Relaunch, SetSession
  <2> QED
    BY <1>2, <2>1, <2>2, OrphansKept DEF Same, Pending, Gone, Served
<1>4. CASE Pause(s) \/ Resume(s) \/ Remove(s)
  <2>1. UNCHANGED req /\ \A t \in Session : Gone(t) => Gone(t)'
    BY <1>1, <1>4 DEF Pause, Resume, Remove, SetSession, Gone
  <2> QED
    BY <1>2, <2>1, OrphansKept DEF Pending, Served
<1> QED
  BY <1>3, <1>4

LEMMA OrphanStep ==
  ASSUME TypeInv, OrphanInv, NEW c \in Request, RequestStep(c), ~Run(c)
  PROVE  OrphanOK(c)'
<1>1. RequestOK(req[c]) /\ req[c] \in RequestRecord /\ req[c].orphans \subseteq Session
  BY DEF TypeInv, RequestsOK, RequestRecord
<1>2. UNCHANGED session
  BY StepSession
<1>3. \A s \in Session : (Served(s)' => Served(s)) /\ (Gone(s) => Gone(s)')
  <2>1. \A d \in Request \ {c} : ~Run(d)
    <3>1. Only(c)
      BY StepRequestOK
    <3> QED
      BY <3>1, RunMoves DEF Only
  <2>2. [Next]_vars
    BY DEF Next
  <2> QED
    BY <1>2, <2>1, <2>2, NothingServedAnew DEF Gone
<1>4. ASSUME ~(req[c].pc \in {"pick", "reap", "misled", "swept"}), req'[c].orphans \subseteq req[c].orphans
      PROVE  OrphanOK(c)'
  BY <1>1, <1>3, <1>4, OrphansKept DEF Pending
<1>5. ASSUME NEW pc, NEW next, NEW target, NEW label, Move(c, pc, next, target, label)
      PROVE  req'[c].orphans \subseteq req[c].orphans
  BY <1>5 DEF Move
<1>6. ASSUME req' = [req EXCEPT ![c] = Over] PROVE req'[c].orphans = {}
  BY <1>6 DEF TypeInv, RequestsOK, Over, NoRequest
<1>7. ASSUME NEW s \in Session, req' = [req EXCEPT ![c] = Status(s)] PROVE req'[c].orphans = {}
  BY <1>7, StatusOK DEF TypeInv, RequestsOK
<1>8. CASE SweepList(c)
  <2>1. /\ req'[c].pc = "pick" /\ req'[c].orphans = {s \in req'[c].todo : Gone(s)}
        /\ UNCHANGED <<session, server>>
    BY <1>8, SweepListEffect DEF Keeps
  <2> QED
    BY <2>1 DEF OrphanOK, Pending, Gone
<1>9. ASSUME NEW s \in Session, SweepCheck(c, s) PROVE OrphanOK(c)'
  <2>1. /\ req[c].pc = "pick" /\ req'[c].todo = req[c].todo \ {s} /\ req'[c].orphans = req[c].orphans
        /\ UNCHANGED <<session, server>>
        /\ \/ req'[c].pc = "pick" /\ (~Served(s) \/ ~Gone(s))
           \/ req'[c].pc = "reap" /\ req'[c].target = s
           \/ req'[c].pc = "misled" /\ ~Gone(s)
    BY <1>9, SweepCheckEffect DEF Keeps, Takes, Past
  <2>2. ASSUME NEW t \in req[c].orphans PROVE Gone(t)' /\ (Served(t)' => Pending(c, t)')
    <3>1. Gone(t) /\ (Served(t) => t \in req[c].todo)
      BY <2>1, <2>2 DEF OrphanInv, OrphanOK, Pending
    <3> QED
      BY <2>1, <3>1 DEF Pending, Gone, Served
  <2> QED
    BY <2>1, <2>2 DEF OrphanOK
<1>22. ASSUME NEW s \in Session, SweepSkips(c, s) PROVE OrphanOK(c)'
  <2>1. /\ req'[c].pc = "pick" /\ req[c].pc = "pick" /\ req'[c].todo = req[c].todo \ {s}
        /\ req'[c].orphans = req[c].orphans \ {s} /\ UNCHANGED <<session, server>>
    BY <1>22, SweepSkipsEffect DEF Keeps
  <2> QED
    BY <2>1 DEF OrphanInv, OrphanOK, Pending, Gone, Served
<1>10. CASE SweepRemove(c)
  <2>1. /\ req'[c].pc = "swept" /\ req[c].pc \in {"reap", "misled"} /\ req'[c].todo = req[c].todo
        /\ req'[c].orphans \subseteq req[c].orphans
    BY <1>10, SweepRemoveEffect DEF Move, Keeps
  <2>2. PICK t \in Session : t = req[c].target
    BY <1>10, SweepRemoveEffect
  <2>3. server'[t] # NoServer => t \notin req'[c].orphans
    BY <1>10, <2>2, SweepRemoveEffect
  <2>4. Served(t)' => t \notin req'[c].orphans
    BY <2>3 DEF Served, NoServer
  <2>5. ASSUME NEW s \in req'[c].orphans, Served(s)', Pending(c, s) PROVE Pending(c, s)'
    BY <2>1, <2>2, <2>4, <2>5 DEF Pending
  <2> QED
    BY <1>1, <1>3, <2>1, <2>5, OrphansKept
<1>11. CASE SweepForget(c)
  <2>1. /\ req'[c].pc = "pick" /\ req[c].pc = "swept" /\ req'[c].todo = req[c].todo
        /\ req'[c].orphans \subseteq req[c].orphans
    BY <1>11, SweepForgetEffect DEF Move, Keeps, SweepForget
  <2> QED
    BY <1>1, <1>3, <2>1, OrphansKept DEF Pending
<1>12. CASE SweepEnds(c)
  <2>1. req[c].pc = "pick" /\ req[c].todo = {} /\ UNCHANGED <<session, server>>
    BY <1>12 DEF SweepEnds
  <2>2. req'[c].orphans \subseteq req[c].orphans
    BY <1>12, SweepIsOverEffect, SweepGoesOnEffect DEF Move
  <2> QED
    BY <2>1, <2>2 DEF OrphanInv, OrphanOK, Pending, Gone, Served
<1>13. CASE Look(c)
  <2>1. req[c].pc = "look" /\ req[c].who \in Session
    BY <1>1, <1>13 DEF Look, RequestOK, Authorised
  <2>2. CASE \/ req' = [req EXCEPT ![c] = Over]
             \/ req' = [req EXCEPT ![c] = Status(req[c].who)]
    BY <1>4, <1>6, <1>7, <2>1, <2>2
  <2>3. CASE req[c].repo \in Configured /\ ~IsRunning(req[c].who)
    BY <1>4, <1>5, <1>13, <2>1, <2>3, LookClearsEffect, LookRunsEffect
  <2> QED
    BY <1>13, <2>2, <2>3 DEF Look
<1>14. CASE Clear(c)
  <2>1. req[c].pc = "clear" /\ Goto(c, "cleared")
    BY <1>14 DEF Clear
  <2> QED
    BY <1>4, <1>5, <2>1, GotoEffect
<1>23. CASE LookFails(c)
  <2>1. req[c].pc = "look" /\ Goto(c, "run")
    BY <1>23 DEF LookFails
  <2> QED
    BY <1>4, <1>5, <2>1, GotoEffect
<1>24. CASE ReadsNoPort(c)
  <2>1. req[c].pc = "port" /\ Finish(c)
    BY <1>24 DEF ReadsNoPort
  <2> QED
    BY <1>4, <1>6, <2>1 DEF Finish
<1>15. CASE ClearForget(c)
  <2>1. req[c].pc = "cleared" /\ req[c].next \in {"over", "run"}
    BY <1>1, <1>15 DEF ClearForget, RequestOK, RequestRecord
  <2>2. Finish(c) \/ Goto(c, "run")
    BY <1>15, <2>1 DEF ClearForget
  <2> QED
    BY <1>4, <1>5, <1>6, <2>1, <2>2, GotoEffect DEF Finish
<1>16. CASE ReadPort(c)
  <2>1. req[c].pc = "port" /\ (Finish(c) \/ Goto(c, "await"))
    BY <1>16 DEF ReadPort
  <2> QED
    BY <1>4, <1>5, <1>6, <2>1, GotoEffect DEF Finish
<1>17. CASE SeesDead(c)
  <2>1. req[c].pc = "await"
    BY <1>17 DEF SeesDead
  <2> QED
    BY <1>4, <1>5, <1>17, <2>1, SeesDeadEffect
<1>18. CASE SeesUp(c)
  <2>1. req[c].pc = "await" /\ req[c].who \in Session /\ req' = [req EXCEPT ![c] = Status(req[c].who)]
    BY <1>1, <1>18 DEF SeesUp, RequestOK, Authorised
  <2> QED
    BY <1>4, <1>7, <2>1
<1>19. CASE TimeOut(c)
  <2>1. req[c].pc = "await" /\ Goto(c, "stop")
    BY <1>19 DEF TimeOut, Goto
  <2> QED
    BY <1>4, <1>5, <2>1, GotoEffect
<1>20. CASE StopRemove(c)
  <2>1. req[c].pc = "stop"
    BY <1>20 DEF StopRemove
  <2> QED
    BY <1>4, <1>5, <1>20, <2>1, StopRemoveEffect
<1>21. CASE StopForget(c)
  <2>1. req[c].pc = "stopped"
    BY <1>21 DEF StopForget
  <2>2. CASE req[c].next = "look"
    BY <1>4, <1>5, <1>21, <2>1, <2>2, StopRestartsEffect
  <2>3. CASE req[c].next # "look"
    BY <1>4, <1>6, <1>21, <2>1, <2>3 DEF StopForget
  <2> QED
    BY <2>2, <2>3
<1> QED
  BY <1>8, <1>9, <1>10, <1>11, <1>12, <1>13, <1>14, <1>15, <1>16, <1>17, <1>18, <1>19, <1>20, <1>21,
     <1>22, <1>23, <1>24 DEF RequestStep

LEMMA OrphanRun ==
  ASSUME TypeInv, OrphanInv, NEW c \in Request, Run(c)
  PROVE  OrphanInv'
<1> SUFFICES ASSUME NEW d \in Request PROVE OrphanOK(d)'
  BY DEF OrphanInv
<1>1. RequestOK(req[c]) /\ req[c].pc = "run" /\ req[c].who \in Session
  BY DEF TypeInv, RequestsOK, RequestOK, Authorised, Run
<1>2. CASE Served(req[c].who)
  <2>1. Turns(c, Over) /\ UNCHANGED <<session, server>>
    BY <1>2, FinishEffect DEF Run, Create
  <2>2. CASE d = c
    BY <2>1, <2>2 DEF Turns, Over, NoRequest, OrphanOK
  <2>3. CASE d # c
    <3>1. req'[d] = req[d]
      BY <2>1, <2>3 DEF Turns, Only
    <3> QED
      BY <2>1, <3>1, OrphansKept DEF Pending, Served, Gone
  <2> QED
    BY <2>2, <2>3
<1>3. CASE ~Served(req[c].who)
  <2>1. PICK t \in Session : t = req[c].who
    BY <1>1
  <2>2. UNCHANGED session /\ \A s \in Session \ {t} : server'[s] = server[s]
    <3>1. UNCHANGED session
      BY DEF Run
    <3> QED
      BY <1>3, <2>1, <3>1, RunEffect DEF TypeInv, ServersOK
  <2>3. req[d].orphans \subseteq Session
    BY DEF TypeInv, RequestsOK, RequestRecord
  <2>4. CASE d = c
    <3>1. /\ req'[d].orphans \subseteq req[d].orphans \ {t}
          /\ ~(req[d].pc \in {"pick", "reap", "misled", "swept"})
      BY <1>1, <1>3, <2>1, <2>4, RunEffect
    <3> QED
      BY <2>2, <2>3, <3>1, OrphansKept DEF Pending, Served, Gone
  <2>5. CASE d # c
    <3>1. Same(d, t)
      BY <1>3, <2>1, <2>5, RunEffect
    <3> QED
      BY <2>2, <2>3, <3>1, OrphansKept DEF Same, Pending, Served, Gone
  <2> QED
    BY <2>4, <2>5
<1> QED
  BY <1>2, <1>3

LEMMA OrphanInductive ==
  ASSUME TypeInv, OrphanInv, [Next]_vars
  PROVE  OrphanInv'
<1>1. CASE UNCHANGED vars
  BY <1>1, OrphansKept DEF vars, OrphanInv, Pending, Served, Gone
<1>2. ASSUME NEW s \in Session, Materialise(s) \/ BootFails(s) \/ Serve(s) \/ Crash(s)
      PROVE  OrphanInv'
  <2>1. UNCHANGED <<req, session>>
    BY <1>2 DEF Materialise, BootFails, Serve, Crash, SetPhase
  <2>2. \A c \in Request : ~Run(c)
    BY <2>1, RunMoves
  <2> QED
    BY <2>1, <2>2, OrphansOfOthers DEF OrphanInv, Gone
<1>3. ASSUME NEW c \in Request, Only(c), OrphanOK(c)', ~Run(c), \A s \in Session : Gone(s) => Gone(s)'
      PROVE  OrphanInv'
  <2>1. \A d \in Request : ~Run(d)
    BY <1>3, RunMoves DEF Only
  <2> QED
    BY <1>3, <2>1, OrphansOfOthers DEF OrphanInv, Only
<1>4. ASSUME NEW c \in Request, RequestStep(c) PROVE OrphanInv'
  <2>1. UNCHANGED session
    BY <1>4, StepSession
  <2> QED
    BY <1>3, <1>4, <2>1, OrphanRun, OrphanStep, StepRequestOK DEF Gone
<1>5. ASSUME NEW c \in Request, Kill(c) \/ AskSweep(c) PROVE OrphanInv'
  <2>1. Only(c) /\ req'[c].orphans = {} /\ UNCHANGED session
    BY <1>5, FinishEffect, AskSweepEffect DEF Kill, AskSweep, Turns, Over, NoRequest
  <2> QED
    BY <1>3, <2>1, OrphanRun DEF OrphanOK, Gone
<1>6. ASSUME NEW c \in Request, NEW s \in Session,
             NEW op \in {"start", "stop", "restart", "status"}, NEW repo \in Mounts[s],
             Ask(c, s, op, repo)
      PROVE  OrphanInv'
  <2>1. Only(c) /\ req'[c].orphans = {} /\ UNCHANGED session /\ ~Run(c)
    BY <1>6, AskEffect DEF Ask, Run, InProgress
  <2> QED
    BY <1>3, <2>1 DEF OrphanOK, Gone
<1> QED
  BY <1>1, <1>2, <1>4, <1>5, <1>6, OrphanSession DEF Next

LEMMA OrphansInvariant == Spec => []OrphanInv
<1>1. ASSUME Init PROVE OrphanInv
  BY <1>1 DEF Init, OrphanInv, OrphanOK, NoRequest
<1>2. ASSUME TypeInv, OrphanInv, [Next]_vars PROVE OrphanInv'
  BY <1>2, OrphanInductive
<1> QED
  BY <1>1, <1>2, TypeInductive, PTL DEF Spec

\* NoOrphanSurvives: a lookup that is past its sweep leaves none of the servers
\* that had lost their session when it began, however many requests sweep, start
\* and stop at the same time, but for those that docker failed to list, to read
\* or to remove for it (cld-broker.py, sweep_gql_orphans).
THEOREM OrphansAreSwept == Spec => []NoOrphanSurvives
<1>1. ASSUME OrphanInv PROVE NoOrphanSurvives
  BY <1>1 DEF OrphanInv, OrphanOK, NoOrphanSurvives, Pending
<1> QED
  BY <1>1, OrphansInvariant, PTL

-----------------------------------------------------------------------------
(* Requests that do not overlap *)

Touches(c, s) == InProgress(c) /\ s \in {req[c].who, req[c].target}

\* Two requests that have to do with the same session make it a raced one.
AloneInv ==
  \A s \in Session \ raced : \A c, d \in Request : Touches(c, s) /\ Touches(d, s) => c = d

\* What a request took for granted about its session's server still holds.
PlaceOK(c) ==
  \A s \in Session \ raced :
    /\ req[c].pc = "clear" /\ req[c].next = "run" /\ req[c].who = s => ~IsRunning(s)
    /\ req[c].pc = "reap" /\ req[c].target = s => Gone(s)
    /\ req[c].pc = "swept" /\ req[c].target = s => ~Served(s) \/ s \in bereft
    /\ req[c].pc \in {"cleared", "stopped"} /\ req[c].who = s => ~Served(s) \/ s \in bereft

PlaceInv == \A c \in Request : PlaceOK(c)

\* Nobody else's request changes, but for its orphans.
LEMMA OthersStand ==
  ASSUME TypeInv, NEW c \in Request, RequestStep(c), NEW d \in Request \ {c}
  PROVE  /\ req'[d].pc = req[d].pc /\ req'[d].who = req[d].who /\ req'[d].target = req[d].target
         /\ req'[d].repo = req[d].repo /\ req'[d].label = req[d].label /\ req'[d].next = req[d].next
<1>1. CASE Run(c) /\ ~Served(req[c].who)
  <2>1. Same(d, req[c].who)
    BY <1>1, RunEffect
  <2> QED
    BY <2>1 DEF Same
<1>2. CASE Run(c) /\ Served(req[c].who)
  <2>1. Only(c)
    <3>1. Finish(c)
      BY <1>2 DEF Run, Create
    <3> QED
      BY <3>1, FinishEffect DEF Turns
  <2> QED
    BY <2>1 DEF Only
<1>3. CASE ~Run(c)
  BY <1>3, StepRequestOK DEF Only
<1> QED
  BY <1>1, <1>2, <1>3

\* A request takes up no other session but by finding an orphan to reap.
LEMMA StepTouches ==
  ASSUME TypeInv, NEW c \in Request, RequestStep(c)
  PROVE  /\ InProgress(c)
         /\ req'[c].who \in {req[c].who, "none"}
         /\ \/ req'[c].target \in {req[c].target, "none"} /\ UNCHANGED raced
            \/ \E s \in Session : /\ req'[c].target = s
                                 /\ raced' = IF Busy(s, c) THEN raced \cup {s} ELSE raced
<1> DEFINE Stays == /\ req'[c].who \in {req[c].who, "none"}
                    /\ req'[c].target \in {req[c].target, "none"}
<1>1. RequestOK(req[c]) /\ req[c] \in RequestRecord
  BY DEF TypeInv, RequestsOK
<1>2. ASSUME req' = [req EXCEPT ![c] = Over] PROVE Stays
  BY <1>2 DEF TypeInv, RequestsOK, Over, NoRequest
<1>3. ASSUME req[c].who \in Session, req' = [req EXCEPT ![c] = Status(req[c].who)] PROVE Stays
  BY <1>3, StatusOK DEF TypeInv, RequestsOK
<1>4. ASSUME NEW pc, NEW next, NEW target \in {req[c].target, "none"}, NEW label,
             Move(c, pc, next, target, label)
      PROVE  Stays
  BY <1>4 DEF Move, Keeps
<1>5. ASSUME NEW pc \in {"await", "cleared", "run", "stop"}, Goto(c, pc) PROVE Stays
  BY <1>4, <1>5, GotoEffect
<1>6. CASE SweepList(c)
  BY <1>6, SweepListEffect DEF Keeps, InProgress, SweepList, ghosts
<1>7. ASSUME NEW s \in Session, SweepCheck(c, s)
      PROVE  /\ InProgress(c) /\ req'[c].who = req[c].who
             /\ \/ req'[c].target = "none" /\ UNCHANGED raced
                \/ /\ req'[c].target = s
                   /\ raced' = IF Busy(s, c) THEN raced \cup {s} ELSE raced
  BY <1>7, SweepCheckEffect DEF Keeps, Takes, InProgress
<1>19. ASSUME NEW s \in Session, SweepSkips(c, s) PROVE InProgress(c) /\ Stays /\ UNCHANGED raced
  BY <1>19, SweepSkipsEffect DEF Keeps, InProgress, ghosts
<1>20. CASE LookFails(c)
  BY <1>5, <1>20 DEF LookFails, InProgress, ghosts
<1>21. CASE ReadsNoPort(c)
  BY <1>2, <1>21 DEF ReadsNoPort, Finish, InProgress
<1>8. CASE SweepRemove(c) \/ SweepForget(c)
  BY <1>4, <1>8, SweepRemoveEffect, SweepForgetEffect DEF InProgress, SweepForget
<1>9. CASE SweepEnds(c)
  BY <1>4, <1>9, SweepIsOverEffect, SweepGoesOnEffect DEF InProgress, SweepEnds, ghosts
<1>10. CASE Look(c)
  <2>1. req[c].pc = "look" /\ req[c].who \in Session /\ UNCHANGED raced
    BY <1>1, <1>10 DEF Look, RequestOK, Authorised, ghosts
  <2>2. \/ req' = [req EXCEPT ![c] = Over] \/ req' = [req EXCEPT ![c] = Status(req[c].who)]
        \/ req[c].repo \in Configured /\ ~IsRunning(req[c].who)
    BY <1>10 DEF Look
  <2>3. Stays
    BY <1>2, <1>3, <1>4, <1>10, <2>1, <2>2, LookClearsEffect, LookRunsEffect
  <2> QED
    BY <2>1, <2>3 DEF InProgress
<1>11. CASE Clear(c)
  BY <1>5, <1>11 DEF Clear, InProgress
<1>12. CASE ClearForget(c)
  <2>1. req[c].pc = "cleared" /\ UNCHANGED raced /\ (Finish(c) \/ Goto(c, "run"))
    BY <1>1, <1>12 DEF ClearForget, RequestOK, RequestRecord, ghosts
  <2> QED
    BY <1>2, <1>5, <2>1 DEF InProgress, Finish
<1>13. CASE Run(c)
  <2>1. req[c].pc = "run" /\ UNCHANGED raced
    BY <1>13 DEF Run, ghosts
  <2>2. ASSUME Served(req[c].who) PROVE Stays
    <3>1. req' = [req EXCEPT ![c] = Over]
      BY <1>13, <2>2 DEF Run, Create, Finish
    <3> QED
      BY <1>2, <3>1
  <2>3. ASSUME ~Served(req[c].who) PROVE Stays
    <3>1. \/ req'[c].who = req[c].who /\ req'[c].target = req[c].target
          \/ req'[c].who = "none" /\ req'[c].target = "none"
      BY <1>13, <2>3, RunEffect DEF Keeps
    <3> QED
      BY <3>1
  <2> QED
    BY <2>1, <2>2, <2>3 DEF InProgress
<1>14. CASE ReadPort(c)
  BY <1>2, <1>5, <1>14 DEF ReadPort, Finish, InProgress, ghosts
<1>15. CASE SeesDead(c) \/ StopRemove(c)
  BY <1>4, <1>15, SeesDeadEffect, StopRemoveEffect DEF InProgress, SeesDead, ghosts
<1>16. CASE SeesUp(c)
  BY <1>1, <1>3, <1>16 DEF SeesUp, RequestOK, Authorised, InProgress, ghosts
<1>17. CASE TimeOut(c)
  BY <1>5, <1>17 DEF TimeOut, Goto, InProgress, ghosts
<1>18. CASE StopForget(c)
  <2>1. req[c].pc = "stopped" /\ UNCHANGED raced
    BY <1>18 DEF StopForget, ghosts
  <2>2. CASE req[c].next = "look"
    BY <1>4, <1>18, <2>1, <2>2, StopRestartsEffect DEF InProgress
  <2>3. CASE req[c].next # "look"
    BY <1>2, <1>18, <2>1, <2>3 DEF StopForget, InProgress
  <2> QED
    BY <2>2, <2>3
<1> HIDE DEF Stays
<1>22. CASE \/ SweepList(c) \/ (\E s \in Session : SweepCheck(c, s) \/ SweepSkips(c, s)) \/ SweepRemove(c)
            \/ SweepForget(c) \/ SweepEnds(c) \/ Look(c) \/ LookFails(c)
  BY <1>6, <1>7, <1>8, <1>9, <1>10, <1>19, <1>20, <1>22 DEF Stays
<1>23. CASE \/ Clear(c) \/ ClearForget(c) \/ Run(c) \/ ReadPort(c) \/ ReadsNoPort(c) \/ SeesDead(c)
            \/ SeesUp(c) \/ TimeOut(c) \/ StopRemove(c) \/ StopForget(c)
  BY <1>11, <1>12, <1>13, <1>14, <1>15, <1>16, <1>17, <1>18, <1>21, <1>23 DEF Stays
<1> QED
  BY <1>22, <1>23 DEF RequestStep

LEMMA AloneInductive ==
  ASSUME TypeInv, AloneInv, [Next]_vars
  PROVE  AloneInv' /\ raced \subseteq raced'
<1>1. \A s \in Session : s # "none"
  BY BrokerAssumption
<1>2. ASSUME UNCHANGED req, raced \subseteq raced' PROVE AloneInv'
  BY <1>2 DEF AloneInv, Touches, InProgress
<1>3. ASSUME NEW c \in Request, NEW s \in Session, Only(c), req'[c].who = s, req'[c].target = "none",
             raced' = IF Busy(s, c) THEN raced \cup {s} ELSE raced
      PROVE  AloneInv'
  <2> SUFFICES ASSUME NEW t \in Session \ raced', NEW a \in Request, NEW b \in Request,
                      Touches(a, t)', Touches(b, t)'
               PROVE  a = b
    BY DEF AloneInv
  <2>1. t \in Session \ raced
    BY <1>3
  <2>2. \A d \in Request \ {c} : Touches(d, t)' => Touches(d, t)
    BY <1>3 DEF Only, Touches, InProgress
  <2>3. Touches(c, t)' => t = s
    BY <1>1, <1>3 DEF Touches
  <2>4. ASSUME NEW d \in Request \ {c}, Touches(d, s), t = s PROVE FALSE
    BY <1>3, <2>4 DEF Busy, Touches
  <2> QED
    BY <2>1, <2>2, <2>3, <2>4 DEF AloneInv
<1>4. ASSUME NEW c \in Request, Only(c), ~InProgress(c)' \/ (req'[c].who = "none" /\ req'[c].target = "none"),
             UNCHANGED raced
      PROVE  AloneInv'
  <2>1. \A d \in Request, s \in Session : Touches(d, s)' => Touches(d, s)
    BY <1>1, <1>4 DEF Only, Touches, InProgress
  <2> QED
    BY <1>4, <2>1 DEF AloneInv
<1>5. ASSUME NEW s \in Session, Relaunch(s) PROVE AloneInv' /\ raced \subseteq raced'
  <2>1. \A d \in Request : Same(d, s)
    BY <1>5, RelaunchEffect
  <2>2. \A d \in Request, t \in Session : Touches(d, t)' = Touches(d, t)
    BY <2>1 DEF Same, Touches, InProgress
  <2>3. raced \subseteq raced'
    BY <1>5 DEF Relaunch
  <2> QED
    BY <2>2, <2>3 DEF AloneInv
<1>6. ASSUME NEW s \in Session, Pause(s) \/ Resume(s) \/ Remove(s) \/ Materialise(s) \/ BootFails(s)
                               \/ Serve(s) \/ Crash(s)
      PROVE  UNCHANGED <<req, raced>>
  BY <1>6 DEF Pause, Resume, Remove, Materialise, BootFails, Serve, Crash, SetPhase, ghosts
<1>7. ASSUME NEW c \in Request, NEW s \in Session,
             NEW op \in {"start", "stop", "restart", "status"}, NEW repo \in Mounts[s],
             Ask(c, s, op, repo)
      PROVE  AloneInv' /\ raced \subseteq raced'
  <2>1. raced' = IF Busy(s, c) THEN raced \cup {s} ELSE raced
    BY <1>7 DEF Ask
  <2> QED
    BY <1>3, <1>7, <2>1, AskEffect
<1>8. ASSUME NEW c \in Request, AskSweep(c) PROVE AloneInv' /\ raced \subseteq raced'
  <2>1. UNCHANGED raced
    BY <1>8 DEF AskSweep, ghosts
  <2> QED
    BY <1>4, <1>8, <2>1, AskSweepEffect
<1>9. ASSUME NEW c \in Request, Kill(c) PROVE AloneInv' /\ raced \subseteq raced'
  <2>1. UNCHANGED raced /\ Only(c) /\ req'[c].pc = "over"
    BY <1>9, FinishEffect DEF Kill, Turns, Over, NoRequest
  <2> QED
    BY <1>4, <2>1 DEF InProgress
<1>10. ASSUME NEW c \in Request, RequestStep(c) PROVE AloneInv' /\ raced \subseteq raced'
  <2>1. \A d \in Request \ {c}, t \in Session : Touches(d, t)' = Touches(d, t)
    BY <1>10, OthersStand DEF Touches, InProgress
  <2>2. CASE req'[c].target \in {req[c].target, "none"} /\ UNCHANGED raced
    <3>1. \A t \in Session : Touches(c, t)' => Touches(c, t)
      BY <1>1, <1>10, <2>2, StepTouches DEF Touches
    <3> QED
      BY <2>1, <2>2, <3>1 DEF AloneInv
  <2>3. ASSUME NEW s \in Session, req'[c].target = s,
               raced' = IF Busy(s, c) THEN raced \cup {s} ELSE raced
        PROVE  AloneInv' /\ raced \subseteq raced'
    <3>1. raced' = IF Busy(s, c) THEN raced \cup {s} ELSE raced
      BY <2>3
    <3>2. \A t \in Session : Touches(c, t)' => Touches(c, t) \/ t = s
      BY <1>1, <1>10, <2>3, StepTouches DEF Touches
    <3>3. ASSUME NEW d \in Request \ {c}, Touches(d, s) PROVE s \in raced'
      BY <3>1, <3>3 DEF Busy, Touches
    <3> QED
      BY <2>1, <3>1, <3>2, <3>3 DEF AloneInv
  <2> QED
    BY <1>10, <2>2, <2>3, StepTouches
<1> QED
  BY <1>2, <1>5, <1>6, <1>7, <1>8, <1>9, <1>10 DEF Next, vars

\* What a request took for granted holds on as long as it stays where it is and
\* nothing is started or brought back under its session's name.
LEMMA PlaceKept ==
  ASSUME TypeInv, PlaceInv, NEW d \in Request, raced \subseteq raced',
         req'[d].pc = req[d].pc, req'[d].who = req[d].who, req'[d].target = req[d].target,
         req'[d].next = req[d].next,
         \A s \in Session \ raced' : Touches(d, s) =>
           /\ Gone(s) => Gone(s)' \/ req[d].target # s
           /\ Served(s)' => Served(s)
           /\ IsRunning(s)' => IsRunning(s)
           /\ Served(s)' /\ s \notin bereft' => s \notin bereft
  PROVE  PlaceOK(d)'
BY DEF PlaceInv, PlaceOK, Touches, InProgress

\* Where a request takes nothing for granted.
LEMMA PlaceFree ==
  ASSUME TypeInv, NEW c \in Request,
         req'[c].pc \in {"over", "sweep", "pick", "misled", "look", "run", "port", "await", "stop"}
  PROVE  PlaceOK(c)'
BY DEF PlaceOK

\* Whoever has removed a server serves it no more, unless docker refused.
LEMMA Removed ==
  ASSUME TypeInv, NEW t \in Session, Removes(t)
  PROVE  ~Served(t)' \/ t \in bereft'
BY RemovalEffect

LEMMA PlaceStep ==
  ASSUME TypeInv, PlaceInv, NEW c \in Request, RequestStep(c)
  PROVE  PlaceOK(c)'
<1>1. RequestOK(req[c]) /\ req[c] \in RequestRecord
  BY DEF TypeInv, RequestsOK
<1>2. ASSUME req' = [req EXCEPT ![c] = Over] PROVE PlaceOK(c)'
  BY <1>2, PlaceFree DEF TypeInv, RequestsOK, Over, NoRequest
<1>3. ASSUME req[c].who \in Session, req' = [req EXCEPT ![c] = Status(req[c].who)] PROVE PlaceOK(c)'
  BY <1>3, StatusOK, PlaceFree DEF TypeInv, RequestsOK
<1>4. ASSUME NEW pc, NEW next, NEW target, NEW label, Move(c, pc, next, target, label)
      PROVE  /\ req'[c].pc = pc /\ req'[c].who = req[c].who /\ req'[c].target = target
             /\ req'[c].next = next
  BY <1>4 DEF Move, Keeps
<1>5. CASE SweepList(c)
  BY <1>5, SweepListEffect, PlaceFree DEF Keeps
<1>6. ASSUME NEW s \in Session, SweepCheck(c, s) PROVE PlaceOK(c)'
  <2>1. CASE req'[c].pc \in {"pick", "misled"}
    BY <1>6, <2>1, PlaceFree
  <2>2. CASE ~(req'[c].pc \in {"pick", "misled"})
    <3>1. req'[c].pc = "reap" /\ req'[c].target = s /\ UNCHANGED session /\ Gone(s)
      BY <1>6, <2>2, SweepCheckEffect DEF Keeps, Takes
    <3> QED
      BY <3>1 DEF PlaceOK, Gone
  <2> QED
    BY <2>1, <2>2
<1>20. ASSUME NEW s \in Session, SweepSkips(c, s) PROVE PlaceOK(c)'
  BY <1>20, SweepSkipsEffect, PlaceFree DEF Keeps
<1>21. CASE LookFails(c)
  BY <1>4, <1>21, GotoEffect, PlaceFree DEF LookFails
<1>22. CASE ReadsNoPort(c)
  BY <1>2, <1>22 DEF ReadsNoPort, Finish
<1>7. CASE SweepRemove(c)
  <2>1. PICK s \in Session : s = req[c].target
    BY <1>1, <1>7 DEF SweepRemove, RequestOK
  <2>2. req'[c].pc = "swept" /\ req'[c].target = s
    BY <1>4, <1>7, <2>1, SweepRemoveEffect
  <2>3. ~Served(s)' \/ s \in bereft'
    BY <1>7, <2>1, SweepRemoveEffect, Removed DEF Removes
  <2> QED
    BY <2>2, <2>3 DEF PlaceOK
<1>8. CASE SweepForget(c)
  BY <1>4, <1>8, SweepForgetEffect, PlaceFree
<1>9. CASE SweepEnds(c)
  <2>1. req[c].next \in {"over", "look"}
    BY <1>1, <1>9 DEF SweepEnds, RequestOK, SweepPcs, RequestRecord
  <2> QED
    BY <1>4, <1>9, <2>1, SweepIsOverEffect, SweepGoesOnEffect, PlaceFree
<1>10. CASE Look(c)
  <2>1. req[c].pc = "look" /\ req[c].who \in Session /\ UNCHANGED server
    BY <1>1, <1>10 DEF Look, RequestOK, Authorised
  <2>2. CASE \/ req' = [req EXCEPT ![c] = Over] \/ req' = [req EXCEPT ![c] = Status(req[c].who)]
    BY <1>2, <1>3, <2>1, <2>2
  <2>3. CASE req[c].repo \in Configured /\ ~IsRunning(req[c].who) /\ Served(req[c].who)
    BY <1>4, <1>10, <2>1, <2>3, LookClearsEffect DEF PlaceOK, IsRunning
  <2>4. CASE req[c].repo \in Configured /\ ~IsRunning(req[c].who) /\ ~Served(req[c].who)
    BY <1>4, <1>10, <2>1, <2>4, LookRunsEffect, PlaceFree
  <2> QED
    BY <1>10, <2>2, <2>3, <2>4 DEF Look
<1>11. CASE Clear(c)
  <2>1. PICK s \in Session : s = req[c].who
    BY <1>1, <1>11 DEF Clear, RequestOK, Authorised
  <2>2. req'[c].pc = "cleared" /\ req'[c].who = s
    BY <1>4, <1>11, <2>1, GotoEffect DEF Clear
  <2>3. ~Served(s)' \/ s \in bereft'
    BY <1>11, <2>1, Removed DEF Clear, RemoveContainer, Removes
  <2> QED
    BY <2>2, <2>3 DEF PlaceOK
<1>12. CASE ClearForget(c)
  <2>1. Finish(c) \/ Goto(c, "run")
    BY <1>1, <1>12 DEF ClearForget, RequestOK, RequestRecord
  <2>2. CASE Goto(c, "run")
    BY <1>4, <2>2, GotoEffect, PlaceFree
  <2> QED
    BY <1>2, <2>1, <2>2 DEF Finish
<1>13. CASE Run(c)
  BY <1>13, RunMoves, PlaceFree
<1>14. CASE ReadPort(c)
  BY <1>2, <1>4, <1>14, GotoEffect, PlaceFree DEF ReadPort, Finish
<1>15. CASE SeesDead(c)
  <2>1. req'[c].pc = "clear" /\ req'[c].next = "over"
    BY <1>4, <1>15, SeesDeadEffect
  <2> QED
    BY <2>1 DEF PlaceOK
<1>16. CASE SeesUp(c)
  BY <1>1, <1>3, <1>16 DEF SeesUp, RequestOK, Authorised
<1>17. CASE TimeOut(c)
  BY <1>4, <1>17, GotoEffect, PlaceFree DEF TimeOut, Goto
<1>18. CASE StopRemove(c)
  <2>1. PICK s \in Session : s = req[c].who
    BY <1>1, <1>18 DEF StopRemove, RequestOK, Authorised
  <2>2. req'[c].pc = "stopped" /\ req'[c].who = s
    BY <1>4, <1>18, <2>1, StopRemoveEffect
  <2>3. ~Served(s)' \/ s \in bereft'
    BY <1>18, <2>1, StopRemoveEffect, Removed DEF Removes
  <2> QED
    BY <2>2, <2>3 DEF PlaceOK
<1>19. CASE StopForget(c)
  <2>1. CASE req[c].next = "look"
    BY <1>4, <1>19, <2>1, StopRestartsEffect, PlaceFree
  <2>2. CASE req[c].next # "look"
    BY <1>2, <1>19, <2>2 DEF StopForget
  <2> QED
    BY <2>1, <2>2
<1>23. CASE \/ SweepList(c) \/ (\E s \in Session : SweepCheck(c, s) \/ SweepSkips(c, s)) \/ SweepRemove(c)
            \/ SweepForget(c) \/ SweepEnds(c) \/ Look(c) \/ LookFails(c)
  BY <1>5, <1>6, <1>7, <1>8, <1>9, <1>10, <1>20, <1>21, <1>23
<1>24. CASE \/ Clear(c) \/ ClearForget(c) \/ Run(c) \/ ReadPort(c) \/ ReadsNoPort(c) \/ SeesDead(c)
            \/ SeesUp(c) \/ TimeOut(c) \/ StopRemove(c) \/ StopForget(c)
  BY <1>11, <1>12, <1>13, <1>14, <1>15, <1>16, <1>17, <1>18, <1>19, <1>22, <1>24
<1> QED
  BY <1>23, <1>24 DEF RequestStep

LEMMA PlaceInductive ==
  ASSUME TypeInv, AloneInv, PlaceInv, [Next]_vars
  PROVE  PlaceInv'
<1>1. raced \subseteq raced'
  BY AloneInductive
<1>2. session \in [Session -> {"absent", "stopped", "running"}] /\ "none" \notin Session
  BY BrokerAssumption DEF TypeInv
<1>3. ASSUME UNCHANGED <<session, server, bereft, req>> PROVE PlaceInv'
  BY <1>1, <1>3, PlaceKept DEF PlaceInv, Gone, Served, IsRunning
<1>4. ASSUME NEW c \in Request, Only(c), PlaceOK(c)', UNCHANGED <<session, server, bereft>>
      PROVE  PlaceInv'
  <2>1. ASSUME NEW d \in Request \ {c} PROVE PlaceOK(d)'
    BY <1>1, <1>4, <2>1, PlaceKept DEF Only, Gone, Served, IsRunning
  <2> QED
    BY <1>4, <2>1 DEF PlaceInv
<1>5. ASSUME NEW s \in Session, Pause(s) \/ Resume(s) \/ Remove(s) PROVE PlaceInv'
  <2>1. UNCHANGED <<server, bereft, req>> /\ \A t \in Session : Gone(t) => Gone(t)'
    BY <1>2, <1>5 DEF Pause, Resume, Remove, SetSession, Gone
  <2> QED
    BY <1>1, <2>1, PlaceKept DEF PlaceInv, Served, IsRunning
<1>6. ASSUME NEW s \in Session, Relaunch(s) PROVE PlaceInv'
  <2>1. UNCHANGED <<server, bereft>> /\ \A t \in Session \ {s} : session'[t] = session[t]
    BY <1>2, <1>6 DEF Relaunch, SetSession
  <2>2. ASSUME NEW d \in Request PROVE PlaceOK(d)'
    <3>1. Same(d, s)
      BY <1>6, RelaunchEffect
    <3>2. Touches(d, s) /\ req[d].target = s => s \in raced'
      BY <1>6 DEF Relaunch, Touches
    <3> QED
      BY <1>1, <2>1, <3>1, <3>2, PlaceKept DEF Same, Gone, Served, IsRunning
  <2> QED
    BY <2>2 DEF PlaceInv
<1>7. ASSUME NEW s \in Session, Materialise(s) \/ BootFails(s) \/ Serve(s) \/ Crash(s)
      PROVE  PlaceInv'
  <2>1. UNCHANGED <<req, session>>
    BY <1>7 DEF Materialise, BootFails, Serve, Crash, SetPhase
  <2>2. \A c \in Request : ~Run(c)
    BY <2>1, RunMoves
  <2> QED
    BY <1>1, <2>1, <2>2, NothingServedAnew, PlaceKept DEF PlaceInv, Gone
<1>8. ASSUME NEW c \in Request, NEW s \in Session,
             NEW op \in {"start", "stop", "restart", "status"}, NEW repo \in Mounts[s],
             Ask(c, s, op, repo)
      PROVE  PlaceInv'
  BY <1>4, <1>8, AskEffect, PlaceFree DEF Ask
<1>9. ASSUME NEW c \in Request, AskSweep(c) PROVE PlaceInv'
  BY <1>4, <1>9, AskSweepEffect, PlaceFree DEF AskSweep, ghosts
<1>10. ASSUME NEW c \in Request, Kill(c) PROVE PlaceInv'
  <2>1. Only(c) /\ req'[c].pc = "over"
    BY <1>10, FinishEffect DEF Kill, Turns, Over, NoRequest
  <2> QED
    BY <1>4, <1>10, <2>1, PlaceFree DEF Kill
<1>11. ASSUME NEW c \in Request, RequestStep(c) PROVE PlaceInv'
  <2> SUFFICES ASSUME NEW d \in Request \ {c} PROVE PlaceOK(d)'
    BY <1>11, PlaceStep DEF PlaceInv
  <2>1. UNCHANGED session
    BY <1>11, StepSession
  <2>2. /\ req'[d].pc = req[d].pc /\ req'[d].who = req[d].who /\ req'[d].target = req[d].target
        /\ req'[d].next = req[d].next
    BY <1>11, OthersStand
  <2>3. ASSUME NEW s \in Session \ raced', Touches(d, s)
        PROVE  /\ (Served(s)' => Served(s)) /\ (IsRunning(s)' => IsRunning(s))
               /\ Served(s)' /\ s \notin bereft' => s \notin bereft
    <3>1. CASE Run(c)
      <4>1. req[c].who \in Session /\ Touches(c, req[c].who)
        BY <3>1 DEF TypeInv, RequestsOK, RequestOK, Authorised, Run, Touches, InProgress
      <4>2. req[c].who # s
        BY <1>1, <2>3, <4>1 DEF AloneInv
      <4>3. server'[s] = server[s] /\ UNCHANGED bereft
        BY <3>1, <4>1, <4>2 DEF Run, Create, ghosts, TypeInv, ServersOK
      <4> QED
        BY <4>3 DEF Served, IsRunning
    <3>2. CASE ~Run(c)
      <4>1. \A e \in Request : ~Run(e)
        BY <1>11, <3>2, StepRequestOK, RunMoves DEF Only
      <4> QED
        BY <4>1, NothingServedAnew
    <3> QED
      BY <3>1, <3>2
  <2> QED
    BY <1>1, <2>1, <2>2, <2>3, PlaceKept DEF Gone
<1> QED
  BY <1>3, <1>5, <1>6, <1>7, <1>8, <1>9, <1>10, <1>11 DEF Next, vars

LEMMA PlaceInvariant == Spec => [](AloneInv /\ PlaceInv)
<1>1. ASSUME Init PROVE AloneInv /\ PlaceInv
  BY <1>1 DEF Init, AloneInv, PlaceInv, PlaceOK, Touches, InProgress, NoRequest
<1>2. ASSUME TypeInv, AloneInv /\ PlaceInv, [Next]_vars PROVE (AloneInv /\ PlaceInv)'
  BY <1>2, AloneInductive, PlaceInductive
<1> QED
  BY <1>1, <1>2, TypeInductive, PTL DEF Spec

\* ServersSurvive: a healthy server of a session that exists is removed only by a
\* stop or restart its session asked for, by the start that gave it up (no answer
\* in time, no port, or seen dead), or by a sweep on which docker inspect failed,
\* as long as no two requests met over the session (cld-broker.py,
\* sweep_gql_orphans, do_graphql_start).
THEOREM HealthyServersStay == Spec => ServersSurvive
<1>1. ASSUME TypeInv, PlaceInv, NEW s \in Session \ raced, NEW c \in Request, RequestStep(c),
             server[s].phase = "up", ~Gone(s), server'[s] = NoServer
      PROVE  GivenUp(c, s) \/ Misled(c, s)
  <2>1. NoServer.phase = "none" /\ RequestOK(req[c]) /\ PlaceOK(c)
    BY <1>1 DEF NoServer, TypeInv, RequestsOK, PlaceInv
  <2>2. ASSUME NEW t \in Session, Removes(t) PROVE t = s
    BY <1>1, <2>1, <2>2, RemovalEffect
  <2>3. CASE SweepRemove(c)
    <3>1. req[c].pc \in {"reap", "misled"} /\ req[c].target = s
      BY <1>1, <2>2, <2>3, SweepRemoveEffect DEF Removes
    <3> QED
      BY <1>1, <2>1, <3>1 DEF PlaceOK, Misled
  <2>4. CASE Clear(c)
    <3>1. req[c].who \in Session /\ req[c].pc = "clear"
      BY <2>1, <2>4 DEF Clear, RequestOK, Authorised
    <3>2. req[c].who = s /\ req[c].next \in {"over", "run"}
      BY <2>1, <2>2, <2>4, <3>1 DEF Clear, RemoveContainer, Removes, RequestOK, RequestRecord
    <3> QED
      BY <1>1, <2>1, <3>1, <3>2 DEF PlaceOK, IsRunning, GivenUp
  <2>5. CASE StopRemove(c)
    <3>1. req[c].pc = "stop" /\ req[c].who = s
      BY <1>1, <2>2, <2>5, StopRemoveEffect DEF Removes
    <3> QED
      BY <3>1 DEF GivenUp
  <2>6. CASE ReadsNoPort(c)
    <3>1. req[c].who \in Session /\ req[c].pc = "port"
      BY <2>1, <2>6 DEF ReadsNoPort, RequestOK, Authorised
    <3>2. req[c].who = s
      BY <2>2, <2>6, <3>1 DEF ReadsNoPort, Removes
    <3> QED
      BY <3>1, <3>2 DEF GivenUp
  <2>7. CASE Run(c)
    <3>1. CASE Served(req[c].who)
      BY <1>1, <2>1, <2>7, <3>1 DEF Run, Create
    <3>2. CASE ~Served(req[c].who)
      <4>1. /\ req[c].who \in Session /\ req[c].who # s
            /\ server \in [Session -> [phase : {"none", "boot", "install", "up", "exited"},
                                       repo : Repo \cup {NoRepo}]]
        BY <1>1, <2>1, <2>7, <3>2 DEF Run, RequestOK, Authorised, Served, TypeInv, ServersOK
      <4>2. server'[s] = server[s]
        BY <1>1, <2>7, <3>2, <4>1, RunEffect
      <4> QED
        BY <1>1, <2>1, <4>2
    <3> QED
      BY <3>1, <3>2
  <2>8. CASE UNCHANGED server
    BY <1>1, <2>1, <2>8
  <2>9. CASE SweepList(c) \/ (\E t \in Session : SweepCheck(c, t) \/ SweepSkips(c, t)) \/ SweepForget(c)
             \/ SweepEnds(c)
    BY <2>8, <2>9 DEF SweepList, SweepCheck, SweepSkips, SweepForget, SweepEnds
  <2>10. CASE Look(c) \/ LookFails(c) \/ ClearForget(c) \/ ReadPort(c) \/ SeesDead(c) \/ SeesUp(c)
             \/ TimeOut(c) \/ StopForget(c)
    BY <2>8, <2>10 DEF Look, LookFails, ClearForget, ReadPort, SeesDead, SeesUp, TimeOut, StopForget
  <2> QED
    BY <1>1, <2>3, <2>4, <2>5, <2>6, <2>7, <2>9, <2>10 DEF RequestStep
<1>2. ASSUME TypeInv, [Next]_vars, NEW s \in Session, server[s].phase = "up", server'[s] = NoServer
      PROVE  \E c \in Request : RequestStep(c)
  <2>1. server'[s].phase = "none" /\ server[s].phase # "none" /\ server' # server
    BY <1>2 DEF NoServer
  <2>2. ASSUME NEW t \in Session, Materialise(t) \/ BootFails(t) \/ Serve(t) \/ Crash(t) PROVE FALSE
    <3>1. Served(t)
      BY <2>2 DEF Materialise, BootFails, Serve, Crash, IsRunning, Served
    <3>2. \E phase \in {"install", "exited", "up"} : SetPhase(t, phase)
      BY <2>2 DEF Materialise, BootFails, Serve, Crash
    <3> QED
      BY <1>2, <2>1, <3>1, <3>2, ContainerType
  <2> QED
    BY <1>2, <2>1, <2>2 DEF Next, vars, Pause, Resume, Remove, Relaunch, SetSession, Ask, AskSweep, Kill
<1>3. ASSUME TypeInv, PlaceInv, [Next]_vars
      PROVE  [\A s \in Session \ raced :
                server[s].phase = "up" /\ ~Gone(s) /\ server'[s] = NoServer
                  => \E c \in Request : GivenUp(c, s) \/ Misled(c, s)]_vars
  BY <1>1, <1>2, <1>3
<1> QED
  BY <1>3, TypeInductive, PlaceInvariant, PTL DEF Spec, ServersSurvive

-----------------------------------------------------------------------------
(* Workspaces are owned *)

\* A workspace that is not lost track of has its server, or a request that will
\* forget it.
Accounted(s, r) ==
  <<s, r>> \in ws \ leaked => server[s].repo = r \/ \E c \in Request : Owed(c, s, r)

OwnInv == \A s \in Session, r \in Repo : Accounted(s, r)

LEMMA AccountedKept ==
  ASSUME NEW s \in Session, NEW r \in Repo, Accounted(s, r),
         <<s, r>> \in ws' \ leaked' => <<s, r>> \in ws \ leaked,
         server'[s].repo = server[s].repo \/ server[s].repo # r,
         \A c \in Request : Owed(c, s, r) => Owed(c, s, r)'
  PROVE  Accounted(s, r)'
BY DEF Accounted

\* What the requests that took no step owe, they still owe.
LEMMA OwedByOthers ==
  ASSUME TypeInv, NEW c \in Request, RequestStep(c), NEW d \in Request \ {c}, NEW s, NEW r
  PROVE  Owed(d, s, r)' <=> Owed(d, s, r)
BY OthersStand DEF Owed

\* A request that removes a server will forget its workspace, or has leaked it.
LEMMA OwnRemoval ==
  ASSUME TypeInv, OwnInv, NEW c \in Request, RequestStep(c), UNCHANGED ws,
         ~(req[c].pc \in {"cleared", "stopped", "swept"}),
         NEW t \in Session, NEW repo, Drop(t, repo) \/ Refuse(t), repo \in Repo => Owed(c, t, repo)',
         NEW s \in Session, NEW r \in Repo
  PROVE  Accounted(s, r)'
<1>1. \A d \in Request : Owed(d, s, r) => Owed(d, s, r)'
  BY OwedByOthers DEF Owed
<1>2. Accounted(s, r) /\ leaked \subseteq leaked' /\ Removes(t)
  BY DEF OwnInv, Drop, Refuse, Removes
<1>3. CASE s # t \/ server[s].repo # r \/ Refuse(t)
  <2>1. server'[s].repo = server[s].repo \/ server[s].repo # r
    <3>1. CASE s # t
      BY <1>2, <3>1, RemovalEffect
    <3>2. CASE Refuse(t)
      <4>1. PICK phase \in {server[t].phase, "exited"} : server' = [server EXCEPT ![t].phase = phase]
        BY <3>2 DEF Refuse
      <4> QED
        BY <4>1 DEF TypeInv, ServersOK
    <3> QED
      BY <1>3, <3>1, <3>2
  <2> QED
    BY <1>1, <1>2, <2>1, AccountedKept
<1>4. CASE Drop(t, repo) /\ s = t /\ server[s].repo = r
  <2> SUFFICES ASSUME <<s, r>> \in ws' \ leaked' PROVE Owed(c, s, r)'
    BY DEF Accounted
  <2>1. r = repo
    BY <1>4 DEF Drop, Mine
  <2> QED
    BY <1>4, <2>1
<1> QED
  BY <1>3, <1>4

\* Request c owes one workspace at most.
OwesOnly(c, t, repo) == \A u, r : Owed(c, u, r) => u = t /\ r = repo

\* What a request has forgotten, or tried to, it owes no more.
LEMMA OwnForget ==
  ASSUME TypeInv, OwnInv, NEW c \in Request, RequestStep(c), UNCHANGED server,
         NEW t, NEW repo, Forget(t, repo), OwesOnly(c, t, repo),
         NEW s \in Session, NEW r \in Repo
  PROVE  Accounted(s, r)'
<1>1. Accounted(s, r) /\ ws' \ leaked' = (ws \ leaked) \ {<<t, repo>>}
  BY ForgetEffect DEF OwnInv
<1>2. CASE s = t /\ r = repo
  BY <1>1, <1>2 DEF Accounted
<1>3. CASE ~(s = t /\ r = repo)
  <2>1. \A d \in Request : Owed(d, s, r) => Owed(d, s, r)'
    BY <1>3, OwedByOthers DEF OwesOnly
  <2> QED
    BY <1>1, <2>1, AccountedKept
<1> QED
  BY <1>2, <1>3

LEMMA OwnStep ==
  ASSUME TypeInv, OwnInv, NEW c \in Request, RequestStep(c), NEW s \in Session, NEW r \in Repo
  PROVE  Accounted(s, r)'
<1>1. RequestOK(req[c]) /\ Accounted(s, r)
  BY DEF TypeInv, RequestsOK, OwnInv
<1>2. CASE SweepRemove(c)
  <2>1. PICK label, t :
          /\ t \in Session /\ t = req[c].target /\ Move(c, "swept", req[c].next, t, label)
          /\ Drop(t, label) \/ Refuse(t)
    BY <1>2, SweepRemoveEffect
  <2>2. Owed(c, t, label)'
    BY <2>1 DEF Move, Keeps, Owed
  <2>3. UNCHANGED ws /\ req[c].pc \in {"reap", "misled"}
    BY <1>2, SweepRemoveEffect
  <2> QED
    BY <2>1, <2>2, <2>3, OwnRemoval
<1>3. CASE Clear(c)
  <2>1. PICK t, repo : t \in Session /\ t = req[c].who /\ repo = req[c].repo
    BY <1>1, <1>3 DEF Clear, RequestOK, Authorised
  <2>2. req[c].pc = "clear" /\ UNCHANGED ws /\ Goto(c, "cleared")
    BY <1>3 DEF Clear
  <2>3. Owed(c, t, repo)'
    BY <2>1, <2>2, GotoEffect DEF Move, Keeps, Owed
  <2>4. Drop(t, repo) \/ Refuse(t)
    BY <1>3, <2>1 DEF Clear, RemoveContainer
  <2> QED
    BY <2>1, <2>2, <2>3, <2>4, OwnRemoval
<1>4. CASE StopRemove(c)
  <2>1. PICK t, repo :
          /\ t \in Session /\ t = req[c].who /\ Move(c, "stopped", req[c].next, req[c].target, repo)
          /\ Drop(t, repo) \/ Refuse(t)
    BY <1>4, StopRemoveEffect
  <2>2. Owed(c, t, repo)'
    BY <2>1 DEF Move, Keeps, Owed
  <2>3. UNCHANGED ws /\ req[c].pc = "stop"
    BY <1>4, StopRemoveEffect
  <2> QED
    BY <2>1, <2>2, <2>3, OwnRemoval
<1>5. CASE ReadsNoPort(c)
  <2>1. req[c].who \in Session /\ req[c].pc = "port" /\ UNCHANGED ws /\ NoRepo \notin Repo
    BY <1>1, <1>5, BrokerAssumption DEF ReadsNoPort, RequestOK, Authorised, NoRepo
  <2>2. Drop(req[c].who, NoRepo) \/ Refuse(req[c].who)
    BY <1>5 DEF ReadsNoPort
  <2> QED
    BY <2>1, <2>2, OwnRemoval
<1>6. CASE SweepForget(c)
  <2>1. req[c].pc = "swept" /\ Forget(req[c].target, req[c].label) /\ UNCHANGED server
    BY <1>6 DEF SweepForget
  <2>2. OwesOnly(c, req[c].target, req[c].label)
    BY <2>1 DEF Owed, OwesOnly
  <2> QED
    BY <2>1, <2>2, OwnForget
<1>7. CASE ClearForget(c)
  <2>1. req[c].pc = "cleared" /\ Forget(req[c].who, req[c].repo) /\ UNCHANGED server
    BY <1>7 DEF ClearForget
  <2>2. OwesOnly(c, req[c].who, req[c].repo)
    BY <2>1 DEF Owed, OwesOnly
  <2> QED
    BY <2>1, <2>2, OwnForget
<1>8. CASE StopForget(c)
  <2>1. req[c].pc = "stopped" /\ Forget(req[c].who, req[c].label) /\ UNCHANGED server
    BY <1>8 DEF StopForget
  <2>2. OwesOnly(c, req[c].who, req[c].label)
    BY <2>1 DEF Owed, OwesOnly
  <2> QED
    BY <2>1, <2>2, OwnForget
<1>9. ASSUME ~(req[c].pc \in {"cleared", "stopped", "swept"}), UNCHANGED <<ws, leaked>>,
             server'[s].repo = server[s].repo \/ server[s].repo # r
      PROVE  Accounted(s, r)'
  <2>1. \A d \in Request : Owed(d, s, r) => Owed(d, s, r)'
    BY <1>9, OwedByOthers DEF Owed
  <2> QED
    BY <1>1, <1>9, <2>1, AccountedKept
<1>10. CASE Run(c)
  <2>1. req[c].pc = "run" /\ UNCHANGED <<ws, leaked>>
    BY <1>10 DEF Run, ghosts
  <2>2. CASE Served(req[c].who)
    BY <1>9, <1>10, <2>1, <2>2 DEF Run, Create
  <2>3. CASE ~Served(req[c].who)
    <3>1. req[c].who \in Session
      BY <1>1, <1>10 DEF Run, RequestOK, Authorised
    <3>2. CASE s = req[c].who
      BY <1>9, <2>1, <2>3, <3>2, UnservedRepo
    <3>3. CASE s # req[c].who
      <4>1. server'[s] = server[s]
        BY <1>10, <2>3, <3>1, <3>3, RunEffect DEF TypeInv, ServersOK
      <4> QED
        BY <1>9, <2>1, <4>1
    <3> QED
      BY <3>2, <3>3
  <2> QED
    BY <2>2, <2>3
<1>11. CASE SweepList(c) \/ (\E t \in Session : SweepCheck(c, t) \/ SweepSkips(c, t)) \/ SweepEnds(c)
  <2>1. ~(req[c].pc \in {"cleared", "stopped", "swept"}) /\ UNCHANGED <<server, ws, leaked>>
    BY <1>11 DEF SweepList, SweepCheck, SweepSkips, SweepEnds, ghosts
  <2> QED
    BY <1>9, <2>1
<1>12. CASE Look(c) \/ LookFails(c) \/ ReadPort(c) \/ SeesDead(c) \/ SeesUp(c) \/ TimeOut(c)
  <2>1. ~(req[c].pc \in {"cleared", "stopped", "swept"}) /\ UNCHANGED <<server, ws, leaked>>
    BY <1>12 DEF Look, LookFails, ReadPort, SeesDead, SeesUp, TimeOut, ghosts
  <2> QED
    BY <1>9, <2>1
<1> QED
  BY <1>2, <1>3, <1>4, <1>5, <1>6, <1>7, <1>8, <1>10, <1>11, <1>12 DEF RequestStep

\* A container's step leaves every request and its own repository as they are.
LEMMA ContainerStep ==
  ASSUME TypeInv, NEW t \in Session, Materialise(t) \/ BootFails(t) \/ Serve(t) \/ Crash(t)
  PROVE  /\ \A s \in Session : server'[s].repo = server[s].repo
         /\ \A s \in Session \ {t} : server'[s] = server[s]
         /\ UNCHANGED <<req, raced, bereft>>
<1>1. Served(t)
  BY DEF Materialise, BootFails, Serve, Crash, IsRunning, Served
<1>2. PICK phase \in {"install", "exited", "up"} : SetPhase(t, phase)
  BY DEF Materialise, BootFails, Serve, Crash
<1> QED
  BY <1>1, <1>2, ContainerType

LEMMA OwnContainer ==
  ASSUME TypeInv, OwnInv, NEW t \in Session, Materialise(t) \/ BootFails(t) \/ Serve(t) \/ Crash(t),
         NEW s \in Session, NEW r \in Repo
  PROVE  Accounted(s, r)'
<1>1. /\ server'[s].repo = server[s].repo /\ \A d \in Request : Owed(d, s, r) => Owed(d, s, r)'
      /\ Accounted(s, r)
  BY ContainerStep DEF Owed, OwnInv
<1>2. CASE <<s, r>> \in ws' \ leaked' => <<s, r>> \in ws \ leaked
  BY <1>1, <1>2, AccountedKept
<1>3. CASE ~(<<s, r>> \in ws' \ leaked' => <<s, r>> \in ws \ leaked)
  <2>1. Materialise(t) \/ Serve(t) \/ Crash(t)
    BY <1>3 DEF BootFails
  <2>2. <<s, r>> = Mine(t)
    BY <1>3, <2>1 DEF Materialise, Serve, Crash
  <2> QED
    BY <1>1, <2>2 DEF Mine, Accounted
<1> QED
  BY <1>2, <1>3

LEMMA OwnInductive ==
  ASSUME TypeInv, OwnInv, [Next]_vars
  PROVE  OwnInv'
<1> SUFFICES ASSUME NEW s \in Session, NEW r \in Repo PROVE Accounted(s, r)'
  BY DEF OwnInv
<1>1. Accounted(s, r)
  BY DEF OwnInv
<1>2. ASSUME UNCHANGED <<server, ws>>, leaked \subseteq leaked',
             \A c \in Request : Owed(c, s, r) /\ <<s, r>> \notin leaked' => Owed(c, s, r)'
      PROVE  Accounted(s, r)'
  BY <1>1, <1>2 DEF Accounted
<1>3. CASE UNCHANGED vars
  BY <1>2, <1>3 DEF vars, Owed
<1>4. ASSUME NEW t \in Session, Pause(t) \/ Resume(t) \/ Remove(t) PROVE Accounted(s, r)'
  BY <1>2, <1>4 DEF Pause, Resume, Remove, SetSession, Owed
<1>5. ASSUME NEW t \in Session, Relaunch(t) PROVE Accounted(s, r)'
  <2>1. UNCHANGED <<server, ws, leaked>> /\ \A d \in Request : Same(d, t)
    BY <1>5, RelaunchEffect DEF Relaunch, SetSession
  <2> QED
    BY <1>2, <2>1 DEF Same, Owed
<1>6. ASSUME NEW c \in Request, Only(c), ~InProgress(c), UNCHANGED <<server, ws, leaked>>
      PROVE  Accounted(s, r)'
  <2>1. \A d \in Request : Owed(d, s, r) => Owed(d, s, r)'
    BY <1>6 DEF Only, Owed, InProgress
  <2> QED
    BY <1>2, <1>6, <2>1
<1>7. ASSUME NEW c \in Request, NEW t \in Session,
             NEW op \in {"start", "stop", "restart", "status"}, NEW repo \in Mounts[t],
             Ask(c, t, op, repo)
      PROVE  Accounted(s, r)'
  BY <1>6, <1>7, AskEffect DEF Ask
<1>8. ASSUME NEW c \in Request, AskSweep(c) PROVE Accounted(s, r)'
  BY <1>6, <1>8, AskSweepEffect DEF AskSweep, ghosts
<1>9. ASSUME NEW c \in Request, Kill(c) PROVE Accounted(s, r)'
  <2>1. Only(c) /\ UNCHANGED <<server, ws>> /\ leaked' = leaked \cup {w \in ws : Owed(c, w[1], w[2])}
    BY <1>9, FinishEffect DEF Kill, Turns
  <2>2. ASSUME NEW d \in Request, Owed(d, s, r), <<s, r>> \in ws, <<s, r>> \notin leaked'
        PROVE  Owed(d, s, r)'
    <3>1. d # c
      BY <2>1, <2>2
    <3> QED
      BY <2>1, <2>2, <3>1 DEF Only, Owed
  <2> QED
    BY <1>1, <2>1, <2>2 DEF Accounted
<1>10. ASSUME NEW c \in Request, RequestStep(c) PROVE Accounted(s, r)'
  BY <1>10, OwnStep
<1>11. ASSUME NEW t \in Session, Materialise(t) \/ BootFails(t) \/ Serve(t) \/ Crash(t)
       PROVE  Accounted(s, r)'
  BY <1>11, OwnContainer
<1> QED
  BY <1>3, <1>4, <1>5, <1>7, <1>8, <1>9, <1>10, <1>11 DEF Next

\* A server has the workspace it serves from.
Based(s) ==
  server[s].repo \in Repo /\ server[s].phase \in {"install", "up"} => <<s, server[s].repo>> \in ws

ServeInv == \A s \in Session \ (raced \cup bereft) : Based(s)

LEMMA BasedStep ==
  ASSUME TypeInv, PlaceInv, NEW c \in Request, RequestStep(c),
         NEW s \in Session \ (raced \cup bereft'), s \notin bereft => Based(s)
  PROVE  Based(s)'
<1>1. RequestOK(req[c]) /\ PlaceOK(c)
  BY DEF TypeInv, RequestsOK, PlaceInv
<1>2. ASSUME UNCHANGED <<server, ws, bereft>> PROVE Based(s)'
  BY <1>2 DEF Based
<1>3. ASSUME NEW t \in Session, Removes(t), UNCHANGED ws PROVE Based(s)'
  <2>1. CASE s = t
    <3>1. server'[s] = NoServer /\ NoServer.phase = "none"
      BY <1>3, <2>1, RemovalEffect DEF NoServer
    <3> QED
      BY <3>1 DEF Based
  <2>2. CASE s # t
    <3>1. server'[s] = server[s] /\ s \notin bereft
      BY <1>3, <2>2, RemovalEffect
    <3> QED
      BY <1>3, <3>1 DEF Based
  <2> QED
    BY <2>1, <2>2
<1>4. ASSUME NEW t, NEW repo, Forget(t, repo), UNCHANGED <<server, bereft>>, t = s => ~Served(s)
      PROVE  Based(s)'
  <2>1. Based(s) /\ (ws' = ws \ {<<t, repo>>} \/ ws' = ws)
    BY <1>4 DEF Forget
  <2> QED
    BY <1>4, <2>1 DEF Based, Served
<1>5. CASE SweepForget(c) \/ ClearForget(c) \/ StopForget(c)
  <2>1. UNCHANGED <<server, bereft>>
    BY <1>5 DEF SweepForget, ClearForget, StopForget
  <2>2. CASE SweepForget(c)
    <3>1. Forget(req[c].target, req[c].label) /\ req[c].pc = "swept"
      BY <2>2 DEF SweepForget
    <3> QED
      BY <1>1, <1>4, <2>1, <3>1 DEF PlaceOK
  <2>3. CASE ClearForget(c)
    <3>1. Forget(req[c].who, req[c].repo) /\ req[c].pc = "cleared"
      BY <2>3 DEF ClearForget
    <3> QED
      BY <1>1, <1>4, <2>1, <3>1 DEF PlaceOK
  <2>4. CASE StopForget(c)
    <3>1. Forget(req[c].who, req[c].label) /\ req[c].pc = "stopped"
      BY <2>4 DEF StopForget
    <3> QED
      BY <1>1, <1>4, <2>1, <3>1 DEF PlaceOK
  <2> QED
    BY <1>5, <2>2, <2>3, <2>4
<1>6. CASE SweepRemove(c) \/ Clear(c) \/ StopRemove(c) \/ ReadsNoPort(c)
  <2>1. UNCHANGED ws
    BY <1>6 DEF SweepRemove, Clear, StopRemove, ReadsNoPort
  <2> QED
    BY <1>3, <1>6, <2>1, Removing
<1>7. CASE Run(c)
  <2>1. UNCHANGED <<ws, bereft>>
    BY <1>7 DEF Run, ghosts
  <2>2. CASE Served(req[c].who)
    BY <1>2, <1>7, <2>1, <2>2 DEF Run, Create
  <2>3. CASE ~Served(req[c].who)
    <3>1. PICK phase \in {"boot", "exited"} :
            server' = [server EXCEPT ![req[c].who] = [phase |-> phase, repo |-> req[c].repo]]
      BY <1>7, <2>3, RunEffect
    <3>2. server'[s] = server[s] \/ server'[s].phase = phase
      BY <3>1 DEF TypeInv, ServersOK
    <3> QED
      BY <2>1, <3>2 DEF Based
  <2> QED
    BY <2>2, <2>3
<1>8. CASE SweepList(c) \/ (\E t \in Session : SweepCheck(c, t) \/ SweepSkips(c, t)) \/ SweepEnds(c)
  BY <1>2, <1>8 DEF SweepList, SweepCheck, SweepSkips, SweepEnds, ghosts
<1>9. CASE Look(c) \/ LookFails(c) \/ ReadPort(c) \/ SeesDead(c) \/ SeesUp(c) \/ TimeOut(c)
  BY <1>2, <1>9 DEF Look, LookFails, ReadPort, SeesDead, SeesUp, TimeOut, ghosts
<1> QED
  BY <1>5, <1>6, <1>7, <1>8, <1>9 DEF RequestStep

LEMMA BasedContainer ==
  ASSUME TypeInv, NEW t \in Session, Materialise(t) \/ BootFails(t) \/ Serve(t) \/ Crash(t),
         NEW s \in Session, Based(s)
  PROVE  Based(s)'
<1>1. /\ server'[s].repo = server[s].repo /\ (s # t => server'[s] = server[s]) /\ Served(t)
  BY ContainerStep DEF Materialise, BootFails, Serve, Crash, IsRunning, Served
<1>2. CASE s # t
  <2>1. <<s, server[s].repo>> \in ws => <<s, server[s].repo>> \in ws'
    BY <1>2 DEF Materialise, BootFails, Serve, Crash, Mine
  <2> QED
    BY <1>1, <1>2, <2>1 DEF Based
<1>3. CASE s = t /\ Materialise(t)
  BY <1>1, <1>3 DEF Materialise, Mine, Based
<1>4. CASE s = t /\ (BootFails(t) \/ Crash(t))
  <2>1. server'[t].phase = "exited"
    BY <1>1, <1>4, ContainerType DEF BootFails, Crash
  <2> QED
    BY <1>4, <2>1 DEF Based
<1>5. CASE s = t /\ Serve(t)
  BY <1>1, <1>5 DEF Serve, Based
<1> QED
  BY <1>2, <1>3, <1>4, <1>5

LEMMA ServeInductive ==
  ASSUME TypeInv, AloneInv, PlaceInv, ServeInv, [Next]_vars
  PROVE  ServeInv'
<1>1. raced \subseteq raced'
  BY AloneInductive
<1> SUFFICES ASSUME NEW s \in Session \ (raced' \cup bereft') PROVE Based(s)'
  BY DEF ServeInv
<1>2. s \notin raced /\ (s \notin bereft => Based(s))
  BY <1>1 DEF ServeInv
<1>3. ASSUME UNCHANGED <<server, ws, bereft>> PROVE Based(s)'
  BY <1>2, <1>3 DEF Based
<1>4. ASSUME NEW c \in Request, RequestStep(c) PROVE Based(s)'
  BY <1>2, <1>4, BasedStep
<1>5. ASSUME NEW t \in Session, Materialise(t) \/ BootFails(t) \/ Serve(t) \/ Crash(t)
      PROVE  Based(s)'
  BY <1>2, <1>5, ContainerStep, BasedContainer
<1> QED
  BY <1>3, <1>4, <1>5 DEF Next, vars, ghosts, Pause, Resume, Remove, Relaunch, SetSession, Ask, AskSweep,
     Kill

\* WorkspacesAreOwned: however requests overlap, every jj workspace has its server
\* or a request that is about to forget it, but for those leaked: the request was
\* killed, jj refused, the label or the port could not be read
\* (cld-broker.py:1014-1017), or the leftover was of another repository (990-991).
\* And every server has the workspace it serves from, unless requests met over its
\* session or docker refused to remove it.
THEOREM WorkspacesHaveOwners == Spec => []WorkspacesAreOwned
<1>1. ASSUME Init PROVE OwnInv /\ ServeInv
  BY <1>1 DEF Init, OwnInv, Accounted, ServeInv, Based, NoServer
<1>2. ASSUME TypeInv, AloneInv /\ PlaceInv, OwnInv /\ ServeInv, [Next]_vars PROVE (OwnInv /\ ServeInv)'
  BY <1>2, OwnInductive, ServeInductive
<1>3. ASSUME OwnInv /\ ServeInv PROVE WorkspacesAreOwned
  BY <1>3 DEF OwnInv, Accounted, ServeInv, Based, WorkspacesAreOwned
<1> QED
  BY <1>1, <1>2, <1>3, TypeInductive, PlaceInvariant, PTL DEF Spec

=============================================================================
