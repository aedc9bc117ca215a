--------------------------- MODULE ActivationProofs ---------------------------
(***************************************************************************)
(* Proofs about ServerActivation, for any servers, tokens and settings.    *)
(***************************************************************************)
EXTENDS ServerActivation, SequenceTheorems, TLAPS

Holds(list, p) == \E i \in DOMAIN list : list[i] = p

(* What an operation recorded of the registry when it began.               *)
PreviousKnown(o) == IF o.previous = None THEN o.before = <<>>
                                         ELSE Holds(o.before, o.previous)

(* True whatever fails, and of any number of operations under way.         *)
RegistryInv ==
  /\ TypeOK
  /\ profiles # <<>> => active \in Ids(profiles)
  /\ ~running => profiles = <<>> /\ \A p \in Procs : op[p] = Idle
  /\ \A p \in Procs : op[p] # Idle => saving = "no"
  /\ \A p \in Procs : op[p] # Idle => PreviousKnown(op[p])

(* The user waits for one operation before starting the next.              *)
OneAtATime == \A p, q \in Procs : p = q

StepsOf(phase) ==
  CASE phase \in {"registry", "undo"} -> {"list", "active"}
    [] phase \in {"activate", "restore"} -> {"stop", "wg", "host", "token", "start"}
    [] OTHER -> {"host", "token", "wg"}

(* How far an operation that runs alone has come with the registry.        *)
UndoOf(o) ==
  /\ o.step \in StepsOf(o.phase)
  /\ o.target = None <=> \/ o.phase \in {"clear", "forget"}
                         \/ o.kind = "remove" /\ o.phase = "registry"
  /\ o.kind = "switch" => profiles = o.before
  /\ o.phase = "activate" \/ (o.phase = "registry" /\ o.kind # "remove") =>
       active = o.target.server /\ Holds(profiles, o.target)
  /\ o.phase \in {"undo", "restore"} => o.kind # "remove"
  /\ o.phase \in {"undo", "restore", "clear"} /\ o.kind # "remove" =>
       /\ profiles = o.before
       /\ active = IF o.previous = None THEN None ELSE o.previous.server
  /\ o.phase = "restore" => o.target = o.previous
  /\ o.phase = "clear" /\ o.kind # "remove" => o.previous = None
  /\ o.phase \in {"activate", "restore"} /\ o.step = "start" => backend = PairingOf(o.target)

UndoInv == RegistryInv /\ \A p \in Procs : op[p] # Idle => UndoOf(op[p])

(* What the app talks to and through, all of it belonging to p.            *)
PointsAt(p) == backend = PairingOf(p) /\ wg = ConfigOf(p)

(* ... and with the connection and the tunnel.                             *)
LiveOf(o) ==
  /\ o.phase \in {"activate", "restore"} /\ o.step \in {"host", "token", "start"} =>
       wg = ConfigOf(o.target)
  /\ o.step = "start" => ConfigOf(o.target) # None
  /\ \/ o.phase \in {"undo", "restore", "clear"}
     \/ o.phase = "activate" /\ o.step # "stop"
     => tunnel = None
  /\ o.phase \in {"clear", "forget"} /\ o.step = "wg" => backend = None
  /\ o.kind = "switch" /\ o.phase = "registry" => o.previous.server # o.target.server
  /\ o.kind = "switch" /\ o.phase = "activate" /\ o.previous.server = o.target.server =>
       backend = None \/ PointsAt(o.target)

(* Between two operations.                                                 *)
LiveSettled ==
  /\ backend # None => \E i \in DOMAIN profiles :
                         profiles[i].server = active /\ PointsAt(profiles[i])
  /\ tunnel # None => tunnel = active

Untouched == disk \in {Empty} \cup
  {[Empty EXCEPT !.host = p.server, !.token = p, !.wg = ConfigOf(p)] : p \in Profile}

Quiet == running /\ \A p \in Procs : op[p] = Idle

LiveInv ==
  /\ UndoInv
  /\ Forgiving => /\ \A p \in Procs : op[p] # Idle => LiveOf(op[p])
                  /\ Quiet => LiveSettled
                  /\ ~running => tunnel = None /\ Untouched

--------------------------------------------------------------------------------
(* Lists of profiles. *)

LEMMA ListElements ==
  ASSUME NEW l \in Lists
  PROVE  /\ l \in Seq(Profile) /\ Len(l) \in Nat /\ DOMAIN l = 1..Len(l)
         /\ \A i \in DOMAIN l : l[i] \in Profile
         /\ \A i, j \in DOMAIN l : l[i].server = l[j].server => i = j
BY LenProperties, ElementOfSeq DEF Lists

LEMMA ProfileFields ==
  ASSUME NEW p \in Profile
  PROVE  p.server \in Servers /\ p.token \in Tokens /\ p # None /\ p.server # None
BY ConstantsAssumption DEF Profile

(* byId finds the profile of a server that is in the list. *)
LEMMA ByIdFinds ==
  ASSUME NEW l \in Lists, NEW s \in Ids(l)
  PROVE  ById(l, s) \in Profile /\ ById(l, s).server = s /\ Holds(l, ById(l, s))
<1>1. \E i \in DOMAIN l : l[i].server = s
  BY DEF Ids
<1> QED BY <1>1, ListElements DEF ById, Holds

(* ... and nothing else: no two profiles of a list are of one server. *)
LEMMA HeldIsFound ==
  ASSUME NEW l \in Lists, NEW p, Holds(l, p)
  PROVE  p \in Profile /\ p.server \in Ids(l) /\ Lookup(l, p.server) = p
<1>1. PICK i \in DOMAIN l : l[i] = p
  BY DEF Holds
<1>2. p.server \in Ids(l) /\ p \in Profile
  BY <1>1, ListElements DEF Ids
<1>3. (CHOOSE j \in DOMAIN l : l[j].server = p.server) = i
  BY <1>1, ListElements
<1> QED BY <1>1, <1>2, <1>3 DEF Lookup, ById

LEMMA LookupType ==
  ASSUME NEW l \in Lists, NEW s
  PROVE  /\ Lookup(l, s) \in Profile \cup {None}
         /\ Lookup(l, s) = None <=> s \notin Ids(l)
         /\ Lookup(l, s) # None => Lookup(l, s).server = s /\ Holds(l, Lookup(l, s))
BY ByIdFinds, ProfileFields DEF Lookup

LEMMA EmptyList == <<>> \in Lists /\ Ids(<<>>) = {} /\ \A p : ~Holds(<<>>, p)
BY DEF Lists, Ids, Holds

LEMMA Singleton ==
  ASSUME NEW p \in Profile
  PROVE  <<p>> \in Lists /\ Ids(<<p>>) = {p.server} /\ Holds(<<p>>, p)
<1>1. <<p>> \in Seq(Profile) /\ DOMAIN <<p>> = {1} /\ <<p>>[1] = p
  OBVIOUS
<1> QED BY <1>1 DEF Lists, Ids, Holds

LEMMA NonEmptyList ==
  ASSUME NEW l \in Lists, l # <<>>
  PROVE  1 \in DOMAIN l /\ l[1] \in Profile /\ l[1].server \in Ids(l) /\ Holds(l, l[1])
<1>1. 1 \in DOMAIN l
  BY ListElements, EmptySeq
<1> QED BY <1>1, ListElements DEF Ids, Holds

(* add keeps one profile per server, and stores the new one. *)
LEMMA AddedList ==
  ASSUME profiles \in Lists, NEW p \in Profile
  PROVE  Added(p) \in Lists /\ Holds(Added(p), p)
<1> DEFINE n == Len(profiles)
<1>1. /\ profiles \in Seq(Profile) /\ n \in Nat /\ DOMAIN profiles = 1..n
      /\ \A i \in 1..n : profiles[i] \in Profile
      /\ \A i, j \in 1..n : profiles[i].server = profiles[j].server => i = j
  BY ListElements
<1>2. CASE p.server \in Ids(profiles)
  <2> DEFINE l == [i \in 1..n |-> IF profiles[i].server = p.server THEN p ELSE profiles[i]]
  <2>1. Added(p) = l
    BY <1>1, <1>2 DEF Added
  <2>2. l \in [1..n -> Profile]
    BY <1>1
  <2>3. l \in Seq(Profile) /\ DOMAIN l = 1..n
    BY <1>1, <2>2, IsASeq
  <2>4. \A i \in 1..n : l[i].server = profiles[i].server
    OBVIOUS
  <2>5. l \in Lists
    BY <1>1, <2>3, <2>4 DEF Lists
  <2>6. PICK i \in 1..n : profiles[i].server = p.server
    BY <1>1, <1>2 DEF Ids
  <2>7. l[i] = p
    BY <2>6
  <2> QED BY <2>1, <2>3, <2>5, <2>7 DEF Holds
<1>3. CASE p.server \notin Ids(profiles)
  <2> DEFINE l == Append(profiles, p)
  <2>1. Added(p) = l
    BY <1>3 DEF Added
  <2>2. /\ l \in Seq(Profile) /\ DOMAIN l = 1..(n + 1) /\ l[n + 1] = p
        /\ \A i \in 1..n : l[i] = profiles[i]
    BY <1>1, AppendProperties, LenProperties
  <2>3. \A i \in 1..n : profiles[i].server # p.server
    BY <1>1, <1>3 DEF Ids
  <2> HIDE DEF l, n
  <2>4. ASSUME NEW i \in DOMAIN l, NEW j \in DOMAIN l, l[i].server = l[j].server
        PROVE  i = j
    <3>1. /\ i \in 1..n \/ i = n + 1
          /\ j \in 1..n \/ j = n + 1
      BY <1>1, <2>2
    <3> QED BY <1>1, <2>2, <2>3, <2>4, <3>1
  <2>5. l \in Lists
    BY <2>2, <2>4 DEF Lists
  <2> QED BY <1>1, <2>1, <2>2, <2>5 DEF Holds
<1> QED BY <1>2, <1>3

(* remove keeps the rest, and makes one of the rest active. *)
LEMMA RemovedList ==
  ASSUME profiles \in Lists, NEW s \in Ids(profiles)
  PROVE  /\ Removed(s) \in Lists
         /\ Removed(s) = <<>> => Successor(s) = None
         /\ Removed(s) # <<>> => Successor(s) \in Ids(Removed(s)) /\ Successor(s) \in Servers
<1> DEFINE n == Len(profiles)
           i == IndexOf(s)
           l == Removed(s)
<1>1. /\ profiles \in Seq(Profile) /\ n \in Nat /\ DOMAIN profiles = 1..n
      /\ \A k \in 1..n : profiles[k] \in Profile
      /\ \A j, k \in 1..n : profiles[j].server = profiles[k].server => j = k
  BY ListElements
<1>2. i \in 1..n
  BY <1>1 DEF Ids, IndexOf
<1>3. /\ DOMAIN l = 1..(n - 1) /\ n - 1 \in Nat
      /\ \A k \in 1..(n - 1) : l[k] = profiles[IF k < i THEN k ELSE k + 1]
  BY <1>1, <1>2 DEF Removed
<1>4. l = [k \in 1..(n - 1) |-> l[k]]
  BY <1>1, <1>2 DEF Removed
<1> HIDE DEF n, i, l
<1>5. \A k \in 1..(n - 1) : (IF k < i THEN k ELSE k + 1) \in 1..n
  BY <1>1, <1>2
<1>6. l \in [1..(n - 1) -> Profile]
  BY <1>1, <1>3, <1>4, <1>5
<1>7. l \in Seq(Profile) /\ Len(l) = n - 1
  BY <1>3, <1>6, IsASeq, LenProperties
<1>8. ASSUME NEW j \in DOMAIN l, NEW k \in DOMAIN l, l[j].server = l[k].server
      PROVE  j = k
  <2>1. (IF j < i THEN j ELSE j + 1) = (IF k < i THEN k ELSE k + 1)
    BY <1>1, <1>3, <1>5, <1>8
  <2> QED BY <1>1, <1>2, <1>3, <2>1
<1>9. l \in Lists
  BY <1>7, <1>8 DEF Lists
<1>10. ASSUME l # <<>> PROVE Successor(s) \in Ids(l) /\ Successor(s) \in Servers
  <2>1. Len(l) \in Nat \ {0}
    BY <1>7, <1>10, EmptySeq
  <2>2. (IF i <= Len(l) THEN i ELSE Len(l)) \in DOMAIN l
    BY <1>1, <1>2, <1>3, <1>7, <2>1
  <2>3. Successor(s) = l[IF i <= Len(l) THEN i ELSE Len(l)].server
    BY <1>10 DEF Successor, l, i
  <2> QED BY <1>9, <2>2, <2>3, ListElements, ProfileFields DEF Ids
<1>11. l = <<>> => Successor(s) = None
  BY DEF Successor, l
<1> QED BY <1>9, <1>10, <1>11 DEF l

--------------------------------------------------------------------------------
(* Type correctness. *)

OpSteps == {"list", "active", "stop", "wg", "host", "token", "start"}
Typed == op \in [Procs -> Ops \cup {Idle}]

(* An operation that is at a step is not idle. *)
LEMMA Busy ==
  ASSUME Typed, NEW p \in Procs, NEW step, At(p, step), step # "idle"
  PROVE  op[p] \in Ops /\ op[p] # Idle /\ op[p].step = step
BY DEF Typed, At, Idle

LEMMA OpsAreNotIdle == Idle \notin Ops /\ \A o \in Ops : o # Idle
BY DEF Ops, Idle

LEMMA OpFields ==
  ASSUME NEW o \in Ops
  PROVE  /\ o.kind \in {"switch", "pair", "remove"} /\ o.phase \in Phases /\ o.step \in OpSteps
         /\ o.target \in Profile \cup {None} /\ o.previous \in Profile \cup {None}
         /\ o.before \in Lists /\ o.was \in BOOLEAN
BY DEF Ops, OpSteps

(* Where Goto leads; what the operation recorded at its start stays.       *)
LEMMA GotoGoes ==
  ASSUME Typed, NEW p \in Procs, op[p] \in Ops, NEW phase \in Phases, NEW step \in OpSteps,
         NEW target \in Profile \cup {None}, Goto(p, phase, step, target)
  PROVE  /\ Typed' /\ op'[p] \in Ops
         /\ op'[p].phase = phase /\ op'[p].step = step /\ op'[p].target = target
         /\ op'[p].kind = op[p].kind /\ op'[p].previous = op[p].previous
         /\ op'[p].before = op[p].before /\ op'[p].was = op[p].was
         /\ \A q \in Procs : q # p => op'[q] = op[q]
<1> DEFINE o == [op[p] EXCEPT !.phase = phase, !.step = step, !.target = target]
<1>1. /\ o \in Ops /\ o.phase = phase /\ o.step = step /\ o.target = target
      /\ o.kind = op[p].kind /\ o.previous = op[p].previous
      /\ o.before = op[p].before /\ o.was = op[p].was
  BY DEF Ops, OpSteps
<1>2. op' = [op EXCEPT ![p] = o]
  BY DEF Goto
<1> HIDE DEF o
<1> QED BY <1>1, <1>2 DEF Typed

LEMMA FinishGoes ==
  ASSUME Typed, NEW p \in Procs, Finish(p)
  PROVE  Typed' /\ op'[p] = Idle /\ \A q \in Procs : q # p => op'[q] = op[q]
BY DEF Typed, Finish

(* The outcomes of a step of p for the operations under way. *)
Moves(p) ==
  /\ Typed' /\ (op'[p] = Idle \/ (/\ op'[p] \in Ops
                                  /\ op'[p].kind = op[p].kind /\ op'[p].was = op[p].was
                                  /\ op'[p].previous = op[p].previous /\ op'[p].before = op[p].before))
  /\ \A q \in Procs : q # p => op'[q] = op[q]

LEMMA NextStepGoes ==
  ASSUME Typed, NEW p \in Procs, op[p] \in Ops, NEW step \in OpSteps, NextStep(p, step)
  PROVE  /\ Moves(p) /\ op'[p] \in Ops
         /\ op'[p].phase = op[p].phase /\ op'[p].step = step /\ op'[p].target = op[p].target
<1>1. Goto(p, op[p].phase, step, op[p].target) /\ op[p].phase \in Phases /\ op[p].target \in Profile \cup {None}
  BY OpFields DEF NextStep
<1> QED BY <1>1, GotoGoes DEF Moves

LEMMA RestoreGoes ==
  ASSUME Typed, NEW p \in Procs, op[p] \in Ops, Restore(p)
  PROVE  /\ Moves(p) /\ op'[p] \in Ops /\ op'[p].target = op[p].previous
         /\ op[p].previous = None => op'[p].phase = "clear" /\ op'[p].step = "host"
         /\ op[p].previous # None => op'[p].phase = "restore" /\ op'[p].step = "stop"
<1>1. op[p].previous \in Profile \cup {None}
  BY OpFields
<1>2. CASE op[p].previous = None
  BY <1>1, <1>2, GotoGoes DEF Restore, Moves, Phases, OpSteps
<1>3. CASE op[p].previous # None
  BY <1>1, <1>3, GotoGoes DEF Restore, Moves, Phases, OpSteps
<1> QED BY <1>2, <1>3

(* The registry of an operation's undo code: untouched, or what it         *)
(* recorded when it began.                                                 *)
RegistryAfterThrow(p) ==
  \/ UNCHANGED registry
  \/ /\ profiles' = op[p].before
     /\ active' = IF op[p].previous = None THEN None ELSE op[p].previous.server
  \/ /\ profiles' = profiles /\ op[p].previous # None
     /\ active' = op[p].previous.server /\ active' \in Ids(profiles)

LEMMA ThrowGoes ==
  ASSUME Typed, NEW p \in Procs, op[p] \in Ops, Throw(p)
  PROVE  Moves(p) /\ RegistryAfterThrow(p)
<1> USE DEF RegistryAfterThrow
<1>0. op[p].target \in Profile \cup {None} /\ op[p].kind \in {"switch", "pair", "remove"}
  BY OpFields
<1>f. Finish(p) => Moves(p)
  BY FinishGoes DEF Moves
<1>g. Goto(p, "undo", "list", op[p].target) \/ Goto(p, "clear", "host", None) => Moves(p)
  BY <1>0, GotoGoes DEF Moves, Phases, OpSteps
<1>1. CASE op[p].phase = "activate"
  <2>0. Undo(p)
    BY <1>1 DEF Throw
  <2>1. CASE op[p].kind = "remove"
    BY <1>g, <2>0, <2>1 DEF Undo
  <2>2. CASE op[p].kind = "pair"
    BY <1>g, <2>0, <2>2 DEF Undo
  <2>3. CASE op[p].kind = "switch" /\ (op[p].previous = None \/ op[p].previous.server = op[p].target.server)
    BY <1>f, <2>0, <2>3 DEF Undo
  <2>4. CASE op[p].kind = "switch" /\ ~(op[p].previous = None \/ op[p].previous.server = op[p].target.server)
    BY <1>g, <2>0, <2>4, RestoreGoes DEF Undo, registry
  <2> QED BY <1>0, <2>1, <2>2, <2>3, <2>4
<1>2. CASE op[p].phase = "undo"
  BY <1>2, RestoreGoes DEF Throw
<1>3. CASE op[p].phase = "clear" /\ op[p].step # "wg"
  BY <1>3, NextStepGoes DEF Throw, OpSteps
<1>4. CASE ~(op[p].phase = "activate" \/ op[p].phase = "undo" \/ (op[p].phase = "clear" /\ op[p].step # "wg"))
  BY <1>f, <1>4 DEF Throw
<1> QED BY <1>1, <1>2, <1>3, <1>4

LEMMA ThrowType ==
  ASSUME Typed, profiles \in Lists, active \in Servers \cup {None},
         NEW p \in Procs, op[p] \in Ops, RegistryAfterThrow(p)
  PROVE  profiles' \in Lists /\ active' \in Servers \cup {None}
<1>1. op[p].before \in Lists /\ op[p].previous \in Profile \cup {None}
  BY OpFields
<1>2. op[p].previous # None => op[p].previous.server \in Servers
  BY <1>1, ProfileFields
<1> QED BY <1>1, <1>2 DEF RegistryAfterThrow, registry

LEMMA AfterRegistryGoes ==
  ASSUME Typed, NEW p \in Procs, op[p] \in Ops, profiles \in Lists, AfterRegistry(p)
  PROVE  Moves(p) /\ op'[p] \in Ops
<1>1. Active \in Profile \cup {None} /\ op[p].target \in Profile \cup {None}
  BY LookupType, OpFields DEF Active
<1>2. CASE op[p].phase = "undo"
  BY <1>2, RestoreGoes DEF AfterRegistry
<1>3. CASE op[p].phase # "undo" /\ op[p].kind # "remove"
  BY <1>1, <1>3, GotoGoes DEF AfterRegistry, Moves, Phases, OpSteps
<1>4. CASE op[p].phase # "undo" /\ op[p].kind = "remove" /\ Active = None
  BY <1>1, <1>4, GotoGoes DEF AfterRegistry, Moves, Phases, OpSteps
<1>5. CASE op[p].phase # "undo" /\ op[p].kind = "remove" /\ Active # None
  BY <1>1, <1>5, GotoGoes DEF AfterRegistry, Moves, Phases, OpSteps
<1> QED BY <1>2, <1>3, <1>4, <1>5

LEMMA ConfigType ==
  ASSUME NEW p \in Profile
  PROVE  ConfigOf(p) \in Servers \cup {None} /\ (ConfigOf(p) # None => ConfigOf(p) = p.server)
BY ConstantsAssumption DEF ConfigOf

(* A write that succeeds or fails leaves a map, and in the file that map,  *)
(* the old one or torn bytes.                                              *)
LEMMA WriteType ==
  ASSUME TypeOK, NEW p \in Procs, op[p] \in Ops, NEW new \in Maps,
         Stored(p, new) \/ Failed(p, new)
  PROVE  cache' \in Maps /\ disk' \in Maps \cup {Torn}
BY DEF TypeOK, Stored, Failed

(* A write that fails moves the operation to its undo code. *)
LEMMA FailedGoes ==
  ASSUME TypeOK, NEW p \in Procs, op[p] \in Ops, NEW new, Failed(p, new)
  PROVE  Moves(p) /\ RegistryAfterThrow(p) /\ UNCHANGED <<backend, wg>>
BY ThrowGoes DEF Failed, TypeOK, Typed

(* What a step of an operation can change: the registry only when a write  *)
(* fails.                                                                  *)
LEMMA StepGoes ==
  ASSUME TypeOK, NEW p \in Procs, Step(p)
  PROVE  /\ op[p] \in Ops /\ op[p] # Idle /\ running /\ Moves(p)
         /\ UNCHANGED app
         /\ UNCHANGED registry \/ RegistryAfterThrow(p)
<1> USE DEF TypeOK, Typed
<1>t. op[p] \in Ops => op[p].target \in Profile \cup {None}
  BY OpFields
<1>f. Finish(p) => Moves(p)
  BY FinishGoes DEF Moves
<1>n. ASSUME NEW step \in OpSteps, op[p] \in Ops, NextStep(p, step) PROVE Moves(p)
  BY <1>n, NextStepGoes
<1>1. CASE SaveList(p)
  <2>1. op[p] \in Ops /\ op[p] # Idle /\ running
    BY <1>1, Busy DEF SaveList, At
  <2> QED BY <1>1, <1>n, <2>1, FailedGoes DEF SaveList, OpSteps
<1>2. CASE SaveActive(p)
  <2>1. op[p] \in Ops /\ op[p] # Idle /\ running
    BY <1>2, Busy DEF SaveActive, At
  <2> QED BY <1>2, <2>1, FailedGoes, AfterRegistryGoes DEF SaveActive
<1>3. CASE StopTunnel(p)
  <2>1. op[p] \in Ops /\ op[p] # Idle /\ running
    BY <1>3, Busy DEF StopTunnel, At
  <2> QED BY <1>3, <1>n, <2>1 DEF StopTunnel, OpSteps
<1>4. CASE SaveConfig(p)
  <2>1. op[p] \in Ops /\ op[p] # Idle /\ running
    BY <1>4, Busy DEF SaveConfig, At
  <2> QED BY <1>4, <1>f, <1>n, <2>1, FailedGoes DEF SaveConfig, OpSteps
<1>5. CASE SaveHost(p)
  <2>1. op[p] \in Ops /\ op[p] # Idle /\ running
    BY <1>5, Busy DEF SaveHost, At
  <2> QED BY <1>5, <1>n, <2>1, FailedGoes DEF SaveHost, OpSteps
<1>6. CASE SaveToken(p)
  <2>1. op[p] \in Ops /\ op[p] # Idle /\ running
    BY <1>6, Busy DEF SaveToken, At
  <2> QED BY <1>6, <1>f, <1>n, <2>1, FailedGoes DEF SaveToken, OpSteps
<1>7. CASE StartTunnel(p)
  <2>1. op[p] \in Ops /\ op[p] # Idle /\ running
    BY <1>7, Busy DEF StartTunnel, At
  <2> QED BY <1>7, <1>f, <2>1 DEF StartTunnel
<1> QED BY <1>1, <1>2, <1>3, <1>4, <1>5, <1>6, <1>7 DEF Step

LEMMA StepType ==
  ASSUME TypeOK, NEW p \in Procs, Step(p)
  PROVE  TypeOK'
<1> USE DEF TypeOK
<1>1. /\ op[p] \in Ops /\ UNCHANGED app /\ op' \in [Procs -> Ops \cup {Idle}]
      /\ profiles' \in Lists /\ active' \in Servers \cup {None}
  <2>1. op[p] \in Ops /\ UNCHANGED app /\ Moves(p) /\ (UNCHANGED registry \/ RegistryAfterThrow(p))
    BY StepGoes
  <2>2. profiles' \in Lists /\ active' \in Servers \cup {None}
    BY <2>1, ThrowType DEF Typed, registry
  <2> QED BY <2>1, <2>2 DEF Moves, Typed
<1>t. op[p].target \in Profile \cup {None}
  BY <1>1, OpFields
<1>c. op[p].target # None => ConfigOf(op[p].target) \in Servers \cup {None}
  BY <1>t, ConfigType
<1>s. op[p].target # None => op[p].target.server \in Servers /\ PairingOf(op[p].target) \in Pairing
  BY <1>t, ProfileFields DEF PairingOf, Pairing
<1>d. ASSUME tunnel' \in Disconnected \/ tunnel' = tunnel PROVE tunnel' \in Servers \cup {None}
  BY <1>d DEF Disconnected
<1>2. /\ cache' \in Maps /\ disk' \in Maps \cup {Torn}
      /\ backend' \in Pairing \cup {None} /\ wg' \in Servers \cup {None}
      /\ tunnel' \in Servers \cup {None}
  <2>1. CASE SaveList(p)
    <3>1. [cache EXCEPT !.list = profiles] \in Maps
      BY DEF Maps
    <3> QED BY <1>1, <2>1, <3>1, WriteType DEF SaveList, Failed
  <2>2. CASE SaveActive(p)
    <3>1. [cache EXCEPT !.active = active] \in Maps
      BY DEF Maps
    <3> QED BY <1>1, <2>2, <3>1, WriteType DEF SaveActive, Failed
  <2>3. CASE StopTunnel(p)
    BY <1>d, <2>3 DEF StopTunnel
  <2>4. CASE SaveConfig(p)
    <3> DEFINE config == IF op[p].target = None THEN None ELSE ConfigOf(op[p].target)
    <3>1. config \in Servers \cup {None}
      BY <1>c
    <3>2. [cache EXCEPT !.wg = config] \in Maps
      BY <3>1 DEF Maps
    <3>3. /\ Stored(p, [cache EXCEPT !.wg = config]) \/ Failed(p, [cache EXCEPT !.wg = config])
          /\ tunnel' \in Disconnected \/ tunnel' = tunnel
          /\ wg' = wg \/ wg' = config
          /\ backend' = backend
      BY <2>4 DEF SaveConfig, Failed
    <3> HIDE DEF config
    <3>4. cache' \in Maps /\ disk' \in Maps \cup {Torn}
      BY <1>1, <3>2, <3>3, WriteType
    <3> QED BY <1>d, <3>1, <3>3, <3>4
  <2>5. CASE SaveHost(p)
    <3> DEFINE host == IF op[p].target = None THEN None ELSE op[p].target.server
    <3>1. [cache EXCEPT !.host = host] \in Maps
      BY <1>s DEF Maps
    <3>2. /\ Stored(p, [cache EXCEPT !.host = host]) \/ Failed(p, [cache EXCEPT !.host = host])
          /\ UNCHANGED <<backend, wg, tunnel>>
      BY <2>5 DEF SaveHost, Failed
    <3> HIDE DEF host
    <3> QED BY <1>1, <3>1, <3>2, WriteType
  <2>6. CASE SaveToken(p)
    <3>1. [cache EXCEPT !.token = op[p].target] \in Maps
      BY <1>t DEF Maps
    <3>2. /\ Stored(p, [cache EXCEPT !.token = op[p].target]) \/ Failed(p, [cache EXCEPT !.token = op[p].target])
          /\ wg' = wg /\ tunnel' = tunnel
          /\ backend' = backend \/ backend' = IF op[p].target = None THEN None ELSE PairingOf(op[p].target)
      BY <2>6 DEF SaveToken, Failed
    <3>3. cache' \in Maps /\ disk' \in Maps \cup {Torn}
      BY <1>1, <3>1, <3>2, WriteType
    <3> QED BY <1>s, <3>2, <3>3
  <2>7. CASE StartTunnel(p)
    BY <2>7 DEF StartTunnel
  <2> QED BY <2>1, <2>2, <2>3, <2>4, <2>5, <2>6, <2>7 DEF Step
<1> QED BY <1>1, <1>2 DEF app

(* A user operation begins: what it records, and nothing else of it yet.   *)
PhaseOf(step) == IF step = "list" THEN "registry" ELSE IF step = "host" THEN "forget" ELSE "activate"

LEMMA StartGoes ==
  ASSUME TypeOK, NEW p \in Procs, NEW kind \in {"switch", "pair", "remove"},
         NEW step \in {"list", "stop", "host"}, NEW target \in Profile \cup {None},
         Start(p, kind, step, target)
  PROVE  /\ running /\ saving = "no" /\ op[p] = Idle /\ UNCHANGED <<app, live, cache, disk>>
         /\ Typed' /\ op'[p] \in Ops /\ \A q \in Procs : q # p => op'[q] = op[q]
         /\ op'[p].kind = kind /\ op'[p].phase = PhaseOf(step) /\ op'[p].step = step
         /\ op'[p].target = target /\ op'[p].previous = Active /\ op'[p].before = profiles
<1> DEFINE o == [kind |-> kind,
                 phase |-> CASE step = "list" -> "registry" [] step = "host" -> "forget" [] OTHER -> "activate",
                 step |-> step, target |-> target, previous |-> Active,
                 before |-> profiles, was |-> tunnel # None]
<1>1. o.phase = PhaseOf(step) /\ PhaseOf(step) \in Phases
  BY DEF PhaseOf, Phases
<1>2. Active \in Profile \cup {None} /\ profiles \in Lists
  BY LookupType DEF TypeOK, Active
<1>3. o \in Ops
  BY <1>1, <1>2 DEF Ops
<1>4. op' = [op EXCEPT ![p] = o]
  BY DEF Start
<1>5. o.kind = kind /\ o.step = step /\ o.target = target /\ o.previous = Active /\ o.before = profiles
  OBVIOUS
<1> HIDE DEF o
<1> QED BY <1>1, <1>3, <1>4, <1>5 DEF Start, TypeOK, Typed

(* The four ways a user operation begins. *)
LEMMA BeginGoes ==
  ASSUME TypeOK, NEW p \in Procs, Begin(p)
  PROVE  /\ running /\ saving = "no" /\ op[p] = Idle /\ UNCHANGED <<app, live, cache, disk>>
         /\ Typed' /\ op'[p] \in Ops /\ \A q \in Procs : q # p => op'[q] = op[q]
         /\ op'[p].previous = Active /\ op'[p].before = profiles
         /\ \/ /\ op'[p].kind = "switch" /\ profiles' = profiles
               /\ op'[p].target \in Profile /\ op'[p].target.server = active' /\ Holds(profiles, op'[p].target)
               /\ IF active = active' THEN op'[p].phase = "activate" /\ op'[p].step = "stop"
                                      ELSE op'[p].phase = "registry" /\ op'[p].step = "list"
            \/ /\ op'[p].kind = "pair" /\ op'[p].phase = "registry" /\ op'[p].step = "list"
               /\ op'[p].target \in Profile /\ op'[p].target.server = active'
               /\ profiles' = Added(op'[p].target)
            \/ /\ op'[p].kind = "remove" /\ op'[p].target = None
               /\ op'[p].phase = "forget" /\ op'[p].step = "host"
               /\ Active = None /\ UNCHANGED registry
            \/ /\ op'[p].kind = "remove" /\ op'[p].target = None
               /\ op'[p].phase = "registry" /\ op'[p].step = "list"
               /\ active \in Ids(profiles) /\ profiles' = Removed(active) /\ active' = Successor(active)
<1> USE DEF TypeOK
<1>1. ASSUME NEW s \in Servers, Switch(p, s)
      PROVE  /\ running /\ saving = "no" /\ op[p] = Idle /\ UNCHANGED <<app, live, cache, disk>>
             /\ Typed' /\ op'[p] \in Ops /\ \A q \in Procs : q # p => op'[q] = op[q]
             /\ op'[p].previous = Active /\ op'[p].before = profiles
             /\ op'[p].kind = "switch" /\ profiles' = profiles
             /\ op'[p].target \in Profile /\ op'[p].target.server = active' /\ Holds(profiles, op'[p].target)
             /\ IF active = active' THEN op'[p].phase = "activate" /\ op'[p].step = "stop"
                                    ELSE op'[p].phase = "registry" /\ op'[p].step = "list"
  <2>1. ById(profiles, s) \in Profile /\ ById(profiles, s).server = s /\ Holds(profiles, ById(profiles, s))
    BY <1>1, ByIdFinds DEF Switch
  <2>2. Start(p, "switch", IF active = s THEN "stop" ELSE "list", ById(profiles, s))
        /\ active' = s /\ profiles' = profiles
    BY <1>1 DEF Switch
  <2>3. CASE active = s
    <3>1. Start(p, "switch", "stop", ById(profiles, s))
      BY <2>2, <2>3
    <3> QED BY <2>1, <2>2, <2>3, <3>1, StartGoes DEF PhaseOf
  <2>4. CASE active # s
    <3>1. Start(p, "switch", "list", ById(profiles, s))
      BY <2>2, <2>4
    <3> QED BY <2>1, <2>2, <2>4, <3>1, StartGoes DEF PhaseOf
  <2> QED BY <2>3, <2>4
<1>2. ASSUME NEW s \in Servers, NEW t \in setting.tokens, Pair(p, s, t)
      PROVE  /\ running /\ saving = "no" /\ op[p] = Idle /\ UNCHANGED <<app, live, cache, disk>>
             /\ Typed' /\ op'[p] \in Ops /\ \A q \in Procs : q # p => op'[q] = op[q]
             /\ op'[p].previous = Active /\ op'[p].before = profiles
             /\ op'[p].kind = "pair" /\ op'[p].phase = "registry" /\ op'[p].step = "list"
             /\ op'[p].target \in Profile /\ op'[p].target.server = active'
             /\ profiles' = Added(op'[p].target)
  <2>1. [server |-> s, token |-> t] \in Profile
    BY ConstantsAssumption DEF Profile, Setting
  <2> QED BY <1>2, <2>1, StartGoes DEF Pair, PhaseOf
<1>3. CASE Remove(p) /\ Active = None
  BY <1>3, StartGoes DEF Remove, PhaseOf
<1>4. CASE Remove(p) /\ Active # None
  <2>1. active \in Ids(profiles)
    BY <1>4, LookupType DEF Active
  <2> QED BY <1>4, <2>1, StartGoes DEF Remove, PhaseOf
<1> QED BY <1>1, <1>2, <1>3, <1>4 DEF Begin

LEMMA BeginType ==
  ASSUME TypeOK, NEW p \in Procs, Begin(p)
  PROVE  TypeOK'
<1>1. UNCHANGED <<app, live, cache, disk>> /\ Typed'
  BY BeginGoes
<1>2. profiles' \in Lists /\ active' \in Servers \cup {None}
  <2>1. CASE profiles' = profiles /\ op'[p].target \in Profile /\ op'[p].target.server = active'
    BY <2>1, ProfileFields DEF TypeOK
  <2>2. CASE op'[p].target \in Profile /\ op'[p].target.server = active' /\ profiles' = Added(op'[p].target)
    BY <2>2, ProfileFields, AddedList DEF TypeOK
  <2>3. CASE active \in Ids(profiles) /\ profiles' = Removed(active) /\ active' = Successor(active)
    BY <2>3, RemovedList DEF TypeOK
  <2>4. CASE UNCHANGED registry
    BY <2>4 DEF TypeOK, registry
  <2> QED BY <2>1, <2>2, <2>3, <2>4, BeginGoes
<1> QED BY <1>1, <1>2 DEF TypeOK, Typed, app, live

LEMMA EmptyMap == Empty \in Maps
BY DEF Empty, Maps

(* What the three load from a map.                                         *)
LEMMA LoadedTypes ==
  ASSUME NEW map \in Maps
  PROVE  /\ LoadedList(map) \in Lists /\ LoadedActive(map) \in Servers \cup {None}
         /\ LoadedList(map) # <<>> => LoadedActive(map) \in Ids(LoadedList(map))
         /\ Loaded(map) \in Pairing \cup {None}
<1>1. Loaded(map) # None => map.host \in Servers /\ map.token \in Profile
  BY DEF Loaded, Maps
<1>2. LoadedList(map) \in Lists
  <2>1. Legacy(map) => map.token \in Profile
    BY <1>1 DEF Legacy
  <2> QED BY <2>1, Singleton, EmptyList DEF LoadedList, Maps
<1>3. map.active \in Servers \cup {None}
  BY DEF Maps
<1>4. Loaded(map) \in Pairing \cup {None}
  BY DEF Loaded, Maps, Pairing
<1>5. LoadedList(map) # <<>> => /\ LoadedList(map)[1].server \in Ids(LoadedList(map))
                                /\ LoadedList(map)[1].server \in Servers
  BY <1>2, NonEmptyList, ProfileFields
<1> QED BY <1>2, <1>3, <1>4, <1>5 DEF LoadedActive

LEMMA LaunchType ==
  ASSUME TypeOK, Launch
  PROVE  TypeOK'
<1> USE DEF TypeOK
<1> DEFINE map == IF disk = Torn THEN Empty ELSE disk
<1>1. map \in Maps
  BY EmptyMap
<1>2. /\ profiles' = LoadedList(map) /\ active' = LoadedActive(map) /\ running' = TRUE
      /\ backend' = Loaded(map) /\ wg' = map.wg /\ tunnel' \in {tunnel, None}
      /\ cache' = map /\ UNCHANGED <<setting, disk, op>>
  BY DEF Launch
<1>3. saving' \in Savings
  BY DEF Launch, Savings
<1> HIDE DEF map
<1>4. map.wg \in Servers \cup {None}
  BY <1>1 DEF Maps
<1> QED BY <1>1, <1>2, <1>3, <1>4, LoadedTypes

(* The file and the map are all that a load or a rename changes when it    *)
(* stores the list.                                                        *)
Persists ==
  /\ running /\ saving # "no" /\ saving' \in Savings
  /\ \/ saving \in {"firstlist", "list"} /\ cache' = [cache EXCEPT !.list = profiles]
        /\ (disk' = cache' => saving' \in {"firstactive", "active"} \/ "registry" \in setting.faults)
     \/ saving \in {"firstactive", "active"} /\ cache' = [cache EXCEPT !.active = active]
        /\ (disk' = cache' => saving' = "no" \/ "registry" \in setting.faults)
  /\ disk' = cache' \/ ("registry" \in setting.faults /\ disk' \in {disk, Torn})
  /\ UNCHANGED <<running, setting, registry, live, op>>

LEMMA PersistGoes ==
  ASSUME PersistList \/ PersistActive
  PROVE  Persists
<1>1. CASE PersistList
  <2>1. saving \in {"firstlist", "list"} /\ cache' = [cache EXCEPT !.list = profiles]
    BY <1>1 DEF PersistList, Persist
  <2> QED BY <1>1, <2>1 DEF PersistList, Persist, Persists, Savings
<1>2. CASE PersistActive
  <2>1. saving \in {"firstactive", "active"} /\ cache' = [cache EXCEPT !.active = active]
    BY <1>2 DEF PersistActive, Persist
  <2> QED BY <1>2, <2>1 DEF PersistActive, Persist, Persists, Savings
<1> QED BY <1>1, <1>2

(* Launching and being killed, the other writes of the file, and the       *)
(* user's own hand on the tunnel.                                          *)
LEMMA OtherType ==
  ASSUME TypeOK, Kill \/ Rename \/ PersistList \/ PersistActive \/ OtherKey \/ UserTunnel \/ UNCHANGED vars
  PROVE  TypeOK'
<1> USE DEF TypeOK
<1>1. CASE Kill
  BY <1>1, EmptyList, EmptyMap DEF Kill, Savings
<1>2. CASE UserTunnel
  BY <1>2 DEF UserTunnel, app, registry
<1>3. CASE UNCHANGED vars
  BY <1>3 DEF vars, app, registry, live
<1>4. CASE Rename
  BY <1>4 DEF Rename, registry, live, Savings
<1>5. CASE PersistList \/ PersistActive
  <2>1. Persists
    BY <1>5, PersistGoes
  <2>2. cache' \in Maps
    <3>1. [cache EXCEPT !.list = profiles] \in Maps /\ [cache EXCEPT !.active = active] \in Maps
      BY DEF Maps
    <3> QED BY <2>1, <3>1 DEF Persists
  <2> QED BY <2>1, <2>2 DEF Persists, registry, live
<1>6. CASE OtherKey
  BY <1>6 DEF OtherKey, app, registry, live
<1> QED BY <1>1, <1>2, <1>3, <1>4, <1>5, <1>6

LEMMA StoresKeep ==
  ASSUME Rename \/ PersistList \/ PersistActive \/ OtherKey
  PROVE  running /\ UNCHANGED <<running, setting, registry, live, op>>
<1>1. CASE PersistList \/ PersistActive
  BY <1>1, PersistGoes DEF Persists
<1>2. CASE Rename \/ OtherKey
  BY <1>2 DEF Rename, OtherKey, app
<1> QED BY <1>1, <1>2

LEMMA InitType == Init => TypeOK
<1> SUFFICES ASSUME Init PROVE TypeOK
  OBVIOUS
<1>1. ASSUME NEW p \in [server : Servers, token : setting.tokens]
      PROVE  [Empty EXCEPT !.host = p.server, !.token = p, !.wg = ConfigOf(p)] \in Maps
  <2>1. p \in Profile
    BY ConstantsAssumption DEF Profile, Init, Setting
  <2> QED BY <2>1, ConfigType, ProfileFields DEF Empty, Maps
<1>2. disk \in Maps
  BY <1>1, EmptyMap DEF Init
<1> QED BY <1>2, EmptyMap, EmptyList DEF Init, TypeOK, Savings

(* Every variable of ServerActivation stays in its set, for any operations *)
(* under way at once, whatever fails and whenever the app is killed: in    *)
(* particular the list never holds two profiles of one server.             *)
THEOREM TypeCorrect == Spec => []TypeOK
<1>1. TypeOK /\ [Next]_vars => TypeOK'
  BY BeginType, StepType, LaunchType, OtherType DEF Next
<1> QED BY <1>1, InitType, PTL DEF Spec

--------------------------------------------------------------------------------
(* An app that has servers has an active one. *)

LEMMA ActiveOrEmpty ==
  ASSUME RegistryInv
  PROVE  IF Active = None THEN profiles = <<>>
         ELSE Active.server = active /\ Active \in Profile /\ Holds(profiles, Active)
BY LookupType DEF RegistryInv, TypeOK, Active

LEMMA StepRegistry ==
  ASSUME RegistryInv, NEW p \in Procs, Step(p)
  PROVE  RegistryInv'
<1>1. /\ op[p] \in Ops /\ op[p] # Idle /\ running /\ Moves(p) /\ UNCHANGED app
      /\ UNCHANGED registry \/ RegistryAfterThrow(p)
  BY StepGoes DEF RegistryInv
<1>2. PreviousKnown(op[p]) /\ op[p].before \in Lists
  BY <1>1, OpFields DEF RegistryInv
<1>3. profiles' # <<>> => active' \in Ids(profiles')
  <2>1. CASE UNCHANGED registry
    BY <2>1 DEF registry, RegistryInv
  <2>2. CASE /\ profiles' = op[p].before
             /\ active' = IF op[p].previous = None THEN None ELSE op[p].previous.server
    BY <1>2, <2>2, HeldIsFound DEF PreviousKnown
  <2>3. CASE profiles' = profiles /\ active' \in Ids(profiles)
    BY <2>3
  <2> QED BY <1>1, <2>1, <2>2, <2>3 DEF RegistryAfterThrow
<1>4. ASSUME NEW q \in Procs, op'[q] # Idle PROVE PreviousKnown(op'[q])
  <2>1. CASE q = p
    BY <1>1, <1>2, <1>4, <2>1 DEF Moves, PreviousKnown
  <2>2. CASE q # p
    BY <1>1, <1>4, <2>2 DEF Moves, RegistryInv
  <2> QED BY <2>1, <2>2
<1>5. TypeOK' /\ running'
  BY <1>1, StepType DEF RegistryInv, app
<1>6. saving' = "no"
  BY <1>1 DEF RegistryInv, app
<1> QED BY <1>3, <1>4, <1>5, <1>6 DEF RegistryInv

LEMMA BeginRegistry ==
  ASSUME RegistryInv, NEW p \in Procs, Begin(p)
  PROVE  RegistryInv'
<1> USE DEF RegistryInv
<1>1. /\ TypeOK' /\ running' /\ saving' = "no" /\ op'[p].previous = Active /\ op'[p].before = profiles
      /\ \A q \in Procs : q # p => op'[q] = op[q]
  BY BeginType, BeginGoes DEF app
<1>2. profiles' # <<>> => active' \in Ids(profiles')
  <2>1. CASE profiles' = profiles /\ op'[p].target.server = active' /\ Holds(profiles, op'[p].target)
    BY <2>1, HeldIsFound DEF TypeOK
  <2>2. CASE op'[p].target \in Profile /\ op'[p].target.server = active' /\ profiles' = Added(op'[p].target)
    BY <2>2, AddedList, HeldIsFound DEF TypeOK
  <2>3. CASE active \in Ids(profiles) /\ profiles' = Removed(active) /\ active' = Successor(active)
    BY <2>3, RemovedList DEF TypeOK
  <2>4. CASE UNCHANGED registry
    BY <2>4 DEF registry
  <2> QED BY <2>1, <2>2, <2>3, <2>4, BeginGoes
<1>3. PreviousKnown(op'[p])
  BY <1>1, ActiveOrEmpty DEF PreviousKnown
<1> QED BY <1>1, <1>2, <1>3

(* For any operations under way at once.                                   *)
THEOREM RegistryInvariant == Spec => []RegistryInv
<1>1. Init => RegistryInv
  BY InitType DEF Init, RegistryInv
<1>2. RegistryInv /\ [Next]_vars => RegistryInv'
  <2> SUFFICES ASSUME RegistryInv, [Next]_vars PROVE RegistryInv'
    OBVIOUS
  <2>t. TypeOK' 
    BY BeginType, StepType, LaunchType, OtherType DEF Next, RegistryInv
  <2>1. ASSUME NEW p \in Procs, Begin(p) \/ Step(p) PROVE RegistryInv'
    BY <2>1, StepRegistry, BeginRegistry
  <2>2. CASE Launch
    <3> DEFINE map == IF disk = Torn THEN Empty ELSE disk
    <3>1. map \in Maps
      BY EmptyMap DEF RegistryInv, TypeOK
    <3>2. /\ profiles' = LoadedList(map) /\ active' = LoadedActive(map)
          /\ running' = TRUE /\ ~running /\ op' = op
      BY <2>2 DEF Launch
    <3> HIDE DEF map
    <3>3. profiles' # <<>> => active' \in Ids(profiles')
      BY <3>1, <3>2, LoadedTypes
    <3> QED BY <2>t, <3>2, <3>3 DEF RegistryInv
  <2>3. CASE Kill
    BY <2>3, <2>t DEF Kill, RegistryInv
  <2>4. CASE UserTunnel \/ UNCHANGED vars
    BY <2>4, <2>t DEF UserTunnel, vars, app, registry, RegistryInv
  <2>5. CASE Rename \/ PersistList \/ PersistActive \/ OtherKey
    <3>1. UNCHANGED <<running, profiles, active, op>>
      BY <2>5, StoresKeep DEF registry
    <3>2. ASSUME NEW p \in Procs, op[p] # Idle PROVE saving' = "no"
      <4>1. saving = "no"
        BY <3>2 DEF RegistryInv
      <4> QED BY <2>5, <3>2, <4>1 DEF Rename, PersistList, PersistActive, OtherKey, app
    <3> QED BY <3>1, <3>2, <2>t DEF RegistryInv, PreviousKnown
  <2> QED BY <2>1, <2>2, <2>3, <2>4, <2>5 DEF Next
<1> QED BY <1>1, <1>2, PTL DEF Spec

(* Whatever write fails, however operations interleave and whenever the    *)
(* app is killed, an app that has servers has an active one: the launch    *)
(* repairs what the file holds, and undo code only ever puts back a list   *)
(* together with an active server of that list.                            *)
THEOREM ServersHaveActive == Spec => []SomeServerActive
<1>1. RegistryInv => SomeServerActive
  BY ActiveOrEmpty DEF SomeServerActive
<1> QED BY <1>1, RegistryInvariant, PTL

--------------------------------------------------------------------------------
(* One operation at a time: its undo code puts back what it found.         *)

LEMMA StepsAndPhases ==
  ASSUME NEW o \in Ops, o.step \in StepsOf(o.phase)
  PROVE  /\ o.step \in {"list", "active"} <=> o.phase \in {"registry", "undo"}
         /\ o.step \in {"stop", "start"} => o.phase \in {"activate", "restore"}
         /\ o.step \in {"wg", "host", "token"} =>
              o.phase \in {"activate", "restore", "clear", "forget"}
BY OpFields DEF StepsOf, Phases, OpSteps

(* The next step of the same phase. *)
LEMMA NextStepUndo ==
  ASSUME RegistryInv, NEW p \in Procs, op[p] \in Ops, UndoOf(op[p]),
         NEW step \in OpSteps, NextStep(p, step), step \in StepsOf(op[p].phase),
         UNCHANGED registry, step = "start" => backend' = PairingOf(op[p].target)
  PROVE  UndoOf(op[p])'
<1>1. /\ op'[p].phase = op[p].phase /\ op'[p].step = step /\ op'[p].target = op[p].target
      /\ op'[p].kind = op[p].kind /\ op'[p].previous = op[p].previous
      /\ op'[p].before = op[p].before /\ op'[p] # Idle
  BY NextStepGoes, OpsAreNotIdle DEF Moves, RegistryInv, TypeOK, Typed
<1> QED BY <1>1 DEF UndoOf, registry

(* The end of the undo phase. *)
LEMMA RestoreUndo ==
  ASSUME RegistryInv, NEW p \in Procs, op[p] \in Ops, UndoOf(op[p]), op[p].phase = "undo",
         Restore(p), UNCHANGED registry
  PROVE  UndoOf(op[p])'
<1>1. /\ op'[p].target = op[p].previous
      /\ op[p].previous = None => op'[p].phase = "clear" /\ op'[p].step = "host"
      /\ op[p].previous # None => op'[p].phase = "restore" /\ op'[p].step = "stop"
      /\ op'[p].kind = op[p].kind /\ op'[p].previous = op[p].previous
      /\ op'[p].before = op[p].before
  BY RestoreGoes, OpsAreNotIdle DEF Moves, RegistryInv, TypeOK, Typed
<1> QED BY <1>1 DEF UndoOf, registry, StepsOf

LEMMA ThrowUndo ==
  ASSUME RegistryInv, NEW p \in Procs, op[p] \in Ops, UndoOf(op[p]), Throw(p), op'[p] # Idle
  PROVE  UndoOf(op[p])'
<1>t. Typed /\ op[p].target \in Profile \cup {None} /\ op[p].kind \in {"switch", "pair", "remove"}
  BY OpFields DEF RegistryInv, TypeOK, Typed
<1>f. ~Finish(p)
  BY <1>t, FinishGoes
<1>1. CASE op[p].phase = "activate"
  <2>0. Undo(p) /\ op[p].target # None
    BY <1>1 DEF Throw, UndoOf
  <2>1. CASE op[p].kind = "remove"
    <3>1. /\ op'[p].phase = "clear" /\ op'[p].step = "host" /\ op'[p].target = None
          /\ op'[p].kind = "remove" /\ UNCHANGED registry
      BY <1>t, <2>0, <2>1, GotoGoes DEF Undo, Phases, OpSteps
    <3> QED BY <3>1 DEF UndoOf, StepsOf
  <2>2. CASE op[p].kind = "pair"
    <3>1. /\ op'[p].phase = "undo" /\ op'[p].step = "list" /\ op'[p].target = op[p].target
          /\ op'[p].kind = "pair" /\ op'[p].previous = op[p].previous /\ op'[p].before = op[p].before
      BY <1>t, <2>0, <2>2, GotoGoes DEF Undo, Phases, OpSteps
    <3>2. profiles' = op[p].before /\ active' = IF op[p].previous = None THEN None ELSE op[p].previous.server
      BY <2>0, <2>2 DEF Undo
    <3> QED BY <2>0, <3>1, <3>2 DEF UndoOf, StepsOf
  <2>3. CASE op[p].kind = "switch"
    <3>1. op[p].previous # None /\ op[p].previous.server # op[p].target.server
      BY <1>f, <2>0, <2>3 DEF Undo
    <3>2. active = op[p].target.server /\ profiles = op[p].before
      BY <1>1, <2>3 DEF UndoOf
    <3>3. op[p].previous.server \in Ids(profiles)
      <4>1. PreviousKnown(op[p]) /\ profiles \in Lists
        BY OpsAreNotIdle DEF RegistryInv, TypeOK
      <4> QED BY <3>1, <3>2, <4>1, HeldIsFound DEF PreviousKnown
    <3>4. /\ Goto(p, "undo", "list", op[p].target) /\ active' = op[p].previous.server
          /\ profiles' = profiles
      BY <2>0, <2>3, <3>1, <3>2, <3>3 DEF Undo
    <3>5. /\ op'[p].phase = "undo" /\ op'[p].step = "list" /\ op'[p].target = op[p].target
          /\ op'[p].kind = "switch" /\ op'[p].previous = op[p].previous /\ op'[p].before = op[p].before
      BY <1>t, <2>3, <3>4, GotoGoes DEF Phases, OpSteps
    <3> QED BY <2>0, <3>1, <3>2, <3>4, <3>5 DEF UndoOf, StepsOf
  <2> QED BY <1>t, <2>1, <2>2, <2>3
<1>2. CASE op[p].phase = "undo"
  BY <1>2, RestoreUndo DEF Throw
<1>3. CASE op[p].phase = "clear" /\ op[p].step # "wg"
  <2>1. NextStep(p, "wg") /\ UNCHANGED registry
    BY <1>3 DEF Throw
  <2> QED BY <1>3, <2>1, NextStepUndo DEF OpSteps, StepsOf
<1>4. CASE ~(op[p].phase = "activate" \/ op[p].phase = "undo" \/ (op[p].phase = "clear" /\ op[p].step # "wg"))
  BY <1>f, <1>4 DEF Throw
<1> QED BY <1>1, <1>2, <1>3, <1>4

LEMMA AfterRegistryUndo ==
  ASSUME RegistryInv, NEW p \in Procs, op[p] \in Ops, UndoOf(op[p]), op[p].step = "active",
         AfterRegistry(p), UNCHANGED registry
  PROVE  UndoOf(op[p])'
<1>t. /\ Typed /\ op[p].target \in Profile \cup {None} /\ op[p].kind \in {"switch", "pair", "remove"}
      /\ op[p].phase \in {"registry", "undo"} /\ Active \in Profile \cup {None}
  <2>1. op[p].phase \in {"registry", "undo"}
    BY StepsAndPhases DEF UndoOf
  <2> QED BY <2>1, OpFields, LookupType DEF RegistryInv, TypeOK, Typed, Active
<1>1. CASE op[p].phase = "undo"
  BY <1>1, RestoreUndo DEF AfterRegistry
<1>2. CASE op[p].phase = "registry" /\ op[p].kind # "remove"
  <2>1. op[p].target # None /\ active = op[p].target.server /\ Holds(profiles, op[p].target)
    BY <1>2 DEF UndoOf
  <2>2. Goto(p, "activate", "stop", op[p].target)
    BY <1>2 DEF AfterRegistry
  <2>3. /\ op'[p].phase = "activate" /\ op'[p].step = "stop" /\ op'[p].target = op[p].target
        /\ op'[p].kind = op[p].kind /\ op'[p].before = op[p].before
    BY <1>t, <2>2, GotoGoes DEF Phases, OpSteps
  <2> QED BY <1>2, <2>1, <2>3 DEF UndoOf, StepsOf, registry
<1>3. CASE op[p].phase = "registry" /\ op[p].kind = "remove" /\ Active = None
  <2>1. Goto(p, "forget", "host", None)
    BY <1>3 DEF AfterRegistry
  <2>2. /\ op'[p].phase = "forget" /\ op'[p].step = "host" /\ op'[p].target = None
        /\ op'[p].kind = "remove"
    BY <1>t, <1>3, <2>1, GotoGoes DEF Phases, OpSteps
  <2> QED BY <2>2 DEF UndoOf, StepsOf
<1>4. CASE op[p].phase = "registry" /\ op[p].kind = "remove" /\ Active # None
  <2>1. Active.server = active /\ Holds(profiles, Active)
    BY <1>4, ActiveOrEmpty
  <2>2. Goto(p, "activate", "stop", Active)
    BY <1>4 DEF AfterRegistry
  <2>3. /\ op'[p].phase = "activate" /\ op'[p].step = "stop" /\ op'[p].target = Active
        /\ op'[p].kind = "remove"
    BY <1>t, <1>4, <2>2, GotoGoes DEF Phases, OpSteps
  <2> QED BY <1>4, <2>1, <2>3 DEF UndoOf, StepsOf, registry
<1> QED BY <1>t, <1>1, <1>2, <1>3, <1>4

LEMMA StepUndo ==
  ASSUME RegistryInv, NEW p \in Procs, UndoOf(op[p]), Step(p), op'[p] # Idle
  PROVE  UndoOf(op[p])'
<1>t. Typed /\ op[p] \in Ops /\ op[p].phase \in Phases
  BY StepGoes, OpFields DEF RegistryInv, TypeOK, Typed
<1>f. ~Finish(p)
  BY <1>t, FinishGoes
<1>e. ASSUME NEW new, Failed(p, new) PROVE UndoOf(op[p])'
  BY <1>e, <1>t, ThrowUndo DEF Failed
<1>s. op[p].step \in StepsOf(op[p].phase)
  BY DEF UndoOf
<1>1. CASE SaveList(p)
  <2>1. op[p].phase \in {"registry", "undo"}
    BY <1>1, <1>t, <1>s, StepsAndPhases DEF SaveList, At
  <2>2. "active" \in StepsOf(op[p].phase) /\ "active" \in OpSteps
    BY <2>1 DEF StepsOf, OpSteps
  <2> QED BY <1>1, <1>t, <1>e, <2>2, NextStepUndo DEF SaveList
<1>2. CASE SaveActive(p)
  BY <1>2, <1>t, <1>e, AfterRegistryUndo DEF SaveActive, At
<1>3. CASE StopTunnel(p)
  <2>1. op[p].phase \in {"activate", "restore"}
    BY <1>3, <1>t, <1>s, StepsAndPhases DEF StopTunnel, At
  <2>2. "wg" \in StepsOf(op[p].phase) /\ "wg" \in OpSteps
    BY <2>1 DEF StepsOf, OpSteps
  <2> QED BY <1>3, <1>t, <2>2, NextStepUndo DEF StopTunnel
<1>4. CASE SaveConfig(p)
  <2>1. op[p].phase \in {"activate", "restore", "clear", "forget"}
    BY <1>4, <1>t, <1>s, StepsAndPhases DEF SaveConfig, At
  <2>2. "host" \in StepsOf(op[p].phase) /\ "host" \in OpSteps
    BY <2>1 DEF StepsOf, OpSteps
  <2> QED BY <1>4, <1>t, <1>e, <1>f, <2>2, NextStepUndo DEF SaveConfig
<1>5. CASE SaveHost(p)
  <2>1. op[p].phase \in {"activate", "restore", "clear", "forget"}
    BY <1>5, <1>t, <1>s, StepsAndPhases DEF SaveHost, At
  <2>2. "token" \in StepsOf(op[p].phase) /\ "token" \in OpSteps
    BY <2>1 DEF StepsOf, OpSteps
  <2> QED BY <1>5, <1>t, <1>e, <2>2, NextStepUndo DEF SaveHost
<1>6. CASE SaveToken(p)
  <2>1. op[p].phase \in {"activate", "restore", "clear", "forget"}
    BY <1>6, <1>t, <1>s, StepsAndPhases DEF SaveToken, At
  <2>2. CASE op[p].target = None
    <3>1. "wg" \in StepsOf(op[p].phase) /\ "wg" \in OpSteps
      BY <2>1 DEF StepsOf, OpSteps
    <3> QED BY <1>6, <1>t, <1>e, <2>2, <3>1, NextStepUndo DEF SaveToken
  <2>3. CASE op[p].target # None
    <3>1. op[p].phase \in {"activate", "restore"}
      BY <2>1, <2>3 DEF UndoOf
    <3>2. "start" \in StepsOf(op[p].phase) /\ "start" \in OpSteps
      BY <3>1 DEF StepsOf, OpSteps
    <3>3. \/ NextStep(p, "start") /\ backend' = PairingOf(op[p].target) /\ UNCHANGED registry
          \/ Failed(p, [cache EXCEPT !.token = op[p].target])
      BY <1>6, <1>f, <2>3 DEF SaveToken
    <3> QED BY <1>t, <1>e, <3>2, <3>3, NextStepUndo
  <2> QED BY <2>2, <2>3
<1>7. CASE StartTunnel(p)
  BY <1>7, <1>f DEF StartTunnel
<1> QED BY <1>1, <1>2, <1>3, <1>4, <1>5, <1>6, <1>7 DEF Step

LEMMA BeginUndo ==
  ASSUME RegistryInv, NEW p \in Procs, Begin(p)
  PROVE  UndoOf(op[p])'
<1>1. TypeOK
  BY DEF RegistryInv
<1>2. CASE /\ op'[p].kind = "switch" /\ profiles' = profiles
           /\ op'[p].target \in Profile /\ op'[p].target.server = active' /\ Holds(profiles, op'[p].target)
           /\ \/ op'[p].phase = "activate" /\ op'[p].step = "stop"
              \/ op'[p].phase = "registry" /\ op'[p].step = "list"
  BY <1>1, <1>2, BeginGoes, ProfileFields DEF UndoOf, StepsOf
<1>3. CASE /\ op'[p].kind = "pair" /\ op'[p].phase = "registry" /\ op'[p].step = "list"
           /\ op'[p].target \in Profile /\ op'[p].target.server = active'
           /\ profiles' = Added(op'[p].target)
  <2>1. Holds(profiles', op'[p].target) /\ op'[p].target # None
    BY <1>1, <1>3, AddedList, ProfileFields DEF TypeOK
  <2> QED BY <1>3, <2>1 DEF UndoOf, StepsOf
<1>4. CASE /\ op'[p].kind = "remove" /\ op'[p].target = None
           /\ \/ op'[p].phase = "forget" /\ op'[p].step = "host"
              \/ op'[p].phase = "registry" /\ op'[p].step = "list"
  BY <1>4 DEF UndoOf, StepsOf
<1> QED BY <1>1, <1>2, <1>3, <1>4, BeginGoes

(* The undo code of an operation that runs alone finds the registry as the *)
(* operation left it, and so can put it back.                              *)
THEOREM UndoInvariant == ASSUME OneAtATime PROVE Spec => []UndoInv
<1>1. Init => UndoInv
  BY InitType DEF Init, RegistryInv, UndoInv
<1>2. RegistryInv' /\ UndoInv /\ [Next]_vars => UndoInv'
  <2> SUFFICES ASSUME RegistryInv', UndoInv, [Next]_vars,
                      NEW p \in Procs, op'[p] # Idle
               PROVE  UndoOf(op[p])'
    BY DEF UndoInv
  <2>1. CASE \E q \in Procs : Begin(q)
    BY <2>1, BeginUndo DEF OneAtATime, UndoInv
  <2>2. CASE \E q \in Procs : Step(q)
    <3>1. Step(p)
      BY <2>2 DEF OneAtATime
    <3>2. UndoOf(op[p]) /\ RegistryInv
      BY <3>1, StepGoes DEF UndoInv, RegistryInv
    <3> QED BY <3>1, <3>2, StepUndo
  <2>3. CASE Launch
    BY <2>3 DEF Launch, UndoInv, RegistryInv
  <2>4. CASE Kill
    BY <2>4 DEF Kill
  <2>5. CASE UserTunnel \/ UNCHANGED vars
    BY <2>5 DEF UserTunnel, vars, app, registry, live, UndoInv, UndoOf
  <2>6. CASE Rename \/ PersistList \/ PersistActive \/ OtherKey
    <3>1. UNCHANGED <<registry, live, op>>
      BY <2>6, StoresKeep
    <3> QED BY <3>1 DEF registry, live, UndoInv, UndoOf
  <2> QED BY <2>1, <2>2, <2>3, <2>4, <2>5, <2>6 DEF Next
<1> QED BY <1>1, <1>2, RegistryInvariant, PTL DEF Spec

(* Giving up the pairing begins with its first write, and the activation   *)
(* that brings the previous server back with the tunnel.                   *)
Fresh(o) ==
  /\ o.phase \in {"clear", "forget"} => o.step = "host"
  /\ o.phase = "restore" => o.step = "stop"

LEMMA RestoreFresh ==
  ASSUME Typed, NEW p \in Procs, op[p] \in Ops, Restore(p)
  PROVE  Fresh(op[p])'
BY RestoreGoes DEF Fresh

LEMMA ThrowFresh ==
  ASSUME Typed, NEW p \in Procs, op[p] \in Ops, op[p].phase # "clear", Throw(p), op'[p] # Idle
  PROVE  Fresh(op[p])'
<1>t. op[p].target \in Profile \cup {None} /\ op[p].kind \in {"switch", "pair", "remove"} /\ ~Finish(p)
  BY OpFields, FinishGoes
<1>g. Goto(p, "undo", "list", op[p].target) \/ Goto(p, "clear", "host", None) => Fresh(op[p])'
  BY <1>t, GotoGoes DEF Fresh, Phases, OpSteps
<1>1. CASE op[p].phase = "activate"
  <2>0. Undo(p)
    BY <1>1 DEF Throw
  <2>1. CASE op[p].kind \in {"remove", "pair"}
    BY <1>g, <2>0, <2>1 DEF Undo
  <2>2. CASE op[p].kind = "switch"
    BY <1>t, <1>g, <2>0, <2>2, RestoreFresh DEF Undo
  <2> QED BY <1>t, <2>1, <2>2
<1>2. CASE op[p].phase = "undo"
  BY <1>2, RestoreFresh DEF Throw
<1>3. CASE op[p].phase \notin {"activate", "undo"}
  BY <1>t, <1>3 DEF Throw
<1> QED BY <1>1, <1>2, <1>3

LEMMA AfterRegistryFresh ==
  ASSUME TypeOK, NEW p \in Procs, op[p] \in Ops, AfterRegistry(p)
  PROVE  Fresh(op[p])'
<1>t. /\ Typed /\ op[p].target \in Profile \cup {None} /\ Active \in Profile \cup {None}
  BY OpFields, LookupType DEF TypeOK, Typed, Active
<1>1. CASE op[p].phase = "undo"
  BY <1>t, <1>1, RestoreFresh DEF AfterRegistry
<1>2. CASE op[p].phase # "undo"
  <2>1. \/ Goto(p, "activate", "stop", op[p].target) \/ Goto(p, "activate", "stop", Active)
        \/ Goto(p, "forget", "host", None)
    BY <1>2 DEF AfterRegistry
  <2> QED BY <1>t, <2>1, GotoGoes DEF Fresh, Phases, OpSteps
<1> QED BY <1>1, <1>2

(* How far the activation that brings the previous server back, and the    *)
(* clearing where there was none, have come.                               *)
UndoneOf(o) ==
  /\ o.phase = "restore" /\ o.step \in {"host", "token", "start"} => wg = ConfigOf(o.target)
  /\ o.phase = "clear" /\ o.step = "wg" /\ "clear" \notin setting.faults => backend = None

Undoing(p) ==
  /\ op[p].kind # "remove" /\ op[p].phase \in {"undo", "restore", "clear"}
  /\ op[p].phase \notin setting.faults

LEMMA StepUndone ==
  ASSUME RegistryInv, NEW p \in Procs, UndoOf(op[p]), UndoneOf(op[p]), Step(p)
  PROVE  /\ op'[p] # Idle => UndoneOf(op[p])'
         /\ op'[p] = Idle /\ Undoing(p) =>
              /\ profiles' = op[p].before
              /\ IF op[p].previous = None
                 THEN active' = None /\ backend' = None /\ wg' = None
                 ELSE /\ active' = op[p].previous.server /\ backend' = PairingOf(op[p].previous)
                      /\ wg' = ConfigOf(op[p].previous)
<1> DEFINE After == op'[p] # Idle => UndoneOf(op[p])'
           Ended == op'[p] = Idle /\ Undoing(p) =>
              /\ profiles' = op[p].before
              /\ IF op[p].previous = None
                 THEN active' = None /\ backend' = None /\ wg' = None
                 ELSE /\ active' = op[p].previous.server /\ backend' = PairingOf(op[p].previous)
                      /\ wg' = ConfigOf(op[p].previous)
<1>t. /\ TypeOK /\ Typed /\ op[p] \in Ops /\ op[p] # Idle /\ op[p].phase \in Phases /\ setting' = setting
      /\ op[p].step \in StepsOf(op[p].phase) /\ op[p].target \in Profile \cup {None}
      /\ op[p].previous \in Profile \cup {None} /\ op[p].kind \in {"switch", "pair", "remove"}
  BY StepGoes, OpFields DEF RegistryInv, TypeOK, Typed, UndoOf, app
<1>i. Finish(p) => op'[p] = Idle
  BY <1>t, FinishGoes
<1>n. ASSUME NEW step \in OpSteps, NextStep(p, step)
      PROVE  op'[p] # Idle /\ op'[p].phase = op[p].phase /\ op'[p].step = step /\ op'[p].target = op[p].target
  BY <1>t, <1>n, NextStepGoes, OpsAreNotIdle
<1>r. Fresh(op[p])' => After
  BY DEF Fresh, UndoneOf
<1>e. ASSUME NEW new, Failed(p, new) PROVE After /\ Ended
  <2>1. op[p].phase \in setting.faults /\ Throw(p)
    BY <1>e DEF Failed
  <2>2. CASE op[p].phase # "clear"
    BY <1>t, <1>r, <2>1, <2>2, ThrowFresh DEF Undoing
  <2>3. CASE op[p].phase = "clear"
    <3>1. op'[p] = Idle \/ op'[p].phase = "clear"
      BY <1>i, <1>n, <2>1, <2>3 DEF Throw, OpSteps
    <3> QED BY <1>t, <2>1, <2>3, <3>1 DEF UndoneOf, Undoing
  <2> QED BY <2>2, <2>3
<1>1. CASE SaveList(p)
  <2>1. op[p].phase \in {"registry", "undo"}
    BY <1>1, <1>t, StepsAndPhases DEF SaveList, At
  <2>2. CASE NextStep(p, "active")
    <3>1. op'[p] # Idle /\ op'[p].phase \in {"registry", "undo"}
      BY <1>n, <2>1, <2>2 DEF OpSteps
    <3> QED BY <3>1 DEF UndoneOf
  <2> QED BY <1>1, <1>e, <2>2 DEF SaveList
<1>2. CASE SaveActive(p)
  <2>1. CASE AfterRegistry(p)
    <3>1. op'[p] # Idle
      BY <1>t, <2>1, AfterRegistryGoes, OpsAreNotIdle DEF TypeOK
    <3> QED BY <1>t, <1>r, <2>1, <3>1, AfterRegistryFresh
  <2> QED BY <1>2, <1>e, <2>1 DEF SaveActive
<1>3. CASE StopTunnel(p)
  <2>1. op[p].phase \in {"activate", "restore"} /\ NextStep(p, "wg")
    BY <1>3, <1>t, StepsAndPhases DEF StopTunnel, At
  <2>2. op'[p] # Idle /\ op'[p].phase \in {"activate", "restore"} /\ op'[p].step = "wg"
    BY <1>n, <2>1 DEF OpSteps
  <2> QED BY <2>2 DEF UndoneOf
<1>4. CASE SaveConfig(p)
  <2>1. op[p].step = "wg" /\ op[p].phase \in {"activate", "restore", "clear", "forget"}
    BY <1>4, <1>t, StepsAndPhases DEF SaveConfig, At
  <2>2. CASE op[p].target = None /\ Finish(p) /\ wg' = None /\ UNCHANGED <<registry, backend>>
    BY <1>t, <1>i, <2>1, <2>2 DEF UndoneOf, UndoOf, Undoing, registry
  <2>3. CASE op[p].target # None /\ NextStep(p, "host") /\ wg' = ConfigOf(op[p].target)
    <3>1. op'[p] # Idle /\ op'[p].step = "host" /\ op'[p].target = op[p].target
      BY <1>n, <2>3 DEF OpSteps
    <3> QED BY <2>3, <3>1 DEF UndoneOf
  <2> QED BY <1>4, <1>e, <2>2, <2>3 DEF SaveConfig
<1>5. CASE SaveHost(p)
  <2>1. op[p].step = "host"
    BY <1>5 DEF SaveHost, At
  <2>2. CASE NextStep(p, "token") /\ UNCHANGED wg
    <3>1. op'[p] # Idle /\ op'[p].step = "token" /\ op'[p].target = op[p].target /\ op'[p].phase = op[p].phase
      BY <1>n, <2>2 DEF OpSteps
    <3> QED BY <2>1, <2>2, <3>1 DEF UndoneOf
  <2> QED BY <1>5, <1>e, <2>2 DEF SaveHost
<1>6. CASE SaveToken(p)
  <2>1. op[p].step = "token" /\ op[p].phase \in {"activate", "restore", "clear", "forget"}
    BY <1>6, <1>t, StepsAndPhases DEF SaveToken, At
  <2>2. CASE op[p].target = None /\ NextStep(p, "wg") /\ backend' = None /\ UNCHANGED wg
    <3>1. op'[p] # Idle /\ op'[p].step = "wg" /\ op'[p].phase = op[p].phase
      BY <1>n, <2>2 DEF OpSteps
    <3> QED BY <2>2, <3>1 DEF UndoneOf
  <2>3. CASE op[p].target # None /\ NextStep(p, "start") /\ UNCHANGED wg
    <3>1. op'[p] # Idle /\ op'[p].step = "start" /\ op'[p].target = op[p].target /\ op'[p].phase = op[p].phase
      BY <1>n, <2>3 DEF OpSteps
    <3> QED BY <2>1, <2>3, <3>1 DEF UndoneOf
  <2>4. CASE op[p].target # None /\ Finish(p) /\ backend' = PairingOf(op[p].target) /\ UNCHANGED <<registry, wg>>
    <3>1. op'[p] = Idle /\ op[p].phase \in {"activate", "restore"}
      BY <1>i, <2>1, <2>4 DEF UndoOf
    <3>2. CASE Undoing(p)
      <4>1. /\ op[p].phase = "restore" /\ op[p].target = op[p].previous /\ profiles = op[p].before
            /\ active = op[p].previous.server /\ op[p].previous # None /\ wg = ConfigOf(op[p].target)
        BY <2>1, <2>4, <3>1, <3>2 DEF Undoing, UndoOf, UndoneOf
      <4> QED BY <2>4, <3>1, <4>1 DEF registry
    <3> QED BY <3>1, <3>2
  <2> QED BY <1>6, <1>e, <2>2, <2>3, <2>4 DEF SaveToken
<1>7. CASE StartTunnel(p)
  <2>1. /\ op[p].step = "start" /\ op[p].phase \in {"activate", "restore"} /\ op'[p] = Idle
        /\ UNCHANGED <<registry, backend, wg>>
    BY <1>7, <1>t, <1>i, StepsAndPhases DEF StartTunnel, At
  <2>2. CASE Undoing(p)
    <3>1. /\ op[p].phase = "restore" /\ op[p].target = op[p].previous /\ profiles = op[p].before
          /\ op[p].target # None /\ active = op[p].previous.server /\ backend = PairingOf(op[p].target)
          /\ wg = ConfigOf(op[p].target)
      BY <2>1, <2>2 DEF Undoing, UndoOf, UndoneOf
    <3> QED BY <2>1, <3>1 DEF registry
  <2> QED BY <2>1, <2>2
<1> QED BY <1>1, <1>2, <1>3, <1>4, <1>5, <1>6, <1>7 DEF Step

(* A pairing, or a switch to another server, whose activation fails leaves *)
(* the list, the active server and the live pairing as they were before it *)
(* began, also where there was no server before, whichever writes of the   *)
(* activation and of the registry's rollback failed and whenever the app   *)
(* is killed, if what brings the previous server back, or clears, does not *)
(* fail too.                                                               *)
THEOREM FailedActivationsUndone == ASSUME OneAtATime PROVE Spec => FailedActivationUndone
<1> DEFINE Undone(p) ==
             /\ op[p] # Idle /\ op[p].kind # "remove" /\ op[p].phase \in {"undo", "restore", "clear"}
             /\ op'[p] = Idle /\ running' /\ op[p].phase \notin setting.faults
             => /\ profiles' = op[p].before
                /\ IF op[p].previous = None
                   THEN active' = None /\ backend' = None /\ wg' = None
                   ELSE /\ active' = op[p].previous.server /\ backend' = PairingOf(op[p].previous)
                        /\ wg' = ConfigOf(op[p].previous)
<1>1. Init => \A p \in Procs : op[p] # Idle => UndoneOf(op[p])
  BY DEF Init
<1>2. /\ UndoInv /\ (\A p \in Procs : op[p] # Idle => UndoneOf(op[p])) /\ [Next]_vars
      => (\A p \in Procs : op[p] # Idle => UndoneOf(op[p]))' /\ \A p \in Procs : Undone(p)
  <2> SUFFICES ASSUME UndoInv, \A p \in Procs : op[p] # Idle => UndoneOf(op[p]), [Next]_vars, NEW p \in Procs
               PROVE  (op'[p] # Idle => UndoneOf(op[p])') /\ Undone(p)
    OBVIOUS
  <2>1. RegistryInv /\ TypeOK /\ (op[p] # Idle => UndoOf(op[p])) /\ \A q \in Procs : q = p
    BY DEF UndoInv, RegistryInv, OneAtATime
  <2>2. CASE \E q \in Procs : Begin(q)
    <3>1. op[p] = Idle /\ op'[p].phase \in {"registry", "activate", "forget"}
      BY <2>1, <2>2, BeginGoes
    <3> QED BY <3>1 DEF UndoneOf
  <2>3. CASE Step(p)
    <3>1. op[p] # Idle
      BY <2>1, <2>3, StepGoes
    <3> QED BY <2>1, <2>3, <3>1, StepUndone DEF Undoing
  <2>4. CASE Launch
    BY <2>1, <2>4 DEF Launch, RegistryInv
  <2>5. CASE Kill
    BY <2>5 DEF Kill
  <2>6. CASE UserTunnel \/ UNCHANGED vars
    BY <2>6 DEF UserTunnel, vars, app, registry, live, UndoneOf
  <2>7. CASE Rename \/ PersistList \/ PersistActive \/ OtherKey
    BY <2>7, StoresKeep DEF live, UndoneOf
  <2> QED BY <2>1, <2>2, <2>3, <2>4, <2>5, <2>6, <2>7 DEF Next
<1>3. (\A p \in Procs : Undone(p)) => [\A p \in Procs : Undone(p)]_vars
  OBVIOUS
<1> QED BY <1>1, <1>2, <1>3, UndoInvariant, PTL DEF Spec, FailedActivationUndone

--------------------------------------------------------------------------------
(* One operation at a time, and forgiving settings: the live connection    *)
(* and the tunnel follow the registry.                                     *)

LEMMA ForgivenFaults ==
  ASSUME Forgiving
  PROVE  /\ ~setting.crashes /\ Disconnected = {None}
         /\ \A p \in Procs : \A new : Failed(p, new) => op[p].phase \in {"activate", "undo"}
BY DEF Forgiving, Disconnected, Failed

(* A connection to q, through q's tunnel or none, is a settled state when  *)
(* q is the active profile.                                                *)
LEMMA SettledAt ==
  ASSUME NEW q, Holds(profiles', q), active' = q.server,
         backend' = PairingOf(q), wg' = ConfigOf(q), tunnel' \in {None, active'}
  PROVE  LiveSettled'
BY DEF LiveSettled, Holds, PointsAt

LEMMA SettledUnpaired ==
  ASSUME backend' = None, tunnel' = None
  PROVE  LiveSettled'
BY DEF LiveSettled

(* Where undo code begins, nothing is required but that no tunnel is up.   *)
LEMMA UndoBegins ==
  ASSUME NEW p \in Procs, tunnel' = None,
         \/ op'[p].phase = "undo" /\ op'[p].step \in {"list", "active"}
         \/ op'[p].phase = "restore" /\ op'[p].step = "stop"
         \/ op'[p].phase = "clear" /\ op'[p].step \in {"host", "token"}
  PROVE  LiveOf(op[p])'
BY DEF LiveOf

(* What one step of p leaves: an operation still under way, or none.       *)
LiveAfter(p) == IF op[p] = Idle THEN LiveSettled ELSE LiveOf(op[p])

LEMMA RestoreLive ==
  ASSUME RegistryInv, NEW p \in Procs, op[p] \in Ops, Restore(p), tunnel' = None
  PROVE  LiveAfter(p)'
<1>1. /\ op'[p] # Idle
      /\ \/ op'[p].phase = "clear" /\ op'[p].step = "host"
         \/ op'[p].phase = "restore" /\ op'[p].step = "stop"
  BY RestoreGoes, OpsAreNotIdle DEF RegistryInv, TypeOK, Typed
<1> QED BY <1>1, UndoBegins DEF LiveAfter

(* An activation has failed: the undo code begins with no tunnel up, or    *)
(* what was to be activated is live already.                               *)
LEMMA UndoLive ==
  ASSUME RegistryInv, NEW p \in Procs, op[p] \in Ops, UndoOf(op[p]), LiveOf(op[p]),
         op[p].phase = "activate", Undo(p), tunnel' = None, UNCHANGED <<backend, wg>>
  PROVE  LiveAfter(p)'
<1>t. /\ Typed /\ op[p].target \in Profile /\ op[p].kind \in {"switch", "pair", "remove"}
      /\ active = op[p].target.server /\ Holds(profiles, op[p].target)
  BY OpFields DEF RegistryInv, TypeOK, Typed, UndoOf
<1>1. CASE op[p].kind = "remove"
  <2>1. op'[p] \in Ops /\ op'[p].phase = "clear" /\ op'[p].step = "host"
    BY <1>t, <1>1, GotoGoes DEF Undo, Phases, OpSteps
  <2> QED BY <2>1, UndoBegins, OpsAreNotIdle DEF LiveAfter
<1>2. CASE op[p].kind = "pair"
  <2>1. op'[p] \in Ops /\ op'[p].phase = "undo" /\ op'[p].step = "list"
    BY <1>t, <1>2, GotoGoes DEF Undo, Phases, OpSteps
  <2> QED BY <2>1, UndoBegins, OpsAreNotIdle DEF LiveAfter
<1>3. CASE op[p].kind = "switch" /\ (op[p].previous = None \/ op[p].previous.server = op[p].target.server)
  <2>1. Finish(p) /\ UNCHANGED registry
    BY <1>3 DEF Undo
  <2>2. op[p].previous # None
    BY <1>t, <1>3, EmptyList, OpsAreNotIdle DEF RegistryInv, PreviousKnown, UndoOf
  <2>3. backend = None \/ (backend = PairingOf(op[p].target) /\ wg = ConfigOf(op[p].target))
    BY <1>3, <2>2 DEF LiveOf, PointsAt
  <2>4. LiveSettled'
    <3>1. CASE backend = None
      BY <3>1, SettledUnpaired
    <3>2. CASE backend = PairingOf(op[p].target) /\ wg = ConfigOf(op[p].target)
      BY <1>t, <2>1, <3>2, SettledAt DEF registry
    <3> QED BY <2>3, <3>1, <3>2
  <2> QED BY <1>t, <2>1, <2>4, FinishGoes DEF LiveAfter
<1>4. CASE op[p].kind = "switch" /\ ~(op[p].previous = None \/ op[p].previous.server = op[p].target.server)
  <2>1. CASE Restore(p)
    BY <2>1, RestoreLive
  <2>2. CASE Goto(p, "undo", "list", op[p].target)
    <3>1. op'[p] \in Ops /\ op'[p].phase = "undo" /\ op'[p].step = "list"
      BY <1>t, <2>2, GotoGoes DEF Phases, OpSteps
    <3> QED BY <3>1, UndoBegins, OpsAreNotIdle DEF LiveAfter
  <2> QED BY <1>4, <2>1, <2>2 DEF Undo
<1> QED BY <1>t, <1>1, <1>2, <1>3, <1>4

(* A write that may fail has failed after the tunnel went down. *)
LEMMA FailedLive ==
  ASSUME RegistryInv, Forgiving, NEW p \in Procs, op[p] \in Ops, UndoOf(op[p]), LiveOf(op[p]),
         NEW new, Failed(p, new), tunnel' = None
  PROVE  LiveAfter(p)'
<1>1. op[p].phase \in {"activate", "undo"} /\ Throw(p) /\ UNCHANGED <<backend, wg>>
  BY ForgivenFaults DEF Failed
<1>2. CASE op[p].phase = "activate"
  BY <1>1, <1>2, UndoLive DEF Throw
<1>3. CASE op[p].phase = "undo"
  BY <1>1, <1>3, RestoreLive DEF Throw
<1> QED BY <1>1, <1>2, <1>3

LEMMA NextStepLive ==
  ASSUME RegistryInv, NEW p \in Procs, op[p] \in Ops, LiveOf(op[p]),
         NEW step \in OpSteps, NextStep(p, step),
         op[p].phase \in {"activate", "restore"} /\ step \in {"host", "token", "start"} =>
           wg' = ConfigOf(op[p].target),
         step = "start" => ConfigOf(op[p].target) # None,
         op[p].phase \in {"activate", "undo", "restore", "clear"} /\ step # "stop" => tunnel' = None,
         op[p].phase \in {"clear", "forget"} /\ step = "wg" => backend' = None,
         step # "stop",
         backend' = None \/ (backend' = backend /\ wg' = wg)
           \/ (backend' = PairingOf(op[p].target) /\ wg' = ConfigOf(op[p].target))
           \/ (backend' = backend /\ wg' = ConfigOf(op[p].target))
  PROVE  LiveAfter(p)'
<1>1. /\ op'[p].phase = op[p].phase /\ op'[p].step = step /\ op'[p].target = op[p].target
      /\ op'[p].kind = op[p].kind /\ op'[p].previous = op[p].previous /\ op'[p] # Idle
  BY NextStepGoes, OpsAreNotIdle DEF Moves, RegistryInv, TypeOK, Typed
<1>2. LiveOf(op[p])'
  BY <1>1 DEF LiveOf, PointsAt
<1> QED BY <1>1, <1>2 DEF LiveAfter

LEMMA AfterRegistryLive ==
  ASSUME RegistryInv, NEW p \in Procs, op[p] \in Ops, UndoOf(op[p]), LiveOf(op[p]),
         op[p].step = "active", AfterRegistry(p), UNCHANGED <<registry, live>>
  PROVE  LiveAfter(p)'
<1>t. /\ Typed /\ op[p].target \in Profile \cup {None} /\ op[p].kind \in {"switch", "pair", "remove"}
      /\ op[p].phase \in {"registry", "undo"} /\ Active \in Profile \cup {None}
  <2>1. op[p].phase \in {"registry", "undo"}
    BY StepsAndPhases DEF UndoOf
  <2> QED BY <2>1, OpFields, LookupType DEF RegistryInv, TypeOK, Typed, Active
<1>1. CASE op[p].phase = "undo"
  <2>1. tunnel' = None /\ Restore(p)
    BY <1>1 DEF LiveOf, live, AfterRegistry
  <2> QED BY <2>1, RestoreLive
<1>2. CASE op[p].phase = "registry" /\ op[p].kind # "remove"
  <2>1. Goto(p, "activate", "stop", op[p].target)
    BY <1>2 DEF AfterRegistry
  <2>2. /\ op'[p] \in Ops /\ op'[p].phase = "activate" /\ op'[p].step = "stop"
        /\ op'[p].target = op[p].target /\ op'[p].kind = op[p].kind /\ op'[p].previous = op[p].previous
    BY <1>t, <2>1, GotoGoes DEF Phases, OpSteps
  <2>3. op[p].kind = "switch" => op[p].previous.server # op[p].target.server
    BY <1>2 DEF LiveOf
  <2>4. LiveOf(op[p])'
    BY <2>2, <2>3 DEF LiveOf
  <2> QED BY <2>2, <2>4, OpsAreNotIdle DEF LiveAfter
<1>3. CASE op[p].phase = "registry" /\ op[p].kind = "remove"
  <2>1. Goto(p, "forget", "host", None) \/ (Active # None /\ Goto(p, "activate", "stop", Active))
    BY <1>3 DEF AfterRegistry
  <2>2. /\ op'[p] \in Ops /\ op'[p].kind = "remove"
        /\ \/ op'[p].phase = "forget" /\ op'[p].step = "host"
           \/ op'[p].phase = "activate" /\ op'[p].step = "stop"
    BY <1>t, <1>3, <2>1, GotoGoes DEF Phases, OpSteps
  <2>3. LiveOf(op[p])'
    BY <2>2 DEF LiveOf
  <2> QED BY <2>2, <2>3, OpsAreNotIdle DEF LiveAfter
<1> QED BY <1>t, <1>1, <1>2, <1>3

LEMMA StepLive ==
  ASSUME RegistryInv, Forgiving, NEW p \in Procs, UndoOf(op[p]), LiveOf(op[p]), Step(p)
  PROVE  LiveAfter(p)'
<1>t. /\ Typed /\ op[p] \in Ops /\ op[p].phase \in Phases /\ op[p].step \in StepsOf(op[p].phase)
      /\ op[p].target \in Profile \cup {None}
  BY StepGoes, OpFields DEF RegistryInv, TypeOK, Typed, UndoOf
<1>e. ASSUME NEW new, Failed(p, new), tunnel' = None PROVE LiveAfter(p)'
  BY <1>e, <1>t, FailedLive
<1>f. ASSUME NEW new, Failed(p, new), op[p].step \in {"wg", "host", "token"}
      PROVE  op[p].phase = "activate"
  BY <1>t, <1>f, ForgivenFaults, StepsAndPhases
<1>d. Disconnected = {None}
  BY ForgivenFaults
<1>g. Finish(p) => op'[p] = Idle
  BY <1>t, FinishGoes
<1>a. op[p].phase \in {"activate", "restore"} =>
        op[p].target # None /\ active = op[p].target.server /\ Holds(profiles, op[p].target)
  <2>1. CASE op[p].phase = "activate"
    BY <2>1 DEF UndoOf
  <2>2. CASE op[p].phase = "restore"
    <3>1. /\ op[p].target # None /\ op[p].target = op[p].previous /\ profiles = op[p].before
          /\ active = op[p].target.server
      BY <2>2 DEF UndoOf
    <3> QED BY <1>t, <3>1, OpsAreNotIdle DEF RegistryInv, PreviousKnown
  <2> QED BY <2>1, <2>2
<1>n. op[p].target = None => op[p].phase \notin {"activate", "restore", "undo"} \/ op[p].step \in {"list", "active"}
  BY <1>a, <1>t, StepsAndPhases
<1>1. CASE SaveList(p)
  <2>1. op[p].phase \in {"registry", "undo"} /\ (op[p].phase = "undo" => tunnel' = None) /\ UNCHANGED <<backend, wg>>
    BY <1>1, <1>t, StepsAndPhases DEF SaveList, At, LiveOf, Failed
  <2>2. CASE NextStep(p, "active")
    BY <1>t, <2>1, <2>2, NextStepLive DEF OpSteps
  <2>3. ASSUME NEW new, Failed(p, new) PROVE tunnel' = None
    BY <2>1, <2>3, ForgivenFaults
  <2> QED BY <1>1, <1>e, <2>2, <2>3 DEF SaveList
<1>2. CASE SaveActive(p)
  <2>1. op[p].phase \in {"registry", "undo"} /\ (op[p].phase = "undo" => tunnel' = None)
    BY <1>2, <1>t, StepsAndPhases DEF SaveActive, At, LiveOf
  <2>2. ASSUME NEW new, Failed(p, new) PROVE tunnel' = None
    BY <2>1, <2>2, ForgivenFaults
  <2>3. op[p].step = "active" /\ tunnel' = tunnel
    BY <1>2 DEF SaveActive, At
  <2>4. CASE AfterRegistry(p) /\ UNCHANGED <<registry, backend, wg>>
    BY <1>t, <2>3, <2>4, AfterRegistryLive DEF live
  <2> QED BY <1>2, <1>e, <2>2, <2>4 DEF SaveActive
<1>3. CASE StopTunnel(p)
  <2>1. op[p].phase \in {"activate", "restore"} /\ tunnel' = None /\ UNCHANGED <<backend, wg>> /\ NextStep(p, "wg")
    BY <1>3, <1>t, <1>d, StepsAndPhases DEF StopTunnel, At
  <2> QED BY <1>t, <2>1, NextStepLive DEF OpSteps
<1>4. CASE SaveConfig(p)
  <2>0. op[p].step = "wg" /\ op[p].phase \in {"activate", "restore", "clear", "forget"}
    BY <1>4, <1>t, StepsAndPhases DEF SaveConfig, At
  <2>1. CASE op[p].target = None
    <3>1. op[p].phase \in {"clear", "forget"} /\ backend = None
      BY <1>n, <2>0, <2>1 DEF LiveOf
    <3>2. \A new : ~Failed(p, new)
      BY <3>1, ForgivenFaults
    <3>3. tunnel' = None /\ backend' = None /\ Finish(p)
      BY <1>4, <1>d, <2>1, <3>1, <3>2 DEF SaveConfig
    <3> QED BY <1>g, <3>3, SettledUnpaired DEF LiveAfter
  <2>2. CASE op[p].target # None
    <3>1. op[p].phase \in {"activate", "restore"}
      BY <2>0, <2>2 DEF UndoOf
    <3>2. tunnel' = None
      BY <1>4, <1>d, <2>0, <3>1 DEF SaveConfig, LiveOf
    <3>3. CASE wg' = ConfigOf(op[p].target) /\ backend' = backend /\ NextStep(p, "host")
      BY <1>t, <3>1, <3>2, <3>3, NextStepLive DEF OpSteps
    <3> QED BY <1>4, <1>e, <2>2, <3>2, <3>3 DEF SaveConfig
  <2> QED BY <2>1, <2>2
<1>5. CASE SaveHost(p)
  <2>0. /\ op[p].step = "host" /\ op[p].phase \in {"activate", "restore", "clear", "forget"}
        /\ tunnel' = tunnel
    BY <1>5, <1>t, StepsAndPhases DEF SaveHost, At
  <2>1. op[p].phase # "forget" => tunnel' = None
    BY <2>0 DEF LiveOf
  <2>2. CASE NextStep(p, "token") /\ UNCHANGED <<backend, wg>>
    <3>1. op[p].phase \in {"activate", "restore"} => wg' = ConfigOf(op[p].target)
      BY <2>0, <2>2 DEF LiveOf
    <3> QED BY <1>t, <2>0, <2>1, <2>2, <3>1, NextStepLive DEF OpSteps
  <2>3. ASSUME NEW new, Failed(p, new) PROVE tunnel' = None
    BY <1>f, <2>0, <2>1, <2>3
  <2> QED BY <1>5, <1>e, <2>2, <2>3 DEF SaveHost
<1>6. CASE SaveToken(p)
  <2>0. /\ op[p].step = "token" /\ op[p].phase \in {"activate", "restore", "clear", "forget"}
        /\ tunnel' = tunnel
    BY <1>6, <1>t, StepsAndPhases DEF SaveToken, At
  <2>1. op[p].phase # "forget" => tunnel' = None
    BY <2>0 DEF LiveOf
  <2>2. ASSUME NEW new, Failed(p, new) PROVE tunnel' = None
    BY <1>f, <2>0, <2>1, <2>2
  <2>3. CASE op[p].target = None
    <3>1. op[p].phase \in {"clear", "forget"}
      BY <1>n, <2>0, <2>3
    <3>2. CASE backend' = None /\ NextStep(p, "wg") /\ wg' = wg
      BY <1>t, <2>1, <3>1, <3>2, NextStepLive DEF OpSteps
    <3> QED BY <1>6, <1>e, <2>2, <2>3, <3>2 DEF SaveToken
  <2>4. CASE op[p].target # None
    <3>1. op[p].phase \in {"activate", "restore"} /\ wg = ConfigOf(op[p].target)
      BY <2>0, <2>4 DEF UndoOf, LiveOf
    <3>2. CASE /\ backend' = PairingOf(op[p].target) /\ wg' = wg
               /\ ConfigOf(op[p].target) # None /\ NextStep(p, "start")
      BY <1>t, <2>1, <3>1, <3>2, NextStepLive DEF OpSteps
    <3>3. CASE backend' = PairingOf(op[p].target) /\ Finish(p) /\ UNCHANGED <<registry, wg>>
      <4>1. LiveSettled'
        BY <1>a, <2>1, <3>1, <3>3, SettledAt DEF registry
      <4> QED BY <1>g, <3>3, <4>1 DEF LiveAfter
    <3> QED BY <1>6, <1>e, <2>2, <2>4, <3>2, <3>3 DEF SaveToken
  <2> QED BY <2>3, <2>4
<1>7. CASE StartTunnel(p)
  <2>0. op[p].step = "start" /\ op[p].phase \in {"activate", "restore"}
    BY <1>7, <1>t, StepsAndPhases DEF StartTunnel, At
  <2>1. /\ wg = ConfigOf(op[p].target) /\ ConfigOf(op[p].target) # None /\ tunnel = None
        /\ backend = PairingOf(op[p].target)
    BY <2>0 DEF LiveOf, UndoOf
  <2>2. wg = active
    BY <1>a, <1>t, <2>0, <2>1, ConfigType
  <2>3. Finish(p) /\ UNCHANGED <<registry, backend, wg>> /\ tunnel' \in {wg, tunnel}
    BY <1>7 DEF StartTunnel
  <2>4. LiveSettled'
    BY <1>a, <2>0, <2>1, <2>2, <2>3, SettledAt DEF registry
  <2> QED BY <1>g, <2>3, <2>4 DEF LiveAfter
<1> QED BY <1>1, <1>2, <1>3, <1>4, <1>5, <1>6, <1>7 DEF Step

(* A new operation finds the connection at the active server or at none.   *)
LEMMA BeginLive ==
  ASSUME RegistryInv, LiveSettled, NEW p \in Procs, Begin(p)
  PROVE  LiveOf(op[p])'
<1>1. /\ TypeOK /\ op'[p].previous = Active /\ UNCHANGED live
      /\ op'[p].phase \in {"registry", "activate", "forget"} /\ op'[p].step \in {"list", "stop", "host"}
      /\ op'[p].phase = "activate" => op'[p].step = "stop"
  BY BeginGoes DEF RegistryInv
<1>2. CASE op'[p].kind # "switch"
  BY <1>1, <1>2 DEF LiveOf
<1>3. CASE op'[p].kind = "switch"
  <2> DEFINE t == op'[p].target
  <2>1. /\ profiles' = profiles /\ t \in Profile /\ t.server = active' /\ Holds(profiles, t)
        /\ IF active = active' THEN op'[p].phase = "activate" /\ op'[p].step = "stop"
                               ELSE op'[p].phase = "registry" /\ op'[p].step = "list"
    BY <1>1, <1>3, BeginGoes
  <2>2. Active.server = active
    BY <2>1, ActiveOrEmpty, EmptyList
  <2>3. active = active' => backend = None \/ PointsAt(t)
    <3> SUFFICES ASSUME active = active', backend # None PROVE PointsAt(t)
      OBVIOUS
    <3>1. PICK i \in DOMAIN profiles : profiles[i].server = active /\ PointsAt(profiles[i])
      BY DEF LiveSettled
    <3>2. profiles[i] = t
      BY <1>1, <2>1, <3>1, ListElements DEF TypeOK, Holds
    <3> QED BY <3>1, <3>2
  <2>4. active = active' => backend' = None \/ (backend' = PairingOf(t) /\ wg' = ConfigOf(t))
    BY <1>1, <2>3 DEF live, PointsAt
  <2> QED BY <1>1, <1>3, <2>1, <2>2, <2>4 DEF LiveOf, PointsAt
<1> QED BY <1>2, <1>3

(* An app that has never run, or of before there was a registry, launches  *)
(* with its one profile active.                                            *)
LEMMA LaunchLive ==
  ASSUME TypeOK, Launch, tunnel = None, Untouched
  PROVE  LiveSettled'
<1> DEFINE map == IF disk = Torn THEN Empty ELSE disk
<1>1. /\ tunnel' = None /\ profiles' = LoadedList(map) /\ active' = LoadedActive(map)
      /\ backend' = Loaded(map) /\ wg' = map.wg
  BY DEF Launch
<1>2. CASE Loaded(map) = None
  BY <1>1, <1>2, SettledUnpaired
<1>3. CASE Loaded(map) # None
  <2>1. map # Empty
    BY <1>3 DEF Loaded, Empty
  <2>2. PICK p \in Profile : map = [Empty EXCEPT !.host = p.server, !.token = p, !.wg = ConfigOf(p)]
    BY <2>1 DEF Untouched
  <2> HIDE DEF map
  <2>3. /\ map.list = None /\ map.active = None /\ map.host = p.server /\ map.token = p
        /\ map.wg = ConfigOf(p)
    BY <2>2 DEF Empty
  <2>4. p.server # None /\ p # None
    BY ProfileFields
  <2>5. Loaded(map) = PairingOf(p)
    BY <2>3, <2>4 DEF Loaded, PairingOf
  <2>6. LoadedList(map) = <<p>>
    BY <1>3, <2>3 DEF LoadedList, Legacy
  <2>7. <<p>> # <<>> /\ <<p>>[1] = p /\ Ids(<<p>>) = {p.server} /\ Holds(<<p>>, p)
    BY Singleton
  <2>8. LoadedActive(map) = p.server
    BY <2>3, <2>4, <2>6, <2>7 DEF LoadedActive
  <2> QED BY <1>1, <2>3, <2>5, <2>6, <2>7, <2>8, SettledAt
<1> QED BY <1>2, <1>3

(* The user connects or disconnects: the tunnel is the one configured, or  *)
(* none.                                                                   *)
LEMMA UserTunnelLive ==
  ASSUME RegistryInv, LiveSettled, UserTunnel
  PROVE  LiveSettled'
<1>1. UNCHANGED <<registry, backend, wg>> /\ (tunnel' = None \/ (backend # None /\ wg # None /\ tunnel' = wg))
  BY DEF UserTunnel
<1>2. backend # None => \E i \in DOMAIN profiles : profiles[i].server = active /\ PointsAt(profiles[i])
  BY DEF LiveSettled
<1>3. backend # None /\ wg # None => wg = active
  <2> SUFFICES ASSUME backend # None, wg # None PROVE wg = active
    OBVIOUS
  <2>1. PICK i \in DOMAIN profiles : profiles[i].server = active /\ PointsAt(profiles[i])
    BY <1>2
  <2>2. profiles[i] \in Profile
    BY ListElements DEF RegistryInv, TypeOK
  <2> QED BY <2>1, <2>2, ConfigType DEF PointsAt
<1> QED BY <1>1, <1>2, <1>3 DEF LiveSettled, PointsAt, registry

LEMMA InitLive == Init => LiveInv
<1> SUFFICES ASSUME Init PROVE LiveInv
  OBVIOUS
<1>1. TypeOK /\ ~running /\ profiles = <<>> /\ tunnel = None /\ \A p \in Procs : op[p] = Idle
  BY InitType DEF Init
<1>2. setting.tokens \subseteq Tokens
  BY ConstantsAssumption DEF Init, Setting
<1>3. [server : Servers, token : setting.tokens] \subseteq Profile
  BY <1>2 DEF Profile
<1>4. Untouched
  BY <1>3 DEF Init, Untouched
<1> QED BY <1>1, <1>4 DEF LiveInv, UndoInv, RegistryInv, Quiet

(* Where only an activation and its undo code fail, every step of an       *)
(* operation leaves the connection and the tunnel at the server they are   *)
(* meant for.                                                              *)
THEOREM LiveInvariant == ASSUME OneAtATime PROVE Spec => []LiveInv
<1>1. UndoInv' /\ LiveInv /\ [Next]_vars => LiveInv'
  <2> SUFFICES ASSUME UndoInv', LiveInv, [Next]_vars, Forgiving'
               PROVE  /\ \A p \in Procs : op'[p] # Idle => LiveOf(op[p])'
                      /\ Quiet' => LiveSettled'
                      /\ ~running' => tunnel' = None /\ Untouched'
    BY DEF LiveInv
  <2>1. setting' = setting
    BY StepGoes, BeginGoes, StoresKeep DEF Next, Launch, Kill, UserTunnel, vars, app, LiveInv, UndoInv, RegistryInv
  <2>2. /\ Forgiving /\ RegistryInv /\ RegistryInv' /\ TypeOK
        /\ \A p \in Procs : op[p] # Idle => UndoOf(op[p]) /\ LiveOf(op[p])
        /\ Quiet => LiveSettled
        /\ ~running => tunnel = None /\ Untouched
    BY <2>1 DEF LiveInv, UndoInv, RegistryInv, Forgiving
  <2>3. ASSUME NEW p \in Procs, Begin(p) PROVE running' /\ op'[p] # Idle /\ LiveOf(op[p])'
    <3>1. running /\ running' /\ op[p] = Idle /\ op'[p] # Idle
      BY <2>2, <2>3, BeginGoes, OpsAreNotIdle DEF app
    <3>2. LiveSettled
      BY <2>2, <3>1 DEF OneAtATime, Quiet
    <3> QED BY <2>2, <2>3, <3>1, <3>2, BeginLive
  <2>4. ASSUME NEW p \in Procs, Step(p) PROVE running' /\ LiveAfter(p)'
    <3>1. running' /\ op[p] # Idle
      BY <2>2, <2>4, StepGoes DEF app
    <3>2. UndoOf(op[p]) /\ LiveOf(op[p])
      BY <2>2, <3>1
    <3> QED BY <2>2, <2>4, <3>1, <3>2, StepLive
  <2>5. CASE \E p \in Procs : Begin(p)
    BY <2>3, <2>5 DEF OneAtATime, Quiet
  <2>6. CASE \E p \in Procs : Step(p)
    <3>1. PICK p \in Procs : Step(p)
      BY <2>6
    <3>2. running' /\ (IF op'[p] = Idle THEN LiveSettled' ELSE LiveOf(op[p])')
      BY <2>4, <3>1 DEF LiveAfter
    <3> QED BY <3>2 DEF OneAtATime, Quiet
  <2>7. CASE Launch
    <3>1. LiveSettled' /\ running' /\ op' = op /\ \A p \in Procs : op[p] = Idle
      BY <2>2, <2>7, LaunchLive DEF Launch, RegistryInv
    <3> QED BY <3>1 DEF Quiet
  <2>11. CASE Rename \/ PersistList \/ PersistActive \/ OtherKey
    <3>1. running /\ running' /\ UNCHANGED <<registry, live, op>>
      BY <2>11, StoresKeep
    <3> QED BY <2>2, <3>1 DEF registry, live, LiveOf, LiveSettled, PointsAt, Quiet
  <2>8. ~Kill
    BY <2>2 DEF Kill, Forgiving
  <2>9. CASE UserTunnel
    <3>1. Quiet /\ running' /\ op' = op /\ \A p \in Procs : op[p] = Idle
      BY <2>9 DEF UserTunnel, Quiet, app
    <3> QED BY <2>2, <2>9, <3>1, UserTunnelLive
  <2>10. CASE UNCHANGED vars
    BY <2>2, <2>10 DEF vars, app, registry, live, LiveOf, LiveSettled, PointsAt, Quiet, Untouched
  <2> QED BY <2>5, <2>6, <2>7, <2>8, <2>9, <2>10, <2>11 DEF Next
<1> QED BY <1>1, InitLive, UndoInvariant, PTL DEF Spec

LEMMA LiveIsActive ==
  ASSUME LiveInv, Forgiving, Settled, backend # None
  PROVE  Active # None /\ backend = PairingOf(Active) /\ wg = ConfigOf(Active)
<1>1. LiveSettled /\ profiles \in Lists
  BY DEF LiveInv, UndoInv, RegistryInv, TypeOK, Settled, Quiet
<1>2. PICK i \in DOMAIN profiles : profiles[i].server = active /\ PointsAt(profiles[i])
  BY <1>1 DEF LiveSettled
<1>3. profiles[i] \in Profile /\ Active = profiles[i]
  BY <1>1, <1>2, HeldIsFound DEF Holds, Active
<1> QED BY <1>2, <1>3, ProfileFields DEF PointsAt

(* A paired app talks, with the stored token and through the stored        *)
(* configuration, to the server its list shows as active, for any servers  *)
(* and tokens, whichever write of an activation or of its undo code fails. *)
THEOREM LiveServerActive == ASSUME OneAtATime PROVE Spec => []ActiveIsLive
<1>1. LiveInv => ActiveIsLive
  BY LiveIsActive DEF ActiveIsLive
<1> QED BY <1>1, LiveInvariant, PTL

(* When no operation is under way, a tunnel that is up is the active       *)
(* server's.                                                               *)
THEOREM TunnelOfActive == ASSUME OneAtATime PROVE Spec => []TunnelIsActive
<1>1. LiveInv => TunnelIsActive
  BY DEF LiveInv, LiveSettled, TunnelIsActive, Settled, Quiet
<1> QED BY <1>1, LiveInvariant, PTL

--------------------------------------------------------------------------------
(* Clearing the pairing leaves no credentials, neither live nor stored.    *)

DeletesSucceed == setting.faults \cap {"clear", "forget"} = {}

(* A key that is not in the map is not in the file either, although a      *)
(* delete of it would be skipped.                                          *)
KeysGone ==
  running => /\ cache.host = None => disk = Torn \/ disk.host = None
             /\ cache.token = None => disk = Torn \/ disk.token = None

ClearedOf(o) ==
  /\ o.phase \in {"clear", "forget"} /\ o.step \in {"token", "wg"} => cache.host = None
  /\ o.phase \in {"clear", "forget"} /\ o.step = "wg" => cache.token = None /\ backend = None

ClearInv == DeletesSucceed => KeysGone /\ \A p \in Procs : op[p] # Idle => ClearedOf(op[p])

(* An operation that gives the pairing up ends with nothing live, and with *)
(* no credentials in the file for the next launch to find.                 *)
NoStaleCredentials ==
  [][\A p \in Procs :
       DeletesSucceed /\ op[p] # Idle /\ op[p].phase \in {"clear", "forget"} /\ op'[p] = Idle /\ running' =>
         /\ backend' = None /\ wg' = None
         /\ "tunnel" \notin setting.faults => tunnel' = None
         /\ disk' # Torn => disk'.host = None /\ disk'.token = None]_vars

--------------------------------------------------------------------------------
(* What a launch would load is what the app shows, when no write fails.    *)

WritesSucceed == setting.faults \cap (Phases \cup {"other"}) = {}

Readable(file) == IF file = Torn THEN Empty ELSE file
ListKept == cache.list = profiles \/ (cache.list = None /\ profiles = <<>>)

KeptOf(o) ==
  /\ o.phase \in {"registry", "activate", "forget"}
  /\ o.step # "list" => ListKept
  /\ o.phase = "activate" \/ o.step = "active" => cache.list = profiles
  /\ o.phase # "registry" => cache.active = active
  /\ o.step # "token" => backend = Loaded(cache)
  /\ o.step = "token" => cache.host = IF o.target = None THEN None ELSE o.target.server
  /\ cache.wg = wg /\ ~Legacy(cache)

KeptSettled ==
  ListKept /\ cache.active = active /\ backend = Loaded(cache) /\ cache.wg = wg /\ ~Legacy(cache)

(* A load or a rename is still to write the list, the active id, or both.  *)
KeptSaving ==
  /\ backend = Loaded(cache) /\ cache.wg = wg
  /\ saving \in {"firstactive", "active"} => cache.list = profiles

KeptInv ==
  WritesSucceed =>
    /\ running => Readable(disk) = cache
    /\ \A p \in Procs : op[p] # Idle => KeptOf(op[p])
    /\ Quiet /\ saving # "no" => KeptSaving
    /\ Settled => KeptSettled

(* A kill that finds no operation and no write of the list under way       *)
(* leaves a file from which the next launch takes what the app showed, or  *)
(* a torn file if another key was just being written.                      *)
RelaunchRestores ==
  [][WritesSucceed /\ Settled /\ ~running' /\ disk' # Torn =>
       /\ LoadedList(disk') = profiles /\ LoadedActive(disk') = active
       /\ Loaded(disk') = backend /\ disk'.wg = wg]_vars

LEMMA StoredKeys ==
  ASSUME KeysGone, running, NEW p \in Procs, NEW new, Stored(p, new)
  PROVE  KeysGone'
BY DEF KeysGone, Stored, Skipped

LEMMA FailedKeys ==
  ASSUME KeysGone, running, NEW p \in Procs, NEW new, Failed(p, new),
         new.host = None => cache.host = None, new.token = None => cache.token = None
  PROVE  KeysGone'
BY DEF KeysGone, Failed

(* What a step of giving the pairing up has done when it ends.             *)
GivenUp ==
  /\ backend' = None /\ wg' = None
  /\ "tunnel" \notin setting.faults => tunnel' = None
  /\ disk' # Torn => disk'.host = None /\ disk'.token = None

LEMMA StepClears ==
  ASSUME RegistryInv, DeletesSucceed, KeysGone, NEW p \in Procs, UndoOf(op[p]), ClearedOf(op[p]), Step(p)
  PROVE  /\ KeysGone'
         /\ op'[p] # Idle => ClearedOf(op[p])'
         /\ op[p].phase \in {"clear", "forget"} /\ op'[p] = Idle => GivenUp
<1> DEFINE o == op[p]
           Giving == o.phase \in {"clear", "forget"}
<1>t. /\ Typed /\ o \in Ops /\ o # Idle /\ o.phase \in Phases /\ o.step \in StepsOf(o.phase)
      /\ o.target \in Profile \cup {None} /\ running /\ cache \in Maps /\ TypeOK /\ profiles \in Lists
  BY StepGoes, OpFields DEF RegistryInv, TypeOK, Typed, UndoOf
<1>s. /\ o.step \in {"list", "active"} => o.phase \in {"registry", "undo"}
      /\ o.step \in {"stop", "start"} => o.phase \in {"activate", "restore"}
      /\ o.step \in {"wg", "host", "token"} => Giving \/ o.phase \in {"activate", "restore"}
  BY <1>t, StepsAndPhases
<1>g. Giving <=> o.target = None /\ o.step \in {"wg", "host", "token"}
  <2>1. Giving => o.target = None /\ o.step \in {"wg", "host", "token"}
    BY <1>t DEF UndoOf, StepsOf
  <2> QED BY <1>s, <2>1 DEF UndoOf
<1>n. ASSUME NEW step \in OpSteps, NextStep(p, step)
      PROVE  op'[p] # Idle /\ op'[p].phase = o.phase /\ op'[p].step = step
  BY <1>t, <1>n, NextStepGoes, OpsAreNotIdle
<1>m. ASSUME NEW v
      PROVE  /\ [cache EXCEPT !.list = v].host = cache.host /\ [cache EXCEPT !.list = v].token = cache.token
             /\ [cache EXCEPT !.active = v].host = cache.host /\ [cache EXCEPT !.active = v].token = cache.token
             /\ [cache EXCEPT !.wg = v].host = cache.host /\ [cache EXCEPT !.wg = v].token = cache.token
             /\ [cache EXCEPT !.host = v].host = v /\ [cache EXCEPT !.host = v].token = cache.token
             /\ [cache EXCEPT !.token = v].host = cache.host /\ [cache EXCEPT !.token = v].token = v
  BY <1>t DEF Maps
<1>f. ASSUME NEW new, Failed(p, new)
      PROVE  ~Giving /\ (op'[p] # Idle => ClearedOf(op[p])')
  <2>1. ~Giving
    BY <1>f DEF Failed, DeletesSucceed
  <2>2. op'[p] # Idle => Fresh(op[p])'
    BY <1>f, <1>t, <2>1, ThrowFresh DEF Failed
  <2> QED BY <2>1, <2>2 DEF Fresh, ClearedOf
<1>k. ASSUME NEW new, Stored(p, new) \/ Failed(p, new), new.host = cache.host, new.token = cache.token
      PROVE  KeysGone'
  BY <1>t, <1>k, StoredKeys, FailedKeys
<1>1. CASE SaveList(p)
  <2>1. ~Giving
    BY <1>1, <1>g DEF SaveList, At
  <2>2. \/ Stored(p, [cache EXCEPT !.list = profiles]) /\ NextStep(p, "active")
        \/ Failed(p, [cache EXCEPT !.list = profiles])
    BY <1>1 DEF SaveList
  <2>3. NextStep(p, "active") => ClearedOf(op[p])'
    BY <1>n, <2>1 DEF OpSteps, ClearedOf
  <2> QED BY <1>f, <1>k, <1>m, <2>1, <2>2, <2>3
<1>2. CASE SaveActive(p)
  <2>1. ~Giving
    BY <1>2, <1>g DEF SaveActive, At
  <2>2. \/ Stored(p, [cache EXCEPT !.active = active]) /\ AfterRegistry(p)
        \/ Failed(p, [cache EXCEPT !.active = active])
    BY <1>2 DEF SaveActive
  <2>3. AfterRegistry(p) => ClearedOf(op[p])'
    BY <1>t, AfterRegistryFresh DEF Fresh, ClearedOf
  <2> QED BY <1>f, <1>k, <1>m, <2>1, <2>2, <2>3
<1>3. CASE StopTunnel(p)
  <2>1. ~Giving
    BY <1>3, <1>g DEF StopTunnel, At
  <2>2. NextStep(p, "wg") /\ UNCHANGED <<app, cache, disk>>
    BY <1>3 DEF StopTunnel
  <2> QED BY <1>n, <2>1, <2>2 DEF OpSteps, ClearedOf, KeysGone, app
<1>4. CASE SaveConfig(p)
  <2> DEFINE new == [cache EXCEPT !.wg = IF o.target = None THEN None ELSE ConfigOf(o.target)]
  <2>1. /\ o.step = "wg"
        /\ \/ /\ Stored(p, new) /\ wg' = (IF o.target = None THEN None ELSE ConfigOf(o.target))
              /\ IF o.target = None THEN Finish(p) ELSE NextStep(p, "host")
              /\ backend' = backend
           \/ Failed(p, new)
        /\ o.target = None => tunnel' \in Disconnected
    BY <1>4 DEF SaveConfig, At
  <2>2. new.host = cache.host /\ new.token = cache.token
    BY <1>m
  <2> HIDE DEF new
  <2>3. KeysGone'
    BY <1>k, <2>1, <2>2
  <2>4. CASE ~Giving
    BY <1>f, <1>g, <1>n, <2>1, <2>3, <2>4 DEF OpSteps, ClearedOf
  <2>5. CASE Giving
    <3>1. /\ o.target = None /\ backend = None /\ cache.host = None /\ cache.token = None
      BY <1>g, <2>1, <2>5 DEF ClearedOf
    <3>2. Stored(p, new) /\ wg' = None /\ Finish(p) /\ backend' = None
      BY <1>f, <2>1, <2>5, <3>1
    <3>3. disk' # Torn => disk'.host = None /\ disk'.token = None
      BY <1>t, <2>2, <3>1, <3>2 DEF Stored, Skipped, KeysGone
    <3>4. "tunnel" \notin setting.faults => tunnel' = None
      BY <2>1, <3>1 DEF Disconnected
    <3> QED BY <1>t, <2>3, <3>2, <3>3, <3>4, FinishGoes DEF GivenUp
  <2> QED BY <2>4, <2>5
<1>5. CASE SaveHost(p)
  <2> DEFINE new == [cache EXCEPT !.host = IF o.target = None THEN None ELSE o.target.server]
  <2>1. /\ o.step = "host"
        /\ \/ Stored(p, new) /\ NextStep(p, "token")
           \/ Failed(p, new)
    BY <1>5 DEF SaveHost, At
  <2>2. /\ new.host = (IF o.target = None THEN None ELSE o.target.server) /\ new.token = cache.token
    BY <1>m
  <2> HIDE DEF new
  <2>3. CASE Failed(p, new)
    <3>1. new.host # None
      BY <1>f, <1>g, <1>t, <2>1, <2>2, <2>3, ProfileFields
    <3>2. KeysGone'
      BY <1>t, <2>2, <2>3, <3>1, FailedKeys
    <3> QED BY <1>f, <2>3, <3>2
  <2>4. CASE Stored(p, new) /\ NextStep(p, "token")
    <3>1. KeysGone' /\ cache'.host = new.host
      BY <1>t, <2>4, StoredKeys DEF Stored
    <3>2. op'[p] # Idle /\ op'[p].phase = o.phase /\ op'[p].step = "token"
      BY <1>n, <2>4 DEF OpSteps
    <3> QED BY <1>g, <2>1, <2>2, <3>1, <3>2 DEF ClearedOf
  <2> QED BY <2>1, <2>3, <2>4
<1>6. CASE SaveToken(p)
  <2> DEFINE new == [cache EXCEPT !.token = o.target]
  <2>1. /\ o.step = "token"
        /\ \/ /\ Stored(p, new) /\ (o.target = None => backend' = None)
              /\ \/ o.target = None /\ NextStep(p, "wg")
                 \/ o.target # None /\ (NextStep(p, "start") \/ Finish(p))
           \/ Failed(p, new)
    BY <1>6 DEF SaveToken, At
  <2>2. new.host = cache.host /\ new.token = o.target
    BY <1>m
  <2> HIDE DEF new
  <2>3. CASE Failed(p, new)
    <3>1. new.token # None
      BY <1>f, <1>g, <2>1, <2>2, <2>3
    <3>2. KeysGone'
      BY <1>t, <2>2, <2>3, <3>1, FailedKeys
    <3> QED BY <1>f, <2>3, <3>2
  <2>4. CASE Stored(p, new) /\ ~Giving /\ (NextStep(p, "start") \/ Finish(p))
    <3>1. KeysGone'
      BY <1>t, <2>4, StoredKeys
    <3>2. op'[p] # Idle => op'[p].step = "start" /\ op'[p].phase = o.phase
      BY <1>n, <1>t, <2>4, FinishGoes DEF OpSteps
    <3> QED BY <2>4, <3>1, <3>2 DEF ClearedOf
  <2>5. CASE Stored(p, new) /\ Giving /\ NextStep(p, "wg") /\ backend' = None
    <3>1. KeysGone' /\ cache'.host = cache.host /\ cache'.token = None
      BY <1>g, <1>t, <2>2, <2>5, StoredKeys DEF Stored
    <3>2. op'[p] # Idle /\ op'[p].phase = o.phase /\ op'[p].step = "wg"
      BY <1>n, <2>5 DEF OpSteps
    <3> QED BY <2>1, <2>5, <3>1, <3>2 DEF ClearedOf
  <2> QED BY <1>g, <2>1, <2>3, <2>4, <2>5
<1>7. CASE StartTunnel(p)
  <2>1. ~Giving
    BY <1>7, <1>g DEF StartTunnel, At
  <2>2. op'[p] = Idle /\ UNCHANGED <<app, cache, disk>>
    BY <1>7, <1>t, FinishGoes DEF StartTunnel
  <2> QED BY <2>1, <2>2 DEF KeysGone, app
<1> QED BY <1>1, <1>2, <1>3, <1>4, <1>5, <1>6, <1>7 DEF Step

LEMMA LaunchKeys ==
  ASSUME Launch
  PROVE  KeysGone'
<1>1. disk' = disk /\ cache' = IF disk = Torn THEN Empty ELSE disk
  BY DEF Launch
<1> QED BY <1>1 DEF KeysGone

(* Neither the list nor another key is a credential.                       *)
LEMMA StoresKeys ==
  ASSUME TypeOK, KeysGone, Rename \/ PersistList \/ PersistActive \/ OtherKey
  PROVE  KeysGone'
<1>1. running /\ running'
  BY StoresKeep
<1>2. CASE Rename
  BY <1>1, <1>2 DEF Rename, KeysGone
<1>3. CASE OtherKey
  BY <1>1, <1>3 DEF OtherKey, KeysGone
<1>4. CASE PersistList \/ PersistActive
  <2>1. Persists
    BY <1>4, PersistGoes
  <2>2. cache'.host = cache.host /\ cache'.token = cache.token
    BY <2>1 DEF Persists, TypeOK, Maps
  <2> QED BY <1>1, <2>1, <2>2 DEF Persists, KeysGone
<1> QED BY <1>2, <1>3, <1>4

(* Giving the pairing up, after a removal or a first pairing that failed,  *)
(* leaves no stale credentials: neither in memory nor in the file, whatever *)
(* failed before and whenever the app was killed, if its own deletes work. *)
THEOREM ClearingLeavesNothing == ASSUME OneAtATime PROVE Spec => NoStaleCredentials
<1> DEFINE Clears == \A p \in Procs :
             DeletesSucceed /\ op[p] # Idle /\ op[p].phase \in {"clear", "forget"} /\ op'[p] = Idle /\ running' =>
               GivenUp
<1>1. Init => ClearInv
  BY DEF Init, ClearInv, KeysGone
<1>2. UndoInv /\ ClearInv /\ [Next]_vars => ClearInv' /\ Clears
  <2> SUFFICES ASSUME UndoInv, ClearInv, [Next]_vars, DeletesSucceed \/ DeletesSucceed'
               PROVE  /\ KeysGone'
                      /\ \A p \in Procs : op'[p] # Idle => ClearedOf(op[p])'
                      /\ Clears
    BY DEF ClearInv
  <2>1. setting' = setting
    BY StepGoes, BeginGoes, StoresKeep DEF Next, Launch, Kill, UserTunnel, vars, app, UndoInv, RegistryInv
  <2>2. /\ DeletesSucceed /\ KeysGone /\ RegistryInv /\ TypeOK
        /\ \A p \in Procs : op[p] # Idle => saving = "no"
        /\ \A p \in Procs : op[p] # Idle => UndoOf(op[p]) /\ ClearedOf(op[p])
    BY <2>1 DEF ClearInv, UndoInv, RegistryInv, DeletesSucceed
  <2>3. CASE \E p \in Procs : Begin(p)
    <3>1. PICK p \in Procs : Begin(p)
      BY <2>3
    <3>2. /\ op[p] = Idle /\ UNCHANGED <<app, cache, disk>>
          /\ op'[p].phase \in {"clear", "forget"} => op'[p].step = "host"
      BY <2>2, <3>1, BeginGoes
    <3>3. KeysGone' /\ ClearedOf(op[p])'
      BY <2>2, <3>2 DEF KeysGone, ClearedOf, app
    <3>4. \A q \in Procs : q = p
      BY DEF OneAtATime
    <3> QED BY <3>2, <3>3, <3>4
  <2>4. CASE \E p \in Procs : Step(p)
    <3>1. PICK p \in Procs : Step(p)
      BY <2>4
    <3>2. \A q \in Procs : q = p
      BY DEF OneAtATime
    <3>3. op[p] # Idle
      BY <2>2, <3>1, StepGoes
    <3>4. /\ KeysGone'
          /\ op'[p] # Idle => ClearedOf(op[p])'
          /\ op[p].phase \in {"clear", "forget"} /\ op'[p] = Idle => GivenUp
      BY <2>2, <3>1, <3>3, StepClears
    <3> QED BY <3>2, <3>4
  <2>5. CASE Launch
    <3>1. KeysGone' /\ op' = op /\ \A p \in Procs : op[p] = Idle
      BY <2>2, <2>5, LaunchKeys DEF Launch, RegistryInv
    <3> QED BY <3>1
  <2>6. CASE Kill
    BY <2>6 DEF Kill, KeysGone
  <2>7. CASE UserTunnel \/ UNCHANGED vars
    BY <2>2, <2>7 DEF UserTunnel, vars, app, registry, live, KeysGone, ClearedOf
  <2>8. CASE Rename \/ PersistList \/ PersistActive \/ OtherKey
    <3>1. UNCHANGED <<running, backend, op>> /\ KeysGone'
      BY <2>2, <2>8, StoresKeep, StoresKeys DEF live
    <3>2. ASSUME NEW p \in Procs, op[p] # Idle PROVE UNCHANGED cache
      <4>1. saving = "no"
        BY <2>2, <3>2
      <4> QED BY <2>8, <4>1 DEF Rename, PersistList, PersistActive, OtherKey
    <3> QED BY <2>2, <3>1, <3>2 DEF ClearedOf
  <2> QED BY <2>3, <2>4, <2>5, <2>6, <2>7, <2>8 DEF Next
<1>3. Clears => [\A p \in Procs :
       DeletesSucceed /\ op[p] # Idle /\ op[p].phase \in {"clear", "forget"} /\ op'[p] = Idle /\ running' =>
         /\ backend' = None /\ wg' = None
         /\ "tunnel" \notin setting.faults => tunnel' = None
         /\ disk' # Torn => disk'.host = None /\ disk'.token = None]_vars
  BY DEF GivenUp
<1> HIDE DEF Clears
<1> QED BY <1>1, <1>2, <1>3, UndoInvariant, PTL DEF Spec, NoStaleCredentials

--------------------------------------------------------------------------------
(* Relaunching. *)

LEMMA NoListIsNone == \A l \in Lists : l # None
BY MapsAssumption

(* What is in the file is what is in the map, also when nothing had to be  *)
(* written.                                                                *)
LEMMA StoredReadable ==
  ASSUME Readable(disk) = cache, NEW p \in Procs, NEW new \in Maps, Stored(p, new)
  PROVE  cache' = new /\ Readable(disk)' = cache'
BY MapsAssumption DEF Stored, Skipped, Readable

LEMMA BeginKept ==
  ASSUME RegistryInv, KeptSettled, NEW p \in Procs, Begin(p)
  PROVE  KeptOf(op[p])'
<1>1. /\ TypeOK /\ UNCHANGED <<live, cache>>
      /\ op'[p].phase \in {"registry", "activate", "forget"} /\ op'[p].step \in {"list", "stop", "host"}
  BY BeginGoes DEF RegistryInv
<1>2. backend' = Loaded(cache') /\ cache'.wg = wg' /\ ~Legacy(cache')
  BY <1>1 DEF KeptSettled, live
<1>3. CASE op'[p].phase = "registry" /\ op'[p].step = "list"
  BY <1>2, <1>3 DEF KeptOf
<1>4. CASE op'[p].phase = "activate" /\ op'[p].step = "stop"
  <2>1. profiles' = profiles /\ active' = active /\ Holds(profiles, op'[p].target)
    BY <1>1, <1>4, BeginGoes
  <2>2. cache.list = profiles
    BY <2>1, EmptyList DEF KeptSettled, ListKept
  <2> QED BY <1>1, <1>2, <1>4, <2>1, <2>2 DEF KeptOf, KeptSettled, ListKept
<1>5. CASE op'[p].phase = "forget" /\ op'[p].step = "host"
  <2>1. UNCHANGED registry
    BY <1>1, <1>5, BeginGoes
  <2> QED BY <1>1, <1>2, <1>5, <2>1 DEF KeptOf, KeptSettled, ListKept, registry
<1> QED BY <1>1, <1>3, <1>4, <1>5, BeginGoes

LEMMA LaunchKept ==
  ASSUME TypeOK, Launch
  PROVE  /\ Readable(disk)' = cache'
         /\ saving' # "no" => KeptSaving'
         /\ saving' = "no" => KeptSettled'
<1> DEFINE map == Readable(disk)
<1>1. map \in Maps
  BY EmptyMap DEF TypeOK, Readable
<1>2. /\ profiles' = LoadedList(map) /\ active' = LoadedActive(map)
      /\ backend' = Loaded(map) /\ wg' = map.wg /\ cache' = map /\ disk' = disk
      /\ saving' = IF Legacy(map) THEN "firstlist"
                   ELSE IF LoadedActive(map) # map.active THEN "list" ELSE "no"
  BY DEF Launch, Readable
<1>3. Readable(disk)' = cache'
  BY <1>2 DEF Readable
<1>4. saving' # "no" => KeptSaving'
  BY <1>2 DEF KeptSaving
<1>5. CASE saving' = "no"
  <2>1. ~Legacy(map) /\ LoadedActive(map) = map.active
    BY <1>2, <1>5
  <2>2. LoadedList(map) = IF map.list = None THEN <<>> ELSE map.list
    BY <2>1 DEF LoadedList
  <2> HIDE DEF map
  <2> QED BY <1>2, <1>3, <1>5, <2>1, <2>2 DEF KeptSettled, ListKept
<1> QED BY <1>3, <1>4, <1>5

(* The writes of a load or a rename bring the file up to date.             *)
LEMMA PersistKept ==
  ASSUME TypeOK, WritesSucceed, KeptSaving, PersistList \/ PersistActive
  PROVE  /\ Readable(disk)' = cache'
         /\ saving' # "no" => KeptSaving'
         /\ saving' = "no" => KeptSettled'
<1>1. Persists /\ "registry" \notin setting.faults
  BY PersistGoes DEF WritesSucceed, Phases
<1>2. cache' \in Maps /\ Readable(disk)' = cache' /\ UNCHANGED <<registry, backend, wg>>
  BY <1>1, MapsAssumption DEF Persists, TypeOK, Maps, Readable, live
<1>3. /\ cache'.host = cache.host /\ cache'.token = cache.token /\ cache'.wg = cache.wg
      /\ Loaded(cache') = Loaded(cache)
  BY <1>1 DEF Persists, TypeOK, Maps, Loaded
<1>4. cache'.list = profiles
  BY <1>1 DEF Persists, TypeOK, Maps, KeptSaving
<1>5. saving' = "no" => cache'.active = active
  BY <1>1 DEF Persists, TypeOK, Maps
<1>6. ~Legacy(cache')
  BY <1>4, NoListIsNone DEF Legacy, TypeOK
<1> QED BY <1>2, <1>3, <1>4, <1>5, <1>6 DEF KeptSaving, KeptSettled, ListKept, registry

LEMMA StepKept ==
  ASSUME RegistryInv, WritesSucceed, Readable(disk) = cache,
         NEW p \in Procs, UndoOf(op[p]), KeptOf(op[p]), Step(p)
  PROVE  /\ Readable(disk)' = cache'
         /\ IF op'[p] = Idle THEN KeptSettled' ELSE KeptOf(op[p])'
<1> DEFINE o == op[p]
<1>t. /\ Typed /\ o \in Ops /\ o # Idle /\ o.step \in StepsOf(o.phase) /\ cache \in Maps
      /\ o.target \in Profile \cup {None} /\ o.kind \in {"switch", "pair", "remove"}
      /\ profiles \in Lists /\ active \in Servers \cup {None} /\ Active \in Profile \cup {None}
      /\ o.phase \in {"registry", "activate", "forget"}
  BY StepGoes, OpFields, LookupType DEF RegistryInv, TypeOK, Typed, UndoOf, KeptOf, Active
<1>s. /\ o.step \in {"list", "active"} => o.phase = "registry"
      /\ o.step \in {"stop", "start"} => o.phase = "activate"
      /\ o.step \in {"wg", "host", "token"} => o.phase \in {"activate", "forget"}
      /\ o.phase # "registry" => (o.target = None <=> o.phase = "forget")
  BY <1>t, StepsAndPhases DEF UndoOf
<1>k. /\ o.step # "list" => ListKept
      /\ o.phase = "activate" \/ o.step = "active" => cache.list = profiles
      /\ o.phase # "registry" => cache.active = active
      /\ o.step # "token" => backend = Loaded(cache)
      /\ o.step = "token" => cache.host = IF o.target = None THEN None ELSE o.target.server
      /\ cache.wg = wg /\ ~Legacy(cache)
  BY DEF KeptOf
<1>f. ~Failed(p, cache) /\ \A new : ~Failed(p, new)
  BY <1>t DEF Failed, WritesSucceed, Phases
<1>n. ASSUME NEW step \in OpSteps, NextStep(p, step)
      PROVE  op'[p] # Idle /\ op'[p].phase = o.phase /\ op'[p].step = step /\ op'[p].target = o.target
  BY <1>t, <1>n, NextStepGoes, OpsAreNotIdle
<1>i. Finish(p) => op'[p] = Idle
  BY <1>t, FinishGoes
<1>m. o.target # None => /\ ConfigOf(o.target) \in Servers \cup {None}
                         /\ o.target.server \in Servers /\ o.target.server # None
  BY <1>t, ConfigType, ProfileFields
<1>1. CASE SaveList(p)
  <2> DEFINE new == [cache EXCEPT !.list = profiles]
  <2>1. /\ new \in Maps /\ new.list = profiles /\ new.active = cache.active
        /\ new.host = cache.host /\ new.token = cache.token /\ new.wg = cache.wg
    BY <1>t DEF Maps
  <2>2. /\ o.step = "list" /\ Stored(p, new) /\ NextStep(p, "active")
        /\ UNCHANGED <<registry, backend, wg>>
    BY <1>1, <1>f DEF SaveList, At
  <2> HIDE DEF new
  <2>3. cache' = new /\ Readable(disk)' = cache'
    BY <2>1, <2>2, StoredReadable
  <2>4. op'[p] # Idle /\ op'[p].phase = "registry" /\ op'[p].step = "active"
    BY <1>n, <1>s, <2>2 DEF OpSteps
  <2>5. Loaded(new) = Loaded(cache) /\ ~Legacy(new)
    BY <1>t, <2>1, NoListIsNone DEF Loaded, Legacy
  <2> QED BY <1>k, <2>1, <2>2, <2>3, <2>4, <2>5 DEF KeptOf, ListKept, registry
<1>2. CASE SaveActive(p)
  <2> DEFINE new == [cache EXCEPT !.active = active]
  <2>1. /\ new \in Maps /\ new.list = cache.list /\ new.active = active
        /\ new.host = cache.host /\ new.token = cache.token /\ new.wg = cache.wg
    BY <1>t DEF Maps
  <2>2. /\ o.step = "active" /\ Stored(p, new) /\ AfterRegistry(p)
        /\ UNCHANGED <<registry, backend, wg>>
    BY <1>2, <1>f DEF SaveActive, At
  <2> HIDE DEF new
  <2>3. cache' = new /\ Readable(disk)' = cache'
    BY <2>1, <2>2, StoredReadable
  <2>4. /\ op'[p] # Idle
        /\ \/ op'[p].phase = "activate" /\ op'[p].step = "stop"
           \/ op'[p].phase = "forget" /\ op'[p].step = "host"
    <3>1. \/ Goto(p, "activate", "stop", o.target) \/ Goto(p, "activate", "stop", Active)
          \/ Goto(p, "forget", "host", None)
      BY <1>s, <2>2 DEF AfterRegistry
    <3> QED BY <1>t, <3>1, GotoGoes, OpsAreNotIdle DEF Phases, OpSteps
  <2>5. Loaded(new) = Loaded(cache) /\ ~Legacy(new)
    BY <1>k, <2>1 DEF Loaded, Legacy
  <2> QED BY <1>k, <2>1, <2>2, <2>3, <2>4, <2>5 DEF KeptOf, ListKept, registry
<1>3. CASE StopTunnel(p)
  <2>1. /\ o.step = "stop" /\ NextStep(p, "wg")
        /\ UNCHANGED <<registry, backend, wg, cache, disk>>
    BY <1>3 DEF StopTunnel, At
  <2>2. op'[p] # Idle /\ op'[p].phase = "activate" /\ op'[p].step = "wg"
    BY <1>n, <1>s, <2>1 DEF OpSteps
  <2>3. Loaded(cache') = Loaded(cache) /\ (Legacy(cache') <=> Legacy(cache))
    BY <2>1
  <2> QED BY <1>k, <1>s, <2>1, <2>2, <2>3 DEF KeptOf, ListKept, registry, Readable
<1>4. CASE SaveConfig(p)
  <2> DEFINE config == IF o.target = None THEN None ELSE ConfigOf(o.target)
             new == [cache EXCEPT !.wg = config]
  <2>1. /\ new \in Maps /\ new.list = cache.list /\ new.active = cache.active
        /\ new.host = cache.host /\ new.token = cache.token /\ new.wg = config
    BY <1>t, <1>m DEF Maps
  <2>2. /\ o.step = "wg" /\ Stored(p, new) /\ wg' = config
        /\ IF o.target = None THEN Finish(p) ELSE NextStep(p, "host")
        /\ UNCHANGED <<registry, backend>>
    BY <1>4, <1>f DEF SaveConfig, At
  <2> HIDE DEF new, config
  <2>3. cache' = new /\ Readable(disk)' = cache'
    BY <2>1, <2>2, StoredReadable
  <2>4. Loaded(new) = Loaded(cache) /\ ~Legacy(new)
    BY <1>k, <2>1 DEF Loaded, Legacy
  <2>5. CASE o.target = None
    <3>1. op'[p] = Idle
      BY <1>i, <2>2, <2>5
    <3> QED BY <1>k, <1>s, <2>1, <2>2, <2>3, <2>4, <2>5, <3>1 DEF KeptSettled, ListKept, registry
  <2>6. CASE o.target # None
    <3>1. op'[p] # Idle /\ op'[p].phase = "activate" /\ op'[p].step = "host"
      BY <1>n, <1>s, <2>2, <2>6 DEF OpSteps
    <3> QED BY <1>k, <1>s, <2>1, <2>2, <2>3, <2>4, <2>6, <3>1 DEF KeptOf, ListKept, registry
  <2> QED BY <2>5, <2>6
<1>5. CASE SaveHost(p)
  <2> DEFINE host == IF o.target = None THEN None ELSE o.target.server
             new == [cache EXCEPT !.host = host]
  <2>1. /\ new \in Maps /\ new.list = cache.list /\ new.active = cache.active
        /\ new.host = host /\ new.token = cache.token /\ new.wg = cache.wg
    BY <1>t, <1>m DEF Maps
  <2>2. /\ o.step = "host" /\ Stored(p, new) /\ NextStep(p, "token")
        /\ UNCHANGED <<registry, backend, wg>>
    BY <1>5, <1>f DEF SaveHost, At
  <2> HIDE DEF new
  <2>3. cache' = new /\ Readable(disk)' = cache'
    BY <2>1, <2>2, StoredReadable
  <2>4. op'[p] # Idle /\ op'[p].phase = o.phase /\ op'[p].step = "token" /\ op'[p].target = o.target
    BY <1>n, <2>2 DEF OpSteps
  <2>5. ~Legacy(new)
    BY <1>t, <1>k, <1>s, <2>1, <2>2, NoListIsNone DEF Loaded, Legacy
  <2> QED BY <1>k, <1>s, <2>1, <2>2, <2>3, <2>4, <2>5 DEF KeptOf, ListKept, registry
<1>6. CASE SaveToken(p)
  <2> DEFINE new == [cache EXCEPT !.token = o.target]
  <2>1. /\ new \in Maps /\ new.list = cache.list /\ new.active = cache.active
        /\ new.host = cache.host /\ new.token = o.target /\ new.wg = cache.wg
    BY <1>t DEF Maps
  <2>2. /\ o.step = "token" /\ Stored(p, new)
        /\ backend' = (IF o.target = None THEN None ELSE PairingOf(o.target))
        /\ IF o.target = None THEN NextStep(p, "wg") ELSE NextStep(p, "start") \/ Finish(p)
        /\ UNCHANGED <<registry, wg>>
    BY <1>6, <1>f DEF SaveToken, At
  <2> HIDE DEF new
  <2>3. cache' = new /\ Readable(disk)' = cache'
    BY <2>1, <2>2, StoredReadable
  <2>4. Loaded(new) = backend' /\ ~Legacy(new)
    <3>1. CASE o.target = None
      BY <2>1, <2>2, <3>1 DEF Loaded, Legacy
    <3>2. CASE o.target # None
      <4>1. new.host = o.target.server /\ new.token = o.target /\ new.list = profiles
        BY <1>k, <1>s, <2>1, <2>2, <3>2
      <4> QED BY <1>m, <1>t, <2>2, <3>2, <4>1, NoListIsNone DEF Loaded, Legacy, PairingOf
    <3> QED BY <3>1, <3>2
  <2>5. \/ op'[p] = Idle
        \/ op'[p] # Idle /\ op'[p].phase = o.phase /\ op'[p].step \in {"wg", "start"}
    BY <1>i, <1>n, <2>2 DEF OpSteps
  <2>6. ListKept' /\ cache'.active = active' /\ cache'.wg = wg' /\ (o.phase = "activate" => cache'.list = profiles')
    BY <1>k, <1>s, <2>1, <2>2, <2>3 DEF ListKept, registry
  <2>7. o.phase \in {"activate", "forget"}
    BY <1>s, <2>2
  <2> QED BY <2>3, <2>4, <2>5, <2>6, <2>7 DEF KeptOf, KeptSettled
<1>7. CASE StartTunnel(p)
  <2>1. o.step = "start" /\ op'[p] = Idle /\ UNCHANGED <<registry, backend, wg, cache, disk>>
    BY <1>7, <1>i DEF StartTunnel, At
  <2> QED BY <1>k, <1>s, <2>1 DEF KeptSettled, ListKept, registry, Readable
<1> QED BY <1>1, <1>2, <1>3, <1>4, <1>5, <1>6, <1>7 DEF Step

(* What the file holds keeps up with the app, step by step.                *)
THEOREM KeptInvariant == ASSUME OneAtATime PROVE Spec => []KeptInv
<1>1. Init => KeptInv
  BY DEF Init, KeptInv, Settled, Quiet
<1>2. UndoInv /\ KeptInv /\ [Next]_vars => KeptInv'
  <2> SUFFICES ASSUME UndoInv, KeptInv, [Next]_vars, WritesSucceed'
               PROVE  /\ running' => Readable(disk)' = cache'
                      /\ \A p \in Procs : op'[p] # Idle => KeptOf(op[p])'
                      /\ (Quiet /\ saving # "no")' => KeptSaving'
                      /\ Settled' => KeptSettled'
    BY DEF KeptInv
  <2>1. setting' = setting
    BY StepGoes, BeginGoes, StoresKeep DEF Next, Launch, Kill, UserTunnel, vars, app, UndoInv, RegistryInv
  <2>2. /\ WritesSucceed /\ RegistryInv /\ TypeOK
        /\ running => Readable(disk) = cache
        /\ \A p \in Procs : op[p] # Idle => UndoOf(op[p]) /\ KeptOf(op[p]) /\ saving = "no"
        /\ Quiet /\ saving # "no" => KeptSaving
        /\ Settled => KeptSettled
    BY <2>1 DEF KeptInv, UndoInv, RegistryInv, WritesSucceed
  <2>q. Settled' => Quiet' /\ saving' = "no"
    BY DEF Settled, Quiet
  <2>3. CASE \E p \in Procs : Begin(p)
    <3>1. PICK p \in Procs : Begin(p)
      BY <2>3
    <3>2. op[p] = Idle /\ op'[p] # Idle /\ running /\ saving = "no" /\ UNCHANGED <<app, cache, disk>>
      BY <2>2, <3>1, BeginGoes, OpsAreNotIdle DEF Begin, Switch, Pair, Remove, Start
    <3>3. \A q \in Procs : q = p
      BY DEF OneAtATime
    <3>4. KeptOf(op[p])'
      BY <2>2, <3>1, <3>2, <3>3, BeginKept DEF Settled
    <3> QED BY <2>2, <3>2, <3>3, <3>4 DEF Settled, Quiet, Readable
  <2>4. CASE \E p \in Procs : Step(p)
    <3>1. PICK p \in Procs : Step(p)
      BY <2>4
    <3>2. \A q \in Procs : q = p
      BY DEF OneAtATime
    <3>3. op[p] # Idle /\ running /\ saving = "no" /\ saving' = saving
      BY <2>2, <3>1, StepGoes DEF app
    <3>4. /\ Readable(disk)' = cache'
          /\ IF op'[p] = Idle THEN KeptSettled' ELSE KeptOf(op[p])'
      BY <2>2, <3>1, <3>3, StepKept
    <3> QED BY <2>q, <3>2, <3>3, <3>4 DEF Quiet
  <2>5. CASE Launch
    <3>1. op' = op /\ \A p \in Procs : op[p] = Idle
      BY <2>2, <2>5 DEF Launch, RegistryInv
    <3> QED BY <2>2, <2>q, <2>5, <3>1, LaunchKept
  <2>6. CASE Kill
    BY <2>6 DEF Kill, Settled, Quiet
  <2>7. CASE UserTunnel
    <3>1. op' = op /\ (\A p \in Procs : op[p] = Idle) /\ running /\ UNCHANGED <<saving, backend, wg, registry, cache, disk>>
      BY <2>7 DEF UserTunnel, app
    <3>2. /\ KeptSettled => KeptSettled'
          /\ KeptSaving => KeptSaving'
      BY <3>1 DEF KeptSettled, KeptSaving, ListKept, registry
    <3> QED BY <2>2, <2>q, <3>1, <3>2 DEF Readable, Settled, Quiet
  <2>8. CASE UNCHANGED vars
    BY <2>2, <2>8 DEF vars, app, registry, live, Settled, Quiet, KeptSettled, KeptSaving, KeptOf, ListKept, Readable
  <2>9. CASE PersistList \/ PersistActive
    <3>1. running /\ op' = op /\ saving # "no"
      BY <2>9, PersistGoes DEF Persists
    <3>2. \A p \in Procs : op[p] = Idle
      BY <2>2, <3>1
    <3> QED BY <2>2, <2>q, <2>9, <3>1, <3>2, PersistKept DEF Quiet
  <2>10. CASE Rename
    <3>1. /\ running /\ saving = "no" /\ op' = op /\ (\A p \in Procs : op[p] = Idle)
          /\ saving' = "list" /\ UNCHANGED <<backend, wg, registry, cache, disk>>
      BY <2>10 DEF Rename, live
    <3> QED BY <2>2, <3>1 DEF Settled, Quiet, KeptSettled, KeptSaving, Readable
  <2>11. CASE OtherKey
    <3>1. running /\ op' = op /\ UNCHANGED <<saving, backend, wg, registry, cache>> /\ disk' = cache
      BY <2>2, <2>11 DEF OtherKey, app, live, WritesSucceed
    <3>2. Readable(disk)' = cache'
      BY <2>2, <3>1, MapsAssumption DEF Readable, TypeOK
    <3>3. /\ KeptSettled => KeptSettled'
          /\ KeptSaving => KeptSaving'
          /\ \A p \in Procs : KeptOf(op[p]) => KeptOf(op[p])'
          /\ Settled' => Settled
      BY <2>11, <3>1 DEF OtherKey, KeptSettled, KeptSaving, KeptOf, ListKept, registry, Settled, app
    <3> QED BY <2>2, <3>1, <3>2, <3>3 DEF Quiet
  <2> QED BY <2>3, <2>4, <2>5, <2>6, <2>7, <2>8, <2>9, <2>10, <2>11 DEF Next
<1> QED BY <1>1, <1>2, UndoInvariant, PTL DEF Spec

(* When no write fails, an app that is killed with no operation of the     *)
(* user's and no write of the list under way comes back with the list, the *)
(* active server, the pairing and the tunnel's configuration it had,       *)
(* however often it was killed before, inside an operation or a write too, *)
(* unless this kill tears the file in a write of another key.              *)
THEOREM RelaunchesRestore == ASSUME OneAtATime PROVE Spec => RelaunchRestores
<1> DEFINE Restores ==
             WritesSucceed /\ Settled /\ ~running' /\ disk' # Torn =>
               /\ LoadedList(disk') = profiles /\ LoadedActive(disk') = active
               /\ Loaded(disk') = backend /\ disk'.wg = wg
<1>1. UndoInv /\ KeptInv /\ [Next]_vars => Restores
  <2> SUFFICES ASSUME UndoInv, KeptInv, [Next]_vars, WritesSucceed, Settled, ~running', disk' # Torn
               PROVE  /\ LoadedList(disk') = profiles /\ LoadedActive(disk') = active
                      /\ Loaded(disk') = backend /\ disk'.wg = wg
    OBVIOUS
  <2>1. KeptSettled /\ Readable(disk) = cache /\ RegistryInv /\ profiles \in Lists /\ running
    BY DEF KeptInv, UndoInv, RegistryInv, TypeOK, Settled
  <2>2. disk' = cache
    <3>1. Kill
      <4>1. ~(\E p \in Procs : Begin(p) \/ Step(p))
        BY <2>1, StepGoes, BeginGoes DEF app, RegistryInv
      <4>2. ~(Rename \/ PersistList \/ PersistActive \/ OtherKey)
        BY <2>1, StoresKeep
      <4> QED BY <2>1, <4>1, <4>2 DEF Next, Launch, UserTunnel, vars, app
    <3>2. disk' = disk
      BY <3>1 DEF Kill
    <3> QED BY <2>1, <3>2 DEF Readable
  <2>3. LoadedList(cache) = profiles
    BY <2>1, NoListIsNone DEF LoadedList, KeptSettled, ListKept
  <2>4. LoadedActive(cache) = active
    BY <2>1, <2>3 DEF LoadedActive, KeptSettled, RegistryInv
  <2> QED BY <2>1, <2>2, <2>3, <2>4 DEF KeptSettled
<1>2. Restores => [WritesSucceed /\ Settled /\ ~running' /\ disk' # Torn =>
       /\ LoadedList(disk') = profiles /\ LoadedActive(disk') = active
       /\ Loaded(disk') = backend /\ disk'.wg = wg]_vars
  OBVIOUS
<1> HIDE DEF Restores
<1> QED BY <1>1, <1>2, UndoInvariant, KeptInvariant, PTL DEF Spec, RelaunchRestores

================================================================================
