--------------------------- MODULE ServerActivation ---------------------------
(***************************************************************************)
(* Which server the app talks to.  ServerRegistry holds the paired servers *)
(* and which is active; ArchangeldConnection holds the live host and       *)
(* token; WireGuardController the tunnel's configuration.  Each keeps its  *)
(* part in memory and under keys of its own in one LocalKvStore file, and  *)
(* pairing, switching and removing a server update them one after another, *)
(* with an await between any two steps and undo code for what fails.       *)
(***************************************************************************)
EXTENDS Naturals, Sequences

CONSTANTS
  Servers,     \* the servers, each the identity of its profile
  Tunnelled,   \* those whose profile holds a tunnel configuration
  Tokens,      \* the tokens a server hands out, one per pairing
  Procs,       \* user operations that may be under way at once
  Settings,    \* what may happen in one behaviour: see Setting
  None,
  Torn         \* the file was truncated and not yet written

Phases == {"registry", "activate", "undo", "restore", "clear", "forget"}

(* The phases in which a write of the store may fail, "tunnel", or "other" *)
(* for the writes of other keys; whether the app may be killed at any      *)
(* step; the tokens servers hand out.                                      *)
Setting == [faults : SUBSET (Phases \cup {"tunnel", "other"}), crashes : BOOLEAN, tokens : SUBSET Tokens]

Profile == [server : Servers, token : Tokens]

ASSUME ConstantsAssumption ==
  /\ Tunnelled \subseteq Servers /\ None \notin Servers \cup Profile
  /\ Settings \subseteq Setting

VARIABLES
  setting,           \* never changes
  running,           \* the app has been launched
  saving,            \* the write of the registry's list that a load or a rename is at
  profiles, active,  \* ServerRegistry
  backend,           \* ArchangeldConnection: host and token, or None
  wg,                \* WireGuardController: whose configuration it holds
  tunnel,            \* whose tunnel is up
  cache, disk,       \* LocalKvStore: the map in memory, the map in the file
  op                 \* the user operations under way

registry == <<profiles, active>>
live == <<backend, wg, tunnel>>
app == <<running, saving, setting>>
vars == <<app, registry, live, cache, disk, op>>

Lists == {l \in Seq(Profile) : \A i, j \in DOMAIN l : l[i].server = l[j].server => i = j}
Pairing == [host : Servers, token : Profile]
Maps == [list : Lists \cup {None}, active : Servers \cup {None},
         host : Servers \cup {None}, token : Profile \cup {None}, wg : Servers \cup {None}]

(* A missing key is no list, and a torn file no map.                       *)
ASSUME MapsAssumption == None \notin Lists /\ Torn \notin Maps

Empty == [list |-> None, active |-> None, host |-> None, token |-> None, wg |-> None]
Idle == [step |-> "idle"]

Ops == [kind : {"switch", "pair", "remove"}, phase : Phases,
        step : {"list", "active", "stop", "wg", "host", "token", "start"},
        target : Profile \cup {None}, previous : Profile \cup {None},
        before : Lists, was : BOOLEAN]

(* A first _migrateLegacy whose write fails is tried once again.           *)
Savings == {"no", "firstlist", "firstactive", "list", "active"}

TypeOK ==
  /\ running \in BOOLEAN /\ saving \in Savings /\ setting \in Settings
  /\ profiles \in Lists /\ active \in Servers \cup {None}
  /\ backend \in Pairing \cup {None} /\ wg \in Servers \cup {None} /\ tunnel \in Servers \cup {None}
  /\ cache \in Maps /\ disk \in Maps \cup {Torn}
  /\ op \in [Procs -> Ops \cup {Idle}]

--------------------------------------------------------------------------------

Ids(list) == {list[i].server : i \in DOMAIN list}
ById(list, s) == list[CHOOSE i \in DOMAIN list : list[i].server = s]
Lookup(list, s) == IF s \in Ids(list) THEN ById(list, s) ELSE None
Active == Lookup(profiles, active)

PairingOf(p) == [host |-> p.server, token |-> p]
ConfigOf(p) == IF p.server \in Tunnelled THEN p.server ELSE None
Loaded(map) == IF None \in {map.host, map.token} THEN None ELSE [host |-> map.host, token |-> map.token]

--------------------------------------------------------------------------------
(* The registry's list operations. *)

AddedAlways(p) == Append(profiles, p)

(* add: the profile of a server already known is updated in place.         *)
Added(p) ==
  IF p.server \in Ids(profiles)
  THEN [i \in DOMAIN profiles |-> IF profiles[i].server = p.server THEN p ELSE profiles[i]]
  ELSE Append(profiles, p)

IndexOf(s) == CHOOSE i \in DOMAIN profiles : profiles[i].server = s

Removed(s) == [i \in 1..(Len(profiles) - 1) |-> profiles[IF i < IndexOf(s) THEN i ELSE i + 1]]

(* remove: the next in the list becomes active, or the new last one.       *)
Successor(s) ==
  LET rest == Removed(s)
  IN  IF rest = <<>> THEN None
      ELSE rest[IF IndexOf(s) <= Len(rest) THEN IndexOf(s) ELSE Len(rest)].server

--------------------------------------------------------------------------------
(* Launch, and what writes the file outside pairing, switching and         *)
(* removing.                                                               *)

Init ==
  /\ running = FALSE /\ saving = "no" /\ setting \in Settings
  /\ profiles = <<>> /\ active = None /\ backend = None /\ wg = None /\ tunnel = None
  /\ cache = Empty
  /\ disk \in {Empty} \cup
       {[Empty EXCEPT !.host = p.server, !.token = p, !.wg = ConfigOf(p)] : p \in [server : Servers, token : setting.tokens]}
  /\ op = [p \in Procs |-> Idle]

(* What the three load from a map: a pairing from before there was a       *)
(* registry becomes its first profile, and an active id the list does not  *)
(* hold gives way to the first.                                            *)
Legacy(map) == map.list = None /\ Loaded(map) # None
LoadedList(map) ==
  IF Legacy(map) THEN <<map.token>> ELSE IF map.list = None THEN <<>> ELSE map.list
ActiveAsStored(map) == map.active

LoadedActive(map) ==
  LET list == LoadedList(map)
  IN  IF list = <<>> \/ map.active \in Ids(list) THEN map.active ELSE list[1].server

(* An unreadable file counts as empty.                                     *)
Launch ==
  /\ ~running /\ running' = TRUE
  /\ LET map == IF disk = Torn THEN Empty ELSE disk
     IN  /\ profiles' = LoadedList(map) /\ active' = LoadedActive(map)
         /\ backend' = Loaded(map) /\ wg' = map.wg /\ cache' = map
         /\ saving' = IF Legacy(map) THEN "firstlist"
                      ELSE IF LoadedActive(map) # map.active THEN "list" ELSE "no"
  /\ tunnel' \in {tunnel, None}
  /\ UNCHANGED <<setting, disk, op>>

(* rename: _persist outside any other operation.                           *)
Rename ==
  /\ running /\ saving = "no" /\ \A p \in Procs : op[p] = Idle
  /\ profiles # <<>> /\ saving' = "list"
  /\ UNCHANGED <<running, setting, registry, live, cache, disk, op>>

(* A write of _persist for a load or a rename, and the step it leads to.   *)
Persist(new, next) ==
  /\ running /\ cache' = new
  /\ \/ disk' = new /\ saving' = next
     \/ /\ "registry" \in setting.faults /\ disk' \in {disk, Torn}
        /\ saving' = IF saving \in {"firstlist", "firstactive"} THEN "list" ELSE "no"
  /\ UNCHANGED <<running, setting, registry, live, op>>

PersistList ==
  /\ saving \in {"firstlist", "list"}
  /\ Persist([cache EXCEPT !.list = profiles], IF saving = "list" THEN "active" ELSE "firstactive")

PersistActive ==
  /\ saving \in {"firstactive", "active"}
  /\ Persist([cache EXCEPT !.active = active], "no")

(* Another key of the same file is written, as the update check's.         *)
OtherKey ==
  /\ running
  /\ disk' = cache \/ ("other" \in setting.faults /\ disk' = Torn)
  /\ UNCHANGED <<app, registry, live, cache, op>>

(* The app is killed, perhaps while it writes the file.                    *)
Kill ==
  /\ setting.crashes /\ running
  /\ running' = FALSE /\ saving' = "no"
  /\ profiles' = <<>> /\ active' = None /\ backend' = None /\ wg' = None
  /\ cache' = Empty
  /\ disk' \in {disk, Torn}
  /\ op' = [p \in Procs |-> Idle]
  /\ UNCHANGED <<setting, tunnel>>

--------------------------------------------------------------------------------
(* Starting an operation: the synchronous part up to its first write.      *)

Start(p, kind, step, target) ==
  /\ running /\ saving = "no" /\ op[p] = Idle
  /\ op' = [op EXCEPT ![p] = [kind |-> kind,
                              phase |-> CASE step = "list" -> "registry" [] step = "host" -> "forget" [] OTHER -> "activate",
                              step |-> step, target |-> target, previous |-> Active,
                              before |-> profiles, was |-> tunnel # None]]
  /\ UNCHANGED <<app, live, cache, disk>>

(* switchToServer; setActive does nothing when s is active already.        *)
Switch(p, s) ==
  /\ s \in Ids(profiles)
  /\ Start(p, "switch", IF active = s THEN "stop" ELSE "list", ById(profiles, s))
  /\ active' = s
  /\ UNCHANGED profiles

(* pairNewServer with a bundle of server s.                                *)
Pair(p, s, t) ==
  LET profile == [server |-> s, token |-> t] IN
  /\ Start(p, "pair", "list", profile)
  /\ profiles' = Added(profile) /\ active' = s

(* removeActiveServer                                                      *)
Remove(p) ==
  IF Active = None
  THEN Start(p, "remove", "host", None) /\ UNCHANGED registry
  ELSE Start(p, "remove", "list", None) /\ profiles' = Removed(active) /\ active' = Successor(active)

--------------------------------------------------------------------------------
(* How an operation goes on after a step, or after an exception.           *)

Goto(p, phase, step, target) ==
  op' = [op EXCEPT ![p] = [@ EXCEPT !.phase = phase, !.step = step, !.target = target]]

Finish(p) == op' = [op EXCEPT ![p] = Idle]

NextStep(p, step) == Goto(p, op[p].phase, step, op[p].target)

(* _restoreConnection: activate the previous profile, or clear everything. *)
Restore(p) ==
  IF op[p].previous = None THEN Goto(p, "clear", "host", None)
                           ELSE Goto(p, "restore", "stop", op[p].previous)

(* The registry is stored: activate the target, or what remove leaves.     *)
AfterRegistry(p) ==
  CASE op[p].phase = "undo" -> Restore(p)
    [] op[p].phase # "undo" /\ op[p].kind # "remove" -> Goto(p, "activate", "stop", op[p].target)
    [] OTHER -> IF Active = None THEN Goto(p, "forget", "host", None)
                                 ELSE Goto(p, "activate", "stop", Active)

UndoKeepsProfile(p) ==
  LET o == op[p] IN
  /\ o.previous # None
  /\ Goto(p, "undo", "list", o.target)
  /\ active' = o.previous.server /\ UNCHANGED profiles

(* activateProfile has thrown: each caller's catch block.                  *)
Undo(p) ==
  LET o == op[p] IN
  CASE o.kind = "remove" -> Goto(p, "clear", "host", None) /\ UNCHANGED registry
    [] o.kind = "pair" ->
         /\ Goto(p, "undo", "list", o.target)
         /\ profiles' = o.before /\ active' = IF o.previous = None THEN None ELSE o.previous.server
    [] o.kind = "switch" /\ (o.previous = None \/ o.previous.server = o.target.server) ->
         Finish(p) /\ UNCHANGED registry
    [] OTHER ->
         /\ UNCHANGED profiles
         /\ IF o.previous.server \in Ids(profiles) /\ active # o.previous.server
            THEN Goto(p, "undo", "list", o.target) /\ active' = o.previous.server
            ELSE Restore(p) /\ UNCHANGED active

ThrowUncaught(p) == Finish(p) /\ UNCHANGED registry

(* A write has thrown.  Clearing goes on with the tunnel all the same.     *)
Throw(p) ==
  LET o == op[p] IN
  CASE o.phase = "activate" -> Undo(p)
    [] o.phase = "undo" -> Restore(p) /\ UNCHANGED registry
    [] o.phase = "clear" /\ o.step # "wg" -> NextStep(p, "wg") /\ UNCHANGED registry
    [] OTHER -> Finish(p) /\ UNCHANGED registry

--------------------------------------------------------------------------------
(* The steps. *)

At(p, step) == running /\ op[p].step = step

(* LocalKvStore.write and delete: the map changes first; then the whole    *)
(* map replaces the file, or that fails and leaves the file as it was or   *)
(* truncated.  Deleting a key that is not there writes nothing.            *)
Deleting(p) == op[p].target = None /\ op[p].step \in {"host", "token", "wg"}
Skipped(p, new) == Deleting(p) /\ new = cache

Stored(p, new) == cache' = new /\ disk' = IF Skipped(p, new) THEN disk ELSE new

Failed(p, new) ==
  /\ op[p].phase \in setting.faults /\ ~Skipped(p, new)
  /\ cache' = new /\ disk' \in {disk, Torn}
  /\ Throw(p)
  /\ UNCHANGED <<backend, wg>>

SaveList(p) ==
  LET new == [cache EXCEPT !.list = profiles] IN
  /\ At(p, "list")
  /\ \/ Stored(p, new) /\ NextStep(p, "active") /\ UNCHANGED <<registry, backend, wg>>
     \/ Failed(p, new)
  /\ UNCHANGED <<app, tunnel>>

SaveActive(p) ==
  LET new == [cache EXCEPT !.active = active] IN
  /\ At(p, "active")
  /\ \/ Stored(p, new) /\ AfterRegistry(p) /\ UNCHANGED <<registry, backend, wg>>
     \/ Failed(p, new)
  /\ UNCHANGED <<app, tunnel>>

(* disconnect reports a failure only in lastError.                         *)
Disconnected == {None} \cup (IF "tunnel" \in setting.faults THEN {tunnel} ELSE {})

KeepTunnel(p) ==
  /\ At(p, "stop")
  /\ NextStep(p, "wg")
  /\ UNCHANGED <<app, registry, live, cache, disk>>

StopTunnel(p) ==
  /\ At(p, "stop")
  /\ tunnel' \in Disconnected
  /\ NextStep(p, "wg")
  /\ UNCHANGED <<app, registry, backend, wg, cache, disk>>

(* wg.pair with the target's configuration; without one wg.unpair, which   *)
(* disconnects too.  It is the last step when the pairing is given up.     *)
SaveConfig(p) ==
  LET target == op[p].target
      config == IF target = None THEN None ELSE ConfigOf(target)
      new == [cache EXCEPT !.wg = config]
  IN  /\ At(p, "wg")
      /\ tunnel' \in IF config = None THEN Disconnected ELSE {tunnel}
      /\ \/ /\ Stored(p, new) /\ wg' = config
            /\ IF target = None THEN Finish(p) ELSE NextStep(p, "host")
            /\ UNCHANGED <<registry, backend>>
         \/ Failed(p, new)
      /\ UNCHANGED app

(* backend.pair writes the host, then the token, and then takes both into  *)
(* memory; backend.unpair deletes them likewise.                           *)
SaveHost(p) ==
  LET target == op[p].target
      new == [cache EXCEPT !.host = IF target = None THEN None ELSE target.server]
  IN  /\ At(p, "host")
      /\ \/ Stored(p, new) /\ NextStep(p, "token") /\ UNCHANGED <<registry, backend, wg>>
         \/ Failed(p, new)
      /\ UNCHANGED <<app, tunnel>>

SaveToken(p) ==
  LET target == op[p].target
      new == [cache EXCEPT !.token = target]
  IN  /\ At(p, "token")
      /\ \/ /\ Stored(p, new)
            /\ backend' = IF target = None THEN None ELSE PairingOf(target)
            /\ IF target = None THEN NextStep(p, "wg")
               ELSE IF op[p].was /\ ConfigOf(target) # None THEN NextStep(p, "start")
               ELSE Finish(p)
            /\ UNCHANGED <<registry, wg>>
         \/ Failed(p, new)
      /\ UNCHANGED <<app, tunnel>>

(* connect uses the configuration in memory, and never throws.             *)
StartTunnel(p) ==
  /\ At(p, "start")
  /\ tunnel' \in {wg, tunnel}
  /\ Finish(p)
  /\ UNCHANGED <<app, registry, backend, wg, cache, disk>>

(* The user connects or disconnects by hand, or the tunnel drops.          *)
UserTunnel ==
  /\ running /\ \A p \in Procs : op[p] = Idle
  /\ \/ backend # None /\ wg # None /\ tunnel' = wg
     \/ tunnel' = None
  /\ UNCHANGED <<app, registry, backend, wg, cache, disk, op>>

--------------------------------------------------------------------------------

Step(p) ==
  \/ SaveList(p) \/ SaveActive(p) \/ StopTunnel(p) \/ SaveConfig(p)
  \/ SaveHost(p) \/ SaveToken(p) \/ StartTunnel(p)

Begin(p) ==
  \/ \E s \in Servers : Switch(p, s)
  \/ \E s \in Servers, t \in setting.tokens : Pair(p, s, t)
  \/ Remove(p)

Next ==
  \/ Launch \/ Kill \/ Rename \/ PersistList \/ PersistActive \/ OtherKey \/ UserTunnel
  \/ \E p \in Procs : Begin(p) \/ Step(p)

Spec == Init /\ [][Next]_vars

--------------------------------------------------------------------------------
(* Properties. *)

(* The app is not killed, and a write fails only in an activation or in    *)
(* the undo code of one, never the registry's own.                         *)
Forgiving == setting.faults \subseteq {"activate", "undo"} /\ ~setting.crashes

Settled == running /\ saving = "no" /\ \A p \in Procs : op[p] = Idle

(* The registry and the live connection name the same server: an app that  *)
(* is paired talks, with the stored token and through the stored tunnel,   *)
(* to the server the list shows as active, whichever write of an           *)
(* activation or of its undo code failed.  (A failed removal may leave it  *)
(* unpaired.)                                                              *)
ActiveIsLive ==
  Forgiving /\ Settled /\ backend # None =>
    Active # None /\ backend = PairingOf(Active) /\ wg = ConfigOf(Active)

(* Only one tunnel can exist, and it is the active server's.               *)
TunnelIsActive == Forgiving /\ Settled /\ tunnel # None => tunnel = active

(* Whatever fails and whenever the app is killed, an app that has servers  *)
(* has an active one: without it every screen would be unreachable.        *)
SomeServerActive == running /\ profiles # <<>> => Active # None

(* A pairing, or a switch to another server, whose activation fails leaves *)
(* the list, the active server and the live pairing as they were before it *)
(* began, if the activation that brings back the previous server, or the   *)
(* clearing where there was none, does not fail too; a failed write of the *)
(* undone list does no harm to that.  (When it is the registry's own first *)
(* write that fails, nothing is undone.)                                   *)
FailedActivationUndone ==
  [][\A p \in Procs :
       /\ op[p] # Idle /\ op[p].kind # "remove" /\ op[p].phase \in {"undo", "restore", "clear"}
       /\ op'[p] = Idle /\ running' /\ op[p].phase \notin setting.faults
       => /\ profiles' = op[p].before
          /\ IF op[p].previous = None
             THEN active' = None /\ backend' = None /\ wg' = None
             ELSE /\ active' = op[p].previous.server /\ backend' = PairingOf(op[p].previous)
                  /\ wg' = ConfigOf(op[p].previous)]_vars

================================================================================
