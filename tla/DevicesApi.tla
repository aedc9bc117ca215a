------------------------------- MODULE DevicesApi -------------------------------
(***************************************************************************)
(* The requests that need root: pairing and revoking a device, switching   *)
(* Admin mode off, rebooting.  archangeld runs as an ordinary user; each   *)
(* such request runs a command through `sudo -n systemd-run --wait`, which *)
(* sudo allows while /etc/sudoers.d/archangel is there, and which goes on  *)
(* by itself when the request that waits for it gives up.  The owner's     *)
(* scripts over SSH write that file back.  Every `pair` and `unpair`, of a *)
(* request or by hand, loads the token store, changes its copy and saves   *)
(* it, with no lock between them.                                          *)
(***************************************************************************)
CONSTANTS
  Names, Creds, Nobody,   \* as in DeviceRegistry
  Requests,               \* requests that may be under way at once
  Hands,                  \* commands the owner may be running by hand
  Settings                \* what may happen in one behaviour: see Setting

ASSUME NobodyAssumption == Nobody \notin Creds \cup Names \cup [Names -> Creds \cup {Nobody}]
Kinds == {"pair", "revoke", "off", "reboot"}

(* The requests and the commands by hand there may be, what the requests   *)
(* may ask, and whether the owner's scripts run.                           *)
Setting == [requests : SUBSET Requests, kinds : SUBSET Kinds, hands : SUBSET Hands, scripts : BOOLEAN]

ASSUME CommandsAssumption == Requests \cap Hands = {} /\ Settings \subseteq Setting

VARIABLES
  setting,                \* never changes
  holder, retired,        \* the paired devices, and the credentials revoked
  undone,                 \* credentials granted or revoked by the save of a command for another
  copy,                   \* per command: the store it loaded, or Nobody
  grant,                  \* TRUE: /etc/sudoers.d/archangel exists
  ssh,                    \* the script that runs over SSH
  kind, name, self,       \* per request: what it asks, of which name, ?self=true
  caller,                 \* ... the credential it came with
  device,                 \* ... the name that credential had
  found,                  \* ... the credential that held the name when it looked
  step, answer,           \* ... how far it is, and its answer, "error" for any status but 200
  unit,                   \* ... the transient unit that runs its command
  effect                  \* ... the credential that command granted or revoked

registry == <<holder, retired, undone>>
asked == <<setting, kind, name, self, caller, device>>
vars == <<registry, copy, grant, ssh, asked, found, step, answer, unit, effect>>

Commands == Requests \cup Hands
Stores == [Names -> Creds \cup {Nobody}]

Registry == INSTANCE DeviceRegistry

Waiting == {"check", "sudo", "wait", "later", "again"}

TypeOK ==
  /\ Registry!TypeOK
  /\ setting \in Settings /\ undone \subseteq Creds /\ copy \in [Commands -> Stores \cup {Nobody}]
  /\ grant \in BOOLEAN /\ ssh \in {"idle", "validate", "refresh"}
  /\ kind \in [Requests -> Kinds] /\ name \in [Requests -> Names \cup {Nobody}] /\ self \in [Requests -> BOOLEAN]
  /\ caller \in [Requests -> Creds \cup {Nobody}] /\ device \in [Requests -> Names \cup {Nobody}]
  /\ found \in [Requests -> Creds \cup {Nobody}]
  /\ step \in [Requests -> Waiting \cup {"idle"}]
  /\ answer \in [Requests -> {"none", "done", "error", "disabled", "enabled"}]
  /\ unit \in [Requests -> {"none", "running", "ended", "failed"}]
  /\ effect \in [Requests -> Creds \cup {Nobody}]

Each(x) == [r \in Requests |-> x]

Init ==
  /\ Registry!Init
  /\ setting \in Settings /\ undone = {} /\ copy = [u \in Commands |-> Nobody]
  /\ grant = TRUE /\ ssh = "idle"
  /\ kind = Each("off") /\ name = Each(Nobody) /\ self = Each(FALSE)
  /\ caller = Each(Nobody) /\ device = Each(Nobody) /\ found = Each(Nobody) /\ step = Each("idle")
  /\ answer = Each("none") /\ unit = Each("none") /\ effect = Each(Nobody)

--------------------------------------------------------------------------------

Goto(r, s) == step' = [step EXCEPT ![r] = s]
Answer(r, a) == Goto(r, "idle") /\ answer' = [answer EXCEPT ![r] = a]
Proceed(r) == Goto(r, "sudo") /\ UNCHANGED answer

(* auth.Middleware: the request carries the token of a paired device, and  *)
(* is given that device's name.                                            *)
Receive(r, k, n, m, s) ==
  /\ step[r] = "idle" /\ unit[r] # "running"
  /\ holder[m] # Nobody
  /\ n = Nobody <=> k \in {"off", "reboot"}
  /\ s => k = "revoke"
  /\ kind' = [kind EXCEPT ![r] = k] /\ name' = [name EXCEPT ![r] = n]
  /\ self' = [self EXCEPT ![r] = s]
  /\ caller' = [caller EXCEPT ![r] = IF k = "revoke" THEN holder[m] ELSE Nobody]
  /\ device' = [device EXCEPT ![r] = IF k = "revoke" THEN m ELSE Nobody]
  /\ found' = [found EXCEPT ![r] = Nobody] /\ effect' = [effect EXCEPT ![r] = Nobody]
  /\ unit' = [unit EXCEPT ![r] = "none"] /\ answer' = [answer EXCEPT ![r] = "none"]
  /\ Goto(r, "check")
  /\ UNCHANGED <<setting, registry, copy, grant, ssh>>

(* CreateHandler: a name in use is refused; an unreadable store is not.    *)
CheckPair(r) ==
  /\ kind[r] = "pair"
  /\ \/ holder[name[r]] # Nobody /\ Answer(r, "error")
     \/ Proceed(r)
  /\ UNCHANGED found

CheckRevokeAnyone(r) ==
  /\ kind[r] = "revoke"
  /\ IF holder[name[r]] = Nobody THEN Answer(r, "error") ELSE Proceed(r)
  /\ found' = [found EXCEPT ![r] = holder[name[r]]]

(* DeleteHandler: the name must be paired, and not to the caller unless    *)
(* it says so.                                                             *)
CheckRevoke(r) ==
  /\ kind[r] = "revoke"
  /\ \/ holder[name[r]] = Nobody /\ Answer(r, "error")
     \/ device[r] = name[r] /\ ~self[r] /\ Answer(r, "error")
     \/ holder[name[r]] # Nobody /\ (device[r] # name[r] \/ self[r]) /\ Proceed(r)
     \/ Answer(r, "error")
  /\ found' = [found EXCEPT ![r] = holder[name[r]]]

(* Enabled: `sudo -n true`, which also fails when it takes two seconds.    *)
Enabled == {grant, FALSE}

Report(r, on) == Answer(r, IF on THEN "enabled" ELSE "disabled")

(* SetHandler: already off is answered at once.                            *)
CheckOff(r) ==
  /\ kind[r] = "off"
  /\ \/ TRUE \in Enabled /\ Proceed(r)
     \/ Report(r, FALSE)
  /\ UNCHANGED found

(* RebootHandler answers before its command runs, a second later.          *)
CheckReboot(r) ==
  /\ kind[r] = "reboot"
  /\ \/ TRUE \in Enabled /\ Goto(r, "later") /\ answer' = [answer EXCEPT ![r] = "done"]
     \/ Answer(r, "error")
  /\ UNCHANGED found

Check(r) ==
  /\ step[r] = "check"
  /\ CheckPair(r) \/ CheckRevoke(r) \/ CheckOff(r) \/ CheckReboot(r)
  /\ UNCHANGED <<registry, copy, grant, ssh, asked, unit, effect>>

(* The answer to a request whose command failed; a reboot was announced    *)
(* already, and is tried once more.                                        *)
Failed(r) ==
  IF kind[r] = "reboot" THEN Goto(r, IF step[r] = "again" THEN "idle" ELSE "again") /\ UNCHANGED answer
  ELSE Answer(r, "error")

(* adminmode.Run: sudo refuses, or starts the unit, or fails to.           *)
Sudo(r) ==
  /\ step[r] \in {"sudo", "later", "again"}
  /\ \/ /\ grant
        /\ unit' = [unit EXCEPT ![r] = "running"]
        /\ Goto(r, IF step[r] = "again" THEN "idle" ELSE "wait") /\ UNCHANGED answer
     \/ /\ UNCHANGED unit
        /\ Failed(r)
  /\ UNCHANGED <<registry, copy, grant, ssh, asked, found, effect>>

CollectUnread(r) ==
  /\ step[r] = "wait" /\ unit[r] \in {"ended", "failed"}
  /\ Answer(r, "done")
  /\ UNCHANGED <<registry, copy, grant, ssh, asked, found, unit, effect>>

(* The unit has ended: its output and exit code are the answer.            *)
Collect(r) ==
  /\ step[r] = "wait"
  /\ \/ unit[r] = "ended" /\ kind[r] # "off" /\ Answer(r, "done")
     \/ unit[r] = "ended" /\ kind[r] = "off" /\ \E on \in Enabled : Report(r, on)
     \/ unit[r] = "failed" /\ Failed(r)
  /\ UNCHANGED <<registry, copy, grant, ssh, asked, found, unit, effect>>

(* The timeout of adminmode.run passes: the unit goes on without it.       *)
Timeout(r) ==
  /\ step[r] = "wait" /\ unit[r] = "running"
  /\ Failed(r)
  /\ UNCHANGED <<registry, copy, grant, ssh, asked, found, unit, effect>>

--------------------------------------------------------------------------------
(* The units, run by systemd as root. *)

Ends(r, outcome, c) ==
  /\ unit[r] = "running"
  /\ unit' = [unit EXCEPT ![r] = outcome] /\ effect' = [effect EXCEPT ![r] = c]
  /\ copy' = [copy EXCEPT ![r] = Nobody]

Held(store) == {store[n] : n \in Names} \ {Nobody}

(* Every credential there has ever been: a new one is none of them.        *)
Known == Held(holder) \cup retired \cup undone

(* Store.save, for the sake of c: the whole copy replaces the file, and    *)
(* what others saved since it was loaded is undone.  (How the file is      *)
(* replaced is in Pairing.)                                                *)
Save(new, c) ==
  /\ holder' = new
  /\ undone' = undone \cup (((Held(new) \ Held(holder)) \cup (Held(holder) \ Held(new))) \ {c})

Grants(store, n, c) ==
  /\ store[n] = Nobody /\ c \notin Known
  /\ Save([store EXCEPT ![n] = c], c) /\ UNCHANGED retired

Revokes(store, n) ==
  /\ store[n] # Nobody
  /\ Save([store EXCEPT ![n] = Nobody], store[n]) /\ retired' = retired \cup {store[n]}

UnitLoads(r) ==
  /\ kind[r] \in {"pair", "revoke"} /\ unit[r] = "running" /\ copy[r] = Nobody
  /\ copy' = [copy EXCEPT ![r] = holder]
  /\ UNCHANGED <<registry, grant, ssh, asked, found, step, answer, unit, effect>>

(* archangeld pair <name> --raw                                            *)
UnitPairs(r) ==
  /\ kind[r] = "pair" /\ copy[r] # Nobody
  /\ \E c \in Creds : Grants(copy[r], name[r], c) /\ Ends(r, "ended", c)
  /\ UNCHANGED <<grant, ssh, asked, found, step, answer>>

(* archangeld unpair <name>: the tunnel's peer may fail to go afterwards.  *)
UnitRevokes(r) ==
  /\ kind[r] = "revoke" /\ copy[r] # Nobody
  /\ Revokes(copy[r], name[r])
  /\ \E outcome \in {"ended", "failed"} : Ends(r, outcome, copy[r][name[r]])
  /\ UNCHANGED <<grant, ssh, asked, found, step, answer>>

(* rm -f /etc/sudoers.d/archangel                                          *)
UnitRemovesGrant(r) ==
  /\ kind[r] = "off"
  /\ grant' = FALSE /\ Ends(r, "ended", Nobody)
  /\ UNCHANGED <<registry, ssh, asked, found, step, answer>>

UnitFails(r) ==
  /\ Ends(r, "failed", Nobody)
  /\ UNCHANGED <<registry, grant, ssh, asked, found, step, answer>>

(* systemctl reboot: nothing that runs survives it.                        *)
UnitReboots(r) ==
  /\ kind[r] = "reboot" /\ unit[r] = "running"
  /\ unit' = Each("none") /\ step' = Each("idle") /\ answer' = Each("none") /\ ssh' = "idle"
  /\ copy' = [u \in Commands |-> Nobody]
  /\ UNCHANGED <<registry, grant, asked, found, effect>>

(* archangeld restarts: its requests end, the units it started do not.     *)
DaemonRestarts ==
  /\ step' = Each("idle") /\ answer' = Each("none")
  /\ UNCHANGED <<registry, copy, grant, ssh, asked, found, unit, effect>>

--------------------------------------------------------------------------------
(* The owner's scripts over SSH. *)

(* enableAdminMode: write the grant, validate it, remove it again if bad.  *)
Enable ==
  /\ ssh = "idle" /\ ssh' = "validate"
  /\ grant' = TRUE
  /\ UNCHANGED <<registry, copy, asked, found, step, answer, unit, effect>>

Validate ==
  /\ ssh = "validate" /\ ssh' = "idle"
  /\ grant' \in {grant, FALSE}
  /\ UNCHANGED <<registry, copy, asked, found, step, answer, unit, effect>>

(* _sudoersRefreshScript, part of every update and sync: the grant is      *)
(* written again only if it is there.                                      *)
RefreshTest ==
  /\ ssh = "idle" /\ grant /\ ssh' = "refresh"
  /\ UNCHANGED <<registry, copy, grant, asked, found, step, answer, unit, effect>>

RefreshWrite ==
  /\ ssh = "refresh" /\ ssh' = "idle"
  /\ grant' \in {grant, TRUE}
  /\ UNCHANGED <<registry, copy, asked, found, step, answer, unit, effect>>

(* `archangeld pair` and `unpair` on the server itself.                    *)
HandLoads(h) ==
  /\ copy[h] = Nobody /\ copy' = [copy EXCEPT ![h] = holder]
  /\ UNCHANGED <<registry, grant, ssh, asked, found, step, answer, unit, effect>>

HandSaves(h, n) ==
  /\ copy[h] # Nobody /\ copy' = [copy EXCEPT ![h] = Nobody]
  /\ Revokes(copy[h], n) \/ \E c \in Creds : Grants(copy[h], n, c)
  /\ UNCHANGED <<grant, ssh, asked, found, step, answer, unit, effect>>

HandFails(h) ==
  /\ copy[h] # Nobody /\ copy' = [copy EXCEPT ![h] = Nobody]
  /\ UNCHANGED <<registry, grant, ssh, asked, found, step, answer, unit, effect>>

--------------------------------------------------------------------------------

Handler(r) == Check(r) \/ Sudo(r) \/ Collect(r) \/ Timeout(r)

Unit(r) == UnitLoads(r) \/ UnitPairs(r) \/ UnitRevokes(r) \/ UnitRemovesGrant(r) \/ UnitFails(r) \/ UnitReboots(r)

Next ==
  \/ \E r \in Requests : Handler(r) \/ Unit(r)
  \/ \E r \in setting.requests, k \in setting.kinds, n \in Names \cup {Nobody}, m \in Names, s \in BOOLEAN :
       Receive(r, k, n, m, s)
  \/ \E h \in setting.hands : HandLoads(h) \/ HandFails(h) \/ \E n \in Names : HandSaves(h, n)
  \/ setting.scripts /\ (Enable \/ Validate \/ RefreshTest \/ RefreshWrite)
  \/ DaemonRestarts

Spec == Init /\ [][Next]_vars

--------------------------------------------------------------------------------
(* Properties. *)

(* What a device is told is so, whatever other requests and commands did   *)
(* between its check, its command and its answer: the bundle it is given   *)
(* is in the store (or was revoked since), and the device it saw under the *)
(* name it revoked is not.  Only the save of another command, from a copy  *)
(* loaded before, can make it untrue.                                      *)
AnswersAreTrue ==
  \A r \in Requests : answer[r] = "done" =>
    /\ kind[r] = "pair" => effect[r] # Nobody /\ (holder[name[r]] = effect[r] \/ effect[r] \in retired \cup undone)
    /\ kind[r] = "revoke" => found[r] # Nobody /\ (found[r] \notin Held(holder) \/ found[r] \in undone)

(* A request without ?self=true never revokes the device it came from,     *)
(* however late its command runs and however old the copy it changes.      *)
NeverCutsItselfOff ==
  \A r \in Requests : kind[r] = "revoke" /\ ~self[r] => effect[r] = Nobody \/ effect[r] # caller[r]

(* The inductive invariant.  A credential has one name, in the store and   *)
(* in every copy of it, so what a request found, and the caller it         *)
(* compared with, are under their names or nowhere, however long its       *)
(* command took and whatever was saved meanwhile.                          *)
Copies == {holder} \cup ({copy[u] : u \in Commands} \ {Nobody})
Belongs(c, n) == c \in Known /\ \A s \in Copies, m \in Names : s[m] = c => m = n

CopiesInv ==
  /\ \A s \in Copies : Held(s) \subseteq Known
  /\ \A s, t \in Copies, m, n \in Names : s[m] = t[n] => m = n \/ s[m] = Nobody

Checked(r) == step[r] \in {"sudo", "wait"} \/ unit[r] # "none"

RevokeInv(r) ==
  /\ Checked(r) => Belongs(found[r], name[r])
  /\ unit[r] = "ended" => found[r] \notin Held(holder) \/ found[r] \in undone
  /\ step[r] = "check" \/ Checked(r) => device[r] \in Names /\ Belongs(caller[r], device[r])
  /\ Checked(r) /\ ~self[r] => device[r] # name[r]
  /\ ~self[r] => effect[r] = Nobody \/ effect[r] # caller[r]

RequestInv(r) ==
  /\ kind[r] \in {"pair", "revoke"} <=> name[r] # Nobody
  /\ step[r] \in {"check", "sudo", "later"} => unit[r] = "none"
  /\ step[r] \in Waiting /\ kind[r] # "reboot" => answer[r] = "none"
  /\ step[r] \in {"later", "again"} => kind[r] = "reboot"
  /\ answer[r] = "done" /\ kind[r] # "reboot" => unit[r] = "ended"
  /\ copy[r] # Nobody => unit[r] = "running"
  /\ kind[r] = "pair" /\ unit[r] = "ended" =>
       effect[r] \in Creds /\ (holder[name[r]] = effect[r] \/ effect[r] \in retired \cup undone)
  /\ kind[r] = "revoke" => RevokeInv(r)

ApiInv == TypeOK /\ CopiesInv /\ \A r \in Requests : RequestInv(r)

================================================================================
