--------------------------------- MODULE Services ---------------------------------
(***************************************************************************)
(* The systemd units that archangeld starts, stops and restarts for the    *)
(* app, and the timers whose service it starts.  It asks by                *)
(* "sudo -n systemd-run --wait systemctl ...": without Admin mode sudo     *)
(* refuses, and with it the command is a job of systemd, which neither the *)
(* ten seconds the request waits nor the end of archangeld stops.          *)
(***************************************************************************)

CONSTANTS
  Units,      \* of the server
  Managed,    \* managedUnits
  Lifeline,   \* lockoutUnits
  Self,       \* archangel.service
  Tunnel,     \* wg-quick@wg0.service, which archangel.service requires
  Timers,
  Askers,     \* requests that may be under way at once
  NoUnit

ASSUME ServicesAssumption ==
  /\ Lifeline \subseteq Managed /\ Managed \subseteq Units /\ NoUnit \notin Units
  /\ {Self, Tunnel} \subseteq Lifeline /\ Self # Tunnel

VARIABLES
  unit,                \* "failed" when it, or its start, has failed; "dependency"
                       \* when it was not started because the tunnel failed to
  admin,               \* Admin mode
  activates,           \* the service a timer activates, NoUnit when it is not listed
  verb, subject,       \* what a request wants done, with which unit
  astep,               \* its step
  job                  \* what systemd has still to do for it: "both" starts Self with the tunnel

hostVars == <<admin, activates>>
askVars == <<verb, subject, astep>>
serviceVars == <<unit, hostVars, askVars, job>>

Verbs == {"start", "stop", "restart"}

ServicesTypeOK ==
  /\ unit \in [Units -> {"up", "down", "failed", "dependency"}]
  /\ admin \in BOOLEAN /\ activates \in [Timers -> Units \cup {NoUnit}]
  /\ verb \in [Askers -> Verbs \cup {"run"}]
  /\ subject \in [Askers -> Units \cup {NoUnit}] /\ astep \in [Askers -> {"idle", "list", "sudo", "wait"}]
  /\ job \in [Askers -> Verbs \cup {"both", "none"}]

ServicesInit ==
  /\ unit = [u \in Units |-> "up"]
  /\ admin \in BOOLEAN /\ activates \in [Timers -> Units \cup {NoUnit}]
  /\ verb = [q \in Askers |-> "run"] /\ subject = [q \in Askers |-> NoUnit]
  /\ astep = [q \in Askers |-> "idle"]
  /\ job = [q \in Askers |-> "none"]

Runs == unit[Self] = "up"
Goes(q, s) == astep' = [astep EXCEPT ![q] = s]

--------------------------------------------------------------------------------

AllowedAnything(v, u) == TRUE

(* checkLockout.                                                           *)
Allowed(v, u) == v # "stop" \/ u \notin Lifeline

(* ServiceAction: any other name or action ends the request before this.   *)
Act(q, v, u) ==
  /\ Runs /\ astep[q] = "idle" /\ job[q] = "none"
  /\ u \in Managed /\ v \in Verbs /\ Allowed(v, u)
  /\ verb' = [verb EXCEPT ![q] = v] /\ subject' = [subject EXCEPT ![q] = u] /\ Goes(q, "sudo")
  /\ UNCHANGED <<unit, hostVars, job>>

(* TriggerScheduled, for a name that ends in .timer.                       *)
Trigger(q) ==
  /\ Runs /\ astep[q] = "idle" /\ job[q] = "none"
  /\ verb' = [verb EXCEPT ![q] = "run"] /\ Goes(q, "list")
  /\ UNCHANGED <<unit, hostVars, subject, job>>

(* list-timers is read again by every request; when it fails, the list is  *)
(* of cron jobs instead, and none has the name of a timer.                 *)
ReadTimers(q, t) ==
  /\ astep[q] = "list" /\ Runs
  /\ \/ /\ activates[t] # NoUnit /\ Goes(q, "sudo")
        /\ verb' = [verb EXCEPT ![q] = "start"] /\ subject' = [subject EXCEPT ![q] = activates[t]]
     \/ Goes(q, "idle") /\ UNCHANGED <<verb, subject>>
  /\ UNCHANGED <<unit, hostVars, job>>

(* systemctlRun: ErrOff, or systemd has a job.                             *)
AskSystemd(q) ==
  /\ astep[q] = "sudo" /\ Runs
  /\ IF admin THEN Goes(q, "wait") /\ job' = [job EXCEPT ![q] = verb[q]]
     ELSE Goes(q, "idle") /\ UNCHANGED job
  /\ UNCHANGED <<unit, hostVars, verb, subject>>

(* The job is done, or ten seconds are over.                               *)
Answer(q) ==
  /\ astep[q] = "wait" /\ Runs /\ Goes(q, "idle")
  /\ UNCHANGED <<unit, hostVars, verb, subject, job>>

ServiceRequest(q) ==
  \/ \E v \in Verbs, u \in Units : Act(q, v, u)
  \/ Trigger(q) \/ AskSystemd(q) \/ Answer(q)
  \/ \E t \in Timers : ReadTimers(q, t)

--------------------------------------------------------------------------------
(* systemd. *)

Becomes(u, s) == unit' = [unit EXCEPT ![u] = s]

(* A stop, the first half of a restart too, also stops what requires the   *)
(* unit, and a restart then starts both again.                             *)
Halves(u) == IF u = Tunnel THEN {Self, Tunnel} ELSE {u}

StopJob(q) ==
  /\ job[q] \in {"stop", "restart"}
  /\ unit' = [u \in Units |-> IF u \in Halves(subject[q]) /\ unit[u] = "up" THEN "down" ELSE unit[u]]
  /\ job' = [job EXCEPT ![q] = CASE @ = "stop" -> "none"
                                [] @ = "restart" /\ subject[q] = Tunnel /\ Runs -> "both"
                                [] OTHER -> "start"]

(* Whatever is not up is started, or fails to; archangel.service waits for *)
(* the tunnel, which is started with it, and is left down when that fails. *)
SystemdStarts(units) ==
  LET required == IF Self \in units THEN {Tunnel} ELSE {}
      wanted == {u \in units \cup required : unit[u] # "up"}
  IN  \E broken \in SUBSET wanted :
        unit' = [u \in Units |-> IF u \notin wanted THEN unit[u]
                                ELSE IF u = Self /\ Tunnel \in broken THEN "dependency"
                                ELSE IF u \in broken THEN "failed" ELSE "up"]

StartJob(q) ==
  /\ job[q] \in {"start", "both"} /\ job' = [job EXCEPT ![q] = "none"]
  /\ SystemdStarts(IF job[q] = "both" THEN {Self, Tunnel} ELSE {subject[q]})

(* Requests end with the process; what systemd was asked goes on.          *)
RequestsEnd == astep' = [q \in Askers |-> "idle"] /\ UNCHANGED <<verb, subject, hostVars>>

StopsSelfInside(q) ==
  /\ Runs /\ job[q] = "restart" /\ subject[q] = Self
  /\ Becomes(Self, "down") /\ job' = [r \in Askers |-> "none"] /\ RequestsEnd

StopsSelf(q) == Runs /\ StopJob(q) /\ unit'[Self] = "down" /\ RequestsEnd

SelfFails == Runs /\ Becomes(Self, "failed") /\ UNCHANGED job /\ RequestsEnd

OtherJob(q) ==
  /\ StopJob(q) \/ StartJob(q)
  /\ Runs => unit'[Self] = "up"
  /\ UNCHANGED <<hostVars, askVars>>

Fails(u) == u # Self /\ unit[u] = "up" /\ Becomes(u, "failed") /\ UNCHANGED <<hostVars, askVars, job>>

(* systemd starts a failed unit again, or the owner any that is not up.    *)
Recovers(u) ==
  /\ unit[u] # "up" /\ SystemdStarts({u})
  /\ UNCHANGED <<hostVars, askVars, job>>

OwnerActs ==
  /\ \/ admin' = ~admin /\ UNCHANGED activates
     \/ \E t \in Timers, u \in Units \cup {NoUnit} : activates' = [activates EXCEPT ![t] = u] /\ UNCHANGED admin
  /\ UNCHANGED <<unit, askVars, job>>

ServiceStep ==
  \/ \E q \in Askers : ServiceRequest(q) \/ OtherJob(q)
  \/ \E u \in Units : Fails(u) \/ Recovers(u)
  \/ OwnerActs

--------------------------------------------------------------------------------
(* Properties. *)

(* SSH, the tunnel and archangeld are down only because they failed by     *)
(* themselves or could not be started, archangeld also because the tunnel  *)
(* could not, or between the two halves of a restart that systemd will     *)
(* finish, of archangeld also a restart of the tunnel: when archangeld     *)
(* ends by what it asked for itself, the rest is still done.               *)
LifelineStays ==
  \A u \in Lifeline : unit[u] = "down" =>
    \E q \in Askers :
      \/ subject[q] = u /\ job[q] \in {"start", "both"}
      \/ u = Self /\ job[q] = "both"

================================================================================
