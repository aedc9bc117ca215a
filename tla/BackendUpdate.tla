----------------------------- MODULE BackendUpdate -----------------------------
(***************************************************************************)
(* VpsSetupService.updateBackend: the app replaces archangeld on the       *)
(* server over SSH.  It copies the binary aside, downloads and checks the  *)
(* release next to it, moves it into place, refreshes the service, restarts*)
(* it and asks for the version it serves; when that is not the new one it  *)
(* moves the copy back.                                                    *)
(***************************************************************************)
EXTENDS Naturals, TLAPS

CONSTANTS
  Builds,         \* the builds of archangeld, each with a version of its own
  Starts,         \* those that serve requests under this server's configuration
  Installed,      \* the one in place before the first update
  Torn,           \* a partial file
  None,
  MaxAttempts,    \* bounds the updates tried
  MaxPolls,       \* how often the version is asked for (10 in the code)
  Interrupted,    \* TRUE: an update may stop between installing and restarting, or after
  RollbackFails   \* TRUE: so may its rollback, whose result is not looked at

ASSUME ConstantsAssumption ==
  /\ Starts \subseteq Builds /\ Installed \in Starts
  /\ Torn \notin Builds /\ None \notin Builds /\ Torn # None
  /\ MaxPolls \in Nat \ {0}

VARIABLES
  bin,       \* /opt/archangel/archangeld
  bak,       \* /opt/archangel/archangeld.bak
  staged,    \* /opt/archangel/archangeld.new
  running,   \* the build the service was last started with
  seen,      \* the version the app last got from /health
  pc,        \* the step of the update
  target,    \* the build it is to install
  previous,  \* the binary it found
  polls, attempts

files == <<bin, bak, staged>>
vars == <<files, running, seen, pc, target, previous, polls, attempts>>

Busy == {"backup", "download", "verify", "install", "sync", "restart", "poll", "rollback"}

TypeOK ==
  /\ bin \in Builds /\ running \in Builds /\ seen \in Builds
  /\ bak \in Builds \cup {Torn, None} /\ staged \in Builds \cup {Torn, None}
  /\ pc \in Busy \cup {"idle", "updated", "rolledBack"}
  /\ target \in Builds /\ previous \in Builds
  /\ polls \in 0..MaxPolls /\ attempts \in Nat

Init ==
  /\ bin = Installed /\ bak = None /\ staged = None /\ running = Installed /\ seen = Installed
  /\ pc = "idle" /\ target = Installed /\ previous = Installed
  /\ polls = 0 /\ attempts = 0

--------------------------------------------------------------------------------

At(step) == pc = step
Goto(step) == pc' = step

(* The app offers a release that is not the version it last saw.           *)
Begin(b) ==
  /\ pc \notin Busy /\ b # seen /\ attempts < MaxAttempts
  /\ Goto("backup")
  /\ target' = b /\ previous' = bin /\ attempts' = attempts + 1 /\ polls' = 0
  /\ UNCHANGED <<files, running, seen>>

(* A command before the installation fails, or the connection is lost.     *)
GiveUp ==
  /\ pc \in {"backup", "download", "verify", "install"}
  /\ Goto("idle")
  /\ \/ UNCHANGED files
     \/ pc = "backup" /\ bak' = Torn /\ UNCHANGED <<bin, staged>>
     \/ pc = "download" /\ staged' = Torn /\ UNCHANGED <<bin, bak>>
     \/ pc = "verify" /\ staged' = None /\ UNCHANGED <<bin, bak>>
  /\ UNCHANGED <<running, seen, target, previous, polls, attempts>>

BackupStaged ==
  /\ At("backup")
  /\ bak' = staged
  /\ Goto("download")
  /\ UNCHANGED <<bin, staged, running, seen, target, previous, polls, attempts>>

(* sudo cp -f archangeld archangeld.bak                                    *)
Backup ==
  /\ At("backup")
  /\ bak' = bin
  /\ Goto("download")
  /\ UNCHANGED <<bin, staged, running, seen, target, previous, polls, attempts>>

(* What arrives may be damaged.                                            *)
Download ==
  /\ At("download")
  /\ staged' \in {target, Torn}
  /\ Goto("verify")
  /\ UNCHANGED <<bin, bak, running, seen, target, previous, polls, attempts>>

(* _verifyChecksum: a mismatch deletes the file; a release without sums    *)
(* passes.                                                                 *)
Verify ==
  /\ At("verify")
  /\ \/ staged = Torn /\ staged' = None /\ Goto("idle")
     \/ UNCHANGED staged /\ Goto("install")
  /\ UNCHANGED <<bin, bak, running, seen, target, previous, polls, attempts>>

InstallUnchecked ==
  /\ At("install")
  /\ bin' = staged /\ staged' = None /\ Goto("sync")
  /\ UNCHANGED <<bak, running, seen, target, previous, polls, attempts>>

(* The file must run and report the version; then one rename.              *)
Install ==
  /\ At("install")
  /\ IF staged = target THEN bin' = staged /\ staged' = None /\ Goto("sync")
                        ELSE UNCHANGED <<bin, staged>> /\ Goto("idle")
  /\ UNCHANGED <<bak, running, seen, target, previous, polls, attempts>>

Sync ==
  /\ At("sync")
  /\ Goto("restart")
  /\ UNCHANGED <<files, running, seen, target, previous, polls, attempts>>

(* The sync script fails, or the app or its connection goes away.          *)
Interrupt ==
  /\ Interrupted /\ pc \in {"sync", "restart", "poll", "rollback"}
  /\ Goto("idle")
  /\ UNCHANGED <<files, running, seen, target, previous, polls, attempts>>

(* systemctl restart; it may report a failure.                             *)
Restart ==
  /\ At("restart")
  /\ running' = bin
  /\ Goto("poll") \/ Goto("rollback")
  /\ UNCHANGED <<files, seen, target, previous, polls, attempts>>

PollLenient ==
  /\ At("poll") /\ polls < MaxPolls
  /\ polls' = polls + 1
  /\ seen' \in {seen} \cup ({running} \cap Starts)
  /\ Goto(IF seen' = target \/ polls' = MaxPolls THEN "updated" ELSE "poll")
  /\ UNCHANGED <<files, running, target, previous, attempts>>

(* fetchLiveVersion: without an answer the version last seen remains.      *)
Poll ==
  /\ At("poll") /\ polls < MaxPolls
  /\ polls' = polls + 1
  /\ seen' \in {seen} \cup ({running} \cap Starts)
  /\ Goto(IF seen' = target THEN "updated" ELSE IF polls' = MaxPolls THEN "rollback" ELSE "poll")
  /\ UNCHANGED <<files, running, target, previous, attempts>>

RestartOnly ==
  /\ At("rollback")
  /\ running' = bin
  /\ Goto("rolledBack")
  /\ UNCHANGED <<files, seen, target, previous, polls, attempts>>

(* _rollbackBinary: move the copy back and restart.                        *)
Rollback ==
  /\ At("rollback")
  /\ \/ bak # None /\ bin' = bak /\ bak' = None /\ running' = bak
     \/ RollbackFails /\ UNCHANGED <<bin, bak, running>>
  /\ Goto("rolledBack")
  /\ UNCHANGED <<staged, seen, target, previous, polls, attempts>>

--------------------------------------------------------------------------------

(* The server reboots, or systemd restarts a service that failed.          *)
Reboot ==
  /\ running' = bin
  /\ UNCHANGED <<files, seen, pc, target, previous, polls, attempts>>

(* The app's health checks see the version, or another device updates it.  *)
AppSees ==
  /\ running \in Starts
  /\ seen' = running
  /\ UNCHANGED <<files, running, pc, target, previous, polls, attempts>>

Next ==
  \/ \E b \in Builds : Begin(b)
  \/ GiveUp \/ Backup \/ Download \/ Verify \/ Install \/ Sync \/ Interrupt \/ Restart
  \/ Poll \/ Rollback \/ Reboot \/ AppSees

Spec == Init /\ [][Next]_vars

--------------------------------------------------------------------------------

(* What is in place is always a whole binary: a damaged download never     *)
(* gets there, with or without checksums, and neither does a damaged copy. *)
NeverTorn == bin # Torn

(* An update that found a binary that starts leaves one, in place or as    *)
(* the copy, wherever it stops and whatever fails.                         *)
UpdateKeepsStartable == previous \in Starts => bin \in Starts \/ bak \in Starts

(* When an update reports success the new build serves requests, though    *)
(* the version it last saw may be older than its last answer.              *)
SuccessIsTrue == pc = "updated" => bin = target /\ running = target /\ target \in Starts

(* "Keeps the previous binary as archangeld.bak and [...] restores it":    *)
(* some binary on the server starts.                                       *)
StartableKept == bin \in Starts \/ bak \in Starts

(* "rolled back to the previous binary and restarted it."                  *)
RollbackIsTrue == pc = "rolledBack" => bin = previous /\ running = previous

(* The inductive invariant: what each step of an update knows.             *)
Installing == {"sync", "restart", "poll", "rollback"}

UpdateInv ==
  /\ TypeOK
  /\ seen \in Starts
  /\ pc \in {"download", "verify", "install"} \cup Installing => bak = previous
  /\ pc \in {"backup", "download", "verify", "install"} => bin = previous
  /\ pc \in Installing => bin = target
  /\ pc = "poll" => running = target
  /\ SuccessIsTrue
  /\ UpdateKeepsStartable
  /\ ~RollbackFails => RollbackIsTrue
  /\ ~Interrupted /\ ~RollbackFails =>
       IF pc \in Installing THEN previous \in Starts ELSE bin \in Starts

--------------------------------------------------------------------------------
(* For any builds and any number of attempts. *)

LEMMA InitInv == Init => UpdateInv
  BY ConstantsAssumption
     DEF Init, UpdateInv, TypeOK, Busy, Installing, SuccessIsTrue, UpdateKeepsStartable, RollbackIsTrue

LEMMA UpdateInvKept == UpdateInv /\ [Next]_vars => UpdateInv'
<1> SUFFICES ASSUME UpdateInv, [Next]_vars PROVE UpdateInv'
  OBVIOUS
<1> USE ConstantsAssumption 
    DEF UpdateInv, TypeOK, Busy, Installing, files, At, Goto,
        SuccessIsTrue, UpdateKeepsStartable, RollbackIsTrue
<1>1. ASSUME NEW b \in Builds, Begin(b) PROVE UpdateInv'
  BY <1>1 DEF Begin
<1>2. CASE GiveUp
  BY <1>2 DEF GiveUp
<1>3. CASE Backup \/ Download \/ Verify
  BY <1>3 DEF Backup, Download, Verify
<1>4. CASE Install \/ Sync \/ Restart
  BY <1>4 DEF Install, Sync, Restart
<1>5. CASE Interrupt
  BY <1>5 DEF Interrupt
<1>6. CASE Poll
  BY <1>6 DEF Poll
<1>7. CASE Rollback
  BY <1>7 DEF Rollback
<1>8. CASE Reboot \/ AppSees
  BY <1>8 DEF Reboot, AppSees
<1>9. CASE UNCHANGED vars
  BY <1>9 DEF vars
<1> QED BY <1>1, <1>2, <1>3, <1>4, <1>5, <1>6, <1>7, <1>8, <1>9 DEF Next

(* The invariant the theorems below rest on.                               *)
THEOREM UpdateInvariant == Spec => []UpdateInv
<1> QED BY InitInv, UpdateInvKept, PTL DEF Spec

(* A damaged file is never put in place.                                   *)
THEOREM DamagedNeverInstalled == Spec => []NeverTorn
<1>1. UpdateInv => NeverTorn
  BY ConstantsAssumption DEF UpdateInv, TypeOK, NeverTorn
<1> QED BY <1>1, UpdateInvariant, PTL

(* Every update that starts from a binary that starts leaves one.          *)
THEOREM EveryUpdateKeepsStartable == Spec => []UpdateKeepsStartable
<1>1. UpdateInv => UpdateKeepsStartable
  BY DEF UpdateInv
<1> QED BY <1>1, UpdateInvariant, PTL

(* A reported success is what the server runs.                             *)
THEOREM SuccessTrue == Spec => []SuccessIsTrue
<1>1. UpdateInv => SuccessIsTrue
  BY DEF UpdateInv
<1> QED BY <1>1, UpdateInvariant, PTL

(* So is a reported rollback, as long as rollbacks work.                   *)
THEOREM RollbackTrue == ASSUME ~RollbackFails PROVE Spec => []RollbackIsTrue
<1>1. UpdateInv => RollbackIsTrue
  BY DEF UpdateInv
<1> QED BY <1>1, UpdateInvariant, PTL

(* However many updates fail, a binary that starts is kept, when each runs *)
(* to its end.                                                             *)
THEOREM CompleteUpdatesKeepStartable ==
  ASSUME ~Interrupted, ~RollbackFails PROVE Spec => []StartableKept
<1>1. UpdateInv => StartableKept
  BY DEF UpdateInv, StartableKept, Installing
<1> QED BY <1>1, UpdateInvariant, PTL

================================================================================
