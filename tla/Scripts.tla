--------------------------------- MODULE Scripts ---------------------------------
(***************************************************************************)
(* The deployment scripts of archangeld: one script, of which every        *)
(* directory of getDeployDirs may hold a copy, and requests that list,     *)
(* read, save, delete and run it.  A request goes through the directories  *)
(* in order, one system call at a time, and nothing locks them.            *)
(***************************************************************************)
EXTENDS Integers

CONSTANTS
  NumDirs,   \* directories, in the order they are searched
  Requests,  \* each saves a text of its own
  Old,       \* the text of the copies that were there
  Half,      \* a copy that is truncated, or written in part
  NoCopy

ASSUME ScriptsAssumption ==
  /\ NumDirs \in Nat \ {0}
  /\ {Old, Half, NoCopy} \cap Requests = {} /\ NoCopy \notin {Old, Half} /\ Old # Half

Dirs == 1..NumDirs
Ops == {"list", "get", "save", "delete", "run"}

VARIABLES
  dir,     \* whether archangeld may create and remove files in a directory, or it is missing
  copy, mode,                \* the copy in a directory, which all may read, and who may write it
  op, at, pc, pass,          \* a request, the directory it is at, its step; pass 2 of a save
  hit, cut, alone,           \* deletes that removed a copy; saves whose copy vanished; deletes no save ran beside
  saved, removed, sound      \* what was confirmed, and whether saves went one by one to their end

requests == <<op, at, pc, pass, hit, cut, alone>>
scriptVars == <<dir, copy, mode, requests, saved, removed, sound>>

ScriptsTypeOK ==
  /\ dir \in [Dirs -> {"open", "closed", "absent"}]
  /\ copy \in [Dirs -> Requests \cup {Old, Half, NoCopy}]
  /\ mode \in [Dirs -> {"ours", "foreign"}]
  /\ op \in [Requests -> Ops] /\ at \in [Requests -> 1..NumDirs + 1] /\ pass \in [Requests -> 1..2]
  /\ pc \in [Requests -> {"idle", "look", "open", "fill", "remove", "exec", "running"}]
  /\ hit \subseteq Requests /\ cut \subseteq Requests /\ alone \subseteq Requests
  /\ saved \in Requests \cup {NoCopy} /\ removed \in BOOLEAN /\ sound \in BOOLEAN

ScriptsInit ==
  /\ dir \in [Dirs -> {"open", "closed", "absent"}]
  /\ copy \in [Dirs -> {Old, NoCopy}] /\ mode \in [Dirs -> {"ours", "foreign"}]
  /\ \A d \in Dirs : copy[d] = NoCopy => mode[d] = "ours"
  /\ \A d \in Dirs : dir[d] = "absent" => copy[d] = NoCopy
  /\ op = [q \in Requests |-> "list"] /\ at = [q \in Requests |-> 1]
  /\ pc = [q \in Requests |-> "idle"] /\ pass = at
  /\ hit = {} /\ cut = {} /\ alone = {}
  /\ saved = NoCopy /\ removed = FALSE /\ sound = TRUE

--------------------------------------------------------------------------------

Kept == UNCHANGED <<dir, copy, mode, saved, removed, sound>>
Step(q, s) == pc' = [pc EXCEPT ![q] = s]
Goto(q, s) == Step(q, s) /\ UNCHANGED <<op, at, pass, hit, cut, alone>>
Advance(q) == at' = [at EXCEPT ![q] = @ + 1] /\ Step(q, "look")
NextDir(q) == Advance(q) /\ UNCHANGED <<op, pass, hit, cut, alone>>
Return(q) ==
  /\ Step(q, "idle") /\ op' = [op EXCEPT ![q] = "list"]
  /\ at' = [at EXCEPT ![q] = 1] /\ pass' = [pass EXCEPT ![q] = 1]
  /\ hit' = hit \ {q} /\ cut' = cut \ {q} /\ alone' = alone \ {q}
Saving(q) == op[q] = "save" /\ pc[q] # "idle"

(* A name that validateScriptName refuses ends a request before this.      *)
Ask(q) ==
  /\ pc[q] = "idle" /\ Step(q, "look")
  /\ \E o \in Ops : op' = [op EXCEPT ![q] = o]
  /\ alone' = IF op'[q] = "delete" /\ \A r \in Requests : ~Saving(r) THEN alone \cup {q} ELSE alone
  /\ sound' = (sound /\ ~(op'[q] = "save" /\ \E r \in Requests : Saving(r)))
  /\ UNCHANGED <<at, pass, hit, cut, dir, copy, mode, saved, removed>>

Found == [list |-> "idle", get |-> "idle", save |-> "open", delete |-> "remove", run |-> "exec"]

(* Stat of the copy, or ReadFile for get, ReadDir for list.                *)
Look(q) ==
  /\ pc[q] = "look" /\ at[q] <= NumDirs /\ pass[q] = 1
  /\ IF copy[at[q]] = NoCopy THEN NextDir(q)
     ELSE IF Found[op[q]] = "idle" THEN Return(q) ELSE Goto(q, Found[op[q]])
  /\ Kept

(* MkdirAll, for a save that found no copy it could write.                 *)
MakeDir(q) ==
  /\ pc[q] = "look" /\ at[q] <= NumDirs /\ pass[q] = 2
  /\ \/ dir[at[q]] = "absent" /\ NextDir(q) /\ UNCHANGED dir
     \/ Goto(q, "open") /\ dir' = [dir EXCEPT ![at[q]] = IF @ = "absent" THEN "open" ELSE @]
  /\ UNCHANGED <<copy, mode, saved, removed, sound>>

(* A save begins again, for a directory it can write in; a delete that has *)
(* removed a copy is a success.                                            *)
NoDirLeft(q) ==
  /\ pc[q] = "look" /\ at[q] > NumDirs
  /\ IF op[q] = "save" /\ pass[q] = 1
     THEN /\ at' = [at EXCEPT ![q] = 1] /\ pass' = [pass EXCEPT ![q] = 2]
          /\ UNCHANGED <<op, pc, hit, cut, alone, removed>>
     ELSE /\ Return(q)
          /\ removed' = IF q \in hit THEN q \in alone ELSE removed
  /\ UNCHANGED <<dir, copy, mode, saved, sound>>

Writable(d) == IF copy[d] = NoCopy THEN dir[d] = "open" ELSE mode[d] = "ours"

Opened(q) ==
  /\ copy' = [copy EXCEPT ![at[q]] = Half] /\ mode' = [mode EXCEPT ![at[q]] = "ours"]
  /\ Step(q, "fill") /\ cut' = cut \ {q}
  /\ alone' = {} /\ removed' = FALSE
  /\ UNCHANGED <<op, at, pass, hit>>

OpenUnchecked(q) ==
  /\ pc[q] = "open"
  /\ \/ Writable(at[q]) /\ Opened(q) /\ UNCHANGED saved
     \/ ~Writable(at[q]) /\ Return(q) /\ saved' = q /\ UNCHANGED <<copy, mode, removed>>
  /\ UNCHANGED <<dir, sound>>

(* os.WriteFile opens the copy, and truncates it or creates it, ...        *)
Open(q) ==
  /\ pc[q] = "open"
  /\ \/ Writable(at[q]) /\ Opened(q)
     \/ ~Writable(at[q]) /\ NextDir(q) /\ UNCHANGED <<copy, mode, removed>>
  /\ UNCHANGED <<dir, saved, sound>>

(* ... and writes it.  Two saves that have both opened it mix their texts; *)
(* a disk that is full leaves half of one, and the next directory is tried. *)
Fill(q) ==
  /\ pc[q] = "fill"
  /\ \/ /\ Return(q) /\ UNCHANGED sound
        /\ IF q \in cut THEN saved' = NoCopy /\ UNCHANGED copy
           ELSE /\ saved' = q
                /\ \E t \in IF sound THEN {q} ELSE {q, Half} : copy' = [copy EXCEPT ![at[q]] = t]
     \/ NextDir(q) /\ sound' = FALSE /\ UNCHANGED <<copy, saved>>
  /\ UNCHANGED <<dir, mode, removed>>

Removable(d) == copy[d] # NoCopy /\ dir[d] = "open"

Unlinked(q) ==
  /\ copy' = [copy EXCEPT ![at[q]] = NoCopy] /\ mode' = [mode EXCEPT ![at[q]] = "ours"] /\ saved' = NoCopy

RemoveOne(q) ==
  /\ pc[q] = "remove"
  /\ \/ Removable(at[q]) /\ Unlinked(q) /\ Return(q) /\ removed' = (q \in alone)
     \/ ~Removable(at[q]) /\ NextDir(q) /\ UNCHANGED <<copy, mode, saved, removed>>
  /\ UNCHANGED <<dir, sound>>

(* Every copy it can: one is enough for a success.                         *)
Remove(q) ==
  /\ pc[q] = "remove"
  /\ \/ /\ Removable(at[q]) /\ Unlinked(q)
        /\ hit' = hit \cup {q}
        /\ cut' = cut \cup {r \in Requests : pc[r] = "fill" /\ at[r] = at[q]}
        /\ Advance(q) /\ UNCHANGED <<op, pass, alone>>
     \/ ~Removable(at[q]) /\ NextDir(q) /\ UNCHANGED <<copy, mode, saved>>
  /\ UNCHANGED <<dir, removed, sound>>

(* /bin/sh is given the path: by now the copy may be gone or be another.   *)
Exec(q) ==
  /\ pc[q] = "exec"
  /\ \/ copy[at[q]] # NoCopy /\ Goto(q, "running")
     \/ copy[at[q]] = NoCopy /\ Return(q)
  /\ Kept

(* cmd.Run returns when the shell has ended, after 120 seconds at the      *)
(* latest, and whatever it started has let go of its output.               *)
ScriptEnds(q) == pc[q] = "running" /\ Return(q) /\ Kept

ScriptRequest(q) ==
  \/ Ask(q) \/ Look(q) \/ MakeDir(q) \/ NoDirLeft(q) \/ Open(q) \/ Fill(q)
  \/ Remove(q) \/ Exec(q) \/ ScriptEnds(q)

(* The process ends with its requests: what a save has written stays.      *)
ScriptsCut ==
  /\ pc' = [q \in Requests |-> "idle"] /\ op' = [q \in Requests |-> "list"]
  /\ at' = [q \in Requests |-> 1] /\ pass' = at'
  /\ hit' = {} /\ cut' = {} /\ alone' = {}
  /\ sound' = (sound /\ \A q \in Requests : pc[q] # "fill")
  /\ UNCHANGED <<dir, copy, mode, saved, removed>>

--------------------------------------------------------------------------------
(* Properties. *)

(* When saves go one by one to their end, the text that was saved last is  *)
(* in a copy, and no copy comes before it, for a run or a get to find      *)
(* first, but those that archangeld may not write, whatever deletes        *)
(* overlap.                                                                *)
RunsWhatWasSaved ==
  sound /\ saved # NoCopy /\ (\A q \in Requests : pc[q] # "fill") =>
    \E d \in Dirs : copy[d] = saved /\ \A e \in 1..d - 1 : copy[e] = NoCopy \/ mode[e] # "ours"

(* After a confirmed delete, and until the next save, a copy is left only  *)
(* where archangeld may not remove it.                                     *)
DeletedIsGone == removed => \A d \in Dirs : copy[d] = NoCopy \/ dir[d] # "open"

================================================================================
