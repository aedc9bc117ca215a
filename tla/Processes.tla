-------------------------------- MODULE Processes --------------------------------
(***************************************************************************)
(* The process list of archangeld.  Requests for the list overlap, each    *)
(* walks /proc process by process, and all share one map of samples, which *)
(* gives the share of the processor that a process had since any list last *)
(* saw it.  Process numbers are used again.                                *)
(*                                                                         *)
(* A tick is one hundredth of a second on one processor, so a process has  *)
(* at most one tick per tick; the time a stat file was read and the time   *)
(* taken right after it are one.                                           *)
(***************************************************************************)
EXTENDS Integers, FiniteSets

CONSTANTS
  Pids,     \* 1 among them, and archangeld's own
  Own,
  Reused,   \* bound of the model: the numbers that new processes get
  Lists,    \* requests that may be under way at once
  MaxTime   \* bound of the model on the clock

ASSUME ProcessesAssumption == Pids \subseteq Nat \ {0} /\ IsFiniteSet(Pids) /\ Own \in Pids /\ Reused \subseteq Pids /\ MaxTime \in Nat

Never == -1
NoPid == 0

VARIABLES
  now, alive, used,             \* the clock, the processes, and their ticks
  seenUsed, seenAt,             \* procCPUSamples
  listing, todo, found,         \* a list under way, what ReadDir named, procs
  got, gotUsed, gotAt,          \* the stat file it has read
  enough                        \* how many processes the list that ended last found

kernelVars == <<now, alive, used>>
sampleVars == <<seenUsed, seenAt, enough>>
listVars == <<listing, todo, found, got, gotUsed, gotAt>>
processVars == <<kernelVars, sampleVars, listVars>>

ProcessesTypeOK ==
  /\ now \in Nat /\ alive \subseteq Pids /\ used \in [Pids -> Nat]
  /\ seenUsed \in [Pids -> Nat] /\ seenAt \in [Pids -> Nat \cup {Never}] /\ enough \in Nat
  /\ listing \in [Lists -> BOOLEAN] /\ todo \in [Lists -> SUBSET Pids] /\ found \in [Lists -> SUBSET Pids]
  /\ got \in [Lists -> Pids \cup {NoPid}] /\ gotUsed \in [Lists -> Nat] /\ gotAt \in [Lists -> Nat]

Sampled == {p \in Pids : seenAt[p] # Never}

(* No list has been asked of this process.                                 *)
ProcessesCut ==
  /\ seenUsed' = [p \in Pids |-> 0] /\ seenAt' = [p \in Pids |-> Never] /\ enough' = 0
  /\ listing' = [l \in Lists |-> FALSE]
  /\ todo' = [l \in Lists |-> {}] /\ found' = [l \in Lists |-> {}]
  /\ got' = [l \in Lists |-> NoPid] /\ gotUsed' = [l \in Lists |-> 0] /\ gotAt' = [l \in Lists |-> 0]
  /\ UNCHANGED kernelVars

ProcessesInit ==
  /\ now = 0 /\ alive = Pids /\ used = [p \in Pids |-> 0]
  /\ seenUsed = used /\ seenAt = [p \in Pids |-> Never] /\ enough = 0
  /\ listing = [l \in Lists |-> FALSE] /\ todo = [l \in Lists |-> {}] /\ found = todo
  /\ got = [l \in Lists |-> NoPid] /\ gotUsed = [l \in Lists |-> 0] /\ gotAt = gotUsed

--------------------------------------------------------------------------------

TimePasses ==
  /\ now < MaxTime /\ now' = now + 1
  /\ \E S \in SUBSET alive : used' = [p \in Pids |-> IF p \in S THEN used[p] + 1 ELSE used[p]]
  /\ UNCHANGED <<alive, sampleVars, listVars>>

Starts(p) ==
  /\ p \in Reused \ alive /\ alive' = alive \cup {p}
  /\ UNCHANGED <<now, used, sampleVars, listVars>>

(* The next process with its number begins with no ticks.                  *)
Ends(p) ==
  /\ p \in alive \ {1, Own} /\ alive' = alive \ {p} /\ used' = [used EXCEPT ![p] = 0]
  /\ UNCHANGED <<now, sampleVars, listVars>>

(* KillProcess refuses 1 and itself; a SIGTERM may be ignored.             *)
Kill(p) ==
  /\ p > 1 /\ p # Own
  /\ Ends(p) \/ (p \in alive /\ UNCHANGED processVars)

(* os.ReadDir("/proc").                                                    *)
ListBegins(l) ==
  /\ ~listing[l] /\ listing' = [listing EXCEPT ![l] = TRUE]
  /\ todo' = [todo EXCEPT ![l] = alive]
  /\ UNCHANGED <<found, got, gotUsed, gotAt, kernelVars, sampleVars>>

(* readProc up to the lock: nil for a process that has ended meanwhile.    *)
ReadStat(l, p) ==
  /\ got[l] = NoPid /\ p \in todo[l] /\ (\A o \in todo[l] : p <= o)
  /\ todo' = [todo EXCEPT ![l] = @ \ {p}]
  /\ IF p \in alive
     THEN /\ got' = [got EXCEPT ![l] = p]
          /\ gotUsed' = [gotUsed EXCEPT ![l] = used[p]] /\ gotAt' = [gotAt EXCEPT ![l] = now]
     ELSE UNCHANGED <<got, gotUsed, gotAt>>
  /\ UNCHANGED <<listing, found, kernelVars, sampleVars>>

ShareUnguarded(l) ==
  LET p == got[l] IN
  IF seenAt[p] # Never /\ gotUsed[l] >= seenUsed[p]
  THEN <<gotUsed[l] - seenUsed[p], gotAt[l] - seenAt[p]>> ELSE <<0, 0>>

(* <<ticks, time>> of which the quotient is shown for the process just     *)
(* read: it is 0 when the sample is not of an earlier time (the code: not  *)
(* 0.05 s earlier) or has more ticks, as that of another process may.      *)
Share(l) ==
  LET p == got[l] IN
  IF seenAt[p] # Never /\ gotUsed[l] >= seenUsed[p] /\ gotAt[l] > seenAt[p]
  THEN <<gotUsed[l] - seenUsed[p], gotAt[l] - seenAt[p]>> ELSE <<0, 0>>

(* Under procCPUMu: the sample is replaced, whatever its age.              *)
PutSample(l) ==
  /\ got[l] # NoPid
  /\ seenUsed' = [seenUsed EXCEPT ![got[l]] = gotUsed[l]] /\ seenAt' = [seenAt EXCEPT ![got[l]] = gotAt[l]]
  /\ found' = [found EXCEPT ![l] = @ \cup {got[l]}] /\ got' = [got EXCEPT ![l] = NoPid]
  /\ gotUsed' = [gotUsed EXCEPT ![l] = 0] /\ gotAt' = [gotAt EXCEPT ![l] = 0]
  /\ UNCHANGED <<listing, todo, enough, kernelVars>>

Stays(l) == IF Cardinality(Sampled) > 2 * Cardinality(found[l]) THEN found[l] ELSE Pids

(* The samples of processes this list has not found are dropped when there *)
(* are more than twice as many samples as processes.                       *)
ListEnds(l) ==
  /\ listing[l] /\ todo[l] = {} /\ got[l] = NoPid
  /\ seenAt' = [p \in Pids |-> IF p \in Stays(l) THEN seenAt[p] ELSE Never]
  /\ seenUsed' = [p \in Pids |-> IF p \in Stays(l) THEN seenUsed[p] ELSE 0]
  /\ enough' = Cardinality(found[l])
  /\ listing' = [listing EXCEPT ![l] = FALSE] /\ found' = [found EXCEPT ![l] = {}]
  /\ UNCHANGED <<todo, got, gotUsed, gotAt, kernelVars>>

ProcessKernel == TimePasses \/ \E p \in Pids : Starts(p) \/ Ends(p)
ProcessRequest ==
  \E l \in Lists : ListBegins(l) \/ PutSample(l) \/ ListEnds(l) \/ \E p \in Pids : ReadStat(l, p) \/ Kill(p)

--------------------------------------------------------------------------------
(* Properties. *)

(* No list shows a process with more ticks than there was time, although   *)
(* lists overlap, replace a newer sample by an older one, and find samples *)
(* of processes that had the same number before: the cap at 100 percent    *)
(* hides nothing but the time between two statements.                      *)
ShareFits == \A l \in Lists : got[l] # NoPid => Share(l)[1] <= Share(l)[2]

(* Between lists there are at most twice as many samples as the list that  *)
(* ended last found processes, however lists overlapped and processes came *)
(* and went: the map does not grow with the numbers a server has used.     *)
SamplesPruned == (\A l \in Lists : ~listing[l]) => Cardinality(Sampled) <= 2 * enough

================================================================================
