---------------------------------- MODULE Host ----------------------------------
(***************************************************************************)
(* What archangeld shows of a server and does on it for the app, in one    *)
(* process: metrics, the process list, deployment scripts, files and       *)
(* units.  The parts share nothing but that process: when it fails, or     *)
(* restarts itself, all of them lose what they had in memory at once, and  *)
(* while it is down only the server goes on.                               *)
(*                                                                         *)
(* The parts' steps are independent, so a behaviour has the work of one    *)
(* part (of the metrics, of one kind) and the ends of the process: Works   *)
(* says which kinds of work there are.                                     *)
(***************************************************************************)
EXTENDS Monitor, Processes, Scripts, Files, Services

CONSTANT Works

ASSUME HostAssumption ==
  Works \subseteq {"cpu", "net", "disk", "stats", "processes", "scripts", "files", "units"}

VARIABLE work

vars == <<monitorVars, processVars, scriptVars, fileVars, serviceVars, work>>

TypeOK ==
  /\ MonitorTypeOK /\ ProcessesTypeOK /\ ScriptsTypeOK /\ FilesTypeOK /\ ServicesTypeOK
  /\ work \in Works

(* Where a part has no work, its server is the simplest one.               *)
Init ==
  /\ work \in Works /\ MonitorInit /\ ProcessesInit
  /\ ScriptsInit
  /\ work # "scripts" => dir = [d \in Dirs |-> "open"] /\ copy = [d \in Dirs |-> NoCopy]
  /\ FilesInit
  /\ work # "files" => ~rooted /\ tree = [p \in Paths |-> "none"]
  /\ ServicesInit
  /\ work # "units" => ~admin /\ activates = [t \in Timers |-> NoUnit]

MonitorOnly == UNCHANGED <<processVars, scriptVars, fileVars, serviceVars, work>>
ProcessesOnly == UNCHANGED <<monitorVars, scriptVars, fileVars, serviceVars, work>>
ScriptsOnly == UNCHANGED <<monitorVars, processVars, fileVars, serviceVars, work>>
FilesOnly == UNCHANGED <<monitorVars, processVars, scriptVars, serviceVars, work>>
ServicesOnly == UNCHANGED <<monitorVars, processVars, scriptVars, fileVars, work>>

MonitorStep ==
  /\ \/ work = "cpu" /\ CpuKernel
     \/ work = "net" /\ NetKernel
     \/ work = "disk" /\ DiskKernel
     \/ work \in {"cpu", "net", "disk", "stats"} /\ Runs /\ Pass
     \/ work = "stats" /\ Runs /\ StatsSocket
  /\ MonitorOnly

ProcessesStep == work = "processes" /\ (ProcessKernel \/ (Runs /\ ProcessRequest)) /\ ProcessesOnly

ScriptsStep == work = "scripts" /\ Runs /\ (\E q \in Requests : ScriptRequest(q)) /\ ScriptsOnly

FilesStep ==
  /\ work = "files"
  /\ (Runs /\ \E q \in Readers : FileRequest(q)) \/ \E p \in Paths : FileChanges(p)
  /\ FilesOnly

ServicesStep == ((work = "units" /\ ServiceStep) \/ Recovers(Self)) /\ ServicesOnly

(* The process ends, and what it had in memory with it.                    *)
DaemonEnds ==
  /\ SelfFails \/ \E q \in Askers : StopsSelf(q)
  /\ Fresh /\ ProcessesCut /\ ScriptsCut /\ FilesCut
  /\ UNCHANGED work

Next == MonitorStep \/ ProcessesStep \/ ScriptsStep \/ FilesStep \/ ServicesStep \/ DaemonEnds

Spec == Init /\ [][Next]_vars

================================================================================
