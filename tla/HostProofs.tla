-------------------------------- MODULE HostProofs --------------------------------
(***************************************************************************)
(* Proofs about Host, for every value of its constants.  The parts share   *)
(* no variable: for each, a lemma says which of its steps a step of the    *)
(* host is, and its invariant is shown from those steps alone.             *)
(***************************************************************************)
EXTENDS Host, FiniteSetTheorems, SequenceTheorems, TLAPS

--------------------------------------------------------------------------------
(* Services. *)

(* What a step of the host is to the units.                                *)
LEMMA ServiceSteps ==
  ASSUME [Next]_vars
  PROVE  \/ ServiceStep \/ Recovers(Self) \/ SelfFails \/ (\E q \in Askers : StopsSelf(q))
         \/ UNCHANGED serviceVars
<1>1. CASE MonitorStep BY <1>1 DEF MonitorStep, MonitorOnly
<1>2. CASE ProcessesStep BY <1>2 DEF ProcessesStep, ProcessesOnly
<1>3. CASE ScriptsStep BY <1>3 DEF ScriptsStep, ScriptsOnly
<1>4. CASE FilesStep BY <1>4 DEF FilesStep, FilesOnly
<1>5. CASE ServicesStep BY <1>5 DEF ServicesStep
<1>6. CASE DaemonEnds BY <1>6 DEF DaemonEnds
<1>7. CASE UNCHANGED vars BY <1>7 DEF vars
<1> QED BY <1>1, <1>2, <1>3, <1>4, <1>5, <1>6, <1>7 DEF Next

(* A request has no job before it has asked for one, and neither it nor    *)
(* its job is to stop a lifeline.                                          *)
Lockout ==
  \A q \in Askers :
    /\ astep[q] \in {"list", "sudo"} => job[q] = "none"
    /\ astep[q] = "list" => verb[q] = "run"
    /\ astep[q] = "sudo" /\ verb[q] = "stop" => subject[q] \notin Lifeline
    /\ job[q] = "stop" => subject[q] \notin Lifeline
    /\ astep[q] = "sudo" => verb[q] \in Verbs /\ subject[q] \in Units
    /\ job[q] # "none" => subject[q] \in Units
    /\ job[q] = "both" => subject[q] = Tunnel

ServiceInv == ServicesTypeOK /\ Lockout /\ LifelineStays

(* Whatever is started, no unit goes down by it, and none stays down that  *)
(* was to be started.                                                      *)
LEMMA StartsOnly ==
  ASSUME ServicesTypeOK, NEW S \in SUBSET Units, SystemdStarts(S)
  PROVE  /\ unit' \in [Units -> {"up", "down", "failed", "dependency"}]
         /\ \A u \in Units : unit'[u] = "down" => unit[u] = "down" /\ u \notin S
<1> DEFINE toStart == {u \in S \cup (IF Self \in S THEN {Tunnel} ELSE {}) : unit[u] # "up"}
<1>1. PICK broken \in SUBSET toStart :
        unit' = [u \in Units |-> IF u \notin toStart THEN unit[u]
                                ELSE IF u = Self /\ Tunnel \in broken THEN "dependency"
                                ELSE IF u \in broken THEN "failed" ELSE "up"]
  BY DEF SystemdStarts
<1>2. \A u \in S : u \in toStart \/ unit[u] = "up"
  OBVIOUS
<1> HIDE DEF toStart
<1> QED BY <1>1, <1>2 DEF ServicesTypeOK

(* A stop, of one unit or of both: what it takes down will be started.     *)
LEMMA StopKeeps ==
  ASSUME ServiceInv, NEW q \in Askers, StopJob(q), UNCHANGED <<verb, subject, hostVars>>,
         astep' = astep \/ astep' = [r \in Askers |-> "idle"]
  PROVE  ServiceInv'
<1>0. ServicesTypeOK /\ Lockout /\ LifelineStays
  BY DEF ServiceInv
<1>1. /\ subject[q] \in Units
      /\ unit' = [u \in Units |-> IF u \in Halves(subject[q]) /\ unit[u] = "up" THEN "down" ELSE unit[u]]
  BY <1>0 DEF StopJob, Lockout
<1>2. /\ job' = [job EXCEPT ![q] = job'[q]]
      /\ job[q] = "stop" => job'[q] = "none" /\ subject[q] \notin Lifeline
      /\ job[q] # "stop" => job'[q] = IF subject[q] = Tunnel /\ Runs THEN "both" ELSE "start"
  BY <1>0, ServicesAssumption DEF StopJob, Lockout, ServicesTypeOK, Verbs
<1>3. job'[q] \in {"none", "start", "both"} /\ (job'[q] = "both" => subject[q] = Tunnel)
  BY <1>2
<1>4. ServicesTypeOK'
  <2>1. unit' \in [Units -> {"up", "down", "failed", "dependency"}]
    BY <1>0, <1>1 DEF ServicesTypeOK
  <2>2. job' \in [Askers -> Verbs \cup {"both", "none"}]
    BY <1>0, <1>2, <1>3 DEF ServicesTypeOK, Verbs
  <2>3. astep' \in [Askers -> {"idle", "list", "sudo", "wait"}]
    BY <1>0 DEF ServicesTypeOK
  <2> QED BY <1>0, <2>1, <2>2, <2>3 DEF ServicesTypeOK, hostVars
<1>5. Lockout'
  <2> SUFFICES ASSUME NEW r \in Askers
               PROVE  (/\ astep[r] \in {"list", "sudo"} => job[r] = "none"
                       /\ astep[r] = "list" => verb[r] = "run"
                       /\ astep[r] = "sudo" /\ verb[r] = "stop" => subject[r] \notin Lifeline
                       /\ job[r] = "stop" => subject[r] \notin Lifeline
                       /\ astep[r] = "sudo" => verb[r] \in Verbs /\ subject[r] \in Units
                       /\ job[r] # "none" => subject[r] \in Units
                       /\ job[r] = "both" => subject[r] = Tunnel)'
    BY DEF Lockout
  <2>1. astep'[r] \in {astep[r], "idle"} /\ verb'[r] = verb[r] /\ subject'[r] = subject[r]
    BY <1>0 DEF ServicesTypeOK
  <2>2. r # q => job'[r] = job[r]
    BY <1>0, <1>2 DEF ServicesTypeOK
  <2>3. job[q] # "none"
    BY DEF StopJob
  <2>4. CASE r = q
    BY <1>0, <2>1, <2>3, <2>4, <1>1, <1>3 DEF Lockout
  <2>5. CASE r # q
    BY <1>0, <2>1, <2>2, <2>5 DEF Lockout
  <2> QED BY <2>4, <2>5
<1>6. ASSUME NEW u \in Lifeline, unit'[u] = "down"
      PROVE  \E r \in Askers : (subject[r] = u /\ job'[r] \in {"start", "both"}) \/ (u = Self /\ job'[r] = "both")
  <2>0. u \in Units /\ Lifeline \subseteq Units
    BY ServicesAssumption
  <2>1. CASE unit[u] = "down"
    <3>1. PICK r \in Askers : (subject[r] = u /\ job[r] \in {"start", "both"}) \/ (u = Self /\ job[r] = "both")
      BY <1>0, <1>6, <2>1 DEF LifelineStays
    <3>2. r # q
      BY <3>1 DEF StopJob
    <3> QED BY <3>1, <3>2, <1>0, <1>2 DEF ServicesTypeOK
  <2>2. CASE unit[u] # "down"
    <3>1. unit[u] = "up" /\ u \in Halves(subject[q])
      BY <2>0, <2>2, <1>1, <1>6
    <3>2. CASE subject[q] = Tunnel
      <4>1. job[q] # "stop" /\ u \in {Self, Tunnel}
        BY <3>1, <3>2, <1>2, ServicesAssumption DEF Halves
      <4>2. CASE Runs
        <5>1. job'[q] = "both"
          BY <4>1, <4>2, <3>2, <1>2
        <5> QED BY <4>1, <5>1, <3>2
      <4>3. CASE ~Runs
        <5>1. u = Tunnel /\ job'[q] = "start"
          BY <4>1, <4>3, <3>1, <3>2, <1>2 DEF Runs
        <5> QED BY <5>1, <3>2
      <4> QED BY <4>2, <4>3
    <3>3. CASE subject[q] # Tunnel
      <4>1. u = subject[q] /\ job'[q] = "start"
        BY <3>1, <3>3, <1>2 DEF Halves
      <4> QED BY <4>1
    <3> QED BY <3>2, <3>3
  <2> QED BY <2>1, <2>2
<1>7. LifelineStays'
  BY <1>6 DEF LifelineStays
<1> QED BY <1>4, <1>5, <1>7 DEF ServiceInv

(* A start: what is still down is another restart's to start.              *)
LEMMA StartKeeps ==
  ASSUME ServiceInv, NEW q \in Askers, StartJob(q), UNCHANGED <<hostVars, askVars>>
  PROVE  ServiceInv'
<1> USE ServicesAssumption DEF ServiceInv, ServicesTypeOK, hostVars, askVars
<1> DEFINE S == IF job[q] = "both" THEN {Self, Tunnel} ELSE {subject[q]}
<1>1. S \in SUBSET Units /\ SystemdStarts(S) /\ job' = [job EXCEPT ![q] = "none"]
  BY DEF StartJob, Lockout
<1>2. /\ subject[q] \in S /\ (job[q] = "both" => Self \in S)
  BY DEF StartJob, Lockout
<1> HIDE DEF S
<1>3. /\ unit' \in [Units -> {"up", "down", "failed", "dependency"}]
      /\ \A u \in Units : unit'[u] = "down" => unit[u] = "down" /\ u \notin S
  BY <1>1, StartsOnly
<1>4. ServicesTypeOK' /\ Lockout'
  BY <1>1, <1>3 DEF Lockout
<1>5. LifelineStays'
  BY <1>1, <1>2, <1>3 DEF LifelineStays
<1> QED BY <1>4, <1>5

LEMMA ServiceInvHolds == Spec => []ServiceInv
<1>1. Init => ServiceInv
  BY ServicesAssumption DEF Init, ServicesInit, ServiceInv, ServicesTypeOK, Lockout, LifelineStays
<1>2. ServiceInv /\ [Next]_vars => ServiceInv'
  <2> SUFFICES ASSUME ServiceInv, [Next]_vars PROVE ServiceInv' OBVIOUS
  <2> USE ServicesAssumption DEF ServiceInv, ServicesTypeOK, Lockout, LifelineStays, Verbs
  <2>1. ASSUME NEW q \in Askers, NEW v \in Verbs, NEW u \in Units, Act(q, v, u) PROVE ServiceInv'
    BY <2>1 DEF Act, Allowed, Goes, hostVars
  <2>2. ASSUME NEW q \in Askers, Trigger(q) PROVE ServiceInv'
    BY <2>2 DEF Trigger, Goes, hostVars
  <2>3. ASSUME NEW q \in Askers, AskSystemd(q) PROVE ServiceInv'
    BY <2>3 DEF AskSystemd, Goes, hostVars
  <2>4. ASSUME NEW q \in Askers, Answer(q) PROVE ServiceInv'
    BY <2>4 DEF Answer, Goes, hostVars
  <2>5. ASSUME NEW q \in Askers, NEW t \in Timers, ReadTimers(q, t) PROVE ServiceInv'
    BY <2>5 DEF ReadTimers, Goes, hostVars
  <2>6. ASSUME NEW q \in Askers, OtherJob(q) PROVE ServiceInv'
    BY <2>6, StopKeeps, StartKeeps DEF OtherJob, askVars
  <2>7. ASSUME NEW u \in Units, Fails(u) PROVE ServiceInv'
    BY <2>7 DEF Fails, Becomes, hostVars, askVars
  <2>8. ASSUME NEW u \in Units, Recovers(u) PROVE ServiceInv'
    <3>1. /\ unit' \in [Units -> {"up", "down", "failed", "dependency"}]
          /\ \A v \in Units : unit'[v] = "down" => unit[v] = "down"
      BY <2>8, StartsOnly DEF Recovers
    <3> QED BY <2>8, <3>1 DEF Recovers, hostVars, askVars
  <2>9. CASE OwnerActs
    <3>1. admin' \in BOOLEAN
      <4>1. admin' = ~admin \/ admin' = admin BY <2>9 DEF OwnerActs
      <4> QED BY <4>1
    <3>2. activates' \in [Timers -> Units \cup {NoUnit}]
      <4>1. activates' = activates
            \/ \E t \in Timers, u \in Units \cup {NoUnit} : activates' = [activates EXCEPT ![t] = u]
        BY <2>9 DEF OwnerActs
      <4> QED BY <4>1
    <3>3. UNCHANGED <<unit, askVars, job>> BY <2>9 DEF OwnerActs
    <3> QED BY <3>1, <3>2, <3>3 DEF askVars
  <2>10. CASE SelfFails
    <3>1. ServicesTypeOK' BY <2>10 DEF SelfFails, Becomes, RequestsEnd, hostVars
    <3>2. Lockout' BY <2>10 DEF SelfFails, Becomes, RequestsEnd, hostVars
    <3>3. LifelineStays' BY <2>10 DEF SelfFails, Becomes, RequestsEnd, hostVars
    <3> QED BY <3>1, <3>2, <3>3
  <2>11. ASSUME NEW q \in Askers, StopsSelf(q) PROVE ServiceInv'
    BY <2>11, StopKeeps DEF StopsSelf, RequestsEnd
  <2>12. CASE UNCHANGED serviceVars
    BY <2>12 DEF serviceVars, hostVars, askVars
  <2> QED
    BY ServiceSteps, <2>1, <2>2, <2>3, <2>4, <2>5, <2>6, <2>7, <2>8, <2>9, <2>10, <2>11, <2>12
    DEF ServiceStep, ServiceRequest
<1> QED BY <1>1, <1>2, PTL DEF Spec

(* Whatever the units, the requests and the times at which archangeld      *)
(* fails or restarts itself or the tunnel, a lifeline is down only because *)
(* it, or for archangeld the tunnel, failed or could not be started, or in *)
(* the middle of a restart that systemd will finish.                       *)
THEOREM LifelinesStay == Spec => []LifelineStays
<1>1. ServiceInv => LifelineStays BY DEF ServiceInv
<1> QED BY <1>1, ServiceInvHolds, PTL

--------------------------------------------------------------------------------
(* Processes. *)

(* What a step of the host is to the process list.                         *)
LEMMA ProcessSteps ==
  ASSUME [Next]_vars
  PROVE  ProcessKernel \/ ProcessRequest \/ ProcessesCut \/ UNCHANGED processVars
<1>1. CASE MonitorStep BY <1>1 DEF MonitorStep, MonitorOnly
<1>2. CASE ProcessesStep BY <1>2 DEF ProcessesStep
<1>3. CASE ScriptsStep BY <1>3 DEF ScriptsStep, ScriptsOnly
<1>4. CASE FilesStep BY <1>4 DEF FilesStep, FilesOnly
<1>5. CASE ServicesStep BY <1>5 DEF ServicesStep, ServicesOnly
<1>6. CASE DaemonEnds BY <1>6 DEF DaemonEnds
<1>7. CASE UNCHANGED vars BY <1>7 DEF vars
<1> QED BY <1>1, <1>2, <1>3, <1>4, <1>5, <1>6, <1>7 DEF Next

(* At most as many ticks as time separate any earlier reading of a process *)
(* number from a later one, and from now: a process has at most one tick   *)
(* per tick, and the next with its number begins with none.                *)
SinceSeen ==
  \A p \in Pids : seenAt[p] # Never => seenAt[p] <= now /\ used[p] <= seenUsed[p] + (now - seenAt[p])
SinceGot ==
  \A l \in Lists : got[l] # NoPid => gotAt[l] <= now /\ used[got[l]] <= gotUsed[l] + (now - gotAt[l])
SeenThenGot ==
  \A l \in Lists : got[l] # NoPid /\ seenAt[got[l]] # Never /\ seenAt[got[l]] < gotAt[l] =>
    gotUsed[l] <= seenUsed[got[l]] + (gotAt[l] - seenAt[got[l]])
GotThenGot ==
  \A l, m \in Lists : got[l] # NoPid /\ got[l] = got[m] /\ gotAt[l] < gotAt[m] =>
    gotUsed[m] <= gotUsed[l] + (gotAt[m] - gotAt[l])
Steady == SinceSeen /\ SinceGot /\ SeenThenGot /\ GotThenGot

(* Only a list that is under way has anything to read or to put.           *)
Underway == \A l \in Lists : got[l] # NoPid \/ todo[l] # {} => listing[l]

ProcessInv == ProcessesTypeOK /\ Steady /\ Underway /\ SamplesPruned

LEMMA SampledFinite == ASSUME ProcessesTypeOK PROVE IsFiniteSet(Sampled) /\ Cardinality(Sampled) \in Nat
<1>1. Sampled \subseteq Pids BY DEF Sampled
<1> QED BY <1>1, FS_Subset, FS_CardinalityType, ProcessesAssumption

LEMMA ProcessInvHolds == Spec => []ProcessInv
<1>1. Init => ProcessInv
  <2> SUFFICES ASSUME Init PROVE ProcessInv OBVIOUS
  <2> USE ProcessesAssumption DEF Init, ProcessesInit, Never, NoPid
  <2>1. ProcessesTypeOK BY DEF ProcessesTypeOK
  <2>2. Steady /\ Underway BY DEF Steady, SinceSeen, SinceGot, SeenThenGot, GotThenGot, Underway
  <2>3. Sampled = {} BY DEF Sampled
  <2>4. SamplesPruned BY <2>3, FS_EmptySet DEF SamplesPruned
  <2> QED BY <2>1, <2>2, <2>4 DEF ProcessInv
<1>2. ProcessInv /\ [Next]_vars => ProcessInv'
  <2> SUFFICES ASSUME ProcessInv, [Next]_vars PROVE ProcessInv' OBVIOUS
  <2> USE ProcessesAssumption DEF ProcessInv, Never, NoPid, kernelVars, sampleVars, listVars
  <2>1. CASE TimePasses
    <3>1. PICK S \in SUBSET alive : used' = [p \in Pids |-> IF p \in S THEN used[p] + 1 ELSE used[p]]
      BY <2>1 DEF TimePasses
    <3>2. now' = now + 1 /\ UNCHANGED <<alive, sampleVars, listVars>> BY <2>1 DEF TimePasses
    <3>7. UNCHANGED <<seenUsed, seenAt, got, gotUsed, gotAt>> BY <3>2
    <3>3. \A p \in Pids : used'[p] \in Nat /\ used'[p] <= used[p] + 1 BY <3>1 DEF ProcessesTypeOK
    <3>4. ProcessesTypeOK' BY <3>1, <3>2, <3>3 DEF ProcessesTypeOK
    <3>5. Steady'
      <4>1. SinceSeen'
        <5> SUFFICES ASSUME NEW p \in Pids, seenAt'[p] # Never
                     PROVE seenAt'[p] <= now' /\ used'[p] <= seenUsed'[p] + (now' - seenAt'[p])
          BY DEF SinceSeen
        <5>1. seenAt[p] \in Nat /\ seenUsed[p] \in Nat /\ used[p] \in Nat /\ now \in Nat
          BY <3>7 DEF ProcessesTypeOK
        <5>2. used'[p] \in Nat /\ used'[p] <= used[p] + 1 BY <3>3
        <5>3. seenAt[p] <= now /\ used[p] <= seenUsed[p] + (now - seenAt[p]) BY <3>7 DEF Steady, SinceSeen
        <5> QED BY <3>2, <3>7, <5>1, <5>2, <5>3
      <4>2. SinceGot'
        <5> SUFFICES ASSUME NEW l \in Lists, got'[l] # NoPid
                     PROVE gotAt'[l] <= now' /\ used'[got'[l]] <= gotUsed'[l] + (now' - gotAt'[l])
          BY DEF SinceGot
        <5>1. got[l] \in Pids /\ gotAt[l] \in Nat /\ gotUsed[l] \in Nat /\ now \in Nat
          BY <3>7 DEF ProcessesTypeOK
        <5>2. used[got[l]] \in Nat /\ used'[got[l]] \in Nat /\ used'[got[l]] <= used[got[l]] + 1
          BY <5>1, <3>3 DEF ProcessesTypeOK
        <5>3. gotAt[l] <= now /\ used[got[l]] <= gotUsed[l] + (now - gotAt[l]) BY <3>7 DEF Steady, SinceGot
        <5> QED BY <3>2, <3>7, <5>1, <5>2, <5>3
      <4>3. SeenThenGot' BY <3>2, <3>3 DEF ProcessesTypeOK, Steady, SeenThenGot, SinceSeen
      <4>4. GotThenGot' BY <3>2, <3>3 DEF ProcessesTypeOK, Steady, GotThenGot, SinceGot
      <4> QED BY <4>1, <4>2, <4>3, <4>4 DEF Steady
    <3>6. (Underway /\ SamplesPruned)' BY <3>2 DEF Underway, SamplesPruned, Sampled
    <3> QED BY <3>4, <3>5, <3>6
  <2>2. ASSUME NEW p \in Pids, Starts(p) PROVE ProcessInv'
    BY <2>2 DEF Starts, ProcessesTypeOK, Steady, SinceSeen, SinceGot, SeenThenGot, GotThenGot, Underway, SamplesPruned, Sampled
  <2>3. ASSUME NEW p \in Pids, Ends(p) PROVE ProcessInv'
    <3> USE <2>3 DEF Ends
    <3>1. ProcessesTypeOK' BY DEF ProcessesTypeOK
    <3>2. Steady' BY DEF ProcessesTypeOK, Steady, SinceSeen, SinceGot, SeenThenGot, GotThenGot
    <3>3. (Underway /\ SamplesPruned)' BY DEF Underway, SamplesPruned, Sampled
    <3> QED BY <3>1, <3>2, <3>3
  <2>4. ASSUME NEW l \in Lists, ListBegins(l) PROVE ProcessInv'
    <3> USE <2>4 DEF ListBegins
    <3>1. ProcessesTypeOK' BY DEF ProcessesTypeOK
    <3>2. Steady' BY DEF ProcessesTypeOK, Steady, SinceSeen, SinceGot, SeenThenGot, GotThenGot
    <3>3. (Underway /\ SamplesPruned)' BY DEF ProcessesTypeOK, Underway, SamplesPruned, Sampled
    <3> QED BY <3>1, <3>2, <3>3
  <2>5. ASSUME NEW l \in Lists, NEW p \in Pids, ReadStat(l, p) PROVE ProcessInv'
    <3> USE <2>5 DEF ReadStat
    <3>1. ProcessesTypeOK' BY DEF ProcessesTypeOK
    <3>2. Steady'
      <4>1. SinceSeen' BY DEF ProcessesTypeOK, Steady, SinceSeen
      <4>2. SinceGot' BY DEF ProcessesTypeOK, Steady, SinceGot
      <4>3. SeenThenGot' BY DEF ProcessesTypeOK, Steady, SeenThenGot, SinceSeen
      <4>4. GotThenGot'
        <5> SUFFICES ASSUME NEW i \in Lists, NEW j \in Lists,
                            got'[i] # NoPid, got'[i] = got'[j], gotAt'[i] < gotAt'[j]
                     PROVE gotUsed'[j] <= gotUsed'[i] + (gotAt'[j] - gotAt'[i])
          BY DEF GotThenGot
        <5>0. \A k \in Lists : gotUsed[k] \in Nat /\ gotAt[k] \in Nat /\ gotUsed'[k] \in Nat /\ gotAt'[k] \in Nat
          BY <3>1 DEF ProcessesTypeOK
        <5>1. \A k \in Lists : k # l => got'[k] = got[k] /\ gotUsed'[k] = gotUsed[k] /\ gotAt'[k] = gotAt[k]
          BY DEF ProcessesTypeOK
        <5>2. CASE i = j BY <5>0, <5>2
        <5>3. CASE i # l /\ j # l BY <5>1, <5>3 DEF Steady, GotThenGot
        <5>4. CASE i # j /\ (i = l \/ j = l) /\ p \in alive
          <6>1. got'[l] = p /\ gotUsed'[l] = used[p] /\ gotAt'[l] = now /\ now \in Nat /\ used[p] \in Nat
            BY <5>4 DEF ProcessesTypeOK
          <6>2. CASE i = l
            <7>1. gotAt[j] <= now /\ now < gotAt[j] BY <5>1, <5>4, <6>1, <6>2 DEF Steady, SinceGot
            <7> QED BY <7>1, <5>0, <6>1
          <6>3. CASE j = l BY <5>0, <5>1, <5>4, <6>1, <6>3 DEF Steady, SinceGot
          <6> QED BY <6>2, <6>3, <5>4
        <5>5. CASE i # j /\ (i = l \/ j = l) /\ p \notin alive
          BY <5>5 DEF Steady, GotThenGot
        <5> QED BY <5>2, <5>3, <5>4, <5>5
      <4> QED BY <4>1, <4>2, <4>3, <4>4 DEF Steady
    <3>3. (Underway /\ SamplesPruned)' BY DEF ProcessesTypeOK, Underway, SamplesPruned, Sampled
    <3> QED BY <3>1, <3>2, <3>3
  <2>6. ASSUME NEW l \in Lists, PutSample(l) PROVE ProcessInv'
    <3> USE <2>6 DEF PutSample
    <3>1. ProcessesTypeOK' BY DEF ProcessesTypeOK
    <3>2. Steady' BY DEF ProcessesTypeOK, Steady, SinceSeen, SinceGot, SeenThenGot, GotThenGot
    <3>3. (Underway /\ SamplesPruned)' BY DEF ProcessesTypeOK, Underway, SamplesPruned
    <3> QED BY <3>1, <3>2, <3>3
  <2>7. ASSUME NEW l \in Lists, ListEnds(l) PROVE ProcessInv'
    <3>0. Cardinality(found[l]) \in Nat /\ IsFiniteSet(found[l])
      BY FS_Subset, FS_CardinalityType DEF ProcessesTypeOK
    <3>1. ProcessesTypeOK' BY <2>7, <3>0 DEF ListEnds, ProcessesTypeOK
    <3>2. Steady' BY <2>7 DEF ListEnds, ProcessesTypeOK, Steady, SinceSeen, SinceGot, SeenThenGot, GotThenGot
    <3>3. Underway' BY <2>7 DEF ListEnds, ProcessesTypeOK, Underway
    <3>4. Sampled' \subseteq Sampled \cap Stays(l) BY <2>7 DEF ListEnds, Sampled
    <3>5. Cardinality(Sampled') <= 2 * Cardinality(found[l])
      <4>1. CASE Cardinality(Sampled) > 2 * Cardinality(found[l])
        <5>1. Sampled' \subseteq found[l] BY <3>4, <4>1 DEF Stays
        <5> QED BY <5>1, <3>0, FS_Subset, FS_CardinalityType
      <4>2. CASE ~(Cardinality(Sampled) > 2 * Cardinality(found[l]))
        <5>1. Sampled' \subseteq Sampled BY <3>4
        <5>2. Cardinality(Sampled') <= Cardinality(Sampled) /\ Cardinality(Sampled') \in Nat
          BY <5>1, SampledFinite, FS_Subset, FS_CardinalityType
        <5> QED BY <5>2, <4>2, <3>0, SampledFinite
      <4> QED BY <4>1, <4>2
    <3>6. SamplesPruned' BY <2>7, <3>5 DEF ListEnds, SamplesPruned
    <3> QED BY <3>1, <3>2, <3>3, <3>6
  <2>8. CASE ProcessesCut
    <3> USE <2>8 DEF ProcessesCut
    <3>1. ProcessesTypeOK' BY DEF ProcessesTypeOK
    <3>2. (Steady /\ Underway)' BY DEF Steady, SinceSeen, SinceGot, SeenThenGot, GotThenGot, Underway
    <3>3. Sampled' = {} BY DEF Sampled
    <3>4. SamplesPruned' BY <3>3, FS_EmptySet DEF SamplesPruned
    <3> QED BY <3>1, <3>2, <3>4
  <2>9. CASE UNCHANGED processVars
    BY <2>9 DEF processVars, ProcessesTypeOK, Steady, SinceSeen, SinceGot, SeenThenGot, GotThenGot, Underway, SamplesPruned, Sampled
  <2> QED
    BY ProcessSteps, <2>1, <2>2, <2>3, <2>4, <2>5, <2>6, <2>7, <2>8, <2>9
    DEF ProcessKernel, ProcessRequest, Kill
<1> QED BY <1>1, <1>2, PTL DEF Spec

(* For any number of lists, processes and restarts.                        *)
THEOREM SharesFit == Spec => []ShareFits
<1>1. ProcessInv => ShareFits
  <2> SUFFICES ASSUME ProcessInv, NEW l \in Lists, got[l] # NoPid PROVE Share(l)[1] <= Share(l)[2]
    BY DEF ShareFits
  <2> DEFINE p == got[l]
  <2>1. p \in Pids /\ gotUsed[l] \in Nat /\ gotAt[l] \in Nat /\ seenUsed[p] \in Nat /\ seenAt[p] \in Nat \cup {Never}
    BY DEF ProcessInv, ProcessesTypeOK
  <2>2. CASE seenAt[p] # Never /\ gotUsed[l] >= seenUsed[p] /\ gotAt[l] > seenAt[p]
    <3>1. gotUsed[l] <= seenUsed[p] + (gotAt[l] - seenAt[p])
      BY <2>1, <2>2 DEF ProcessInv, Steady, SeenThenGot, Never
    <3>2. Share(l) = <<gotUsed[l] - seenUsed[p], gotAt[l] - seenAt[p]>> BY <2>2 DEF Share
    <3> QED BY <2>1, <2>2, <3>1, <3>2 DEF Never
  <2>3. CASE ~(seenAt[p] # Never /\ gotUsed[l] >= seenUsed[p] /\ gotAt[l] > seenAt[p])
    <3>1. Share(l) = <<0, 0>> BY <2>3 DEF Share
    <3> QED BY <3>1
  <2> QED BY <2>2, <2>3
<1> QED BY <1>1, ProcessInvHolds, PTL

(* The map of samples is bounded by what a list finds, whatever the lists. *)
THEOREM SamplesArePruned == Spec => []SamplesPruned
<1>1. ProcessInv => SamplesPruned BY DEF ProcessInv
<1> QED BY <1>1, ProcessInvHolds, PTL

--------------------------------------------------------------------------------
(* Metrics. *)

(* What a step of the host is to the collector and the stats socket.       *)
LEMMA MonitorSteps ==
  ASSUME [Next]_vars
  PROVE  CpuKernel \/ NetKernel \/ DiskKernel \/ Pass \/ StatsSocket \/ Fresh \/ UNCHANGED monitorVars
<1>1. CASE MonitorStep BY <1>1 DEF MonitorStep
<1>2. CASE ProcessesStep BY <1>2 DEF ProcessesStep, ProcessesOnly
<1>3. CASE ScriptsStep BY <1>3 DEF ScriptsStep, ScriptsOnly
<1>4. CASE FilesStep BY <1>4 DEF FilesStep, FilesOnly
<1>5. CASE ServicesStep BY <1>5 DEF ServicesStep, ServicesOnly
<1>6. CASE DaemonEnds BY <1>6 DEF DaemonEnds
<1>7. CASE UNCHANGED vars BY <1>7 DEF vars
<1> QED BY <1>1, <1>2, <1>3, <1>4, <1>5, <1>6, <1>7 DEF Next

NetTypeOK ==
  /\ links \subseteq Links /\ count \in [Links -> Nat] /\ moved \in [Links -> Nat]
  /\ base \in [Links -> Nat \cup {NoSample}]

(* A counter is at most what it was when it was read, and what has moved   *)
(* since; one that begins anew is below that.                              *)
NetInv ==
  /\ NetTypeOK /\ \A l \in Links : base[l] # NoSample => count[l] <= base[l] + moved[l]
  /\ n > 0 /\ ~netAssumed => \E l \in Links : base[l] # NoSample

DiskInv ==
  /\ sectors \in Nat /\ lastSectors \in Nat /\ transferred \in Nat
  /\ lastSectors > 0 => sectors <= lastSectors + transferred

LEMMA RatesInvHolds == Spec => [](NetInv /\ DiskInv)
<1>1. Init => NetInv /\ DiskInv
  BY DEF Init, MonitorInit, NetInv, NetTypeOK, DiskInv, NoSample
<1>2. NetInv /\ DiskInv /\ [Next]_vars => (NetInv /\ DiskInv)'
  <2> SUFFICES ASSUME NetInv, DiskInv, [Next]_vars PROVE NetInv' /\ DiskInv' OBVIOUS
  <2> USE DEF NetInv, NetTypeOK, DiskInv, NoSample, netVars, diskVars
  <2>1. CASE CpuKernel
    BY <2>1 DEF CpuKernel, CpuTicks, IdleStepsBack, CoreTurns, CpuOnly
  <2>2. ASSUME NEW l \in Links, Traffic(l) PROVE NetInv' /\ DiskInv'
    <3>1. NetTypeOK' BY <2>2 DEF Traffic
    <3>2. ASSUME NEW m \in Links, base'[m] # NoSample PROVE count'[m] <= base'[m] + moved'[m]
      <4>1. base[m] \in Nat /\ count[m] \in Nat /\ moved[m] \in Nat /\ base' = base BY <2>2, <3>2 DEF Traffic
      <4>2. CASE m = l BY <2>2, <3>2, <4>1, <4>2 DEF Traffic
      <4>3. CASE m # l BY <2>2, <3>2, <4>1, <4>3 DEF Traffic
      <4> QED BY <4>2, <4>3
    <3>3. DiskInv' BY <2>2 DEF Traffic, NetOnly
    <3>4. UNCHANGED <<n, base, netAssumed>> BY <2>2 DEF Traffic, NetOnly
    <3> QED BY <3>1, <3>2, <3>3, <3>4
  <2>3. ASSUME NEW l \in Links, LinkTurns(l) PROVE NetInv' /\ DiskInv'
    <3>1. NetTypeOK' BY <2>3 DEF LinkTurns
    <3>2. ASSUME NEW m \in Links, base'[m] # NoSample PROVE count'[m] <= base'[m] + moved'[m]
      <4>1. base[m] \in Nat /\ count[m] \in Nat /\ moved[m] \in Nat /\ base' = base /\ moved' = moved
        BY <2>3, <3>2 DEF LinkTurns
      <4>2. CASE m = l BY <2>3, <3>2, <4>1, <4>2 DEF LinkTurns
      <4>3. CASE m # l BY <2>3, <3>2, <4>1, <4>3 DEF LinkTurns
      <4> QED BY <4>2, <4>3
    <3>3. DiskInv' BY <2>3 DEF LinkTurns, NetOnly
    <3>4. UNCHANGED <<n, base, netAssumed>> BY <2>3 DEF LinkTurns, NetOnly
    <3> QED BY <3>1, <3>2, <3>3, <3>4
  <2>4. CASE DiskKernel BY <2>4 DEF DiskKernel, DiskTransfer, DiskGoes, DiskOnly
  <2>5. CASE Pass
    <3>1. NetInv'
      <4>1. CASE FallbackNetwork BY <2>5, <4>1 DEF Pass, Collect, FallbackNetwork
      <4>2. CASE CollectNetwork
        <5>1. UNCHANGED <<links, count>> BY <2>5 DEF Pass, Collect
        <5>2. \A l \in Links : base'[l] = IF l \in links THEN count[l] ELSE base[l] BY <4>2 DEF CollectNetwork
        <5>3. netAssumed' = (links = {}) BY <4>2 DEF CollectNetwork
        <5>4. ASSUME ~netAssumed' PROVE \E l \in Links : base'[l] # NoSample
          <6>1. PICK l \in links : TRUE BY <5>3, <5>4
          <6>2. l \in Links /\ count[l] \in Nat OBVIOUS
          <6> QED BY <5>2, <6>1, <6>2
        <5> QED BY <4>2, <5>1, <5>4 DEF CollectNetwork
      <4> QED BY <2>5, <4>1, <4>2 DEF Pass, Collect
    <3>2. DiskInv' BY <2>5 DEF Pass, Collect, CollectDisk
    <3> QED BY <3>1, <3>2
  <2>6. CASE StatsSocket
    BY <2>6 DEF StatsSocket, Connect, FirstWrite, TakeRate, Tick, Written, HangUpSeen, PeerTurns, SetRate, SockOnly
  <2>7. CASE Fresh BY <2>7 DEF Fresh
  <2>8. CASE UNCHANGED monitorVars BY <2>8 DEF monitorVars
  <2> QED BY MonitorSteps, <2>1, <2>2, <2>3, <2>4, <2>5, <2>6, <2>7, <2>8 DEF NetKernel
<1> QED BY <1>1, <1>2, PTL DEF Spec

(* Whatever interfaces and disks come and go, and whichever files cannot   *)
(* be read.                                                                *)
THEOREM AmountsReal == Spec => []AmountsAreReal
<1>1. NetInv /\ DiskInv => AmountsAreReal
  BY DEF NetInv, NetTypeOK, DiskInv, AmountsAreReal, NetAmount, DiskAmount, NoSample
<1> QED BY <1>1, RatesInvHolds, PTL

HistoryInv == n \in Nat /\ history \in Seq(Nat) /\ HistoryIsRecent

(* Where the elements of a sequence are when the first has gone.           *)
LEMMA TailShifts ==
  ASSUME NEW s \in Seq(Nat), s # <<>>
  PROVE  /\ Tail(s) \in Seq(Nat) /\ Len(Tail(s)) = Len(s) - 1
         /\ \A i \in 1..Len(Tail(s)) : Tail(s)[i] = s[i + 1]
BY HeadTailProperties

LEMMA RingStep ==
  ASSUME HistoryInv, n' = n + 1, history' = AppendRing(history, n + 1)
  PROVE  HistoryInv'
<1> USE MonitorAssumption DEF HistoryInv, HistoryIsRecent
<1> DEFINE t == Append(history, n + 1)
<1>1. t \in Seq(Nat) /\ Len(t) = Len(history) + 1 /\ Len(history) \in Nat /\ n + 1 \in Nat
  BY AppendProperties
<1>2. ASSUME NEW i \in 1..Len(t) PROVE t[i] = n + 1 - Len(t) + i
  <2>1. CASE i \in 1..Len(history)
    <3>1. t[i] = history[i] /\ history[i] = n - Len(history) + i BY <2>1, AppendProperties
    <3> HIDE DEF t
    <3> QED BY <3>1, <2>1, <1>1
  <2>2. CASE i = Len(history) + 1
    <3>1. t[i] = n + 1 BY <2>2, AppendProperties
    <3> HIDE DEF t
    <3> QED BY <3>1, <2>2, <1>1
  <2> QED BY <1>1, <2>1, <2>2
<1>3. CASE Len(t) > MaxHistory
  <2>1. history' = Tail(t) BY <1>3 DEF AppendRing
  <2>2. Len(history) = MaxHistory /\ n >= MaxHistory BY <1>1, <1>3
  <2>3. t # <<>> BY <1>1
  <2>4. /\ Tail(t) \in Seq(Nat) /\ Len(Tail(t)) = Len(t) - 1
        /\ \A i \in 1..Len(Tail(t)) : Tail(t)[i] = t[i + 1]
    <3> HIDE DEF t
    <3> QED BY <1>1, <2>3, TailShifts
  <2>6. ASSUME NEW i \in 1..Len(Tail(t)) PROVE Tail(t)[i] = n + 1 - Len(Tail(t)) + i
    <3>1. i + 1 \in 1..Len(t) /\ Tail(t)[i] = t[i + 1] BY <1>1, <2>4
    <3> HIDE DEF t
    <3>2. t[i + 1] = n + 1 - Len(t) + (i + 1) BY <1>2, <3>1
    <3>3. n \in Nat /\ Len(t) \in Nat /\ i \in Nat BY <1>1, <2>4
    <3> QED BY <2>4, <3>1, <3>2, <3>3
  <2> HIDE DEF t
  <2>7. Len(Tail(t)) = MaxHistory /\ ~(n + 1 < MaxHistory) BY <1>1, <2>2, <2>4
  <2>8. history' \in Seq(Nat) /\ n' \in Nat
    <3>1. n' \in Nat BY <1>1
    <3> QED BY <2>1, <2>4, <3>1
  <2>9. Len(history') = IF n' < MaxHistory THEN n' ELSE MaxHistory BY <2>1, <2>7
  <2>10. \A i \in 1..Len(history') : history'[i] = n' - Len(history') + i
    <3> SUFFICES ASSUME NEW i \in 1..Len(history') PROVE history'[i] = n' - Len(history') + i OBVIOUS
    <3>1. history'[i] = n + 1 - Len(history') + i BY <2>1, <2>6
    <3>2. n' = n + 1 /\ n \in Nat OBVIOUS
    <3>3. Len(history') \in Nat /\ i \in Nat BY <2>1, <2>4
    <3>4. n + 1 - Len(history') + i = n' - Len(history') + i BY ONLY <3>2, <3>3, SMT
    <3> QED BY ONLY <3>1, <3>4, Zenon
  <2> QED BY <2>8, <2>9, <2>10
<1>4. CASE ~(Len(t) > MaxHistory)
  <2>1. history' = t BY <1>4 DEF AppendRing
  <2> HIDE DEF t
  <2> QED BY <2>1, <1>1, <1>2, <1>4
<1> QED BY <1>3, <1>4

LEMMA HistoryInvHolds == Spec => []HistoryInv
<1>1. Init => HistoryInv
  BY MonitorAssumption DEF Init, MonitorInit, HistoryInv, HistoryIsRecent
<1>2. HistoryInv /\ [Next]_vars => HistoryInv'
  <2> SUFFICES ASSUME HistoryInv, [Next]_vars PROVE HistoryInv' OBVIOUS
  <2>1. CASE UNCHANGED <<n, history>> BY <2>1 DEF HistoryInv, HistoryIsRecent
  <2>2. CASE Pass BY <2>2, RingStep DEF Pass, Collect
  <2>3. CASE Fresh BY <2>3, MonitorAssumption DEF Fresh, HistoryInv, HistoryIsRecent
  <2>4. CASE CpuKernel BY <2>1, <2>4 DEF CpuKernel, CpuTicks, IdleStepsBack, CoreTurns, CpuOnly
  <2>5. CASE NetKernel BY <2>1, <2>5 DEF NetKernel, Traffic, LinkTurns, NetOnly
  <2>6. CASE DiskKernel BY <2>1, <2>6 DEF DiskKernel, DiskTransfer, DiskGoes, DiskOnly
  <2>7. CASE StatsSocket
    BY <2>1, <2>7 DEF StatsSocket, Connect, FirstWrite, TakeRate, Tick, Written, HangUpSeen, PeerTurns, SetRate, SockOnly
  <2>8. CASE UNCHANGED monitorVars BY <2>1, <2>8 DEF monitorVars
  <2> QED BY MonitorSteps, <2>2, <2>3, <2>4, <2>5, <2>6, <2>7, <2>8
<1> QED BY <1>1, <1>2, PTL DEF Spec

(* For any length of the rings.                                            *)
THEOREM HistoriesAreRecent == Spec => []HistoryIsRecent
<1>1. HistoryInv => HistoryIsRecent BY DEF HistoryInv
<1> QED BY <1>1, HistoryInvHolds, PTL

SockInv ==
  /\ pend \in Seq(Rates) /\ Len(pend) <= RateCap /\ sock \in {"idle", "first", "loop", "write"}
  /\ ~lost => wanted = IF pend = <<>> THEN rate ELSE pend[Len(pend)]

(* For any capacity of the queue.                                          *)
THEOREM RatesFollow == Spec => []RateFollows
<1>1. Init => SockInv
  BY MonitorAssumption DEF Init, MonitorInit, SockInv
<1>2. SockInv /\ [Next]_vars => SockInv'
  <2> SUFFICES ASSUME SockInv, [Next]_vars PROVE SockInv' OBVIOUS
  <2> USE MonitorAssumption DEF SockInv
  <2>1. CASE UNCHANGED sockVars BY <2>1 DEF sockVars
  <2>2. CASE CpuKernel BY <2>1, <2>2 DEF CpuKernel, CpuTicks, IdleStepsBack, CoreTurns, CpuOnly
  <2>3. CASE NetKernel BY <2>1, <2>3 DEF NetKernel, Traffic, LinkTurns, NetOnly
  <2>4. CASE DiskKernel BY <2>1, <2>4 DEF DiskKernel, DiskTransfer, DiskGoes, DiskOnly
  <2>5. CASE Pass BY <2>1, <2>5 DEF Pass
  <2>6. CASE Fresh BY <2>6 DEF Fresh
  <2>7. CASE UNCHANGED monitorVars BY <2>1, <2>7 DEF monitorVars
  <2>8. CASE Connect \/ FirstWrite \/ Tick \/ Written \/ HangUpSeen \/ PeerTurns
    <3>1. CASE SockReturns BY <3>1 DEF SockReturns
    <3>2. CASE Connect BY <2>8, <3>2 DEF Connect
    <3>3. CASE UNCHANGED <<pend, rate, wanted, lost>> /\ sock' \in {"loop", "write", sock} /\ sock # "idle"
      BY <3>3
    <3> QED BY <2>8, <3>1, <3>2, <3>3 DEF FirstWrite, Tick, Written, HangUpSeen, PeerTurns
  <2>9. CASE TakeRate
    <3>1. pend # <<>> /\ rate' = Head(pend) /\ pend' = Tail(pend) /\ UNCHANGED <<sock, wanted, lost>>
      BY <2>9 DEF TakeRate
    <3>2. Tail(pend) \in Seq(Rates) /\ Len(Tail(pend)) = Len(pend) - 1 /\ Len(pend) \in Nat \ {0}
      BY <3>1, HeadTailProperties, EmptySeq
    <3>3. CASE Len(pend) = 1 BY <3>1, <3>2, <3>3
    <3>4. CASE Len(pend) # 1
      <4>1. Len(pend) - 1 \in 1..Len(Tail(pend)) BY <3>2, <3>4
      <4>2. Tail(pend)[Len(pend) - 1] = pend[Len(pend) - 1 + 1] BY <3>1, <4>1, HeadTailProperties
      <4>3. Len(pend) - 1 + 1 = Len(pend) BY <3>2
      <4>4. Tail(pend) # <<>>
        <5> SUFFICES ASSUME Tail(pend) = <<>> PROVE FALSE OBVIOUS
        <5>1. Len(Tail(pend)) = 0 BY EmptySeq
        <5> QED BY <5>1, <3>2, <3>4
      <4> QED BY <3>1, <3>2, <4>2, <4>3, <4>4
    <3> QED BY <3>3, <3>4
  <2>10. ASSUME NEW v \in Rates \cup {Invalid}, SetRate(v) PROVE SockInv'
    <3>1. CASE v = Invalid BY <2>10, <3>1 DEF SetRate
    <3>2. CASE v # Invalid /\ Len(pend) < RateCap BY <2>10, <3>2 DEF SetRate
    <3>3. CASE v # Invalid /\ ~(Len(pend) < RateCap)
      <4>1. Len(pend) >= RateCap BY <3>3, LenProperties
      <4>2. lost' BY <2>10, <3>3, <4>1, Zenon DEF SetRate
      <4> QED BY <2>10, <3>3, <4>2 DEF SetRate
    <3> QED BY <3>1, <3>2, <3>3
  <2> QED BY MonitorSteps, <2>2, <2>3, <2>4, <2>5, <2>6, <2>7, <2>8, <2>9, <2>10 DEF StatsSocket
<1>3. SockInv => RateFollows BY DEF SockInv, RateFollows
<1> QED BY <1>1, <1>2, <1>3, PTL DEF Spec

--------------------------------------------------------------------------------
(* Files. *)

(* What a step of the host is to the file browser.                         *)
LEMMA FileSteps ==
  ASSUME [Next]_vars
  PROVE  \/ \E q \in Readers : FileRequest(q)
         \/ \E p \in Paths : FileChanges(p)
         \/ FilesCut \/ UNCHANGED fileVars
<1>1. CASE MonitorStep BY <1>1 DEF MonitorStep, MonitorOnly
<1>2. CASE ProcessesStep BY <1>2 DEF ProcessesStep, ProcessesOnly
<1>3. CASE ScriptsStep BY <1>3 DEF ScriptsStep, ScriptsOnly
<1>4. CASE FilesStep BY <1>4 DEF FilesStep
<1>5. CASE ServicesStep BY <1>5 DEF ServicesStep, ServicesOnly
<1>6. CASE DaemonEnds BY <1>6 DEF DaemonEnds
<1>7. CASE UNCHANGED vars BY <1>7 DEF vars
<1> QED BY <1>1, <1>2, <1>3, <1>4, <1>5, <1>6, <1>7 DEF Next

(* Where links end there is no link: the end of the end is the end.        *)
LEMMA EndIsEnd == ASSUME NEW p, ~Loops(p) PROVE End(End(p)) = End(p)
  BY DEF Loops, End, Follow

(* What resolvePath grants is the end of the path, within the root, or a   *)
(* path within the root that leads nowhere.                                *)
LEMMA ResolveGrants ==
  ASSUME NEW p \in Paths, Resolve(p) # NoPath
  PROVE  /\ rooted
         /\ \/ Exists(p) /\ Resolve(p) = End(p) /\ End(p) \in Inside /\ End(End(p)) = End(p)
            \/ ~Exists(p) /\ Resolve(p) = p
<1>1. rooted /\ ~Loops(p) BY DEF Resolve
<1>2. End(End(p)) = End(p) BY <1>1, EndIsEnd
<1> QED BY <1>1, <1>2 DEF Resolve

LEMMA TreeSame ==
  ASSUME UNCHANGED <<rooted, tree>>
  PROVE  /\ \A p : Resolve(p)' = Resolve(p)
         /\ \A p : End(p)' = End(p)
  BY DEF Resolve, Loops, Exists, End, Follow

(* A request whose files have not changed goes on with what resolvePath    *)
(* still says of the path it was asked for.                                *)
Resolved ==
  \A q \in Readers :
    /\ ~touched[q] /\ fstep[q] \in {"stat", "open"} => real[q] = Resolve(asked[q]) /\ real[q] # NoPath
    /\ fstep[q] # "idle" => asked[q] \in Paths

FileInv == FilesTypeOK /\ Resolved /\ ServesWhatWasAsked

LEMMA FileInvHolds == Spec => []FileInv
<1>1. Init => FileInv
  BY DEF Init, FilesInit, FileInv, FilesTypeOK, Resolved, ServesWhatWasAsked
<1>2. FileInv /\ [Next]_vars => FileInv'
  <2> SUFFICES ASSUME FileInv, [Next]_vars PROVE FileInv' OBVIOUS
  <2> USE FilesAssumption DEF FileInv, FilesTypeOK
  <2>1. ASSUME NEW q \in Readers, AskFile(q) PROVE FileInv'
    <3> USE <2>1 DEF AskFile
    <3>1. FilesTypeOK' OBVIOUS
    <3>2. Resolved' BY TreeSame DEF Resolved
    <3>3. ServesWhatWasAsked' BY TreeSame DEF ServesWhatWasAsked
    <3> QED BY <3>1, <3>2, <3>3
  <2>2. ASSUME NEW q \in Readers, ResolvePath(q) PROVE FileInv'
    <3> USE <2>2 DEF ResolvePath
    <3>1. Resolve(asked[q]) \in Paths \cup {NoPath} BY DEF Resolve, Resolved
    <3>2. FilesTypeOK' BY <3>1
    <3>3. \A p : Resolve(p)' = Resolve(p) BY TreeSame
    <3>4. Resolved' BY <3>1, <3>3 DEF Resolved
    <3>5. ServesWhatWasAsked' BY TreeSame DEF ServesWhatWasAsked
    <3> QED BY <3>2, <3>4, <3>5
  <2>3. ASSUME NEW q \in Readers, StatFile(q) PROVE FileInv'
    <3> USE <2>3 DEF StatFile
    <3>1. FilesTypeOK' OBVIOUS
    <3>2. \A p : Resolve(p)' = Resolve(p) BY TreeSame
    <3>3. Resolved' BY <3>2 DEF Resolved
    <3>4. ServesWhatWasAsked' BY TreeSame DEF ServesWhatWasAsked
    <3> QED BY <3>1, <3>3, <3>4
  <2>4. ASSUME NEW q \in Readers, OpenFile(q) PROVE FileInv'
    <3> USE <2>4 DEF OpenFile
    <3>1. FilesTypeOK' BY DEF End, Follow
    <3>2. \A p : Resolve(p)' = Resolve(p) BY TreeSame
    <3>3. Resolved' BY <3>2 DEF Resolved
    <3>4. \A p : End(p)' = End(p) BY TreeSame
    <3>5. ASSUME NEW r \in Readers, served'[r] # NoPath, ~touched'[r]
          PROVE  served'[r] = End(asked'[r]) /\ served'[r] \in Inside /\ rooted'
      <4>1. CASE r # q BY <3>5, <4>1 DEF ServesWhatWasAsked
      <4>2. CASE r = q
        <5>1. served'[q] = End(real[q]) /\ tree[End(real[q])] = "file" BY <3>5, <4>2
        <5>2. real[q] = Resolve(asked[q]) /\ real[q] # NoPath /\ asked[q] \in Paths
          BY <3>5, <4>2 DEF Resolved
        <5>3. Exists(asked[q]) BY <5>1, <5>2, ResolveGrants DEF Exists
        <5> QED BY <4>2, <5>1, <5>2, <5>3, ResolveGrants
      <4> QED BY <4>1, <4>2
    <3>6. ServesWhatWasAsked' BY <3>4, <3>5 DEF ServesWhatWasAsked
    <3> QED BY <3>1, <3>3, <3>6
  <2>5. ASSUME NEW p \in Paths, FileChanges(p) PROVE FileInv'
    BY <2>5 DEF FileChanges, Resolved, ServesWhatWasAsked, Nodes
  <2>6. CASE FilesCut
    BY <2>6, TreeSame DEF FilesCut, Resolved, ServesWhatWasAsked
  <2>7. CASE UNCHANGED fileVars
    BY <2>7, TreeSame DEF fileVars, Resolved, ServesWhatWasAsked
  <2> QED BY FileSteps, <2>1, <2>2, <2>3, <2>4, <2>5, <2>6, <2>7 DEF FileRequest
<1> QED BY <1>1, <1>2, PTL DEF Spec

(* Whatever links there are, and whoever changes files between requests.   *)
THEOREM ServesTheAskedFile == Spec => []ServesWhatWasAsked
<1>1. FileInv => ServesWhatWasAsked BY DEF FileInv
<1> QED BY <1>1, FileInvHolds, PTL

(* The listing's mark of a link is what resolvePath would say of it.       *)
THEOREM ListingAgrees == Spec => []ListedAsReadable
<1>1. FileInv => ListedAsReadable
  <2> SUFFICES ASSUME FileInv, rooted, NEW p \in Inside, tree[p] \in Paths
               PROVE  IsBroken(p) <=> (Resolve(p) = NoPath \/ ~Exists(Resolve(p)))
    BY DEF ListedAsReadable
  <2> USE FilesAssumption
  <2>1. CASE Loops(p) BY <2>1 DEF Loops, Exists, IsBroken, Resolve
  <2>2. CASE ~Loops(p)
    <3>1. Exists(End(p)) <=> Exists(p) BY <2>2, EndIsEnd DEF Exists
    <3> QED BY <2>2, <3>1 DEF Resolve, IsBroken
  <2> QED BY <2>1, <2>2
<1> QED BY <1>1, FileInvHolds, PTL

--------------------------------------------------------------------------------
(* Scripts. *)

(* What a step of the host is to the scripts.                              *)
LEMMA ScriptSteps ==
  ASSUME [Next]_vars
  PROVE  (\E q \in Requests : ScriptRequest(q)) \/ ScriptsCut \/ UNCHANGED scriptVars
<1>1. CASE MonitorStep BY <1>1 DEF MonitorStep, MonitorOnly
<1>2. CASE ProcessesStep BY <1>2 DEF ProcessesStep, ProcessesOnly
<1>3. CASE ScriptsStep BY <1>3 DEF ScriptsStep
<1>4. CASE FilesStep BY <1>4 DEF FilesStep, FilesOnly
<1>5. CASE ServicesStep BY <1>5 DEF ServicesStep, ServicesOnly
<1>6. CASE DaemonEnds BY <1>6 DEF DaemonEnds
<1>7. CASE UNCHANGED vars BY <1>7 DEF vars
<1> QED BY <1>1, <1>2, <1>3, <1>4, <1>5, <1>6, <1>7 DEF Next

(* The step of a request is one its kind has, at a directory there is; a   *)
(* missing directory has no copy, and none is written into it.             *)
Placed ==
  /\ \A q \in Requests :
       /\ pc[q] = "idle" => at[q] = 1 /\ pass[q] = 1
       /\ pc[q] \in {"open", "fill"} => op[q] = "save"
       /\ pc[q] = "remove" => op[q] = "delete"
       /\ pc[q] \notin {"idle", "look"} => at[q] \in Dirs
       /\ pass[q] = 2 => op[q] = "save"
       /\ pc[q] = "fill" => dir[at[q]] # "absent"
  /\ \A d \in Dirs : dir[d] = "absent" => copy[d] = NoCopy

CopiesTypeOK ==
  /\ dir \in [Dirs -> {"open", "closed", "absent"}]
  /\ copy \in [Dirs -> Requests \cup {Old, Half, NoCopy}]
  /\ mode \in [Dirs -> {"ours", "foreign"}]
  /\ saved \in Requests \cup {NoCopy}
RequestsTypeOK ==
  /\ op \in [Requests -> Ops] /\ at \in [Requests -> 1..NumDirs + 1] /\ pass \in [Requests -> 1..2]
  /\ pc \in [Requests -> {"idle", "look", "open", "fill", "remove", "exec", "running"}]

PlacedInv == CopiesTypeOK /\ RequestsTypeOK /\ Placed

LEMMA PlacedHolds == Spec => []PlacedInv
<1> USE ScriptsAssumption DEF PlacedInv
<1>1. Init => PlacedInv
  <2> SUFFICES ASSUME Init PROVE PlacedInv OBVIOUS
  <2> USE DEF Init, ScriptsInit
  <2>1. CopiesTypeOK BY DEF CopiesTypeOK
  <2>2. RequestsTypeOK BY DEF RequestsTypeOK, Ops
  <2>3. Placed BY DEF Placed
  <2> QED BY <2>1, <2>2, <2>3
<1>2. PlacedInv /\ [Next]_vars => PlacedInv'
  <2> SUFFICES ASSUME PlacedInv, [Next]_vars PROVE PlacedInv' OBVIOUS
  <2>1. ASSUME NEW q \in Requests, Ask(q) PROVE PlacedInv'
    <3> USE <2>1 DEF Ask, Step
    <3>1. CopiesTypeOK' BY DEF CopiesTypeOK
    <3>2. RequestsTypeOK' BY DEF RequestsTypeOK
    <3>3. Placed' BY DEF Placed, RequestsTypeOK
    <3> QED BY <3>1, <3>2, <3>3
  <2>2. ASSUME NEW q \in Requests, Look(q) PROVE PlacedInv'
    <3> USE <2>2 DEF Look, Kept
    <3>1. CopiesTypeOK' BY DEF CopiesTypeOK
    <3>2. CASE NextDir(q)
      BY <3>1, <3>2 DEF NextDir, Advance, Step, RequestsTypeOK, Placed
    <3>3. CASE Return(q)
      BY <3>1, <3>3 DEF Return, Step, RequestsTypeOK, Ops, Placed
    <3>4. CASE copy[at[q]] # NoCopy /\ Found[op[q]] # "idle" /\ Goto(q, Found[op[q]])
      <4>1. \/ op[q] = "save" /\ Found[op[q]] = "open"
            \/ op[q] = "delete" /\ Found[op[q]] = "remove"
            \/ op[q] = "run" /\ Found[op[q]] = "exec"
        BY <3>4 DEF RequestsTypeOK, Ops, Found
      <4> QED BY <3>1, <3>4, <4>1 DEF Goto, Step, RequestsTypeOK, Placed, Dirs
    <3> QED BY <3>2, <3>3, <3>4
  <2>3. ASSUME NEW q \in Requests, MakeDir(q) PROVE PlacedInv'
    <3> USE <2>3 DEF MakeDir
    <3>1. CopiesTypeOK' BY DEF CopiesTypeOK
    <3>2. RequestsTypeOK' BY DEF RequestsTypeOK, NextDir, Advance, Goto, Step
    <3>3. Placed' BY DEF Placed, CopiesTypeOK, RequestsTypeOK, NextDir, Advance, Goto, Step, Dirs
    <3> QED BY <3>1, <3>2, <3>3
  <2>4. ASSUME NEW q \in Requests, NoDirLeft(q) PROVE PlacedInv'
    <3> USE <2>4 DEF NoDirLeft
    <3>1. CopiesTypeOK' BY DEF CopiesTypeOK
    <3>2. RequestsTypeOK' BY DEF RequestsTypeOK, Return, Step, Ops
    <3>3. Placed' BY DEF Placed, RequestsTypeOK, Return, Step
    <3> QED BY <3>1, <3>2, <3>3
  <2>5. ASSUME NEW q \in Requests, Open(q) PROVE PlacedInv'
    <3> USE <2>5 DEF Open
    <3>1. CASE Opened(q) /\ Writable(at[q])
      <4>1. CopiesTypeOK' BY <3>1 DEF CopiesTypeOK, Opened
      <4>2. RequestsTypeOK' BY <3>1 DEF RequestsTypeOK, Opened, Step
      <4>3. Placed' BY <3>1 DEF Placed, CopiesTypeOK, RequestsTypeOK, Opened, Writable, Step
      <4> QED BY <4>1, <4>2, <4>3
    <3>2. CASE NextDir(q) /\ UNCHANGED <<copy, mode, removed>>
      <4>1. CopiesTypeOK' BY <3>2 DEF CopiesTypeOK
      <4>2. RequestsTypeOK' BY <3>2 DEF RequestsTypeOK, Placed, NextDir, Advance, Step, Dirs
      <4>3. Placed' BY <3>2 DEF Placed, RequestsTypeOK, NextDir, Advance, Step
      <4> QED BY <4>1, <4>2, <4>3
    <3> QED BY <3>1, <3>2
  <2>6. ASSUME NEW q \in Requests, Fill(q) PROVE PlacedInv'
    <3> USE <2>6 DEF Fill
    <3>0. at[q] \in Dirs /\ dir[at[q]] # "absent" /\ op[q] = "save" BY DEF Placed
    <3>1. CopiesTypeOK' BY DEF CopiesTypeOK
    <3>2. RequestsTypeOK' BY <3>0 DEF RequestsTypeOK, Return, NextDir, Advance, Step, Ops, Dirs
    <3>3. \A d \in Dirs : dir'[d] = "absent" => copy'[d] = NoCopy
      BY <3>0 DEF Placed, CopiesTypeOK
    <3>4. CASE Return(q)
      BY <3>1, <3>2, <3>3, <3>4 DEF Placed, RequestsTypeOK, Return, Step
    <3>5. CASE NextDir(q)
      BY <3>1, <3>2, <3>3, <3>5 DEF Placed, RequestsTypeOK, NextDir, Advance, Step
    <3> QED BY <3>4, <3>5
  <2>7. ASSUME NEW q \in Requests, Remove(q) PROVE PlacedInv'
    <3> USE <2>7 DEF Remove
    <3>0. at[q] \in Dirs BY DEF Placed
    <3>1. CopiesTypeOK' BY DEF CopiesTypeOK, Unlinked
    <3>2. Advance(q) /\ UNCHANGED <<op, pass, dir>> BY DEF NextDir
    <3>3. RequestsTypeOK' BY <3>0, <3>2 DEF RequestsTypeOK, Advance, Step, Dirs
    <3>4. \A d \in Dirs : dir'[d] = "absent" => copy'[d] = NoCopy
      BY <3>0 DEF Placed, CopiesTypeOK, Unlinked
    <3>5. Placed' BY <3>2, <3>4 DEF Placed, RequestsTypeOK, Advance, Step
    <3> QED BY <3>1, <3>3, <3>5
  <2>8. ASSUME NEW q \in Requests, Exec(q) \/ ScriptEnds(q) PROVE PlacedInv'
    <3>1. Kept BY <2>8 DEF Exec, ScriptEnds
    <3>2. CASE Return(q)
      BY <3>1, <3>2 DEF Kept, Return, Step, CopiesTypeOK, RequestsTypeOK, Ops, Placed
    <3>3. CASE pc[q] = "exec" /\ Goto(q, "running")
      BY <3>1, <3>3 DEF Kept, Goto, Step, CopiesTypeOK, RequestsTypeOK, Placed
    <3> QED BY <2>8, <3>2, <3>3 DEF Exec, ScriptEnds
  <2>9. CASE ScriptsCut
    BY <2>9 DEF ScriptsCut, CopiesTypeOK, RequestsTypeOK, Ops, Placed
  <2>10. CASE UNCHANGED scriptVars
    BY <2>10 DEF scriptVars, requests, CopiesTypeOK, RequestsTypeOK, Placed
  <2> QED BY ScriptSteps, <2>1, <2>2, <2>3, <2>4, <2>5, <2>6, <2>7, <2>8, <2>9, <2>10 DEF ScriptRequest
<1> QED BY <1>1, <1>2, PTL DEF Spec

(* A delete beside which no save has run has left nothing behind that it   *)
(* could have removed, and no save is writing; neither is one while        *)
(* nothing was saved since a confirmed delete.                             *)
Behind(q) == \A d \in Dirs : d < at[q] => copy[d] = NoCopy \/ dir[d] # "open"
Alone ==
  /\ alone \subseteq Requests
  /\ \A q \in alone : op[q] = "delete" /\ pc[q] # "idle" /\ Behind(q)
  /\ alone # {} \/ removed => \A q \in Requests : pc[q] # "fill"

LEMMA DeletedHolds == Spec => [](Alone /\ DeletedIsGone)
<1> USE ScriptsAssumption DEF Behind
<1>1. Init => Alone /\ DeletedIsGone
  BY DEF Init, ScriptsInit, Alone, DeletedIsGone
<1>2. PlacedInv /\ PlacedInv' /\ Alone /\ DeletedIsGone /\ [Next]_vars => Alone' /\ DeletedIsGone'
  <2> SUFFICES ASSUME PlacedInv, PlacedInv', Alone, DeletedIsGone, [Next]_vars
               PROVE  Alone' /\ DeletedIsGone'
    OBVIOUS
  <2> USE DEF PlacedInv, CopiesTypeOK, RequestsTypeOK
  <2>1. ASSUME NEW q \in Requests, Ask(q) PROVE Alone' /\ DeletedIsGone'
    <3>1. pc[q] = "idle" /\ pc' = [pc EXCEPT ![q] = "look"] /\ UNCHANGED <<at, copy, dir, removed>> /\ at[q] = 1
      BY <2>1 DEF Ask, Step, Placed
    <3>2. q \notin alone BY <3>1 DEF Alone
    <3>3. \A r \in Requests : r # q => op'[r] = op[r] BY <2>1 DEF Ask
    <3>4. CASE alone' = alone BY <3>1, <3>2, <3>3, <3>4 DEF Alone, DeletedIsGone
    <3>5. CASE op'[q] = "delete" /\ (\A r \in Requests : ~Saving(r)) /\ alone' = alone \cup {q}
      <4>1. \A r \in Requests : pc[r] # "fill" BY <3>5 DEF Saving, Placed
      <4> QED BY <3>1, <3>2, <3>3, <3>5, <4>1 DEF Alone, DeletedIsGone, Dirs
    <3> QED BY <2>1, <3>4, <3>5 DEF Ask
  <2>2. ASSUME NEW q \in Requests, Look(q) PROVE Alone' /\ DeletedIsGone'
    <3>1. UNCHANGED <<dir, copy, removed>> /\ at[q] \in Dirs BY <2>2 DEF Look, Kept, Dirs
    <3>2. CASE copy[at[q]] = NoCopy /\ NextDir(q)
      BY <3>1, <3>2 DEF NextDir, Advance, Step, Alone, DeletedIsGone, Dirs
    <3>3. CASE Return(q) BY <3>1, <3>3 DEF Return, Step, Alone, DeletedIsGone
    <3>4. CASE Goto(q, Found[op[q]]) /\ Found[op[q]] \notin {"idle", "fill"}
      BY <3>1, <3>4 DEF Goto, Step, Alone, DeletedIsGone
    <3>5. Found[op[q]] # "fill" BY DEF Found, Ops
    <3> QED BY <2>2, <3>2, <3>3, <3>4, <3>5 DEF Look
  <2>3. ASSUME NEW q \in Requests, MakeDir(q) PROVE Alone' /\ DeletedIsGone'
    <3>1. op[q] = "save" /\ UNCHANGED <<op, alone, copy, removed>> /\ pc[q] = "look"
      BY <2>3 DEF MakeDir, Placed, NextDir, Advance, Goto
    <3>2. \A d \in Dirs : dir'[d] # dir[d] => copy[d] = NoCopy BY <2>3 DEF MakeDir, Placed
    <3>3. \A r \in Requests : r # q => at'[r] = at[r] /\ pc'[r] = pc[r]
      BY <2>3 DEF MakeDir, NextDir, Advance, Goto, Step
    <3>4. pc'[q] # "fill" BY <2>3 DEF MakeDir, NextDir, Advance, Goto, Step
    <3> QED BY <3>1, <3>2, <3>3, <3>4 DEF Alone, DeletedIsGone
  <2>4. ASSUME NEW q \in Requests, NoDirLeft(q) PROVE Alone' /\ DeletedIsGone'
    <3>1. UNCHANGED <<dir, copy>> /\ at[q] > NumDirs BY <2>4 DEF NoDirLeft
    <3>2. CASE op[q] = "save" /\ pass[q] = 1
      BY <2>4, <3>1, <3>2 DEF NoDirLeft, Alone, DeletedIsGone
    <3>3. CASE Return(q) /\ removed' = IF q \in hit THEN q \in alone ELSE removed
      <4>0. alone' = alone \ {q} /\ \A r \in Requests : r # q => op'[r] = op[r] /\ pc'[r] = pc[r] /\ at'[r] = at[r]
        BY <3>3 DEF Return, Step
      <4>1. Alone'
        <5>1. alone' # {} \/ removed' => alone # {} \/ removed BY <3>3, <4>0
        <5>2. pc'[q] = "idle" BY <3>3 DEF Return, Step
        <5>3. \A r \in alone' : op'[r] = "delete" /\ pc'[r] # "idle" /\ Behind(r)'
          BY <3>1, <4>0 DEF Alone
        <5>4. alone' # {} \/ removed' => \A r \in Requests : pc'[r] # "fill"
          BY <4>0, <5>1, <5>2 DEF Alone
        <5> QED BY <4>0, <5>3, <5>4 DEF Alone
      <4>2. q \in alone => \A d \in Dirs : copy[d] = NoCopy \/ dir[d] # "open"
        BY <3>1 DEF Alone, Dirs
      <4>3. DeletedIsGone' BY <3>1, <3>3, <4>2 DEF DeletedIsGone
      <4> QED BY <4>1, <4>3
    <3> QED BY <2>4, <3>2, <3>3 DEF NoDirLeft
  <2>5. ASSUME NEW q \in Requests, Open(q) PROVE Alone' /\ DeletedIsGone'
    <3>1. CASE Opened(q) BY <3>1 DEF Opened, Alone, DeletedIsGone
    <3>2. CASE NextDir(q) /\ UNCHANGED <<copy, mode, removed>>
      <4>1. UNCHANGED <<dir, op, alone>> /\ op[q] = "save" /\ pc[q] = "open"
        BY <2>5, <3>2 DEF Open, NextDir, Placed
      <4> QED BY <3>2, <4>1 DEF NextDir, Advance, Step, Alone, DeletedIsGone
    <3> QED BY <2>5, <3>1, <3>2 DEF Open
  <2>6. ASSUME NEW q \in Requests, Fill(q) PROVE Alone' /\ DeletedIsGone'
    <3>1. alone = {} /\ ~removed BY <2>6 DEF Fill, Alone
    <3>2. alone' = {} /\ ~removed' BY <2>6, <3>1 DEF Fill, Return, NextDir
    <3> QED BY <3>2 DEF Alone, DeletedIsGone
  <2>7. ASSUME NEW q \in Requests, Remove(q) PROVE Alone' /\ DeletedIsGone'
    <3>1. Advance(q) /\ UNCHANGED <<dir, op, alone, removed>> /\ at[q] \in Dirs /\ pc[q] = "remove"
      BY <2>7 DEF Remove, NextDir, Placed
    <3>2. \A d \in Dirs : copy'[d] \in {copy[d], NoCopy} BY <2>7 DEF Remove, Unlinked
    <3>3. copy'[at[q]] = NoCopy \/ dir[at[q]] # "open" BY <2>7, <3>1 DEF Remove, Unlinked, Removable
    <3>4. DeletedIsGone' BY <3>1, <3>2 DEF DeletedIsGone
    <3>5. Alone' BY <3>1, <3>2, <3>3 DEF Alone, Advance, Step, Dirs
    <3> QED BY <3>4, <3>5
  <2>8. ASSUME NEW q \in Requests, Exec(q) \/ ScriptEnds(q) PROVE Alone' /\ DeletedIsGone'
    <3>1. UNCHANGED <<dir, copy, removed>> BY <2>8 DEF Exec, ScriptEnds, Kept
    <3>2. CASE Return(q) BY <3>1, <3>2 DEF Return, Step, Alone, DeletedIsGone
    <3>3. CASE Goto(q, "running") BY <3>1, <3>3 DEF Goto, Step, Alone, DeletedIsGone
    <3> QED BY <2>8, <3>2, <3>3 DEF Exec, ScriptEnds
  <2>9. CASE ScriptsCut BY <2>9 DEF ScriptsCut, Alone, DeletedIsGone
  <2>10. CASE UNCHANGED scriptVars BY <2>10 DEF scriptVars, requests, Alone, DeletedIsGone
  <2> QED BY ScriptSteps, <2>1, <2>2, <2>3, <2>4, <2>5, <2>6, <2>7, <2>8, <2>9, <2>10 DEF ScriptRequest
<1> QED BY <1>1, <1>2, PlacedHolds, PTL DEF Spec

(* For any directories and requests.                                       *)
THEOREM DeletedScriptsAreGone == Spec => []DeletedIsGone
BY DeletedHolds, PTL

(* A save has passed only copies it may not write, and all of them when it *)
(* begins again; at most one save is under way.                            *)
Closed(d) == copy[d] = NoCopy \/ mode[d] # "ours"
Passed(q) == \A d \in Dirs : d < at[q] \/ (pass[q] = 2 /\ pc[q] # "fill") => Closed(d)
OneSave == \A q, r \in Requests : Saving(q) /\ Saving(r) => q = r
SavePassed == \A q \in Requests : Saving(q) => Passed(q)
Leads == \E d \in Dirs : copy[d] = saved /\ \A e \in 1..d - 1 : Closed(e)
SavedLeads == saved # NoCopy /\ (\A q \in Requests : pc[q] # "fill") => Leads
SavesInv == sound => OneSave /\ SavePassed /\ SavedLeads

(* A step that is no save's and leaves the copies alone.                   *)
LEMMA SavesUntouched ==
  ASSUME SavesInv, UNCHANGED <<copy, mode, saved>>, sound' => sound, NEW q \in Requests,
         \A r \in Requests \ {q} : op'[r] = op[r] /\ at'[r] = at[r] /\ pass'[r] = pass[r] /\ pc'[r] = pc[r],
         (op'[q] # "save" \/ pc'[q] = "idle"), pc[q] # "fill"
  PROVE  SavesInv'
<1> SUFFICES ASSUME sound' PROVE OneSave' /\ SavePassed' /\ SavedLeads'
  BY DEF SavesInv
<1>1. OneSave /\ SavePassed /\ SavedLeads BY DEF SavesInv
<1>2. OneSave' BY <1>1 DEF OneSave, Saving
<1>3. SavePassed' BY <1>1 DEF SavePassed, Saving, Passed, Closed
<1>4. SavedLeads'
  <2>1. (\A r \in Requests : pc'[r] # "fill") => \A r \in Requests : pc[r] # "fill" OBVIOUS
  <2> QED BY <1>1, <2>1 DEF SavedLeads, Leads, Closed
<1> QED BY <1>2, <1>3, <1>4

(* A step of the one save that writes nothing.                             *)
LEMMA SaveGoesOn ==
  ASSUME SavesInv, UNCHANGED <<copy, mode, saved>>, sound' => sound, NEW q \in Requests,
         \A r \in Requests \ {q} : op'[r] = op[r] /\ at'[r] = at[r] /\ pass'[r] = pass[r] /\ pc'[r] = pc[r],
         Saving(q), pc[q] # "fill", sound' => Passed(q)'
  PROVE  SavesInv'
<1> SUFFICES ASSUME sound' PROVE OneSave' /\ SavePassed' /\ SavedLeads'
  BY DEF SavesInv
<1>1. OneSave /\ SavePassed /\ SavedLeads BY DEF SavesInv
<1>2. \A r \in Requests : Saving(r)' => r = q
  BY <1>1 DEF OneSave, Saving
<1>3. OneSave' /\ SavePassed' BY <1>2 DEF OneSave, SavePassed
<1>4. SavedLeads'
  <2>1. (\A r \in Requests : pc'[r] # "fill") => \A r \in Requests : pc[r] # "fill" OBVIOUS
  <2> QED BY <1>1, <2>1 DEF SavedLeads, Leads, Closed
<1> QED BY <1>3, <1>4

LEMMA SavesHold == Spec => []SavesInv
<1> USE ScriptsAssumption
<1>1. Init => SavesInv
  BY DEF Init, ScriptsInit, SavesInv, OneSave, SavePassed, SavedLeads, Saving
<1>2. PlacedInv /\ PlacedInv' /\ SavesInv /\ [Next]_vars => SavesInv'
  <2> SUFFICES ASSUME PlacedInv, PlacedInv', SavesInv, [Next]_vars PROVE SavesInv' OBVIOUS
  <2> USE DEF PlacedInv, CopiesTypeOK, RequestsTypeOK
  <2>1. ASSUME NEW q \in Requests, Ask(q) PROVE SavesInv'
    <3>a. /\ pc[q] = "idle" /\ pc'[q] = "look" /\ UNCHANGED <<copy, mode, saved, at, pass>>
          /\ \A r \in Requests \ {q} : op'[r] = op[r] /\ pc'[r] = pc[r]
      BY <2>1 DEF Ask, Step
    <3>b. sound' => sound /\ ~(op'[q] = "save" /\ \E r \in Requests : Saving(r))
      BY <2>1 DEF Ask
    <3>c. at[q] = 1 /\ pass[q] = 1
      BY <3>a DEF Placed
    <3>0. /\ pc[q] = "idle" /\ pc'[q] = "look" /\ UNCHANGED <<copy, mode, saved>> /\ at'[q] = 1 /\ pass'[q] = 1
          /\ \A r \in Requests \ {q} : op'[r] = op[r] /\ at'[r] = at[r] /\ pass'[r] = pass[r] /\ pc'[r] = pc[r]
          /\ sound' => sound /\ ~(op'[q] = "save" /\ \E r \in Requests : Saving(r))
      BY <3>a, <3>b, <3>c
    <3>1. CASE op'[q] # "save" BY <3>0, <3>1, SavesUntouched
    <3>2. CASE op'[q] = "save"
      <4> SUFFICES ASSUME sound' PROVE OneSave' /\ SavePassed' /\ SavedLeads'
        BY DEF SavesInv
      <4>1. OneSave /\ SavePassed /\ SavedLeads BY <3>0 DEF SavesInv
      <4>2. \A r \in Requests : Saving(r)' => r = q BY <3>0, <3>2 DEF Saving
      <4>3. Passed(q)' BY <3>0 DEF Passed, Dirs
      <4>4. OneSave' /\ SavePassed' BY <4>2, <4>3 DEF OneSave, SavePassed
      <4>5. (\A r \in Requests : pc'[r] # "fill") => \A r \in Requests : pc[r] # "fill" BY <3>0
      <4>6. SavedLeads' BY <3>0, <4>1, <4>5 DEF SavedLeads, Leads, Closed
      <4> QED BY <4>4, <4>6
    <3> QED BY <3>1, <3>2
  <2>2. ASSUME NEW q \in Requests, Look(q) PROVE SavesInv'
    <3>0. /\ UNCHANGED <<copy, mode, saved, sound>> /\ pc[q] = "look" /\ at[q] \in Dirs /\ pass[q] = 1
          /\ \A r \in Requests \ {q} : op'[r] = op[r] /\ at'[r] = at[r] /\ pass'[r] = pass[r] /\ pc'[r] = pc[r]
      BY <2>2 DEF Look, Kept, NextDir, Advance, Return, Goto, Step, Dirs
    <3>1. CASE op'[q] # "save" \/ pc'[q] = "idle" BY <3>0, <3>1, SavesUntouched
    <3>2. CASE op'[q] = "save" /\ pc'[q] # "idle"
      <4>1. op[q] = "save" /\ pass'[q] = 1 BY <2>2, <3>0, <3>2 DEF Look, NextDir, Return, Step, Goto
      <4>2. Saving(q) BY <3>0, <4>1 DEF Saving
      <4>3. at'[q] = at[q] \/ (at'[q] = at[q] + 1 /\ copy[at[q]] = NoCopy)
        BY <2>2, <3>2 DEF Look, NextDir, Advance, Goto, Return, Step
      <4>4. sound' => Passed(q)' BY <3>0, <4>1, <4>2, <4>3 DEF SavesInv, SavePassed, Passed, Closed, Dirs
      <4> QED BY <3>0, <4>2, <4>4, SaveGoesOn
    <3> QED BY <3>1, <3>2
  <2>3. ASSUME NEW q \in Requests, MakeDir(q) PROVE SavesInv'
    <3>0. /\ UNCHANGED <<copy, mode, saved, sound>> /\ pc[q] = "look" /\ pass[q] = 2 /\ op[q] = "save"
          /\ \A r \in Requests \ {q} : op'[r] = op[r] /\ at'[r] = at[r] /\ pass'[r] = pass[r] /\ pc'[r] = pc[r]
      BY <2>3 DEF MakeDir, NextDir, Advance, Goto, Step, Placed
    <3>1. Saving(q) BY <3>0 DEF Saving
    <3>2. sound' => Passed(q)' BY <3>0, <3>1 DEF SavesInv, SavePassed, Passed, Closed
    <3> QED BY <3>0, <3>1, <3>2, SaveGoesOn
  <2>4. ASSUME NEW q \in Requests, NoDirLeft(q) PROVE SavesInv'
    <3>0. /\ UNCHANGED <<copy, mode, saved, sound>> /\ pc[q] = "look" /\ at[q] > NumDirs
          /\ \A r \in Requests \ {q} : op'[r] = op[r] /\ at'[r] = at[r] /\ pass'[r] = pass[r] /\ pc'[r] = pc[r]
      BY <2>4 DEF NoDirLeft, Return, Step
    <3>1. CASE pc'[q] = "idle" BY <3>0, <3>1, SavesUntouched
    <3>2. CASE pc'[q] # "idle"
      <4>1. op[q] = "save" BY <2>4, <3>2 DEF NoDirLeft, Return, Step
      <4>2. Saving(q) BY <3>0, <4>1 DEF Saving
      <4>3. sound' => Passed(q)' BY <3>0, <4>2 DEF SavesInv, SavePassed, Passed, Closed, Dirs
      <4> QED BY <3>0, <4>2, <4>3, SaveGoesOn
    <3> QED BY <3>1, <3>2
  <2>5. ASSUME NEW q \in Requests, Open(q) PROVE SavesInv'
    <3>0. /\ UNCHANGED <<saved, sound, op, pass>> /\ pc[q] = "open" /\ op[q] = "save" /\ at[q] \in Dirs
          /\ \A r \in Requests \ {q} : at'[r] = at[r] /\ pc'[r] = pc[r]
      BY <2>5 DEF Open, Opened, NextDir, Advance, Step, Placed
    <3>1. Saving(q) BY <3>0 DEF Saving
    <3>2. CASE Opened(q)
      <4> SUFFICES ASSUME sound' PROVE OneSave' /\ SavePassed' /\ SavedLeads'
        BY DEF SavesInv
      <4>1. OneSave /\ SavePassed BY <3>0 DEF SavesInv
      <4>2. pc'[q] = "fill" /\ at'[q] = at[q] BY <3>2 DEF Opened, Step
      <4>3. \A r \in Requests : Saving(r)' => r = q BY <3>0, <3>1, <4>1 DEF OneSave, Saving
      <4>4. \A d \in Dirs : d < at[q] => copy'[d] = copy[d] /\ mode'[d] = mode[d]
        BY <3>0, <3>2 DEF Opened, Dirs
      <4>5. Passed(q)' BY <3>0, <3>1, <4>1, <4>2, <4>4 DEF SavePassed, Passed, Closed
      <4>6. SavedLeads' BY <4>2 DEF SavedLeads
      <4> QED BY <4>3, <4>5, <4>6 DEF OneSave, SavePassed
    <3>3. CASE ~Writable(at[q]) /\ NextDir(q) /\ UNCHANGED <<copy, mode, removed>>
      <4>1. at'[q] = at[q] + 1 /\ pc'[q] = "look" BY <3>3 DEF NextDir, Advance, Step
      <4>2. Closed(at[q]) BY <3>3 DEF Writable, Closed
      <4>3. sound' => Passed(q)'
        BY <3>0, <3>1, <3>3, <4>1, <4>2 DEF SavesInv, SavePassed, Passed, Closed, Dirs
      <4> QED BY <3>0, <3>1, <3>3, <4>3, SaveGoesOn
    <3> QED BY <2>5, <3>2, <3>3 DEF Open
  <2>6. ASSUME NEW q \in Requests, Fill(q) PROVE SavesInv'
    <3> SUFFICES ASSUME sound' PROVE OneSave' /\ SavePassed' /\ SavedLeads'
      BY DEF SavesInv
    <3>0. Return(q) /\ sound /\ UNCHANGED mode /\ pc[q] = "fill" /\ op[q] = "save" /\ at[q] \in Dirs
      BY <2>6 DEF Fill, Placed
    <3>1. OneSave /\ SavePassed BY <3>0 DEF SavesInv
    <3>2. \A r \in Requests : ~Saving(r)'
      BY <3>0, <3>1 DEF OneSave, Saving, Return, Step
    <3>3. CASE saved' = NoCopy BY <3>2, <3>3 DEF OneSave, SavePassed, SavedLeads
    <3>4. CASE saved' = q /\ copy' = [copy EXCEPT ![at[q]] = q]
      <4>1. copy'[at[q]] = saved' BY <3>0, <3>4
      <4>2. \A e \in 1..at[q] - 1 : e \in Dirs /\ e < at[q] BY <3>0 DEF Dirs
      <4>3. \A e \in 1..at[q] - 1 : Closed(e)
        BY <3>0, <3>1, <4>2 DEF SavePassed, Saving, Passed
      <4>4. \A e \in 1..at[q] - 1 : Closed(e)' BY <3>0, <3>4, <4>2, <4>3 DEF Closed
      <4>5. Leads' BY <3>0, <4>1, <4>4 DEF Leads, Dirs
      <4> QED BY <3>2, <4>5 DEF OneSave, SavePassed, SavedLeads
    <3>5. saved' = NoCopy \/ (saved' = q /\ copy' = [copy EXCEPT ![at[q]] = q])
      BY <2>6, <3>0 DEF Fill
    <3> QED BY <3>3, <3>4, <3>5
  <2>7. ASSUME NEW q \in Requests, Remove(q) PROVE SavesInv'
    <3>0. /\ op[q] = "delete" /\ pc[q] = "remove" /\ pc'[q] = "look" /\ UNCHANGED <<op, pass, sound>>
          /\ \A r \in Requests \ {q} : at'[r] = at[r] /\ pc'[r] = pc[r]
      BY <2>7 DEF Remove, NextDir, Advance, Step, Placed
    <3>1. CASE Unlinked(q)
      <4> SUFFICES ASSUME sound' PROVE OneSave' /\ SavePassed' /\ SavedLeads'
        BY DEF SavesInv
      <4>1. OneSave /\ SavePassed BY <3>0 DEF SavesInv
      <4>2. \A d \in Dirs : Closed(d) => Closed(d)' BY <3>1 DEF Unlinked, Closed
      <4>3. \A r \in Requests : Saving(r)' => Saving(r) /\ r # q BY <3>0 DEF Saving
      <4>4. OneSave' BY <4>1, <4>3 DEF OneSave
      <4>5. SavePassed' BY <3>0, <4>1, <4>2, <4>3 DEF SavePassed, Passed
      <4>6. SavedLeads' BY <3>1 DEF Unlinked, SavedLeads
      <4> QED BY <4>4, <4>5, <4>6
    <3>2. CASE UNCHANGED <<copy, mode, saved>> BY <3>0, <3>2, SavesUntouched
    <3> QED BY <2>7, <3>1, <3>2 DEF Remove
  <2>8. ASSUME NEW q \in Requests, Exec(q) \/ ScriptEnds(q) PROVE SavesInv'
    <3>0. /\ UNCHANGED <<copy, mode, saved, sound>> /\ pc[q] \in {"exec", "running"}
          /\ \A r \in Requests \ {q} : op'[r] = op[r] /\ at'[r] = at[r] /\ pass'[r] = pass[r] /\ pc'[r] = pc[r]
      BY <2>8 DEF Exec, ScriptEnds, Kept, Goto, Return, Step
    <3>1. CASE pc'[q] = "idle" BY <3>0, <3>1, SavesUntouched
    <3>2. CASE pc'[q] # "idle"
      <4>1. pc'[q] = "running" /\ op' = op /\ pass' = pass /\ at' = at
        BY <2>8, <3>2 DEF Exec, ScriptEnds, Goto, Return, Step
      <4>2. CASE op[q] # "save" BY <3>0, <4>1, <4>2, SavesUntouched
      <4>3. CASE op[q] = "save"
        <5>1. Saving(q) BY <3>0, <4>3 DEF Saving
        <5>2. sound' => Passed(q)' BY <3>0, <4>1, <5>1 DEF SavesInv, SavePassed, Passed, Closed
        <5> QED BY <3>0, <5>1, <5>2, SaveGoesOn
      <4> QED BY <4>2, <4>3
    <3> QED BY <3>1, <3>2
  <2>9. CASE ScriptsCut
    <3> SUFFICES ASSUME sound' PROVE OneSave' /\ SavePassed' /\ SavedLeads'
      BY DEF SavesInv
    <3>1. sound /\ (\A q \in Requests : pc[q] # "fill") /\ UNCHANGED <<copy, mode, saved>>
      BY <2>9 DEF ScriptsCut
    <3>2. \A r \in Requests : ~Saving(r)' BY <2>9 DEF ScriptsCut, Saving
    <3>3. SavedLeads' BY <3>1 DEF SavesInv, SavedLeads, Leads, Closed
    <3> QED BY <3>2, <3>3 DEF OneSave, SavePassed
  <2>10. CASE UNCHANGED scriptVars
    BY <2>10 DEF scriptVars, requests, SavesInv, OneSave, SavePassed, SavedLeads, Saving, Passed, Leads, Closed
  <2> QED BY ScriptSteps, <2>1, <2>2, <2>3, <2>4, <2>5, <2>6, <2>7, <2>8, <2>9, <2>10 DEF ScriptRequest
<1> QED BY <1>1, <1>2, PlacedHolds, PTL DEF Spec

(* For any directories and requests.                                       *)
THEOREM ScriptsRunAsSaved == Spec => []RunsWhatWasSaved
<1>1. SavesInv => RunsWhatWasSaved
  BY DEF SavesInv, SavedLeads, Leads, Closed, RunsWhatWasSaved
<1> QED BY <1>1, SavesHold, PTL

--------------------------------------------------------------------------------
(* The shares of the processor. *)

CpuTypeOK ==
  /\ busy \in [Rows -> Nat] /\ idle \in [Rows -> Nat]
  /\ lastBusy \in [Rows -> Nat] /\ lastIdle \in [Rows -> Nat]
  /\ ran \in [Rows -> Nat] /\ passed \in [Rows -> Nat]
  /\ online \subseteq Cores /\ lastOnline \subseteq Cores

(* The counters of a row are those of the last pass and what has happened  *)
(* since.                                                                  *)
Since ==
  \A r \in Rows :
    /\ busy[r] = lastBusy[r] + ran[r] /\ ran[r] <= passed[r]
    /\ ~stepped => busy[r] + idle[r] = lastBusy[r] + lastIdle[r] + passed[r]
Bounded == \A r \in Rows : passed[r] <= 2 * MaxCount /\ busy[r] + idle[r] <= 2 * MaxCount

CpuInv == CpuTypeOK /\ Since /\ Bounded

LEMMA CpuInvHolds == Spec => []CpuInv
<1> USE MonitorAssumption DEF CpuInv, CpuTypeOK, Since, Bounded, Rows
<1>1. Init => CpuInv BY DEF Init, MonitorInit
<1>2. CpuInv /\ [Next]_vars => CpuInv'
  <2> SUFFICES ASSUME CpuInv, [Next]_vars PROVE CpuInv' OBVIOUS
  <2>1. CASE UNCHANGED cpuVars BY <2>1 DEF cpuVars
  <2>2. ASSUME NEW c \in Cores, CpuTicks(c) PROVE CpuInv'
    <3>1. c \in Rows /\ c # 0 /\ \A r \in {0, c} : passed[r] < MaxCount /\ busy[r] + idle[r] < 2 * MaxCount
      BY <2>2 DEF CpuTicks
    <3>2. UNCHANGED <<online, lastBusy, lastIdle, lastOnline, stepped>>
      BY <2>2 DEF CpuTicks
    <3>3. passed' = [passed EXCEPT ![0] = @ + 1, ![c] = @ + 1] BY <2>2 DEF CpuTicks
    <3>4. CASE busy' = [busy EXCEPT ![0] = @ + 1, ![c] = @ + 1] /\ ran' = [ran EXCEPT ![0] = @ + 1, ![c] = @ + 1] /\ idle' = idle
      <4>1. CpuTypeOK' BY <3>2, <3>3, <3>4
      <4>2. Since' BY <3>1, <3>2, <3>3, <3>4
      <4>3. Bounded' BY <3>1, <3>2, <3>3, <3>4
      <4> QED BY <4>1, <4>2, <4>3
    <3>5. CASE idle' = [idle EXCEPT ![0] = @ + 1, ![c] = @ + 1] /\ busy' = busy /\ ran' = ran
      <4>1. CpuTypeOK' BY <3>2, <3>3, <3>5
      <4>2. Since' BY <3>1, <3>2, <3>3, <3>5
      <4>3. Bounded' BY <3>1, <3>2, <3>3, <3>5
      <4> QED BY <4>1, <4>2, <4>3
    <3> QED BY <2>2, <3>4, <3>5 DEF CpuTicks
  <2>3. ASSUME NEW c \in Cores, IdleStepsBack(c) PROVE CpuInv'
    <3>1. c \in Rows /\ c # 0 /\ idle[c] > 0 /\ idle[0] > 0 BY <2>3 DEF IdleStepsBack
    <3>2. idle' = [idle EXCEPT ![0] = @ - 1, ![c] = @ - 1] /\ stepped'
      BY <2>3 DEF IdleStepsBack
    <3>3. UNCHANGED <<busy, online, lastBusy, lastIdle, lastOnline, ran, passed>> BY <2>3 DEF IdleStepsBack
    <3>4. CpuTypeOK' BY <3>1, <3>2, <3>3
    <3>5. Since' BY <3>2, <3>3
    <3>6. \A d \in Rows : idle'[d] <= idle[d] BY <3>1, <3>2
    <3>7. Bounded' BY <3>3, <3>4, <3>6
    <3> QED BY <3>4, <3>5, <3>7
  <2>4. ASSUME NEW c \in Cores, CoreTurns(c) PROVE CpuInv'
    <3>1. online' \subseteq Cores BY <2>4 DEF CoreTurns
    <3> QED BY <2>4, <3>1 DEF CoreTurns
  <2>5. CASE NetKernel BY <2>1, <2>5 DEF NetKernel, Traffic, LinkTurns, NetOnly
  <2>6. CASE DiskKernel BY <2>1, <2>6 DEF DiskKernel, DiskTransfer, DiskGoes, DiskOnly
  <2>7. CASE Pass
    <3>1. CASE CollectCPU /\ UNCHANGED <<busy, idle, online>> BY <3>1 DEF CollectCPU
    <3>2. CASE FallbackCPU /\ UNCHANGED <<busy, idle, online>> BY <3>2 DEF FallbackCPU
    <3> QED BY <2>7, <3>1, <3>2 DEF Pass, Collect
  <2>8. CASE StatsSocket
    BY <2>1, <2>8 DEF StatsSocket, Connect, FirstWrite, TakeRate, Tick, Written, HangUpSeen, PeerTurns, SetRate, SockOnly
  <2>9. CASE Fresh
    <3>1. /\ lastBusy' = [r \in Rows |-> 0] /\ lastIdle' = [r \in Rows |-> 0] /\ lastOnline' = {}
          /\ ran' = busy /\ passed' = [r \in Rows |-> busy[r] + idle[r]] /\ UNCHANGED <<busy, idle, online>>
      BY <2>9 DEF Fresh
    <3>2. CpuTypeOK' BY <3>1
    <3>3. Since' BY <3>1
    <3>4. Bounded' BY <3>1
    <3> QED BY <3>2, <3>3, <3>4
  <2>10. CASE UNCHANGED monitorVars BY <2>1, <2>10 DEF monitorVars
  <2> QED BY MonitorSteps, <2>2, <2>3, <2>4, <2>5, <2>6, <2>7, <2>8, <2>9, <2>10 DEF CpuKernel
<1> QED BY <1>1, <1>2, PTL DEF Spec

(* A core has its own place among those that are online.                   *)
LEMMA PlacesDiffer ==
  ASSUME NEW S \in SUBSET Cores, NEW p \in S, NEW r \in S, p < r
  PROVE  Place(S, p) < Place(S, r)
<1> DEFINE P == {d \in S : d <= p}
           R == {d \in S : d <= r}
<1>1. IsFiniteSet(R)
  <2>1. R \subseteq Cores OBVIOUS
  <2> QED BY <2>1, FS_Subset, MonitorAssumption
<1>2. p \in Nat /\ r \in Nat /\ S \subseteq Nat BY MonitorAssumption
<1>3. P \subseteq R
  <2> SUFFICES ASSUME NEW d \in S, d <= p PROVE d <= r OBVIOUS
  <2> QED BY <1>2
<1>4. r \in R /\ r \notin P BY <1>2
<1>5. P # R BY <1>4
<1> HIDE DEF P, R
<1>6. Cardinality(P) <= Cardinality(R) /\ Cardinality(P) # Cardinality(R) /\ IsFiniteSet(P)
  BY <1>1, <1>3, <1>5, FS_Subset
<1>7. Cardinality(P) \in Nat /\ Cardinality(R) \in Nat BY <1>1, <1>6, FS_CardinalityType
<1>8. Cardinality(P) < Cardinality(R) BY <1>6, <1>7
<1> QED BY <1>8 DEF Place, P, R

LEMMA SmallModulo == ASSUME NEW x \in Nat, x < Width PROVE x % Width = x
  BY MonitorAssumption

(* For any cores, and any width the counters do not exceed.                *)
THEOREM UsagesAreShares == Spec => []UsageIsShare
<1>1. CpuInv => UsageIsShare
  <2> SUFFICES ASSUME CpuInv, ~stepped, lastOnline \in {online, {}}, NEW r \in {0} \cup lastOnline
               PROVE  Usage(r) = <<ran[r], passed[r]>>
    BY DEF UsageIsShare
  <2>1. Before(r) = {r}
    <3>1. CASE r = 0 BY <3>1 DEF Before
    <3>2. CASE r # 0
      <4>1. lastOnline = online /\ r \in online /\ online \subseteq Cores /\ Cores \subseteq Nat
        BY <3>2, MonitorAssumption DEF CpuInv, CpuTypeOK
      <4>2. ASSUME NEW p \in online, Place(online, p) = Place(online, r) PROVE p = r
        <5>1. p \in Nat /\ r \in Nat BY <4>1
        <5>2. ~(Place(online, p) < Place(online, r)) /\ ~(Place(online, r) < Place(online, p))
          <6>1. IsFiniteSet({d \in online : d <= r}) BY <4>1, FS_Subset, MonitorAssumption
          <6>2. Place(online, r) \in Nat BY <6>1, FS_CardinalityType DEF Place
          <6> QED BY <4>2, <6>2
        <5>3. ~(p < r) /\ ~(r < p) BY <4>1, <5>2, PlacesDiffer
        <5> QED BY <5>1, <5>3
      <4> QED BY <3>2, <4>1, <4>2 DEF Before
    <3> QED BY <3>1, <3>2
  <2>2. r \in Rows BY DEF Rows, CpuInv, CpuTypeOK
  <2>3. busy[r] - lastBusy[r] = ran[r]
        /\ busy[r] + idle[r] - lastBusy[r] - lastIdle[r] = passed[r]
    BY <2>2 DEF CpuInv, CpuTypeOK, Since
  <2>4. ran[r] \in Nat /\ passed[r] \in Nat /\ ran[r] < Width /\ passed[r] < Width
    BY <2>2, MonitorAssumption DEF CpuInv, CpuTypeOK, Since, Bounded, Rows
  <2>5. Usage(r) = <<(busy[r] - lastBusy[r]) % Width,
                     (busy[r] + idle[r] - lastBusy[r] - lastIdle[r]) % Width>>
    BY <2>1 DEF Usage
  <2> QED BY <2>3, <2>4, <2>5, SmallModulo
<1> QED BY <1>1, CpuInvHolds, PTL

--------------------------------------------------------------------------------
(* Types: what the invariants above leave open. *)

SockRest ==
  /\ peer \in {"here", "stalled", "gone"} /\ lost \in BOOLEAN /\ stepped \in BOOLEAN
  /\ rate \in Rates \cup {Default} /\ wanted \in Rates \cup {Default}
  /\ pend \in Seq(Rates) /\ Len(pend) <= RateCap /\ sock \in {"idle", "first", "loop", "write"}
ScriptsRest ==
  /\ hit \subseteq Requests /\ cut \subseteq Requests /\ alone \subseteq Requests
  /\ removed \in BOOLEAN /\ sound \in BOOLEAN

LEMMA SockRestHolds == Spec => []SockRest
<1> USE MonitorAssumption
<1>0. <<>> \in Seq(Rates) /\ Len(<<>>) <= RateCap
  <2>1. <<>> \in Seq(Rates) /\ Len(<<>>) = 0 BY EmptySeq
  <2> QED BY <2>1
<1>1. Init => SockRest
  BY <1>0 DEF Init, MonitorInit, SockRest
<1>2. SockRest /\ [Next]_vars => SockRest'
  <2> SUFFICES ASSUME SockRest, [Next]_vars PROVE SockRest' OBVIOUS
  <2>1. CASE UNCHANGED sockVars /\ stepped' \in {stepped, TRUE, FALSE}
    BY <2>1 DEF sockVars, SockRest
  <2>2. CASE CpuKernel BY <2>1, <2>2 DEF CpuKernel, CpuTicks, IdleStepsBack, CoreTurns, CpuOnly
  <2>3. CASE NetKernel BY <2>1, <2>3 DEF NetKernel, Traffic, LinkTurns, NetOnly, cpuVars
  <2>4. CASE DiskKernel BY <2>1, <2>4 DEF DiskKernel, DiskTransfer, DiskGoes, DiskOnly, cpuVars
  <2>5. CASE Pass BY <2>1, <2>5 DEF Pass, Collect, CollectCPU, FallbackCPU
  <2>6. CASE StatsSocket
    <3>0. stepped' = stepped
      BY <2>6 DEF StatsSocket, Connect, FirstWrite, TakeRate, Tick, Written, HangUpSeen, PeerTurns, SetRate, SockOnly, cpuVars
    <3>1. CASE SockReturns BY <1>0, <3>0, <3>1 DEF SockReturns, SockRest
    <3>2. CASE UNCHANGED <<pend, rate, wanted, lost>> /\ sock' \in {"first", "loop", "write", sock}
               /\ peer' \in {peer, "stalled", "gone"}
      BY <3>0, <3>2 DEF SockRest
    <3>3. CASE TakeRate
      <4>1. pend # <<>> /\ rate' = Head(pend) /\ pend' = Tail(pend) /\ UNCHANGED <<sock, peer, wanted, lost>>
        BY <3>3 DEF TakeRate
      <4>2. Tail(pend) \in Seq(Rates) /\ Len(Tail(pend)) = Len(pend) - 1 /\ Head(pend) \in Rates
        BY <4>1, HeadTailProperties DEF SockRest
      <4>3. Len(pend) \in Nat BY LenProperties DEF SockRest
      <4>4. Len(pend') <= RateCap BY <4>1, <4>2, <4>3 DEF SockRest
      <4> QED BY <3>0, <4>1, <4>2, <4>4 DEF SockRest
    <3>4. ASSUME NEW v \in Rates \cup {Invalid}, SetRate(v) PROVE SockRest'
      <4>1. UNCHANGED <<sock, peer, rate>> BY <3>4 DEF SetRate
      <4>2. CASE v = Invalid BY <3>0, <3>4, <4>1, <4>2 DEF SetRate, SockRest
      <4>3. CASE v # Invalid
        <5>1. wanted' = v /\ v \in Rates BY <3>4, <4>3 DEF SetRate
        <5>2. lost' = (Len(pend) >= RateCap) BY <3>4, <4>3 DEF SetRate
        <5>3. lost' \in BOOLEAN BY <5>2
        <5>4. Append(pend, v) \in Seq(Rates) /\ Len(Append(pend, v)) = Len(pend) + 1
          BY <5>1, AppendProperties DEF SockRest
        <5>5. Len(pend) \in Nat BY LenProperties DEF SockRest
        <5>6. pend' \in Seq(Rates) /\ Len(pend') <= RateCap
          BY <3>4, <4>3, <5>4, <5>5 DEF SetRate, SockRest
        <5> QED BY <3>0, <4>1, <5>1, <5>3, <5>6 DEF SockRest
      <4> QED BY <4>2, <4>3
    <3> QED BY <2>6, <3>1, <3>2, <3>3, <3>4
      DEF StatsSocket, Connect, FirstWrite, Tick, Written, HangUpSeen, PeerTurns
  <2>7. CASE Fresh BY <1>0, <2>7 DEF Fresh, SockRest
  <2>8. CASE UNCHANGED monitorVars BY <2>1, <2>8 DEF monitorVars, cpuVars
  <2> QED BY MonitorSteps, <2>2, <2>3, <2>4, <2>5, <2>6, <2>7, <2>8
<1> QED BY <1>1, <1>2, PTL DEF Spec

LEMMA ScriptsRestHolds == Spec => []ScriptsRest
<1>1. Init => ScriptsRest
  BY DEF Init, ScriptsInit, ScriptsRest
<1>2. ScriptsRest /\ [Next]_vars => ScriptsRest'
  <2> SUFFICES ASSUME ScriptsRest, [Next]_vars PROVE ScriptsRest' OBVIOUS
  <2> USE DEF ScriptsRest
  <2>1. ASSUME NEW q \in Requests, Ask(q) PROVE ScriptsRest'
    <3>1. sound' = (sound /\ ~(op'[q] = "save" /\ \E r \in Requests : Saving(r))) BY <2>1 DEF Ask
    <3>2. sound' \in BOOLEAN BY <3>1
    <3> QED BY <2>1, <3>2 DEF Ask
  <2>2. ASSUME NEW q \in Requests, Look(q) PROVE ScriptsRest'
    BY <2>2 DEF Look, NextDir, Return, Goto, Kept
  <2>3. ASSUME NEW q \in Requests, MakeDir(q) PROVE ScriptsRest'
    BY <2>3 DEF MakeDir, NextDir, Goto
  <2>4. ASSUME NEW q \in Requests, NoDirLeft(q) PROVE ScriptsRest'
    <3>1. removed' = removed \/ removed' = (q \in alone) BY <2>4 DEF NoDirLeft
    <3>2. ASSUME removed' = removed PROVE removed' \in BOOLEAN BY <3>2
    <3>3. ASSUME removed' = (q \in alone) PROVE removed' \in BOOLEAN BY <3>3
    <3>4. removed' \in BOOLEAN BY <3>1, <3>2, <3>3
    <3> QED BY <2>4, <3>4 DEF NoDirLeft, Return
  <2>5. ASSUME NEW q \in Requests, Open(q) PROVE ScriptsRest'
    BY <2>5 DEF Open, Opened, NextDir
  <2>6. ASSUME NEW q \in Requests, Fill(q) PROVE ScriptsRest'
    BY <2>6 DEF Fill, Return, NextDir
  <2>7. ASSUME NEW q \in Requests, Remove(q) PROVE ScriptsRest'
    BY <2>7 DEF Remove, NextDir
  <2>8. ASSUME NEW q \in Requests, Exec(q) \/ ScriptEnds(q) PROVE ScriptsRest'
    BY <2>8 DEF Exec, ScriptEnds, Goto, Return, Kept
  <2>9. CASE ScriptsCut
    <3>1. sound' = (sound /\ \A q \in Requests : pc[q] # "fill") BY <2>9 DEF ScriptsCut
    <3>2. sound' \in BOOLEAN BY <3>1
    <3> QED BY <2>9, <3>2 DEF ScriptsCut
  <2>10. CASE UNCHANGED scriptVars BY <2>10 DEF scriptVars, requests
  <2> QED BY ScriptSteps, <2>1, <2>2, <2>3, <2>4, <2>5, <2>6, <2>7, <2>8, <2>9, <2>10 DEF ScriptRequest
<1> QED BY <1>1, <1>2, PTL DEF Spec

LEMMA AssumedHolds == Spec => [](cpuAssumed \in BOOLEAN /\ netAssumed \in BOOLEAN)
<1>1. Init => cpuAssumed \in BOOLEAN /\ netAssumed \in BOOLEAN BY DEF Init, MonitorInit
<1>2. cpuAssumed \in BOOLEAN /\ netAssumed \in BOOLEAN /\ [Next]_vars
      => (cpuAssumed \in BOOLEAN /\ netAssumed \in BOOLEAN)'
  <2> SUFFICES ASSUME cpuAssumed \in BOOLEAN, netAssumed \in BOOLEAN, [Next]_vars
               PROVE  cpuAssumed' \in BOOLEAN /\ netAssumed' \in BOOLEAN
    OBVIOUS
  <2>1. CASE CpuKernel BY <2>1 DEF CpuKernel, CpuTicks, IdleStepsBack, CoreTurns, CpuOnly, netVars
  <2>2. CASE NetKernel BY <2>2 DEF NetKernel, Traffic, LinkTurns, NetOnly, cpuVars
  <2>3. CASE DiskKernel BY <2>3 DEF DiskKernel, DiskTransfer, DiskGoes, DiskOnly, cpuVars, netVars
  <2>4. CASE Pass
    <3>1. cpuAssumed' \in BOOLEAN BY <2>4 DEF Pass, Collect, CollectCPU, FallbackCPU
    <3>2. netAssumed' \in BOOLEAN BY <2>4 DEF Pass, Collect, CollectNetwork, FallbackNetwork
    <3> QED BY <3>1, <3>2
  <2>5. CASE StatsSocket
    BY <2>5 DEF StatsSocket, Connect, FirstWrite, TakeRate, Tick, Written, HangUpSeen, PeerTurns, SetRate,
      SockOnly, cpuVars, netVars
  <2>6. CASE Fresh BY <2>6 DEF Fresh
  <2>7. CASE UNCHANGED monitorVars BY <2>7 DEF monitorVars, cpuVars, netVars
  <2> QED BY MonitorSteps, <2>1, <2>2, <2>3, <2>4, <2>5, <2>6, <2>7
<1> QED BY <1>1, <1>2, PTL DEF Spec

LEMMA WorkHolds == Spec => [](work \in Works)
<1>1. Init => work \in Works BY DEF Init
<1>2. work \in Works /\ [Next]_vars => (work \in Works)'
  BY DEF Next, MonitorStep, ProcessesStep, ScriptsStep, FilesStep, ServicesStep, DaemonEnds,
    MonitorOnly, ProcessesOnly, ScriptsOnly, FilesOnly, ServicesOnly, vars
<1> QED BY <1>1, <1>2, PTL DEF Spec

(* Type correctness of the whole host.                                     *)
THEOREM HostTypeCorrect == Spec => []TypeOK
<1>1. /\ NetInv /\ DiskInv /\ CpuInv /\ HistoryInv /\ SockRest /\ cpuAssumed \in BOOLEAN /\ netAssumed \in BOOLEAN
      /\ ProcessInv /\ PlacedInv /\ ScriptsRest /\ FileInv /\ ServiceInv /\ work \in Works
      => TypeOK
  <2> SUFFICES ASSUME NetInv /\ DiskInv /\ CpuInv /\ HistoryInv /\ SockRest,
                      cpuAssumed \in BOOLEAN /\ netAssumed \in BOOLEAN,
                      ProcessInv /\ PlacedInv /\ ScriptsRest /\ FileInv /\ ServiceInv /\ work \in Works
               PROVE  TypeOK
    OBVIOUS
  <2>1. MonitorTypeOK
    BY DEF MonitorTypeOK, NetInv, NetTypeOK, DiskInv, CpuInv, CpuTypeOK, HistoryInv, SockRest
  <2>2. ScriptsTypeOK
    BY DEF ScriptsTypeOK, PlacedInv, CopiesTypeOK, RequestsTypeOK, ScriptsRest
  <2>3. ProcessesTypeOK /\ FilesTypeOK /\ ServicesTypeOK
    BY DEF ProcessInv, FileInv, ServiceInv
  <2> QED BY <2>1, <2>2, <2>3 DEF TypeOK
<1> QED
  BY <1>1, RatesInvHolds, CpuInvHolds, HistoryInvHolds, SockRestHolds, ProcessInvHolds, PlacedHolds,
    ScriptsRestHolds, FileInvHolds, ServiceInvHolds, WorkHolds, AssumedHolds, PTL

================================================================================
