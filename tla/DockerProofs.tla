------------------------------ MODULE DockerProofs ------------------------------
(***************************************************************************)
(* Proofs about Docker, for any containers, requests and bounds: one       *)
(* inductive invariant, a part for the poller, one for the lists, one for  *)
(* the create requests and one for the log socket.                         *)
(***************************************************************************)
EXTENDS Docker, FiniteSetTheorems, TLAPS

(* A pass samples only what it keeps, and nothing is sampled outside one.  *)
PollerInv ==
  /\ CacheOfLastPass /\ SamplingBounded
  /\ todo \cup asking \subseteq kept
  /\ poll # "sample" => asking = {}

(* The container of a request and the request of a container are each      *)
(* other's only one.                                                       *)
RequestInv(r) ==
  /\ pc[r] \in {"idle", "create", "pull", "retry"} => made[r] = None
  /\ pc[r] \in {"posted", "start", "ok"} => made[r] \in Ids /\ owner[made[r]] = r
  /\ pc[r] = "ok" => state[made[r]] # "created"

ContainerInv(c) ==
  owner[c] # None =>
    made[owner[c]] = c /\ state[c] # "absent" /\ published[c] = HostIPs(spec[owner[c]])

CreateInv == (\A r \in Creates : RequestInv(r)) /\ (\A c \in Ids : ContainerInv(c))

LogInv ==
  /\ GarbledOnlyIfGuessed
  /\ log \in {"attach", "stream"} => guessed \/ framed = (watched \notin Ttys)

DockerInv == TypeOK /\ PollerInv /\ NoStaleFigures /\ CreateInv /\ LogInv

--------------------------------------------------------------------------------

LEMMA HostIPsType == ASSUME TypeOK, NEW s \in Specs PROVE HostIPs(s) \subseteq Addresses
BY ConstantsAssumption DEF TypeOK, HostIPs, PrivateBindIP, Specs, Addresses

LEMMA InitInv == Init => DockerInv
<1> SUFFICES ASSUME Init PROVE DockerInv
  OBVIOUS
<1>1. TypeOK
  <2>1. state \in [Ids -> {"absent", "created", "running", "stopped", "removed"}]
    BY DEF Init
  <2>2. spec \in [Creates -> Specs] /\ age \in [Ids -> 0..MaxAge + 1]
    BY ConstantsAssumption DEF Init, Specs
  <2>3. owner \in [Ids -> Creates \cup {None}] /\ published \in [Ids -> SUBSET Addresses]
    BY DEF Init
  <2> QED BY <2>1, <2>2, <2>3 DEF Init, TypeOK
<1>2. PollerInv
  BY FS_EmptySet, ConstantsAssumption DEF Init, PollerInv, CacheOfLastPass, SamplingBounded
<1>3. NoStaleFigures /\ LogInv
  BY DEF Init, NoStaleFigures, LogInv, GarbledOnlyIfGuessed
<1>4. CreateInv
  BY ConstantsAssumption DEF Init, CreateInv, RequestInv, ContainerInv
<1> QED BY <1>1, <1>2, <1>3, <1>4 DEF DockerInv

(* Requests and the Engine's containers. *)
LEMMA CreateStep ==
  ASSUME DockerInv, NEW r \in Creates, Create(r)
  PROVE  TypeOK' /\ CreateInv'
<1> USE DEF DockerInv, TypeOK
<1>1. CASE Receive(r)
  <2>1. TypeOK'
    BY <1>1 DEF Receive, Goto, OthersUntouched, engine, fixed, polling, cache, lists, logs, Specs
  <2>2. \A c \in Ids : owner[c] # r
    BY <1>1, ConstantsAssumption DEF Receive, CreateInv, RequestInv, ContainerInv
  <2> QED BY <1>1, <2>1, <2>2
      DEF Receive, Goto, OthersUntouched, engine, fixed, CreateInv, RequestInv, ContainerInv,
        HostIPs, PrivateBindIP
<1>2. CASE Post(r)
  <2>1. PICK c \in Ids :
          /\ state[c] = "absent"
          /\ state' = [state EXCEPT ![c] = "created"]
          /\ owner' = [owner EXCEPT ![c] = r]
          /\ published' = [published EXCEPT ![c] = HostIPs(spec[r])]
          /\ made' = [made EXCEPT ![r] = c]
    BY <1>2 DEF Post
  <2>2. /\ pc' = [pc EXCEPT ![r] = "posted"] /\ UNCHANGED <<spec, bind, traffic, docker, image>>
        /\ UNCHANGED <<polling, cache, lists, logs>>
    BY <1>2 DEF Post, Goto, OthersUntouched, fixed
  <2>3. TypeOK'
    BY <2>1, <2>2, HostIPsType DEF polling, cache, lists, logs
  <2>4. made[r] = None /\ \A d \in Ids : owner[d] # r
    BY <1>2, ConstantsAssumption DEF Post, CreateInv, RequestInv, ContainerInv
  <2>5. owner[c] = None
    BY <2>1 DEF CreateInv, ContainerInv
  <2>6. \A s : HostIPs(s)' = HostIPs(s)
    BY <2>2 DEF HostIPs, PrivateBindIP
  <2>7. ASSUME NEW q \in Creates PROVE RequestInv(q)'
    BY <2>1, <2>2, <2>4, <2>5, ConstantsAssumption DEF CreateInv, RequestInv
  <2>8. ASSUME NEW d \in Ids PROVE ContainerInv(d)'
    BY <2>1, <2>2, <2>4, <2>5, <2>6, ConstantsAssumption DEF CreateInv, ContainerInv
  <2> QED BY <2>3, <2>7, <2>8 DEF CreateInv
<1>3. CASE Start(r)
  <2>1. CASE UNCHANGED engine
    BY <1>3, <2>1 DEF Start, Goto, OthersUntouched, engine, fixed, polling, cache, lists, logs,
      CreateInv, RequestInv, ContainerInv, HostIPs, PrivateBindIP, Becomes
  <2>2. CASE Exists(made[r]) /\ Becomes(made[r], "running") /\ Goto(r, "ok")
    BY <1>3, <2>2 DEF Start, Goto, OthersUntouched, engine, fixed, polling, cache, lists, logs,
      CreateInv, RequestInv, ContainerInv, HostIPs, PrivateBindIP, Becomes, Exists
  <2> QED BY <1>3, <2>1, <2>2 DEF Start
<1>4. CASE Refused(r) \/ CallFails(r) \/ Answered(r)
  <2>1. UNCHANGED <<engine, fixed, spec, made, polling, cache, lists, logs>>
    BY <1>4 DEF Refused, CallFails, Answered, OthersUntouched
  <2>2. PICK s \in {"pull", "failed", "start"} :
          pc' = [pc EXCEPT ![r] = s] /\ (s = "pull" => pc[r] = "create") /\ (s = "start" => pc[r] = "posted")
    BY <1>4 DEF Refused, CallFails, Answered, Goto
  <2>3. TypeOK'
    BY <2>1, <2>2 DEF engine, fixed, polling, cache, lists, logs
  <2>4. CreateInv'
    BY <2>1, <2>2 DEF engine, fixed, CreateInv, RequestInv, ContainerInv, HostIPs, PrivateBindIP
  <2> QED BY <2>3, <2>4
<1>5. CASE Pull(r)
  <2>0. image' \in BOOLEAN
    BY <1>5, Zenon DEF Pull
  <2>1. TypeOK'
    BY <1>5, <2>0 DEF Pull, Goto, OthersUntouched, fixed, polling, cache, lists, logs
  <2>2. CreateInv'
    BY <1>5 DEF Pull, Goto, OthersUntouched, fixed, CreateInv, RequestInv, ContainerInv, HostIPs, PrivateBindIP
  <2> QED BY <2>1, <2>2
<1> QED BY <1>1, <1>2, <1>3, <1>4, <1>5 DEF Create

(* What a create request does not touch. *)
LEMMA CreateRest ==
  ASSUME DockerInv, NEW r \in Creates, Create(r)
  PROVE  UNCHANGED <<fixed, polling, cache, lists, logs>>
BY DEF Create, Receive, Post, Refused, Pull, CallFails, Answered, Start, OthersUntouched

(* The Engine and its containers move by themselves or by an action. *)
LEMMA EngineStep ==
  ASSUME DockerInv, (\E c \in Ids : ContainerAction(c)) \/ EngineTurns \/ ImageRemoved
  PROVE  TypeOK' /\ CreateInv' /\ UNCHANGED <<fixed, polling, cache, lists, logs>>
<1> USE DEF DockerInv, TypeOK
<1>1. CASE \E c \in Ids : ContainerAction(c)
  <2>1. PICK c \in Ids : ContainerAction(c)
    BY <1>1
  <2>2. PICK s \in {"running", "stopped", "removed"} :
          Exists(c) /\ state' = [state EXCEPT ![c] = s]
    BY <2>1 DEF ContainerAction, Becomes
  <2>3. UNCHANGED <<docker, owner, published, image, fixed, creating, polling, cache, lists, logs>>
    BY <2>1 DEF ContainerAction, Becomes
  <2>4. TypeOK'
    BY <2>2, <2>3 DEF fixed, creating, polling, cache, lists, logs
  <2>5. CreateInv'
    BY <2>2, <2>3 DEF fixed, creating, CreateInv, RequestInv, ContainerInv, HostIPs, PrivateBindIP, Exists
  <2> QED BY <2>3, <2>4, <2>5
<1>2. CASE EngineTurns
  <2>1. TypeOK'
    BY <1>2 DEF EngineTurns, fixed, creating, polling, cache, lists, logs
  <2>2. CreateInv'
    BY <1>2 DEF EngineTurns, fixed, creating, CreateInv, RequestInv, ContainerInv, HostIPs, PrivateBindIP
  <2> QED BY <1>2, <2>1, <2>2 DEF EngineTurns
<1>3. CASE ImageRemoved
  <2>0. image' \in BOOLEAN
    BY <1>3, Zenon DEF ImageRemoved
  <2>1. TypeOK'
    BY <1>3, <2>0 DEF ImageRemoved, fixed, creating, polling, cache, lists, logs
  <2>2. CreateInv'
    BY <1>3 DEF ImageRemoved, fixed, creating, CreateInv, RequestInv, ContainerInv, HostIPs, PrivateBindIP
  <2> QED BY <1>3, <2>1, <2>2 DEF ImageRemoved
<1> QED BY <1>1, <1>2, <1>3

(* The poller. *)
LEMMA PollerStep ==
  ASSUME DockerInv, Poller \/ Tick
  PROVE  TypeOK' /\ PollerInv' /\ UNCHANGED <<fixed, engine, creating, lists, logs>>
<1> USE DEF DockerInv, TypeOK, PollerInv, CacheOfLastPass, SamplingBounded
<1>1. UNCHANGED <<fixed, engine, creating, lists, logs>>
  BY DEF Poller, PollBegins, PollLists, PollListFails, PollEnds, Sample, Put, Tick, PollUntouched
<1>2. TypeOK'
  <2>1. CASE PollBegins \/ PollLists \/ PollListFails \/ PollEnds
    <3>1. /\ poll' \in {"idle", "list", "sample"} /\ cached' \subseteq Ids
          /\ todo' \subseteq Ids /\ asking' \subseteq Ids /\ kept' \subseteq Ids
      BY <2>1 DEF PollBegins, PollLists, PollListFails, PollEnds, cache, Running
    <3>2. age' \in [Ids -> 0..MaxAge + 1]
      BY <2>1, ConstantsAssumption DEF PollBegins, PollLists, PollListFails, PollEnds, cache
    <3> QED BY <1>1, <3>1, <3>2 DEF fixed, engine, creating, lists, logs
  <2>2. CASE \E c \in Ids : Sample(c) \/ Put(c)
    BY <1>1, <2>2, ConstantsAssumption DEF Sample, Put, fixed, engine, creating, cache, lists, logs
  <2>3. CASE Tick
    BY <1>1, <2>3, ConstantsAssumption DEF Tick, fixed, engine, creating, polling, lists, logs
  <2> QED BY <2>1, <2>2, <2>3 DEF Poller
<1>3. PollerInv'
  <2>1. CASE PollBegins \/ PollLists \/ PollListFails \/ PollEnds
    BY <2>1 DEF PollBegins, PollLists, PollListFails, PollEnds, cache
  <2>2. ASSUME NEW c \in Ids, Sample(c) PROVE PollerInv'
    <3>1. asking' = asking \cup {c} /\ todo' = todo \ {c} /\ UNCHANGED <<poll, kept, cached>>
      BY <2>2 DEF Sample, cache
    <3>3. IsFiniteSet(asking) /\ Cardinality(asking) < Concurrency /\ Cardinality(asking) \in Nat
      BY <2>2, FS_CardinalityType DEF Sample
    <3>2. IsFiniteSet(asking') /\ Cardinality(asking') <= Cardinality(asking) + 1
      <4>1. /\ IsFiniteSet(asking \cup {c})
            /\ \/ Cardinality(asking \cup {c}) = Cardinality(asking)
               \/ Cardinality(asking \cup {c}) = Cardinality(asking) + 1
        BY <3>3, FS_AddElement, Zenon
      <4> QED BY ONLY <3>1, <3>3, <4>1
    <3>4. Cardinality(asking') \in Nat
      BY <3>2, FS_CardinalityType
    <3>5. Cardinality(asking') <= Concurrency
      BY <3>2, <3>3, <3>4, ConstantsAssumption
    <3> QED BY <2>2, <3>1, <3>2, <3>5 DEF Sample
  <2>3. ASSUME NEW c \in Ids, Put(c) PROVE PollerInv'
    <3>1. asking' = asking \ {c} /\ UNCHANGED <<poll, todo, kept>> /\ cached' \subseteq cached \cup {c}
      BY <2>3 DEF Put, cache
    <3>2. IsFiniteSet(asking') /\ Cardinality(asking') <= Cardinality(asking)
      BY <3>1, FS_RemoveElement, FS_CardinalityType, FS_Subset
    <3>3. Cardinality(asking) \in Nat /\ Cardinality(asking') \in Nat
      BY <3>2, FS_CardinalityType
    <3>4. Cardinality(asking') <= Concurrency
      BY <3>2, <3>3, ConstantsAssumption
    <3> QED BY <2>3, <3>1, <3>2, <3>4 DEF Put
  <2>4. CASE Tick
    BY <2>4 DEF Tick, polling
  <2> QED BY <2>1, <2>2, <2>3, <2>4 DEF Poller
<1> QED BY <1>1, <1>2, <1>3

(* A list request. *)
LEMMA ListStep ==
  ASSUME DockerInv, ListAsks \/ Merge
  PROVE  DockerInv'
<1> USE DEF DockerInv
<1>1. CASE ListAsks
  <2>1. UNCHANGED <<todo, asking, kept, fixed, engine, creating, cache, logs>> /\ shown' = {}
        /\ poll' \in {poll, "idle"} /\ (poll' # poll => poll = "off")
        /\ seen' \subseteq Ids /\ listing' \in {"idle", "merge"}
    BY <1>1 DEF ListAsks, Running, TypeOK
  <2>2. TypeOK'
    BY <2>1 DEF TypeOK, fixed, engine, creating, cache, logs
  <2>3. PollerInv' /\ NoStaleFigures'
    BY <2>1 DEF PollerInv, CacheOfLastPass, SamplingBounded, NoStaleFigures, cache
  <2>4. CreateInv' /\ LogInv'
    BY <2>1 DEF CreateInv, RequestInv, ContainerInv, HostIPs, PrivateBindIP, LogInv, GarbledOnlyIfGuessed,
      fixed, engine, creating, logs
  <2> QED BY <2>2, <2>3, <2>4
<1>2. CASE Merge
  <2>1. UNCHANGED <<seen, fixed, engine, creating, polling, cache, logs>> /\ listing' = "idle"
        /\ shown' = {[id |-> c, age |-> age[c]] : c \in {d \in seen \cap cached : age[d] <= MaxAge}}
    BY <1>2 DEF Merge, Figures
  <2>2. TypeOK'
    BY <2>1 DEF TypeOK, fixed, engine, creating, polling, cache, logs
  <2>3. PollerInv' /\ NoStaleFigures'
    BY <2>1 DEF PollerInv, CacheOfLastPass, SamplingBounded, NoStaleFigures, cache, polling
  <2>4. CreateInv' /\ LogInv'
    BY <2>1 DEF CreateInv, RequestInv, ContainerInv, HostIPs, PrivateBindIP, LogInv, GarbledOnlyIfGuessed,
      fixed, engine, creating, logs
  <2> QED BY <2>2, <2>3, <2>4
<1> QED BY <1>1, <1>2

(* The log socket. *)
LEMMA LogStep ==
  ASSUME DockerInv, Logs
  PROVE  TypeOK' /\ LogInv' /\ UNCHANGED <<fixed, engine, creating, polling, cache, lists>>
<1> USE DEF DockerInv, TypeOK, LogInv, GarbledOnlyIfGuessed, SocketKept, LogUntouched
<1>1. UNCHANGED <<fixed, engine, creating, polling, cache, lists>>
  BY DEF Logs, Open, Check, Inspect, Attach, Line, StreamEnds, ClientTurns, Notice
<1>2. CASE LogReturns
  BY <1>1, <1>2 DEF LogReturns, fixed, engine, creating, polling, cache, lists
<1>3. CASE ~LogReturns
  <2> USE DEF fixed, engine, creating, polling, cache, lists
  <2>1. CASE Open
    BY <1>1, <2>1 DEF Open
  <2>2. CASE Check
    <3>1. log' = "inspect" /\ UNCHANGED <<framed, guessed, garbled, watched, client, cancelled>>
      BY <1>3, <2>2, Zenon DEF Check
    <3> QED BY <1>1, <3>1
  <2>3. CASE Inspect
    <3>1. /\ framed' \in BOOLEAN /\ guessed' \in BOOLEAN
          /\ guessed' \/ framed' = (watched \notin Ttys)
      BY <2>3, Zenon DEF Inspect
    <3>2. log' = "attach" /\ UNCHANGED <<garbled, watched, client, cancelled>> /\ (guessed => guessed')
      BY <2>3, Zenon DEF Inspect
    <3> QED BY <1>1, <3>1, <3>2
  <2>4. CASE Attach
    BY <1>1, <1>3, <2>4 DEF Attach
  <2>5. CASE Line
    <3>1. UNCHANGED <<log, framed, guessed, watched, client, cancelled>> /\ log = "stream"
          /\ garbled' = (garbled \/ framed # (watched \notin Ttys))
      BY <1>3, <2>5 DEF Line
    <3>2. garbled' \in BOOLEAN /\ (garbled' => guessed')
      BY <3>1, Zenon
    <3> QED BY <1>1, <3>1, <3>2
  <2>6. CASE StreamEnds
    <3>1. LogReturns
      BY <2>6, Zenon DEF StreamEnds
    <3> QED BY <1>3, <3>1
  <2>7. CASE ClientTurns \/ Notice
    <3>1. /\ client' \in {"here", "stalled", "gone"} /\ cancelled' \in BOOLEAN
          /\ UNCHANGED <<log, watched, framed, guessed, garbled>>
      BY <2>7, Zenon DEF ClientTurns, Notice
    <3> QED BY <1>1, <3>1
  <2> QED BY <2>1, <2>2, <2>3, <2>4, <2>5, <2>6, <2>7 DEF Logs
<1> QED BY <1>1, <1>2, <1>3

--------------------------------------------------------------------------------

(* The parts a step leaves alone. *)
LEMMA KeepPoller == PollerInv /\ UNCHANGED <<polling, cache>> => PollerInv'
BY DEF PollerInv, CacheOfLastPass, SamplingBounded, polling, cache

LEMMA KeepLists == NoStaleFigures /\ UNCHANGED lists => NoStaleFigures'
BY DEF NoStaleFigures, lists

LEMMA KeepLogs == LogInv /\ UNCHANGED logs => LogInv'
BY DEF LogInv, GarbledOnlyIfGuessed, logs

LEMMA KeepCreates == CreateInv /\ UNCHANGED <<fixed, engine, creating>> => CreateInv'
BY DEF CreateInv, RequestInv, ContainerInv, HostIPs, PrivateBindIP, fixed, engine, creating

(* The poller, the lists, the create requests and the log socket share the *)
(* Engine and the cache, and each keeps its own part of the invariant.     *)
THEOREM DockerInvariant == Spec => []DockerInv
<1>1. DockerInv /\ [Next]_vars => DockerInv'
  <2> SUFFICES ASSUME DockerInv, [Next]_vars PROVE DockerInv'
    OBVIOUS
  <2> USE DEF DockerInv
  <2>1. ASSUME NEW r \in Creates, Create(r) PROVE DockerInv'
    BY <2>1, CreateStep, CreateRest, KeepPoller, KeepLists, KeepLogs
  <2>2. CASE (\E c \in Ids : ContainerAction(c)) \/ EngineTurns \/ ImageRemoved
    BY <2>2, EngineStep, KeepPoller, KeepLists, KeepLogs
  <2>3. CASE Poller \/ Tick
    BY <2>3, PollerStep, KeepLists, KeepLogs, KeepCreates
  <2>4. CASE ListAsks \/ Merge
    BY <2>4, ListStep
  <2>5. CASE Logs
    BY <2>5, LogStep, KeepPoller, KeepLists, KeepCreates
  <2>6. CASE UNCHANGED vars
    <3>1. TypeOK'
      BY <2>6 DEF TypeOK, vars, fixed, engine, creating, polling, cache, lists, logs
    <3> QED BY <2>6, <3>1, KeepPoller, KeepLists, KeepLogs, KeepCreates DEF vars
  <2> QED BY <2>1, <2>2, <2>3, <2>4, <2>5, <2>6 DEF Next
<1> QED BY <1>1, InitInv, PTL DEF Spec

(* Every variable stays in its set. *)
THEOREM DockerTypeCorrect == Spec => []TypeOK
BY DockerInvariant, PTL DEF DockerInv

(* No sample brings back what a later pass has pruned. *)
THEOREM CacheIsOfLastPass == Spec => []CacheOfLastPass
<1>1. DockerInv => CacheOfLastPass
  BY DEF DockerInv, PollerInv
<1> QED BY <1>1, DockerInvariant, PTL

(* The semaphore bounds the samples. *)
THEOREM SamplesAreBounded == Spec => []SamplingBounded
<1>1. DockerInv => SamplingBounded
  BY DEF DockerInv, PollerInv
<1> QED BY <1>1, DockerInvariant, PTL

(* No answer shows an old figure. *)
THEOREM FiguresAreRecent == Spec => []NoStaleFigures
<1>1. DockerInv => NoStaleFigures
  BY DEF DockerInv
<1> QED BY <1>1, DockerInvariant, PTL

(* One container per request. *)
THEOREM CreatesOnce == Spec => []OneContainerPerRequest
<1>1. DockerInv => OneContainerPerRequest
  BY DEF DockerInv, CreateInv, ContainerInv, OneContainerPerRequest
<1> QED BY <1>1, DockerInvariant, PTL

(* A success reply is true. *)
THEOREM SuccessIsStarted == Spec => []SuccessMeansStarted
<1>1. DockerInv => SuccessMeansStarted
  <2> SUFFICES ASSUME DockerInv, NEW r \in Creates, pc[r] = "ok"
               PROVE  owner[made[r]] = r /\ state[made[r]] \notin {"absent", "created"}
    BY DEF SuccessMeansStarted
  <2>1. RequestInv(r) /\ made[r] \in Ids /\ owner[made[r]] = r
    BY DEF DockerInv, CreateInv, RequestInv
  <2>2. ContainerInv(made[r]) /\ r # None
    BY <2>1, ConstantsAssumption DEF DockerInv, CreateInv
  <2> QED BY <2>1, <2>2 DEF RequestInv, ContainerInv
<1> QED BY <1>1, DockerInvariant, PTL

(* Published on every interface only if asked to. *)
THEOREM PublishesAsAsked == Spec => []PublishedAsAsked
<1>1. DockerInv => PublishedAsAsked
  <2> SUFFICES ASSUME DockerInv, NEW c \in Ids, owner[c] # None, NEW a \in published[c]
               PROVE  a \in {Loopback, Tunnel} \/ a = spec[owner[c]]
    BY DEF PublishedAsAsked
  <2>1. a \in HostIPs(spec[owner[c]])
    BY DEF DockerInv, CreateInv, ContainerInv
  <2>2. PrivateBindIP \in {Loopback, Tunnel}
    BY ConstantsAssumption DEF DockerInv, TypeOK, PrivateBindIP
  <2> QED BY <2>1, <2>2 DEF HostIPs
<1> QED BY <1>1, DockerInvariant, PTL

(* Lines are parsed in the container's format. *)
THEOREM GarblesOnlyIfGuessed == Spec => []GarbledOnlyIfGuessed
<1>1. DockerInv => GarbledOnlyIfGuessed
  BY DEF DockerInv, LogInv
<1> QED BY <1>1, DockerInvariant, PTL

================================================================================
