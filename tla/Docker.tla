--------------------------------- MODULE Docker ---------------------------------
(***************************************************************************)
(* The Docker side of archangeld.  Every request talks to the Engine over  *)
(* its socket: list the containers, act on one, create and start one,      *)
(* follow a log.  A poller, started by the first list, fills a cache of    *)
(* CPU and memory figures that later lists merge into their answer.        *)
(*                                                                         *)
(* A call to the Engine is a step; between two calls of one request the    *)
(* containers change, other requests run, and the Engine may go away.      *)
(***************************************************************************)
EXTENDS Integers, FiniteSets

CONSTANTS
  Ids,          \* the containers the Engine may ever hold
  Ttys,         \* those created with a TTY
  Creates,      \* requests to create a container
  Traffics,     \* the kinds of request a behaviour may have, one of these sets
  MaxAge,       \* statsMaxAge, in ticks
  Concurrency,  \* statsConcurrency
  BindAddrs,    \* what bind_addr may be
  NamedAddrs,   \* the addresses a three-part port entry may name
  None

Loopback == "127.0.0.1"
Tunnel == "10.8.0.1"
All == "0.0.0.0"
Unset == ""
Addresses == {Loopback, Tunnel, All}

(* What ParsePortSpec makes of an entry of CreateContainerRequest.Ports:   *)
(* "80" is exposed only, "8080:80" is published on the private address,    *)
(* a three-part entry on the address it names, and the rest is refused.    *)
Exposed == "80"
Private == "8080:80"
Specs == {Exposed, Private} \cup NamedAddrs

ASSUME ConstantsAssumption ==
  /\ Ttys \subseteq Ids
  /\ None \notin Ids \cup Creates
  /\ NamedAddrs \subseteq Addresses /\ BindAddrs \subseteq {Unset, Tunnel, All}
  /\ MaxAge \in Nat /\ Concurrency \in Nat \ {0}

VARIABLES
  traffic,    \* the requests of this behaviour: "list", "create", "logs"
  docker,     \* the Engine answers
  state,      \* of each container
  owner,      \* the request that created a container
  published,  \* the host addresses its ports are published on
  image,      \* the image the requests name is present
  bind,       \* bind_addr, given to SetPrivateBindIP
  pc, spec, made,                       \* create requests
  poll, todo, asking, kept,             \* refreshStats
  cached, age,                          \* globalStats.entries
  listing, seen, shown,                 \* a list request and its last answer
  log, watched, client, cancelled,      \* a log socket
  framed, guessed, garbled

engine == <<docker, state, owner, published, image>>
creating == <<pc, spec, made>>
cache == <<cached, age>>
polling == <<poll, todo, asking, kept>>
lists == <<listing, seen, shown>>
logs == <<log, watched, client, cancelled, framed, guessed, garbled>>
fixed == <<traffic, bind>>
vars == <<fixed, engine, creating, polling, cache, lists, logs>>

Exists(c) == state[c] \in {"created", "running", "stopped"}
Running == {c \in Ids : state[c] = "running"}

TypeOK ==
  /\ docker \in BOOLEAN /\ image \in BOOLEAN
  /\ state \in [Ids -> {"absent", "created", "running", "stopped", "removed"}]
  /\ owner \in [Ids -> Creates \cup {None}]
  /\ published \in [Ids -> SUBSET Addresses]
  /\ bind \in BindAddrs
  /\ pc \in [Creates -> {"idle", "create", "pull", "retry", "posted", "start", "ok", "failed"}]
  /\ spec \in [Creates -> Specs]
  /\ made \in [Creates -> Ids \cup {None}]
  /\ poll \in {"off", "idle", "list", "sample"}
  /\ todo \subseteq Ids /\ asking \subseteq Ids /\ kept \subseteq Ids
  /\ cached \subseteq Ids /\ age \in [Ids -> 0..MaxAge + 1]
  /\ listing \in {"idle", "merge"} /\ seen \subseteq Ids
  /\ shown \subseteq [id : Ids, age : 0..MaxAge + 1]
  /\ log \in {"idle", "check", "inspect", "attach", "stream"}
  /\ watched \in Ids /\ client \in {"here", "stalled", "gone"} /\ cancelled \in BOOLEAN
  /\ framed \in BOOLEAN /\ guessed \in BOOLEAN /\ garbled \in BOOLEAN

--------------------------------------------------------------------------------
(* Port specifications. *)

PrivateBindIP == IF bind \in {Unset, All} THEN Loopback ELSE bind

HostIPs(s) ==
  CASE s = Exposed -> {} [] s = Private -> {PrivateBindIP} [] OTHER -> {s}

--------------------------------------------------------------------------------

Init ==
  /\ traffic \in Traffics /\ bind \in BindAddrs
  /\ docker = TRUE /\ image \in BOOLEAN
  /\ state \in [Ids -> {"absent", "running"}]
  /\ owner = [c \in Ids |-> None] /\ published = [c \in Ids |-> {}]
  /\ pc = [r \in Creates |-> "idle"] /\ spec = [r \in Creates |-> Exposed]
  /\ made = [r \in Creates |-> None]
  /\ poll = "off" /\ todo = {} /\ asking = {} /\ kept = {}
  /\ cached = {} /\ age = [c \in Ids |-> 0]
  /\ listing = "idle" /\ seen = {} /\ shown = {}
  /\ log = "idle" /\ watched \in Ids /\ client = "here" /\ cancelled = FALSE
  /\ framed = FALSE /\ guessed = FALSE /\ garbled = FALSE

--------------------------------------------------------------------------------
(* The Engine, and POST /containers/{id}/{action}. *)

Becomes(c, s) ==
  /\ state' = [state EXCEPT ![c] = s]
  /\ UNCHANGED <<docker, owner, published, image>>

(* start, stop, restart and remove, which the Engine also refuses to       *)
(* repeat with an answer that counts as success.                           *)
ContainerAction(c) ==
  /\ docker /\ Exists(c)
  /\ \/ Becomes(c, "running")
     \/ state[c] = "running" /\ Becomes(c, "stopped")
     \/ Becomes(c, "removed")
  /\ UNCHANGED <<fixed, creating, polling, cache, lists, logs>>

(* dockerd stops, and its containers with it, or comes back.               *)
EngineTurns ==
  /\ docker' = ~docker
  /\ state' = [c \in Ids |-> IF state[c] = "running" THEN "stopped" ELSE state[c]]
  /\ UNCHANGED <<owner, published, image, fixed, creating, polling, cache, lists, logs>>

ImageRemoved ==
  /\ image /\ image' = FALSE /\ "create" \in traffic
  /\ UNCHANGED <<docker, state, owner, published>>
  /\ UNCHANGED <<fixed, creating, polling, cache, lists, logs>>

--------------------------------------------------------------------------------
(* CreateAndStartContainer. *)

Goto(r, step) == pc' = [pc EXCEPT ![r] = step]
OthersUntouched == UNCHANGED <<fixed, polling, cache, lists, logs>>

(* The request is checked before the Engine hears of it: a malformed port, *)
(* image or name, or an Engine that does not answer, ends it.              *)
Receive(r) ==
  /\ pc[r] = "idle" /\ "create" \in traffic
  /\ \/ /\ docker /\ Goto(r, "create")
        /\ \E s \in Specs : spec' = [spec EXCEPT ![r] = s]
     \/ Goto(r, "failed") /\ UNCHANGED spec
  /\ UNCHANGED <<made, engine>> /\ OthersUntouched

(* POST /containers/create: the Engine makes the container; the answer is  *)
(* still under way.                                                        *)
Post(r) ==
  /\ pc[r] \in {"create", "retry"}
  /\ docker /\ image
  /\ \E c \in Ids :
       /\ state[c] = "absent"
       /\ state' = [state EXCEPT ![c] = "created"]
       /\ owner' = [owner EXCEPT ![c] = r]
       /\ published' = [published EXCEPT ![c] = HostIPs(spec[r])]
       /\ made' = [made EXCEPT ![r] = c]
  /\ Goto(r, "posted")
  /\ UNCHANGED <<docker, image, spec>> /\ OthersUntouched

(* 404 for the image: pulled once; any other refusal, such as a name that  *)
(* a container already has, ends the request.                              *)
Refused(r) ==
  /\ docker /\ pc[r] \in {"create", "retry"}
  /\ \/ ~image /\ Goto(r, IF pc[r] = "create" THEN "pull" ELSE "failed")
     \/ (\E c \in Ids : Exists(c)) /\ Goto(r, "failed")
  /\ UNCHANGED <<engine, spec, made>> /\ OthersUntouched

(* PullImage reads the progress to its end and ignores what it says, so a  *)
(* pull that fails after it has begun is followed by the retry as well.    *)
Pull(r) ==
  /\ pc[r] = "pull" /\ docker
  /\ image' \in {image, TRUE}
  /\ Goto(r, "retry")
  /\ UNCHANGED <<docker, state, owner, published, spec, made>> /\ OthersUntouched

RetryCall(r) ==
  /\ pc[r] \in {"create", "pull", "retry", "posted"}
  /\ Goto(r, "retry")
  /\ UNCHANGED <<engine, spec, made>> /\ OthersUntouched

(* The call fails, the client has hung up and its context is cancelled, or *)
(* the pull has taken three minutes.  An answer under way is lost.         *)
CallFails(r) ==
  /\ pc[r] \in {"create", "pull", "retry", "posted"}
  /\ Goto(r, "failed")
  /\ UNCHANGED <<engine, spec, made>> /\ OthersUntouched

Answered(r) ==
  /\ pc[r] = "posted"
  /\ Goto(r, "start")
  /\ UNCHANGED <<engine, spec, made>> /\ OthersUntouched

StartUnchecked(r) ==
  /\ pc[r] = "start"
  /\ \/ docker /\ Exists(made[r]) /\ Becomes(made[r], "running")
     \/ UNCHANGED engine
  /\ Goto(r, "ok")
  /\ UNCHANGED <<spec, made>> /\ OthersUntouched

(* ContainerAction(id, "start"), which no hang-up cancels.  A failure      *)
(* leaves the container behind.                                            *)
Start(r) ==
  /\ pc[r] = "start"
  /\ \/ docker /\ Exists(made[r]) /\ Becomes(made[r], "running") /\ Goto(r, "ok")
     \/ Goto(r, "failed") /\ UNCHANGED engine
  /\ UNCHANGED <<spec, made>> /\ OthersUntouched

Create(r) == Receive(r) \/ Post(r) \/ Refused(r) \/ Pull(r) \/ CallFails(r) \/ Answered(r) \/ Start(r)

--------------------------------------------------------------------------------
(* refreshStats, one pass after another in one goroutine. *)

PollUntouched == UNCHANGED <<fixed, engine, creating, lists, logs>>

PollBegins ==
  /\ poll = "idle"
  /\ \/ cached' = {} /\ age' = [c \in Ids |-> 0] /\ UNCHANGED poll
     \/ docker /\ poll' = "list" /\ UNCHANGED cache
  /\ UNCHANGED <<todo, asking, kept>> /\ PollUntouched

PollListsKeeping ==
  /\ poll = "list" /\ docker
  /\ poll' = "sample" /\ kept' = Running /\ todo' = Running
  /\ UNCHANGED <<asking, cache>> /\ PollUntouched

(* ListContainers, then prune.  Only the containers running now are        *)
(* sampled and kept.                                                       *)
PollLists ==
  /\ poll = "list" /\ docker
  /\ poll' = "sample"
  /\ kept' = Running /\ todo' = Running
  /\ cached' = cached \cap Running
  /\ age' = [c \in Ids |-> IF c \in cached' THEN age[c] ELSE 0]
  /\ UNCHANGED asking /\ PollUntouched

PollListFails ==
  /\ poll = "list" /\ poll' = "idle"
  /\ UNCHANGED <<todo, asking, kept, cache>> /\ PollUntouched

(* A goroutine per container, as many at once as the semaphore lets.       *)
Sample(c) ==
  /\ poll = "sample" /\ c \in todo
  /\ Cardinality(asking) < Concurrency
  /\ todo' = todo \ {c} /\ asking' = asking \cup {c}
  /\ UNCHANGED <<poll, kept, cache>> /\ PollUntouched

(* ContainerStats answers, for a stopped container as well, or fails or    *)
(* takes four seconds.                                                     *)
Put(c) ==
  /\ c \in asking /\ asking' = asking \ {c}
  /\ \/ docker /\ Exists(c) /\ cached' = cached \cup {c} /\ age' = [age EXCEPT ![c] = 0]
     \/ UNCHANGED cache
  /\ UNCHANGED <<poll, todo, kept>> /\ PollUntouched

PollEndsEarly ==
  /\ poll = "sample" /\ todo = {} /\ poll' = "idle"
  /\ UNCHANGED <<todo, asking, kept, cache>> /\ PollUntouched

(* wg.Wait: no sample outlives its pass.                                   *)
PollEnds ==
  /\ poll = "sample" /\ todo = {} /\ asking = {}
  /\ poll' = "idle"
  /\ UNCHANGED <<todo, asking, kept, cache>> /\ PollUntouched

Tick ==
  /\ \E c \in cached : age[c] <= MaxAge
  /\ age' = [c \in Ids |-> IF c \in cached /\ age[c] <= MaxAge THEN age[c] + 1 ELSE age[c]]
  /\ UNCHANGED <<cached, polling>> /\ PollUntouched

--------------------------------------------------------------------------------
(* ContainersHandler. *)

ListAsks ==
  /\ listing = "idle" /\ "list" \in traffic
  /\ poll' = IF poll = "off" THEN "idle" ELSE poll
  /\ shown' = {}
  /\ \/ docker /\ seen' = Running /\ listing' = "merge"
     \/ seen' = {} /\ UNCHANGED listing
  /\ UNCHANGED <<todo, asking, kept, fixed, engine, creating, cache, logs>>

Figures(S) == {[id |-> c, age |-> age[c]] : c \in S}

MergeUnchecked ==
  /\ listing = "merge" /\ listing' = "idle"
  /\ shown' = Figures(seen \cap cached)
  /\ UNCHANGED <<seen, fixed, engine, creating, polling, cache, logs>>

(* mergeStats, when the Engine's list has been read.                       *)
Merge ==
  /\ listing = "merge" /\ listing' = "idle"
  /\ shown' = Figures({c \in seen \cap cached : age[c] <= MaxAge})
  /\ UNCHANGED <<seen, fixed, engine, creating, polling, cache, logs>>

--------------------------------------------------------------------------------
(* ContainerLogsWsHandler: one socket, on any container. *)

LogUntouched == UNCHANGED <<fixed, engine, creating, polling, cache, lists>>
SocketKept == UNCHANGED <<watched, client, cancelled>>

(* The deferred calls close the socket and the Engine's stream, and with   *)
(* them ends the goroutine that reads the socket.                          *)
LogReturns ==
  /\ log' = "idle" /\ client' = "here" /\ cancelled' = FALSE
  /\ framed' = FALSE /\ guessed' = FALSE /\ garbled' = FALSE
  /\ UNCHANGED watched

Open ==
  /\ log = "idle" /\ "logs" \in traffic
  /\ log' = "check" /\ watched' \in Ids
  /\ UNCHANGED <<client, cancelled, framed, guessed, garbled>> /\ LogUntouched

(* IsAvailable, bounded by three seconds of its own.                       *)
Check ==
  /\ log = "check"
  /\ \/ docker /\ log' = "inspect" /\ UNCHANGED <<framed, guessed, garbled>> /\ SocketKept
     \/ LogReturns
  /\ LogUntouched

(* IsTTY: a failed inspection counts as no TTY.                            *)
Inspect ==
  /\ log = "inspect" /\ log' = "attach"
  /\ \/ docker /\ ~cancelled /\ Exists(watched)
        /\ framed' = (watched \notin Ttys) /\ UNCHANGED guessed
     \/ framed' = TRUE /\ guessed' = TRUE
  /\ UNCHANGED garbled /\ SocketKept /\ LogUntouched

(* StreamLogsReader.                                                       *)
Attach ==
  /\ log = "attach"
  /\ \/ docker /\ ~cancelled /\ Exists(watched) /\ log' = "stream"
        /\ UNCHANGED <<framed, guessed, garbled>> /\ SocketKept
     \/ LogReturns
  /\ LogUntouched

(* The container prints.  The line is parsed in the mode chosen; a header  *)
(* read out of raw bytes may also announce too large a payload.  A write   *)
(* to a client that is gone, or stalled past its deadline, fails.          *)
Line ==
  /\ log = "stream" /\ docker /\ state[watched] = "running"
  /\ \/ client = "here"
        /\ garbled' = (garbled \/ framed # (watched \notin Ttys))
        /\ UNCHANGED <<log, framed, guessed>> /\ SocketKept
     \/ (client # "here" \/ (framed /\ watched \in Ttys)) /\ LogReturns
  /\ LogUntouched

StreamEnds ==
  /\ log = "stream"
  /\ cancelled \/ ~docker \/ state[watched] \in {"stopped", "removed"}
  /\ LogReturns /\ LogUntouched

ClientTurns ==
  /\ log # "idle" /\ client = "here"
  /\ client' \in {"stalled", "gone"}
  /\ UNCHANGED <<log, watched, cancelled, framed, guessed, garbled>> /\ LogUntouched

NoticeOnly ==
  /\ log # "idle" /\ client = "gone" /\ ~cancelled
  /\ UNCHANGED vars

(* The reading goroutine: ReadMessage fails, and it cancels the context.   *)
Notice ==
  /\ log # "idle" /\ client = "gone" /\ ~cancelled
  /\ cancelled' = TRUE
  /\ UNCHANGED <<log, watched, client, framed, guessed, garbled>> /\ LogUntouched

--------------------------------------------------------------------------------

Poller ==
  \/ PollBegins \/ PollLists \/ PollListFails \/ PollEnds
  \/ \E c \in Ids : Sample(c) \/ Put(c)

Logs == Open \/ Check \/ Inspect \/ Attach \/ Line \/ StreamEnds \/ ClientTurns \/ Notice

Next ==
  \/ \E c \in Ids : ContainerAction(c)
  \/ EngineTurns \/ ImageRemoved
  \/ \E r \in Creates : Create(r)
  \/ Poller \/ Tick
  \/ ListAsks \/ Merge
  \/ Logs

Spec == Init /\ [][Next]_vars

(* The poller's ticker goes on, and its calls are bounded by ten and four  *)
(* seconds; an Engine that answers at all answers its list some time.  A   *)
(* log handler's calls return once its context is cancelled; nothing is    *)
(* assumed of what the container prints.                                   *)
Fairness ==
  /\ WF_vars(PollBegins) /\ WF_vars(PollListFails) /\ SF_vars(PollLists) /\ WF_vars(PollEnds)
  /\ \A c \in Ids : WF_vars(Sample(c)) /\ WF_vars(Put(c))
  /\ WF_vars(Notice) /\ WF_vars(Check)
  /\ WF_vars(cancelled /\ (Inspect \/ Attach \/ StreamEnds))

FairSpec == Spec /\ Fairness

--------------------------------------------------------------------------------
(* Properties. *)

(* The cache holds only containers that were running when the last pass    *)
(* listed them: no sample that was under way brings back what a later pass *)
(* has pruned, so the map cannot grow with containers that are gone.       *)
CacheOfLastPass == cached \subseteq kept

(* At most statsConcurrency samples wait on the Engine's socket.           *)
SamplingBounded == IsFiniteSet(asking) /\ Cardinality(asking) <= Concurrency

(* A figure in an answer is of a container the same answer lists as        *)
(* running and at most statsMaxAge old, also when the poller has stalled,  *)
(* failed or pruned between the Engine's list and the merge.               *)
NoStaleFigures == \A f \in shown : f.id \in seen /\ f.age <= MaxAge

(* A create request makes at most one container, whatever it retries and   *)
(* whichever answer is lost.                                               *)
OneContainerPerRequest ==
  \A c, d \in Ids : owner[c] # None /\ owner[c] = owner[d] => c = d

(* "created and started successfully" is said only of a container of the   *)
(* request's own that has been started.                                    *)
SuccessMeansStarted ==
  \A r \in Creates : pc[r] = "ok" =>
    owner[made[r]] = r /\ state[made[r]] \notin {"absent", "created"}

(* A port is published on every interface only by a request that names     *)
(* 0.0.0.0; otherwise on loopback, the tunnel or the address it names.     *)
PublishedAsAsked ==
  \A c \in Ids : owner[c] # None =>
    \A a \in published[c] : a \in {Loopback, Tunnel} \/ a = spec[owner[c]]

(* Log lines are parsed in the container's own format unless its           *)
(* inspection failed.                                                      *)
GarbledOnlyIfGuessed == garbled => guessed

(* The figures of a removed container leave the cache.                     *)
EntryGoes == \A c \in Ids : c \in cached /\ state[c] = "removed" ~> c \notin cached

(* The handler of a client that has hung up returns, and closes the        *)
(* Engine's stream, even if the container never prints again.              *)
LogsEnd == client = "gone" ~> log = "idle"

================================================================================
