--------------------------------- MODULE Monitor ---------------------------------
(***************************************************************************)
(* The metrics of archangeld: a collector that reads the counters of the   *)
(* kernel every two seconds and shows differences, rates and a short       *)
(* history of them, and the socket that streams what it shows.             *)
(*                                                                         *)
(* Row 0 of /proc/stat is the total, the others are the cores, and only    *)
(* the cores that are online have one.  Counters are unsigned: a           *)
(* difference is taken modulo Width.                                       *)
(***************************************************************************)
EXTENDS Integers, Sequences, FiniteSets

CONSTANTS
  Cores,       \* 1..n
  Links,       \* the network interfaces there may be, lo aside
  Width,       \* 2^64 in the code
  MaxCount,    \* bound of the model on every counter
  MaxPasses,   \* bound of the model on the passes of one process
  MaxHistory,  \* maxHistory
  Rates,       \* intervals within 250..30000 ms a client may ask for
  Invalid,     \* one outside
  Default,     \* two seconds
  RateCap      \* capacity of rateCh

ASSUME MonitorAssumption ==
  /\ Cores \subseteq Nat \ {0} /\ IsFiniteSet(Cores)
  /\ Width \in Nat /\ MaxCount \in Nat /\ 2 * MaxCount < Width
  /\ MaxPasses \in Nat /\ MaxHistory \in Nat \ {0} /\ RateCap \in Nat \ {0}
  /\ Invalid \notin Rates

Rows == {0} \cup Cores
NoSample == -1

VARIABLES
  busy, idle, online,                  \* /proc/stat
  lastBusy, lastIdle, lastOnline,      \* prevTotalCPU, prevCores
  ran, passed, stepped,                \* what has happened since it was read
  cpuAssumed, netAssumed,              \* the last pass showed constants instead of readings
  links, count, base, moved,           \* /proc/net/dev, prevNetIf, and since it was read
  sectors, lastSectors, transferred,   \* the sum of /proc/diskstats, prevDiskRead and prevDiskWrite
  n, history,                          \* passes, and the passes the rings hold
  sock, peer, pend, rate, wanted, lost \* a stats socket

cpuVars == <<busy, idle, online, lastBusy, lastIdle, lastOnline, ran, passed, stepped, cpuAssumed>>
netVars == <<links, count, base, moved, netAssumed>>
diskVars == <<sectors, lastSectors, transferred>>
sockVars == <<sock, peer, pend, rate, wanted, lost>>
monitorVars == <<cpuVars, netVars, diskVars, n, history, sockVars>>

MonitorTypeOK ==
  /\ busy \in [Rows -> Nat] /\ idle \in [Rows -> Nat]
  /\ lastBusy \in [Rows -> Nat] /\ lastIdle \in [Rows -> Nat]
  /\ ran \in [Rows -> Nat] /\ passed \in [Rows -> Nat] /\ stepped \in BOOLEAN
  /\ cpuAssumed \in BOOLEAN /\ netAssumed \in BOOLEAN
  /\ online \subseteq Cores /\ lastOnline \subseteq Cores
  /\ links \subseteq Links /\ count \in [Links -> Nat] /\ moved \in [Links -> Nat]
  /\ base \in [Links -> Nat \cup {NoSample}]
  /\ sectors \in Nat /\ lastSectors \in Nat /\ transferred \in Nat
  /\ n \in Nat /\ history \in Seq(Nat)
  /\ sock \in {"idle", "first", "loop", "write"} /\ peer \in {"here", "stalled", "gone"}
  /\ pend \in Seq(Rates) /\ Len(pend) <= RateCap /\ lost \in BOOLEAN
  /\ rate \in Rates \cup {Default} /\ wanted \in Rates \cup {Default}

--------------------------------------------------------------------------------
(* What a pass makes of the counters it reads. *)

(* Cores are told apart by their place among the lines, as in prevCores[i]. *)
Place(S, c) == Cardinality({d \in S : d <= c})
Before(r) ==
  IF r = 0 THEN {0} ELSE {p \in lastOnline : Place(lastOnline, p) = Place(online, r)}

(* <<busy, total>> ticks of row r, of which the quotient is shown.         *)
Usage(r) ==
  IF Before(r) = {} THEN <<0, 0>>
  ELSE LET p == CHOOSE q \in Before(r) : TRUE
       IN <<(busy[r] - lastBusy[p]) % Width,
            (busy[r] + idle[r] - lastBusy[p] - lastIdle[p]) % Width>>

(* The amounts that are divided by the time since the last pass, although  *)
(* base may be older than that: the rate shown is then too high.           *)
NetAmountUnguarded(l) == IF base[l] # NoSample THEN (count[l] - base[l]) % Width ELSE 0
NetAmount(l) == IF base[l] # NoSample /\ count[l] >= base[l] THEN count[l] - base[l] ELSE 0
DiskAmount == IF lastSectors > 0 /\ sectors >= lastSectors THEN sectors - lastSectors ELSE 0

AppendRing(s, v) == LET t == Append(s, v) IN IF Len(t) > MaxHistory THEN Tail(t) ELSE t

--------------------------------------------------------------------------------

(* A process that has collected nothing yet.  What has happened since boot *)
(* is what its first pass shows as the total.                              *)
Fresh ==
  /\ lastBusy' = [r \in Rows |-> 0] /\ lastIdle' = [r \in Rows |-> 0] /\ lastOnline' = {}
  /\ ran' = busy /\ passed' = [r \in Rows |-> busy[r] + idle[r]] /\ stepped' = FALSE /\ cpuAssumed' = FALSE
  /\ base' = [l \in Links |-> NoSample] /\ moved' = [l \in Links |-> 0] /\ netAssumed' = FALSE
  /\ lastSectors' = 0 /\ transferred' = 0
  /\ n' = 0 /\ history' = <<>>
  /\ sock' = "idle" /\ peer' = "here" /\ pend' = <<>> /\ rate' = Default /\ wanted' = Default /\ lost' = FALSE
  /\ UNCHANGED <<busy, idle, online, links, count, sectors>>

MonitorInit ==
  /\ busy = [r \in Rows |-> 0] /\ idle = busy /\ online = Cores
  /\ lastBusy = busy /\ lastIdle = busy /\ lastOnline = {}
  /\ ran = busy /\ passed = busy /\ stepped = FALSE /\ cpuAssumed = FALSE /\ netAssumed = FALSE
  /\ links = Links /\ count = [l \in Links |-> 0] /\ moved = count /\ base = [l \in Links |-> NoSample]
  /\ sectors = 0 /\ lastSectors = 0 /\ transferred = 0
  /\ n = 0 /\ history = <<>>
  /\ sock = "idle" /\ peer = "here" /\ pend = <<>> /\ rate = Default /\ wanted = Default /\ lost = FALSE

CpuOnly == UNCHANGED <<netVars, diskVars, n, history, sockVars>>
NetOnly == UNCHANGED <<cpuVars, diskVars, n, history, sockVars>>
DiskOnly == UNCHANGED <<cpuVars, netVars, n, history, sockVars>>
SockOnly == UNCHANGED <<cpuVars, netVars, diskVars, n, history>>

--------------------------------------------------------------------------------
(* The kernel's counters. *)

CpuTicks(c) ==
  /\ c \in online /\ \A r \in {0, c} : passed[r] < MaxCount /\ busy[r] + idle[r] < 2 * MaxCount
  /\ passed' = [passed EXCEPT ![0] = @ + 1, ![c] = @ + 1]
  /\ \/ /\ busy' = [busy EXCEPT ![0] = @ + 1, ![c] = @ + 1]
        /\ ran' = [ran EXCEPT ![0] = @ + 1, ![c] = @ + 1]
        /\ UNCHANGED idle
     \/ /\ idle' = [idle EXCEPT ![0] = @ + 1, ![c] = @ + 1]
        /\ UNCHANGED <<busy, ran>>
  /\ UNCHANGED <<online, lastBusy, lastIdle, lastOnline, stepped, cpuAssumed>> /\ CpuOnly

(* The waiting time of a core is taken back.                               *)
IdleStepsBack(c) ==
  /\ c \in online /\ idle[c] > 0 /\ idle[0] > 0
  /\ idle' = [idle EXCEPT ![0] = @ - 1, ![c] = @ - 1]
  /\ stepped' = TRUE
  /\ UNCHANGED <<busy, online, lastBusy, lastIdle, lastOnline, ran, passed, cpuAssumed>> /\ CpuOnly

CoreTurns(c) ==
  /\ online' \in {online \cup {c}, online \ {c}} /\ online' \notin {online, {}}
  /\ UNCHANGED <<busy, idle, lastBusy, lastIdle, lastOnline, ran, passed, stepped, cpuAssumed>> /\ CpuOnly

Traffic(l) ==
  /\ l \in links /\ count[l] < MaxCount /\ moved[l] < 2 * MaxCount
  /\ count' = [count EXCEPT ![l] = @ + 1] /\ moved' = [moved EXCEPT ![l] = @ + 1]
  /\ UNCHANGED <<links, base, netAssumed>> /\ NetOnly

(* An interface is taken down, or set up anew with counters at 0.          *)
LinkTurns(l) ==
  /\ links' = IF l \in links THEN links \ {l} ELSE links \cup {l}
  /\ count' = [count EXCEPT ![l] = 0]
  /\ UNCHANGED <<base, moved, netAssumed>> /\ NetOnly

DiskTransfer ==
  /\ sectors < MaxCount /\ transferred < 2 * MaxCount
  /\ sectors' = sectors + 1 /\ transferred' = transferred + 1
  /\ UNCHANGED lastSectors /\ DiskOnly

(* A device goes, and its counters with it.                                *)
DiskGoes ==
  /\ sectors > 0 /\ sectors' \in 0..sectors - 1
  /\ UNCHANGED <<lastSectors, transferred>> /\ DiskOnly

CpuKernel == \E c \in Cores : CpuTicks(c) \/ IdleStepsBack(c) \/ CoreTurns(c)
NetKernel == \E l \in Links : Traffic(l) \/ LinkTurns(l)
DiskKernel == DiskTransfer \/ DiskGoes

--------------------------------------------------------------------------------
(* Collect, under the collector's mutex, and the rest of the collector.    *)

CollectTotalOnly ==
  /\ lastBusy' = [lastBusy EXCEPT ![0] = busy[0]] /\ lastIdle' = [lastIdle EXCEPT ![0] = idle[0]]
  /\ lastOnline' = online
  /\ ran' = [r \in Rows |-> 0] /\ passed' = ran' /\ stepped' = FALSE /\ cpuAssumed' = FALSE

CollectCPU ==
  /\ lastBusy' = busy /\ lastIdle' = idle /\ lastOnline' = online
  /\ ran' = [r \in Rows |-> 0] /\ passed' = ran' /\ stepped' = FALSE /\ cpuAssumed' = FALSE

(* /proc/stat cannot be opened: 18.4 percent, 15 to 25 of a core.          *)
FallbackCPU == cpuAssumed' = TRUE /\ UNCHANGED <<lastBusy, lastIdle, lastOnline, ran, passed, stepped>>

(* The sample of an interface that is down is kept.  When none is up,      *)
(* constants are shown of an eth0.                                         *)
CollectNetwork ==
  /\ base' = [l \in Links |-> IF l \in links THEN count[l] ELSE base[l]]
  /\ moved' = [l \in Links |-> IF l \in links THEN 0 ELSE moved[l]]
  /\ netAssumed' = (links = {})

(* /proc/net/dev cannot be opened: the same constants.                     *)
FallbackNetwork == netAssumed' = TRUE /\ UNCHANGED <<base, moved>>

CollectDisk == lastSectors' = sectors /\ transferred' = 0

(* Any of the files may fail to open; the previous reading is then kept.   *)
Collect ==
  /\ n < MaxPasses
  /\ CollectCPU \/ FallbackCPU
  /\ CollectNetwork \/ FallbackNetwork
  /\ CollectDisk \/ UNCHANGED <<lastSectors, transferred>>
  /\ n' = n + 1 /\ history' = AppendRing(history, n + 1)
  /\ UNCHANGED <<busy, idle, online, links, count, sectors>>

(* GetCollector makes the first pass before any handler is answered; the   *)
(* loop makes the others.                                                  *)
Pass == Collect /\ UNCHANGED sockVars

--------------------------------------------------------------------------------
(* StatsWsHandler. *)

SockReturns ==
  /\ sock' = "idle" /\ peer' = "here" /\ pend' = <<>> /\ rate' = Default /\ wanted' = Default /\ lost' = FALSE

Connect ==
  /\ sock = "idle" /\ n > 0 /\ sock' = "first"
  /\ UNCHANGED <<peer, pend, rate, wanted, lost>> /\ SockOnly

FirstWrite ==
  /\ sock = "first"
  /\ \/ sock' = "loop" /\ UNCHANGED <<peer, pend, rate, wanted, lost>>
     \/ peer = "gone" /\ SockReturns
  /\ SockOnly

(* set_rate: the reading goroutine never waits for the handler, and drops  *)
(* a change when rateCh is full.                                           *)
SetRate(v) ==
  /\ sock \in {"loop", "write"} /\ peer = "here"
  /\ IF v = Invalid THEN UNCHANGED <<pend, wanted, lost>>
     ELSE /\ wanted' = v /\ lost' = (Len(pend) >= RateCap)
          /\ pend' = IF Len(pend) < RateCap THEN Append(pend, v) ELSE pend
  /\ UNCHANGED <<sock, peer, rate>> /\ SockOnly

TakeNewest ==
  /\ sock = "loop" /\ pend # <<>>
  /\ rate' = pend[Len(pend)] /\ pend' = SubSeq(pend, 1, Len(pend) - 1)
  /\ UNCHANGED <<sock, peer, wanted, lost>> /\ SockOnly

(* ticker.Reset.                                                           *)
TakeRate ==
  /\ sock = "loop" /\ pend # <<>>
  /\ rate' = Head(pend) /\ pend' = Tail(pend)
  /\ UNCHANGED <<sock, peer, wanted, lost>> /\ SockOnly

Tick ==
  /\ sock = "loop" /\ sock' = "write"
  /\ UNCHANGED <<peer, pend, rate, wanted, lost>> /\ SockOnly

(* Bounded by five seconds.                                                *)
Written ==
  /\ sock = "write"
  /\ \/ peer = "here" /\ sock' = "loop" /\ UNCHANGED <<peer, pend, rate, wanted, lost>>
     \/ peer # "here" /\ SockReturns
  /\ SockOnly

(* The read fails and done is closed.                                      *)
HangUpSeen == sock = "loop" /\ peer = "gone" /\ SockReturns /\ SockOnly

PeerTurns ==
  /\ sock # "idle" /\ peer = "here" /\ peer' \in {"stalled", "gone"}
  /\ UNCHANGED <<sock, pend, rate, wanted, lost>> /\ SockOnly

StatsSocket ==
  \/ Connect \/ FirstWrite \/ TakeRate \/ Tick \/ Written \/ HangUpSeen \/ PeerTurns
  \/ \E v \in Rates \cup {Invalid} : SetRate(v)

--------------------------------------------------------------------------------
(* Properties. *)

(* While no counter goes back and no core has come or gone since the last  *)
(* pass, the share of a core, and of all, that a pass shows which can read *)
(* /proc/stat is the time it was busy since the last that could, however   *)
(* the lines are matched up.                                               *)
UsageIsShare ==
  ~stepped /\ lastOnline \in {online, {}} =>
    \A r \in {0} \cup lastOnline : Usage(r) = <<ran[r], passed[r]>>

(* What the rate of an interface, or of the disks, is made from is at most *)
(* what they have moved since they were last read, also when an interface  *)
(* came back with other counters, a disk has gone, or a file could not be  *)
(* read for some passes.  Figures that no interface was read for are the   *)
(* constants, and netAssumed says so.                                      *)
AmountsAreReal ==
  /\ \A l \in links : NetAmount(l) <= moved[l]
  /\ DiskAmount <= transferred
  /\ n > 0 /\ ~netAssumed => \E l \in Links : base[l] # NoSample

(* The rings hold the last passes, the newest at the end.                  *)
HistoryIsRecent ==
  /\ Len(history) = IF n < MaxHistory THEN n ELSE MaxHistory
  /\ \A i \in 1..Len(history) : history[i] = n - Len(history) + i

(* The interval of a socket is, or is about to be, the one last asked for, *)
(* unless the queue was full when it was.                                  *)
RateFollows ==
  sock # "idle" /\ ~lost => wanted = IF pend = <<>> THEN rate ELSE pend[Len(pend)]

================================================================================
