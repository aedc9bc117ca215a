------------------------------- MODULE Terminal -------------------------------
(***************************************************************************)
(* GET /ws/terminal: each connection bridges a WebSocket to a PTY.  A      *)
(* handler goroutine takes one of MaxSessions slots, upgrades, registers   *)
(* the connection for CloseAll, starts a shell (a tmux client) on a PTY    *)
(* and reads frames; a second goroutine copies PTY output to the socket.   *)
(* The two share the socket's write mutex and its read deadline.           *)
(***************************************************************************)
EXTENDS Integers, FiniteSets

CONSTANTS
  Conns,        \* client connections
  MaxSessions,  \* terminal.MaxSessions
  Stalls        \* TRUE: a client may keep its socket open and stop reading it

ASSUME ConstantsAssumption ==
  /\ IsFiniteSet(Conns)
  /\ MaxSessions \in Nat \ {0}
  /\ Stalls \in BOOLEAN

VARIABLES
  active,      \* activeSessions
  registered,  \* the sessions map
  daemon,      \* the archangeld process
  pc,          \* where each connection's handler is
  cur,         \* the count tryAcquireSession loaded
  rd,          \* where the PTY-output goroutine is
  child,       \* the shell process
  mu,          \* who holds writeMu
  closed,      \* conn.Close was called
  deadline,    \* the read deadline lies in the future, or has passed
  frame,       \* the frame the handler has read
  buffered,    \* the next frame, when one read of the socket brought two
  inbox,       \* a frame on its way from the client
  client       \* what the client does

handlers == <<pc, cur, rd, child, mu, closed, deadline, frame, buffered>>
clients == <<inbox, client>>
vars == <<active, registered, daemon, handlers, clients>>

Frames == {"ping", "stdin", "other"}
Serving == {"loop", "got", "handle", "pong", "ponging"}
Cleanup == {"kill", "wait", "join", "last", "leave"}
Steps == {"idle", "load", "cas", "slot", "open", "start"} \cup Serving \cup Cleanup

(* A client that is "quiet" sends nothing, a "stalled" one neither sends   *)
(* nor reads; the socket of one that is "gone" reports an error.           *)
Moods == {"none", "talking", "quiet", "stalled", "gone"}

TypeOK ==
  /\ active \in 0..MaxSessions
  /\ registered \subseteq Conns
  /\ daemon \in {"up", "draining", "exited"}
  /\ pc \in [Conns -> Steps]
  /\ cur \in [Conns -> 0..MaxSessions]
  /\ rd \in [Conns -> {"none", "read", "lock", "send", "eof", "done"}]
  /\ child \in [Conns -> {"none", "running", "exited", "reaped"}]
  /\ mu \in [Conns -> {"free", "main", "rd"}]
  /\ closed \in [Conns -> BOOLEAN]
  /\ deadline \in [Conns -> {"none", "future", "past"}]
  /\ frame \in [Conns -> Frames \cup {"none"}]
  /\ buffered \in [Conns -> Frames \cup {"none"}]
  /\ inbox \in [Conns -> Frames \cup {"none"}]
  /\ client \in [Conns -> Moods]

Each(v) == [c \in Conns |-> v]

Init ==
  /\ active = 0 /\ registered = {} /\ daemon = "up"
  /\ pc = Each("idle") /\ cur = Each(0) /\ rd = Each("none")
  /\ child = Each("none") /\ mu = Each("free") /\ closed = Each(FALSE)
  /\ deadline = Each("none") /\ frame = Each("none") /\ buffered = Each("none")
  /\ inbox = Each("none") /\ client = Each("none")

At(c, step) == daemon # "exited" /\ pc[c] = step
Goto(c, step) == pc' = [pc EXCEPT ![c] = step]

(* A read or write on the socket fails.                                    *)
Broken(c) == closed[c] \/ client[c] = "gone"

(* A write returns: with an error, or because the client reads.            *)
WriteReturns(c) == Broken(c) \/ client[c] # "stalled"

--------------------------------------------------------------------------------
(* Connecting. *)

Dial(c) ==
  /\ At(c, "idle") /\ client[c] = "none"
  /\ Goto(c, "load")
  /\ client' = [client EXCEPT ![c] = "talking"]
  /\ UNCHANGED <<active, registered, daemon, cur, rd, child, mu, closed, deadline, frame, buffered, inbox>>

HangUp(c) == client' = [client EXCEPT ![c] = "none"]

(* tryAcquireSession loads the counter, and answers 503 at the cap ...     *)
LoadCount(c) ==
  /\ At(c, "load")
  /\ IF active >= MaxSessions
     THEN Goto(c, "idle") /\ HangUp(c) /\ UNCHANGED cur
     ELSE Goto(c, "cas") /\ cur' = [cur EXCEPT ![c] = active] /\ UNCHANGED client
  /\ UNCHANGED <<active, registered, daemon, rd, child, mu, closed, deadline, frame, buffered, inbox>>

AddWithoutCompare(c) ==
  /\ At(c, "cas")
  /\ active' = active + 1
  /\ Goto(c, "slot")
  /\ cur' = [cur EXCEPT ![c] = 0]
  /\ UNCHANGED <<registered, daemon, rd, child, mu, closed, deadline, frame, buffered, clients>>

(* ... then adds one if nobody changed it meanwhile, or loads it again.    *)
CompareAndSwap(c) ==
  /\ At(c, "cas")
  /\ IF active = cur[c] THEN active' = active + 1 /\ Goto(c, "slot")
                        ELSE UNCHANGED active /\ Goto(c, "load")
  /\ cur' = [cur EXCEPT ![c] = 0]
  /\ UNCHANGED <<registered, daemon, rd, child, mu, closed, deadline, frame, buffered, clients>>

Upgrade(c) ==
  /\ At(c, "slot")
  /\ Goto(c, "open")
  /\ UNCHANGED <<active, registered, daemon, cur, rd, child, mu, closed, deadline, frame, buffered, clients>>

(* The upgrade fails: only the slot is given back.                         *)
UpgradeFails(c) ==
  /\ At(c, "slot")
  /\ Goto(c, "idle")
  /\ active' = active - 1
  /\ HangUp(c)
  /\ inbox' = [inbox EXCEPT ![c] = "none"]
  /\ UNCHANGED <<registered, daemon, cur, rd, child, mu, closed, deadline, frame, buffered>>

RegisterWithoutDeadline(c) ==
  /\ At(c, "open")
  /\ registered' = registered \cup {c}
  /\ Goto(c, "start")
  /\ UNCHANGED <<active, daemon, cur, rd, child, mu, closed, deadline, frame, buffered, clients>>

Register(c) ==
  /\ At(c, "open")
  /\ registered' = registered \cup {c}
  /\ deadline' = [deadline EXCEPT ![c] = "future"]
  /\ Goto(c, "start")
  /\ UNCHANGED <<active, daemon, cur, rd, child, mu, closed, frame, buffered, clients>>

(* ensureServer (TmuxServer) and pty.Start; then the reading goroutine.    *)
StartShell(c) ==
  /\ At(c, "start")
  /\ child' = [child EXCEPT ![c] = "running"]
  /\ rd' = [rd EXCEPT ![c] = "read"]
  /\ Goto(c, "loop")
  /\ UNCHANGED <<active, registered, daemon, cur, mu, closed, deadline, frame, buffered, clients>>

(* pty.Start fails: an error frame, and the deferred calls.                *)
StartFails(c) ==
  /\ At(c, "start") /\ WriteReturns(c)
  /\ Goto(c, "leave")
  /\ UNCHANGED <<active, registered, daemon, cur, rd, child, mu, closed, deadline, frame, buffered, clients>>

--------------------------------------------------------------------------------
(* The handler's loop. *)

(* ReadMessage returns a frame.  A read from the socket may bring a second *)
(* frame, which ReadMessage then returns without touching the socket, and  *)
(* so even past the deadline.                                              *)
ReadSocket(c) ==
  /\ At(c, "loop")
  /\ buffered[c] = "none" /\ inbox[c] # "none" /\ ~closed[c] /\ deadline[c] # "past"
  /\ frame' = [frame EXCEPT ![c] = inbox[c]]
  /\ inbox' = [inbox EXCEPT ![c] = "none"]
  /\ \E f \in IF client[c] = "talking" THEN Frames \cup {"none"} ELSE {"none"} :
       buffered' = [buffered EXCEPT ![c] = f]
  /\ Goto(c, "got")
  /\ UNCHANGED <<active, registered, daemon, cur, rd, child, mu, closed, deadline, client>>

ReadBuffered(c) ==
  /\ At(c, "loop")
  /\ buffered[c] # "none"
  /\ frame' = [frame EXCEPT ![c] = buffered[c]]
  /\ buffered' = [buffered EXCEPT ![c] = "none"]
  /\ Goto(c, "got")
  /\ UNCHANGED <<active, registered, daemon, cur, rd, child, mu, closed, deadline, clients>>

ReadFails(c) ==
  /\ At(c, "loop")
  /\ buffered[c] = "none"
  /\ Broken(c) \/ deadline[c] = "past"
  /\ Goto(c, "kill")
  /\ UNCHANGED <<active, registered, daemon, cur, rd, child, mu, closed, deadline, frame, buffered, clients>>

Refresh(c) ==
  /\ At(c, "got")
  /\ deadline' = [deadline EXCEPT ![c] = "future"]
  /\ Goto(c, "handle")
  /\ UNCHANGED <<active, registered, daemon, cur, rd, child, mu, closed, frame, buffered, clients>>

(* stdin goes to the PTY, which fails once the shell has exited; a ping is *)
(* answered; a resize, or a frame that does not decode, changes nothing.   *)
Handle(c) ==
  /\ At(c, "handle")
  /\ Goto(c, CASE frame[c] = "stdin" /\ child[c] # "running" -> "kill"
               [] frame[c] = "ping" -> "pong"
               [] OTHER -> "loop")
  /\ frame' = [frame EXCEPT ![c] = "none"]
  /\ UNCHANGED <<active, registered, daemon, cur, rd, child, mu, closed, deadline, buffered, clients>>

(* safeSendFrame in the handler: lock, write (errors ignored), unlock.     *)
Pong(c) ==
  /\ At(c, "pong") /\ mu[c] = "free"
  /\ mu' = [mu EXCEPT ![c] = "main"]
  /\ Goto(c, "ponging")
  /\ UNCHANGED <<active, registered, daemon, cur, rd, child, closed, deadline, frame, buffered, clients>>

PongSent(c) ==
  /\ At(c, "ponging") /\ WriteReturns(c)
  /\ mu' = [mu EXCEPT ![c] = "free"]
  /\ Goto(c, "loop")
  /\ UNCHANGED <<active, registered, daemon, cur, rd, child, closed, deadline, frame, buffered, clients>>

--------------------------------------------------------------------------------
(* The goroutine that copies PTY output.  It outlives nothing: the handler *)
(* waits for it.                                                           *)

RdAt(c, step) == daemon # "exited" /\ rd[c] = step
RdGoto(c, step) == rd' = [rd EXCEPT ![c] = step]

ReadOutput(c) ==
  /\ RdAt(c, "read") /\ child[c] = "running"
  /\ RdGoto(c, "lock")
  /\ UNCHANGED <<active, registered, daemon, pc, cur, child, mu, closed, deadline, frame, buffered, clients>>

ReadEof(c) ==
  /\ RdAt(c, "read") /\ child[c] # "running"
  /\ RdGoto(c, "eof")
  /\ UNCHANGED <<active, registered, daemon, pc, cur, child, mu, closed, deadline, frame, buffered, clients>>

LockOutput(c) ==
  /\ RdAt(c, "lock") /\ mu[c] = "free"
  /\ mu' = [mu EXCEPT ![c] = "rd"]
  /\ RdGoto(c, "send")
  /\ UNCHANGED <<active, registered, daemon, pc, cur, child, closed, deadline, frame, buffered, clients>>

(* The frame is written, or the write fails and the goroutine returns      *)
(* without touching the deadline.                                          *)
SendOutput(c) ==
  /\ RdAt(c, "send") /\ WriteReturns(c)
  /\ mu' = [mu EXCEPT ![c] = "free"]
  /\ RdGoto(c, IF Broken(c) THEN "done" ELSE "read")
  /\ UNCHANGED <<active, registered, daemon, pc, cur, child, closed, deadline, frame, buffered, clients>>

(* After EOF: an immediate read deadline, to wake the handler.             *)
ForceDeadline(c) ==
  /\ RdAt(c, "eof")
  /\ deadline' = [deadline EXCEPT ![c] = "past"]
  /\ RdGoto(c, "done")
  /\ UNCHANGED <<active, registered, daemon, pc, cur, child, mu, closed, frame, buffered, clients>>

--------------------------------------------------------------------------------
(* Cleanup. *)

Kill(c) ==
  /\ At(c, "kill")
  /\ child' = [child EXCEPT ![c] = "exited"]
  /\ Goto(c, "wait")
  /\ UNCHANGED <<active, registered, daemon, cur, rd, mu, closed, deadline, frame, buffered, clients>>

NoWait(c) ==
  /\ At(c, "wait")
  /\ Goto(c, "join")
  /\ UNCHANGED <<active, registered, daemon, cur, rd, child, mu, closed, deadline, frame, buffered, clients>>

Wait(c) ==
  /\ At(c, "wait")
  /\ child' = [child EXCEPT ![c] = "reaped"]
  /\ Goto(c, "join")
  /\ UNCHANGED <<active, registered, daemon, cur, rd, mu, closed, deadline, frame, buffered, clients>>

(* <-done *)
Join(c) ==
  /\ At(c, "join") /\ rd[c] = "done"
  /\ Goto(c, "last")
  /\ UNCHANGED <<active, registered, daemon, cur, rd, child, mu, closed, deadline, frame, buffered, clients>>

ExitFrame(c) ==
  /\ At(c, "last") /\ mu[c] = "free" /\ WriteReturns(c)
  /\ Goto(c, "leave")
  /\ UNCHANGED <<active, registered, daemon, cur, rd, child, mu, closed, deadline, frame, buffered, clients>>

(* The deferred calls: ptmx.Close, the registry, conn.Close, the slot.     *)
Leave(c) ==
  /\ At(c, "leave")
  /\ active' = active - 1
  /\ registered' = registered \ {c}
  /\ Goto(c, "idle")
  /\ rd' = [rd EXCEPT ![c] = "none"]
  /\ child' = [child EXCEPT ![c] = "none"]
  /\ closed' = [closed EXCEPT ![c] = FALSE]
  /\ deadline' = [deadline EXCEPT ![c] = "none"]
  /\ frame' = [frame EXCEPT ![c] = "none"]
  /\ buffered' = [buffered EXCEPT ![c] = "none"]
  /\ inbox' = [inbox EXCEPT ![c] = "none"]
  /\ HangUp(c)
  /\ UNCHANGED <<daemon, cur, mu>>

--------------------------------------------------------------------------------
(* The shell, the client and the clock. *)

(* The user leaves the shell, or another client kills its session.         *)
ShellExits(c) ==
  /\ daemon # "exited" /\ child[c] = "running"
  /\ child' = [child EXCEPT ![c] = "exited"]
  /\ UNCHANGED <<active, registered, daemon, pc, cur, rd, mu, closed, deadline, frame, buffered, clients>>

ClientSends(c) ==
  /\ client[c] = "talking" /\ inbox[c] = "none" /\ pc[c] \notin {"idle", "load", "cas", "slot"}
  /\ \E f \in Frames : inbox' = [inbox EXCEPT ![c] = f]
  /\ UNCHANGED <<active, registered, daemon, handlers, client>>

ClientTurns(c) ==
  /\ \/ client[c] = "talking" /\ client' = [client EXCEPT ![c] = "quiet"]
     \/ client[c] = "quiet" /\ client' = [client EXCEPT ![c] = "talking"]
     \/ Stalls /\ client[c] = "quiet" /\ client' = [client EXCEPT ![c] = "stalled"]
     \/ client[c] # "none" /\ client' = [client EXCEPT ![c] = "gone"]
  /\ UNCHANGED <<active, registered, daemon, handlers, inbox>>

(* idleTimeout passes with nothing received.  A client that talks pings    *)
(* well within it.                                                         *)
IdleExpires(c) ==
  /\ daemon # "exited"
  /\ deadline[c] = "future" /\ client[c] \in {"quiet", "stalled"} /\ inbox[c] = "none"
  /\ deadline' = [deadline EXCEPT ![c] = "past"]
  /\ UNCHANGED <<active, registered, daemon, pc, cur, rd, child, mu, closed, frame, buffered, clients>>

--------------------------------------------------------------------------------
(* Shutdown. *)

CloseAll ==
  /\ daemon = "up"
  /\ daemon' = "draining"
  /\ closed' = [c \in Conns |-> closed[c] \/ c \in registered]
  /\ UNCHANGED <<active, registered, pc, cur, rd, child, mu, deadline, frame, buffered, clients>>

(* srv.Shutdown waits at most five seconds, and never for an upgraded      *)
(* connection; then main returns.                                          *)
ProcessExits ==
  /\ daemon = "draining"
  /\ daemon' = "exited"
  /\ UNCHANGED <<active, registered, handlers, clients>>

Restart ==
  /\ daemon = "exited"
  /\ active' = 0 /\ registered' = {} /\ daemon' = "up"
  /\ pc' = Each("idle") /\ cur' = Each(0) /\ rd' = Each("none")
  /\ child' = Each("none") /\ mu' = Each("free") /\ closed' = Each(FALSE)
  /\ deadline' = Each("none") /\ frame' = Each("none") /\ buffered' = Each("none")
  /\ inbox' = Each("none") /\ client' = Each("none")

--------------------------------------------------------------------------------

Handler(c) ==
  \/ LoadCount(c) \/ CompareAndSwap(c) \/ Upgrade(c) \/ UpgradeFails(c) \/ Register(c)
  \/ StartShell(c) \/ StartFails(c)
  \/ ReadSocket(c) \/ ReadBuffered(c) \/ ReadFails(c) \/ Refresh(c) \/ Handle(c) \/ Pong(c) \/ PongSent(c)
  \/ Kill(c) \/ Wait(c) \/ Join(c) \/ ExitFrame(c) \/ Leave(c)

Output(c) ==
  \/ ReadOutput(c) \/ ReadEof(c) \/ LockOutput(c) \/ SendOutput(c) \/ ForceDeadline(c)

Environment(c) ==
  Dial(c) \/ ShellExits(c) \/ ClientSends(c) \/ ClientTurns(c)

Next ==
  \/ \E c \in Conns : Handler(c) \/ Output(c) \/ Environment(c) \/ IdleExpires(c)
  \/ CloseAll \/ ProcessExits \/ Restart

Spec == Init /\ [][Next]_vars

(* The Go scheduler runs every goroutine that can run, time passes, and a  *)
(* sync.Mutex is handed to a goroutine that has waited for it.             *)
Fairness == \A c \in Conns :
  /\ WF_vars(Handler(c)) /\ WF_vars(Output(c)) /\ WF_vars(IdleExpires(c))
  /\ SF_vars(Pong(c)) /\ SF_vars(LockOutput(c))

FairSpec == Spec /\ Fairness

--------------------------------------------------------------------------------
(* Properties. *)

Holders == {c \in Conns : pc[c] \notin {"idle", "load", "cas"}}

(* The counter is the number of handlers that hold a slot, so there are    *)
(* never more than MaxSessions: the compare-and-swap of tryAcquireSession, *)
(* and one decrement on each way out of Handler.                           *)
SlotsCounted == active = Cardinality(Holders) /\ active <= MaxSessions

(* gorilla/websocket allows one writer at a time: an output frame is never *)
(* being written while a pong or the exit frame is, and after the exit     *)
(* frame nothing follows.                                                  *)
OneWriter ==
  \A c \in Conns : rd[c] = "send" => pc[c] \notin {"ponging", "last", "leave"}

(* A handler that returns leaves no running shell client and no zombie.    *)
NoZombie == \A c \in Conns : pc[c] = "leave" => child[c] \in {"none", "reaped"}

(* What the handler and the output goroutine of one connection know of     *)
(* each other: the mutex says which of them writes, the goroutine runs     *)
(* only between pty.Start and <-done, and the shell likewise.              *)
PairInv(c) ==
  /\ rd[c] = "send" <=> mu[c] = "rd"
  /\ pc[c] = "ponging" <=> mu[c] = "main"
  /\ pc[c] \in Steps \ (Serving \cup Cleanup) => rd[c] = "none" /\ child[c] = "none"
  /\ pc[c] \in {"join", "last"} => child[c] = "reaped"
  /\ pc[c] = "last" => rd[c] = "done"
  /\ pc[c] = "leave" => \/ rd[c] = "done" /\ child[c] = "reaped"
                        \/ rd[c] = "none" /\ child[c] = "none"

(* The inductive invariant: a compare-and-swap only succeeds below the cap.*)
HandlerInv ==
  /\ TypeOK /\ SlotsCounted
  /\ \A c \in Conns : pc[c] = "cas" => cur[c] < MaxSessions
  /\ \A c \in Conns : PairInv(c)

(* A client that has gone, or says nothing for idleTimeout, gives its slot *)
(* back, whatever the shell is printing.                                   *)
Owned(c) == daemon # "exited" /\ c \in Holders
SlotsComeBack ==
  \A c \in Conns :
    Owned(c) /\ client[c] \in {"quiet", "gone"} ~> ~Owned(c) \/ client[c] \in {"talking", "stalled"}

(* When the shell has exited, the handler reaches its cleanup and sends    *)
(* the exit frame: the purpose of the forced deadline.                     *)
ShellExitEndsSession ==
  \A c \in Conns : daemon = "up" /\ child[c] = "exited" ~> ~Owned(c) \/ pc[c] \in Cleanup

================================================================================
