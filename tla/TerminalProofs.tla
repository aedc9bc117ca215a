---------------------------- MODULE TerminalProofs ----------------------------
(***************************************************************************)
(* Proofs about Terminal and TmuxServer, for any finite set of connections *)
(* and any cap.                                                            *)
(***************************************************************************)
EXTENDS Terminal, TmuxServer, FiniteSetTheorems, TLAPS

USE DEF At, RdAt, Goto, RdGoto, HangUp, Each, handlers, clients

(* Every step keeps each variable in its set and the counter equal to the  *)
(* number of holders; what is left is one connection's own invariant.      *)
Local(c) == PairInv(c) /\ (pc[c] = "cas" => cur[c] < MaxSessions)

LEMMA InitInv == Init => HandlerInv
<1> SUFFICES ASSUME Init PROVE HandlerInv
  OBVIOUS
<1>1. TypeOK
  BY ConstantsAssumption DEF Init, TypeOK, Steps, Moods, Frames
<1>2. Holders = {}
  BY DEF Init, Holders
<1>3. SlotsCounted
  BY <1>2, FS_EmptySet, ConstantsAssumption DEF Init, SlotsCounted
<1>4. \A c \in Conns : Local(c)
  BY DEF Init, Local, PairInv, Serving, Cleanup, Steps
<1> QED BY <1>1, <1>3, <1>4 DEF HandlerInv, Local

(* Entering and leaving the holders moves the count by one.                *)
LEMMA HoldersFinite == IsFiniteSet(Holders) /\ Cardinality(Holders) \in Nat
<1>1. IsFiniteSet(Holders)
  BY ConstantsAssumption, FS_Subset DEF Holders
<1> QED BY <1>1, FS_CardinalityType

LEMMA HandlerType ==
  ASSUME HandlerInv, NEW c \in Conns, Handler(c), active' \in 0..MaxSessions
  PROVE  TypeOK'
<1> USE ConstantsAssumption DEF HandlerInv, TypeOK, Steps, Serving, Cleanup
<1>1. CASE LoadCount(c) \/ CompareAndSwap(c)
  BY <1>1 DEF LoadCount, CompareAndSwap, Moods
<1>2. CASE Upgrade(c) \/ UpgradeFails(c) \/ Register(c)
  BY <1>2 DEF Upgrade, UpgradeFails, Register, Moods
<1>3. CASE StartShell(c) \/ StartFails(c)
  BY <1>3 DEF StartShell, StartFails
<1>4. CASE ReadSocket(c) \/ ReadBuffered(c) \/ ReadFails(c)
  BY <1>4 DEF ReadSocket, ReadBuffered, ReadFails
<1>5. CASE Refresh(c) \/ Handle(c) \/ Pong(c) \/ PongSent(c)
  BY <1>5 DEF Refresh, Handle, Pong, PongSent
<1>6. CASE Kill(c) \/ Wait(c) \/ Join(c) \/ ExitFrame(c)
  BY <1>6 DEF Kill, Wait, Join, ExitFrame
<1>7. CASE Leave(c)
  BY <1>7 DEF Leave, Moods
<1> QED BY <1>1, <1>2, <1>3, <1>4, <1>5, <1>6, <1>7 DEF Handler

LEMMA OutputType ==
  ASSUME HandlerInv, NEW c \in Conns, Output(c) \/ Environment(c) \/ IdleExpires(c)
  PROVE  TypeOK'
<1> USE ConstantsAssumption DEF HandlerInv, TypeOK
<1>1. CASE Output(c)
  BY <1>1 DEF Output, ReadOutput, ReadEof, LockOutput, SendOutput, ForceDeadline
<1>2. CASE Environment(c)
  BY <1>2 DEF Environment, Dial, ShellExits, ClientSends, ClientTurns, Steps, Moods
<1>3. CASE IdleExpires(c)
  BY <1>3 DEF IdleExpires
<1> QED BY <1>1, <1>2, <1>3

(* The counter follows the holders, and stays under the cap because the    *)
(* compare-and-swap only adds to a count that was below it.                *)
LEMMA CountKept ==
  ASSUME HandlerInv, NEW c \in Conns, Handler(c)
  PROVE  active' = Cardinality(Holders') /\ active' \in 0..MaxSessions
<1> USE ConstantsAssumption, HoldersFinite DEF HandlerInv, TypeOK, SlotsCounted
<1>1. CASE CompareAndSwap(c) /\ active = cur[c]
  <2>1. Holders' = Holders \cup {c} /\ c \notin Holders
    BY <1>1 DEF CompareAndSwap, Holders
  <2>2. Cardinality(Holders') = Cardinality(Holders) + 1
    BY <2>1, FS_AddElement
  <2>3. pc[c] = "cas" /\ active' = active + 1
    BY <1>1 DEF CompareAndSwap
  <2>4. active < MaxSessions /\ active \in Nat
    BY <1>1, <2>3
  <2> QED BY <2>2, <2>3, <2>4
<1>2. CASE UpgradeFails(c) \/ Leave(c)
  <2>1. Holders' = Holders \ {c} /\ c \in Holders
    BY <1>2 DEF UpgradeFails, Leave, Holders
  <2>2. Cardinality(Holders') = Cardinality(Holders) - 1
    BY <2>1, FS_RemoveElement
  <2>3. active' = active - 1
    BY <1>2 DEF UpgradeFails, Leave
  <2>4. Cardinality(Holders') \in Nat
    BY <2>1, FS_RemoveElement, FS_CardinalityType
  <2> QED BY <2>2, <2>3, <2>4
<1>3. CASE ~(CompareAndSwap(c) /\ active = cur[c]) /\ ~UpgradeFails(c) /\ ~Leave(c)
  <2>1. active' = active
    BY <1>3 DEF Handler, LoadCount, CompareAndSwap, Upgrade, Register, StartShell, StartFails,
      ReadSocket, ReadBuffered, ReadFails, Refresh, Handle, Pong, PongSent, Kill, Wait, Join, ExitFrame
  <2>2. \E s \in Steps : /\ pc' = [pc EXCEPT ![c] = s]
                         /\ s \in {"idle", "load", "cas"} <=> pc[c] \in {"idle", "load", "cas"}
    <3>1. CASE LoadCount(c) \/ CompareAndSwap(c)
      BY <1>3, <3>1 DEF LoadCount, CompareAndSwap, Steps
    <3>2. CASE Upgrade(c) \/ Register(c) \/ StartShell(c) \/ StartFails(c)
      BY <3>2 DEF Upgrade, Register, StartShell, StartFails, Steps, Serving, Cleanup
    <3>3. CASE ReadSocket(c) \/ ReadBuffered(c) \/ ReadFails(c) \/ Refresh(c) \/ Handle(c)
      BY <3>3 DEF ReadSocket, ReadBuffered, ReadFails, Refresh, Handle, Steps, Serving, Cleanup
    <3>4. CASE Pong(c) \/ PongSent(c) \/ Kill(c) \/ Wait(c) \/ Join(c) \/ ExitFrame(c)
      BY <3>4 DEF Pong, PongSent, Kill, Wait, Join, ExitFrame, Steps, Serving, Cleanup
    <3> QED BY <1>3, <3>1, <3>2, <3>3, <3>4 DEF Handler
  <2>3. Holders' = Holders
    BY <2>2 DEF Holders
  <2> QED BY <2>1, <2>3
<1> QED BY <1>1, <1>2, <1>3

LEMMA HandlerLocal ==
  ASSUME HandlerInv, NEW c \in Conns, Handler(c), NEW d \in Conns
  PROVE  Local(d)'
<1> USE ConstantsAssumption DEF HandlerInv, TypeOK, PairInv, Local, Steps, Serving, Cleanup
<1>1. CASE LoadCount(c) \/ CompareAndSwap(c)
  BY <1>1 DEF LoadCount, CompareAndSwap
<1>2. CASE Upgrade(c) \/ UpgradeFails(c) \/ Register(c)
  BY <1>2 DEF Upgrade, UpgradeFails, Register
<1>3. CASE StartShell(c) \/ StartFails(c)
  BY <1>3 DEF StartShell, StartFails
<1>4. CASE ReadSocket(c) \/ ReadBuffered(c) \/ ReadFails(c)
  BY <1>4 DEF ReadSocket, ReadBuffered, ReadFails
<1>5. CASE Refresh(c) \/ Handle(c)
  BY <1>5 DEF Refresh, Handle
<1>6. CASE Pong(c) \/ PongSent(c)
  BY <1>6 DEF Pong, PongSent
<1>7. CASE Kill(c) \/ Wait(c) \/ Join(c) \/ ExitFrame(c)
  BY <1>7 DEF Kill, Wait, Join, ExitFrame
<1>8. CASE Leave(c)
  BY <1>8 DEF Leave
<1> QED BY <1>1, <1>2, <1>3, <1>4, <1>5, <1>6, <1>7, <1>8 DEF Handler

LEMMA OutputLocal ==
  ASSUME HandlerInv, NEW c \in Conns, Output(c) \/ Environment(c) \/ IdleExpires(c), NEW d \in Conns
  PROVE  Local(d)' /\ Holders' = Holders /\ active' = active
<1> USE ConstantsAssumption DEF HandlerInv, TypeOK, PairInv, Local, Steps, Serving, Cleanup
<1>1. CASE ReadOutput(c) \/ ReadEof(c)
  BY <1>1 DEF ReadOutput, ReadEof, Holders
<1>2. CASE LockOutput(c) \/ SendOutput(c)
  BY <1>2 DEF LockOutput, SendOutput, Holders
<1>3. CASE ForceDeadline(c) \/ IdleExpires(c)
  BY <1>3 DEF ForceDeadline, IdleExpires, Holders
<1>4. CASE Dial(c) \/ ShellExits(c)
  BY <1>4 DEF Dial, ShellExits, Holders
<1>5. CASE ClientSends(c) \/ ClientTurns(c)
  BY <1>5 DEF ClientSends, ClientTurns, Holders
<1> QED BY <1>1, <1>2, <1>3, <1>4, <1>5 DEF Output, Environment

(* A shutdown keeps every handler as it is; a restart forgets them all.    *)
LEMMA ShutdownKeeps ==
  ASSUME HandlerInv, CloseAll \/ ProcessExits \/ Restart \/ UNCHANGED vars
  PROVE  HandlerInv'
<1>1. CASE Restart
  <2>1. Init'
    BY <1>1 DEF Restart, Init
  <2>2. TypeOK'
    BY <1>1, ConstantsAssumption DEF Restart, TypeOK, Steps, Moods, Frames
  <2>3. Holders' = {}
    BY <1>1 DEF Restart, Holders
  <2>4. SlotsCounted'
    BY <1>1, <2>3, FS_EmptySet, ConstantsAssumption DEF Restart, SlotsCounted
  <2>5. \A c \in Conns : Local(c)'
    BY <1>1 DEF Restart, Local, PairInv, Serving, Cleanup, Steps
  <2> QED BY <2>2, <2>4, <2>5 DEF HandlerInv, Local
<1>2. CASE CloseAll \/ ProcessExits \/ UNCHANGED vars
  <2>1. TypeOK'
    <3>1. closed' \in [Conns -> BOOLEAN]
      <4>1. CASE CloseAll
        <5>1. closed' = [c \in Conns |-> closed[c] \/ c \in registered]
          BY <4>1 DEF CloseAll
        <5> QED BY <5>1, Zenon
      <4>2. CASE ProcessExits \/ UNCHANGED vars
        BY <4>2 DEF ProcessExits, vars, HandlerInv, TypeOK
      <4> QED BY <1>2, <4>1, <4>2
    <3>2. UNCHANGED <<active, registered, pc, cur, rd, child, mu, deadline, frame, buffered, inbox, client>>
      BY <1>2 DEF CloseAll, ProcessExits, vars
    <3>3. daemon' \in {"up", "draining", "exited"}
      BY <1>2 DEF CloseAll, ProcessExits, vars, HandlerInv, TypeOK
    <3> QED BY <3>1, <3>2, <3>3 DEF HandlerInv, TypeOK
  <2>2. UNCHANGED <<active, pc, cur, rd, child, mu>>
    BY <1>2 DEF CloseAll, ProcessExits, vars
  <2>3. SlotsCounted'
    BY <2>2 DEF HandlerInv, SlotsCounted, Holders
  <2>4. \A c \in Conns : Local(c)'
    BY <2>2 DEF HandlerInv, Local, PairInv
  <2> QED BY <2>1, <2>3, <2>4 DEF HandlerInv, Local
<1> QED BY <1>1, <1>2

(* The slot counter, the write mutex and the life of each shell, for any   *)
(* number of connections: through failed upgrades, failed starts, broken   *)
(* sockets, shutdown and restart.                                          *)
THEOREM HandlersInvariant == Spec => []HandlerInv
<1>1. HandlerInv /\ [Next]_vars => HandlerInv'
  <2> SUFFICES ASSUME HandlerInv, [Next]_vars PROVE HandlerInv'
    OBVIOUS
  <2>1. ASSUME NEW c \in Conns, Handler(c) PROVE HandlerInv'
    <3>1. active' = Cardinality(Holders') /\ active' \in 0..MaxSessions
      BY <2>1, CountKept
    <3>2. SlotsCounted'
      BY <3>1, ConstantsAssumption DEF SlotsCounted
    <3> QED BY <2>1, <3>1, <3>2, HandlerType, HandlerLocal DEF HandlerInv, Local
  <2>2. ASSUME NEW c \in Conns, Output(c) \/ Environment(c) \/ IdleExpires(c) PROVE HandlerInv'
    <3>1. (\A d \in Conns : Local(d)') /\ Holders' = Holders /\ active' = active
      BY <2>2, OutputLocal
    <3>2. SlotsCounted'
      BY <3>1 DEF SlotsCounted, HandlerInv
    <3> QED BY <2>2, <3>1, <3>2, OutputType DEF HandlerInv, Local
  <2>3. CASE CloseAll \/ ProcessExits \/ Restart \/ UNCHANGED vars
    BY <2>3, ShutdownKeeps
  <2> QED BY <2>1, <2>2, <2>3 DEF Next
<1> QED BY <1>1, InitInv, PTL DEF Spec

(* There are never more than MaxSessions sessions. *)
THEOREM CapHolds == Spec => []SlotsCounted
<1>1. HandlerInv => SlotsCounted
  BY DEF HandlerInv
<1> QED BY <1>1, HandlersInvariant, PTL

(* Frames of the handler and of the output goroutine never mix. *)
THEOREM WritersExclude == Spec => []OneWriter
<1>1. HandlerInv => OneWriter
  BY DEF HandlerInv, PairInv, OneWriter, TypeOK
<1> QED BY <1>1, HandlersInvariant, PTL

(* A handler that returns has reaped the shell it started. *)
THEOREM ShellsReaped == Spec => []NoZombie
<1>1. HandlerInv => NoZombie
  BY DEF HandlerInv, PairInv, NoZombie
<1> QED BY <1>1, HandlersInvariant, PTL

(* Type correctness, for any connections. *)
THEOREM TypeCorrect == Spec => []TypeOK
<1>1. HandlerInv => TypeOK
  BY DEF HandlerInv
<1> QED BY <1>1, HandlersInvariant, PTL

--------------------------------------------------------------------------------
(* Nobody waits in vain: the safety part of SlotsComeBack.                 *)

Sharing == Serving \cup {"kill", "wait", "join", "last"}

(* While the handler reads, a read deadline is set; from pty.Start to      *)
(* <-done there is an output goroutine, and before that no shell to read.  *)
WaitInv(c) ==
  /\ pc[c] \in {"start"} \cup Serving => deadline[c] # "none"
  /\ pc[c] \in Sharing => rd[c] # "none"
  /\ pc[c] = "wait" => child[c] # "running"

(* Whatever a handler waits for has somebody who brings it about: a read   *)
(* ends with the deadline at the latest; the write mutex is free or held   *)
(* by the goroutine for a write under way, and the goroutine a handler     *)
(* joins is not itself waiting for that handler, nor for a running shell.  *)
(* Only a write to a client that has stopped reading is left to wait for.  *)
WaitsEnd ==
  \A c \in Conns :
    /\ pc[c] = "loop" => deadline[c] \in {"future", "past"}
    /\ pc[c] = "pong" => mu[c] = "free" \/ rd[c] = "send"
    /\ pc[c] = "join" => rd[c] # "none" /\ child[c] = "reaped" /\ mu[c] # "main"
    /\ pc[c] = "last" => mu[c] = "free"
    /\ rd[c] = "lock" => mu[c] = "free" \/ pc[c] = "ponging"

LEMMA HandlerWaits ==
  ASSUME HandlerInv, NEW c \in Conns, Handler(c), NEW d \in Conns, WaitInv(d)
  PROVE  WaitInv(d)'
<1> USE DEF HandlerInv, TypeOK, PairInv, WaitInv, Sharing, Serving, Steps
<1>1. CASE LoadCount(c) \/ CompareAndSwap(c)
  BY <1>1 DEF LoadCount, CompareAndSwap
<1>2. CASE Upgrade(c) \/ UpgradeFails(c) \/ Register(c)
  BY <1>2 DEF Upgrade, UpgradeFails, Register
<1>3. CASE StartShell(c) \/ StartFails(c)
  BY <1>3 DEF StartShell, StartFails
<1>4. CASE ReadSocket(c) \/ ReadBuffered(c) \/ ReadFails(c)
  BY <1>4 DEF ReadSocket, ReadBuffered, ReadFails
<1>5. CASE Refresh(c) \/ Handle(c)
  BY <1>5 DEF Refresh, Handle
<1>6. CASE Pong(c) \/ PongSent(c)
  BY <1>6 DEF Pong, PongSent
<1>7. CASE Kill(c) \/ Wait(c) \/ Join(c) \/ ExitFrame(c)
  BY <1>7 DEF Kill, Wait, Join, ExitFrame
<1>8. CASE Leave(c)
  BY <1>8 DEF Leave
<1> QED BY <1>1, <1>2, <1>3, <1>4, <1>5, <1>6, <1>7, <1>8 DEF Handler

LEMMA OutputWaits ==
  ASSUME HandlerInv, NEW c \in Conns, Output(c) \/ Environment(c) \/ IdleExpires(c),
         NEW d \in Conns, WaitInv(d)
  PROVE  WaitInv(d)'
<1> USE DEF HandlerInv, TypeOK, PairInv, WaitInv, Sharing, Serving, Steps
<1>1. CASE ReadOutput(c) \/ ReadEof(c)
  BY <1>1 DEF ReadOutput, ReadEof
<1>2. CASE LockOutput(c) \/ SendOutput(c)
  BY <1>2 DEF LockOutput, SendOutput
<1>3. CASE ForceDeadline(c) \/ IdleExpires(c)
  BY <1>3 DEF ForceDeadline, IdleExpires
<1>4. CASE Dial(c) \/ ShellExits(c)
  BY <1>4 DEF Dial, ShellExits
<1>5. CASE ClientSends(c) \/ ClientTurns(c)
  BY <1>5 DEF ClientSends, ClientTurns
<1> QED BY <1>1, <1>2, <1>3, <1>4, <1>5 DEF Output, Environment

(* No handler and no output goroutine waits for something that nobody is   *)
(* left to do, for any number of connections, through a shutdown and a     *)
(* restart: the mutex and the join between them form no cycle.             *)
THEOREM WaitsHaveEnds == Spec => []WaitsEnd
<1> DEFINE Waits == \A d \in Conns : WaitInv(d)
<1>1. Init => Waits
  BY DEF Init, WaitInv, Sharing, Serving
<1>2. HandlerInv /\ Waits /\ [Next]_vars => Waits'
  <2> SUFFICES ASSUME HandlerInv, Waits, [Next]_vars PROVE Waits'
    OBVIOUS
  <2>1. ASSUME NEW c \in Conns, Handler(c) PROVE Waits'
    BY <2>1, HandlerWaits
  <2>2. ASSUME NEW c \in Conns, Output(c) \/ Environment(c) \/ IdleExpires(c) PROVE Waits'
    BY <2>2, OutputWaits
  <2>3. CASE Restart
    BY <2>3 DEF Restart, WaitInv, Sharing, Serving
  <2>4. CASE CloseAll \/ ProcessExits \/ UNCHANGED vars
    <3>1. UNCHANGED <<pc, rd, child, deadline>>
      BY <2>4 DEF CloseAll, ProcessExits, vars
    <3> QED BY <3>1 DEF WaitInv
  <2> QED BY <2>1, <2>2, <2>3, <2>4 DEF Next
<1>3. HandlerInv /\ Waits => WaitsEnd
  BY DEF HandlerInv, TypeOK, PairInv, WaitInv, WaitsEnd, Sharing, Serving, Steps
<1> QED BY <1>1, <1>2, <1>3, HandlersInvariant, PTL DEF Spec

--------------------------------------------------------------------------------
(* The tmux server behind the terminals, for any connections and session   *)
(* names.                                                                  *)

(* A client about to attach finds a server, or has been outrun.            *)
LEMMA SandboxInvKept ==
  ASSUME SandboxInv, [TmuxNext]_tmuxVars
  PROVE  SandboxInv'
<1> USE DEF SandboxInv, TmuxTypeOK, TmuxSteps
<1>1. ASSUME NEW c \in Terminals, NEW n \in Names, Connect(c, n) PROVE SandboxInv'
  BY <1>1 DEF Connect
<1>2. ASSUME NEW c \in Terminals, Lock(c) \/ Start(c) \/ Detach(c) PROVE SandboxInv'
  BY <1>2 DEF Lock, Start, Attach, StartFallback, PtyFails, Detach
<1>3. ASSUME NEW c \in Terminals, Ensure(c) PROVE SandboxInv'
  BY <1>3, TmuxConstants DEF Ensure, HasSession, RunServer, Recheck, EnsureFails, Return
<1>4. ASSUME NEW n \in Names, EndSession(n) PROVE SandboxInv'
  BY <1>4 DEF EndSession
<1>5. CASE RestartService
  BY <1>5 DEF RestartService
<1>6. CASE UNCHANGED tmuxVars
  BY <1>6 DEF tmuxVars
<1> QED BY <1>1, <1>2, <1>3, <1>4, <1>5, <1>6 DEF TmuxNext

(* For any connections and names, the inductive invariant behind it.       *)
THEOREM SandboxInvariant == TmuxSpec => []SandboxInv
<1>1. TmuxInit => SandboxInv
  BY TmuxConstants DEF TmuxInit, SandboxInv, TmuxTypeOK, TmuxSteps
<1> QED BY <1>1, SandboxInvKept, PTL DEF TmuxSpec

(* For any connections and names, the last session ending at any moment: a *)
(* tmux server comes to run inside the service only through a client whose *)
(* own server ended between ensureServer's answer and the client's start.  *)
THEOREM ShellsOutsideSandbox == TmuxSpec => ServerOutsideSandbox
<1> DEFINE Outrun == server # "service" /\ server' = "service" =>
                       \E c \in outrun : at[c] = "attach" /\ at'[c] = "attached"
<1>1. SandboxInv /\ [TmuxNext]_tmuxVars => Outrun
  <2> SUFFICES ASSUME SandboxInv, [TmuxNext]_tmuxVars, server # "service", server' = "service"
               PROVE  \E c \in outrun : at[c] = "attach" /\ at'[c] = "attached"
    OBVIOUS
  <2>1. PICK c \in Terminals : Attach(c)
    BY DEF TmuxNext, tmuxVars, Connect, Lock, Ensure, HasSession, RunServer, Recheck,
           EnsureFails, Start, StartFallback, PtyFails, Detach, EndSession, RestartService
  <2>2. c \in outrun /\ at[c] = "attach" /\ at'[c] = "attached"
    BY <2>1 DEF Attach, SandboxInv, TmuxTypeOK
  <2> QED BY <2>2
<1> QED BY <1>1, SandboxInvariant, PTL DEF TmuxSpec, ServerOutsideSandbox

(* Clients show living sessions of theirs, also when the last session ends *)
(* just before a client attaches.                                          *)
THEOREM ClientsKeepSessions == TmuxSpec => []AttachedToOwnSession
<1> DEFINE Inv == TmuxTypeOK /\ AttachedToOwnSession
<1>1. TmuxInit => Inv
  BY TmuxConstants DEF TmuxInit, TmuxTypeOK, AttachedToOwnSession, TmuxSteps
<1>2. Inv /\ [TmuxNext]_tmuxVars => Inv'
  <2> SUFFICES ASSUME Inv, [TmuxNext]_tmuxVars PROVE Inv' OBVIOUS
  <2> USE DEF TmuxTypeOK, AttachedToOwnSession, TmuxSteps
  <2>1. ASSUME NEW c \in Terminals, NEW n \in Names, Connect(c, n) PROVE Inv'
    BY <2>1 DEF Connect
  <2>2. ASSUME NEW c \in Terminals, Lock(c) \/ Start(c) \/ Detach(c) PROVE Inv'
    BY <2>2 DEF Lock, Start, Attach, StartFallback, PtyFails, Detach
  <2>3. ASSUME NEW c \in Terminals, Ensure(c) PROVE Inv'
    BY <2>3, TmuxConstants DEF Ensure, HasSession, RunServer, Recheck, EnsureFails, Return
  <2>4. ASSUME NEW n \in Names, EndSession(n) PROVE Inv'
    BY <2>4 DEF EndSession
  <2>5. CASE RestartService
    BY <2>5 DEF RestartService
  <2>6. CASE UNCHANGED tmuxVars
    BY <2>6 DEF tmuxVars
  <2> QED BY <2>1, <2>2, <2>3, <2>4, <2>5, <2>6 DEF TmuxNext
<1>3. Inv => AttachedToOwnSession OBVIOUS
<1> QED BY <1>1, <1>2, <1>3, PTL DEF TmuxSpec

================================================================================
