------------------------------ MODULE TmuxServer ------------------------------
(***************************************************************************)
(* Where a terminal's shell lives.  A connection first makes sure a tmux   *)
(* server runs under the user's systemd manager (ensureServer), then runs  *)
(* a tmux client that attaches to the session it wants, creating it if     *)
(* need be.  Without tmux it gets a temporary shell.  tmux itself starts a *)
(* server when a client finds none, as a child of that client, and so      *)
(* inside the service's sandbox and cgroup.                                *)
(***************************************************************************)
CONSTANTS
  Terminals,  \* terminal connections being set up or open
  Names,      \* session names that pass validSessionName
  main,       \* defaultSession
  Nobody      \* ensureMu is free

ASSUME TmuxConstants == main \in Names /\ Nobody \notin Terminals

VARIABLES
  server,    \* the tmux server: none, under the user manager, or in the service
  sessions,  \* its sessions, each with its shells
  ensureMu,  \* the connection inside ensureServer
  at, want,  \* each connection's step and session
  outrun     \* history: the connections whose server has ended after ensureServer
             \* returned and before their client was started

tmuxVars == <<server, sessions, ensureMu, at, want, outrun>>

TmuxSteps == {"idle", "lock", "has", "run", "recheck", "attach", "attached", "shell", "fallback"}

TmuxTypeOK ==
  /\ server \in {"none", "manager", "service"}
  /\ sessions \subseteq Names
  /\ ensureMu \in Terminals \cup {Nobody}
  /\ at \in [Terminals -> TmuxSteps] /\ want \in [Terminals -> Names]
  /\ outrun \subseteq Terminals

TmuxInit ==
  /\ server = "none" /\ sessions = {} /\ ensureMu = Nobody
  /\ at = [c \in Terminals |-> "idle"] /\ want = [c \in Terminals |-> main]
  /\ outrun = {}

--------------------------------------------------------------------------------

ConnectUnchecked(c, n) ==
  /\ at[c] = "idle"
  /\ want' = [want EXCEPT ![c] = n]
  /\ at' = [at EXCEPT ![c] = "attach"]
  /\ outrun' = outrun \ {c}
  /\ UNCHANGED <<server, sessions, ensureMu>>

Connect(c, n) ==
  /\ at[c] = "idle"
  /\ want' = [want EXCEPT ![c] = n]
  /\ at' = [at EXCEPT ![c] = "lock"]
  /\ outrun' = outrun \ {c}
  /\ UNCHANGED <<server, sessions, ensureMu>>

Lock(c) ==
  /\ at[c] = "lock" /\ ensureMu = Nobody
  /\ ensureMu' = c
  /\ at' = [at EXCEPT ![c] = "has"]
  /\ UNCHANGED <<server, sessions, want, outrun>>

ReturnLocked(c, step) == ensureMu' = ensureMu /\ at' = [at EXCEPT ![c] = step]

(* ensureServer returns, with or without an error.                         *)
Return(c, step) == ensureMu' = Nobody /\ at' = [at EXCEPT ![c] = step]

(* tmux has-session *)
HasSession(c) ==
  /\ at[c] = "has"
  /\ IF server # "none" THEN Return(c, "attach")
                        ELSE UNCHANGED ensureMu /\ at' = [at EXCEPT ![c] = "run"]
  /\ UNCHANGED <<server, sessions, want, outrun>>

(* systemd-run --user tmux new-session -d -s main.  A server another       *)
(* client has started meanwhile gets the session instead.                  *)
RunServer(c) ==
  /\ at[c] = "run" /\ main \notin sessions
  /\ server' = IF server = "none" THEN "manager" ELSE server
  /\ sessions' = sessions \cup {main}
  /\ at' = [at EXCEPT ![c] = "recheck"]
  /\ UNCHANGED <<ensureMu, want, outrun>>

Recheck(c) ==
  /\ at[c] = "recheck"
  /\ Return(c, IF server # "none" THEN "attach" ELSE "shell")
  /\ UNCHANGED <<server, sessions, want, outrun>>

(* tmux or systemd-run is missing, fails or times out.                     *)
EnsureFails(c) ==
  /\ at[c] \in {"has", "run", "recheck"}
  /\ Return(c, "shell")
  /\ UNCHANGED <<server, sessions, want, outrun>>

(* tmux new-session -A -s <want>                                           *)
Attach(c) ==
  /\ at[c] = "attach"
  /\ server' = IF server = "none" THEN "service" ELSE server
  /\ sessions' = sessions \cup {want[c]}
  /\ at' = [at EXCEPT ![c] = "attached"]
  /\ UNCHANGED <<ensureMu, want, outrun>>

(* pty.Start fails, for the tmux client or the temporary shell: an error   *)
(* frame, and the handler returns.                                         *)
PtyFails(c) ==
  /\ at[c] \in {"attach", "shell"}
  /\ at' = [at EXCEPT ![c] = "idle"]
  /\ UNCHANGED <<server, sessions, ensureMu, want, outrun>>

(* The temporary shell, a child of archangeld.                             *)
StartFallback(c) ==
  /\ at[c] = "shell"
  /\ at' = [at EXCEPT ![c] = "fallback"]
  /\ UNCHANGED <<server, sessions, ensureMu, want, outrun>>

(* The WebSocket closes: the client is killed, its session lives on.       *)
Detach(c) ==
  /\ at[c] \in {"attached", "fallback"}
  /\ at' = [at EXCEPT ![c] = "idle"]
  /\ UNCHANGED <<server, sessions, ensureMu, want, outrun>>

--------------------------------------------------------------------------------

(* A session ends: its last shell exits, or DELETE /terminal/sessions/n    *)
(* runs kill-session.  Its clients end, and the server with its last one,  *)
(* also between ensureServer's check and the client that relies on it.     *)
EndSession(n) ==
  /\ n \in sessions
  /\ sessions' = sessions \ {n}
  /\ server' = IF sessions = {n} THEN "none" ELSE server
  /\ at' = [c \in Terminals |-> IF at[c] = "attached" /\ want[c] = n THEN "idle" ELSE at[c]]
  /\ outrun' = IF sessions = {n} THEN outrun \cup {c \in Terminals : at[c] = "attach"} ELSE outrun
  /\ UNCHANGED <<ensureMu, want>>

(* archangeld restarts: systemd kills what is left in the service's cgroup.*)
RestartService ==
  /\ at' = [c \in Terminals |-> "idle"] /\ ensureMu' = Nobody
  /\ IF server = "service" THEN server' = "none" /\ sessions' = {}
                           ELSE UNCHANGED <<server, sessions>>
  /\ UNCHANGED <<want, outrun>>

--------------------------------------------------------------------------------

Ensure(c) == HasSession(c) \/ RunServer(c) \/ Recheck(c) \/ EnsureFails(c)

Start(c) == Attach(c) \/ StartFallback(c) \/ PtyFails(c)

TmuxNext ==
  \/ \E c \in Terminals : \/ \E n \in Names : Connect(c, n)
                      \/ Lock(c) \/ Ensure(c) \/ Start(c) \/ Detach(c)
  \/ \E n \in Names : EndSession(n)
  \/ RestartService

TmuxSpec == TmuxInit /\ [][TmuxNext]_tmuxVars

(* Every command returns within ensureServer's 15 seconds, and a mutex is  *)
(* handed to the goroutine that waits for it.                              *)
TmuxFairSpec == TmuxSpec /\ \A c \in Terminals :
  SF_tmuxVars(Lock(c)) /\ WF_tmuxVars(Ensure(c)) /\ WF_tmuxVars(Start(c))

--------------------------------------------------------------------------------

(* A tmux client starts the server itself, in the service's sandbox and    *)
(* cgroup, where a restart of archangeld ends every shell, only when the   *)
(* server that ensureServer had found or started for it has ended since:   *)
(* never because the check was skipped, raced or came to nothing.          *)
ServerOutsideSandbox ==
  [][server # "service" /\ server' = "service" =>
       \E c \in outrun : at[c] = "attach" /\ at'[c] = "attached"]_tmuxVars

(* A client shows the session it asked for, and that session is alive.     *)
AttachedToOwnSession == \A c \in Terminals : at[c] = "attached" => want[c] \in sessions

(* Every connection gets a shell, or a temporary one, though connections   *)
(* that arrive together wait for each other's ensureServer.                *)
ConnectionsGetShells ==
  \A c \in Terminals : at[c] = "lock" ~> at[c] \in {"attached", "fallback", "idle"}

(* What keeps the server outside: a client that is about to attach finds   *)
(* the server that ensureServer found or started, or has been outrun.      *)
SandboxInv ==
  /\ TmuxTypeOK
  /\ \A c \in Terminals : at[c] = "attach" /\ c \notin outrun => server # "none"

================================================================================
