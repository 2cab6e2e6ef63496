------------------------------- MODULE TapManager -------------------------------
(***************************************************************************)
(* The lifecycle of the OTLP sampling tap, tap/manager.go with the         *)
(* listeners of tap/receiver.go: concurrent calls of Start and Stop, the   *)
(* sockets a receiver binds, and the prune loop of each session.           *)
(*                                                                         *)
(* m.receiver and m.stopCh are set and reset together in every critical    *)
(* section; "session" stands for both.  Start releases the lock while it   *)
(* binds its sockets.                                                      *)
(***************************************************************************)
EXTENDS Naturals

CONSTANTS
  Callers,     \* goroutines that call Start and Stop
  Addrs,       \* addresses that a gRPC or HTTP listener may bind
  Sessions,    \* ids of the receivers and prune loops that exist at a time
  NoSession    \* m.receiver == nil and m.stopCh == nil

ASSUME NilAssumption == NoSession \notin Sessions

VARIABLES
  disabled,          \* m.disabled, fixed at start
  foreign,           \* addresses bound by other processes, fixed at start
  status, lastErr,   \* m.status, whether m.lastErr is set
  session,           \* m.receiver and m.stopCh
  shown,             \* m.grpcAddr and m.httpAddr, as a set
  pc, cfg, recv,     \* a caller's place, its TapConfig, its new receiver
  bound,             \* addresses this process has bound
  serving,           \* receivers whose servers run
  at,                \* the addresses of each receiver
  starting,          \* those of its listeners whose Serve has not begun
  pruning, stopped,  \* sessions whose prune loop exists, whose stopCh is closed
  overlapped         \* ghost: two calls have been under way at once

locked == <<status, lastErr, session, shown>>
callerVars == <<pc, cfg, recv>>
sockets == <<bound, serving, at, starting>>
fixed == <<disabled, foreign>>
vars == <<fixed, locked, callerVars, sockets, pruning, stopped, overlapped>>

Statuses == {"idle", "listening", "error", "disabled"}
Pcs == {"idle", "grpc", "http", "commit", "failing"}
Config == [grpc : Addrs, http : Addrs]
AddrsOf(conf) == {conf.grpc, conf.http}

TypeOK ==
  /\ disabled \in BOOLEAN /\ foreign \subseteq Addrs
  /\ status \in Statuses
  /\ lastErr \in BOOLEAN
  /\ session \in Sessions \union {NoSession}
  /\ shown \subseteq Addrs
  /\ pc \in [Callers -> Pcs]
  /\ cfg \in [Callers -> Config]
  /\ recv \in [Callers -> Sessions \union {NoSession}]
  /\ bound \subseteq Addrs \ foreign
  /\ serving \subseteq Sessions
  /\ at \in [Sessions -> SUBSET Addrs] /\ starting \in [Sessions -> SUBSET Addrs]
  /\ pruning \subseteq Sessions /\ stopped \subseteq Sessions
  /\ overlapped \in BOOLEAN

Init ==
  /\ disabled \in BOOLEAN /\ foreign \in SUBSET Addrs
  /\ status = IF disabled THEN "disabled" ELSE "idle"
  /\ lastErr = FALSE /\ session = NoSession /\ shown = {}
  /\ pc = [c \in Callers |-> "idle"]
  /\ \E conf \in Config : cfg = [c \in Callers |-> conf]
  /\ recv = [c \in Callers |-> NoSession]
  /\ bound = {} /\ serving = {}
  /\ at = [s \in Sessions |-> {}] /\ starting = at
  /\ pruning = {} /\ stopped = {} /\ overlapped = FALSE

CallerGoto(c, from, to) == pc[c] = from /\ pc' = [pc EXCEPT ![c] = to]
AllIdle == \A c \in Callers : pc[c] = "idle"

(* A call begins, or is made, while another one is under way. *)
NoteOverlap == overlapped' = (overlapped \/ ~AllIdle)

(* A session id that nothing refers to any more. *)
Free(s) ==
  /\ s \notin serving \union pruning /\ starting[s] = {}
  /\ session # s /\ \A c \in Callers : recv[c] # s

(* The servers know the listeners that Serve was called with. *)
Released == IF session = NoSession THEN {} ELSE at[session] \ starting[session]

(* close(m.stopCh); m.receiver.Stop(), which closes the listeners that its *)
(* servers know (gRPC exports being handled are waited for, HTTP ones are  *)
(* not); both fields nil.                                                  *)
EndSession ==
  /\ stopped' = stopped \union ({session} \ {NoSession})
  /\ serving' = serving \ {session}
  /\ bound' = bound \ Released
  /\ session' = NoSession

-----------------------------------------------------------------------------
(* Start *)

\* Mutation: the running session is not stopped first.
StartKeepsSession(c) ==
  /\ CallerGoto(c, "idle", "grpc")
  /\ ~disabled
  /\ \E conf \in Config : cfg' = [cfg EXCEPT ![c] = conf]
  /\ session' = NoSession
  /\ NoteOverlap
  /\ UNCHANGED <<fixed, status, lastErr, shown, recv, sockets, pruning, stopped>>

(* Ends the running session.  The status stays what it was. *)
StartBegin(c) ==
  /\ CallerGoto(c, "idle", "grpc")
  /\ ~disabled
  /\ \E conf \in Config : cfg' = [cfg EXCEPT ![c] = conf]
  /\ EndSession
  /\ NoteOverlap
  /\ UNCHANGED <<fixed, status, lastErr, shown, recv, at, starting, pruning>>

Taken == bound \union foreign

\* Mutation: an address in use is not noticed.
ListenGrpcUnchecked(c) ==
  /\ CallerGoto(c, "grpc", "http")
  /\ bound' = bound \union {cfg[c].grpc}
  /\ UNCHANGED <<fixed, locked, cfg, recv, serving, at, starting, pruning, stopped, overlapped>>

ListenGrpc(c) ==
  /\ IF cfg[c].grpc \notin Taken
     THEN CallerGoto(c, "grpc", "http") /\ bound' = bound \union {cfg[c].grpc}
     ELSE CallerGoto(c, "grpc", "failing") /\ UNCHANGED bound
  /\ UNCHANGED <<fixed, locked, cfg, recv, serving, at, starting, pruning, stopped, overlapped>>

\* Mutation: the gRPC listener stays open when the HTTP one fails.
ListenHttpLeaks(c) ==
  /\ \/ /\ CallerGoto(c, "http", "commit")
        /\ cfg[c].http \notin Taken
        /\ bound' = bound \union {cfg[c].http}
        /\ \E s \in Sessions :
             /\ Free(s)
             /\ recv' = [recv EXCEPT ![c] = s]
             /\ at' = [at EXCEPT ![s] = AddrsOf(cfg[c])]
             /\ starting' = [starting EXCEPT ![s] = AddrsOf(cfg[c])]
             /\ serving' = serving \union {s}
     \/ /\ CallerGoto(c, "http", "failing")
        /\ cfg[c].http \in Taken
        /\ UNCHANGED <<recv, sockets>>
  /\ UNCHANGED <<fixed, locked, cfg, pruning, stopped, overlapped>>

(* The second listener, and with it the new receiver and recv.Start(),     *)
(* which starts a goroutine for each server; on failure the first listener *)
(* is closed again.                                                        *)
ListenHttp(c) ==
  /\ \/ /\ CallerGoto(c, "http", "commit")
        /\ cfg[c].http \notin Taken
        /\ bound' = bound \union {cfg[c].http}
        /\ \E s \in Sessions :
             /\ Free(s)
             /\ recv' = [recv EXCEPT ![c] = s]
             /\ at' = [at EXCEPT ![s] = AddrsOf(cfg[c])]
             /\ starting' = [starting EXCEPT ![s] = AddrsOf(cfg[c])]
             /\ serving' = serving \union {s}
     \/ /\ CallerGoto(c, "http", "failing")
        /\ cfg[c].http \in Taken
        /\ bound' = bound \ {cfg[c].grpc}
        /\ UNCHANGED <<recv, serving, at, starting>>
  /\ UNCHANGED <<fixed, locked, cfg, pruning, stopped, overlapped>>

\* Mutation: the failure is returned but not recorded.
StartFailsSilently(c) ==
  /\ CallerGoto(c, "failing", "idle")
  /\ UNCHANGED <<fixed, locked, cfg, recv, sockets, pruning, stopped, overlapped>>

StartFails(c) ==
  /\ CallerGoto(c, "failing", "idle")
  /\ status' = "error" /\ lastErr' = TRUE
  /\ UNCHANGED <<fixed, session, shown, cfg, recv, sockets, pruning, stopped, overlapped>>

(* The second critical section overwrites whatever session is there. *)
StartCommit(c) ==
  /\ CallerGoto(c, "commit", "idle")
  /\ session' = recv[c]
  /\ status' = "listening" /\ lastErr' = FALSE
  /\ shown' = at[recv[c]]
  /\ pruning' = pruning \union {recv[c]}
  /\ stopped' = stopped \ {recv[c]}
  /\ recv' = [recv EXCEPT ![c] = NoSession]
  /\ UNCHANGED <<fixed, cfg, sockets, overlapped>>

-----------------------------------------------------------------------------
\* Mutation: the stop channel is dropped without being closed.
StopForgetsLoop(c) ==
  /\ CallerGoto(c, "idle", "idle")
  /\ serving' = serving \ {session}
  /\ bound' = bound \ Released
  /\ session' = NoSession
  /\ status' = "idle" /\ lastErr' = FALSE
  /\ NoteOverlap
  /\ UNCHANGED <<fixed, shown, cfg, recv, at, starting, pruning, stopped>>

\* Mutation: the receiver is dropped without being stopped.
StopLeavesReceiver(c) ==
  /\ CallerGoto(c, "idle", "idle")
  /\ stopped' = stopped \union ({session} \ {NoSession})
  /\ session' = NoSession
  /\ status' = "idle" /\ lastErr' = FALSE
  /\ NoteOverlap
  /\ UNCHANGED <<fixed, shown, cfg, recv, sockets, pruning>>

(* Stop, disabled or not. *)
Stop(c) ==
  /\ CallerGoto(c, "idle", "idle")
  /\ EndSession
  /\ status' = "idle" /\ lastErr' = FALSE
  /\ NoteOverlap
  /\ UNCHANGED <<fixed, shown, cfg, recv, at, starting, pruning>>

(* A server's goroutine comes to call Serve, which registers the listener, *)
(* or closes it when the server has been stopped in the meantime.          *)
ServeBegins(s) ==
  \E a \in starting[s] :
    /\ starting' = [starting EXCEPT ![s] = @ \ {a}]
    /\ bound' = IF s \in serving THEN bound ELSE bound \ {a}
    /\ UNCHANGED <<fixed, locked, callerVars, serving, at, pruning, stopped, overlapped>>

PruneLoopEnds(s) ==
  /\ s \in pruning \intersect stopped
  /\ pruning' = pruning \ {s}
  /\ UNCHANGED <<fixed, locked, callerVars, sockets, stopped, overlapped>>

StartStep(c) == ListenGrpc(c) \/ ListenHttp(c) \/ StartFails(c) \/ StartCommit(c)

Next ==
  \/ \E c \in Callers : StartBegin(c) \/ StartStep(c) \/ Stop(c)
  \/ \E s \in Sessions : ServeBegins(s) \/ PruneLoopEnds(s)

Spec == Init /\ [][Next]_vars

-----------------------------------------------------------------------------
(* What holds for any number of callers. *)

HeldAddrs(c) ==
  CASE pc[c] = "http" -> {cfg[c].grpc}
    [] pc[c] = "commit" -> AddrsOf(cfg[c])
    [] OTHER -> {}

(* The sockets of a receiver: all while it serves, and once it is stopped  *)
(* those that its goroutines have yet to close.                            *)
Open(s) == IF s \in serving THEN at[s] ELSE starting[s]

(* Every bound socket belongs to a receiver, which serves it or is about   *)
(* to close it, or to a Start under way: no failed Start leaves a port     *)
(* taken (receiver.go:75-121).                                             *)
SocketsAccounted ==
  bound = (UNION {Open(s) : s \in Sessions}) \union (UNION {HeldAddrs(c) : c \in Callers})

(* Two receivers never have one address. *)
SocketsExclusive ==
  \A s, t \in Sessions : s # t => Open(s) \intersect Open(t) = {}

(* Sockets are never lost and never claimed twice. *)
SocketsAreSound == TypeOK /\ SocketsAccounted /\ SocketsExclusive

(* Between calls, "listening" is true: the current receiver serves, on the *)
(* addresses that the status reports.                                      *)
ListeningIsServed ==
  AllIdle /\ status = "listening" =>
    /\ session \in serving
    /\ shown = at[session]

-----------------------------------------------------------------------------
(* What holds as long as no two calls have overlapped. *)

(* A new session replaces the old one: at most one receiver serves         *)
(* (manager.go:64).                                                        *)
OneReceiver == ~overlapped => \A s, t \in serving : s = t

(* Between calls, a receiver serves only if the status says so. *)
ServedIsListening ==
  ~overlapped /\ AllIdle /\ serving # {} => status = "listening"

(* A prune loop is that of the current session, or its stop channel has    *)
(* been closed: none is left to prune for ever (manager.go:178-193).       *)
LoopsAreStoppable ==
  ~overlapped => \A s \in pruning : s = session \/ s \in stopped

(* Calls that do not overlap keep one session at a time, with its receiver *)
(* and its prune loop, and the status tells whether it serves.             *)
OneSessionAtATime == OneReceiver /\ ServedIsListening /\ LoopsAreStoppable

=============================================================================
