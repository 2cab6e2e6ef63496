------------------------------- MODULE RemoteTap -------------------------------
(***************************************************************************)
(* The client of a remotetap processor, tap/remotetap_client.go: Connect   *)
(* and Disconnect calls against the background goroutine of each           *)
(* connection (run), its connection watcher and its prune loop.            *)
(*                                                                         *)
(* Connect begins with a whole Disconnect, so a call is a sequence of      *)
(* steps: take the cancel function and done channel, cancel, wait for the  *)
(* channel, write the idle status, and for Connect install a new run.      *)
(***************************************************************************)
EXTENDS Naturals, FiniteSets

CONSTANTS
  Callers,      \* goroutines that call Connect and Disconnect
  Addrs,        \* addresses a Connect may be given
  Runs,         \* ids of the connections that exist at a time
  NoAddr,       \* c.addr == ""
  NoRun,        \* c.cancel == nil and c.doneCh == nil
  MaxBuffered   \* bound of the messages in the read buffer of a connection

ASSUME NilAssumption == NoAddr \notin Addrs /\ NoRun \notin Runs
ASSUME BufferAssumption == MaxBuffered \in Nat

VARIABLES
  status, lastErr, addr,  \* c.status, whether c.lastErr is set, c.addr
  current,                \* c.cancel and c.doneCh, which are set together
  pc, op, held,           \* a caller's place, its method, the run it waits for
  runPc,                  \* where each run is; "none" once doneCh is closed
  cancelled,              \* runs whose context is cancelled
  watching, pruning,      \* runs whose watcher, whose prune loop exists
  closed,                 \* runs whose connection the watcher has closed
  buffered,               \* messages a closed connection had received unread
  overlapped              \* ghost: two calls have been under way at once

locked == <<status, lastErr, addr, current>>
callerVars == <<pc, op, held>>
connVars == <<closed, buffered>>
helperVars == <<watching, pruning, connVars>>
vars == <<locked, callerVars, runPc, cancelled, helperVars, overlapped>>

Statuses == {"idle", "connecting", "connected", "error"}
Pcs == {"idle", "cancelling", "waiting", "clearing", "opening"}
RunPcs == {"none", "dialing", "dialErr", "dialed", "reading", "processing",
           "readErr", "ending"}

TypeOK ==
  /\ status \in Statuses
  /\ lastErr \in BOOLEAN
  /\ addr \in Addrs \union {NoAddr}
  /\ current \in Runs \union {NoRun}
  /\ pc \in [Callers -> Pcs]
  /\ op \in [Callers -> {"connect", "disconnect"}]
  /\ held \in [Callers -> Runs \union {NoRun}]
  /\ runPc \in [Runs -> RunPcs]
  /\ cancelled \subseteq Runs
  /\ watching \subseteq Runs /\ pruning \subseteq Runs /\ closed \subseteq Runs
  /\ buffered \in [Runs -> 0 .. MaxBuffered]
  /\ overlapped \in BOOLEAN

Init ==
  /\ status = "idle" /\ lastErr = FALSE /\ addr = NoAddr /\ current = NoRun
  /\ pc = [c \in Callers |-> "idle"]
  /\ op = [c \in Callers |-> "disconnect"]
  /\ held = [c \in Callers |-> NoRun]
  /\ runPc = [r \in Runs |-> "none"]
  /\ cancelled = {} /\ watching = {} /\ pruning = {} /\ closed = {}
  /\ buffered = [r \in Runs |-> 0]
  /\ overlapped = FALSE

Live(r) == runPc[r] # "none"

(* A run id that no goroutine and no field refers to any more. *)
Free(r) ==
  /\ ~Live(r) /\ r \notin watching \union pruning
  /\ current # r /\ \A c \in Callers : held[c] # r

(* Bound of the model: a Connect begins only while an id is left for it. *)
IdLeft ==
  Cardinality({r \in Runs : Free(r)})
    > Cardinality({c \in Callers : pc[c] # "idle" /\ op[c] = "connect"})

(* The method being called. *)
Call(c) ==
  \E o \in {"connect", "disconnect"} :
    /\ o = "connect" => IdLeft
    /\ op' = [op EXCEPT ![c] = o]

CallerGoto(c, from, to) == pc[c] = from /\ pc' = [pc EXCEPT ![c] = to]
RunGoto(r, from, to) == runPc[r] = from /\ runPc' = [runPc EXCEPT ![r] = to]

-----------------------------------------------------------------------------
(* Disconnect, on its own or as the first statement of Connect. *)

(* Only the caller that takes the channel waits on it. *)
DisconnectTake(c) ==
  /\ pc[c] = "idle"
  /\ Call(c)
  /\ held' = [held EXCEPT ![c] = current]
  /\ current' = NoRun
  /\ pc' = [pc EXCEPT ![c] = IF current = NoRun THEN "clearing" ELSE "cancelling"]
  /\ overlapped' = (overlapped \/ \E d \in Callers : pc[d] # "idle")
  /\ UNCHANGED <<status, lastErr, addr, runPc, cancelled, helperVars>>

\* Mutation: the context is not cancelled.
DisconnectOnlyWaits(c) ==
  /\ CallerGoto(c, "cancelling", "waiting")
  /\ UNCHANGED <<locked, op, held, runPc, cancelled, helperVars, overlapped>>

\* Mutation: the cancel function is read again, after the unlock.
DisconnectCancelsCurrent(c) ==
  /\ CallerGoto(c, "cancelling", "waiting")
  /\ cancelled' = cancelled \union {current}
  /\ UNCHANGED <<locked, op, held, runPc, helperVars, overlapped>>

DisconnectCancel(c) ==
  /\ CallerGoto(c, "cancelling", "waiting")
  /\ cancelled' = cancelled \union {held[c]}
  /\ UNCHANGED <<locked, op, held, runPc, helperVars, overlapped>>

\* Mutation: the call does not wait for the goroutine to exit.
DisconnectDoesNotWait(c) ==
  /\ CallerGoto(c, "waiting", "clearing")
  /\ held' = [held EXCEPT ![c] = NoRun]
  /\ UNCHANGED <<locked, op, runPc, cancelled, helperVars, overlapped>>

DisconnectWait(c) ==
  /\ CallerGoto(c, "waiting", "clearing")
  /\ ~Live(held[c])
  /\ held' = [held EXCEPT ![c] = NoRun]
  /\ UNCHANGED <<locked, op, runPc, cancelled, helperVars, overlapped>>

DisconnectClear(c) ==
  /\ CallerGoto(c, "clearing", IF op[c] = "connect" THEN "opening" ELSE "idle")
  /\ status' = "idle" /\ lastErr' = FALSE /\ addr' = NoAddr
  /\ UNCHANGED <<current, op, held, runPc, cancelled, helperVars, overlapped>>

(* The rest of Connect: install the new run, whatever is installed now. *)
ConnectOpen(c) ==
  /\ CallerGoto(c, "opening", "idle")
  /\ status' = "connecting" /\ lastErr' = FALSE /\ addr' \in Addrs
  /\ \E r \in Runs :
       /\ Free(r)
       /\ current' = r
       /\ runPc' = [runPc EXCEPT ![r] = "dialing"]
       /\ cancelled' = cancelled \ {r}
       /\ closed' = closed \ {r}
       /\ buffered' = [buffered EXCEPT ![r] = 0]
  /\ UNCHANGED <<op, held, watching, pruning, overlapped>>

-----------------------------------------------------------------------------
(* run *)

(* The dial ends within its ten second timeout, or because the context is  *)
(* cancelled; an answer that is already in is not lost to the cancel.      *)
DialSucceeds(r) ==
  /\ RunGoto(r, "dialing", "dialed")
  /\ watching' = watching \union {r}
  /\ UNCHANGED <<locked, callerVars, cancelled, pruning, connVars, overlapped>>

DialFails(r) ==
  /\ RunGoto(r, "dialing", "dialErr")
  /\ UNCHANGED <<locked, callerVars, cancelled, helperVars, overlapped>>

(* The error is reported whether or not the context is cancelled. *)
ReportDialError(r) ==
  /\ RunGoto(r, "dialErr", "ending")
  /\ status' = "error" /\ lastErr' = TRUE
  /\ UNCHANGED <<addr, current, callerVars, cancelled, helperVars, overlapped>>

ReportConnected(r) ==
  /\ RunGoto(r, "dialed", "reading")
  /\ status' = "connected"
  /\ pruning' = pruning \union {r}
  /\ UNCHANGED <<lastErr, addr, current, callerVars, cancelled, watching, connVars, overlapped>>

(* A message is read and recorded in a catalog.  The reader hands out what *)
(* it has buffered even after the connection is closed.                    *)
Receive(r) ==
  /\ \/ /\ RunGoto(r, "reading", "processing")
        /\ r \in closed => buffered[r] > 0
        /\ buffered' = [buffered EXCEPT ![r] = IF r \in closed THEN @ - 1 ELSE @]
     \/ RunGoto(r, "processing", "reading") /\ UNCHANGED buffered
  /\ UNCHANGED <<locked, callerVars, cancelled, watching, pruning, closed, overlapped>>

\* Mutation: a read error is not told apart by the context, and dropped.
ReadFailsSilently(r) ==
  /\ RunGoto(r, "reading", "ending")
  /\ UNCHANGED <<locked, callerVars, cancelled, helperVars, overlapped>>

(* The peer or the watcher closed the connection. *)
ReadFails(r) ==
  /\ \/ RunGoto(r, "reading", "ending") /\ r \in cancelled
     \/ RunGoto(r, "reading", "readErr") /\ r \notin cancelled
  /\ UNCHANGED <<locked, callerVars, cancelled, helperVars, overlapped>>

ReportReadError(r) ==
  /\ RunGoto(r, "readErr", "ending")
  /\ status' = "error" /\ lastErr' = TRUE
  /\ UNCHANGED <<addr, current, callerVars, cancelled, helperVars, overlapped>>

(* close(doneCh).  The context stays as it is: nobody cancels it here. *)
RunEnds(r) ==
  /\ RunGoto(r, "ending", "none")
  /\ UNCHANGED <<locked, callerVars, cancelled, helperVars, overlapped>>

\* Mutation: the watcher does not close the connection.
WatcherOnlyExits(r) ==
  /\ r \in watching \intersect cancelled
  /\ watching' = watching \ {r}
  /\ UNCHANGED <<locked, callerVars, runPc, cancelled, pruning, connVars, overlapped>>

WatcherCloses(r) ==
  /\ r \in watching \intersect cancelled
  /\ watching' = watching \ {r}
  /\ closed' = closed \union {r}
  /\ \E n \in 0 .. MaxBuffered : buffered' = [buffered EXCEPT ![r] = n]
  /\ UNCHANGED <<locked, callerVars, runPc, cancelled, pruning, overlapped>>

PruneLoopEnds(r) ==
  /\ r \in pruning \intersect cancelled
  /\ pruning' = pruning \ {r}
  /\ UNCHANGED <<locked, callerVars, runPc, cancelled, watching, connVars, overlapped>>

-----------------------------------------------------------------------------
CallerStep(c) ==
  \/ DisconnectCancel(c) \/ DisconnectWait(c) \/ DisconnectClear(c)
  \/ ConnectOpen(c)

RunStep(r) ==
  \/ DialSucceeds(r) \/ DialFails(r) \/ ReportDialError(r) \/ ReportConnected(r)
  \/ Receive(r) \/ ReadFails(r) \/ ReportReadError(r) \/ RunEnds(r)

Next ==
  \/ \E c \in Callers : DisconnectTake(c) \/ CallerStep(c)
  \/ \E r \in Runs : RunStep(r) \/ WatcherCloses(r) \/ PruneLoopEnds(r)

Spec == Init /\ [][Next]_vars

(* A peer may be silent for ever, so a read is only obliged to return once *)
(* the connection is closed under it.                                      *)
MustStep(r) == (runPc[r] = "reading" => r \in closed) /\ RunStep(r)

Fairness ==
  /\ \A c \in Callers : WF_vars(CallerStep(c))
  /\ \A r \in Runs : /\ WF_vars(MustStep(r))
                     /\ WF_vars(WatcherCloses(r)) /\ WF_vars(PruneLoopEnds(r))

FairSpec == Spec /\ Fairness

-----------------------------------------------------------------------------
(* What holds for any number of callers. *)

(* A call only ever waits for a run that has been told to stop. *)
WaitsForCancelled ==
  \A c \in Callers : pc[c] = "waiting" => held[c] \in cancelled

(* Every call returns: no Disconnect hangs on a peer that stays silent, on *)
(* a dial under way or on a message being recorded.                        *)
CallsReturn == \A c \in Callers : pc[c] # "idle" ~> pc[c] = "idle"

(* A cancelled connection takes all of its goroutines with it. *)
CancelledGoesAway ==
  \A r \in Runs : r \in cancelled ~> Free(r) \/ r \notin cancelled

-----------------------------------------------------------------------------
(* What holds as long as no two calls have overlapped. *)

(* At most one run goroutine exists (remotetap_client.go:50-51).           *)
OneRun == ~overlapped => \A r, s \in Runs : Live(r) /\ Live(s) => r = s

(* "idle" means that nothing of an earlier connection still runs, so that  *)
(* nothing will be recorded and no status written (lines 73-95).           *)
IdleIsQuiet ==
  ~overlapped /\ status = "idle" => addr = NoAddr /\ \A r \in Runs : ~Live(r)

(* "connected", outside of a call, means the current run reads from its    *)
(* connection, or is about to report that it no longer can.                *)
ConnectedIsCurrent ==
  ~overlapped /\ status = "connected" /\ (\A c \in Callers : pc[c] = "idle") =>
    current # NoRun /\ Live(current) /\ current \notin cancelled

(* Watchers and prune loops that nobody has cancelled are those of the     *)
(* current connection, or of the one a caller is about to cancel:          *)
(* reconnecting does not pile them up.                                     *)
HelpersAreCurrent ==
  ~overlapped =>
    \A r \in watching \union pruning :
      r \in cancelled \/ r = current \/ \E c \in Callers : held[c] = r

(* The goroutines of a client are those of one connection, or of one that  *)
(* has been told to stop.                                                  *)
OneConnection == TypeOK /\ WaitsForCancelled /\ OneRun /\ HelpersAreCurrent

(* The status tells what runs. *)
StatusIsTruthful == IdleIsQuiet /\ ConnectedIsCurrent

=============================================================================
