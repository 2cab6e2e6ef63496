---------------------------- MODULE MetricsHook -----------------------------
(***************************************************************************)
(* The page's view of the metrics connection: useMetrics in                *)
(* frontend/src/hooks/use-metrics.ts with the buttons of                   *)
(* components/metrics-connection.tsx.  The page runs one continuation at a *)
(* time; what it waits for are fetches, handled by the server and answered *)
(* in any order, lost now and then, and forgotten by a page that is loaded *)
(* again.  The manager behind the server (MetricsManager) may also change  *)
(* on its own.  MaxFetches bounds the fetches in flight; clicks, faults    *)
(* and reloads are counted down.                                           *)
(***************************************************************************)
EXTENDS Integers, Sequences

CONSTANTS
  MaxFetches,
  Sessions,    \* bounds of a behaviour: [clicks, faults, reloads]
  NoFetch, NoSnapshot

ASSUME HookAssumption ==
  /\ MaxFetches \in Nat \ {0}
  /\ \A s \in Sessions : s.clicks \in Nat /\ s.faults \in Nat /\ s.reloads \in Nat

VARIABLES
  status, snapshot,
  polling,      \* pollRef holds an interval
  remembered,   \* LS_CONNECTED in the local storage, which outlives the page
  fetches,      \* per slot, a fetch in flight
  mgr,          \* the manager's [status, data]: is there data in its store
  left,         \* what is left of the session's clicks, faults and reloads
  late          \* ghost: a poll was answered on a page that no longer polls

page == <<status, snapshot, polling>>
hookVars == <<page, remembered, fetches, mgr, left, late>>

Statuses == {"disconnected", "connecting", "connected", "error"}
Kinds == {"connect", "disconnect", "reset", "poll", "restore"}
Managed == [status : Statuses, data : BOOLEAN]
(* The server is testing the target of a connect, or still is although the *)
(* fetch has failed; or it is done, or failed for the page.                *)
Results == {"none", "testing", "lost", "done", "failed"}
Fetches == [kind : Kinds, result : Results, told : Managed, awaited : BOOLEAN]
Unconnected == [status |-> "disconnected", data |-> FALSE]

ASSUME NoneAssumption == NoFetch \notin Fetches /\ NoSnapshot \notin BOOLEAN

HookTypeOK ==
  /\ status \in Statuses /\ snapshot \in BOOLEAN \union {NoSnapshot}
  /\ polling \in BOOLEAN /\ remembered \in BOOLEAN /\ late \in BOOLEAN
  /\ mgr \in Managed
  /\ fetches \in [1 .. MaxFetches -> Fetches \union {NoFetch}]

HookInit ==
  /\ status = "disconnected" /\ snapshot = NoSnapshot /\ polling = FALSE
  /\ remembered = FALSE /\ late = FALSE
  /\ fetches = [s \in 1 .. MaxFetches |-> NoFetch]
  /\ mgr = Unconnected
  /\ left \in Sessions

-----------------------------------------------------------------------------
Free(s) == fetches[s] = NoFetch
Sent(kind) == [kind |-> kind, result |-> "none", told |-> Unconnected, awaited |-> TRUE]
Spend(what) == left[what] > 0 /\ left' = [left EXCEPT ![what] = @ - 1]

(* A fetch goes out in the first free slot. *)
Fetch(kind) ==
  \E s \in 1 .. MaxFetches :
    /\ Free(s) /\ \A t \in 1 .. s - 1 : ~Free(t)
    /\ fetches' = [fetches EXCEPT ![s] = Sent(kind)]

(* handleToggle while the status is not connected; the button works also   *)
(* while a connection is under way.                                        *)
Connect ==
  /\ status # "connected"
  /\ Spend("clicks")
  /\ status' = "connecting"
  /\ Fetch("connect")
  /\ UNCHANGED <<snapshot, polling, remembered, mgr, late>>

Disconnect ==
  /\ status = "connected"
  /\ Spend("clicks")
  /\ polling' = FALSE
  /\ Fetch("disconnect")
  /\ UNCHANGED <<status, snapshot, remembered, mgr, late>>

ResetStore ==
  /\ snapshot # NoSnapshot
  /\ Spend("clicks")
  /\ Fetch("reset")
  /\ UNCHANGED <<page, remembered, mgr, late>>

Poll ==
  /\ polling
  /\ Fetch("poll")
  /\ UNCHANGED <<page, remembered, mgr, left, late>>

(* The page is loaded again: nobody awaits the answers any more, and the   *)
(* effect of the new page looks for a connection to restore.               *)
Reload ==
  /\ Spend("reloads")
  /\ status' = "disconnected" /\ snapshot' = NoSnapshot /\ polling' = FALSE
  /\ LET forgotten == [s \in 1 .. MaxFetches |->
                         IF Free(s) THEN NoFetch ELSE [fetches[s] EXCEPT !.awaited = FALSE]]
     IN  IF remembered
         THEN \E s \in 1 .. MaxFetches :
                /\ Free(s) /\ \A t \in 1 .. s - 1 : ~Free(t)
                /\ fetches' = [forgotten EXCEPT ![s] = Sent("restore")]
         ELSE fetches' = forgotten
  /\ UNCHANGED <<remembered, mgr>>
  /\ late' = FALSE

-----------------------------------------------------------------------------
(* The server. *)

Pending(s, kinds) == /\ ~Free(s)
                     /\ fetches[s].result = "none"
                     /\ fetches[s].kind \in kinds
Answer(s, result) == fetches' = [fetches EXCEPT ![s].result = result]

(* Connect clears the store before it tests the target; what it pushes and *)
(* the status it sets at the end are one step here, two in MetricsManager. *)
ConnectBegins(s) ==
  /\ Pending(s, {"connect"})
  /\ Answer(s, "testing")
  /\ mgr' = [status |-> "connecting", data |-> FALSE]
  /\ UNCHANGED <<page, remembered, left, late>>

ConnectEnds(s) ==
  /\ ~Free(s) /\ fetches[s].result \in {"testing", "lost"}
  /\ \/ /\ Answer(s, IF fetches[s].result = "lost" THEN "failed" ELSE "done")
        /\ mgr' = [status |-> "connected", data |-> TRUE]
        /\ UNCHANGED left
     \/ /\ Spend("faults")
        /\ Answer(s, "failed")
        /\ mgr' = [mgr EXCEPT !.status = "error"]
     \/ /\ mgr.status = "disconnected"   \* the scraper is gone: Connect panics
        /\ Answer(s, "failed")
        /\ UNCHANGED <<mgr, left>>
  /\ UNCHANGED <<page, remembered, late>>

HandleDisconnect(s) ==
  /\ Pending(s, {"disconnect"})
  /\ Answer(s, "done")
  /\ mgr' = Unconnected
  /\ UNCHANGED <<page, remembered, left, late>>

HandleReset(s) ==
  /\ Pending(s, {"reset"})
  /\ Answer(s, "done")
  /\ mgr' = [mgr EXCEPT !.data = FALSE]
  /\ UNCHANGED <<page, remembered, left, late>>

HandleSnapshot(s) ==
  /\ Pending(s, {"poll", "restore"})
  /\ fetches' = [fetches EXCEPT ![s] = [@ EXCEPT !.result = "done", !.told = mgr]]
  /\ UNCHANGED <<page, remembered, mgr, left, late>>

(* A fetch fails before the server has seen it, or its answer is lost; a   *)
(* server that is testing a target goes on.                                *)
FetchFails(s) ==
  /\ ~Free(s) /\ fetches[s].result \notin {"lost", "failed"}
  /\ Spend("faults")
  /\ Answer(s, IF fetches[s].result = "testing" THEN "lost" ELSE "failed")
  /\ UNCHANGED <<page, remembered, mgr, late>>

(* Scrapes succeed or fail, other pages connect, the server is restarted. *)
ManagerChanges ==
  /\ Spend("faults")
  /\ mgr' \in Managed
  /\ UNCHANGED <<page, remembered, fetches, late>>

Handle(s) ==
  \/ ConnectBegins(s) \/ ConnectEnds(s)
  \/ HandleDisconnect(s) \/ HandleReset(s) \/ HandleSnapshot(s)

-----------------------------------------------------------------------------
(* What the page does with the answers.  A continuation that sends the     *)
(* next fetch does so in the slot of the one that was answered.            *)

Answered(s, kind) == /\ ~Free(s)
                     /\ fetches[s].awaited
                     /\ fetches[s].result \in {"lost", "done", "failed"}
                     /\ fetches[s].kind = kind
Failing(s) == fetches[s].result \in {"lost", "failed"}

(* What the server still does for a lost fetch stays in its slot. *)
Abandoned(f) == IF f.result = "lost"
                THEN [f EXCEPT !.result = "testing", !.awaited = FALSE]
                ELSE NoFetch
Over(s) == fetches' = [fetches EXCEPT ![s] = Abandoned(@)]
Then(s, kind) == fetches' = [fetches EXCEPT ![s] = Sent(kind)]

(* startPolling: one interval at most, and a poll at once. *)
StartPolling(s) == polling' = TRUE /\ Then(s, "poll")

Connected(s) ==
  /\ Answered(s, "connect") /\ ~Failing(s)
  /\ status' = "connected" /\ remembered' = TRUE
  /\ StartPolling(s)
  /\ UNCHANGED <<snapshot, mgr, left, late>>

\* Mutation: the connection stays remembered.
ConnectFailedRemembers(s) ==
  /\ Answered(s, "connect") /\ Failing(s)
  /\ status' = "error"
  /\ Over(s)
  /\ UNCHANGED <<snapshot, polling, remembered, mgr, left, late>>

ConnectFailed(s) ==
  /\ Answered(s, "connect") /\ Failing(s)
  /\ status' = "error" /\ remembered' = FALSE
  /\ Over(s)
  /\ UNCHANGED <<snapshot, polling, mgr, left, late>>

\* Mutation: only if the fetch succeeded.
DisconnectedIfTold(s) ==
  /\ Answered(s, "disconnect")
  /\ IF Failing(s)
     THEN UNCHANGED <<status, snapshot, remembered>>
     ELSE status' = "disconnected" /\ snapshot' = NoSnapshot /\ remembered' = FALSE
  /\ Over(s)
  /\ UNCHANGED <<polling, mgr, left, late>>

(* Whether it failed or not. *)
Disconnected(s) ==
  /\ Answered(s, "disconnect")
  /\ status' = "disconnected" /\ snapshot' = NoSnapshot /\ remembered' = FALSE
  /\ Over(s)
  /\ UNCHANGED <<polling, mgr, left, late>>

WasReset(s) ==
  /\ Answered(s, "reset")
  /\ snapshot' = NoSnapshot
  /\ Then(s, "poll")
  /\ UNCHANGED <<status, polling, remembered, mgr, left, late>>

\* Mutation: the status of the answer is not taken over.
PolledWithoutStatus(s) ==
  /\ Answered(s, "poll") /\ ~Failing(s)
  /\ snapshot' = fetches[s].told.data
  /\ late' = (late \/ ~polling)
  /\ Over(s)
  /\ UNCHANGED <<status, polling, remembered, mgr, left>>

Polled(s) ==
  /\ Answered(s, "poll") /\ ~Failing(s)
  /\ snapshot' = fetches[s].told.data /\ status' = fetches[s].told.status
  /\ late' = (late \/ ~polling)
  /\ Over(s)
  /\ UNCHANGED <<polling, remembered, mgr, left>>

PollFailed(s) ==
  /\ Answered(s, "poll") /\ Failing(s)
  /\ Over(s)
  /\ UNCHANGED <<page, remembered, mgr, left, late>>

Restored(s) ==
  /\ Answered(s, "restore") /\ ~Failing(s) /\ fetches[s].told.status = "connected"
  /\ status' = "connected" /\ snapshot' = fetches[s].told.data
  /\ StartPolling(s)
  /\ UNCHANGED <<remembered, mgr, left, late>>

(* The backend lost the connection: connect to the saved URL.  There is    *)
(* one: handleToggle saves it before it connects, and nothing removes it,  *)
(* so the branch without it (use-metrics.ts:116-118) cannot be taken.      *)
Reconnects(s) ==
  /\ Answered(s, "restore")
  /\ Failing(s) \/ fetches[s].told.status # "connected"
  /\ status' = "connecting"
  /\ Then(s, "connect")
  /\ UNCHANGED <<snapshot, polling, remembered, mgr, left, late>>

Forgotten(s) ==
  /\ ~Free(s) /\ ~fetches[s].awaited /\ fetches[s].result \in {"done", "failed"}
  /\ Over(s)
  /\ UNCHANGED <<page, remembered, mgr, left, late>>

Receive(s) ==
  \/ Connected(s) \/ ConnectFailed(s) \/ Disconnected(s) \/ WasReset(s)
  \/ Polled(s) \/ PollFailed(s) \/ Restored(s) \/ Reconnects(s) \/ Forgotten(s)

HookNext ==
  \/ Connect \/ Disconnect \/ ResetStore \/ Poll \/ Reload \/ ManagerChanges
  \/ \E s \in 1 .. MaxFetches : Handle(s) \/ FetchFails(s) \/ Receive(s)

(* Every fetch is answered or fails, and the interval keeps firing. *)
HookFairness ==
  /\ WF_hookVars(Poll)
  /\ \A s \in 1 .. MaxFetches : WF_hookVars(Handle(s)) /\ WF_hookVars(Receive(s))

HookSpec == HookInit /\ [][HookNext]_hookVars /\ HookFairness

-----------------------------------------------------------------------------
(* A page that polls comes to show the status and the data of the manager, *)
(* whatever overtook whatever, once the user and the manager come to rest  *)
(* (use-metrics.ts:32-48).                                                 *)
PolledAgrees ==
  <>[](~polling) \/ <>[](status = mgr.status /\ snapshot = mgr.data)

(* A connection that is remembered is polled again after every reload, or  *)
(* is forgotten when it cannot be restored (use-metrics.ts:95-123).        *)
RememberedIsRestored == []<>(polling \/ ~remembered)

(* A page that neither polls nor waits for anything shows no connection,   *)
(* except after a poll that was answered when it had stopped polling       *)
(* (use-metrics.ts:34-39, :73-85).                                         *)
FrozenOnlyByLatePoll ==
  ~polling /\ (\A s \in 1 .. MaxFetches : ~Free(s) => ~fetches[s].awaited) /\ ~late =>
    status \in {"disconnected", "error"} /\ snapshot = NoSnapshot

=============================================================================
