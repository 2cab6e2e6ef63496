----------------------------- MODULE MetricsManager -----------------------------
(***************************************************************************)
(* The lifecycle of a metrics connection, metrics/manager.go: concurrent   *)
(* calls of Connect, Disconnect and ResetStore (HTTP handlers, and the     *)
(* auto-connect of the serve command) against the background scrape loops. *)
(*                                                                         *)
(* One action is one stretch of code between two points at which another   *)
(* goroutine can run: a critical section of m.mu or of the store's lock,   *)
(* or the unlocked read of m.scraper that starts a scrape.  That read is   *)
(* one machine word; a stale value of it is the value of an earlier        *)
(* schedule of the same step.                                              *)
(***************************************************************************)
EXTENDS MetricsStore, FiniteSets

CONSTANTS
  Callers,      \* goroutines that call the Manager's exported methods
  Endpoints,    \* scrape targets; a Scraper is represented by its target
  Setups,       \* who may call and with which targets: pairs of sets
  Loops,        \* ids of the scrapeLoop goroutines that exist at a time
  NoScraper,    \* m.scraper == nil
  NoLoop        \* m.cancel == nil

ASSUME NilAssumption == NoScraper \notin Endpoints /\ NoLoop \notin Loops
ASSUME FiniteAssumption == IsFiniteSet(Callers) /\ IsFiniteSet(Loops)
ASSUME SetupsAssumption == Setups \subseteq (SUBSET Callers) \X (SUBSET Endpoints)

VARIABLES
  clients, targets,     \* the callers and targets of this behaviour, fixed
  status, lastErr,      \* m.status; whether m.lastErr is non-empty
  scraper,              \* m.scraper
  cancel,               \* m.cancel: the loop whose context it cancels
  store,                \* snapshots, each represented by the scraped target
  callerPc, callerEp,   \* where each caller is; the target it is scraping
  loopPc, loopEp,       \* where each loop is; the target it is scraping
  cancelled,            \* loops whose context is cancelled
  running               \* FALSE once a goroutine panicked unrecovered

locked == <<status, lastErr, scraper, cancel>>
callerVars == <<callerPc, callerEp>>
loopVars == <<loopPc, loopEp>>
setup == <<clients, targets>>
vars == <<setup, locked, store, callerVars, loopVars, cancelled, running>>

Statuses == {"disconnected", "connecting", "connected", "error"}
CallerPcs == {"idle", "testing", "scraping", "pushing", "committing", "failing"}
LoopPcs == {"none", "select", "scraping", "pushing", "reporting", "failing"}

TypeOK ==
  /\ clients \subseteq Callers /\ targets \subseteq Endpoints
  /\ status \in Statuses
  /\ lastErr \in BOOLEAN
  /\ scraper \in Endpoints \union {NoScraper}
  /\ cancel \in Loops \union {NoLoop}
  /\ store \in Seq(Endpoints) /\ Len(store) <= WindowSize
  /\ callerPc \in [Callers -> CallerPcs]
  /\ callerEp \in [Callers -> Endpoints \union {NoScraper}]
  /\ \A c \in Callers : callerPc[c] \in {"scraping", "pushing"} => callerEp[c] \in Endpoints
  /\ loopPc \in [Loops -> LoopPcs]
  /\ loopEp \in [Loops -> Endpoints \union {NoScraper}]
  /\ \A l \in Loops : loopPc[l] \in {"scraping", "pushing"} => loopEp[l] \in Endpoints
  /\ cancelled \subseteq Loops
  /\ running \in BOOLEAN

Init ==
  /\ \E s \in Setups : clients = s[1] /\ targets = s[2]
  /\ status = "disconnected"
  /\ lastErr = FALSE
  /\ scraper = NoScraper
  /\ cancel = NoLoop
  /\ store = NewStore
  /\ callerPc = [c \in Callers |-> "idle"]
  /\ callerEp = [c \in Callers |-> NoScraper]
  /\ loopPc = [l \in Loops |-> "none"]
  /\ loopEp = [l \in Loops |-> NoScraper]
  /\ cancelled = {}
  /\ running = TRUE

Live(l) == loopPc[l] # "none"
Active(l) == Live(l) /\ l \notin cancelled
Busy(c) == callerPc[c] # "idle"

CallerGoto(c, from, to) ==
  /\ running
  /\ callerPc[c] = from
  /\ callerPc' = [callerPc EXCEPT ![c] = to]

LoopGoto(l, from, to) ==
  /\ running
  /\ loopPc[l] = from
  /\ loopPc' = [loopPc EXCEPT ![l] = to]

(* m.cancel(), when m.cancel is not nil. *)
CallCancel == cancelled' = cancelled \union ({cancel} \ {NoLoop})

-----------------------------------------------------------------------------
(* Connect. *)

\* Mutation: a reconnect does not stop the loop of the previous connection.
ConnectBeginWithoutCancel(c) ==
  /\ CallerGoto(c, "idle", "testing")
  /\ \E e \in targets : scraper' = e
  /\ status' = "connecting"
  /\ lastErr' = FALSE
  /\ store' = Clear(store)
  /\ UNCHANGED <<cancel, callerEp, loopVars, cancelled, running>>

(* The first critical section.  m.cancel is called but keeps its value. *)
ConnectBegin(c) ==
  /\ CallerGoto(c, "idle", "testing")
  /\ CallCancel
  /\ status' = "connecting"
  /\ lastErr' = FALSE
  /\ store' = Clear(store)
  /\ \E e \in targets : scraper' = e
  /\ UNCHANGED <<cancel, callerEp, loopVars, running>>

(* The unlocked call of m.scraper.Scrape: the target is read here. *)
TestBegin(c) ==
  /\ CallerGoto(c, "testing", "scraping")
  /\ scraper # NoScraper
  /\ callerEp' = [callerEp EXCEPT ![c] = scraper]
  /\ UNCHANGED <<locked, store, loopVars, cancelled, running>>

(* A concurrent Disconnect made m.scraper nil: the handler panics, which   *)
(* net/http recovers, and the call ends there.                             *)
TestPanics(c) ==
  /\ CallerGoto(c, "testing", "idle")
  /\ scraper = NoScraper
  /\ UNCHANGED <<locked, store, callerEp, loopVars, cancelled, running>>

(* The target answers, refuses, or the five second timeout expires. *)
TestEnds(c) ==
  /\ \/ CallerGoto(c, "scraping", "pushing")
     \/ CallerGoto(c, "scraping", "failing")
  /\ UNCHANGED <<locked, store, callerEp, loopVars, cancelled, running>>

\* Mutation: the error path returns without recording the failure.
ConnectFailsSilently(c) ==
  /\ CallerGoto(c, "failing", "idle")
  /\ UNCHANGED <<locked, store, callerEp, loopVars, cancelled, running>>

ConnectFails(c) ==
  /\ CallerGoto(c, "failing", "idle")
  /\ status' = "error"
  /\ lastErr' = TRUE
  /\ UNCHANGED <<scraper, cancel, store, callerEp, loopVars, cancelled, running>>

ConnectPush(c) ==
  /\ CallerGoto(c, "pushing", "committing")
  /\ store' = Push(store, callerEp[c])
  /\ UNCHANGED <<locked, callerEp, loopVars, cancelled, running>>

(* The last critical section and the go statement.  lastErr and scraper    *)
(* are left as they are, and a cancel function already there is lost.      *)
ConnectCommit(c) ==
  /\ CallerGoto(c, "committing", "idle")
  /\ status' = "connected"
  /\ \E l \in Loops :
       /\ ~Live(l)
       /\ cancel' = l
       /\ loopPc' = [loopPc EXCEPT ![l] = "select"]
       /\ cancelled' = cancelled \ {l}
  /\ UNCHANGED <<lastErr, scraper, store, callerEp, loopEp, running>>

-----------------------------------------------------------------------------
(* Disconnect and ResetStore: one critical section each. *)

\* Mutation: the cancel function is forgotten without being called.
DisconnectWithoutCancel(c) ==
  /\ CallerGoto(c, "idle", "idle")
  /\ cancel' = NoLoop
  /\ scraper' = NoScraper
  /\ status' = "disconnected"
  /\ lastErr' = FALSE
  /\ store' = Clear(store)
  /\ UNCHANGED <<callerEp, loopVars, cancelled, running>>

Disconnect(c) ==
  /\ CallerGoto(c, "idle", "idle")
  /\ CallCancel
  /\ cancel' = NoLoop
  /\ scraper' = NoScraper
  /\ status' = "disconnected"
  /\ lastErr' = FALSE
  /\ store' = Clear(store)
  /\ UNCHANGED <<callerEp, loopVars, running>>

ResetStore(c) ==
  /\ CallerGoto(c, "idle", "idle")
  /\ store' = Clear(store)
  /\ UNCHANGED <<locked, callerEp, loopVars, cancelled, running>>

-----------------------------------------------------------------------------
(* scrapeLoop.  With its context cancelled and a tick pending, select may  *)
(* take either case, so a tick is not guarded by the context.              *)

LoopDone(l) ==
  /\ LoopGoto(l, "select", "none")
  /\ l \in cancelled
  /\ UNCHANGED <<locked, store, callerVars, loopEp, cancelled, running>>

(* A tick: the unlocked call of m.scraper.Scrape.  Under a cancelled       *)
(* context the request fails at once and the loop returns.                 *)
LoopScrapes(l) ==
  /\ scraper # NoScraper
  /\ \/ /\ LoopGoto(l, "select", "scraping")
        /\ l \notin cancelled
        /\ loopEp' = [loopEp EXCEPT ![l] = scraper]
     \/ /\ LoopGoto(l, "select", "none")
        /\ l \in cancelled
        /\ UNCHANGED loopEp
  /\ UNCHANGED <<locked, store, callerVars, cancelled, running>>

(* A tick with m.scraper nil: the dereference panics in a goroutine nobody *)
(* recovers, which ends the process.                                       *)
LoopPanics(l) ==
  /\ running
  /\ loopPc[l] = "select"
  /\ scraper = NoScraper
  /\ running' = FALSE
  /\ UNCHANGED <<locked, store, callerVars, loopVars, cancelled>>

(* A response that is in before the cancellation is not lost to it. *)
LoopScrapeSucceeds(l) ==
  /\ LoopGoto(l, "scraping", "pushing")
  /\ UNCHANGED <<locked, store, callerVars, loopEp, cancelled, running>>

\* Mutation: every scrape error ends the loop, not only a cancellation.
LoopScrapeErrorEndsLoop(l) ==
  /\ LoopGoto(l, "scraping", "none")
  /\ UNCHANGED <<locked, store, callerVars, loopEp, cancelled, running>>

(* The error path: return when ctx.Err() is set, else go on to report. *)
LoopScrapeErrs(l) ==
  /\ \/ LoopGoto(l, "scraping", "none") /\ l \in cancelled
     \/ LoopGoto(l, "scraping", "failing") /\ l \notin cancelled
  /\ UNCHANGED <<locked, store, callerVars, loopEp, cancelled, running>>

LoopReportsError(l) ==
  /\ LoopGoto(l, "failing", "select")
  /\ status' = "error"
  /\ lastErr' = TRUE
  /\ UNCHANGED <<scraper, cancel, store, callerVars, loopEp, cancelled, running>>

LoopPush(l) ==
  /\ LoopGoto(l, "pushing", "reporting")
  /\ store' = Push(store, loopEp[l])
  /\ UNCHANGED <<locked, callerVars, loopEp, cancelled, running>>

\* Mutation: a success clears the error but leaves the status.
LoopReportsNothing(l) ==
  /\ LoopGoto(l, "reporting", "select")
  /\ lastErr' = FALSE
  /\ UNCHANGED <<status, scraper, cancel, store, callerVars, loopEp, cancelled, running>>

\* Mutation: a cancelled loop pushes its snapshot, but keeps the status.
LoopReportsUnlessCancelled(l) ==
  /\ LoopGoto(l, "reporting", "select")
  /\ status' = IF l \in cancelled THEN status ELSE "connected"
  /\ lastErr' = IF l \in cancelled THEN lastErr ELSE FALSE
  /\ UNCHANGED <<scraper, cancel, store, callerVars, loopEp, cancelled, running>>

LoopReportsSuccess(l) ==
  /\ LoopGoto(l, "reporting", "select")
  /\ status' = "connected"
  /\ lastErr' = FALSE
  /\ UNCHANGED <<scraper, cancel, store, callerVars, loopEp, cancelled, running>>

-----------------------------------------------------------------------------
ConnectStep(c) ==
  /\ c \in clients /\ UNCHANGED setup
  /\ \/ TestBegin(c) \/ TestPanics(c) \/ TestEnds(c)
     \/ ConnectFails(c) \/ ConnectPush(c) \/ ConnectCommit(c)

Request(c) ==
  /\ c \in clients /\ UNCHANGED setup
  /\ ConnectBegin(c) \/ Disconnect(c) \/ ResetStore(c)

LoopStep(l) ==
  /\ UNCHANGED setup
  /\ \/ LoopDone(l) \/ LoopScrapes(l) \/ LoopPanics(l)
     \/ LoopScrapeSucceeds(l) \/ LoopScrapeErrs(l)
     \/ LoopReportsError(l) \/ LoopPush(l) \/ LoopReportsSuccess(l)

Next ==
  \/ \E c \in Callers : Request(c) \/ ConnectStep(c)
  \/ \E l \in Loops : LoopStep(l)

Spec == Init /\ [][Next]_vars

(* Goroutines that can run do run, requests time out after five seconds    *)
(* and the ticker keeps ticking.  Nobody is obliged to call the Manager.   *)
Fairness ==
  /\ \A c \in Callers : WF_vars(ConnectStep(c))
  /\ \A l \in Loops : WF_vars(LoopStep(l))

FairSpec == Spec /\ Fairness

-----------------------------------------------------------------------------
(* What holds for any number of callers. *)

(* The status reads "connecting" only while a call of Connect is under way *)
(* that will change it: no interleaving of Connect, Disconnect and the     *)
(* loops leaves the UI waiting for a connection nobody is making.          *)
ConnectingHasOwner ==
  status = "connecting" => scraper # NoScraper /\ \E c \in Callers : Busy(c)

(* The loop that m.cancel refers to runs until it is cancelled: scrape     *)
(* errors alone never end it, so a connection does not stop by itself.     *)
EstablishedLoopLives ==
  cancel # NoLoop /\ cancel \notin cancelled => Live(cancel)

(* Whatever the manager is waiting for, somebody is there to do it. *)
ConnectionIsOwned == ConnectingHasOwner /\ EstablishedLoopLives

(* Goroutines that have pushed a snapshot and have yet to set the status. *)
Announcing == {c \in Callers : callerPc[c] = "committing"}
Reporting == {l \in Loops : loopPc[l] = "reporting"}

(* Disconnect cannot call back what is in flight, but a status that reads  *)
(* "disconnected" hides no more than that: for every snapshot in the store *)
(* some Connect or loop, cancelled or not, is about to report "connected", *)
(* so that data that came late never stays behind a status that denies it  *)
(* (metrics/manager.go:67-75, :139-144 against :80-93).                    *)
LateDataIsAnnounced ==
  status = "disconnected" =>
    Len(store) <= Cardinality(Announcing) + Cardinality(Reporting)

(* An error status on an established connection is replaced by its loop,   *)
(* without a reconnect, unless its next scrape fails as well.              *)
ErrorsAreRecovered ==
  \A l \in Loops :
    (cancel = l /\ l \notin cancelled /\ status = "error")
      ~> \/ status # "error" \/ loopPc[l] = "failing"
         \/ cancel # l \/ l \in cancelled \/ ~running

-----------------------------------------------------------------------------
(* What holds when calls come one at a time. *)

OneCaller == \A c, d \in clients : c = d

(* At most one loop is scraping on behalf of a connection. *)
SingleActiveLoop ==
  OneCaller => \A l, m \in Loops : Active(l) /\ Active(m) => l = m

(* A loop that is not cancelled never finds m.scraper nil, and what it     *)
(* fetches comes from the target of the current connection.                *)
ActiveLoopHasScraper ==
  OneCaller => \A l \in Loops :
    Active(l) => /\ scraper # NoScraper
                 /\ loopPc[l] \in {"scraping", "pushing"} => loopEp[l] = scraper

(* A loop that m.cancel does not refer to, so that no later call can stop  *)
(* it, goes away by itself.                                                *)
OrphanLoopExits ==
  \A l \in Loops :
    (OneCaller /\ Live(l) /\ cancel # l) ~> (~Live(l) \/ cancel = l \/ ~running)

-----------------------------------------------------------------------------
(* What the documentation says and the code does not guarantee. *)

(* docs/adr/0005:91 has Disconnect stop the ticker and clear the store;    *)
(* an in-flight scrape publishes its snapshot afterwards.                  *)
NoDataWhileDisconnected == status = "disconnected" => store = <<>>

(* metrics/manager.go:130 has a cancelled loop "exit gracefully"; a tick   *)
(* taken after Disconnect dereferences a nil scraper instead.              *)
LoopsExitGracefully == running

=============================================================================
