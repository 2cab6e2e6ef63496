------------------------------ MODULE StoreReaders ------------------------------
(***************************************************************************)
(* Requests that read the metrics store while scrapes and disconnects      *)
(* change it: an analysis, which runs the live rules one after the other   *)
(* (api/handlers.go, rules/engine/engine.go, rules/live/*.go), and a       *)
(* snapshot of the computed rates (metrics/store.go).                      *)
(*                                                                         *)
(* Every read of the store takes the store's lock for itself only, so a    *)
(* push or a clear may come between any two reads of one request.  A       *)
(* snapshot is represented by its number in the order of the pushes.       *)
(***************************************************************************)
EXTENDS MetricsStore

CONSTANTS
  Requests,     \* goroutines serving requests
  MaxPushes,    \* bound on the number of pushes
  Rates         \* bound: how many rates one computed snapshot reads

ASSUME ReaderAssumption == MaxPushes \in Nat /\ Rates \in Nat

(* What a live rule does with the store: how many snapshots it asks for,   *)
(* and how it reads them.  "last" indexes the last element of the window,  *)
(* "rates" allocates len(window)-1 slots, "scan" only loops over the       *)
(* window, "pair" reads Previous and then Latest without asking.           *)
HighDropRate == [needs |-> 3, reads |-> "scan"]
LogVolumeDominance == [needs |-> 0, reads |-> "pair"]
QueueNearCapacity == [needs |-> 3, reads |-> "last"]
ReceiverExporterMismatch == [needs |-> 4, reads |-> "scan"]
ExporterSustainedFailures == [needs |-> 4, reads |-> "last"]
ReceiverBackpressure == [needs |-> 4, reads |-> "rates"]
ZeroThroughput == [needs |-> 4, reads |-> "scan"]

LiveRules == <<HighDropRate, LogVolumeDominance, QueueNearCapacity,
  ReceiverExporterMismatch, ExporterSustainedFailures, ReceiverBackpressure,
  ZeroThroughput>>

VARIABLES
  store,      \* numbers of the snapshots, oldest push first
  pushes,     \* how many snapshots have been pushed
  connected,  \* m.status == StatusConnected
  pc,         \* where each request is
  rule,       \* index in LiveRules of the rule a request evaluates
  prev, curr, \* snapshots a request holds; 0 for nil
  window,     \* window a request took last
  todo,       \* rates a computed snapshot has still to read
  cleared     \* ghost: the store was cleared since the rule's Len check

vars == <<store, pushes, connected, pc, rule, prev, curr, window, todo, cleared>>
storeVars == <<store, pushes, connected, cleared>>

Pcs == {"idle", "dispatch", "len", "window", "eval", "latest", "rates", "panicked"}
Numbers == 0 .. MaxPushes

TypeOK ==
  /\ store \in Seq(Numbers) /\ Len(store) <= WindowSize
  /\ pushes \in Numbers
  /\ connected \in BOOLEAN
  /\ pc \in [Requests -> Pcs]
  /\ rule \in [Requests -> 1 .. Len(LiveRules)]
  /\ prev \in [Requests -> Numbers] /\ curr \in [Requests -> Numbers]
  /\ window \in [Requests -> Seq(Numbers)]
  /\ \A r \in Requests : Len(window[r]) <= WindowSize
  /\ todo \in [Requests -> 0 .. Rates]
  /\ cleared \in [Requests -> BOOLEAN]

Init ==
  /\ store = NewStore /\ pushes = 0 /\ connected = FALSE
  /\ pc = [r \in Requests |-> "idle"]
  /\ rule = [r \in Requests |-> 1]
  /\ prev = [r \in Requests |-> 0] /\ curr = [r \in Requests |-> 0]
  /\ window = [r \in Requests |-> <<>>]
  /\ todo = [r \in Requests |-> 0]
  /\ cleared = [r \in Requests |-> FALSE]

Latest(s) == IF s = <<>> THEN 0 ELSE s[Len(s)]
Previous(s) == IF Len(s) < 2 THEN 0 ELSE s[Len(s) - 1]
Rule(r) == LiveRules[rule[r]]

-----------------------------------------------------------------------------
(* What the scrape loop and the other handlers do to the store. *)

(* A push by the scrape loop or by Connect, and the status it reports.     *)
Scrape ==
  /\ pushes < MaxPushes
  /\ pushes' = pushes + 1
  /\ store' = Push(store, pushes')
  /\ connected' = TRUE
  /\ UNCHANGED <<pc, rule, prev, curr, window, todo, cleared>>

(* ResetStore keeps the connection; Connect and Disconnect end it. *)
StoreCleared ==
  /\ store' = Clear(store)
  /\ connected' \in {connected, FALSE}
  /\ cleared' = [r \in Requests |-> TRUE]
  /\ UNCHANGED <<pushes, pc, rule, prev, curr, window, todo>>

-----------------------------------------------------------------------------
(* POST /api/config/analyze *)

AnalyzeStart(r) ==
  /\ pc[r] = "idle"
  /\ connected
  /\ pc' = [pc EXCEPT ![r] = "dispatch"]
  /\ rule' = [rule EXCEPT ![r] = 1]
  /\ UNCHANGED <<storeVars, prev, curr, window, todo>>

(* The next rule, or the response after the last one. *)
NextRule(r) ==
  IF rule[r] < Len(LiveRules)
  THEN /\ pc' = [pc EXCEPT ![r] = "dispatch"]
       /\ rule' = [rule EXCEPT ![r] = @ + 1]
  ELSE /\ pc' = [pc EXCEPT ![r] = "idle"]
       /\ UNCHANGED rule

(* Engine.EvaluateWithMetrics: store.Len() >= 2, or the static variant. *)
EngineDispatch(r) ==
  /\ pc[r] = "dispatch"
  /\ IF Len(store) >= 2
     THEN pc' = [pc EXCEPT ![r] = "len"] /\ UNCHANGED rule
     ELSE NextRule(r)
  /\ UNCHANGED <<storeVars, prev, curr, window, todo>>

\* Mutation: the rule does not check how many snapshots there are.
RuleLenUnchecked(r) ==
  /\ pc[r] = "len"
  /\ Rule(r).reads # "pair"
  /\ pc' = [pc EXCEPT ![r] = "window"]
  /\ cleared' = [cleared EXCEPT ![r] = FALSE]
  /\ UNCHANGED <<store, pushes, connected, rule, prev, curr, window, todo>>

RuleLen(r) ==
  /\ pc[r] = "len"
  /\ Rule(r).reads # "pair"
  /\ IF Len(store) < Rule(r).needs
     THEN NextRule(r)
     ELSE pc' = [pc EXCEPT ![r] = "window"] /\ UNCHANGED rule
  /\ cleared' = [cleared EXCEPT ![r] = FALSE]
  /\ UNCHANGED <<store, pushes, connected, prev, curr, window, todo>>

\* Mutation: the older snapshot of the pair is taken with Latest.
RulePreviousIsLatest(r) ==
  /\ pc[r] = "len"
  /\ Rule(r).reads = "pair"
  /\ prev' = [prev EXCEPT ![r] = Latest(store)]
  /\ pc' = [pc EXCEPT ![r] = "window"]
  /\ UNCHANGED <<storeVars, rule, curr, window, todo>>

RulePrevious(r) ==
  /\ pc[r] = "len"
  /\ Rule(r).reads = "pair"
  /\ prev' = [prev EXCEPT ![r] = Previous(store)]
  /\ pc' = [pc EXCEPT ![r] = "window"]
  /\ UNCHANGED <<storeVars, rule, curr, window, todo>>

RuleReads(r) ==
  /\ pc[r] = "window"
  /\ IF Rule(r).reads = "pair"
     THEN curr' = [curr EXCEPT ![r] = Latest(store)] /\ UNCHANGED window
     ELSE window' = [window EXCEPT ![r] = store] /\ UNCHANGED curr
  /\ pc' = [pc EXCEPT ![r] = "eval"]
  /\ UNCHANGED <<storeVars, rule, prev, todo>>

(* window[len(window)-1], or make with capacity len(window)-1, of an empty *)
(* window panics; net/http recovers and drops the request.                 *)
RulePanics(r) ==
  /\ pc[r] = "eval"
  /\ Rule(r).reads \in {"last", "rates"}
  /\ window[r] = <<>>
  /\ pc' = [pc EXCEPT ![r] = "panicked"]
  /\ UNCHANGED <<storeVars, rule, prev, curr, window, todo>>

RuleEvaluates(r) ==
  /\ pc[r] = "eval"
  /\ Rule(r).reads \in {"last", "rates"} => window[r] # <<>>
  /\ NextRule(r)
  /\ UNCHANGED <<storeVars, prev, curr, window, todo>>

PanicRecovered(r) ==
  /\ pc[r] = "panicked"
  /\ pc' = [pc EXCEPT ![r] = "idle"]
  /\ UNCHANGED <<storeVars, rule, prev, curr, window, todo>>

-----------------------------------------------------------------------------
(* GET /api/metrics/snapshot: ComputeSnapshot *)

SnapshotLatest(r) ==
  /\ pc[r] = "idle"
  /\ curr' = [curr EXCEPT ![r] = Latest(store)]
  /\ pc' = [pc EXCEPT ![r] = IF store = <<>> THEN "idle" ELSE "rates"]
  /\ todo' = [todo EXCEPT ![r] = Rates]
  /\ window' = [window EXCEPT ![r] = <<>>]
  /\ UNCHANGED <<storeVars, rule, prev>>

(* One WindowRatePerSecond: each takes a window of its own. *)
SnapshotRate(r) ==
  /\ pc[r] = "rates"
  /\ todo[r] > 0
  /\ window' = [window EXCEPT ![r] = store]
  /\ todo' = [todo EXCEPT ![r] = @ - 1]
  /\ UNCHANGED <<storeVars, pc, rule, prev, curr>>

SnapshotDone(r) ==
  /\ pc[r] = "rates"
  /\ todo[r] = 0
  /\ pc' = [pc EXCEPT ![r] = "idle"]
  /\ UNCHANGED <<storeVars, rule, prev, curr, window, todo>>

-----------------------------------------------------------------------------
Serve(r) ==
  \/ EngineDispatch(r) \/ RuleLen(r) \/ RulePrevious(r) \/ RuleReads(r)
  \/ RulePanics(r) \/ RuleEvaluates(r) \/ PanicRecovered(r)
  \/ SnapshotRate(r) \/ SnapshotDone(r)

Next ==
  \/ Scrape \/ StoreCleared
  \/ \E r \in Requests : AnalyzeStart(r) \/ SnapshotLatest(r) \/ Serve(r)

Spec == Init /\ [][Next]_vars

-----------------------------------------------------------------------------
(* The pair LogVolumeDominance compares is in order and is never one       *)
(* snapshot twice, although the two are read apart                         *)
(* (rules/live/log_volume_dominance.go:23-27).                             *)
PairIsOrdered ==
  \A r \in Requests :
    pc[r] = "eval" /\ Rule(r).reads = "pair" /\ prev[r] # 0 /\ curr[r] # 0
      => prev[r] < curr[r]

(* The only way a rule evaluates fewer snapshots than it checked for is a  *)
(* clear between the check and the read of the window.                     *)
RuleHasEnough ==
  \A r \in Requests :
    pc[r] = "eval" /\ Rule(r).reads # "pair" /\ ~cleared[r]
      => Len(window[r]) >= Rule(r).needs

(* Each rate of a computed snapshot comes from a window that reaches to    *)
(* the snapshot whose collection time is reported, or beyond, its oldest   *)
(* push first, or from an empty window (metrics/store.go:191-281).         *)
RatesNotOlderThanReported ==
  \A r \in Requests :
    pc[r] = "rates" /\ window[r] # <<>> =>
      /\ curr[r] <= Latest(window[r])
      /\ \A i \in 2 .. Len(window[r]) : window[r][i - 1] < window[r][i]

(* What a request holds is what the store held at some time, pairs in      *)
(* order.                                                                  *)
ReadsAreConsistent == TypeOK /\ PairIsOrdered

(* rules/live/live_test.go:469-483 expects no finding, and no panic, from  *)
(* a rule whose store holds too few snapshots.                             *)
InsufficientDataIsHandled == \A r \in Requests : pc[r] # "panicked"

=============================================================================
