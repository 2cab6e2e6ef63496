-------------------------- MODULE StoreReadersProofs --------------------------
(***************************************************************************)
(* Proofs about StoreReaders, for any number of requests, any window size  *)
(* and any bounds.                                                         *)
(*                                                                         *)
(* The snapshots in the store and in every window taken from it are in the *)
(* order of the pushes; what a request has read is not later than what it  *)
(* will find in the store when it reads again, whether the store was       *)
(* cleared and filled again meanwhile or not.                              *)
(***************************************************************************)
EXTENDS StoreReaders, SequenceTheorems, TLAPS

Ascending(s) == \A i, j \in 1 .. Len(s) : i < j => s[i] < s[j]

OrderInv ==
  /\ Ascending(store) /\ \A i \in 1 .. Len(store) : store[i] \in 1 .. pushes
  /\ \A r \in Requests : Ascending(window[r])
  /\ \A r \in Requests : prev[r] <= pushes /\ curr[r] <= pushes

PairInv ==
  \A r \in Requests :
    /\ pc[r] = "window" /\ Rule(r).reads = "pair" /\ store # <<>> =>
         prev[r] = 0 \/ prev[r] < Latest(store)
    /\ pc[r] = "eval" /\ Rule(r).reads = "pair" =>
         prev[r] = 0 \/ curr[r] = 0 \/ prev[r] < curr[r]

EnoughInv ==
  \A r \in Requests :
    Rule(r).reads # "pair" /\ ~cleared[r] =>
      /\ pc[r] = "window" => Len(store) >= Rule(r).needs
      /\ pc[r] = "eval" => Len(window[r]) >= Rule(r).needs

RatesInv ==
  \A r \in Requests :
    pc[r] = "rates" =>
      /\ store # <<>> => curr[r] <= Latest(store)
      /\ window[r] # <<>> => curr[r] <= Latest(window[r])

ReaderInv == TypeOK /\ OrderInv /\ PairInv /\ EnoughInv /\ RatesInv
-----------------------------------------------------------------------------
(* t is s with x after it, possibly without the first elements of s. *)
Pushed(s, x, t) ==
  /\ Len(t) \in 1 .. WindowSize /\ Len(t) >= Len(s)
  /\ t[Len(t)] = x
  /\ \E d \in Nat : \A i \in 1 .. Len(t) - 1 : i + d \in 1 .. Len(s) /\ t[i] = s[i + d]

(* Push puts the new snapshot last and, when the window is full, leaves    *)
(* out the oldest ones; it never makes the window shorter (store.go:22-31).*)
LEMMA PushProperties ==
  ASSUME NEW S, NEW s \in Seq(S), NEW x \in S, Len(s) <= WindowSize
  PROVE  Push(s, x) \in Seq(S) /\ Pushed(s, x, Push(s, x))
<1> DEFINE t == Append(s, x)
           n == Len(s)
           m == n + 1 - WindowSize + 1
<1>1. /\ t \in Seq(S) /\ Len(t) = n + 1 /\ t[n + 1] = x
      /\ \A i \in 1 .. n : t[i] = s[i]
      /\ \A i \in 1 .. n + 1 : t[i] \in S
  BY AppendProperties, ElementOfSeq
<1>2. n \in Nat /\ WindowSize \in Nat /\ WindowSize > 0 /\ n <= WindowSize
  BY WindowSizeAssumption, LenProperties
<1>3. Push(s, x) = IF n + 1 > WindowSize THEN SubSeq(t, m, n + 1) ELSE t
  <2>1. Push(s, x) = IF Len(t) > WindowSize THEN SubSeq(t, Len(t) - WindowSize + 1, Len(t)) ELSE t
    BY DEF Push
  <2> HIDE DEF t, n
  <2> QED
    BY <1>1, <1>2, <2>1
<1> HIDE DEF t
<1>4. CASE n + 1 > WindowSize
  <2> HIDE DEF n
  <2>1. m = 2 /\ WindowSize = n
    BY <1>2, <1>4
  <2> HIDE DEF m
  <2> DEFINE f == SubSeq(t, 2, n + 1)
             e == n + 1
  <2>2. /\ \A i \in 2 .. e : t[i] \in S
        /\ e \in Int /\ 2 \in Int /\ (IF 2 <= e THEN e - 2 + 1 ELSE 0) = n /\ e - 2 + 1 = n
    BY <1>1, <1>2, <2>1
  <2> HIDE DEF e
  <2>3. /\ SubSeq(t, 2, e) \in Seq(S) /\ Len(SubSeq(t, 2, e)) = n
        /\ \A i \in 1 .. n : SubSeq(t, 2, e)[i] = t[2 + i - 1]
    BY <2>2, SubSeqProperties
  <2>4. Push(s, x) = f /\ f \in Seq(S) /\ Len(f) = n /\ \A i \in 1 .. n : f[i] = t[2 + i - 1]
    BY <1>3, <1>4, <2>1, <2>3 DEF e
  <2> HIDE DEF f
  <2>5. f[n] = x
    <3>1. n \in 1 .. n /\ 2 + n - 1 = n + 1
      BY <1>2, <2>1
    <3> QED
      BY <1>1, <2>4, <3>1
  <2>6. \A i \in 1 .. n - 1 : i + 1 \in 1 .. n /\ f[i] = s[i + 1]
    <3> SUFFICES ASSUME NEW i \in 1 .. n - 1 PROVE i + 1 \in 1 .. n /\ f[i] = s[i + 1]
      OBVIOUS
    <3>1. i \in 1 .. n /\ i + 1 \in 1 .. n /\ 2 + i - 1 = i + 1
      BY <1>2
    <3> QED
      BY <1>1, <2>4, <3>1
  <2>7. \E d \in Nat : \A i \in 1 .. n - 1 : i + d \in 1 .. n /\ f[i] = s[i + d]
    BY <2>6
  <2>8. n \in 1 .. WindowSize /\ n >= n
    BY <1>2, <2>1
  <2>9. Pushed(s, x, f)
    BY <2>4, <2>5, <2>7, <2>8 DEF Pushed, n
  <2> QED
    BY <2>4, <2>9
<1>5. CASE ~(n + 1 > WindowSize)
  <2>1. Push(s, x) = t
    BY <1>3, <1>5
  <2> HIDE DEF n
  <2>2. \A i \in 1 .. (n + 1) - 1 : i + 0 \in 1 .. n /\ t[i] = s[i + 0]
    BY <1>1, <1>2
  <2>3. \E d \in Nat : \A i \in 1 .. (n + 1) - 1 : i + d \in 1 .. n /\ t[i] = s[i + d]
    BY <2>2
  <2>4. n + 1 \in 1 .. WindowSize /\ n + 1 >= n
    BY <1>2, <1>5
  <2>5. Pushed(s, x, t)
    BY <1>1, <2>3, <2>4 DEF Pushed, n
  <2> QED
    BY <1>1, <2>1, <2>5
<1> QED
  BY <1>4, <1>5

LEMMA EmptyWindow ==
  /\ <<>> \in Seq(Numbers) /\ Len(<<>>) <= WindowSize
  /\ 0 \in Numbers /\ Numbers \subseteq Nat /\ 1 \in 1 .. Len(LiveRules)
<1>1. Len(LiveRules) = 7
  BY DEF LiveRules
<1> QED
  BY <1>1, WindowSizeAssumption, ReaderAssumption DEF Numbers

LEMMA ReaderInit == Init => ReaderInv
<1> SUFFICES ASSUME Init PROVE ReaderInv
  OBVIOUS
<1> USE DEF Init, NewStore
<1>1. TypeOK
  <2>1. rule \in [Requests -> 1 .. Len(LiveRules)] /\ todo \in [Requests -> 0 .. Rates]
    BY EmptyWindow, ReaderAssumption
  <2>2. /\ \A r \in Requests : window[r] = <<>>
        /\ window \in [Requests -> Seq(Numbers)]
    BY EmptyWindow
  <2> QED
    BY <2>1, <2>2, EmptyWindow DEF TypeOK, Pcs
<1>2. OrderInv
  BY DEF OrderInv, Ascending
<1>3. PairInv /\ EnoughInv /\ RatesInv
  BY DEF PairInv, EnoughInv, RatesInv
<1> QED
  BY <1>1, <1>2, <1>3 DEF ReaderInv

(* No rule at hand but one of the seven. *)
LEMMA RuleFacts ==
  ASSUME TypeOK, NEW r \in Requests
  PROVE  /\ Len(LiveRules) = 7 /\ rule[r] \in 1 .. 7 /\ Rule(r).needs \in Nat
         /\ pc \in [Requests -> Pcs] /\ rule \in [Requests -> 1 .. 7]
         /\ window[r] \in Seq(Numbers)
<1>1. Len(LiveRules) = 7
  BY DEF LiveRules
<1> QED
  BY <1>1 DEF TypeOK, Rule, LiveRules, HighDropRate, LogVolumeDominance, QueueNearCapacity,
     ReceiverExporterMismatch, ExporterSustainedFailures, ReceiverBackpressure, ZeroThroughput

(* A scrape: what it pushes is later than anything a request holds. *)
LEMMA ScrapeInv ==
  ASSUME ReaderInv, Scrape
  PROVE  ReaderInv'
<1> USE DEF ReaderInv
<1>1. /\ pushes < MaxPushes /\ pushes' = pushes + 1
      /\ store' = Push(store, pushes + 1)
      /\ connected' = TRUE
      /\ UNCHANGED <<pc, rule, prev, curr, window, todo, cleared>>
  BY DEF Scrape
<1>2. /\ pushes \in Nat /\ MaxPushes \in Nat /\ pushes + 1 \in Numbers
      /\ store \in Seq(Numbers) /\ Len(store) <= WindowSize
  BY <1>1, ReaderAssumption DEF TypeOK, Numbers
<1>3. /\ store' \in Seq(Numbers)
      /\ Len(store') \in 1 .. WindowSize /\ Len(store') >= Len(store)
      /\ store'[Len(store')] = pushes + 1
      /\ \E d \in Nat : \A i \in 1 .. Len(store') - 1 :
                          i + d \in 1 .. Len(store) /\ store'[i] = store[i + d]
  <2>1. Push(store, pushes + 1) \in Seq(Numbers) /\ Pushed(store, pushes + 1, Push(store, pushes + 1))
    BY <1>2, PushProperties
  <2> QED
    BY <1>1, <2>1 DEF Pushed
<1>4. PICK d \in Nat : \A i \in 1 .. Len(store') - 1 :
                         i + d \in 1 .. Len(store) /\ store'[i] = store[i + d]
  BY <1>3
<1>5. WindowSize \in Nat /\ Len(store) \in Nat /\ Len(store') \in Nat
  BY <1>2, <1>3, WindowSizeAssumption, LenProperties
<1>6. Latest(store') = pushes + 1
  BY <1>3, EmptySeq DEF Latest
<1>7. TypeOK'
  BY <1>1, <1>2, <1>3, <1>5 DEF TypeOK
<1>8. OrderInv'
  <2>1. \A i \in 1 .. Len(store') : store'[i] \in 1 .. pushes + 1
    <3> SUFFICES ASSUME NEW i \in 1 .. Len(store') PROVE store'[i] \in 1 .. pushes + 1
      OBVIOUS
    <3>1. CASE i = Len(store')
      BY <1>2, <1>3, <3>1
    <3>2. CASE i # Len(store')
      <4>1. i + d \in 1 .. Len(store) /\ store'[i] = store[i + d]
        BY <1>4, <1>5, <3>2
      <4> QED
        BY <1>2, <4>1 DEF OrderInv
    <3> QED
      BY <3>1, <3>2
  <2>2. Ascending(store')
    <3> SUFFICES ASSUME NEW i \in 1 .. Len(store'), NEW j \in 1 .. Len(store'), i < j
                 PROVE  store'[i] < store'[j]
      BY DEF Ascending
    <3>1. i + d \in 1 .. Len(store) /\ store'[i] = store[i + d] /\ store[i + d] \in 1 .. pushes
      <4>1. i \in 1 .. Len(store') - 1
        BY <1>5
      <4> QED
        BY <1>4, <4>1 DEF OrderInv
    <3>2. CASE j = Len(store')
      BY <1>2, <1>3, <3>1, <3>2
    <3>3. CASE j # Len(store')
      <4>1. j + d \in 1 .. Len(store) /\ store'[j] = store[j + d] /\ i + d < j + d
        BY <1>4, <1>5, <3>3
      <4> QED
        BY <3>1, <4>1 DEF OrderInv, Ascending
    <3> QED
      BY <3>2, <3>3
  <2>3. \A r \in Requests : prev[r] <= pushes + 1 /\ curr[r] <= pushes + 1
    BY <1>2, ReaderAssumption DEF OrderInv, TypeOK, Numbers
  <2> QED
    BY <1>1, <2>1, <2>2, <2>3 DEF OrderInv
<1>9. \A r \in Requests : prev[r] \in Nat /\ curr[r] \in Nat /\ prev[r] < pushes + 1 /\ curr[r] < pushes + 1
  BY <1>2, ReaderAssumption DEF OrderInv, TypeOK, Numbers
<1>10. PairInv'
  BY <1>1, <1>6, <1>9 DEF PairInv, Rule
<1>11. EnoughInv'
  <2>1. \A r \in Requests : Rule(r).needs \in Int
    BY RuleFacts
  <2> QED
    BY <1>1, <1>3, <1>5, <2>1 DEF EnoughInv, Rule
<1>12. RatesInv'
  BY <1>1, <1>6, <1>9 DEF RatesInv
<1> QED
  BY <1>7, <1>8, <1>10, <1>11, <1>12

LEMMA StoreClearedInv ==
  ASSUME ReaderInv, StoreCleared
  PROVE  ReaderInv'
<1> USE DEF ReaderInv
<1>1. /\ store' = <<>> /\ connected' \in {connected, FALSE}
      /\ cleared' = [r \in Requests |-> TRUE]
      /\ UNCHANGED <<pushes, pc, rule, prev, curr, window, todo>>
  BY DEF StoreCleared, Clear
<1>2. TypeOK'
  BY <1>1, EmptyWindow DEF TypeOK
<1>3. OrderInv'
  BY <1>1 DEF OrderInv, Ascending
<1>4. PairInv' /\ EnoughInv' /\ RatesInv'
  BY <1>1 DEF PairInv, EnoughInv, RatesInv, Rule
<1> QED
  BY <1>2, <1>3, <1>4

(* What the last two snapshots of the store are. *)
LEMMA LastTwo ==
  ASSUME TypeOK, OrderInv
  PROVE  /\ Latest(store) \in Numbers /\ Latest(store) <= pushes
         /\ store # <<>> => Latest(store) # 0
         /\ Previous(store) \in Numbers /\ Previous(store) <= pushes
         /\ Previous(store) # 0 => Previous(store) < Latest(store)
<1>1. /\ store \in Seq(Numbers) /\ Len(store) \in Nat /\ pushes \in Nat /\ 0 \in Numbers
      /\ pushes \in Numbers /\ Numbers \subseteq Nat
      /\ (store = <<>> <=> Len(store) = 0)
  BY EmptySeq, LenProperties, EmptyWindow DEF TypeOK
<1>2. \A i \in 1 .. Len(store) : store[i] \in Numbers /\ store[i] \in 1 .. pushes
  BY <1>1, ElementOfSeq DEF OrderInv
<1>3. CASE store = <<>>
  BY <1>1, <1>3 DEF Latest, Previous
<1>4. CASE Len(store) = 1
  BY <1>1, <1>2, <1>4 DEF Latest, Previous
<1>5. CASE Len(store) > 1
  <2>1. /\ Len(store) \in 1 .. Len(store) /\ Len(store) - 1 \in 1 .. Len(store)
        /\ Len(store) - 1 < Len(store) /\ ~(Len(store) < 2) /\ store # <<>>
    BY <1>1, <1>5
  <2>2. store[Len(store) - 1] < store[Len(store)]
    BY <2>1 DEF OrderInv, Ascending
  <2> QED
    BY <1>1, <1>2, <2>1, <2>2 DEF Latest, Previous
<1>6. store = <<>> \/ Len(store) = 1 \/ Len(store) > 1
  <2>1. Len(store) = 0 \/ Len(store) = 1 \/ Len(store) > 1
    <3>1. \A n \in Nat : n = 0 \/ n = 1 \/ n > 1
      OBVIOUS
    <3> QED
      BY <1>1, <3>1
  <2> QED
    BY <1>1, <2>1
<1> QED
  BY <1>3, <1>4, <1>5, <1>6

(* A step of a request that changes neither the store nor what it holds,   *)
(* and does not come to read or evaluate anything.                         *)
LEMMA MovesOn ==
  ASSUME ReaderInv, NEW r \in Requests, NEW to \in Pcs, NEW k \in 1 .. 7,
         pc' = [pc EXCEPT ![r] = to], rule' = [rule EXCEPT ![r] = k],
         to \notin {"window", "eval", "rates"},
         cleared' \in [Requests -> BOOLEAN],
         \A q \in Requests : q # r => cleared'[q] = cleared[q],
         UNCHANGED <<store, pushes, connected, prev, curr, window, todo>>
  PROVE  ReaderInv'
<1> USE DEF ReaderInv
<1>1. /\ pc \in [Requests -> Pcs] /\ rule \in [Requests -> 1 .. 7] /\ Len(LiveRules) = 7
  BY RuleFacts
<1>2. /\ pc'[r] = to /\ pc' \in [Requests -> Pcs] /\ rule' \in [Requests -> 1 .. 7]
      /\ \A q \in Requests : q # r => pc'[q] = pc[q] /\ rule'[q] = rule[q]
  BY <1>1
<1>3. TypeOK'
  BY <1>1, <1>2 DEF TypeOK
<1>4. OrderInv'
  BY DEF OrderInv, Ascending
<1>5. PairInv' /\ EnoughInv' /\ RatesInv'
  BY <1>2 DEF PairInv, EnoughInv, RatesInv, Rule
<1> QED
  BY <1>3, <1>4, <1>5

LEMMA NextRuleMoves ==
  ASSUME TypeOK, NEW r \in Requests, NextRule(r)
  PROVE  \E to \in {"dispatch", "idle"}, k \in 1 .. 7 :
           pc' = [pc EXCEPT ![r] = to] /\ rule' = [rule EXCEPT ![r] = k]
<1>1. Len(LiveRules) = 7 /\ rule[r] \in 1 .. 7 /\ rule \in [Requests -> 1 .. 7]
  BY RuleFacts
<1>2. CASE rule[r] < 7
  BY <1>1, <1>2 DEF NextRule
<1>3. CASE ~(rule[r] < 7)
  BY <1>1, <1>3 DEF NextRule
<1> QED
  BY <1>2, <1>3

LEMMA ControlInv ==
  ASSUME ReaderInv, NEW r \in Requests,
         \/ AnalyzeStart(r) \/ EngineDispatch(r) \/ RulePanics(r) \/ RuleEvaluates(r)
         \/ PanicRecovered(r) \/ SnapshotDone(r)
  PROVE  ReaderInv'
<1>1. /\ UNCHANGED <<store, pushes, connected, prev, curr, window, todo, cleared>>
      /\ cleared \in [Requests -> BOOLEAN] /\ TypeOK
      /\ rule \in [Requests -> 1 .. 7] /\ rule[r] \in 1 .. 7
  BY RuleFacts DEF AnalyzeStart, EngineDispatch, RulePanics, RuleEvaluates, PanicRecovered,
     SnapshotDone, storeVars, ReaderInv, TypeOK
<1>2. \E to \in Pcs, k \in 1 .. 7 :
        /\ pc' = [pc EXCEPT ![r] = to] /\ rule' = [rule EXCEPT ![r] = k]
        /\ to \notin {"window", "eval", "rates"}
  <2>1. CASE AnalyzeStart(r)
    BY <1>1, <2>1 DEF AnalyzeStart, Pcs
  <2>2. CASE EngineDispatch(r)
    <3>1. CASE Len(store) >= 2
      <4>1. pc' = [pc EXCEPT ![r] = "len"] /\ rule' = [rule EXCEPT ![r] = rule[r]]
        BY <1>1, <2>2, <3>1 DEF EngineDispatch
      <4> QED
        BY <1>1, <4>1 DEF Pcs
    <3>2. CASE ~(Len(store) >= 2)
      BY <1>1, <2>2, <3>2, NextRuleMoves DEF EngineDispatch, Pcs
    <3> QED
      BY <3>1, <3>2
  <2>3. CASE RuleEvaluates(r)
    BY <1>1, <2>3, NextRuleMoves DEF RuleEvaluates, Pcs
  <2>4. CASE RulePanics(r) \/ PanicRecovered(r) \/ SnapshotDone(r)
    <3>1. rule' = [rule EXCEPT ![r] = rule[r]]
      BY <1>1, <2>4 DEF RulePanics, PanicRecovered, SnapshotDone
    <3> QED
      BY <1>1, <2>4, <3>1 DEF RulePanics, PanicRecovered, SnapshotDone, Pcs
  <2> QED
    BY <2>1, <2>2, <2>3, <2>4
<1> QED
  BY <1>1, <1>2, MovesOn

(* The check of how many snapshots there are holds until the next clear. *)
LEMMA RuleLenInv ==
  ASSUME ReaderInv, NEW r \in Requests, RuleLen(r)
  PROVE  ReaderInv'
<1>1. /\ Rule(r).reads # "pair" /\ pc[r] = "len"
      /\ cleared' = [cleared EXCEPT ![r] = FALSE]
      /\ UNCHANGED <<store, pushes, connected, prev, curr, window, todo>>
      /\ TypeOK /\ cleared' \in [Requests -> BOOLEAN]
      /\ \A q \in Requests : q # r => cleared'[q] = cleared[q]
  BY DEF RuleLen, ReaderInv, TypeOK
<1>2. CASE Len(store) < Rule(r).needs
  <2>1. PICK to \in {"dispatch", "idle"}, k \in 1 .. 7 :
          pc' = [pc EXCEPT ![r] = to] /\ rule' = [rule EXCEPT ![r] = k]
    BY <1>1, <1>2, NextRuleMoves DEF RuleLen
  <2>2. to \in Pcs /\ to \notin {"window", "eval", "rates"}
    BY DEF Pcs
  <2> QED
    BY <1>1, <2>1, <2>2, MovesOn
<1>3. CASE ~(Len(store) < Rule(r).needs)
  <2>1. pc' = [pc EXCEPT ![r] = "window"] /\ rule' = rule
    BY <1>3 DEF RuleLen
  <2>2. /\ pc \in [Requests -> Pcs] /\ Rule(r).needs \in Nat /\ Len(store) \in Nat
    BY <1>1, RuleFacts, LenProperties DEF TypeOK
  <2>3. /\ pc'[r] = "window" /\ \A q \in Requests : q # r => pc'[q] = pc[q]
        /\ pc' \in [Requests -> Pcs] /\ Len(store) >= Rule(r).needs
    BY <1>3, <2>1, <2>2 DEF Pcs
  <2>4. TypeOK'
    BY <1>1, <2>1, <2>3 DEF TypeOK
  <2>5. OrderInv'
    BY <1>1 DEF ReaderInv, OrderInv, Ascending
  <2>6. PairInv'
    BY <1>1, <2>1, <2>3 DEF ReaderInv, PairInv, Rule
  <2>7. EnoughInv'
    BY <1>1, <2>1, <2>3 DEF ReaderInv, EnoughInv, Rule
  <2>8. RatesInv'
    BY <1>1, <2>1, <2>3 DEF ReaderInv, RatesInv
  <2> QED
    BY <2>4, <2>5, <2>6, <2>7, <2>8 DEF ReaderInv
<1> QED
  BY <1>2, <1>3

LEMMA RulePreviousInv ==
  ASSUME ReaderInv, NEW r \in Requests, RulePrevious(r)
  PROVE  ReaderInv'
<1> USE DEF ReaderInv
<1>1. /\ Rule(r).reads = "pair"
      /\ prev' = [prev EXCEPT ![r] = Previous(store)]
      /\ pc' = [pc EXCEPT ![r] = "window"]
      /\ UNCHANGED <<store, pushes, connected, cleared, rule, curr, window, todo>>
  BY DEF RulePrevious, storeVars
<1>2. pc \in [Requests -> Pcs] /\ prev \in [Requests -> Numbers]
  BY DEF TypeOK
<1>3. /\ pc'[r] = "window" /\ prev'[r] = Previous(store) /\ pc' \in [Requests -> Pcs]
      /\ \A q \in Requests : q # r => pc'[q] = pc[q] /\ prev'[q] = prev[q]
  BY <1>1, <1>2 DEF Pcs
<1>4. TypeOK'
  BY <1>1, <1>2, <1>3, LastTwo DEF TypeOK
<1>5. OrderInv'
  BY <1>1, <1>3, LastTwo DEF OrderInv, Ascending
<1>6. PairInv'
  BY <1>1, <1>3, LastTwo DEF PairInv, Rule
<1>7. EnoughInv' /\ RatesInv'
  BY <1>1, <1>3 DEF EnoughInv, RatesInv, Rule
<1> QED
  BY <1>4, <1>5, <1>6, <1>7

LEMMA RuleReadsInv ==
  ASSUME ReaderInv, NEW r \in Requests, RuleReads(r)
  PROVE  ReaderInv'
<1> USE DEF ReaderInv
<1>1. /\ pc[r] = "window" /\ pc' = [pc EXCEPT ![r] = "eval"]
      /\ UNCHANGED <<store, pushes, connected, cleared, rule, prev, todo>>
  BY DEF RuleReads, storeVars
<1>2. pc \in [Requests -> Pcs] /\ curr \in [Requests -> Numbers]
  BY DEF TypeOK
<1>3. /\ pc'[r] = "eval" /\ pc' \in [Requests -> Pcs]
      /\ \A q \in Requests : q # r => pc'[q] = pc[q]
  BY <1>1, <1>2 DEF Pcs
<1>4. CASE Rule(r).reads = "pair"
  <2>1. /\ curr' = [curr EXCEPT ![r] = Latest(store)] /\ window' = window
        /\ curr'[r] = Latest(store) /\ \A q \in Requests : q # r => curr'[q] = curr[q]
    BY <1>2, <1>4 DEF RuleReads
  <2>2. TypeOK'
    BY <1>1, <1>2, <1>3, <2>1, LastTwo DEF TypeOK
  <2>3. OrderInv'
    BY <1>1, <2>1, LastTwo DEF OrderInv, Ascending
  <2>4. PairInv'
    <3>1. store = <<>> => Latest(store) = 0
      BY DEF Latest
    <3> QED
      BY <1>1, <1>3, <1>4, <2>1, <3>1 DEF PairInv, Rule
  <2>5. EnoughInv' /\ RatesInv'
    BY <1>1, <1>3, <1>4, <2>1 DEF EnoughInv, RatesInv, Rule
  <2> QED
    BY <2>2, <2>3, <2>4, <2>5
<1>5. CASE Rule(r).reads # "pair"
  <2>1. /\ window' = [window EXCEPT ![r] = store] /\ curr' = curr
        /\ window \in [Requests -> Seq(Numbers)] /\ store \in Seq(Numbers)
        /\ Len(store) <= WindowSize
    BY <1>5 DEF RuleReads, TypeOK
  <2>2. /\ window'[r] = store /\ window' \in [Requests -> Seq(Numbers)]
        /\ \A q \in Requests : q # r => window'[q] = window[q]
    BY <2>1
  <2>3. TypeOK'
    BY <1>1, <1>3, <2>1, <2>2 DEF TypeOK
  <2>4. OrderInv'
    BY <1>1, <2>1, <2>2 DEF OrderInv, Ascending
  <2>5. PairInv'
    BY <1>1, <1>3, <1>5, <2>1 DEF PairInv, Rule
  <2>6. EnoughInv'
    BY <1>1, <1>3, <2>2 DEF EnoughInv, Rule
  <2>7. RatesInv'
    BY <1>1, <1>3, <2>1, <2>2 DEF RatesInv
  <2> QED
    BY <2>3, <2>4, <2>5, <2>6, <2>7
<1> QED
  BY <1>4, <1>5

(* A computed snapshot begins with the latest one and has no window yet    *)
(* (store.go:233-240).                                                     *)
LEMMA SnapshotLatestInv ==
  ASSUME ReaderInv, NEW r \in Requests, SnapshotLatest(r)
  PROVE  ReaderInv'
<1> USE DEF ReaderInv
<1> DEFINE to == IF store = <<>> THEN "idle" ELSE "rates"
<1>1. /\ curr' = [curr EXCEPT ![r] = Latest(store)]
      /\ pc' = [pc EXCEPT ![r] = to]
      /\ todo' = [todo EXCEPT ![r] = Rates]
      /\ window' = [window EXCEPT ![r] = <<>>]
      /\ UNCHANGED <<store, pushes, connected, cleared, rule, prev>>
  BY DEF SnapshotLatest, storeVars
<1>2. /\ pc \in [Requests -> Pcs] /\ curr \in [Requests -> Numbers]
      /\ window \in [Requests -> Seq(Numbers)] /\ todo \in [Requests -> 0 .. Rates]
      /\ Latest(store) \in Numbers /\ Latest(store) <= pushes /\ <<>> \in Seq(Numbers)
      /\ Rates \in 0 .. Rates /\ to \in Pcs /\ to \notin {"window", "eval"}
      /\ Latest(store) <= Latest(store)
  BY LastTwo, EmptyWindow, ReaderAssumption DEF TypeOK, Pcs, Numbers
<1> HIDE DEF to
<1>3. /\ pc'[r] = to /\ pc' \in [Requests -> Pcs]
      /\ curr'[r] = Latest(store) /\ curr' \in [Requests -> Numbers]
      /\ window'[r] = <<>> /\ window' \in [Requests -> Seq(Numbers)]
      /\ todo' \in [Requests -> 0 .. Rates]
      /\ \A q \in Requests : q # r => /\ pc'[q] = pc[q] /\ curr'[q] = curr[q]
                                      /\ window'[q] = window[q]
  BY <1>1, <1>2
<1>4. Len(<<>>) <= WindowSize
  BY EmptyWindow
<1>5. TypeOK'
  BY <1>1, <1>3, <1>4 DEF TypeOK
<1>6. OrderInv'
  <2>1. \A q \in Requests : Ascending(window'[q])
    <3>1. Ascending(<<>>)
      BY DEF Ascending
    <3>2. \A q \in Requests : window'[q] = <<>> \/ window'[q] = window[q]
      BY <1>3
    <3>3. \A q \in Requests : Ascending(window[q])
      BY DEF OrderInv
    <3> HIDE DEF Ascending
    <3> QED
      BY <3>1, <3>2, <3>3
  <2>2. \A q \in Requests : prev'[q] <= pushes' /\ curr'[q] <= pushes'
    BY <1>1, <1>2, <1>3 DEF OrderInv
  <2>3. store' = store /\ pushes' = pushes
    BY <1>1
  <2> QED
    BY <2>1, <2>2, <2>3 DEF OrderInv, Ascending
<1>7. PairInv' /\ EnoughInv'
  BY <1>1, <1>2, <1>3 DEF PairInv, EnoughInv, Rule
<1>8. RatesInv'
  BY <1>1, <1>2, <1>3 DEF RatesInv
<1> QED
  BY <1>5, <1>6, <1>7, <1>8

(* Each rate takes a window, which is no older than what came before       *)
(* (store.go:196-226).                                                     *)
LEMMA SnapshotRateInv ==
  ASSUME ReaderInv, NEW r \in Requests, SnapshotRate(r)
  PROVE  ReaderInv'
<1> USE DEF ReaderInv
<1>1. /\ todo[r] > 0
      /\ window' = [window EXCEPT ![r] = store]
      /\ todo' = [todo EXCEPT ![r] = todo[r] - 1]
      /\ UNCHANGED <<store, pushes, connected, cleared, pc, rule, prev, curr>>
      /\ pc[r] = "rates"
  BY DEF SnapshotRate, storeVars
<1>2. /\ window \in [Requests -> Seq(Numbers)] /\ todo \in [Requests -> 0 .. Rates]
      /\ store \in Seq(Numbers) /\ Len(store) <= WindowSize /\ Rates \in Nat
  BY ReaderAssumption DEF TypeOK
<1>3. /\ window'[r] = store /\ window' \in [Requests -> Seq(Numbers)]
      /\ \A q \in Requests : q # r => window'[q] = window[q]
  BY <1>1, <1>2
<1>4. todo' \in [Requests -> 0 .. Rates]
  <2>1. todo[r] - 1 \in 0 .. Rates
    BY <1>1, <1>2
  <2> QED
    BY <1>1, <1>2, <2>1
<1>5. TypeOK'
  BY <1>1, <1>2, <1>3, <1>4 DEF TypeOK
<1>6. OrderInv'
  BY <1>1, <1>3 DEF OrderInv, Ascending
<1>7. PairInv' /\ EnoughInv'
  BY <1>1, <1>3 DEF PairInv, EnoughInv, Rule
<1>8. RatesInv'
  BY <1>1, <1>3 DEF RatesInv
<1> QED
  BY <1>5, <1>6, <1>7, <1>8

LEMMA ReaderInvInductive == ReaderInv /\ [Next]_vars => ReaderInv'
<1> SUFFICES ASSUME ReaderInv, [Next]_vars PROVE ReaderInv'
  OBVIOUS
<1>1. CASE Scrape \/ StoreCleared
  BY <1>1, ScrapeInv, StoreClearedInv
<1>2. CASE \E r \in Requests : AnalyzeStart(r) \/ SnapshotLatest(r) \/ Serve(r)
  BY <1>2, ControlInv, RuleLenInv, RulePreviousInv, RuleReadsInv, SnapshotLatestInv,
     SnapshotRateInv DEF Serve
<1>3. CASE UNCHANGED vars
  BY <1>3 DEF vars, ReaderInv, TypeOK, OrderInv, Ascending, PairInv, EnoughInv, RatesInv, Rule
<1> QED
  BY <1>1, <1>2, <1>3 DEF Next

THEOREM ReaderInvariant == Spec => []ReaderInv
BY ReaderInit, ReaderInvInductive, PTL DEF Spec
-----------------------------------------------------------------------------
(* What a request holds is of the store, and the pair that                 *)
(* LogVolumeDominance compares is in order although its halves are read    *)
(* apart, whatever is pushed or cleared between the reads                  *)
(* (rules/live/log_volume_dominance.go:23-27).                             *)
THEOREM ConsistentReads == Spec => []ReadsAreConsistent
<1>1. ReaderInv => ReadsAreConsistent
  BY DEF ReaderInv, PairInv, ReadsAreConsistent, PairIsOrdered
<1> QED
  BY <1>1, ReaderInvariant, PTL

(* A rule evaluates fewer snapshots than it checked for only after a clear *)
(* between its check and its read (rules/live/*.go, store.Len beside       *)
(* store.Window).                                                          *)
THEOREM EnoughSnapshots == Spec => []RuleHasEnough
<1>1. ReaderInv => RuleHasEnough
  BY DEF ReaderInv, EnoughInv, RuleHasEnough
<1> QED
  BY <1>1, ReaderInvariant, PTL

(* The rates of a computed snapshot are not older than the collection time *)
(* shown with them, and their windows are in order                         *)
(* (metrics/store.go:191-281).                                             *)
THEOREM CurrentRates == Spec => []RatesNotOlderThanReported
<1>1. ReaderInv => RatesNotOlderThanReported
  <2> SUFFICES ASSUME ReaderInv, NEW r \in Requests, pc[r] = "rates", window[r] # <<>>
               PROVE  /\ curr[r] <= Latest(window[r])
                      /\ \A i \in 2 .. Len(window[r]) : window[r][i - 1] < window[r][i]
    BY DEF RatesNotOlderThanReported
  <2>1. curr[r] <= Latest(window[r])
    BY DEF ReaderInv, RatesInv
  <2>2. Len(window[r]) \in Nat
    BY LenProperties DEF ReaderInv, TypeOK
  <2>3. \A i \in 2 .. Len(window[r]) : window[r][i - 1] < window[r][i]
    <3> SUFFICES ASSUME NEW i \in 2 .. Len(window[r]) PROVE window[r][i - 1] < window[r][i]
      OBVIOUS
    <3>1. i - 1 \in 1 .. Len(window[r]) /\ i \in 1 .. Len(window[r]) /\ i - 1 < i
      BY <2>2
    <3> QED
      BY <3>1 DEF ReaderInv, OrderInv, Ascending
  <2> QED
    BY <2>1, <2>3
<1> QED
  BY <1>1, ReaderInvariant, PTL
=============================================================================
