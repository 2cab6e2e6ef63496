-------------------------- MODULE MetricsManagerProofs --------------------------
(***************************************************************************)
(* Proofs about MetricsManager, for any sets of callers, targets and loop  *)
(* ids and any window size.                                                *)
(***************************************************************************)
EXTENDS MetricsManager, SequenceTheorems, FiniteSetTheorems, TLAPS

(* Push keeps the window a sequence of snapshots within its bound, and     *)
(* makes it longer by one at most (store.go:22-31).                        *)
LEMMA PushBounded ==
  ASSUME NEW S, NEW s \in Seq(S), NEW x \in S, Len(s) <= WindowSize
  PROVE  /\ Push(s, x) \in Seq(S) /\ Len(Push(s, x)) <= WindowSize
         /\ Len(Push(s, x)) <= Len(s) + 1
<1> DEFINE t == Append(s, x)
           m == Len(t) - WindowSize + 1
<1>1. t \in Seq(S) /\ Len(t) = Len(s) + 1
  BY AppendProperties
<1>2. WindowSize \in Nat /\ WindowSize > 0 /\ Len(s) \in Nat
  BY WindowSizeAssumption, LenProperties
<1>3. \A i \in 1 .. Len(t) : t[i] \in S
  BY <1>1
<1>4. Push(s, x) = IF Len(t) > WindowSize THEN SubSeq(t, m, Len(t)) ELSE t
  BY DEF Push
<1> HIDE DEF t
<1>5. CASE Len(t) > WindowSize
  <2>1. m \in 1 .. Len(t) /\ Len(t) \in Nat
    BY <1>1, <1>2, <1>5
  <2>2. \A i \in m .. Len(t) : t[i] \in S
    BY <1>3, <2>1
  <2>3. SubSeq(t, m, Len(t)) \in Seq(S) /\ Len(SubSeq(t, m, Len(t))) = Len(t) - m + 1
    <3> HIDE DEF m
    <3> QED BY <2>1, <2>2, SubSeqProperties
  <2> QED
    BY <1>1, <1>2, <1>4, <1>5, <2>3
<1>6. CASE ~(Len(t) > WindowSize)
  BY <1>1, <1>2, <1>4, <1>6
<1> QED
  BY <1>5, <1>6

-----------------------------------------------------------------------------
(* Every variable keeps its type and the store its bound, whatever the     *)
(* interleaving of callers and loops (manager.go, store.go:22-31).         *)
THEOREM TypeCorrect == Spec => []TypeOK
<1>0. <<>> \in Seq(Endpoints) /\ Len(<<>>) <= WindowSize
  BY WindowSizeAssumption
<1>1. Init => TypeOK
  <2> SUFFICES ASSUME Init PROVE TypeOK
    OBVIOUS
  <2>1. PICK s \in Setups : clients = s[1] /\ targets = s[2]
    BY DEF Init
  <2>2. clients \in SUBSET Callers /\ targets \in SUBSET Endpoints
    BY <2>1, SetupsAssumption
  <2> QED
    BY <1>0, <2>2 DEF Init, TypeOK, NewStore, Statuses, CallerPcs, LoopPcs
<1>2. TypeOK /\ [Next]_vars => TypeOK'
  <2> SUFFICES ASSUME TypeOK, [Next]_vars PROVE TypeOK'
    OBVIOUS
  <2> USE DEF TypeOK, Statuses, CallerPcs, LoopPcs, locked, callerVars, loopVars
  <2> UNCHANGED setup
    BY DEF Next, Request, ConnectStep, LoopStep, vars
  <2> USE DEF setup
  <2>0. Clear(store) \in Seq(Endpoints) /\ Len(Clear(store)) <= WindowSize
    BY <1>0 DEF Clear
  <2>1. ASSUME NEW c \in Callers, ConnectBegin(c) PROVE TypeOK'
    BY <2>0, <2>1 DEF ConnectBegin, CallerGoto, CallCancel
  <2>2. ASSUME NEW c \in Callers, Disconnect(c) PROVE TypeOK'
    BY <2>0, <2>2 DEF Disconnect, CallerGoto, CallCancel
  <2>3. ASSUME NEW c \in Callers, ResetStore(c) PROVE TypeOK'
    BY <2>0, <2>3 DEF ResetStore, CallerGoto
  <2>4. ASSUME NEW c \in Callers, TestBegin(c) PROVE TypeOK'
    BY <2>4 DEF TestBegin, CallerGoto
  <2>5. ASSUME NEW c \in Callers, TestPanics(c) PROVE TypeOK'
    BY <2>5 DEF TestPanics, CallerGoto
  <2>6. ASSUME NEW c \in Callers, TestEnds(c) PROVE TypeOK'
    BY <2>6 DEF TestEnds, CallerGoto
  <2>7. ASSUME NEW c \in Callers, ConnectFails(c) PROVE TypeOK'
    BY <2>7 DEF ConnectFails, CallerGoto
  <2>8. ASSUME NEW c \in Callers, ConnectPush(c) PROVE TypeOK'
    <3>1. callerPc[c] = "pushing" /\ callerEp[c] \in Endpoints
      BY <2>8 DEF ConnectPush, CallerGoto
    <3>2. store \in Seq(Endpoints) /\ Len(store) <= WindowSize
      OBVIOUS
    <3>3. /\ Push(store, callerEp[c]) \in Seq(Endpoints)
          /\ Len(Push(store, callerEp[c])) <= WindowSize
      BY <3>1, <3>2, PushBounded
    <3>4. store' = Push(store, callerEp[c])
      BY <2>8 DEF ConnectPush
    <3> QED
      BY <2>8, <3>3, <3>4 DEF ConnectPush, CallerGoto
  <2>9. ASSUME NEW c \in Callers, ConnectCommit(c) PROVE TypeOK'
    BY <2>9 DEF ConnectCommit, CallerGoto, Live
  <2>10. ASSUME NEW l \in Loops, LoopDone(l) PROVE TypeOK'
    BY <2>10 DEF LoopDone, LoopGoto
  <2>11. ASSUME NEW l \in Loops, LoopScrapes(l) PROVE TypeOK'
    BY <2>11 DEF LoopScrapes, LoopGoto
  <2>12. ASSUME NEW l \in Loops, LoopPanics(l) PROVE TypeOK'
    BY <2>12 DEF LoopPanics
  <2>13. ASSUME NEW l \in Loops, LoopScrapeSucceeds(l) PROVE TypeOK'
    BY <2>13 DEF LoopScrapeSucceeds, LoopGoto
  <2>14. ASSUME NEW l \in Loops, LoopScrapeErrs(l) PROVE TypeOK'
    BY <2>14 DEF LoopScrapeErrs, LoopGoto
  <2>15. ASSUME NEW l \in Loops, LoopReportsError(l) PROVE TypeOK'
    BY <2>15 DEF LoopReportsError, LoopGoto
  <2>16. ASSUME NEW l \in Loops, LoopPush(l) PROVE TypeOK'
    <3>1. loopPc[l] = "pushing" /\ loopEp[l] \in Endpoints
      BY <2>16 DEF LoopPush, LoopGoto
    <3>2. store \in Seq(Endpoints) /\ Len(store) <= WindowSize
      OBVIOUS
    <3>3. /\ Push(store, loopEp[l]) \in Seq(Endpoints)
          /\ Len(Push(store, loopEp[l])) <= WindowSize
      BY <3>1, <3>2, PushBounded
    <3>4. store' = Push(store, loopEp[l])
      BY <2>16 DEF LoopPush
    <3> QED
      BY <2>16, <3>3, <3>4 DEF LoopPush, LoopGoto
  <2>17. ASSUME NEW l \in Loops, LoopReportsSuccess(l) PROVE TypeOK'
    BY <2>17 DEF LoopReportsSuccess, LoopGoto
  <2>18. CASE UNCHANGED vars
    BY <2>18 DEF vars
  <2> QED
    BY <2>1, <2>2, <2>3, <2>4, <2>5, <2>6, <2>7, <2>8, <2>9, <2>10, <2>11,
       <2>12, <2>13, <2>14, <2>15, <2>16, <2>17, <2>18
       DEF Next, Request, ConnectStep, LoopStep
<1> QED
  BY <1>1, <1>2, PTL DEF Spec

-----------------------------------------------------------------------------
(* "connecting" always has an owner that will change it, with any number   *)
(* of concurrent callers (manager.go:42-93).  The scraper conjunct makes   *)
(* it inductive: the owner cannot have met the nil scraper that would end  *)
(* its call early.                                                         *)
THEOREM ConnectingOwned == Spec => []ConnectingHasOwner
<1>1. Init => ConnectingHasOwner
  BY DEF Init, ConnectingHasOwner
<1>2. TypeOK /\ ConnectingHasOwner /\ [Next]_vars => ConnectingHasOwner'
  <2> SUFFICES ASSUME TypeOK, ConnectingHasOwner, [Next]_vars,
                      status' = "connecting"
               PROVE  scraper' # NoScraper /\ \E d \in Callers : Busy(d)'
    BY DEF ConnectingHasOwner
  <2> USE DEF Busy, CallerGoto, LoopGoto, locked, callerVars, loopVars
  <2>0. callerPc \in [Callers -> CallerPcs] /\ targets \subseteq Endpoints
    BY DEF TypeOK
  <2>1. ASSUME status = "connecting"
        PROVE  scraper # NoScraper /\ \E d \in Callers : Busy(d)
    BY <2>1 DEF ConnectingHasOwner
  <2>2. ASSUME NEW c \in Callers, ConnectBegin(c)
        PROVE  scraper' # NoScraper /\ \E d \in Callers : Busy(d)'
    BY <2>0, <2>2, NilAssumption DEF ConnectBegin
  <2>3. CASE UNCHANGED <<status, scraper, callerPc>>
    BY <2>1, <2>3
  <2>4. ASSUME NEW c \in Callers, TestBegin(c) \/ TestEnds(c) \/ ConnectPush(c)
        PROVE  scraper' # NoScraper /\ \E d \in Callers : Busy(d)'
    <3>1. Busy(c)' /\ status = "connecting" /\ UNCHANGED scraper
      BY <2>0, <2>4 DEF TestBegin, TestEnds, ConnectPush
    <3> QED
      BY <2>1, <3>1
  <2>5. ASSUME NEW c \in Callers, TestPanics(c)
        PROVE  FALSE
    BY <2>1, <2>5 DEF TestPanics
  <2>6. ASSUME NEW c \in Callers,
               Disconnect(c) \/ ConnectFails(c) \/ ConnectCommit(c)
        PROVE  FALSE
    BY <2>6 DEF Disconnect, ConnectFails, ConnectCommit
  <2>7. ASSUME NEW c \in Callers, ResetStore(c)
        PROVE  UNCHANGED <<status, scraper, callerPc>>
    BY <2>0, <2>7 DEF ResetStore
  <2>8. ASSUME NEW l \in Loops, LoopStep(l)
        PROVE  UNCHANGED <<status, scraper, callerPc>>
    BY <2>8 DEF LoopStep, LoopDone, LoopScrapes, LoopPanics, LoopScrapeSucceeds,
                LoopScrapeErrs, LoopReportsError, LoopPush, LoopReportsSuccess
  <2>9. CASE UNCHANGED vars
    BY <2>3, <2>9 DEF vars
  <2> QED
    BY <2>2, <2>3, <2>4, <2>5, <2>6, <2>7, <2>8, <2>9
       DEF Next, Request, ConnectStep
<1> QED
  BY <1>1, <1>2, TypeCorrect, PTL DEF Spec

(* The loop of the current cancel function is running unless it was        *)
(* cancelled, with any number of callers: no scrape error and no other     *)
(* caller ends it (manager.go:118-146).                                    *)
THEOREM EstablishedLives == Spec => []EstablishedLoopLives
<1>1. Init => EstablishedLoopLives
  BY DEF Init, EstablishedLoopLives
<1>2. TypeOK /\ EstablishedLoopLives /\ [Next]_vars => EstablishedLoopLives'
  <2> SUFFICES ASSUME TypeOK, EstablishedLoopLives, [Next]_vars
               PROVE  EstablishedLoopLives'
    OBVIOUS
  <2> USE DEF EstablishedLoopLives, Live, CallerGoto, LoopGoto,
              locked, callerVars, loopVars
  <2>0. loopPc \in [Loops -> LoopPcs] /\ cancel \in Loops \union {NoLoop}
    BY DEF TypeOK
  <2>1. CASE UNCHANGED <<cancel, cancelled, loopPc>>
    BY <2>1
  <2>2. ASSUME NEW c \in Callers, ConnectBegin(c)
        PROVE  EstablishedLoopLives'
    BY <2>2 DEF ConnectBegin, CallCancel
  <2>3. ASSUME NEW c \in Callers, Disconnect(c)
        PROVE  EstablishedLoopLives'
    BY <2>3 DEF Disconnect
  <2>4. ASSUME NEW c \in Callers, ConnectCommit(c)
        PROVE  EstablishedLoopLives'
    BY <2>0, <2>4 DEF ConnectCommit
  <2>5. ASSUME NEW c \in Callers,
               \/ ResetStore(c) \/ TestBegin(c) \/ TestPanics(c)
               \/ TestEnds(c) \/ ConnectFails(c) \/ ConnectPush(c)
        PROVE  UNCHANGED <<cancel, cancelled, loopPc>>
    BY <2>5 DEF ResetStore, TestBegin, TestPanics, TestEnds, ConnectFails, ConnectPush
  <2>6. ASSUME NEW l \in Loops, LoopStep(l)
        PROVE  EstablishedLoopLives'
    <3>1. UNCHANGED <<cancel, cancelled>>
      BY <2>6 DEF LoopStep, LoopDone, LoopScrapes, LoopPanics, LoopScrapeSucceeds,
                  LoopScrapeErrs, LoopReportsError, LoopPush, LoopReportsSuccess
    <3>2. \/ UNCHANGED loopPc
          \/ \E to \in LoopPcs : /\ loopPc' = [loopPc EXCEPT ![l] = to]
                                 /\ to = "none" => l \in cancelled
      BY <2>6 DEF LoopStep, LoopDone, LoopScrapes, LoopPanics, LoopScrapeSucceeds,
                  LoopScrapeErrs, LoopReportsError, LoopPush, LoopReportsSuccess,
                  LoopPcs
    <3> QED
      BY <2>0, <3>1, <3>2
  <2>7. CASE UNCHANGED vars
    BY <2>1, <2>7 DEF vars
  <2> QED
    BY <2>1, <2>2, <2>3, <2>4, <2>5, <2>6, <2>7 DEF Next, Request, ConnectStep
<1> QED
  BY <1>1, <1>2, TypeCorrect, PTL DEF Spec

(* The status connecting and the installed loop always have a goroutine    *)
(* that answers for them (manager.go:42-78, :118-146).                     *)
THEOREM ConnectionOwned == Spec => []ConnectionIsOwned
<1>1. ConnectingHasOwner /\ EstablishedLoopLives => ConnectionIsOwned
  BY DEF ConnectionIsOwned
<1> QED
  BY <1>1, ConnectingOwned, EstablishedLives, PTL

(* Goroutines that are in the middle of publishing can be counted; one     *)
(* that gets there counts for one more.                                    *)
LEMMA Counted ==
  ASSUME NEW S, IsFiniteSet(S), NEW A \in SUBSET S, NEW B \in SUBSET S
  PROVE  /\ Cardinality(A) \in Nat
         /\ A \subseteq B => Cardinality(A) <= Cardinality(B)
         /\ \A x : x \notin A /\ B = A \union {x} => Cardinality(B) = Cardinality(A) + 1
<1>1. IsFiniteSet(A) /\ IsFiniteSet(B)
  BY FS_Subset
<1>2. Cardinality(A) \in Nat
  BY <1>1, FS_CardinalityType
<1>3. A \subseteq B => Cardinality(A) <= Cardinality(B)
  BY <1>1, FS_Subset
<1>4. \A x : x \notin A /\ B = A \union {x} => Cardinality(B) = Cardinality(A) + 1
  BY <1>1, FS_AddElement
<1> QED
  BY <1>2, <1>3, <1>4

(* What reaches the store after a Disconnect has a goroutine that goes on  *)
(* to set the status, whatever the number of callers and loops             *)
(* (manager.go:67-75, :139-144 against :80-93).  The invariant is          *)
(* inductive with TypeOK: Disconnect alone makes the status disconnected   *)
(* and it empties the store; each push adds one snapshot and one goroutine *)
(* that owes the status, which leaves the count only by setting it.        *)
THEOREM LateAnnounced == Spec => []LateDataIsAnnounced
<1>1. Init => LateDataIsAnnounced
  <2>1. Cardinality(Announcing) \in Nat /\ Cardinality(Reporting) \in Nat
    BY Counted, FiniteAssumption DEF Announcing, Reporting
  <2> QED
    BY <2>1 DEF Init, LateDataIsAnnounced, NewStore
<1>2. TypeOK /\ LateDataIsAnnounced /\ [Next]_vars => LateDataIsAnnounced'
  <2> SUFFICES ASSUME TypeOK, LateDataIsAnnounced, [Next]_vars, status' = "disconnected"
               PROVE  Len(store') <= Cardinality(Announcing') + Cardinality(Reporting')
    BY DEF LateDataIsAnnounced
  <2> USE DEF CallerGoto, LoopGoto, locked, callerVars, loopVars
  <2>0. /\ callerPc \in [Callers -> CallerPcs] /\ loopPc \in [Loops -> LoopPcs]
        /\ store \in Seq(Endpoints) /\ Len(store) <= WindowSize /\ Len(store) \in Nat
        /\ \A c \in Callers : callerPc[c] = "pushing" => callerEp[c] \in Endpoints
        /\ \A l \in Loops : loopPc[l] = "pushing" => loopEp[l] \in Endpoints
    BY DEF TypeOK
  <2>00. Announcing' \in SUBSET Callers /\ Reporting' \in SUBSET Loops
    BY DEF Announcing, Reporting
  <2>01. Announcing \in SUBSET Callers /\ Reporting \in SUBSET Loops
    BY DEF Announcing, Reporting
  <2>n. /\ Cardinality(Announcing) \in Nat /\ Cardinality(Reporting) \in Nat
        /\ Cardinality(Announcing') \in Nat /\ Cardinality(Reporting') \in Nat
    BY <2>00, <2>01, Counted, FiniteAssumption
  <2>1. CASE store' = <<>>
    BY <2>1, <2>n
  <2>2. ASSUME status = "disconnected", UNCHANGED store,
               Announcing \subseteq Announcing', Reporting \subseteq Reporting'
        PROVE  Len(store') <= Cardinality(Announcing') + Cardinality(Reporting')
    <3>1. Cardinality(Announcing) <= Cardinality(Announcing')
      BY <2>2, <2>00, <2>01, Counted, FiniteAssumption
    <3>2. Cardinality(Reporting) <= Cardinality(Reporting')
      BY <2>2, <2>00, <2>01, Counted, FiniteAssumption
    <3> QED
      BY <2>2, <2>n, <2>0, <3>1, <3>2 DEF LateDataIsAnnounced
  <2>3. ASSUME NEW c \in Callers, ConnectBegin(c) \/ ConnectFails(c) \/ ConnectCommit(c)
        PROVE  FALSE
    BY <2>3 DEF ConnectBegin, ConnectFails, ConnectCommit
  <2>4. ASSUME NEW c \in Callers, Disconnect(c) \/ ResetStore(c)
        PROVE  store' = <<>>
    BY <2>4 DEF Disconnect, ResetStore, Clear
  <2>5. ASSUME NEW c \in Callers, TestBegin(c) \/ TestPanics(c) \/ TestEnds(c)
        PROVE  /\ status = "disconnected" /\ UNCHANGED store
               /\ Announcing \subseteq Announcing' /\ Reporting \subseteq Reporting'
    <3>1. /\ UNCHANGED <<status, store, loopPc>>
          /\ \A d \in Callers : callerPc[d] = "committing" => callerPc'[d] = "committing"
      BY <2>0, <2>5 DEF TestBegin, TestPanics, TestEnds
    <3> QED
      BY <3>1 DEF Announcing, Reporting
  <2>6. ASSUME NEW c \in Callers, ConnectPush(c)
        PROVE  Len(store') <= Cardinality(Announcing') + Cardinality(Reporting')
    <3>1. /\ UNCHANGED <<status, loopPc>> /\ store' = Push(store, callerEp[c])
          /\ callerPc[c] = "pushing" /\ callerPc' = [callerPc EXCEPT ![c] = "committing"]
      BY <2>6 DEF ConnectPush
    <3>2. Len(store') <= Len(store) + 1 /\ Len(store') \in Nat
      BY <2>0, <3>1, PushBounded
    <3>3. c \notin Announcing /\ Announcing' = Announcing \union {c} /\ Reporting' = Reporting
      BY <2>0, <3>1 DEF Announcing, Reporting
    <3>4. Cardinality(Announcing') = Cardinality(Announcing) + 1
      BY <2>00, <2>01, <3>3, Counted, FiniteAssumption
    <3>5. Len(store) <= Cardinality(Announcing) + Cardinality(Reporting)
      BY <3>1 DEF LateDataIsAnnounced
    <3> QED
      BY <2>0, <2>n, <3>2, <3>3, <3>4, <3>5
  <2>7. ASSUME NEW l \in Loops,
               \/ LoopDone(l) \/ LoopScrapes(l) \/ LoopPanics(l)
               \/ LoopScrapeSucceeds(l) \/ LoopScrapeErrs(l)
        PROVE  /\ status = "disconnected" /\ UNCHANGED store
               /\ Announcing \subseteq Announcing' /\ Reporting \subseteq Reporting'
    <3>1. /\ UNCHANGED <<status, store, callerPc>>
          /\ \A k \in Loops : loopPc[k] = "reporting" => loopPc'[k] = "reporting"
      BY <2>0, <2>7 DEF LoopDone, LoopScrapes, LoopPanics, LoopScrapeSucceeds, LoopScrapeErrs
    <3> QED
      BY <3>1 DEF Announcing, Reporting
  <2>8. ASSUME NEW l \in Loops, LoopPush(l)
        PROVE  Len(store') <= Cardinality(Announcing') + Cardinality(Reporting')
    <3>1. /\ UNCHANGED <<status, callerPc>> /\ store' = Push(store, loopEp[l])
          /\ loopPc[l] = "pushing" /\ loopPc' = [loopPc EXCEPT ![l] = "reporting"]
      BY <2>8 DEF LoopPush
    <3>2. Len(store') <= Len(store) + 1 /\ Len(store') \in Nat
      BY <2>0, <3>1, PushBounded
    <3>3. l \notin Reporting /\ Reporting' = Reporting \union {l} /\ Announcing' = Announcing
      BY <2>0, <3>1 DEF Announcing, Reporting
    <3>4. Cardinality(Reporting') = Cardinality(Reporting) + 1
      BY <2>00, <2>01, <3>3, Counted, FiniteAssumption
    <3>5. Len(store) <= Cardinality(Announcing) + Cardinality(Reporting)
      BY <3>1 DEF LateDataIsAnnounced
    <3> QED
      BY <2>0, <2>n, <3>2, <3>3, <3>4, <3>5
  <2>9. ASSUME NEW l \in Loops, LoopReportsError(l) \/ LoopReportsSuccess(l)
        PROVE  FALSE
    BY <2>9 DEF LoopReportsError, LoopReportsSuccess
  <2>10. CASE UNCHANGED vars
    BY <2>2, <2>10 DEF vars, Announcing, Reporting, LateDataIsAnnounced
  <2> QED
    BY <2>1, <2>2, <2>3, <2>4, <2>5, <2>6, <2>7, <2>8, <2>9, <2>10
       DEF Next, Request, ConnectStep, LoopStep
<1> QED
  BY <1>1, <1>2, TypeCorrect, PTL DEF Spec

-----------------------------------------------------------------------------
(* With one caller at a time: the invariant behind SingleActiveLoop and    *)
(* ActiveLoopHasScraper.  An active loop is always the one m.cancel refers *)
(* to, which is what lets Connect and Disconnect stop it; and while a call *)
(* of Connect is under way no loop is active at all.                       *)
SerialInv ==
  OneCaller =>
    /\ \A c \in clients : Busy(c) => /\ scraper # NoScraper
                                     /\ \A l \in Loops : ~Active(l)
    /\ \A l \in Loops : Active(l) => cancel = l
    /\ ActiveLoopHasScraper

LEMMA SerialInvInductive == TypeOK /\ SerialInv /\ [Next]_vars => SerialInv'
<1> SUFFICES ASSUME TypeOK, SerialInv, [Next]_vars, OneCaller' PROVE SerialInv'
  BY DEF SerialInv
<1>a. UNCHANGED setup
  BY DEF Next, Request, ConnectStep, LoopStep, vars
<1>b. OneCaller /\ clients \subseteq Callers
  BY <1>a DEF OneCaller, setup, TypeOK
<1> USE NilAssumption, <1>a, <1>b
    DEF setup, SerialInv, ActiveLoopHasScraper, Active, Live, Busy, CallerGoto, LoopGoto,
        locked, callerVars, loopVars
<1>0. /\ callerPc \in [Callers -> CallerPcs]
      /\ loopPc \in [Loops -> LoopPcs]
      /\ loopEp \in [Loops -> Endpoints \union {NoScraper}]
      /\ cancel \in Loops \union {NoLoop}
      /\ targets \subseteq Endpoints
  BY DEF TypeOK
<1>1. ASSUME NEW c \in clients, ConnectBegin(c) PROVE SerialInv'
  <2>1. \A l \in Loops : ~Active(l)'
    BY <1>0, <1>1 DEF ConnectBegin, CallCancel
  <2>2. scraper' # NoScraper
    BY <1>0, <1>1 DEF ConnectBegin
  <2> QED
    BY <2>1, <2>2
<1>2. ASSUME NEW c \in clients, Disconnect(c) PROVE SerialInv'
  <2>1. \A l \in Loops : ~Active(l)'
    BY <1>0, <1>2 DEF Disconnect, CallCancel
  <2>2. \A d \in clients : ~Busy(d)'
    BY <1>0, <1>2 DEF Disconnect, OneCaller
  <2> QED
    BY <2>1, <2>2
<1>3. ASSUME NEW c \in clients, ConnectCommit(c) PROVE SerialInv'
  <2>1. PICK k \in Loops : /\ ~Live(k)
                           /\ cancel' = k
                           /\ loopPc' = [loopPc EXCEPT ![k] = "select"]
                           /\ cancelled' = cancelled \ {k}
    BY <1>3 DEF ConnectCommit
  <2>2. scraper # NoScraper /\ \A l \in Loops : ~Active(l)
    BY <1>3 DEF ConnectCommit
  <2>3. \A l \in Loops : Active(l)' => l = k
    BY <1>0, <2>1, <2>2
  <2>4. \A d \in clients : ~Busy(d)'
    BY <1>0, <1>3 DEF ConnectCommit, OneCaller
  <2>5. UNCHANGED scraper /\ loopPc'[k] = "select"
    BY <1>0, <1>3, <2>1 DEF ConnectCommit
  <2> QED
    BY <2>1, <2>2, <2>3, <2>4, <2>5
<1>4. ASSUME NEW c \in clients,
             \/ ResetStore(c) \/ TestBegin(c) \/ TestPanics(c)
             \/ TestEnds(c) \/ ConnectFails(c) \/ ConnectPush(c)
      PROVE  SerialInv'
  <2>1. /\ UNCHANGED <<scraper, cancel, loopPc, loopEp, cancelled>>
        /\ \A d \in clients : Busy(d)' => Busy(d)
    BY <1>0, <1>4 DEF ResetStore, TestBegin, TestPanics, TestEnds, ConnectFails,
                      ConnectPush
  <2> QED
    BY <2>1
<1>5. ASSUME NEW l \in Loops, LoopStep(l) PROVE SerialInv'
  <2>1. /\ UNCHANGED <<scraper, cancel, callerPc, cancelled>>
        /\ \A k \in Loops \ {l} : loopPc'[k] = loopPc[k] /\ loopEp'[k] = loopEp[k]
    BY <1>0, <1>5
       DEF LoopStep, LoopDone, LoopScrapes, LoopPanics, LoopScrapeSucceeds,
           LoopScrapeErrs, LoopReportsError, LoopPush, LoopReportsSuccess
  <2>2. /\ Live(l)' => Live(l)
        /\ loopPc'[l] \in {"scraping", "pushing"} /\ Active(l) =>
             \/ loopEp'[l] = scraper
             \/ loopPc[l] \in {"scraping", "pushing"} /\ loopEp'[l] = loopEp[l]
    BY <1>0, <1>5
       DEF LoopStep, LoopDone, LoopScrapes, LoopPanics, LoopScrapeSucceeds,
           LoopScrapeErrs, LoopReportsError, LoopPush, LoopReportsSuccess
  <2> QED
    BY <2>1, <2>2
<1>6. CASE UNCHANGED vars
  BY <1>6 DEF vars
<1> QED
  BY <1>1, <1>2, <1>3, <1>4, <1>5, <1>6 DEF Next, Request, ConnectStep

LEMMA SerialInvCorrect == Spec => []SerialInv
<1>1. Init => SerialInv
  BY SetupsAssumption DEF Init, SerialInv, ActiveLoopHasScraper, Active, Live, Busy
<1> QED
  BY <1>1, SerialInvInductive, TypeCorrect, PTL DEF Spec

(* Calls that come one at a time never leave two loops scraping: every     *)
(* Connect finds, and cancels, the only active one (manager.go:42-93).     *)
THEOREM SerialSingleLoop == Spec => []SingleActiveLoop
<1>1. SerialInv => SingleActiveLoop
  BY DEF SerialInv, SingleActiveLoop
<1> QED
  BY <1>1, SerialInvCorrect, PTL

(* Under the same condition an active loop never meets a nil scraper, and  *)
(* scrapes the target of the current connection (manager.go:127).          *)
THEOREM SerialLoopHasScraper == Spec => []ActiveLoopHasScraper
<1>1. SerialInv => ActiveLoopHasScraper
  BY DEF SerialInv, ActiveLoopHasScraper
<1> QED
  BY <1>1, SerialInvCorrect, PTL

=============================================================================
