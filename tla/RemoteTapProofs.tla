---------------------------- MODULE RemoteTapProofs ----------------------------
(***************************************************************************)
(* Proofs about RemoteTap, for any sets of callers, addresses and runs.    *)
(*                                                                         *)
(* HeldInv says who waits for what, however many calls are under way.      *)
(* SerialInv is what a call that is alone may rely on: it has taken what   *)
(* was current, every goroutine belongs to that or has been told to stop,  *)
(* and the status is that of the connection it belongs to.                 *)
(***************************************************************************)
EXTENDS RemoteTap, TLAPS

HeldInv ==
  \A c \in Callers :
    /\ pc[c] \in {"cancelling", "waiting"} <=> held[c] # NoRun
    /\ pc[c] = "waiting" => held[c] \in cancelled

(* The run is that of the current connection or of the call that ends it. *)
Owned(r) == r = current \/ \E c \in Callers : held[c] = r

Reads(r) == runPc[r] \in {"reading", "processing", "readErr"}

SerialInv ==
  ~overlapped =>
    /\ \A c, d \in Callers : pc[c] # "idle" /\ pc[d] # "idle" => c = d
    /\ \A c \in Callers : pc[c] # "idle" => current = NoRun
    /\ \A r \in Runs : Live(r) => Owned(r)
    /\ \A r \in watching \union pruning : r \in cancelled \/ Owned(r)
    /\ current \notin cancelled
    /\ \A c \in Callers : pc[c] = "opening" => status = "idle"
    /\ status = "idle" => addr = NoAddr /\ \A r \in Runs : ~Live(r)
    /\ status = "connected" => IF current = NoRun THEN \E c \in Callers : pc[c] # "idle"
                               ELSE Reads(current)

RemoteInv == TypeOK /\ HeldInv /\ SerialInv
-----------------------------------------------------------------------------
LEMMA RemoteInit == Init => RemoteInv
<1> SUFFICES ASSUME Init PROVE RemoteInv
  OBVIOUS
<1> USE DEF Init
<1>1. TypeOK
  <2>1. 0 \in 0 .. MaxBuffered
    BY BufferAssumption
  <2> QED
    BY <2>1 DEF TypeOK, Statuses, Pcs, RunPcs
<1>2. HeldInv /\ SerialInv
  BY DEF HeldInv, SerialInv, Live
<1> QED
  BY <1>1, <1>2 DEF RemoteInv

(* No run is lost to the name of no run. *)
LEMMA NilFacts ==
  ASSUME TypeOK
  PROVE  /\ NoRun \notin Runs /\ NoAddr \notin Addrs
         /\ NoRun \notin watching \union pruning \union cancelled
         /\ pc \in [Callers -> Pcs] /\ held \in [Callers -> Runs \union {NoRun}]
         /\ runPc \in [Runs -> RunPcs]
BY NilAssumption DEF TypeOK

(* A call takes what is current (remotetap_client.go:73-80). *)
LEMMA DisconnectTakeInv ==
  ASSUME RemoteInv, NEW c \in Callers, DisconnectTake(c)
  PROVE  RemoteInv'
<1> USE DEF RemoteInv
<1>1. /\ pc[c] = "idle" /\ Call(c)
      /\ held' = [held EXCEPT ![c] = current]
      /\ current' = NoRun
      /\ pc' = [pc EXCEPT ![c] = IF current = NoRun THEN "clearing" ELSE "cancelling"]
      /\ overlapped' = (overlapped \/ \E d \in Callers : pc[d] # "idle")
      /\ UNCHANGED <<status, lastErr, addr, runPc, cancelled, watching, pruning, closed,
                     buffered>>
  BY DEF DisconnectTake, helperVars, connVars
<1>2. /\ NoRun \notin Runs /\ NoRun \notin cancelled
      /\ pc \in [Callers -> Pcs] /\ held \in [Callers -> Runs \union {NoRun}]
      /\ current \in Runs \union {NoRun}
  BY NilFacts DEF TypeOK
<1>3. /\ pc'[c] = IF current = NoRun THEN "clearing" ELSE "cancelling"
      /\ held'[c] = current
      /\ \A d \in Callers : d # c => pc'[d] = pc[d] /\ held'[d] = held[d]
  BY <1>1, <1>2
<1>4. TypeOK'
  <2>1. op' \in [Callers -> {"connect", "disconnect"}]
    BY <1>1 DEF Call, TypeOK
  <2>2. pc' \in [Callers -> Pcs] /\ held' \in [Callers -> Runs \union {NoRun}]
    BY <1>1, <1>2 DEF Pcs
  <2>3. overlapped' \in BOOLEAN
    BY <1>1 DEF TypeOK
  <2> QED
    BY <1>1, <2>1, <2>2, <2>3 DEF TypeOK
<1>5. HeldInv'
  BY <1>1, <1>3 DEF HeldInv
<1>6. SerialInv'
  <2> SUFFICES ASSUME ~overlapped' PROVE SerialInv'
    BY DEF SerialInv
  <2>1. ~overlapped /\ \A d \in Callers : pc[d] = "idle"
    BY <1>1
  <2>2. \A d \in Callers : held[d] = NoRun
    BY <2>1 DEF HeldInv
  <2>3. \A r \in Runs : Owned(r) => Owned(r)'
    BY <1>1, <1>2, <1>3, <2>2 DEF Owned
  <2>4. \A r \in watching \union pruning : r \in Runs
    BY DEF TypeOK
  <2> QED
    BY <1>1, <1>2, <1>3, <2>1, <2>3, <2>4 DEF SerialInv, Live
<1> QED
  BY <1>4, <1>5, <1>6

LEMMA DisconnectCancelInv ==
  ASSUME RemoteInv, NEW c \in Callers, DisconnectCancel(c)
  PROVE  RemoteInv'
<1> USE DEF RemoteInv
<1>1. /\ pc[c] = "cancelling" /\ pc' = [pc EXCEPT ![c] = "waiting"]
      /\ cancelled' = cancelled \union {held[c]}
      /\ UNCHANGED <<status, lastErr, addr, current, op, held, runPc, watching, pruning,
                     closed, buffered, overlapped>>
  BY DEF DisconnectCancel, CallerGoto, locked, helperVars, connVars
<1>2. /\ NoRun \notin Runs /\ pc \in [Callers -> Pcs] /\ held[c] \in Runs
      /\ held \in [Callers -> Runs \union {NoRun}]
  BY <1>1, NilFacts DEF HeldInv
<1>3. pc'[c] = "waiting" /\ \A d \in Callers : d # c => pc'[d] = pc[d]
  BY <1>1, <1>2
<1>4. TypeOK'
  BY <1>1, <1>2 DEF TypeOK, Pcs
<1>5. HeldInv'
  BY <1>1, <1>3 DEF HeldInv
<1>6. SerialInv'
  <2> SUFFICES ASSUME ~overlapped' PROVE SerialInv'
    BY DEF SerialInv
  <2>1. current = NoRun /\ ~overlapped
    BY <1>1 DEF SerialInv
  <2>2. current' \notin cancelled'
    BY <1>1, <1>2, <2>1 DEF SerialInv
  <2> QED
    BY <1>1, <1>3, <2>1, <2>2 DEF SerialInv, Live, Owned, Reads
<1> QED
  BY <1>4, <1>5, <1>6

(* Nothing of the old connection runs once the wait is over. *)
LEMMA DisconnectWaitInv ==
  ASSUME RemoteInv, NEW c \in Callers, DisconnectWait(c)
  PROVE  RemoteInv'
<1> USE DEF RemoteInv
<1>1. /\ pc[c] = "waiting" /\ pc' = [pc EXCEPT ![c] = "clearing"]
      /\ ~Live(held[c])
      /\ held' = [held EXCEPT ![c] = NoRun]
      /\ UNCHANGED <<status, lastErr, addr, current, op, runPc, cancelled, watching, pruning,
                     closed, buffered, overlapped>>
  BY DEF DisconnectWait, CallerGoto, locked, helperVars, connVars
<1>2. /\ pc \in [Callers -> Pcs] /\ held \in [Callers -> Runs \union {NoRun}]
      /\ held[c] \in cancelled
  BY <1>1, NilFacts DEF HeldInv
<1>3. /\ pc'[c] = "clearing" /\ held'[c] = NoRun
      /\ \A d \in Callers : d # c => pc'[d] = pc[d] /\ held'[d] = held[d]
  BY <1>1, <1>2
<1>4. TypeOK'
  BY <1>1, <1>2 DEF TypeOK, Pcs
<1>5. HeldInv'
  BY <1>1, <1>3 DEF HeldInv
<1>6. SerialInv'
  <2>1. \A r \in Runs : Owned(r) => Owned(r)' \/ r = held[c]
    BY <1>1, <1>3 DEF Owned
  <2>2. \A r \in watching \union pruning : r \in Runs
    BY DEF TypeOK
  <2> QED
    BY <1>1, <1>2, <1>3, <2>1, <2>2 DEF SerialInv, Live, Reads
<1> QED
  BY <1>4, <1>5, <1>6

LEMMA DisconnectClearInv ==
  ASSUME RemoteInv, NEW c \in Callers, DisconnectClear(c)
  PROVE  RemoteInv'
<1> USE DEF RemoteInv
<1>1. /\ pc[c] = "clearing"
      /\ pc' = [pc EXCEPT ![c] = IF op[c] = "connect" THEN "opening" ELSE "idle"]
      /\ status' = "idle" /\ lastErr' = FALSE /\ addr' = NoAddr
      /\ UNCHANGED <<current, op, held, runPc, cancelled, watching, pruning, closed,
                     buffered, overlapped>>
  BY DEF DisconnectClear, CallerGoto, helperVars, connVars
<1>2. pc \in [Callers -> Pcs]
  BY NilFacts
<1>3. pc'[c] \in {"opening", "idle"} /\ \A d \in Callers : d # c => pc'[d] = pc[d]
  BY <1>1, <1>2
<1>4. TypeOK'
  BY <1>1, <1>2 DEF TypeOK, Pcs, Statuses
<1>5. HeldInv'
  BY <1>1, <1>3 DEF HeldInv
<1>6. SerialInv'
  <2> SUFFICES ASSUME ~overlapped' PROVE SerialInv'
    BY DEF SerialInv
  <2>1. current = NoRun /\ ~overlapped /\ \A d \in Callers : held[d] = NoRun
    BY <1>1 DEF SerialInv, HeldInv
  <2>2. \A r \in Runs : ~Live(r)
    BY <2>1, NilFacts DEF SerialInv, Owned
  <2>3. status' # "connected"
    BY <1>1
  <2> QED
    BY <1>1, <1>3, <2>1, <2>2, <2>3 DEF SerialInv, Live, Owned
<1> QED
  BY <1>4, <1>5, <1>6

(* The new run is one that nothing refers to. *)
LEMMA ConnectOpenInv ==
  ASSUME RemoteInv, NEW c \in Callers, ConnectOpen(c)
  PROVE  RemoteInv'
<1> USE DEF RemoteInv
<1>1. /\ pc[c] = "opening" /\ pc' = [pc EXCEPT ![c] = "idle"]
      /\ status' = "connecting" /\ lastErr' = FALSE /\ addr' \in Addrs
      /\ UNCHANGED <<op, held, watching, pruning, overlapped>>
  BY DEF ConnectOpen, CallerGoto
<1>2. PICK r \in Runs : /\ Free(r)
                        /\ current' = r
                        /\ runPc' = [runPc EXCEPT ![r] = "dialing"]
                        /\ cancelled' = cancelled \ {r}
                        /\ closed' = closed \ {r}
                        /\ buffered' = [buffered EXCEPT ![r] = 0]
  BY DEF ConnectOpen
<1>3. /\ ~Live(r) /\ r \notin watching \union pruning
      /\ current # r /\ \A d \in Callers : held[d] # r
  BY <1>2 DEF Free
<1>4. /\ pc \in [Callers -> Pcs] /\ runPc \in [Runs -> RunPcs] /\ NoRun \notin Runs
  BY NilFacts
<1>5. /\ pc'[c] = "idle" /\ \A d \in Callers : d # c => pc'[d] = pc[d]
      /\ \A q \in Runs : q # r => runPc'[q] = runPc[q]
  BY <1>1, <1>2, <1>4
<1>6. TypeOK'
  <2>1. pc' \in [Callers -> Pcs] /\ runPc' \in [Runs -> RunPcs]
    BY <1>1, <1>2, <1>4 DEF Pcs, RunPcs
  <2>2. buffered' \in [Runs -> 0 .. MaxBuffered]
    BY <1>2, BufferAssumption DEF TypeOK
  <2> QED
    BY <1>1, <1>2, <2>1, <2>2 DEF TypeOK, Statuses
<1>7. HeldInv'
  BY <1>1, <1>2, <1>3, <1>5 DEF HeldInv
<1>8. SerialInv'
  <2> SUFFICES ASSUME ~overlapped' PROVE SerialInv'
    BY DEF SerialInv
  <2>1. ~overlapped /\ current = NoRun /\ status = "idle"
    BY <1>1 DEF SerialInv
  <2>2. \A d \in Callers : pc'[d] = "idle"
    BY <1>1, <1>5, <2>1 DEF SerialInv
  <2>3. \A q \in Runs : q # r => ~Live(q)'
    BY <1>5, <2>1 DEF SerialInv, Live
  <2>4. \A q \in watching \union pruning : q \in cancelled' \/ Owned(q)'
    <3> SUFFICES ASSUME NEW q \in watching \union pruning PROVE q \in cancelled' \/ Owned(q)'
      OBVIOUS
    <3>1. q # r /\ (q \in cancelled \/ q = current \/ \E d \in Callers : held[d] = q)
      BY <1>3, <2>1 DEF SerialInv, Owned
    <3>2. q # current
      BY <2>1, NilFacts
    <3> QED
      BY <1>1, <1>2, <3>1, <3>2 DEF Owned
  <2>5. \A q \in Runs : Live(q)' => Owned(q)'
    BY <1>2, <2>3 DEF Owned
  <2>6. current' \notin cancelled' /\ status' \notin {"idle", "connected"}
    BY <1>1, <1>2
  <2> QED
    BY <1>1, <2>2, <2>4, <2>5, <2>6 DEF SerialInv
<1> QED
  BY <1>6, <1>7, <1>8
-----------------------------------------------------------------------------
(* What every step of a run leaves alone: the run was live, so the status  *)
(* cannot be idle, and a run that reads belongs to nobody but its owner.   *)
LEMMA RunStepFrame ==
  ASSUME RemoteInv, NEW r \in Runs, Live(r), NEW to \in RunPcs,
         runPc' = [runPc EXCEPT ![r] = to],
         UNCHANGED <<addr, current, callerVars, cancelled, closed, overlapped>>,
         status' \in Statuses \ {"idle"} \/ status' = status, lastErr' \in BOOLEAN,
         buffered' \in [Runs -> 0 .. MaxBuffered],
         watching' \in {watching, watching \union {r}},
         pruning' \in {pruning, pruning \union {r}},
         status' = "connected" /\ r = current /\ ~overlapped => Reads(r)',
         status' = "connected" /\ r # current /\ ~overlapped =>
           status = "connected" \/ current = NoRun
  PROVE  RemoteInv'
<1> USE DEF RemoteInv
<1>1. /\ runPc \in [Runs -> RunPcs] /\ NoRun \notin Runs
      /\ UNCHANGED <<addr, current, pc, op, held, cancelled, closed, overlapped>>
  BY NilFacts DEF callerVars
<1>2. runPc'[r] = to /\ \A q \in Runs : q # r => runPc'[q] = runPc[q]
  BY <1>1
<1>3. TypeOK'
  BY <1>1 DEF TypeOK
<1>4. HeldInv'
  BY <1>1 DEF HeldInv
<1>5. SerialInv'
  <2> SUFFICES ASSUME ~overlapped' PROVE SerialInv'
    BY DEF SerialInv
  <2>1. ~overlapped /\ Owned(r) /\ status # "idle"
    BY <1>1 DEF SerialInv
  <2>2. \A q \in Runs : Owned(q)' <=> Owned(q)
    BY <1>1 DEF Owned
  <2>3. \A q \in Runs : Live(q)' => Owned(q)'
    BY <1>2, <2>1, <2>2 DEF SerialInv, Live
  <2>4. \A q \in watching' \union pruning' : q \in cancelled \/ Owned(q)'
    BY <2>1, <2>2 DEF SerialInv, TypeOK
  <2>5. \A c \in Callers : pc[c] # "opening" /\ status' # "idle"
    BY <2>1 DEF SerialInv
  <2>6. status' = "connected" => IF current = NoRun THEN \E c \in Callers : pc[c] # "idle"
                                 ELSE Reads(current)'
    <3>1. CASE current = NoRun
      <4>1. PICK c \in Callers : held[c] = r
        BY <1>1, <2>1, <3>1 DEF Owned
      <4>2. pc[c] # "idle"
        BY <1>1, <4>1 DEF HeldInv
      <4> QED
        BY <3>1, <4>2
    <3>2. CASE current = r
      BY <1>1, <2>1, <3>2
    <3>3. CASE current # NoRun /\ current # r
      <4>1. status' = "connected" => status = "connected"
        BY <2>1, <3>3
      <4>2. current \in Runs
        BY <3>3 DEF TypeOK
      <4> QED
        BY <1>1, <1>2, <2>1, <3>3, <4>1, <4>2 DEF SerialInv, Reads
    <3> QED
      BY <3>1, <3>2, <3>3
  <2> QED
    BY <1>1, <2>1, <2>3, <2>4, <2>5, <2>6 DEF SerialInv
<1> QED
  BY <1>3, <1>4, <1>5

(* A run whose status is "connected" reads, if it is the current one, and  *)
(* nobody has cancelled that.                                              *)
LEMMA CurrentReads ==
  ASSUME RemoteInv, ~overlapped, current \in Runs
  PROVE  current \notin cancelled /\ (status = "connected" => Reads(current))
<1>1. current # NoRun
  BY NilAssumption
<1> QED
  BY <1>1 DEF RemoteInv, SerialInv

(* Each of the steps of run (remotetap_client.go:108-176). *)
LEMMA RunStepInv ==
  ASSUME RemoteInv, NEW r \in Runs, RunStep(r)
  PROVE  RemoteInv'
<1> USE DEF RunGoto, locked, helperVars, connVars
<1>0. /\ runPc \in [Runs -> RunPcs] /\ status \in Statuses /\ lastErr \in BOOLEAN
      /\ r = current => current \in Runs
      /\ buffered \in [Runs -> 0 .. MaxBuffered]
  BY DEF RemoteInv, TypeOK
<1>1. CASE DialSucceeds(r)
  <2>1. Live(r) /\ (status = "connected" /\ r = current /\ ~overlapped => FALSE)
    BY <1>0, <1>1, CurrentReads DEF DialSucceeds, Live, Reads
  <2> QED
    BY <1>0, <1>1, <2>1, RunStepFrame DEF DialSucceeds, RunPcs
<1>2. CASE DialFails(r)
  <2>1. Live(r) /\ (status = "connected" /\ r = current /\ ~overlapped => FALSE)
    BY <1>0, <1>2, CurrentReads DEF DialFails, Live, Reads
  <2> QED
    BY <1>0, <1>2, <2>1, RunStepFrame DEF DialFails, RunPcs
<1>3. CASE ReportDialError(r)
  <2>1. Live(r) /\ status' = "error"
    BY <1>3 DEF ReportDialError, Live
  <2> QED
    BY <1>0, <1>3, <2>1, RunStepFrame DEF ReportDialError, RunPcs, Statuses
<1>4. CASE ReportConnected(r)
  <2>1. Live(r) /\ Reads(r)'
    BY <1>0, <1>4 DEF ReportConnected, Live, Reads
  <2>2. r # current /\ ~overlapped => current = NoRun
    <3> SUFFICES ASSUME r # current, ~overlapped PROVE current = NoRun
      OBVIOUS
    <3>1. PICK c \in Callers : held[c] = r
      BY <2>1 DEF RemoteInv, SerialInv, Owned
    <3> QED
      BY <3>1, NilFacts DEF RemoteInv, HeldInv, SerialInv
  <2> QED
    BY <1>0, <1>4, <2>1, <2>2, RunStepFrame DEF ReportConnected, RunPcs, Statuses
<1>5. CASE Receive(r)
  <2>1. Live(r) /\ Reads(r)'
    BY <1>0, <1>5 DEF Receive, Live, Reads
  <2>2. \E to \in RunPcs : runPc' = [runPc EXCEPT ![r] = to]
    BY <1>5 DEF Receive, RunPcs
  <2>3. buffered' \in [Runs -> 0 .. MaxBuffered]
    BY <1>0, <1>5, BufferAssumption DEF Receive
  <2> QED
    BY <1>0, <1>5, <2>1, <2>2, <2>3, RunStepFrame DEF Receive
<1>6. CASE ReadFails(r)
  <2>1. Live(r) /\ (r = current /\ ~overlapped => Reads(r)')
    BY <1>0, <1>6, CurrentReads DEF ReadFails, Live, Reads
  <2>2. \E to \in RunPcs : runPc' = [runPc EXCEPT ![r] = to]
    BY <1>6 DEF ReadFails, RunPcs
  <2> QED
    BY <1>0, <1>6, <2>1, <2>2, RunStepFrame DEF ReadFails
<1>7. CASE ReportReadError(r)
  <2>1. Live(r) /\ status' = "error"
    BY <1>7 DEF ReportReadError, Live
  <2> QED
    BY <1>0, <1>7, <2>1, RunStepFrame DEF ReportReadError, RunPcs, Statuses
<1>8. CASE RunEnds(r)
  <2>1. Live(r) /\ (status = "connected" /\ r = current /\ ~overlapped => FALSE)
    BY <1>0, <1>8, CurrentReads DEF RunEnds, Live, Reads
  <2> QED
    BY <1>0, <1>8, <2>1, RunStepFrame DEF RunEnds, RunPcs
<1> QED
  BY <1>1, <1>2, <1>3, <1>4, <1>5, <1>6, <1>7, <1>8 DEF RunStep

LEMMA HelperEndsInv ==
  ASSUME RemoteInv, NEW r \in Runs, WatcherCloses(r) \/ PruneLoopEnds(r)
  PROVE  RemoteInv'
<1> USE DEF RemoteInv
<1>1. /\ UNCHANGED <<status, lastErr, addr, current, pc, op, held, runPc, cancelled, overlapped>>
      /\ watching' \subseteq watching /\ pruning' \subseteq pruning /\ closed' \subseteq Runs
      /\ buffered' \in [Runs -> 0 .. MaxBuffered]
  BY DEF WatcherCloses, PruneLoopEnds, locked, callerVars, connVars, TypeOK
<1>2. TypeOK' /\ HeldInv'
  BY <1>1 DEF TypeOK, HeldInv
<1>3. SerialInv'
  BY <1>1 DEF SerialInv, Live, Owned, Reads
<1> QED
  BY <1>2, <1>3

LEMMA RemoteInvInductive == RemoteInv /\ [Next]_vars => RemoteInv'
<1> SUFFICES ASSUME RemoteInv, [Next]_vars PROVE RemoteInv'
  OBVIOUS
<1>1. CASE \E c \in Callers : DisconnectTake(c) \/ CallerStep(c)
  BY <1>1, DisconnectTakeInv, DisconnectCancelInv, DisconnectWaitInv, DisconnectClearInv,
     ConnectOpenInv DEF CallerStep
<1>2. CASE \E r \in Runs : RunStep(r) \/ WatcherCloses(r) \/ PruneLoopEnds(r)
  BY <1>2, RunStepInv, HelperEndsInv
<1>3. CASE UNCHANGED vars
  BY <1>3 DEF vars, RemoteInv, TypeOK, HeldInv, SerialInv, Live, Owned, Reads, locked,
     callerVars, helperVars, connVars
<1> QED
  BY <1>1, <1>2, <1>3 DEF Next

THEOREM RemoteInvariant == Spec => []RemoteInv
BY RemoteInit, RemoteInvInductive, PTL DEF Spec
-----------------------------------------------------------------------------
(* A call only waits for a run that has been told to stop, and calls that  *)
(* do not overlap keep one run with its helpers at a time                  *)
(* (remotetap_client.go:47-106, 178-224).                                  *)
THEOREM SingleConnection == Spec => []OneConnection
<1>1. RemoteInv => OneConnection
  <2> SUFFICES ASSUME RemoteInv PROVE OneConnection
    OBVIOUS
  <2>1. WaitsForCancelled
    BY DEF RemoteInv, HeldInv, WaitsForCancelled
  <2>2. OneRun
    <3> SUFFICES ASSUME ~overlapped, NEW r \in Runs, NEW s \in Runs, Live(r), Live(s)
                 PROVE  r = s
      BY DEF OneRun
    <3>1. Owned(r) /\ Owned(s) /\ r # NoRun /\ s # NoRun
      BY NilFacts DEF RemoteInv, SerialInv
    <3>2. \A c, d \in Callers : held[c] # NoRun /\ held[d] # NoRun => c = d
      BY DEF RemoteInv, HeldInv, SerialInv
    <3>3. \A c \in Callers : held[c] # NoRun => current = NoRun
      BY DEF RemoteInv, HeldInv, SerialInv
    <3> QED
      BY <3>1, <3>2, <3>3 DEF Owned
  <2>3. HelpersAreCurrent
    BY DEF RemoteInv, SerialInv, Owned, HelpersAreCurrent
  <2> QED
    BY <2>1, <2>2, <2>3 DEF RemoteInv, OneConnection
<1> QED
  BY <1>1, RemoteInvariant, PTL

(* Calls that do not overlap find the status telling what runs             *)
(* (remotetap_client.go:73-176).                                           *)
THEOREM TruthfulStatus == Spec => []StatusIsTruthful
<1>1. RemoteInv => StatusIsTruthful
  <2> SUFFICES ASSUME RemoteInv PROVE StatusIsTruthful
    OBVIOUS
  <2>1. IdleIsQuiet
    BY DEF RemoteInv, SerialInv, IdleIsQuiet
  <2>2. ConnectedIsCurrent
    BY DEF RemoteInv, SerialInv, TypeOK, Reads, Live, ConnectedIsCurrent
  <2> QED
    BY <2>1, <2>2 DEF StatusIsTruthful
<1> QED
  BY <1>1, RemoteInvariant, PTL
=============================================================================
