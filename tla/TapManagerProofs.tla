--------------------------- MODULE TapManagerProofs ---------------------------
(***************************************************************************)
(* Proofs about TapManager, for any sets of callers, addresses and session *)
(* ids.                                                                    *)
(*                                                                         *)
(* The invariants of the runs are not inductive: that a session may give   *)
(* its sockets back needs that nobody else has one of them, and who that   *)
(* could be are the other receivers, those that are stopped and close a     *)
(* socket late included, and the calls of Start that hold one socket or    *)
(* two.  SocketInv says so; StatusInv says what "listening"      *)
(* means while calls are under way, and SerialInv what a call that is      *)
(* alone may rely on.                                                      *)
(***************************************************************************)
EXTENDS TapManager, TLAPS

(* A new receiver is its caller's alone until it is installed, and the     *)
(* installed one serves.                                                   *)
OwnerInv ==
  /\ \A c \in Callers : IF pc[c] = "commit"
                        THEN /\ recv[c] \in serving /\ recv[c] # session
                             /\ at[recv[c]] = AddrsOf(cfg[c])
                        ELSE recv[c] = NoSession
  /\ \A c, d \in Callers : recv[c] = recv[d] /\ recv[c] # NoSession => c = d
  /\ session # NoSession => session \in serving

(* Every bound address has one owner, a receiver or a call that has bound  *)
(* the first of its two.                                                   *)
SocketInv ==
  /\ \A a \in Addrs : a \in bound <=> \/ \E s \in Sessions : a \in Open(s)
                                      \/ \E c \in Callers : pc[c] = "http" /\ a = cfg[c].grpc
  /\ SocketsExclusive
  /\ \A s \in Sessions : starting[s] \subseteq at[s]
  /\ \A c \in Callers : pc[c] = "http" => \A s \in Sessions : cfg[c].grpc \notin Open(s)
  /\ \A c, d \in Callers :
       pc[c] = "http" /\ pc[d] = "http" /\ cfg[c].grpc = cfg[d].grpc => c = d

StatusInv ==
  status = "listening" => IF session = NoSession THEN ~AllIdle ELSE shown = at[session]

SerialInv ==
  ~overlapped =>
    /\ \A c, d \in Callers : pc[c] # "idle" /\ pc[d] # "idle" => c = d
    /\ session # NoSession => AllIdle /\ status = "listening"
    /\ \A s \in serving : s = session \/ \E c \in Callers : recv[c] = s
    /\ \A s \in pruning : s = session \/ s \in stopped

TapInv == TypeOK /\ OwnerInv /\ SocketInv /\ StatusInv /\ SerialInv
-----------------------------------------------------------------------------
LEMMA TapInit == Init => TapInv
<1> SUFFICES ASSUME Init PROVE TapInv
  OBVIOUS
<1> USE DEF Init
<1>1. TypeOK
  <2>1. cfg \in [Callers -> Config]
    OBVIOUS
  <2> QED
    BY <2>1 DEF TypeOK, Statuses, Pcs
<1>2. OwnerInv /\ SocketInv /\ StatusInv /\ SerialInv
  BY DEF OwnerInv, SocketInv, SocketsExclusive, Open, StatusInv, SerialInv, AllIdle
<1> QED
  BY <1>1, <1>2 DEF TapInv

(* What Stop and the beginning of Start have in common (manager.go:64-72,  *)
(* 108-116): the addresses given back are those of the session and of      *)
(* nobody else.                                                            *)
LEMMA EndSessionKeeps ==
  ASSUME TapInv, NEW c \in Callers, EndSession, NoteOverlap, pc[c] = "idle",
         UNCHANGED <<fixed, recv, at, starting, pruning>>,
         pc' \in [Callers -> Pcs], pc'[c] \in {"idle", "grpc"},
         \A d \in Callers : d # c => pc'[d] = pc[d] /\ cfg'[d] = cfg[d],
         cfg' \in [Callers -> Config], status' \in Statuses, lastErr' \in BOOLEAN,
         shown' = shown, status' = "listening" => pc'[c] # "idle"
  PROVE  TapInv'
<1> USE DEF TapInv
<1>1. /\ stopped' = stopped \union ({session} \ {NoSession})
      /\ serving' = serving \ {session}
      /\ bound' = bound \ Released
      /\ session' = NoSession
      /\ UNCHANGED <<recv, at, starting, pruning, disabled, foreign>>
  BY DEF EndSession, fixed
<1>2. Released = IF session = NoSession THEN {} ELSE at[session] \ starting[session]
  BY DEF Released
<1>3. NoSession \notin Sessions
  BY NilAssumption
<1>4. TypeOK'
  BY <1>1 DEF TypeOK, NoteOverlap
<1>5. OwnerInv'
  <2>1. ASSUME NEW d \in Callers
        PROVE  IF pc'[d] = "commit"
               THEN /\ recv[d] \in serving' /\ recv[d] # session'
                    /\ at[recv[d]] = AddrsOf(cfg'[d])
               ELSE recv[d] = NoSession
    <3>1. CASE d = c
      BY <3>1 DEF OwnerInv
    <3>2. CASE d # c
      <4>1. pc'[d] = pc[d] /\ cfg'[d] = cfg[d]
        BY <3>2
      <4>2. CASE pc[d] = "commit"
        <5>1. recv[d] \in serving /\ recv[d] # session /\ at[recv[d]] = AddrsOf(cfg[d])
          BY <4>2 DEF OwnerInv
        <5>2. recv[d] # NoSession
          BY <1>3, <5>1 DEF TypeOK
        <5> QED
          BY <1>1, <4>1, <4>2, <5>1, <5>2
      <4>3. CASE pc[d] # "commit"
        BY <4>1, <4>3 DEF OwnerInv
      <4> QED
        BY <4>2, <4>3
    <3> QED
      BY <3>1, <3>2
  <2>2. \A d, e \in Callers : recv[d] = recv[e] /\ recv[d] # NoSession => d = e
    BY DEF OwnerInv
  <2>3. recv' = recv /\ at' = at /\ session' = NoSession
    BY <1>1
  <2> QED
    BY <2>1, <2>2, <2>3 DEF OwnerInv
<1>6. SocketInv'
  <2>1. \A d \in Callers : pc'[d] = "http" <=> pc[d] = "http" /\ d # c
    OBVIOUS
  <2>2. /\ \A s \in Sessions : s # session => Open(s)' = Open(s)
        /\ session # NoSession => session \in Sessions
        /\ \A s \in Sessions : s = session =>
             Open(s) = at[s] /\ Open(s)' = starting[s] /\ starting[s] \subseteq at[s]
    <3>1. /\ serving' = serving \ {session} /\ at' = at /\ starting' = starting
          /\ \A s \in Sessions : starting[s] \subseteq at[s]
          /\ session # NoSession => session \in serving
          /\ serving \subseteq Sessions
      BY <1>1 DEF OwnerInv, SocketInv, TypeOK
    <3>2. \A s \in Sessions : s # session => Open(s)' = Open(s)
      BY <3>1 DEF Open
    <3>3. \A s \in Sessions : s = session => Open(s) = at[s] /\ Open(s)' = starting[s]
      BY <1>3, <3>1 DEF Open
    <3> QED
      BY <3>1, <3>2, <3>3
  <2>3. \A s \in Sessions : Open(s)' \subseteq Open(s)
    <3> TAKE s \in Sessions
    <3>1. CASE s = session
      BY <2>2, <3>1
    <3>2. CASE s # session
      BY <2>2, <3>2
    <3> QED
      BY <3>1, <3>2
  <2>4. ASSUME NEW a \in Addrs
        PROVE  a \in bound' <=> \/ \E s \in Sessions : a \in Open(s)'
                                \/ \E d \in Callers : pc'[d] = "http" /\ a = cfg'[d].grpc
    <3>1. a \in bound <=> \/ \E s \in Sessions : a \in Open(s)
                          \/ \E d \in Callers : pc[d] = "http" /\ a = cfg[d].grpc
      BY DEF SocketInv
    <3>2. \A d \in Callers : pc[d] = "http" => d # c /\ cfg'[d] = cfg[d]
      OBVIOUS
    <3>3. CASE session = NoSession
      <4>1. bound' = bound /\ \A s \in Sessions : Open(s)' = Open(s)
        BY <1>1, <1>2, <1>3, <2>2, <3>3
      <4> QED
        BY <2>1, <3>1, <3>2, <4>1
    <3>4. CASE session # NoSession
      <4>1. session \in Sessions
        BY <2>2, <3>4
      <4>2. \A s \in Sessions : s # session /\ a \in Open(s) => a \notin at[session]
        BY <2>2, <3>4 DEF SocketInv, SocketsExclusive
      <4>3. \A d \in Callers : pc[d] = "http" /\ a = cfg[d].grpc => a \notin at[session]
        BY <2>2, <3>4 DEF SocketInv
      <4>4. a \in bound' <=> a \in bound /\ (a \notin at[session] \/ a \in starting[session])
        BY <1>1, <1>2, <3>4
      <4> QED
        <5>1. (\E s \in Sessions : a \in Open(s)')
                <=> a \in starting[session] \/ \E s \in Sessions : s # session /\ a \in Open(s)
          BY <2>2, <4>1
        <5>2. (\E s \in Sessions : a \in Open(s))
                <=> a \in at[session] \/ \E s \in Sessions : s # session /\ a \in Open(s)
          BY <2>2, <4>1
        <5>3. a \in starting[session] => a \in at[session]
          BY <2>2, <4>1
        <5> QED
          BY <2>1, <3>1, <3>2, <4>2, <4>3, <4>4, <5>1, <5>2, <5>3
    <3> QED
      BY <3>3, <3>4
  <2>5. /\ SocketsExclusive'
        /\ \A d \in Callers : pc'[d] = "http" => \A s \in Sessions : cfg'[d].grpc \notin Open(s)'
    BY <2>1, <2>3 DEF SocketInv, SocketsExclusive
  <2>6. \A d, e \in Callers :
          pc'[d] = "http" /\ pc'[e] = "http" /\ cfg'[d].grpc = cfg'[e].grpc => d = e
    BY <2>1 DEF SocketInv
  <2> QED
    BY <1>1, <2>4, <2>5, <2>6 DEF SocketInv
<1>7. StatusInv'
  BY <1>1 DEF StatusInv, AllIdle
<1>8. SerialInv'
  <2> SUFFICES ASSUME ~overlapped' PROVE SerialInv'
    BY DEF SerialInv
  <2>1. ~overlapped /\ AllIdle
    BY DEF NoteOverlap
  <2>2. \A d \in Callers : d # c => pc'[d] = "idle"
    BY <2>1 DEF AllIdle
  <2>3. \A s \in pruning : s \in stopped'
    BY <1>1, <1>3, <2>1 DEF SerialInv, TypeOK
  <2>4. \A s \in serving' : \E d \in Callers : recv[d] = s
    BY <1>1, <2>1 DEF SerialInv
  <2> QED
    BY <1>1, <2>2, <2>3, <2>4 DEF SerialInv
<1> QED
  BY <1>4, <1>5, <1>6, <1>7, <1>8

LEMMA StartBeginInv ==
  ASSUME TapInv, NEW c \in Callers, StartBegin(c)
  PROVE  TapInv'
<1>1. PICK conf \in Config : cfg' = [cfg EXCEPT ![c] = conf]
  BY DEF StartBegin
<1>2. /\ pc[c] = "idle" /\ pc' = [pc EXCEPT ![c] = "grpc"]
      /\ EndSession /\ NoteOverlap
      /\ UNCHANGED <<fixed, status, lastErr, shown, recv, at, starting, pruning>>
  BY DEF StartBegin, CallerGoto
<1>3. TypeOK
  BY DEF TapInv
<1>4. /\ pc' \in [Callers -> Pcs] /\ pc'[c] = "grpc" /\ cfg' \in [Callers -> Config]
      /\ \A d \in Callers : d # c => pc'[d] = pc[d] /\ cfg'[d] = cfg[d]
      /\ status' \in Statuses /\ lastErr' \in BOOLEAN
  BY <1>1, <1>2, <1>3 DEF TypeOK, Pcs
<1> QED
  BY <1>2, <1>4, EndSessionKeeps

LEMMA StopInv ==
  ASSUME TapInv, NEW c \in Callers, Stop(c)
  PROVE  TapInv'
<1>1. /\ pc[c] = "idle" /\ pc' = [pc EXCEPT ![c] = "idle"]
      /\ EndSession /\ NoteOverlap
      /\ status' = "idle" /\ lastErr' = FALSE
      /\ UNCHANGED <<fixed, shown, cfg, recv, at, starting, pruning>>
  BY DEF Stop, CallerGoto
<1>2. TypeOK
  BY DEF TapInv
<1>3. /\ pc' \in [Callers -> Pcs] /\ pc'[c] = "idle" /\ cfg' \in [Callers -> Config]
      /\ \A d \in Callers : d # c => pc'[d] = pc[d] /\ cfg'[d] = cfg[d]
      /\ status' \in Statuses /\ lastErr' \in BOOLEAN /\ status' # "listening"
  BY <1>1, <1>2 DEF TypeOK, Pcs, Statuses
<1> QED
  BY <1>1, <1>3, EndSessionKeeps

(* The gRPC listener of the new receiver: the address had no owner. *)
LEMMA ListenGrpcInv ==
  ASSUME TapInv, NEW c \in Callers, ListenGrpc(c)
  PROVE  TapInv'
<1> USE DEF TapInv
<1> DEFINE g == cfg[c].grpc
<1>1. UNCHANGED <<fixed, locked, cfg, recv, serving, at, starting, pruning, stopped, overlapped>>
  BY DEF ListenGrpc
<1>2. g \in Addrs /\ pc \in [Callers -> Pcs]
  BY DEF TypeOK, Config
<1>3. CASE g \notin Taken
  <2>1. /\ pc[c] = "grpc" /\ pc' = [pc EXCEPT ![c] = "http"]
        /\ bound' = bound \union {g} /\ g \notin bound /\ g \notin foreign
    BY <1>3 DEF ListenGrpc, CallerGoto, Taken
  <2>2. TypeOK'
    BY <1>1, <1>2, <2>1 DEF TypeOK, Pcs, fixed, locked
  <2>3. OwnerInv'
    BY <1>1, <1>2, <2>1 DEF OwnerInv, locked
  <2>4. SocketInv'
    <3>1. \A d \in Callers : pc'[d] = "http" <=> pc[d] = "http" \/ d = c
      BY <1>2, <2>1
    <3>2. /\ \A s \in Sessions : g \notin Open(s)
          /\ \A d \in Callers : pc[d] = "http" => cfg[d].grpc # g
      BY <1>2, <2>1 DEF SocketInv
    <3>3. \A a \in Addrs : a \in bound' <=> \/ \E s \in Sessions : a \in Open(s)
                                            \/ \E d \in Callers : pc'[d] = "http" /\ a = cfg[d].grpc
      BY <2>1, <3>1 DEF SocketInv
    <3>4. \A d \in Callers : pc'[d] = "http" => \A s \in Sessions : cfg[d].grpc \notin Open(s)
      BY <3>1, <3>2 DEF SocketInv
    <3>5. \A d, e \in Callers :
            pc'[d] = "http" /\ pc'[e] = "http" /\ cfg[d].grpc = cfg[e].grpc => d = e
      BY <3>1, <3>2 DEF SocketInv
    <3>6. /\ UNCHANGED <<serving, at, starting, cfg>>
          /\ \A s \in Sessions : Open(s)' = Open(s)
      BY <1>1 DEF Open
    <3> QED
      BY <3>3, <3>4, <3>5, <3>6 DEF SocketInv, SocketsExclusive
  <2>5. StatusInv' /\ SerialInv'
    BY <1>1, <1>2, <2>1 DEF StatusInv, SerialInv, AllIdle, locked
  <2> QED
    BY <2>2, <2>3, <2>4, <2>5
<1>4. CASE g \in Taken
  <2>1. pc[c] = "grpc" /\ pc' = [pc EXCEPT ![c] = "failing"] /\ bound' = bound
    BY <1>4 DEF ListenGrpc, CallerGoto
  <2>2. TypeOK'
    BY <1>1, <1>2, <2>1 DEF TypeOK, Pcs, fixed, locked
  <2>3. OwnerInv'
    BY <1>1, <1>2, <2>1 DEF OwnerInv, locked
  <2>4. SocketInv'
    <3>1. \A d \in Callers : pc'[d] = "http" <=> pc[d] = "http"
      BY <1>2, <2>1
    <3>2. \A s \in Sessions : Open(s)' = Open(s)
      BY <1>1 DEF Open
    <3> QED
      BY <1>1, <2>1, <3>1, <3>2 DEF SocketInv, SocketsExclusive
  <2>5. StatusInv' /\ SerialInv'
    BY <1>1, <1>2, <2>1 DEF StatusInv, SerialInv, AllIdle, locked
  <2> QED
    BY <2>2, <2>3, <2>4, <2>5
<1> QED
  BY <1>3, <1>4

(* The HTTP listener is bound and the receiver starts. *)
LEMMA ListenHttpInv ==
  ASSUME TapInv, NEW c \in Callers, ListenHttp(c)
  PROVE  TapInv'
<1> USE DEF TapInv
<1> DEFINE g == cfg[c].grpc
           h == cfg[c].http
<1>1. UNCHANGED <<fixed, locked, cfg, pruning, stopped, overlapped>> /\ pc[c] = "http"
  BY DEF ListenHttp, CallerGoto
<1>2. /\ g \in Addrs /\ h \in Addrs /\ AddrsOf(cfg[c]) = {g, h}
      /\ pc \in [Callers -> Pcs] /\ recv \in [Callers -> Sessions \union {NoSession}]
      /\ at \in [Sessions -> SUBSET Addrs] /\ starting \in [Sessions -> SUBSET Addrs]
      /\ serving \subseteq Sessions
      /\ NoSession \notin Sessions
  BY NilAssumption DEF TypeOK, Config, AddrsOf
<1>3. CASE pc' = [pc EXCEPT ![c] = "commit"]
  <2>1. /\ h \notin bound /\ h \notin foreign /\ bound' = bound \union {h}
        /\ pc'[c] = "commit"
    BY <1>2, <1>3 DEF ListenHttp, CallerGoto, Taken
  <2>2. PICK s \in Sessions : /\ Free(s)
                              /\ recv' = [recv EXCEPT ![c] = s]
                              /\ at' = [at EXCEPT ![s] = AddrsOf(cfg[c])]
                              /\ starting' = [starting EXCEPT ![s] = AddrsOf(cfg[c])]
                              /\ serving' = serving \union {s}
    BY <1>2, <2>1 DEF ListenHttp, CallerGoto
  <2>3. /\ s \notin serving /\ s \notin pruning /\ session # s /\ starting[s] = {}
        /\ \A d \in Callers : recv[d] # s
    BY <2>2 DEF Free
  <2>4. /\ at'[s] = {g, h} /\ starting'[s] = {g, h}
        /\ \A t \in Sessions : t # s => at'[t] = at[t] /\ starting'[t] = starting[t]
    BY <1>2, <2>2
  <2>5. recv'[c] = s /\ \A d \in Callers : d # c => recv'[d] = recv[d] /\ pc'[d] = pc[d]
    BY <1>2, <1>3, <2>2
  <2>6. TypeOK'
    <3>1. bound' \subseteq Addrs \ foreign /\ serving' \subseteq Sessions
      BY <1>2, <2>1, <2>2 DEF TypeOK
    <3>2. recv' \in [Callers -> Sessions \union {NoSession}] /\ at' \in [Sessions -> SUBSET Addrs]
          /\ starting' \in [Sessions -> SUBSET Addrs]
      BY <1>2, <2>2
    <3>3. pc' \in [Callers -> Pcs]
      BY <1>2, <1>3 DEF Pcs
    <3> QED
      BY <1>1, <3>1, <3>2, <3>3 DEF TypeOK, fixed, locked
  <2>7. OwnerInv'
    <3>1. ASSUME NEW d \in Callers
          PROVE  IF pc'[d] = "commit"
                 THEN /\ recv'[d] \in serving' /\ recv'[d] # session
                      /\ at'[recv'[d]] = AddrsOf(cfg[d])
                 ELSE recv'[d] = NoSession
      <4>1. CASE d = c
        BY <1>2, <2>1, <2>2, <2>3, <2>4, <2>5, <4>1
      <4>2. CASE d # c
        BY <1>2, <2>2, <2>3, <2>4, <2>5, <4>2 DEF OwnerInv
      <4> QED
        BY <4>1, <4>2
    <3>2. \A d, e \in Callers : recv'[d] = recv'[e] /\ recv'[d] # NoSession => d = e
      BY <2>3, <2>5 DEF OwnerInv
    <3>3. session # NoSession => session \in serving'
      BY <2>2 DEF OwnerInv
    <3> QED
      BY <1>1, <3>1, <3>2, <3>3 DEF OwnerInv, locked
  <2>8. SocketInv'
    <3>1. \A d \in Callers : pc'[d] = "http" <=> pc[d] = "http" /\ d # c
      BY <2>1, <2>5
    <3>2. \A t \in Sessions : g \notin Open(t) /\ h \notin Open(t)
      BY <1>1, <1>2, <2>1 DEF SocketInv
    <3>3. \A d \in Callers : pc[d] = "http" /\ d # c => cfg[d].grpc \notin {g, h}
      BY <1>1, <1>2, <2>1 DEF SocketInv
    <3>4. /\ Open(s) = {} /\ Open(s)' = {g, h}
          /\ \A t \in Sessions : t # s => Open(t)' = Open(t)
      BY <2>2, <2>3, <2>4 DEF Open
    <3>5. ASSUME NEW a \in Addrs
          PROVE  a \in bound' <=> \/ \E t \in Sessions : a \in Open(t)'
                                  \/ \E d \in Callers : pc'[d] = "http" /\ a = cfg[d].grpc
      <4>1. a \in bound <=> \/ \E t \in Sessions : a \in Open(t)
                            \/ \E d \in Callers : pc[d] = "http" /\ a = cfg[d].grpc
        BY DEF SocketInv
      <4>2. (\E t \in Sessions : a \in Open(t)') <=> (a \in {g, h} \/ \E t \in Sessions : a \in Open(t))
        BY <3>4
      <4>3. (\E d \in Callers : pc[d] = "http" /\ a = cfg[d].grpc)
              <=> (a = g \/ \E d \in Callers : pc'[d] = "http" /\ a = cfg[d].grpc)
        BY <1>1, <3>1
      <4> QED
        BY <2>1, <4>1, <4>2, <4>3
    <3>6. /\ \A t, u \in Sessions : t # u => Open(t)' \intersect Open(u)' = {}
          /\ \A t \in Sessions : starting'[t] \subseteq at'[t]
          /\ \A d \in Callers : pc'[d] = "http" => \A t \in Sessions : cfg[d].grpc \notin Open(t)'
      BY <2>4, <3>1, <3>2, <3>3, <3>4 DEF SocketInv, SocketsExclusive
    <3>7. \A d, e \in Callers :
            pc'[d] = "http" /\ pc'[e] = "http" /\ cfg[d].grpc = cfg[e].grpc => d = e
      BY <3>1 DEF SocketInv
    <3> QED
      BY <1>1, <3>5, <3>6, <3>7 DEF SocketInv, SocketsExclusive
  <2>9. StatusInv'
    <3>1. session # NoSession => at'[session] = at[session]
      BY <1>2, <2>3, <2>4 DEF OwnerInv
    <3>2. ~AllIdle'
      BY <2>1 DEF AllIdle
    <3> QED
      BY <1>1, <3>1, <3>2 DEF StatusInv, locked
  <2>10. SerialInv'
    <3> SUFFICES ASSUME ~overlapped' PROVE SerialInv'
      BY DEF SerialInv
    <3>1. ~overlapped /\ ~AllIdle
      BY <1>1 DEF AllIdle
    <3>2. \A d, e \in Callers : pc'[d] # "idle" /\ pc'[e] # "idle" => d = e
      BY <1>1, <2>5, <3>1 DEF SerialInv
    <3>3. session = NoSession
      BY <3>1 DEF SerialInv
    <3>4. \A t \in serving' : \E d \in Callers : recv'[d] = t
      <4>1. \A t \in serving : \E d \in Callers : d # c /\ recv[d] = t
        BY <1>1, <1>2, <3>1, <3>3 DEF SerialInv, OwnerInv
      <4> QED
        BY <2>2, <2>5, <4>1
    <3>5. \A t \in pruning : t \in stopped
      BY <1>2, <3>1, <3>3 DEF SerialInv, TypeOK
    <3> QED
      BY <1>1, <3>2, <3>3, <3>4, <3>5 DEF SerialInv, locked
  <2> QED
    BY <2>6, <2>7, <2>8, <2>9, <2>10
<1>4. CASE pc' = [pc EXCEPT ![c] = "failing"]
  <2>1. /\ bound' = bound \ {g} /\ UNCHANGED <<recv, serving, at, starting>> /\ pc'[c] = "failing"
        /\ \A d \in Callers : d # c => pc'[d] = pc[d]
    BY <1>2, <1>4 DEF ListenHttp, CallerGoto
  <2>2. TypeOK'
    BY <1>1, <1>2, <1>4, <2>1 DEF TypeOK, Pcs, fixed, locked
  <2>3. OwnerInv'
    BY <1>1, <2>1 DEF OwnerInv, locked
  <2>4. SocketInv'
    <3>1. \A d \in Callers : pc'[d] = "http" <=> pc[d] = "http" /\ d # c
      BY <2>1
    <3>2. /\ \A t \in Sessions : g \notin Open(t) /\ Open(t)' = Open(t)
          /\ \A d \in Callers : pc[d] = "http" /\ cfg[d].grpc = g => d = c
      BY <1>1, <2>1 DEF SocketInv, Open
    <3>3. \A a \in Addrs : a \in bound' <=> \/ \E t \in Sessions : a \in Open(t)
                                            \/ \E d \in Callers : pc'[d] = "http" /\ a = cfg[d].grpc
      BY <1>1, <2>1, <3>1, <3>2 DEF SocketInv
    <3> QED
      BY <1>1, <2>1, <3>1, <3>2, <3>3 DEF SocketInv, SocketsExclusive
  <2>5. StatusInv' /\ SerialInv'
    BY <1>1, <2>1 DEF StatusInv, SerialInv, AllIdle, locked
  <2> QED
    BY <2>2, <2>3, <2>4, <2>5
<1> QED
  BY <1>3, <1>4 DEF ListenHttp, CallerGoto

LEMMA StartFailsInv ==
  ASSUME TapInv, NEW c \in Callers, StartFails(c)
  PROVE  TapInv'
<1> USE DEF TapInv
<1>1. /\ pc[c] = "failing" /\ pc' = [pc EXCEPT ![c] = "idle"]
      /\ status' = "error" /\ lastErr' = TRUE
      /\ UNCHANGED <<fixed, session, shown, cfg, recv, sockets, pruning, stopped, overlapped>>
  BY DEF StartFails, CallerGoto
<1>2. pc \in [Callers -> Pcs]
  BY DEF TypeOK
<1>3. pc'[c] = "idle" /\ \A d \in Callers : d # c => pc'[d] = pc[d]
  BY <1>1, <1>2
<1>4. TypeOK'
  BY <1>1, <1>2 DEF TypeOK, Pcs, Statuses, fixed, sockets
<1>5. OwnerInv'
  BY <1>1, <1>3 DEF OwnerInv, sockets
<1>6. SocketInv'
  <2>1. \A d \in Callers : pc'[d] = "http" <=> pc[d] = "http"
    BY <1>1, <1>3
  <2> QED
    BY <1>1, <2>1 DEF SocketInv, SocketsExclusive, Open, sockets
<1>7. StatusInv' /\ SerialInv'
  BY <1>1, <1>3 DEF StatusInv, SerialInv, AllIdle, sockets
<1> QED
  BY <1>4, <1>5, <1>6, <1>7

(* The second critical section installs what its call has built. *)
LEMMA StartCommitInv ==
  ASSUME TapInv, NEW c \in Callers, StartCommit(c)
  PROVE  TapInv'
<1> USE DEF TapInv
<1> DEFINE s == recv[c]
<1>1. /\ pc[c] = "commit" /\ pc' = [pc EXCEPT ![c] = "idle"]
      /\ session' = s /\ status' = "listening" /\ lastErr' = FALSE
      /\ shown' = at[s]
      /\ pruning' = pruning \union {s}
      /\ stopped' = stopped \ {s}
      /\ recv' = [recv EXCEPT ![c] = NoSession]
      /\ UNCHANGED <<fixed, cfg, bound, serving, at, starting, overlapped>>
  BY DEF StartCommit, CallerGoto, sockets
<1>2. /\ pc \in [Callers -> Pcs] /\ recv \in [Callers -> Sessions \union {NoSession}]
      /\ serving \subseteq Sessions /\ NoSession \notin Sessions
  BY NilAssumption DEF TypeOK
<1>3. /\ pc'[c] = "idle" /\ recv'[c] = NoSession
      /\ \A d \in Callers : d # c => pc'[d] = pc[d] /\ recv'[d] = recv[d]
  BY <1>1, <1>2
<1>4. s \in serving /\ s \in Sessions /\ s # session /\ at[s] \subseteq Addrs
  BY <1>1, <1>2 DEF OwnerInv, TypeOK
<1>5. \A d \in Callers : d # c => recv[d] # s
  BY <1>2, <1>4 DEF OwnerInv
<1>6. TypeOK'
  <2>1. pc' \in [Callers -> Pcs] /\ recv' \in [Callers -> Sessions \union {NoSession}]
    BY <1>1, <1>2 DEF Pcs
  <2> HIDE DEF s
  <2> QED
    BY <1>1, <1>4, <2>1 DEF TypeOK, Statuses, fixed
<1> HIDE DEF s
<1>7. OwnerInv'
  <2>1. ASSUME NEW d \in Callers
        PROVE  IF pc'[d] = "commit"
               THEN /\ recv'[d] \in serving /\ recv'[d] # s
                    /\ at[recv'[d]] = AddrsOf(cfg[d])
               ELSE recv'[d] = NoSession
    BY <1>3, <1>5 DEF OwnerInv
  <2>2. \A d, e \in Callers : recv'[d] = recv'[e] /\ recv'[d] # NoSession => d = e
    BY <1>3 DEF OwnerInv
  <2>3. session' = s /\ serving' = serving /\ at' = at /\ cfg' = cfg
    BY <1>1
  <2> QED
    BY <1>4, <2>1, <2>2, <2>3 DEF OwnerInv
<1>8. SocketInv'
  <2>1. \A d \in Callers : pc'[d] = "http" <=> pc[d] = "http"
    BY <1>1, <1>3
  <2> QED
    BY <1>1, <2>1 DEF SocketInv, SocketsExclusive, Open, sockets
<1>9. StatusInv'
  BY <1>1, <1>2, <1>4 DEF StatusInv
<1>10. SerialInv'
  <2> SUFFICES ASSUME ~overlapped' PROVE SerialInv'
    BY DEF SerialInv
  <2>1. ~overlapped /\ pc[c] # "idle"
    BY <1>1
  <2>2. session = NoSession
    BY <2>1 DEF SerialInv, AllIdle
  <2>3. \A d \in Callers : pc'[d] = "idle"
    BY <1>3, <2>1 DEF SerialInv
  <2>4. \A t \in serving : t = s
    <3>1. \A d \in Callers : d # c => recv[d] = NoSession
      BY <1>3, <2>3 DEF OwnerInv
    <3> QED
      BY <1>2, <2>1, <2>2, <3>1 DEF SerialInv, s
  <2>5. \A t \in pruning : t \in stopped
    BY <1>2, <2>1, <2>2 DEF SerialInv, TypeOK
  <2> QED
    BY <1>1, <2>3, <2>4, <2>5 DEF SerialInv, AllIdle
<1> QED
  BY <1>6, <1>7, <1>8, <1>9, <1>10

(* A goroutine calls Serve: the listener stays open if its receiver serves, *)
(* and is closed, nobody else having its address, if it has been stopped.   *)
LEMMA ServeBeginsInv ==
  ASSUME TapInv, NEW s \in Sessions, ServeBegins(s)
  PROVE  TapInv'
<1> USE DEF TapInv
<1>1. PICK a \in starting[s] :
        /\ starting' = [starting EXCEPT ![s] = starting[s] \ {a}]
        /\ bound' = IF s \in serving THEN bound ELSE bound \ {a}
        /\ UNCHANGED <<fixed, locked, callerVars, serving, at, pruning, stopped, overlapped>>
  BY DEF ServeBegins
<1>2. UNCHANGED <<disabled, foreign, status, lastErr, session, shown, pc, cfg, recv>>
  BY <1>1 DEF fixed, locked, callerVars
<1>3. TypeOK'
  BY <1>1, <1>2 DEF TypeOK
<1>4. /\ starting'[s] = starting[s] \ {a}
      /\ \A t \in Sessions : t # s => starting'[t] = starting[t] /\ Open(t)' = Open(t)
      /\ Open(s)' = IF s \in serving THEN Open(s) ELSE Open(s) \ {a}
      /\ s \notin serving => a \in Open(s)
  BY <1>1 DEF TypeOK, Open
<1>5. SocketInv'
  <2>1. ASSUME NEW b \in Addrs
        PROVE  b \in bound' <=> \/ \E t \in Sessions : b \in Open(t)'
                                \/ \E c \in Callers : pc[c] = "http" /\ b = cfg[c].grpc
    <3>1. b \in bound <=> \/ \E t \in Sessions : b \in Open(t)
                          \/ \E c \in Callers : pc[c] = "http" /\ b = cfg[c].grpc
      BY DEF SocketInv
    <3>2. CASE s \in serving
      BY <1>1, <1>4, <3>1, <3>2
    <3>3. CASE s \notin serving
      <4>1. /\ \A t \in Sessions : t # s => a \notin Open(t)
            /\ \A c \in Callers : pc[c] = "http" => cfg[c].grpc # a
        BY <1>4, <3>3 DEF SocketInv, SocketsExclusive
      <4> QED
        BY <1>1, <1>4, <3>1, <3>3, <4>1
    <3> QED
      BY <3>2, <3>3
  <2>2. \A t \in Sessions : Open(t)' \subseteq Open(t) /\ starting'[t] \subseteq at[t]
    BY <1>4 DEF SocketInv
  <2> QED
    BY <1>1, <1>2, <2>1, <2>2 DEF SocketInv, SocketsExclusive
<1>6. OwnerInv' /\ StatusInv' /\ SerialInv'
  BY <1>1, <1>2 DEF OwnerInv, StatusInv, SerialInv, AllIdle
<1> QED
  BY <1>3, <1>5, <1>6

LEMMA PruneLoopEndsInv ==
  ASSUME TapInv, NEW s \in Sessions, PruneLoopEnds(s)
  PROVE  TapInv'
BY DEF PruneLoopEnds, TapInv, TypeOK, OwnerInv, SocketInv, SocketsExclusive, Open,
   StatusInv, SerialInv, AllIdle, fixed, locked, callerVars, sockets

LEMMA TapInvInductive == TapInv /\ [Next]_vars => TapInv'
<1> SUFFICES ASSUME TapInv, [Next]_vars PROVE TapInv'
  OBVIOUS
<1>1. CASE \E c \in Callers : StartBegin(c) \/ StartStep(c) \/ Stop(c)
  BY <1>1, StartBeginInv, ListenGrpcInv, ListenHttpInv, StartFailsInv, StartCommitInv,
     StopInv DEF StartStep
<1>2. CASE \E s \in Sessions : ServeBegins(s) \/ PruneLoopEnds(s)
  BY <1>2, ServeBeginsInv, PruneLoopEndsInv
<1>3. CASE UNCHANGED vars
  BY <1>3 DEF vars, TapInv, TypeOK, OwnerInv, SocketInv, SocketsExclusive, Open,
     StatusInv, SerialInv, AllIdle, fixed, locked, callerVars, sockets
<1> QED
  BY <1>1, <1>2, <1>3 DEF Next

THEOREM TapInvariant == Spec => []TapInv
BY TapInit, TapInvInductive, PTL DEF Spec
-----------------------------------------------------------------------------
(* No socket is lost, not by a Start that fails half way nor by calls that *)
(* overlap or a Stop that comes before the servers run, and none is        *)
(* claimed twice (receiver.go:75-121).                                     *)
THEOREM SoundSockets == Spec => []SocketsAreSound
<1>1. TapInv => SocketsAreSound
  <2> SUFFICES ASSUME TapInv PROVE SocketsAccounted
    BY DEF TapInv, SocketInv, SocketsAreSound
  <2>1. ASSUME NEW a \in bound
        PROVE  \/ \E s \in Sessions : a \in Open(s)
               \/ \E c \in Callers : a \in HeldAddrs(c)
    <3>1. a \in Addrs
      BY DEF TapInv, TypeOK
    <3> QED
      BY <3>1 DEF TapInv, SocketInv, HeldAddrs
  <2>2. ASSUME NEW s \in Sessions, NEW a \in Open(s) PROVE a \in bound
    BY DEF TapInv, TypeOK, SocketInv, Open
  <2>3. ASSUME NEW c \in Callers, NEW a \in HeldAddrs(c) PROVE a \in bound
    <3>1. CASE pc[c] = "http"
      BY <3>1 DEF TapInv, TypeOK, Config, SocketInv, HeldAddrs
    <3>2. CASE pc[c] = "commit"
      <4>1. recv[c] \in Sessions /\ a \in Open(recv[c])
        BY <3>2 DEF TapInv, TypeOK, OwnerInv, HeldAddrs, Open
      <4> QED
        BY <2>2, <4>1
    <3>3. CASE pc[c] \notin {"http", "commit"}
      BY <3>3 DEF HeldAddrs
    <3> QED
      BY <3>1, <3>2, <3>3
  <2> QED
    BY <2>1, <2>2, <2>3 DEF SocketsAccounted
<1> QED
  BY <1>1, TapInvariant, PTL

(* Between calls "listening" is true and so are the addresses shown,       *)
(* however the calls overlapped (manager.go:74-103).                       *)
THEOREM ListeningServed == Spec => []ListeningIsServed
<1>1. TapInv => ListeningIsServed
  BY DEF TapInv, OwnerInv, StatusInv, ListeningIsServed
<1> QED
  BY <1>1, TapInvariant, PTL

(* Calls that do not overlap keep one session at a time (manager.go:57-117, *)
(* 178-193).                                                                *)
THEOREM OneSession == Spec => []OneSessionAtATime
<1>1. TapInv => OneSessionAtATime
  <2> SUFFICES ASSUME TapInv, ~overlapped PROVE OneSessionAtATime
    BY DEF OneSessionAtATime, OneReceiver, ServedIsListening, LoopsAreStoppable
  <2>1. \A s \in serving : s # NoSession
    BY NilAssumption DEF TapInv, TypeOK
  <2>2. \A c \in Callers : recv[c] # NoSession => pc[c] # "idle"
    BY DEF TapInv, OwnerInv
  <2>3. OneReceiver
    BY <2>1, <2>2 DEF TapInv, SerialInv, AllIdle, OneReceiver
  <2>4. ServedIsListening
    BY <2>1, <2>2 DEF TapInv, SerialInv, AllIdle, ServedIsListening
  <2>5. LoopsAreStoppable
    BY DEF TapInv, SerialInv, LoopsAreStoppable
  <2> QED
    BY <2>3, <2>4, <2>5 DEF OneSessionAtATime
<1> QED
  BY <1>1, TapInvariant, PTL
=============================================================================
