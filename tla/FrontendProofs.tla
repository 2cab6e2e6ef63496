--------------------------- MODULE FrontendProofs ---------------------------
(***************************************************************************)
(* That the page shows what it may, for any number of fetches in flight,   *)
(* calls of analyze, sessions and editors.                                 *)
(*                                                                         *)
(* FrozenOnlyByLatePoll is not inductive: that a page which waits for      *)
(* nothing shows no connection follows from what a page that does not poll *)
(* waits for (WaitingInv).  It is connecting only if it awaits a connect,  *)
(* and connected, or with a snapshot, only if it awaits a disconnect.      *)
(***************************************************************************)
EXTENDS MCFrontend, TLAPS

Slots == 1 .. MaxFetches
Slotted == [Slots -> Fetches \union {NoFetch}]

Awaits(fs, kind) ==
  \E s \in Slots : fs[s] # NoFetch /\ fs[s].awaited /\ fs[s].kind = kind

WaitingInv ==
  ~polling /\ ~late =>
    /\ status = "connecting" => Awaits(fetches, "connect")
    /\ status = "connected" \/ snapshot # NoSnapshot => Awaits(fetches, "disconnect")

HookInv == HookTypeOK /\ WaitingInv

-----------------------------------------------------------------------------
LEMMA SentFacts ==
  ASSUME NEW kind \in Kinds
  PROVE  /\ Sent(kind) \in Fetches /\ Sent(kind) # NoFetch
         /\ Sent(kind).kind = kind /\ Sent(kind).awaited
<1>1. Unconnected \in Managed
  BY DEF Unconnected, Managed, Statuses
<1>2. Sent(kind) \in Fetches
  BY <1>1 DEF Sent, Fetches, Results
<1> QED
  BY <1>2, NoneAssumption DEF Sent

LEMMA FetchFacts ==
  ASSUME NEW f \in Fetches
  PROVE  /\ f # NoFetch /\ f.kind \in Kinds /\ f.result \in Results
         /\ f.told \in Managed /\ f.awaited \in BOOLEAN
         /\ f.told.status \in Statuses /\ f.told.data \in BOOLEAN
<1>1. /\ f.kind \in Kinds /\ f.result \in Results
      /\ f.told \in Managed /\ f.awaited \in BOOLEAN
  BY DEF Fetches
<1>2. \A m \in Managed : m.status \in Statuses /\ m.data \in BOOLEAN
  BY DEF Managed
<1> QED
  BY <1>1, <1>2, NoneAssumption

(* A slot is given to another fetch or to none; whatever else is awaited   *)
(* stays awaited.                                                          *)
LEMMA SlotReplaced ==
  ASSUME NEW fs \in Slotted, NEW s \in Slots, NEW x \in Fetches \union {NoFetch}
  PROVE  LET new == [fs EXCEPT ![s] = x]
         IN  /\ new \in Slotted
             /\ \A k : x # NoFetch /\ x.awaited /\ x.kind = k => Awaits(new, k)
             /\ \A k : /\ Awaits(fs, k)
                       /\ fs[s] = NoFetch \/ fs[s].kind # k \/ ~fs[s].awaited
                      => Awaits(new, k)
<1> DEFINE new == [fs EXCEPT ![s] = x]
<1>1. new \in Slotted
  BY DEF Slotted
<1>2. new[s] = x /\ \A t \in Slots : t # s => new[t] = fs[t]
  BY DEF Slotted
<1> HIDE DEF new
<1>3. \A k : x # NoFetch /\ x.awaited /\ x.kind = k => Awaits(new, k)
  BY <1>2 DEF Awaits
<1>4. ASSUME NEW k, Awaits(fs, k), fs[s] = NoFetch \/ fs[s].kind # k \/ ~fs[s].awaited
      PROVE  Awaits(new, k)
  <2>1. PICK t \in Slots : fs[t] # NoFetch /\ fs[t].awaited /\ fs[t].kind = k
    BY <1>4 DEF Awaits
  <2>2. new[t] = fs[t]
    BY <1>2, <1>4, <2>1
  <2> QED
    BY <2>1, <2>2 DEF Awaits
<1> QED
  BY <1>1, <1>3, <1>4 DEF new

(* A new fetch is awaited beside those that were. *)
LEMMA FetchAwaited ==
  ASSUME HookTypeOK, NEW kind \in Kinds, Fetch(kind)
  PROVE  /\ fetches' \in Slotted /\ Awaits(fetches', kind)
         /\ \A k : Awaits(fetches, k) => Awaits(fetches', k)
<1>1. PICK s \in Slots : fetches[s] = NoFetch /\ fetches' = [fetches EXCEPT ![s] = Sent(kind)]
  BY DEF Fetch, Free, Slots
<1>2. fetches \in Slotted
  BY DEF HookTypeOK, Slotted, Slots
<1> DEFINE x == Sent(kind)
<1>3. x \in Fetches \union {NoFetch} /\ x # NoFetch /\ x.awaited /\ x.kind = kind
  BY SentFacts
<1> HIDE DEF x
<1>4. LET new == [fetches EXCEPT ![s] = x]
      IN  /\ new \in Slotted
          /\ \A k : x # NoFetch /\ x.awaited /\ x.kind = k => Awaits(new, k)
          /\ \A k : /\ Awaits(fetches, k)
                    /\ fetches[s] = NoFetch \/ fetches[s].kind # k \/ ~fetches[s].awaited
                   => Awaits(new, k)
  BY <1>2, <1>3, SlotReplaced
<1> QED
  BY <1>1, <1>3, <1>4 DEF x

(* So is the next fetch of a continuation, in the slot of the one that was *)
(* answered; it and the end of a fetch disturb no fetch of another kind.   *)
LEMMA ThenAwaited ==
  ASSUME HookTypeOK, NEW kind \in Kinds, NEW s \in Slots, ~Free(s), Then(s, kind)
  PROVE  /\ fetches' \in Slotted /\ Awaits(fetches', kind)
         /\ \A k : Awaits(fetches, k) /\ fetches[s].kind # k => Awaits(fetches', k)
<1>1. fetches \in Slotted /\ fetches' = [fetches EXCEPT ![s] = Sent(kind)]
  BY DEF HookTypeOK, Slotted, Slots, Then
<1> DEFINE x == Sent(kind)
<1>2. x \in Fetches \union {NoFetch} /\ x # NoFetch /\ x.awaited /\ x.kind = kind
  BY SentFacts
<1> HIDE DEF x
<1>3. LET new == [fetches EXCEPT ![s] = x]
      IN  /\ new \in Slotted
          /\ \A k : x # NoFetch /\ x.awaited /\ x.kind = k => Awaits(new, k)
          /\ \A k : /\ Awaits(fetches, k)
                    /\ fetches[s] = NoFetch \/ fetches[s].kind # k \/ ~fetches[s].awaited
                   => Awaits(new, k)
  BY <1>1, <1>2, SlotReplaced
<1> QED
  BY <1>1, <1>2, <1>3 DEF x

LEMMA OverAwaited ==
  ASSUME HookTypeOK, NEW s \in Slots, ~Free(s), Over(s)
  PROVE  /\ fetches' \in Slotted
         /\ \A k : Awaits(fetches, k) /\ (fetches[s].kind # k \/ ~fetches[s].awaited)
                  => Awaits(fetches', k)
<1> DEFINE x == Abandoned(fetches[s])
<1>1. fetches \in Slotted /\ fetches' = [fetches EXCEPT ![s] = x]
  BY DEF HookTypeOK, Slotted, Slots, Over
<1>2. x \in Fetches \union {NoFetch}
  <2>1. fetches[s] \in Fetches
    BY <1>1 DEF Slotted, Free
  <2>2. \A f \in Fetches : [f EXCEPT !.result = "testing", !.awaited = FALSE] \in Fetches
    BY DEF Fetches, Results
  <2> QED
    BY <2>1, <2>2 DEF Abandoned
<1> HIDE DEF x
<1>3. LET new == [fetches EXCEPT ![s] = x]
      IN  /\ new \in Slotted
          /\ \A k : x # NoFetch /\ x.awaited /\ x.kind = k => Awaits(new, k)
          /\ \A k : /\ Awaits(fetches, k)
                    /\ fetches[s] = NoFetch \/ fetches[s].kind # k \/ ~fetches[s].awaited
                   => Awaits(new, k)
  BY <1>1, <1>2, SlotReplaced
<1> QED
  BY <1>1, <1>3

(* An answer, or the lack of one, leaves a fetch what it is. *)
LEMMA AnswerAwaited ==
  ASSUME HookTypeOK, NEW s \in Slots, ~Free(s), NEW r \in Results, NEW m \in Managed,
         \/ fetches' = [fetches EXCEPT ![s] = [@ EXCEPT !.result = r]]
         \/ fetches' = [fetches EXCEPT ![s] = [@ EXCEPT !.result = r, !.told = m]]
  PROVE  /\ fetches' \in Slotted
         /\ \A k : Awaits(fetches, k) => Awaits(fetches', k)
<1> DEFINE f == fetches[s]
<1>1. /\ fetches \in Slotted
      /\ f \in Fetches /\ f # NoFetch
  BY DEF HookTypeOK, Slotted, Slots, Free
<1>2. PICK x \in Fetches : /\ fetches' = [fetches EXCEPT ![s] = x]
                          /\ x.kind = f.kind /\ x.awaited = f.awaited
  <2>1. \A g \in Fetches :
          /\ [g EXCEPT !.result = r] \in Fetches
          /\ [g EXCEPT !.result = r].kind = g.kind
          /\ [g EXCEPT !.result = r].awaited = g.awaited
    BY DEF Fetches
  <2>2. \A g \in Fetches :
          /\ [g EXCEPT !.result = r, !.told = m] \in Fetches
          /\ [g EXCEPT !.result = r, !.told = m].kind = g.kind
          /\ [g EXCEPT !.result = r, !.told = m].awaited = g.awaited
    BY DEF Fetches
  <2> QED
    BY <1>1, <2>1, <2>2
<1>3. x # NoFetch /\ x \in Fetches \union {NoFetch}
  BY NoneAssumption
<1>4. LET new == [fetches EXCEPT ![s] = x]
      IN  /\ new \in Slotted
          /\ \A k : x # NoFetch /\ x.awaited /\ x.kind = k => Awaits(new, k)
          /\ \A k : /\ Awaits(fetches, k)
                    /\ fetches[s] = NoFetch \/ fetches[s].kind # k \/ ~fetches[s].awaited
                   => Awaits(new, k)
  BY <1>1, <1>3, SlotReplaced
<1> QED
  BY <1>1, <1>2, <1>3, <1>4
-----------------------------------------------------------------------------
LEMMA InitHook == HookInit => HookInv
<1> SUFFICES ASSUME HookInit PROVE HookInv
  OBVIOUS
<1>1. HookTypeOK
  BY DEF HookInit, HookTypeOK, Statuses, Unconnected, Managed
<1>2. WaitingInv
  BY DEF HookInit, WaitingInv
<1> QED
  BY <1>1, <1>2 DEF HookInv

(* Clicks, polls and the effect of a new page. *)
LEMMA PageKeepsInv ==
  ASSUME HookInv, Connect \/ Disconnect \/ ResetStore \/ Poll \/ Reload \/ ManagerChanges
  PROVE  HookInv'
<1>0. HookTypeOK /\ WaitingInv
  BY DEF HookInv
<1>1. /\ status \in Statuses /\ snapshot \in BOOLEAN \union {NoSnapshot}
      /\ polling \in BOOLEAN /\ remembered \in BOOLEAN /\ late \in BOOLEAN
      /\ mgr \in Managed /\ fetches \in Slotted
  BY <1>0 DEF HookTypeOK, Slotted, Slots
<1>2. CASE Connect
  <2>1. /\ status' = "connecting" /\ Fetch("connect")
        /\ UNCHANGED <<snapshot, polling, remembered, mgr, late>>
    BY <1>2 DEF Connect
  <2>2. /\ fetches' \in Slotted /\ Awaits(fetches', "connect")
        /\ \A k : Awaits(fetches, k) => Awaits(fetches', k)
    BY <1>0, <2>1, FetchAwaited DEF Kinds
  <2>3. HookTypeOK'
    BY <1>1, <2>1, <2>2 DEF HookTypeOK, Slotted, Slots, Statuses
  <2>4. WaitingInv'
    BY <1>0, <2>1, <2>2 DEF WaitingInv
  <2> QED
    BY <2>3, <2>4 DEF HookInv
<1>3. CASE Disconnect
  <2>1. /\ polling' = FALSE /\ Fetch("disconnect")
        /\ status = "connected"
        /\ UNCHANGED <<status, snapshot, remembered, mgr, late>>
    BY <1>3 DEF Disconnect
  <2>2. fetches' \in Slotted /\ Awaits(fetches', "disconnect")
    BY <1>0, <2>1, FetchAwaited DEF Kinds
  <2>3. HookTypeOK'
    BY <1>1, <2>1, <2>2 DEF HookTypeOK, Slotted, Slots
  <2>4. WaitingInv'
    BY <2>1, <2>2 DEF WaitingInv
  <2> QED
    BY <2>3, <2>4 DEF HookInv
<1>4. CASE ResetStore \/ Poll
  <2>1. /\ Fetch("reset") \/ Fetch("poll")
        /\ UNCHANGED <<status, snapshot, polling, remembered, mgr, late>>
    BY <1>4 DEF ResetStore, Poll, page
  <2>2. fetches' \in Slotted /\ \A k : Awaits(fetches, k) => Awaits(fetches', k)
    BY <1>0, <2>1, FetchAwaited DEF Kinds
  <2>3. HookTypeOK'
    BY <1>1, <2>1, <2>2 DEF HookTypeOK, Slotted, Slots
  <2>4. WaitingInv'
    BY <1>0, <2>1, <2>2 DEF WaitingInv
  <2> QED
    BY <2>3, <2>4 DEF HookInv
<1>5. CASE Reload
  <2> DEFINE forgotten == [s \in Slots |->
                             IF Free(s) THEN NoFetch ELSE [fetches[s] EXCEPT !.awaited = FALSE]]
  <2>1. /\ status' = "disconnected" /\ snapshot' = NoSnapshot /\ polling' = FALSE
        /\ UNCHANGED <<remembered, mgr>> /\ late' = FALSE
        /\ \/ fetches' = forgotten
           \/ \E s \in Slots : fetches' = [forgotten EXCEPT ![s] = Sent("restore")]
    BY <1>5 DEF Reload, Slots
  <2>2. forgotten \in Slotted
    <3>1. \A g \in Fetches : [g EXCEPT !.awaited = FALSE] \in Fetches
      BY DEF Fetches
    <3>2. \A s \in Slots : fetches[s] \in Fetches \/ Free(s)
      BY <1>1 DEF Slotted, Free
    <3> QED
      BY <3>1, <3>2 DEF Slotted
  <2>3. fetches' \in Slotted
    <3>1. Sent("restore") \in Fetches
      BY SentFacts DEF Kinds
    <3> HIDE DEF forgotten
    <3> QED
      BY <2>1, <2>2, <3>1 DEF Slotted
  <2>4. HookTypeOK'
    BY <1>1, <2>1, <2>3 DEF HookTypeOK, Slotted, Slots, Statuses
  <2>5. WaitingInv'
    BY <2>1 DEF WaitingInv
  <2> QED
    BY <2>4, <2>5 DEF HookInv
<1>6. CASE ManagerChanges
  <2>1. mgr' \in Managed /\ UNCHANGED <<status, snapshot, polling, remembered, fetches, late>>
    BY <1>6 DEF ManagerChanges, page
  <2>2. HookTypeOK'
    BY <1>1, <2>1 DEF HookTypeOK, Slotted, Slots
  <2>3. WaitingInv'
    BY <1>0, <2>1 DEF WaitingInv
  <2> QED
    BY <2>2, <2>3 DEF HookInv
<1> QED
  BY <1>2, <1>3, <1>4, <1>5, <1>6

(* What the server does, or a fetch that fails. *)
LEMMA ServerKeepsInv ==
  ASSUME HookInv, NEW s \in Slots, Handle(s) \/ FetchFails(s)
  PROVE  HookInv'
<1>0. HookTypeOK /\ WaitingInv
  BY DEF HookInv
<1>1. /\ status \in Statuses /\ snapshot \in BOOLEAN \union {NoSnapshot}
      /\ polling \in BOOLEAN /\ remembered \in BOOLEAN /\ late \in BOOLEAN
      /\ mgr \in Managed /\ fetches \in Slotted
  BY <1>0 DEF HookTypeOK, Slotted, Slots
<1>2. /\ ~Free(s)
      /\ \E r \in Results :
           \/ fetches' = [fetches EXCEPT ![s] = [@ EXCEPT !.result = r]]
           \/ fetches' = [fetches EXCEPT ![s] = [@ EXCEPT !.result = r, !.told = mgr]]
      /\ UNCHANGED <<status, snapshot, polling, remembered, late>>
  <2>1. {"testing", "lost", "done", "failed"} \subseteq Results
    BY DEF Results
  <2> QED
    BY <2>1 DEF Handle, ConnectBegins, ConnectEnds, HandleDisconnect, HandleReset, HandleSnapshot,
         FetchFails, Pending, Answer, page
<1>3. mgr' \in Managed
  <2>1. \A m \in Managed : [m EXCEPT !.status = "error"] \in Managed
                           /\ [m EXCEPT !.data = FALSE] \in Managed
    BY DEF Managed, Statuses
  <2>2. /\ [status |-> "connected", data |-> TRUE] \in Managed
        /\ [status |-> "connecting", data |-> FALSE] \in Managed /\ Unconnected \in Managed
    BY DEF Managed, Statuses, Unconnected
  <2> QED
    BY <1>1, <2>1, <2>2 DEF Handle, ConnectBegins, ConnectEnds, HandleDisconnect,
         HandleReset, HandleSnapshot, FetchFails
<1>4. fetches' \in Slotted /\ \A k : Awaits(fetches, k) => Awaits(fetches', k)
  BY <1>0, <1>1, <1>2, AnswerAwaited
<1>5. HookTypeOK'
  BY <1>1, <1>2, <1>3, <1>4 DEF HookTypeOK, Slotted, Slots
<1>6. WaitingInv'
  BY <1>0, <1>2, <1>4 DEF WaitingInv
<1> QED
  BY <1>5, <1>6 DEF HookInv

(* What the page does with an answer. *)
LEMMA ReceiveKeepsInv ==
  ASSUME HookInv, NEW s \in Slots, Receive(s)
  PROVE  HookInv'
<1>0. HookTypeOK /\ WaitingInv
  BY DEF HookInv
<1>1. /\ status \in Statuses /\ snapshot \in BOOLEAN \union {NoSnapshot}
      /\ polling \in BOOLEAN /\ remembered \in BOOLEAN /\ late \in BOOLEAN
      /\ mgr \in Managed /\ fetches \in Slotted
  BY <1>0 DEF HookTypeOK, Slotted, Slots
<1>2. ~Free(s)
  BY DEF Receive, Connected, ConnectFailed, Disconnected, WasReset, Polled, PollFailed,
         Restored, Reconnects, Forgotten, Answered
<1>3. /\ fetches[s].told.status \in Statuses /\ fetches[s].told.data \in BOOLEAN
  BY <1>1, <1>2, FetchFacts DEF Slotted, Free
<1>4. ASSUME NEW kind \in Kinds, Then(s, kind)
      PROVE  /\ fetches' \in Slotted /\ Awaits(fetches', kind)
             /\ \A k : Awaits(fetches, k) /\ fetches[s].kind # k => Awaits(fetches', k)
  BY <1>0, <1>2, <1>4, ThenAwaited
<1>5. ASSUME Over(s)
      PROVE  /\ fetches' \in Slotted
             /\ \A k : Awaits(fetches, k) /\ (fetches[s].kind # k \/ ~fetches[s].awaited)
                      => Awaits(fetches', k)
  BY <1>0, <1>2, <1>5, OverAwaited
<1>6. CASE Connected(s) \/ Restored(s)
  <2>1. /\ polling' = TRUE /\ status' = "connected" /\ Then(s, "poll")
        /\ snapshot' \in {snapshot, fetches[s].told.data}
        /\ remembered' \in {remembered, TRUE} /\ UNCHANGED <<mgr, late>>
    BY <1>6 DEF Connected, Restored, StartPolling
  <2>2. fetches' \in Slotted
    BY <1>4, <2>1 DEF Kinds
  <2>3. HookTypeOK'
    BY <1>1, <1>3, <2>1, <2>2 DEF HookTypeOK, Slotted, Slots, Statuses
  <2>4. WaitingInv'
    BY <2>1 DEF WaitingInv
  <2> QED
    BY <2>3, <2>4 DEF HookInv
<1>7. CASE ConnectFailed(s)
  <2>1. /\ fetches[s].kind = "connect" /\ status' = "error" /\ remembered' = FALSE /\ Over(s)
        /\ UNCHANGED <<snapshot, polling, mgr, late>>
    BY <1>7 DEF ConnectFailed, Answered
  <2>2. fetches' \in Slotted /\ (Awaits(fetches, "disconnect") => Awaits(fetches', "disconnect"))
    BY <1>5, <2>1
  <2>3. HookTypeOK'
    BY <1>1, <2>1, <2>2 DEF HookTypeOK, Slotted, Slots, Statuses
  <2>4. WaitingInv'
    BY <1>0, <2>1, <2>2 DEF WaitingInv
  <2> QED
    BY <2>3, <2>4 DEF HookInv
<1>8. CASE Disconnected(s)
  <2>1. /\ status' = "disconnected" /\ snapshot' = NoSnapshot /\ remembered' = FALSE /\ Over(s)
        /\ UNCHANGED <<polling, mgr, late>>
    BY <1>8 DEF Disconnected
  <2>2. fetches' \in Slotted
    BY <1>5, <2>1
  <2>3. HookTypeOK'
    BY <1>1, <2>1, <2>2 DEF HookTypeOK, Slotted, Slots, Statuses
  <2>4. WaitingInv'
    BY <2>1 DEF WaitingInv
  <2> QED
    BY <2>3, <2>4 DEF HookInv
<1>9. CASE WasReset(s)
  <2>1. /\ fetches[s].kind = "reset" /\ snapshot' = NoSnapshot /\ Then(s, "poll")
        /\ UNCHANGED <<status, polling, remembered, mgr, late>>
    BY <1>9 DEF WasReset, Answered
  <2>2. /\ fetches' \in Slotted
        /\ Awaits(fetches, "connect") => Awaits(fetches', "connect")
        /\ Awaits(fetches, "disconnect") => Awaits(fetches', "disconnect")
    BY <1>4, <2>1 DEF Kinds
  <2>3. HookTypeOK'
    BY <1>1, <2>1, <2>2 DEF HookTypeOK, Slotted, Slots
  <2>4. WaitingInv'
    BY <1>0, <2>1, <2>2 DEF WaitingInv
  <2> QED
    BY <2>3, <2>4 DEF HookInv
<1>10. CASE Polled(s)
  <2>1. /\ snapshot' = fetches[s].told.data /\ status' = fetches[s].told.status
        /\ late' = (late \/ ~polling) /\ Over(s)
        /\ UNCHANGED <<polling, remembered, mgr>>
    BY <1>10 DEF Polled
  <2>2. fetches' \in Slotted
    BY <1>5, <2>1
  <2>3. HookTypeOK'
    BY <1>1, <1>3, <2>1, <2>2 DEF HookTypeOK, Slotted, Slots
  <2>4. WaitingInv'
    BY <2>1 DEF WaitingInv
  <2> QED
    BY <2>3, <2>4 DEF HookInv
<1>11. CASE PollFailed(s) \/ Forgotten(s)
  <2>1. /\ fetches[s].kind = "poll" \/ ~fetches[s].awaited
        /\ Over(s) /\ UNCHANGED <<status, snapshot, polling, remembered, mgr, late>>
    BY <1>11 DEF PollFailed, Forgotten, Answered, page
  <2>2. /\ fetches' \in Slotted
        /\ Awaits(fetches, "connect") => Awaits(fetches', "connect")
        /\ Awaits(fetches, "disconnect") => Awaits(fetches', "disconnect")
    BY <1>5, <2>1
  <2>3. HookTypeOK'
    BY <1>1, <2>1, <2>2 DEF HookTypeOK, Slotted, Slots
  <2>4. WaitingInv'
    BY <1>0, <2>1, <2>2 DEF WaitingInv
  <2> QED
    BY <2>3, <2>4 DEF HookInv
<1>12. CASE Reconnects(s)
  <2>1. /\ fetches[s].kind = "restore" /\ status' = "connecting" /\ Then(s, "connect")
        /\ UNCHANGED <<snapshot, polling, remembered, mgr, late>>
    BY <1>12 DEF Reconnects, Answered
  <2>2. /\ fetches' \in Slotted /\ Awaits(fetches', "connect")
        /\ Awaits(fetches, "disconnect") => Awaits(fetches', "disconnect")
    BY <1>4, <2>1 DEF Kinds
  <2>3. HookTypeOK'
    BY <1>1, <2>1, <2>2 DEF HookTypeOK, Slotted, Slots, Statuses
  <2>4. WaitingInv'
    BY <1>0, <2>1, <2>2 DEF WaitingInv
  <2> QED
    BY <2>3, <2>4 DEF HookInv
<1> QED
  BY <1>6, <1>7, <1>8, <1>9, <1>10, <1>11, <1>12 DEF Receive

LEMMA HookKeepsInv ==
  ASSUME HookInv, [HookNext]_hookVars
  PROVE  HookInv'
<1>1. CASE HookNext
  BY <1>1, PageKeepsInv, ServerKeepsInv, ReceiveKeepsInv DEF HookNext, Slots
<1>2. CASE UNCHANGED hookVars
  <2>1. UNCHANGED <<status, snapshot, polling, remembered, fetches, mgr, late>>
    BY <1>2 DEF hookVars, page
  <2> QED
    BY <2>1 DEF HookInv, HookTypeOK, WaitingInv
<1> QED
  BY <1>1, <1>2

LEMMA FrozenHolds == HookInv => HookTypeOK /\ FrozenOnlyByLatePoll
<1> SUFFICES ASSUME HookInv, ~polling, ~late,
                    \A s \in Slots : ~Free(s) => ~fetches[s].awaited
             PROVE  status \in {"disconnected", "error"} /\ snapshot = NoSnapshot
  BY DEF HookInv, FrozenOnlyByLatePoll, Slots
<1>1. \A k : ~Awaits(fetches, k)
  BY DEF Awaits, Free
<1>2. status # "connecting" /\ status # "connected" /\ snapshot = NoSnapshot
  BY <1>1 DEF HookInv, WaitingInv
<1> QED
  BY <1>2 DEF HookInv, HookTypeOK, Statuses
-----------------------------------------------------------------------------
(* The other half of the page: its types are inductive as they stand. *)
Called == [of : Nat, stage : Stages]

LEMMA InitAnalyze == AnalyzeInit => AnalyzeTypeOK
<1> SUFFICES ASSUME AnalyzeInit PROVE AnalyzeTypeOK
  OBVIOUS
<1>1. MaxCalls \in Nat \ {0}
  BY EditorsAssumption
<1>2. made \in 0 .. MaxCalls /\ loading \in BOOLEAN
  BY <1>1 DEF AnalyzeInit
<1>3. calls \in [1 .. MaxCalls -> [of : Nat, stage : Stages]]
  BY DEF AnalyzeInit, Stages
<1> QED
  BY <1>2, <1>3 DEF AnalyzeInit, AnalyzeTypeOK, Texts

LEMMA AnalyzeTypes ==
  ASSUME AnalyzeTypeOK, NEW t \in Nat, Analyze(t)
  PROVE  /\ made' \in 0 .. MaxCalls /\ calls' \in [1 .. MaxCalls -> Called]
         /\ failed' \in Texts /\ result' \in Texts /\ loading' \in BOOLEAN
<1>1. MaxCalls \in Nat /\ made \in 0 .. MaxCalls /\ calls \in [1 .. MaxCalls -> Called]
  BY EditorsAssumption DEF AnalyzeTypeOK, Called
<1>2. [of |-> t, stage |-> "waiting"] \in Called
  BY DEF Called, Stages
<1>3. \A c \in Called : [c EXCEPT !.stage = "aborted"] \in Called
  BY DEF Called, Stages
<1>4. calls' \in [1 .. MaxCalls -> Called]
  BY <1>1, <1>2, <1>3 DEF Analyze
<1>5. made' \in 0 .. MaxCalls
  BY <1>1 DEF Analyze
<1> QED
  BY <1>4, <1>5 DEF Analyze, AnalyzeTypeOK, Texts

LEMMA AnalyzeKeepsTypes ==
  ASSUME AnalyzeTypeOK, [AnalyzeNext]_analyzeVars
  PROVE  AnalyzeTypeOK'
<1>1. /\ yaml \in Nat /\ debounced \in Nat /\ blank \subseteq Nat
      /\ live \in BOOLEAN /\ loading \in BOOLEAN
      /\ result \in Texts /\ failed \in Texts /\ coverage \in Texts
      /\ made \in 0 .. MaxCalls /\ calls \in [1 .. MaxCalls -> Called]
      /\ covering \subseteq Nat
  BY DEF AnalyzeTypeOK, Called
<1>2. ASSUME NEW t \in Nat, InLiveMode(t)
      PROVE  /\ made' \in 0 .. MaxCalls /\ calls' \in [1 .. MaxCalls -> Called]
             /\ failed' \in Texts /\ result' \in Texts /\ loading' \in BOOLEAN
  BY <1>1, <1>2, AnalyzeTypes DEF InLiveMode, shown
<1>3. ASSUME NEW t \in Nat, Cover(t) \/ UNCHANGED covering
      PROVE  covering' \subseteq Nat
  BY <1>1, <1>3 DEF Cover
<1>4. CASE Edit
  BY <1>1, <1>4 DEF Edit, shown, AnalyzeTypeOK, Called
<1>5. CASE Debounce
  BY <1>1, <1>2, <1>5 DEF Debounce, AnalyzeTypeOK, Called
<1>6. CASE ToggleLive
  <2>1. /\ live' = ~live /\ InLiveMode(debounced)
        /\ UNCHANGED <<yaml, debounced, blank, coverage>>
        /\ Cover(debounced) \/ UNCHANGED covering
    BY <1>6 DEF ToggleLive
  <2>2. live' \in BOOLEAN /\ covering' \subseteq Nat
    BY <1>1, <1>3, <2>1
  <2> QED
    BY <1>1, <1>2, <2>1, <2>2 DEF AnalyzeTypeOK, Called
<1>7. CASE RulesEdited
  BY <1>1, <1>3, <1>7 DEF RulesEdited, text, shown, AnalyzeTypeOK, Called
<1>8. CASE AnalyzeClicked
  BY <1>1, <1>8, AnalyzeTypes DEF AnalyzeClicked, text, AnalyzeTypeOK, Called
<1>9. ASSUME NEW i \in 1 .. MaxCalls, Respond(i) \/ Continue(i)
      PROVE  AnalyzeTypeOK'
  <2>1. calls[i] \in Called /\ calls[i].of \in Nat
    BY <1>1 DEF Called
  <2>2. \A c \in Called, stage \in Stages : [c EXCEPT !.stage = stage] \in Called
    BY DEF Called
  <2>3. \E stage \in Stages : calls' = [calls EXCEPT ![i] = [@ EXCEPT !.stage = stage]]
    BY <1>9 DEF Respond, Continue, Succeeded, FailedCall, Aborted, CallOver, Stages
  <2>4. calls' \in [1 .. MaxCalls -> Called]
    BY <1>1, <2>1, <2>2, <2>3
  <2>5. CASE Respond(i)
    BY <1>1, <2>4, <2>5 DEF Respond, text, shown, AnalyzeTypeOK, Called
  <2>6. CASE Succeeded(i)
    BY <1>1, <1>3, <2>1, <2>4, <2>6 DEF Succeeded, text, AnalyzeTypeOK, Called, Texts
  <2>7. CASE FailedCall(i)
    BY <1>1, <1>3, <2>1, <2>4, <2>7 DEF FailedCall, text, AnalyzeTypeOK, Called, Texts
  <2>8. CASE Aborted(i)
    BY <1>1, <2>4, <2>8 DEF Aborted, text, AnalyzeTypeOK, Called
  <2> QED
    BY <1>9, <2>5, <2>6, <2>7, <2>8 DEF Continue
<1>10. ASSUME NEW t \in covering, Covered(t)
       PROVE  AnalyzeTypeOK'
  BY <1>1, <1>10 DEF Covered, text, shown, AnalyzeTypeOK, Called, Texts
<1>11. CASE UNCHANGED analyzeVars
  BY <1>11 DEF analyzeVars, text, shown, AnalyzeTypeOK
<1> QED
  BY <1>4, <1>5, <1>6, <1>7, <1>8, <1>9, <1>10, <1>11 DEF AnalyzeNext

-----------------------------------------------------------------------------
(* A page that neither polls nor waits for anything shows no connection,   *)
(* unless a poll was answered too late; and each part keeps to its types.  *)
THEOREM PagesAreTruthful == Spec => []PageIsTruthful
<1> DEFINE Inv == HookInv /\ AnalyzeTypeOK
<1>1. Init => Inv
  BY InitHook, InitAnalyze DEF Init
<1>2. Inv /\ [Next]_vars => Inv'
  <2> SUFFICES ASSUME Inv, [Next]_vars PROVE Inv'
    OBVIOUS
  <2>1. [HookNext]_hookVars /\ [AnalyzeNext]_analyzeVars
    BY DEF Next, vars
  <2> QED
    BY <2>1, HookKeepsInv, AnalyzeKeepsTypes
<1>3. Inv => PageIsTruthful
  BY FrozenHolds DEF PageIsTruthful
<1> QED
  BY <1>1, <1>2, <1>3, PTL DEF Spec
=============================================================================
