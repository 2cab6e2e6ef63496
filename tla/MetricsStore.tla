------------------------------ MODULE MetricsStore ------------------------------
(***************************************************************************)
(* The sliding window of metric snapshots, metrics/store.go.  Each method  *)
(* of Store runs under the store's own lock, so each is one operator on    *)
(* the sequence of snapshots, oldest first.                                *)
(***************************************************************************)
EXTENDS Integers, Sequences

CONSTANT WindowSize    \* Store.windowSize: 6 in the program

ASSUME WindowSizeAssumption == WindowSize \in Nat \ {0}

NewStore == <<>>

\* Mutation: the eviction test is off by one.
PushKeepsOneMore(s, snap) ==
  LET t == Append(s, snap)
  IN  IF Len(t) > WindowSize + 1 THEN SubSeq(t, 2, Len(t)) ELSE t

\* Mutation: the newest snapshot goes to the front.
PushNewestFirst(s, snap) == SubSeq(<<snap>> \o s, 1, IF Len(s) < WindowSize THEN Len(s) + 1 ELSE WindowSize)

Push(s, snap) ==
  LET t == Append(s, snap)
  IN  IF Len(t) > WindowSize
      THEN SubSeq(t, Len(t) - WindowSize + 1, Len(t))
      ELSE t

Clear(s) == <<>>

=============================================================================
