---------------------------- MODULE CatalogProofs ----------------------------
(***************************************************************************)
(* Proofs about Catalog, for any exporters, prune loops, names, attributes *)
(* and values, finitely many or not, and any messages.                     *)
(*                                                                         *)
(* The properties are not inductive as they stand.  Each comes with what   *)
(* the goroutines between two critical sections rely on: whoever waits for *)
(* a lock has read the clock at most MaxDelay ago; an exporter that still  *)
(* counts on its entry has one; a name without an entry owes and counts    *)
(* nothing; the windows hold only batches of the sizes seen since the last *)
(* Clear; and a reset has left nothing behind in the catalogs it has been  *)
(* through.                                                                *)
(***************************************************************************)
EXTENDS Catalog, FiniteSetTheorems, SequenceTheorems, WellFoundedInduction, TLAPS

(* A tracker as the program keeps it: no value twice, capped when full.    *)
Sound(t) ==
  /\ t \in Trackers
  /\ IsFiniteSet(ToSet(t.samples))
  /\ Len(t.samples) = Cardinality(ToSet(t.samples))
  /\ Len(t.samples) <= MaxSamples
  /\ t.capped <=> Len(t.samples) = MaxSamples

SoundTrackers == [Attrs -> {t \in Trackers : Sound(t)}]

TypeInv ==
  TypeOK /\ \A n \in DOMAIN entries : entries[n].trackers \in SoundTrackers

\* The exporters that count on the entry of their item have it.
IntactInv == \A e \in intact : pc[e] = "attrs" /\ Head(left[e]).name \in DOMAIN entries

SamplesInv ==
  /\ IntactInv
  /\ UncappedIsComplete
  /\ \A n \in Names \ DOMAIN entries : owed[n] = {}
  /\ KeysHaveSamples

TallyInv ==
  /\ EntriesAccountForItems
  /\ \A n \in Names \ DOMAIN entries : tally[n] = NoTally

ResetInv ==
  /\ ResetForgets
  /\ \A n \in old : /\ resetAt = 1 => SignalOf[n] # "metrics"
                    /\ resetAt = 2 => SignalOf[n] = "logs"

\* The points of a window, when all its batches had one size.
IsSteady(w) == \A s \in sizes : sizes = {s} => w.points = s * w.batches

RateInv ==
  /\ WindowsAreSuccessive
  /\ IsFiniteSet(sizes)
  /\ \A w \in {prevWindow, currWindow} \ {NoWindow} : IsSteady(w)

RecentInv ==
  /\ \A e \in Exporters :
       pc[e] \in {"record", "batch"} => clock[e] <= now /\ now <= clock[e] + MaxDelay
  /\ \A n \in Names : newest[n] <= now
  /\ \A n \in DOMAIN entries : newest[n] <= entries[n].last + MaxDelay
-----------------------------------------------------------------------------
(* What holds of 0 and is handed on by every number up to N holds up to N. *)
LEMMA UpTo ==
  ASSUME NEW N \in Nat, NEW T, 0 \in T,
         \A i \in 1 .. N : i - 1 \in T => i \in T
  PROVE  \A i \in 0 .. N : i \in T
<1> DEFINE less == {ss \in Nat \X Nat : ss[1] < ss[2]}
           bad == {i \in 0 .. N : i \notin T}
<1>1. IsWellFoundedOn(less, Nat)
  BY NatLessThanWellFounded DEF OpToRel
<1>2. \A x, y \in Nat : y < x => <<y, x>> \in less
  OBVIOUS
<1>3. bad \subseteq Nat
  OBVIOUS
<1> HIDE DEF less
<1>4. ASSUME bad # {}
      PROVE  \E x \in bad : \A y \in bad : ~(<<y, x>> \in less)
  <2> HIDE DEF bad
  <2> QED
    BY <1>1, <1>3, <1>4, WFMin
<1>5. ASSUME NEW x \in bad PROVE  x - 1 \in bad /\ x - 1 < x /\ x - 1 \in Nat /\ x \in Nat
  OBVIOUS
<1>6. bad = {}
  BY <1>2, <1>4, <1>5
<1> QED
  BY <1>6

(* Recursion over 1 .. N defines a function. *)
LEMMA Recursion ==
  ASSUME NEW D, NEW d \in D, NEW N \in Nat, NEW step \in [1 .. N -> [D -> D]]
  PROVE  \E g \in [0 .. N -> D] :
            g[0] = d /\ \A i \in 1 .. N : g[i] = step[i][g[i - 1]]
<1> DEFINE IsUpTo(n, g) == \A i \in 0 .. n : g[i] = IF i = 0 THEN d ELSE step[i][g[i - 1]]
           T == {n \in 0 .. N : \E g \in [0 .. n -> D] : IsUpTo(n, g)}
<1>1. 0 \in T
  <2> DEFINE h == [i \in 0 .. 0 |-> d]
  <2>1. h \in [0 .. 0 -> D] /\ IsUpTo(0, h)
    OBVIOUS
  <2> HIDE DEF h, IsUpTo
  <2>2. 0 \in 0 .. N
    OBVIOUS
  <2> QED
    BY <2>1, <2>2
<1>2. ASSUME NEW n \in 1 .. N, n - 1 \in T
      PROVE  n \in T
  <2>1. PICK g \in [0 .. n - 1 -> D] : IsUpTo(n - 1, g)
    BY <1>2
  <2>2. n - 1 \in 0 .. n - 1 /\ n \in 1 .. N /\ n \in 0 .. N /\ n \notin 0 .. n - 1
    OBVIOUS
  <2>3. step[n][g[n - 1]] \in D
    BY <2>2
  <2> DEFINE h == [i \in 0 .. n |-> IF i = n THEN step[n][g[n - 1]] ELSE g[i]]
  <2>4. \A i \in 0 .. n : i # n => i \in 0 .. n - 1
    OBVIOUS
  <2>5. h \in [0 .. n -> D]
    BY <2>3, <2>4
  <2>6. ASSUME NEW i \in 0 .. n
        PROVE  h[i] = IF i = 0 THEN d ELSE step[i][h[i - 1]]
    <3>1. CASE i = n
      <4>1. h[i] = step[n][g[n - 1]] /\ i # 0
        BY <3>1
      <4>2. n - 1 \in 0 .. n /\ n - 1 # n
        OBVIOUS
      <4>3. h[n - 1] = g[n - 1]
        BY <4>2
      <4> QED
        BY <4>1, <4>3, <3>1
    <3>2. CASE i # n
      <4>1. i \in 0 .. n - 1 /\ (i # 0 => i - 1 \in 0 .. n /\ i - 1 # n)
        BY <3>2
      <4>2. h[i] = g[i] /\ (i # 0 => h[i - 1] = g[i - 1])
        BY <4>1, <3>2
      <4> QED
        BY <2>1, <4>1, <4>2
    <3> QED
      BY <3>1, <3>2
  <2>7. IsUpTo(n, h)
    BY <2>6
  <2> QED
    BY <2>2, <2>5, <2>7
<1>3. N \in T
  <2> HIDE DEF T
  <2>1. \A i \in 0 .. N : i \in T
    BY <1>1, <1>2, UpTo
  <2> QED
    BY <2>1
<1>4. PICK g \in [0 .. N -> D] : IsUpTo(N, g)
  BY <1>3
<1> QED
  BY <1>4
-----------------------------------------------------------------------------
LEMMA PointCountType ==
  ASSUME NEW items \in Seq(Item)
  PROVE  \A i \in 1 .. Len(items) : PointCount(items[i]) \in Nat
<1> SUFFICES ASSUME NEW i \in 1 .. Len(items)
             PROVE  PointCount(items[i]) \in Nat
  OBVIOUS
<1>1. items[i] \in Item
  BY ElementOfSeq
<1>2. items[i].points \in Seq(Pairs)
  BY <1>1 DEF Item
<1> QED
  BY <1>2, LenProperties DEF PointCount

LEMMA TotalPointsType ==
  ASSUME NEW items \in Seq(Item)
  PROVE  TotalPoints(items) \in Nat
<1> DEFINE N == Len(items)
           IsTotal(f) ==
             f = [i \in 0 .. N |-> IF i = 0 THEN 0 ELSE f[i - 1] + PointCount(items[i])]
           step == [i \in 1 .. N |-> [x \in Nat |-> x + PointCount(items[i])]]
           total == CHOOSE f : IsTotal(f)
<1>1. N \in Nat /\ \A i \in 1 .. N : PointCount(items[i]) \in Nat
  BY LenProperties, PointCountType
<1>2. TotalPoints(items) = total[N]
  BY DEF TotalPoints
<1> HIDE DEF N
<1>3. step \in [1 .. N -> [Nat -> Nat]]
  BY <1>1
<1>4. \E g \in [0 .. N -> Nat] : IsTotal(g)
  <2> HIDE DEF step
  <2>1. PICK g \in [0 .. N -> Nat] :
               g[0] = 0 /\ \A i \in 1 .. N : g[i] = step[i][g[i - 1]]
    <3> DEFINE R(d, D) == \E g \in [0 .. N -> D] :
                            g[0] = d /\ \A i \in 1 .. N : g[i] = step[i][g[i - 1]]
    <3>1. N \in Nat /\ 0 \in Nat
      BY <1>1
    <3>2. \A D : \A d \in D : step \in [1 .. N -> [D -> D]] => R(d, D)
      <4> SUFFICES ASSUME NEW D, NEW d \in D, step \in [1 .. N -> [D -> D]]
                   PROVE  R(d, D)
        OBVIOUS
      <4> QED
        BY <3>1, Recursion
    <3> HIDE DEF R
    <3>3. R(0, Nat)
      BY <3>1, <3>2, <1>3, Zenon
    <3> QED
      BY <3>3 DEF R
  <2>2. ASSUME NEW i \in 0 .. N, i # 0
        PROVE  step[i][g[i - 1]] = g[i - 1] + PointCount(items[i])
    BY <1>1, <2>2 DEF step
  <2>3. g = [i \in 0 .. N |-> IF i = 0 THEN 0 ELSE g[i - 1] + PointCount(items[i])]
    BY <2>1, <2>2
  <2> QED
    BY <2>3
<1>5. IsTotal(total)
  <2> HIDE DEF IsTotal
  <2> QED
    BY <1>4
<1> HIDE DEF total
<1> DEFINE T == {i \in 0 .. N : total[i] \in Nat}
<1>6. 0 \in T /\ \A i \in 1 .. N : i - 1 \in T => i \in T
  BY <1>1, <1>5
<1>7. \A i \in 0 .. N : i \in T
  <2> HIDE DEF T
  <2> QED
    BY <1>1, <1>6, UpTo
<1> QED
  BY <1>1, <1>2, <1>7
-----------------------------------------------------------------------------
(* The set of the elements of a sequence. *)
LEMMA ToSetType ==
  ASSUME NEW S, NEW s \in Seq(S)
  PROVE  /\ ToSet(s) \subseteq S
         /\ \A i \in 1 .. Len(s) : s[i] \in ToSet(s)
         /\ \A x \in ToSet(s) : \E i \in 1 .. Len(s) : x = s[i]
BY ElementOfSeq, LenProperties DEF ToSet

LEMMA ToSetEmpty == ToSet(<<>>) = {}
<1>1. DOMAIN <<>> = {}
  OBVIOUS
<1> QED
  BY <1>1 DEF ToSet

LEMMA ToSetAppend ==
  ASSUME NEW S, NEW s \in Seq(S), NEW x \in S
  PROVE  ToSet(Append(s, x)) = ToSet(s) \union {x}
<1> DEFINE a == Append(s, x)
           N == Len(s)
<1>1. a \in Seq(S) /\ Len(a) = N + 1 /\ a[N + 1] = x /\ N \in Nat
      /\ \A i \in 1 .. N : a[i] = s[i]
  BY AppendProperties, LenProperties
<1> HIDE DEF a, N
<1>2. DOMAIN a = 1 .. N + 1 /\ DOMAIN s = 1 .. N
  BY <1>1, LenProperties DEF N
<1>3. ToSet(a) = {a[i] : i \in 1 .. N + 1} /\ ToSet(s) = {s[i] : i \in 1 .. N}
  BY <1>2 DEF ToSet
<1>4. 1 .. N + 1 = (1 .. N) \union {N + 1}
  BY <1>1
<1> QED
  BY <1>1, <1>3, <1>4 DEF a

LEMMA ToSetTail ==
  ASSUME NEW S, NEW s \in Seq(S), s # <<>>
  PROVE  ToSet(s) = {Head(s)} \union ToSet(Tail(s))
<1> DEFINE t == Tail(s)
           N == Len(s)
<1>1. N \in Nat \ {0} /\ Head(s) = s[1]
  BY EmptySeq
<1>2. t \in Seq(S) /\ Len(t) = N - 1 /\ \A i \in 1 .. N - 1 : t[i] = s[i + 1]
  BY HeadTailProperties
<1> HIDE DEF t, N
<1>3. DOMAIN t = 1 .. N - 1 /\ DOMAIN s = 1 .. N
  BY <1>2, LenProperties DEF N
<1>4. ToSet(t) = {t[i] : i \in 1 .. N - 1} /\ ToSet(s) = {s[i] : i \in 1 .. N}
  BY <1>3 DEF ToSet
<1>5. ASSUME NEW i \in 1 .. N, i # 1 PROVE s[i] \in ToSet(t)
  <2>1. i - 1 \in 1 .. N - 1 /\ i - 1 + 1 = i
    BY <1>1, <1>5
  <2> QED
    BY <2>1, <1>2, <1>4
<1>6. ASSUME NEW i \in 1 .. N - 1 PROVE t[i] \in ToSet(s)
  <2>1. i + 1 \in 1 .. N
    BY <1>1
  <2> QED
    BY <2>1, <1>2, <1>4
<1>7. 1 \in 1 .. N
  BY <1>1
<1> QED
  BY <1>1, <1>4, <1>5, <1>6, <1>7 DEF t
-----------------------------------------------------------------------------
Holds(t, v) == t.capped \/ v \in ToSet(t.samples)

\* u has taken more values than t.
Extends(u, t) ==
  /\ t.capped => u.capped
  /\ ToSet(t.samples) \subseteq ToSet(u.samples)

(* attrTracker.record keeps a tracker sound, and takes the value or is     *)
(* capped.                                                                 *)
LEMMA TrackProperties ==
  ASSUME NEW t, Sound(t), NEW v \in Values
  PROVE  /\ Sound(Track(t, v))
         /\ Holds(Track(t, v), v)
         /\ Extends(Track(t, v), t)
<1> DEFINE s == t.samples
           u == [samples |-> Append(s, v), capped |-> Len(s) + 1 >= MaxSamples]
<1>1. CASE t.capped \/ v \in ToSet(s)
  BY <1>1 DEF Track, Holds, Extends
<1>2. CASE ~(t.capped \/ v \in ToSet(s))
  <2>1. Track(t, v) = u
    BY <1>2 DEF Track
  <2>2. s \in Seq(Values) /\ Len(s) \in Nat /\ IsFiniteSet(ToSet(s))
    BY LenProperties DEF Sound, Trackers
  <2>3. /\ Append(s, v) \in Seq(Values) /\ Len(Append(s, v)) = Len(s) + 1
        /\ ToSet(Append(s, v)) = ToSet(s) \union {v}
    BY <2>2, AppendProperties, ToSetAppend
  <2>4. /\ IsFiniteSet(ToSet(s) \union {v})
        /\ Cardinality(ToSet(s) \union {v}) = Cardinality(ToSet(s)) + 1
    BY <2>2, <1>2, FS_AddElement
  <2>5. MaxSamples \in Nat /\ Len(s) <= MaxSamples /\ Len(s) # MaxSamples
        /\ Len(s) = Cardinality(ToSet(s))
    BY <1>2, CatalogAssumption DEF Sound
  <2>6. u.samples = Append(s, v) /\ u.capped = (Len(s) + 1 >= MaxSamples)
    OBVIOUS
  <2>7. (Len(s) + 1 >= MaxSamples) \in BOOLEAN
    BY <2>2, <2>5
  <2>8. u \in Trackers
    BY <2>3, <2>7 DEF Trackers
  <2> HIDE DEF u, s
  <2>9. Len(s) + 1 <= MaxSamples /\ (Len(s) + 1 >= MaxSamples <=> Len(s) + 1 = MaxSamples)
    BY <2>2, <2>5
  <2>10. Sound(u)
    <3>1. Len(u.samples) = Cardinality(ToSet(u.samples)) /\ IsFiniteSet(ToSet(u.samples))
      BY <2>3, <2>4, <2>5, <2>6
    <3>2. Len(u.samples) <= MaxSamples /\ (u.capped <=> Len(u.samples) = MaxSamples)
      BY <2>3, <2>6, <2>9
    <3> QED
      BY <2>8, <3>1, <3>2 DEF Sound
  <2>11. Holds(u, v) /\ Extends(u, t)
    BY <2>3, <2>6, <1>2 DEF Holds, Extends, s
  <2> QED
    BY <2>1, <2>10, <2>11
<1> QED
  BY <1>1, <1>2

(* RecordAttributes: every attribute of the call is taken by its tracker,  *)
(* and none loses anything.                                                *)
LEMMA TrackedProperties ==
  ASSUME NEW trackers \in SoundTrackers, NEW kvs \in Pairs
  PROVE  /\ Tracked(trackers, kvs) \in SoundTrackers
         /\ \A a \in Attrs : Extends(Tracked(trackers, kvs)[a], trackers[a])
         /\ \A kv \in ToSet(kvs) : Holds(Tracked(trackers, kvs)[kv[1]], kv[2])
<1> DEFINE N == Len(kvs)
           next(ts, i) == [ts EXCEPT ![kvs[i][1]] = Track(@, kvs[i][2])]
           IsAfter(f) == f = [i \in 0 .. N |-> IF i = 0 THEN trackers ELSE next(f[i - 1], i)]
           step == [i \in 1 .. N |-> [ts \in SoundTrackers |-> next(ts, i)]]
           after == CHOOSE f : IsAfter(f)
<1>1. N \in Nat /\ \A i \in 1 .. N : kvs[i] \in Attrs \X Values
  BY LenProperties, ElementOfSeq DEF Pairs
<1>2. Tracked(trackers, kvs) = after[N]
  BY DEF Tracked
<1> HIDE DEF N
<1>3. ASSUME NEW i \in 1 .. N, NEW ts \in SoundTrackers
      PROVE  /\ next(ts, i) \in SoundTrackers
             /\ \A a \in Attrs : Extends(next(ts, i)[a], ts[a])
             /\ Holds(next(ts, i)[kvs[i][1]], kvs[i][2])
  <2> DEFINE k == kvs[i][1]
             v == kvs[i][2]
             u == Track(ts[k], v)
  <2>1. k \in Attrs /\ v \in Values
    BY <1>1
  <2>2. Sound(ts[k])
    BY <2>1 DEF SoundTrackers
  <2>3. Sound(u) /\ Holds(u, v) /\ Extends(u, ts[k])
    BY <2>1, <2>2, TrackProperties
  <2> HIDE DEF u, k, v
  <2>4. next(ts, i) = [a \in Attrs |-> IF a = k THEN u ELSE ts[a]]
    BY DEF SoundTrackers, u, k, v
  <2>5. u \in {t \in Trackers : Sound(t)}
    BY <2>3 DEF Sound
  <2>6. \A a \in Attrs : Extends(ts[a], ts[a])
    BY DEF Extends
  <2>7. next(ts, i) \in SoundTrackers
    <3> HIDE DEF next
    <3> QED
      BY <2>4, <2>5 DEF SoundTrackers
  <2>8. \A a \in Attrs : next(ts, i)[a] = IF a = k THEN u ELSE ts[a]
    <3> HIDE DEF next
    <3> QED
      BY <2>4
  <2> HIDE DEF next
  <2>9. Holds(next(ts, i)[k], v)
    BY <2>1, <2>3, <2>8
  <2>10. \A a \in Attrs : Extends(next(ts, i)[a], ts[a])
    BY <2>3, <2>6, <2>8
  <2> QED
    BY <2>7, <2>9, <2>10 DEF k, v
<1> HIDE DEF next
<1>4. step \in [1 .. N -> [SoundTrackers -> SoundTrackers]]
  BY <1>3
<1>5. \E g \in [0 .. N -> SoundTrackers] : IsAfter(g)
  <2> HIDE DEF step
  <2>1. PICK g \in [0 .. N -> SoundTrackers] :
               g[0] = trackers /\ \A i \in 1 .. N : g[i] = step[i][g[i - 1]]
    BY <1>1, <1>4, Recursion
  <2>2. ASSUME NEW i \in 0 .. N, i # 0
        PROVE  step[i][g[i - 1]] = next(g[i - 1], i)
    <3>1. i \in 1 .. N /\ i - 1 \in 0 .. N
      BY <2>2, <1>1
    <3> QED
      BY <3>1 DEF step
  <2>3. g = [i \in 0 .. N |-> IF i = 0 THEN trackers ELSE next(g[i - 1], i)]
    BY <2>1, <2>2
  <2> QED
    BY <2>3
<1>6. IsAfter(after)
  <2> HIDE DEF IsAfter
  <2> QED
    BY <1>5
<1> HIDE DEF after
<1>7. after[0] = trackers /\ \A i \in 1 .. N : after[i] = next(after[i - 1], i)
  BY <1>1, <1>6
<1> DEFINE T == {i \in 0 .. N :
                   /\ after[i] \in SoundTrackers
                   /\ \A a \in Attrs : Extends(after[i][a], trackers[a])
                   /\ \A j \in 1 .. i : Holds(after[i][kvs[j][1]], kvs[j][2])}
<1>8. 0 \in T
  BY <1>1, <1>7 DEF Extends
<1>9. ASSUME NEW i \in 1 .. N, i - 1 \in T
      PROVE  i \in T
  <2>1. after[i - 1] \in SoundTrackers /\ after[i] = next(after[i - 1], i)
    BY <1>7, <1>9
  <2>2. /\ after[i] \in SoundTrackers
        /\ \A a \in Attrs : Extends(after[i][a], after[i - 1][a])
        /\ Holds(after[i][kvs[i][1]], kvs[i][2])
    BY <2>1, <1>3
  <2>3. \A a \in Attrs : Extends(after[i][a], trackers[a])
    BY <1>9, <2>2 DEF Extends
  <2>4. ASSUME NEW j \in 1 .. i, j # i
        PROVE  Holds(after[i][kvs[j][1]], kvs[j][2])
    <3>1. j \in 1 .. i - 1 /\ j \in 1 .. N
      BY <1>1, <2>4
    <3>2. kvs[j][1] \in Attrs /\ Holds(after[i - 1][kvs[j][1]], kvs[j][2])
      BY <1>1, <1>9, <3>1
    <3> QED
      BY <2>2, <3>2 DEF Extends, Holds
  <2>5. i \in 0 .. N
    BY <1>1
  <2> QED
    BY <2>2, <2>3, <2>4, <2>5
<1>10. N \in T
  <2>1. \A i \in 0 .. N : i \in T
    <3> HIDE DEF T
    <3> QED
      BY <1>1, <1>8, <1>9, UpTo
  <2> QED
    BY <2>1, <1>1
<1>11. \A kv \in ToSet(kvs) : \E j \in 1 .. N : kv = kvs[j]
  BY ToSetType DEF Pairs, N
<1> QED
  BY <1>2, <1>10, <1>11

(* The calls of RecordAttributes are calls, and none with attributes is    *)
(* left out.                                                               *)
LEMMA NonEmptyProperties ==
  ASSUME NEW kvss \in Seq(Pairs)
  PROVE  /\ NonEmpty(kvss) \in Seq(Pairs)
         /\ \A kvs \in ToSet(kvss) : kvs # <<>> => kvs \in ToSet(NonEmpty(kvss))
<1> DEFINE N == Len(kvss)
           next(s, i) == IF kvss[i] = <<>> THEN s ELSE Append(s, kvss[i])
           IsKept(f) == f = [i \in 0 .. N |-> IF i = 0 THEN <<>> ELSE next(f[i - 1], i)]
           step == [i \in 1 .. N |-> [s \in Seq(Pairs) |-> next(s, i)]]
           kept == CHOOSE f : IsKept(f)
<1>1. N \in Nat /\ \A i \in 1 .. N : kvss[i] \in Pairs
  BY LenProperties, ElementOfSeq
<1>2. NonEmpty(kvss) = kept[N]
  BY DEF NonEmpty
<1> HIDE DEF N
<1>3. ASSUME NEW i \in 1 .. N, NEW s \in Seq(Pairs)
      PROVE  /\ next(s, i) \in Seq(Pairs)
             /\ ToSet(s) \subseteq ToSet(next(s, i))
             /\ kvss[i] # <<>> => kvss[i] \in ToSet(next(s, i))
  BY <1>1, AppendProperties, ToSetAppend
<1> HIDE DEF next
<1>4. step \in [1 .. N -> [Seq(Pairs) -> Seq(Pairs)]]
  BY <1>3
<1>5. <<>> \in Seq(Pairs)
  BY EmptySeq
<1>6. \E g \in [0 .. N -> Seq(Pairs)] : IsKept(g)
  <2> HIDE DEF step
  <2>1. PICK g \in [0 .. N -> Seq(Pairs)] :
               g[0] = <<>> /\ \A i \in 1 .. N : g[i] = step[i][g[i - 1]]
    <3> DEFINE R(d, D) == \E g \in [0 .. N -> D] :
                            g[0] = d /\ \A i \in 1 .. N : g[i] = step[i][g[i - 1]]
    <3>1. N \in Nat
      BY <1>1
    <3>2. \A D : \A d \in D : step \in [1 .. N -> [D -> D]] => R(d, D)
      <4> SUFFICES ASSUME NEW D, NEW d \in D, step \in [1 .. N -> [D -> D]]
                   PROVE  R(d, D)
        OBVIOUS
      <4> QED
        BY <3>1, Recursion
    <3> HIDE DEF R
    <3>3. R(<<>>, Seq(Pairs))
      BY <3>2, <1>4, <1>5, Zenon
    <3> QED
      BY <3>3 DEF R
  <2>2. ASSUME NEW i \in 0 .. N, i # 0
        PROVE  step[i][g[i - 1]] = next(g[i - 1], i)
    <3>1. i \in 1 .. N /\ i - 1 \in 0 .. N
      BY <2>2, <1>1
    <3> QED
      BY <3>1 DEF step
  <2>3. g = [i \in 0 .. N |-> IF i = 0 THEN <<>> ELSE next(g[i - 1], i)]
    BY <2>1, <2>2
  <2> QED
    BY <2>3
<1>7. IsKept(kept)
  <2> HIDE DEF IsKept
  <2> QED
    BY <1>6
<1> HIDE DEF kept
<1>8. kept[0] = <<>> /\ \A i \in 1 .. N : kept[i] = next(kept[i - 1], i)
  BY <1>1, <1>7
<1> HIDE DEF IsKept, step
<1> DEFINE T == {i \in 0 .. N :
                   /\ kept[i] \in Seq(Pairs)
                   /\ \A j \in 1 .. i : kvss[j] # <<>> => kvss[j] \in ToSet(kept[i])}
<1>9. 0 \in T
  <2>1. 0 \in 0 .. N /\ 1 .. 0 = {}
    BY <1>1
  <2>2. kept[0] \in Seq(Pairs)
    BY <1>5, <1>8
  <2> QED
    BY <2>1, <2>2
<1>10. ASSUME NEW i \in 1 .. N, i - 1 \in T
       PROVE  i \in T
  <2>1. kept[i - 1] \in Seq(Pairs) /\ kept[i] = next(kept[i - 1], i)
    BY <1>8, <1>10
  <2>2. /\ kept[i] \in Seq(Pairs)
        /\ ToSet(kept[i - 1]) \subseteq ToSet(kept[i])
        /\ kvss[i] # <<>> => kvss[i] \in ToSet(kept[i])
    BY <2>1, <1>3
  <2>3. ASSUME NEW j \in 1 .. i, j # i, kvss[j] # <<>>
        PROVE  kvss[j] \in ToSet(kept[i])
    <3>1. j \in 1 .. i - 1
      BY <1>1, <2>3
    <3> QED
      BY <1>10, <2>2, <2>3, <3>1
  <2>4. i \in 0 .. N
    BY <1>1
  <2> QED
    BY <2>2, <2>3, <2>4
<1>11. N \in T
  <2>1. \A i \in 0 .. N : i \in T
    <3> HIDE DEF T
    <3> QED
      BY <1>1, <1>9, <1>10, UpTo
  <2> QED
    BY <2>1, <1>1
<1>12. \A kvs \in ToSet(kvss) : \E j \in 1 .. N : kvs = kvss[j]
  BY ToSetType DEF N
<1> QED
  BY <1>2, <1>11, <1>12

LEMMA ItemType ==
  ASSUME NEW item \in Item
  PROVE  /\ item.name \in Names /\ item.tag \in Tags
         /\ item.outer \in Seq(Pairs) /\ item.points \in Seq(Pairs)
BY DEF Item

(* The attribute keys of an item are those of one of its calls. *)
LEMMA AttributeCallsProperties ==
  ASSUME NEW item \in Item
  PROVE  /\ AttributeCalls(item) \in Seq(Pairs)
         /\ AttrKeys(item) \subseteq Attrs
         /\ \A a \in AttrKeys(item) : \E kvs \in ToSet(AttributeCalls(item)), v \in Values :
              <<a, v>> \in ToSet(kvs)
<1> DEFINE o == item.outer
           p == item.points
<1>1. o \in Seq(Pairs) /\ p \in Seq(Pairs)
  BY ItemType
<1> HIDE DEF o, p
<1>2. o \o p \in Seq(Pairs)
  BY <1>1, ConcatProperties
<1>3. NonEmpty(o \o p) \in Seq(Pairs)
  BY <1>2, NonEmptyProperties
<1>4. AttributeCalls(item) = NonEmpty(o \o p)
  BY DEF AttributeCalls, o, p
<1>5. ASSUME NEW a \in AttrKeys(item)
      PROVE  /\ a \in Attrs
             /\ \E kvs \in ToSet(NonEmpty(o \o p)), v \in Values : <<a, v>> \in ToSet(kvs)
  <2>1. p # <<>> /\ \E kv \in ToSet(p[1]) : a = kv[1]
    BY DEF AttrKeys, p
  <2>2. Len(p) \in Nat \ {0} /\ Len(o) \in Nat
    BY <1>1, <2>1, EmptySeq, LenProperties
  <2>3. p[1] \in Pairs
    BY <1>1, <2>2, ElementOfSeq
  <2>4. PICK kv \in ToSet(p[1]) : a = kv[1]
    BY <2>1
  <2>5. kv \in Attrs \X Values
    BY <2>3, ToSetType DEF Pairs
  <2>6. p[1] # <<>>
    BY <2>4, ToSetEmpty
  <2>7. p[1] \in ToSet(o \o p)
    <3> DEFINE n == Len(o)
               k == n + 1
    <3>1. n \in Nat /\ k \in 1 .. n + Len(p) /\ ~(k <= n) /\ k - n = 1
      BY <2>2
    <3> HIDE DEF k
    <3>2. (o \o p)[k] = p[1] /\ Len(o \o p) = n + Len(p)
      BY <1>1, <3>1, ConcatProperties
    <3> QED
      BY <1>2, <3>1, <3>2, ToSetType
  <2>8. p[1] \in ToSet(NonEmpty(o \o p))
    BY <1>2, <2>6, <2>7, NonEmptyProperties
  <2>9. kv = <<a, kv[2]>> /\ kv[2] \in Values /\ a \in Attrs
    BY <2>4, <2>5
  <2> QED
    BY <2>4, <2>8, <2>9
<1> QED
  BY <1>3, <1>4, <1>5
-----------------------------------------------------------------------------
LEMMA LoadType ==
  ASSUME TypeOK
  PROVE  /\ load.time \in Nat /\ load.exports \in Nat /\ load.pruners \subseteq Pruners
         /\ \A m \in load.messages : m \in Seq(Item)
         /\ 0 \in Times /\ now \in Times /\ Times \subseteq Nat
BY CatalogAssumption DEF TypeOK, Times

LEMMA TypesAreFixed ==
  ASSUME load' = load
  PROVE  Times' = Times /\ Windows' = Windows /\ \A s : EntryOf(s)' = EntryOf(s)
BY DEF Times, Windows, EntryOf

LEMMA SignalType == \A n \in Names : SignalOf[n] \in {"metrics", "spans", "logs"}
BY CatalogAssumption

LEMMA AfterLastType ==
  ASSUME NEW items \in Seq(Item)
  PROVE  /\ AfterLast(items) \in {"idle", "batch"}
         /\ AfterLast(items) = "batch" => TotalPoints(items) > 0
BY DEF AfterLast, AfterMetrics

(* The next item of an export, or what follows the last. *)
LEMMA ContinueType ==
  ASSUME TypeOK, NEW e \in Exporters, NEW rest \in Seq(Item), NEW items \in Seq(Item),
         Continue(e, rest, items)
  PROVE  /\ pc' \in [Exporters -> {"idle", "record", "attrs", "batch"}]
         /\ left' \in [Exporters -> Seq(Item)] /\ msg' \in [Exporters -> Seq(Item)]
         /\ clock' \in [Exporters -> Times]
         /\ \A x \in Exporters : /\ pc'[x] \in {"record", "attrs"} => left'[x] # <<>>
                                 /\ pc'[x] = "batch" => TotalPoints(msg'[x]) > 0
<1> DEFINE next == IF rest # <<>> THEN "record" ELSE AfterLast(items)
<1>1. /\ next \in {"idle", "record", "batch"}
      /\ next = "record" => rest # <<>>
      /\ next = "batch" => TotalPoints(items) > 0
  BY AfterLastType
<1>2. /\ left' = [left EXCEPT ![e] = rest]
      /\ pc' = [pc EXCEPT ![e] = next]
      /\ clock' = [clock EXCEPT ![e] = IF next = "idle" THEN 0 ELSE now]
      /\ msg' = [msg EXCEPT ![e] = IF next = "idle" THEN <<>> ELSE items]
  BY DEF Continue
<1> HIDE DEF next
<1>3. 0 \in Times /\ now \in Times /\ <<>> \in Seq(Item)
  BY LoadType, EmptySeq
<1>4. /\ pc \in [Exporters -> {"idle", "record", "attrs", "batch"}]
      /\ left \in [Exporters -> Seq(Item)] /\ msg \in [Exporters -> Seq(Item)]
      /\ clock \in [Exporters -> Times]
  BY DEF TypeOK
<1>5. /\ pc' \in [Exporters -> {"idle", "record", "attrs", "batch"}]
      /\ left' \in [Exporters -> Seq(Item)] /\ msg' \in [Exporters -> Seq(Item)]
      /\ clock' \in [Exporters -> Times]
  BY <1>1, <1>2, <1>3, <1>4
<1>6. ASSUME NEW x \in Exporters
      PROVE  /\ pc'[x] \in {"record", "attrs"} => left'[x] # <<>>
             /\ pc'[x] = "batch" => TotalPoints(msg'[x]) > 0
  <2>1. CASE x = e
    <3>1. pc'[x] = next /\ left'[x] = rest /\ (next # "idle" => msg'[x] = items)
      BY <2>1, <1>2, <1>4
    <3> QED
      BY <3>1, <1>1
  <2>2. CASE x # e
    <3>1. pc'[x] = pc[x] /\ left'[x] = left[x] /\ msg'[x] = msg[x]
      BY <2>2, <1>2, <1>4
    <3> QED
      BY <3>1 DEF TypeOK
  <2> QED
    BY <2>1, <2>2
<1> QED
  BY <1>5, <1>6

(* Record leaves an entry of its catalog, with sound trackers. *)
LEMMA NewTrackersAreSound == NewTrackers \in SoundTrackers
<1> DEFINE t == [samples |-> <<>>, capped |-> FALSE]
<1>1. t \in Trackers
  BY EmptySeq DEF Trackers
<1>2. ToSet(t.samples) = {} /\ Len(t.samples) = 0 /\ t.capped = FALSE
  BY ToSetEmpty
<1>3. IsFiniteSet(ToSet(t.samples)) /\ Cardinality(ToSet(t.samples)) = 0
  BY <1>2, FS_EmptySet
<1>4. 0 <= MaxSamples /\ 0 # MaxSamples
  BY CatalogAssumption
<1>5. Sound(t)
  BY <1>1, <1>2, <1>3, <1>4 DEF Sound
<1> QED
  BY <1>1, <1>5 DEF NewTrackers, SoundTrackers

LEMMA SoundTrackersType == SoundTrackers \subseteq [Attrs -> Trackers]
BY DEF SoundTrackers

LEMMA EntryAfterType ==
  ASSUME TypeInv, NEW item \in Item, NEW at \in Times
  PROVE  LET n == item.name
             new == EntryAfter(item, at)
         IN  /\ new \in EntryOf(SignalOf[n])
             /\ new.last = at
             /\ new.trackers = IF n \in DOMAIN entries THEN entries[n].trackers ELSE NewTrackers
<1> DEFINE n == item.name
<1>1. n \in Names /\ item.tag \in Tags /\ AttrKeys(item) \subseteq Attrs
  BY ItemType, AttributeCallsProperties
<1>2. NewTrackers \in [Attrs -> Trackers]
  BY NewTrackersAreSound, SoundTrackersType
<1>3. NoTally \in [Tags -> Nat]
  BY DEF NoTally
<1>4. n \in DOMAIN entries => entries[n] \in EntryOf(SignalOf[n])
  BY DEF TypeInv, TypeOK
<1>5. CASE SignalOf[n] = "metrics"
  BY <1>1, <1>2, <1>4, <1>5 DEF EntryAfter, EntryOf, MetricEntry
<1>6. CASE SignalOf[n] = "spans"
  <2> DEFINE spans == [first : Times, last : Times, trackers : [Attrs -> Trackers],
                       count : Nat, status : Tags]
             r == entries[n]
             s == IF item.tag = "error" THEN "error" ELSE r.status
  <2>1. EntryOf(SignalOf[n]) = spans /\ EntryAfter(item, at) = SpanEntry(item, at)
    BY <1>6 DEF EntryOf, EntryAfter
  <2>2. CASE n \in DOMAIN entries
    <3>1. r \in spans /\ s \in Tags
      BY <1>1, <1>4, <2>1, <2>2 DEF Tags
    <3>2. SpanEntry(item, at) = [first |-> r.first, last |-> at, trackers |-> r.trackers,
                               count |-> r.count + 1, status |-> s]
      BY <3>1, <2>2 DEF SpanEntry
    <3>3. r.first \in Times /\ r.trackers \in [Attrs -> Trackers] /\ r.count + 1 \in Nat
      BY <3>1
    <3> HIDE DEF s, r
    <3>4. SpanEntry(item, at) \in spans
      BY <3>1, <3>2, <3>3
    <3> QED
      BY <2>1, <2>2, <3>2, <3>4 DEF r
  <2>3. CASE n \notin DOMAIN entries
    BY <1>1, <1>2, <2>1, <2>3 DEF SpanEntry
  <2> QED
    BY <2>2, <2>3
<1>7. CASE SignalOf[n] = "logs"
  <2> DEFINE logs == [first : Times, last : Times, trackers : [Attrs -> Trackers],
                      count : Nat, severities : [Tags -> Nat]]
             r == entries[n]
             s == [r.severities EXCEPT ![item.tag] = @ + 1]
             first == [NoTally EXCEPT ![item.tag] = 1]
  <2>1. EntryOf(SignalOf[n]) = logs /\ EntryAfter(item, at) = LogEntry(item, at)
    BY <1>7 DEF EntryOf, EntryAfter
  <2>2. CASE n \in DOMAIN entries
    <3>1. r \in logs /\ s \in [Tags -> Nat]
      BY <1>1, <1>4, <2>1, <2>2
    <3>2. LogEntry(item, at) = [first |-> r.first, last |-> at, trackers |-> r.trackers,
                               count |-> r.count + 1, severities |-> s]
      BY <3>1, <2>2 DEF LogEntry
    <3>3. r.first \in Times /\ r.trackers \in [Attrs -> Trackers] /\ r.count + 1 \in Nat
      BY <3>1
    <3> HIDE DEF s, r
    <3>4. LogEntry(item, at) \in logs
      BY <3>1, <3>2, <3>3
    <3> QED
      BY <2>1, <2>2, <3>2, <3>4 DEF r
  <2>3. CASE n \notin DOMAIN entries
    <3>1. first \in [Tags -> Nat]
      BY <1>1, <1>3
    <3>2. LogEntry(item, at) =
            [first |-> at, last |-> at, trackers |-> NewTrackers,
             count |-> 1, severities |-> first]
      BY <2>3 DEF LogEntry
    <3> HIDE DEF first
    <3> QED
      BY <1>2, <2>1, <2>3, <3>1, <3>2
  <2> QED
    BY <2>2, <2>3
<1> QED
  BY <1>1, <1>5, <1>6, <1>7, SignalType
-----------------------------------------------------------------------------
(* What Forget does to the entries, and to the ghosts. *)
LEMMA ForgetProperties ==
  ASSUME NEW names, Forget(names)
  PROVE  /\ DOMAIN entries' = DOMAIN entries \ names
         /\ \A n \in DOMAIN entries' : entries'[n] = entries[n]
         /\ \A n \in Names \ names : /\ owed'[n] = owed[n] /\ tally'[n] = tally[n]
                                     /\ newest'[n] = newest[n]
         /\ \A n \in Names \intersect names : /\ owed'[n] = {} /\ tally'[n] = NoTally
                                              /\ newest'[n] = 0
         /\ intact' \subseteq intact
         /\ \A e \in intact : e \in intact' <=> Head(left[e]).name \notin names
BY DEF Forget

LEMMA ForgetType ==
  ASSUME TypeInv, NEW names, Forget(names)
  PROVE  /\ DOMAIN entries' \subseteq Names
         /\ \A n \in DOMAIN entries' : /\ entries'[n] \in EntryOf(SignalOf[n])
                                       /\ entries'[n].trackers \in SoundTrackers
         /\ intact' \subseteq Exporters
         /\ owed' \in [Names -> SUBSET (Attrs \X Values)]
         /\ newest' \in [Names -> Times]
         /\ tally' \in [Names -> [Tags -> Nat]]
<1>1. /\ DOMAIN entries' \subseteq Names
      /\ \A n \in DOMAIN entries' : /\ entries'[n] \in EntryOf(SignalOf[n])
                                    /\ entries'[n].trackers \in SoundTrackers
      /\ intact' \subseteq Exporters
  <2>1. /\ DOMAIN entries' = DOMAIN entries \ names
        /\ \A n \in DOMAIN entries' : entries'[n] = entries[n]
        /\ intact' \subseteq intact
    BY ForgetProperties
  <2>2. /\ DOMAIN entries \subseteq Names /\ intact \subseteq Exporters
        /\ \A n \in DOMAIN entries : /\ entries[n] \in EntryOf(SignalOf[n])
                                     /\ entries[n].trackers \in SoundTrackers
    BY DEF TypeInv, TypeOK
  <2> QED
    BY <2>1, <2>2
<1>2. 0 \in Times /\ NoTally \in [Tags -> Nat]
  BY LoadType DEF TypeInv, NoTally
<1>3. /\ owed \in [Names -> SUBSET (Attrs \X Values)]
      /\ newest \in [Names -> Times]
      /\ tally \in [Names -> [Tags -> Nat]]
  BY DEF TypeInv, TypeOK
<1>4. /\ owed' \in [Names -> SUBSET (Attrs \X Values)]
      /\ newest' \in [Names -> Times]
      /\ tally' \in [Names -> [Tags -> Nat]]
  BY <1>2, <1>3 DEF Forget
<1> QED
  BY <1>1, <1>4

LEMMA InitType == Init => TypeInv
<1> SUFFICES ASSUME Init PROVE TypeInv
  OBVIOUS
<1> USE DEF Init
<1>1. load \in Workloads /\ load.time \in Nat /\ load.exports \in Nat
  BY CatalogAssumption
<1>2. 0 \in Times /\ <<>> \in Seq(Item) /\ <<>> \in Seq(Pairs) /\ NoTally \in [Tags -> Nat]
  BY <1>1, EmptySeq DEF Times, NoTally
<1>3. 1 \in DOMAIN Signals
  BY DEF Signals
<1>4. DOMAIN entries = {}
  OBVIOUS
<1>5. now \in Times /\ DOMAIN entries \subseteq Names
      /\ {prevWindow, currWindow} \subseteq Windows \union {NoWindow}
      /\ \A n \in DOMAIN entries : /\ entries[n] \in EntryOf(SignalOf[n])
                                   /\ entries[n].trackers \in SoundTrackers
  BY <1>2, <1>4
<1>6. /\ pc \in [Exporters -> {"idle", "record", "attrs", "batch"}]
      /\ \A e \in Exporters : pc[e] = "idle"
      /\ msg \in [Exporters -> Seq(Item)] /\ left \in [Exporters -> Seq(Item)]
      /\ calls \in [Exporters -> Seq(Pairs)] /\ clock \in [Exporters -> Times]
  BY <1>2
<1>7. /\ cutoff \in [Pruners -> -TTL .. load.time \union {NoTime}]
      /\ turn \in [Pruners -> DOMAIN Signals]
      /\ resetAt \in 0 .. 2 /\ exports \in 0 .. load.exports
  BY <1>1, <1>3
<1>8. /\ intact \subseteq Exporters /\ owed \in [Names -> SUBSET (Attrs \X Values)]
      /\ newest \in [Names -> Times] /\ sizes \subseteq Nat \ {0} /\ old \subseteq Names
      /\ tally \in [Names -> [Tags -> Nat]]
  BY <1>2
<1> QED
  BY <1>1, <1>5, <1>6, <1>7, <1>8 DEF TypeInv, TypeOK

LEMMA TickType == TypeInv /\ Tick => TypeInv'
<1> SUFFICES ASSUME TypeInv, Tick PROVE TypeInv'
  OBVIOUS
<1>1. now' \in Times /\ load' = load
  BY LoadType DEF TypeInv, Tick, exportVars, Times
<1>2. Times' = Times /\ Windows' = Windows /\ \A s : EntryOf(s)' = EntryOf(s)
  BY <1>1, TypesAreFixed
<1> QED
  BY <1>1, <1>2 DEF TypeInv, TypeOK, Tick, windows, exportVars, pruneVars, ghosts

LEMMA ExportBeginType ==
  ASSUME TypeInv, NEW e \in Exporters, ExportBegin(e)
  PROVE  TypeInv'
<1>1. load' = load
  BY DEF ExportBegin
<1>2. Times' = Times /\ Windows' = Windows /\ \A s : EntryOf(s)' = EntryOf(s)
  BY <1>1, TypesAreFixed
<1>3. PICK m \in load.messages : Continue(e, m, m)
  BY DEF ExportBegin
<1>4. m \in Seq(Item)
  BY LoadType DEF TypeInv
<1>5. /\ pc' \in [Exporters -> {"idle", "record", "attrs", "batch"}]
      /\ left' \in [Exporters -> Seq(Item)] /\ msg' \in [Exporters -> Seq(Item)]
      /\ clock' \in [Exporters -> Times]
      /\ \A x \in Exporters : /\ pc'[x] \in {"record", "attrs"} => left'[x] # <<>>
                              /\ pc'[x] = "batch" => TotalPoints(msg'[x]) > 0
  BY <1>3, <1>4, ContinueType DEF TypeInv
<1>6. exports' \in 0 .. load.exports
  BY LoadType DEF ExportBegin, TypeInv, TypeOK
<1> QED
  BY <1>1, <1>2, <1>5, <1>6 DEF TypeInv, TypeOK, ExportBegin, windows, pruneVars, ghosts

LEMMA RecordType ==
  ASSUME TypeInv, NEW e \in Exporters, Record(e)
  PROVE  TypeInv'
<1> DEFINE item == Head(left[e])
           n == item.name
           new == EntryAfter(item, clock[e])
<1>1. load' = load
  BY DEF Record
<1>2. Times' = Times /\ Windows' = Windows /\ \A s : EntryOf(s)' = EntryOf(s)
  BY <1>1, TypesAreFixed
<1>3. item \in Item /\ n \in Names /\ item.tag \in Tags /\ clock[e] \in Times
  <2>1. left[e] \in Seq(Item) /\ left[e] # <<>>
    BY DEF TypeInv, TypeOK, Record
  <2>2. item \in Item
    BY <2>1, HeadTailProperties
  <2> QED
    BY <2>2, ItemType DEF TypeInv, TypeOK
<1>4. /\ new \in EntryOf(SignalOf[n])
      /\ new.trackers = IF n \in DOMAIN entries THEN entries[n].trackers ELSE NewTrackers
  BY <1>3, EntryAfterType
<1>5. new.trackers \in SoundTrackers
  BY <1>4, NewTrackersAreSound DEF TypeInv
<1>6. entries' = [k \in DOMAIN entries \union {n} |-> IF k = n THEN new ELSE entries[k]]
  BY DEF Record
<1>7. calls' = [calls EXCEPT ![e] = AttributeCalls(item)]
  BY DEF Record
<1>8. AttributeCalls(item) \in Seq(Pairs)
  BY <1>3, AttributeCallsProperties
<1>9. tally' = [tally EXCEPT ![n][item.tag] = @ + 1]
  BY DEF Record
<1>10. newest' \in [Names -> Times]
  BY <1>3 DEF Record, TypeInv, TypeOK
<1> HIDE DEF item, n, new
<1>11. /\ DOMAIN entries' \subseteq Names
       /\ \A k \in DOMAIN entries' : /\ entries'[k] \in EntryOf(SignalOf[k])
                                     /\ entries'[k].trackers \in SoundTrackers
  <2>1. /\ DOMAIN entries \subseteq Names
        /\ \A k \in DOMAIN entries : /\ entries[k] \in EntryOf(SignalOf[k])
                                     /\ entries[k].trackers \in SoundTrackers
    BY DEF TypeInv, TypeOK
  <2> QED
    BY <1>3, <1>4, <1>5, <1>6, <2>1
<1>12. calls' \in [Exporters -> Seq(Pairs)]
  BY <1>7, <1>8 DEF TypeInv, TypeOK
<1>13. tally' \in [Names -> [Tags -> Nat]]
  BY <1>3, <1>9 DEF TypeInv, TypeOK
<1>14. /\ pc' \in [Exporters -> {"idle", "record", "attrs", "batch"}]
       /\ clock' \in [Exporters -> Times]
       /\ \A x \in Exporters : /\ pc'[x] \in {"record", "attrs"} => left[x] # <<>>
                               /\ pc'[x] = "batch" => TotalPoints(msg[x]) > 0
  BY LoadType DEF TypeInv, TypeOK, Record
<1>15. intact' \subseteq Exporters
  BY DEF TypeInv, TypeOK, Record
<1> QED
  BY <1>1, <1>2, <1>10, <1>11, <1>12, <1>13, <1>14, <1>15
  DEF TypeInv, TypeOK, Record, windows, pruneVars

LEMMA RecordAttributesType ==
  ASSUME TypeInv, NEW e \in Exporters, RecordAttributes(e)
  PROVE  TypeInv'
<1> DEFINE n == Head(left[e]).name
           kvs == Head(calls[e])
           taken == Tracked(entries[n].trackers, kvs)
<1>1. load' = load
  BY DEF RecordAttributes
<1>2. Times' = Times /\ Windows' = Windows /\ \A s : EntryOf(s)' = EntryOf(s)
  BY <1>1, TypesAreFixed
<1>3. n \in Names /\ kvs \in Pairs /\ Tail(calls[e]) \in Seq(Pairs)
  <2>1. left[e] \in Seq(Item) /\ left[e] # <<>> /\ calls[e] \in Seq(Pairs) /\ calls[e] # <<>>
    BY DEF TypeInv, TypeOK, RecordAttributes
  <2> QED
    BY <2>1, HeadTailProperties, ItemType
<1>4. ToSet(kvs) \subseteq Attrs \X Values
  BY <1>3, ToSetType DEF Pairs
<1>5. n \in DOMAIN entries => taken \in SoundTrackers
  BY <1>3, TrackedProperties DEF TypeInv
<1>6. entries' = IF n \in DOMAIN entries
                 THEN [entries EXCEPT ![n] = [@ EXCEPT !.trackers = taken]]
                 ELSE entries
  BY DEF RecordAttributes
<1>7. calls' \in [Exporters -> Seq(Pairs)]
  BY <1>3 DEF TypeInv, TypeOK, RecordAttributes
<1>8. owed' \in [Names -> SUBSET (Attrs \X Values)]
  BY <1>3, <1>4 DEF TypeInv, TypeOK, RecordAttributes
<1> HIDE DEF n, kvs, taken
<1>9. /\ DOMAIN entries \subseteq Names
      /\ \A k \in DOMAIN entries : /\ entries[k] \in EntryOf(SignalOf[k])
                                   /\ entries[k].trackers \in SoundTrackers
  BY DEF TypeInv, TypeOK
<1>10. /\ DOMAIN entries' = DOMAIN entries
       /\ \A k \in DOMAIN entries : /\ entries'[k] \in EntryOf(SignalOf[k])
                                    /\ entries'[k].trackers \in SoundTrackers
  <2>1. CASE n \in DOMAIN entries
    <3>1. taken \in [Attrs -> Trackers] /\ taken \in SoundTrackers
      BY <1>5, <2>1, SoundTrackersType
    <3>2. entries[n] \in EntryOf(SignalOf[n]) /\ SignalOf[n] \in {"metrics", "spans", "logs"}
      BY <1>3, <1>9, <2>1, SignalType
    <3>3. [entries[n] EXCEPT !.trackers = taken] \in EntryOf(SignalOf[n])
      BY <3>1, <3>2 DEF EntryOf
    <3>4. [entries[n] EXCEPT !.trackers = taken].trackers = taken
      BY <3>2 DEF EntryOf
    <3> QED
      BY <1>6, <1>9, <2>1, <3>1, <3>3, <3>4
  <2>2. CASE n \notin DOMAIN entries
    BY <1>6, <1>9, <2>2
  <2> QED
    BY <2>1, <2>2
<1> QED
  BY <1>1, <1>2, <1>7, <1>8, <1>9, <1>10
  DEF TypeInv, TypeOK, RecordAttributes, windows, pruneVars

LEMMA ItemDoneType ==
  ASSUME TypeInv, NEW e \in Exporters, ItemDone(e)
  PROVE  TypeInv'
<1>1. load' = load
  BY DEF ItemDone, Continue
<1>2. Times' = Times /\ Windows' = Windows /\ \A s : EntryOf(s)' = EntryOf(s)
  BY <1>1, TypesAreFixed
<1>3. Continue(e, Tail(left[e]), msg[e])
  BY DEF ItemDone
<1>4. Tail(left[e]) \in Seq(Item) /\ msg[e] \in Seq(Item)
  BY HeadTailProperties DEF TypeInv, TypeOK, ItemDone
<1>5. /\ pc' \in [Exporters -> {"idle", "record", "attrs", "batch"}]
      /\ left' \in [Exporters -> Seq(Item)] /\ msg' \in [Exporters -> Seq(Item)]
      /\ clock' \in [Exporters -> Times]
      /\ \A x \in Exporters : /\ pc'[x] \in {"record", "attrs"} => left'[x] # <<>>
                              /\ pc'[x] = "batch" => TotalPoints(msg'[x]) > 0
  BY <1>3, <1>4, ContinueType DEF TypeInv
<1>6. intact' \subseteq Exporters
  BY DEF TypeInv, TypeOK, ItemDone
<1> QED
  BY <1>1, <1>2, <1>5, <1>6 DEF TypeInv, TypeOK, ItemDone, windows, pruneVars

(* The points of a batch, and the time it was read at. *)
LEMMA BatchType ==
  ASSUME TypeInv, NEW e \in Exporters, RecordBatch(e)
  PROVE  TotalPoints(msg[e]) \in Nat \ {0} /\ clock[e] \in Times
<1>1. msg[e] \in Seq(Item) /\ TotalPoints(msg[e]) > 0 /\ clock[e] \in Times
  BY DEF TypeInv, TypeOK, RecordBatch
<1> QED
  BY <1>1, TotalPointsType

(* A window that takes a batch more. *)
LEMMA GrownWindow ==
  ASSUME NEW w \in Windows, NEW total \in Nat \ {0}
  PROVE  LET grown == [w EXCEPT !.points = @ + total, !.batches = @ + 1]
         IN  /\ grown \in Windows
             /\ grown.points = w.points + total /\ grown.batches = w.batches + 1
             /\ grown.start = w.start
<1>1. /\ w.points + total \in Nat \ {0} /\ w.batches + 1 \in Nat \ {0}
      /\ w.start \in Times
  BY DEF Windows
<1>2. [w EXCEPT !.points = @ + total, !.batches = @ + 1] =
        [points |-> w.points + total, batches |-> w.batches + 1, start |-> w.start]
  <2> DEFINE p == w.points + total
             b == w.batches + 1
             u == [w EXCEPT !.points = p]
  <2>1. u = [points |-> p, batches |-> w.batches, start |-> w.start]
    <3> HIDE DEF p
    <3> QED
      BY DEF Windows
  <2> HIDE DEF p, b, u
  <2>2. [u EXCEPT !.batches = b] = [points |-> p, batches |-> b, start |-> w.start]
    BY <2>1
  <2>3. [w EXCEPT !.points = p, !.batches = b] = [u EXCEPT !.batches = b]
    BY DEF u
  <2> QED
    BY <2>2, <2>3 DEF p, b
<1> QED
  BY <1>1, <1>2 DEF Windows

LEMMA RecordBatchType ==
  ASSUME TypeInv, NEW e \in Exporters, RecordBatch(e)
  PROVE  TypeInv'
<1> DEFINE total == TotalPoints(msg[e])
           at == clock[e]
           opened == [points |-> total, batches |-> 1, start |-> at]
           grown == [currWindow EXCEPT !.points = @ + total, !.batches = @ + 1]
<1>1. load' = load
  BY DEF RecordBatch
<1>2. Times' = Times /\ Windows' = Windows /\ \A s : EntryOf(s)' = EntryOf(s)
  BY <1>1, TypesAreFixed
<1>3. total \in Nat \ {0} /\ at \in Times
  BY BatchType
<1>4. /\ currWindow' = opened \/ (currWindow # NoWindow /\ currWindow' = grown)
      /\ prevWindow' \in {prevWindow, currWindow}
  BY DEF RecordBatch, BatchWindows
<1>5. sizes' = sizes \union {total}
  BY DEF RecordBatch
<1> HIDE DEF total, at
<1>6. opened \in Windows
  BY <1>3 DEF Windows
<1>7. currWindow # NoWindow => grown \in Windows
  BY <1>3, GrownWindow DEF TypeInv, TypeOK
<1>8. {prevWindow', currWindow'} \subseteq Windows \union {NoWindow}
  BY <1>4, <1>6, <1>7 DEF TypeInv, TypeOK
<1>9. /\ pc' \in [Exporters -> {"idle", "record", "attrs", "batch"}]
      /\ msg' \in [Exporters -> Seq(Item)]
      /\ clock' \in [Exporters -> Times]
      /\ \A x \in Exporters : /\ pc'[x] \in {"record", "attrs"} => left[x] # <<>>
                              /\ pc'[x] = "batch" => TotalPoints(msg'[x]) > 0
  <2>1. 0 \in Times /\ <<>> \in Seq(Item)
    BY LoadType, EmptySeq DEF TypeInv
  <2>2. /\ pc' = [pc EXCEPT ![e] = "idle"]
        /\ msg' = [msg EXCEPT ![e] = <<>>] /\ clock' = [clock EXCEPT ![e] = 0]
    BY DEF RecordBatch
  <2>3. \A x \in Exporters \ {e} : pc'[x] = pc[x] /\ msg'[x] = msg[x]
    BY <2>2 DEF TypeInv, TypeOK
  <2>4. pc'[e] = "idle"
    BY <2>2 DEF TypeInv, TypeOK
  <2> QED
    BY <2>1, <2>2, <2>3, <2>4 DEF TypeInv, TypeOK
<1>10. sizes' \subseteq Nat \ {0}
  BY <1>3, <1>5 DEF TypeInv, TypeOK
<1> QED
  BY <1>1, <1>2, <1>8, <1>9, <1>10 DEF TypeInv, TypeOK, RecordBatch, pruneVars

LEMMA ResetStepType == TypeInv /\ ResetStep => TypeInv'
<1> SUFFICES ASSUME TypeInv, ResetStep PROVE TypeInv'
  OBVIOUS
<1> DEFINE signal == Signals[resetAt + 1]
<1>1. load' = load
  BY DEF ResetStep, exportVars
<1>2. Times' = Times /\ Windows' = Windows /\ \A s : EntryOf(s)' = EntryOf(s)
  BY <1>1, TypesAreFixed
<1>3. Forget(NamesOf(signal))
  BY DEF ResetStep, Clear
<1>4. /\ DOMAIN entries' \subseteq Names
      /\ \A n \in DOMAIN entries' : /\ entries'[n] \in EntryOf(SignalOf[n])
                                    /\ entries'[n].trackers \in SoundTrackers
      /\ intact' \subseteq Exporters
      /\ owed' \in [Names -> SUBSET (Attrs \X Values)]
      /\ newest' \in [Names -> Times]
      /\ tally' \in [Names -> [Tags -> Nat]]
  BY <1>3, ForgetType
<1>5. {prevWindow', currWindow'} \subseteq Windows \union {NoWindow}
      /\ sizes' \subseteq Nat \ {0}
  BY DEF TypeInv, TypeOK, ResetStep, Clear
<1>6. resetAt' \in 0 .. 2
  <2>1. Len(Signals) = 3
    BY DEF Signals
  <2> QED
    BY <2>1 DEF TypeInv, TypeOK, ResetStep
<1>7. old' \subseteq Names
  BY <1>4 DEF ResetStep
<1> QED
  BY <1>1, <1>2, <1>4, <1>5, <1>6, <1>7
  DEF TypeInv, TypeOK, ResetStep, exportVars, pruneVars

LEMMA PruneBeginType ==
  ASSUME TypeInv, NEW p \in Pruners, PruneBegin(p)
  PROVE  TypeInv'
<1>1. load' = load
  BY DEF PruneBegin, exportVars
<1>2. Times' = Times /\ Windows' = Windows /\ \A s : EntryOf(s)' = EntryOf(s)
  BY <1>1, TypesAreFixed
<1>3. now - TTL \in -TTL .. load.time
  BY LoadType, CatalogAssumption DEF TypeInv, TypeOK, Times
<1>4. cutoff' \in [Pruners -> -TTL .. load.time \union {NoTime}]
  BY <1>3 DEF TypeInv, TypeOK, PruneBegin
<1> QED
  BY <1>1, <1>2, <1>4 DEF TypeInv, TypeOK, PruneBegin, windows, exportVars, ghosts

LEMMA PruneType ==
  ASSUME TypeInv, NEW p \in Pruners, Prune(p)
  PROVE  TypeInv'
<1> DEFINE stale == Stale(Signals[turn[p]], cutoff[p])
<1>1. load' = load
  BY DEF Prune, exportVars
<1>2. Times' = Times /\ Windows' = Windows /\ \A s : EntryOf(s)' = EntryOf(s)
  BY <1>1, TypesAreFixed
<1>3. Forget(stale)
  BY DEF Prune
<1> HIDE DEF stale
<1>4. /\ DOMAIN entries' \subseteq Names
      /\ \A n \in DOMAIN entries' : /\ entries'[n] \in EntryOf(SignalOf[n])
                                    /\ entries'[n].trackers \in SoundTrackers
      /\ intact' \subseteq Exporters
      /\ owed' \in [Names -> SUBSET (Attrs \X Values)]
      /\ newest' \in [Names -> Times]
      /\ tally' \in [Names -> [Tags -> Nat]]
  BY <1>3, ForgetType
<1>5. DOMAIN Signals = 1 .. 3 /\ Len(Signals) = 3
  BY DEF Signals
<1>6. turn' \in [Pruners -> DOMAIN Signals]
      /\ cutoff' \in [Pruners -> -TTL .. load.time \union {NoTime}]
  BY <1>5 DEF TypeInv, TypeOK, Prune
<1>7. old' \subseteq Names
  BY DEF TypeInv, TypeOK, Prune
<1> QED
  BY <1>1, <1>2, <1>4, <1>6, <1>7
  DEF TypeInv, TypeOK, Prune, windows, exportVars

LEMMA TypeStep == TypeInv /\ [Next]_vars => TypeInv'
<1> SUFFICES ASSUME TypeInv, [Next]_vars PROVE TypeInv'
  OBVIOUS
<1>1. CASE Tick
  BY <1>1, TickType
<1>2. CASE ResetStep
  BY <1>2, ResetStepType
<1>3. ASSUME NEW e \in Exporters, ExportBegin(e) \/ ExportStep(e) PROVE TypeInv'
  BY <1>3, ExportBeginType, RecordType, RecordAttributesType, ItemDoneType, RecordBatchType
  DEF ExportStep
<1>4. ASSUME NEW p \in Pruners, PruneBegin(p) \/ Prune(p) PROVE TypeInv'
  BY <1>4, PruneBeginType, PruneType
<1>5. CASE UNCHANGED vars
  <2>1. load' = load
    BY <1>5 DEF vars, exportVars
  <2>2. Times' = Times /\ Windows' = Windows /\ \A s : EntryOf(s)' = EntryOf(s)
    BY <2>1, TypesAreFixed
  <2> QED
    BY <1>5, <2>2 DEF TypeInv, TypeOK, vars, windows, exportVars, pruneVars, ghosts
<1> QED
  BY <1>1, <1>2, <1>3, <1>4, <1>5 DEF Next

(* In every behaviour of the catalogs the variables have their types, the  *)
(* entries of each catalog the fields of its kind, and no tracker lists a  *)
(* value twice or grows over its cap.                                      *)
THEOREM TypesHold == Spec => []TypeInv
BY InitType, TypeStep, PTL DEF Spec
-----------------------------------------------------------------------------
(* What Record and RecordAttributes do to the entries.                     *)
LEMMA RecordEntries ==
  ASSUME TypeInv, NEW e \in Exporters, Record(e)
  PROVE  LET item == Head(left[e])
             n == item.name
         IN  /\ item \in Item /\ n \in Names /\ item.tag \in Tags /\ clock[e] \in Times
             /\ DOMAIN entries' = DOMAIN entries \union {n}
             /\ entries'[n] = EntryAfter(item, clock[e])
             /\ \A k \in DOMAIN entries \ {n} : entries'[k] = entries[k]
<1>1. left[e] \in Seq(Item) /\ left[e] # <<>>
  BY DEF TypeInv, TypeOK, Record
<1>2. Head(left[e]) \in Item
  BY <1>1, HeadTailProperties
<1>3. clock[e] \in Times
  BY DEF TypeInv, TypeOK
<1> QED
  BY <1>2, <1>3, ItemType DEF Record

LEMMA RecordAttributesEntries ==
  ASSUME TypeInv, NEW e \in Exporters, RecordAttributes(e)
  PROVE  LET n == Head(left[e]).name
             kvs == Head(calls[e])
         IN  /\ n \in Names /\ kvs \in Pairs
             /\ DOMAIN entries' = DOMAIN entries
             /\ \A k \in DOMAIN entries \ {n} : entries'[k] = entries[k]
             /\ n \in DOMAIN entries =>
                  entries'[n] = [entries[n] EXCEPT !.trackers = Tracked(entries[n].trackers, kvs)]
<1>1. left[e] \in Seq(Item) /\ left[e] # <<>> /\ calls[e] \in Seq(Pairs) /\ calls[e] # <<>>
  BY DEF TypeInv, TypeOK, RecordAttributes
<1>2. Head(left[e]).name \in Names /\ Head(calls[e]) \in Pairs
  BY <1>1, HeadTailProperties, ItemType
<1> QED
  BY <1>2 DEF RecordAttributes

LEMMA EntryAfterCounts ==
  ASSUME TypeInv, NEW item \in Item, NEW at \in Times
  PROVE  LET n == item.name
             seen == n \in DOMAIN entries
             new == EntryAfter(item, at)
         IN  /\ SignalOf[n] = "spans" =>
                  /\ new.count = IF seen THEN entries[n].count + 1 ELSE 1
                  /\ new.status = IF seen /\ item.tag # "error"
                                  THEN entries[n].status ELSE item.tag
             /\ SignalOf[n] = "logs" =>
                  /\ new.count = IF seen THEN entries[n].count + 1 ELSE 1
                  /\ new.severities =
                       IF seen THEN [entries[n].severities EXCEPT ![item.tag] = @ + 1]
                       ELSE [NoTally EXCEPT ![item.tag] = 1]
<1> DEFINE n == item.name
           r == entries[n]
<1>1. n \in DOMAIN entries => r \in EntryOf(SignalOf[n])
  BY DEF TypeInv, TypeOK
<1>2. CASE SignalOf[n] = "spans"
  <2>1. EntryAfter(item, at) = SpanEntry(item, at)
    BY <1>2 DEF EntryAfter
  <2>2. CASE n \in DOMAIN entries
    <3> DEFINE s == IF item.tag = "error" THEN "error" ELSE r.status
    <3>1. SpanEntry(item, at) = [first |-> r.first, last |-> at, trackers |-> r.trackers,
                                 count |-> r.count + 1, status |-> s]
      BY <1>1, <1>2, <2>2 DEF SpanEntry, EntryOf
    <3> QED
      BY <1>2, <2>1, <2>2, <3>1
  <2>3. CASE n \notin DOMAIN entries
    BY <1>2, <2>1, <2>3 DEF SpanEntry
  <2> QED
    BY <2>2, <2>3
<1>3. CASE SignalOf[n] = "logs"
  <2>1. EntryAfter(item, at) = LogEntry(item, at)
    BY <1>3 DEF EntryAfter
  <2>2. CASE n \in DOMAIN entries
    <3> DEFINE s == [r.severities EXCEPT ![item.tag] = @ + 1]
    <3>1. LogEntry(item, at) = [first |-> r.first, last |-> at, trackers |-> r.trackers,
                                count |-> r.count + 1, severities |-> s]
      BY <1>1, <1>3, <2>2 DEF LogEntry, EntryOf
    <3> QED
      BY <1>3, <2>1, <2>2, <3>1
  <2>3. CASE n \notin DOMAIN entries
    BY <1>3, <2>1, <2>3 DEF LogEntry
  <2> QED
    BY <2>2, <2>3
<1> QED
  BY <1>2, <1>3
-----------------------------------------------------------------------------
LEMMA ForgetTally ==
  ASSUME TypeInv, TallyInv, NEW names, Forget(names)
  PROVE  TallyInv'
<1>1. /\ DOMAIN entries' = DOMAIN entries \ names
      /\ \A n \in DOMAIN entries' : entries'[n] = entries[n]
      /\ \A n \in Names \ names : tally'[n] = tally[n]
      /\ \A n \in Names \intersect names : tally'[n] = NoTally
  BY ForgetProperties
<1>2. DOMAIN entries \subseteq Names
  BY DEF TypeInv, TypeOK
<1>3. ASSUME NEW n \in DOMAIN entries'
      PROVE  n \in DOMAIN entries /\ entries'[n] = entries[n] /\ tally'[n] = tally[n]
  BY <1>1, <1>2
<1>4. EntriesAccountForItems'
  BY <1>3 DEF TallyInv, EntriesAccountForItems
<1>5. \A n \in Names \ DOMAIN entries' : tally'[n] = NoTally
  BY <1>1, <1>2 DEF TallyInv
<1> QED
  BY <1>4, <1>5 DEF TallyInv, NoTally

LEMMA RecordTally ==
  ASSUME TypeInv, TallyInv, NEW e \in Exporters, Record(e)
  PROVE  TallyInv'
<1> DEFINE item == Head(left[e])
           n == item.name
           at == clock[e]
           tag == item.tag
           new == EntryAfter(item, at)
           t == tally[n]
<1>1. /\ item \in Item /\ n \in Names /\ tag \in Tags /\ at \in Times
      /\ DOMAIN entries' = DOMAIN entries \union {n}
      /\ entries'[n] = new
      /\ \A k \in DOMAIN entries \ {n} : entries'[k] = entries[k]
  BY RecordEntries
<1>2. tally' = [tally EXCEPT ![n][tag] = @ + 1]
  BY DEF Record
<1>3. /\ SignalOf[n] = "spans" =>
           /\ new.count = IF n \in DOMAIN entries THEN entries[n].count + 1 ELSE 1
           /\ new.status = IF n \in DOMAIN entries /\ tag # "error"
                           THEN entries[n].status ELSE tag
      /\ SignalOf[n] = "logs" =>
           /\ new.count = IF n \in DOMAIN entries THEN entries[n].count + 1 ELSE 1
           /\ new.severities =
                IF n \in DOMAIN entries THEN [entries[n].severities EXCEPT ![tag] = @ + 1]
                ELSE [NoTally EXCEPT ![tag] = 1]
  BY <1>1, EntryAfterCounts
<1> HIDE DEF new, tag, n, item, at
<1>4. tally \in [Names -> [Tags -> Nat]] /\ t \in [Tags -> Nat]
  BY <1>1 DEF TypeInv, TypeOK
<1>5. tally'[n] = [t EXCEPT ![tag] = @ + 1] /\ \A k \in Names \ {n} : tally'[k] = tally[k]
  BY <1>1, <1>2, <1>4
<1>6. DOMAIN entries \subseteq Names
  BY DEF TypeInv, TypeOK
<1> DEFINE u == tally'[n]
<1>7. /\ SignalOf[n] = "spans" => (new.status = "error" <=> u["error"] > 0)
      /\ SignalOf[n] = "logs" => new.severities = u
      /\ SignalOf[n] # "metrics" => new.count = u["unset"] + u["ok"] + u["error"]
  <2> HIDE DEF t
  <2>1. /\ u["error"] = IF tag = "error" THEN t["error"] + 1 ELSE t["error"]
        /\ u["unset"] + u["ok"] + u["error"] = t["unset"] + t["ok"] + t["error"] + 1
        /\ \A g \in Tags : t[g] \in Nat
    BY <1>1, <1>4, <1>5 DEF Tags
  <2>2. SignalOf[n] \in {"metrics", "spans", "logs"}
    BY <1>1, SignalType
  <2>3. CASE n \in DOMAIN entries
    <3>1. /\ SignalOf[n] = "spans" => (entries[n].status = "error" <=> t["error"] > 0)
          /\ SignalOf[n] = "logs" => entries[n].severities = t
          /\ SignalOf[n] # "metrics" => entries[n].count = t["unset"] + t["ok"] + t["error"]
      BY <2>3 DEF TallyInv, EntriesAccountForItems, t
    <3>2. SignalOf[n] = "spans" => (new.status = "error" <=> u["error"] > 0)
      <4> SUFFICES ASSUME SignalOf[n] = "spans"
                   PROVE  new.status = "error" <=> u["error"] > 0
        OBVIOUS
      <4>1. CASE tag = "error"
        <5>1. u["error"] > 0
          BY <2>1, <4>1 DEF Tags
        <5> QED
          BY <1>3, <4>1, <5>1
      <4>2. CASE tag # "error"
        BY <1>3, <2>1, <2>3, <3>1, <4>2
      <4> QED
        BY <4>1, <4>2
    <3>3. SignalOf[n] = "logs" => new.severities = u
      BY <1>3, <1>5, <2>3, <3>1
    <3>4. SignalOf[n] # "metrics" => new.count = u["unset"] + u["ok"] + u["error"]
      BY <1>3, <2>1, <2>2, <2>3, <3>1
    <3> QED
      BY <3>2, <3>3, <3>4
  <2>4. CASE n \notin DOMAIN entries
    <3>1. t = NoTally /\ t["unset"] = 0 /\ t["ok"] = 0 /\ t["error"] = 0
      BY <1>1, <2>4 DEF TallyInv, NoTally, Tags, t
    <3>2. SignalOf[n] = "spans" => (new.status = "error" <=> u["error"] > 0)
      BY <1>3, <2>1, <2>4, <3>1
    <3>3. SignalOf[n] = "logs" => new.severities = u
      BY <1>1, <1>3, <1>5, <2>4, <3>1 DEF NoTally
    <3>4. SignalOf[n] # "metrics" => new.count = u["unset"] + u["ok"] + u["error"]
      BY <1>3, <2>1, <2>2, <2>4, <3>1
    <3> QED
      BY <3>2, <3>3, <3>4
  <2> QED
    BY <2>3, <2>4
<1>8. ASSUME NEW k \in DOMAIN entries \ {n}
      PROVE  entries'[k] = entries[k] /\ tally'[k] = tally[k]
  BY <1>1, <1>5, <1>6
<1>9. EntriesAccountForItems'
  BY <1>1, <1>7, <1>8 DEF TallyInv, EntriesAccountForItems
<1>10. \A k \in Names \ DOMAIN entries' : tally'[k] = NoTally
  BY <1>1, <1>5 DEF TallyInv
<1> QED
  BY <1>9, <1>10 DEF TallyInv, NoTally

LEMMA RecordAttributesTally ==
  ASSUME TypeInv, TallyInv, NEW e \in Exporters, RecordAttributes(e)
  PROVE  TallyInv'
<1> DEFINE n == Head(left[e]).name
           taken == Tracked(entries[n].trackers, Head(calls[e]))
<1>1. /\ DOMAIN entries' = DOMAIN entries
      /\ \A k \in DOMAIN entries \ {n} : entries'[k] = entries[k]
      /\ n \in DOMAIN entries => entries'[n] = [entries[n] EXCEPT !.trackers = taken]
  BY RecordAttributesEntries
<1> HIDE DEF n, taken
<1>2. tally' = tally
  BY DEF RecordAttributes
<1>3. ASSUME NEW k \in DOMAIN entries
      PROVE  /\ SignalOf[k] = "spans" => entries'[k].status = entries[k].status
             /\ SignalOf[k] = "logs" => entries'[k].severities = entries[k].severities
             /\ SignalOf[k] # "metrics" => entries'[k].count = entries[k].count
  <2>1. entries[k] \in EntryOf(SignalOf[k]) /\ SignalOf[k] \in {"metrics", "spans", "logs"}
    BY SignalType DEF TypeInv, TypeOK
  <2> QED
    BY <1>1, <2>1 DEF EntryOf
<1>4. EntriesAccountForItems'
  <2> SUFFICES ASSUME NEW k \in DOMAIN entries
               PROVE  /\ SignalOf[k] = "spans" =>
                           (entries'[k].status = "error" <=> tally[k]["error"] > 0)
                      /\ SignalOf[k] = "logs" => entries'[k].severities = tally[k]
                      /\ SignalOf[k] # "metrics" =>
                           entries'[k].count = tally[k]["unset"] + tally[k]["ok"] + tally[k]["error"]
    BY <1>1, <1>2 DEF EntriesAccountForItems
  <2> QED
    BY <1>3 DEF TallyInv, EntriesAccountForItems
<1> QED
  BY <1>1, <1>2, <1>4 DEF TallyInv, NoTally

LEMMA TallyStep == TypeInv /\ TallyInv /\ [Next]_vars => TallyInv'
<1> SUFFICES ASSUME TypeInv, TallyInv, [Next]_vars PROVE TallyInv'
  OBVIOUS
<1>1. CASE UNCHANGED <<entries, tally>>
  BY <1>1 DEF TallyInv, EntriesAccountForItems, NoTally
<1>2. CASE Tick
  BY <1>1, <1>2 DEF Tick, ghosts
<1>3. CASE ResetStep
  BY <1>3, ForgetTally DEF ResetStep, Clear
<1>4. ASSUME NEW e \in Exporters, ExportBegin(e) \/ ExportStep(e) PROVE TallyInv'
  <2>1. CASE ExportBegin(e) \/ ItemDone(e) \/ RecordBatch(e)
    BY <1>1, <2>1 DEF ExportBegin, ItemDone, RecordBatch, ghosts
  <2>2. CASE Record(e)
    BY <2>2, RecordTally
  <2>3. CASE RecordAttributes(e)
    BY <2>3, RecordAttributesTally
  <2> QED
    BY <1>4, <2>1, <2>2, <2>3 DEF ExportStep
<1>5. ASSUME NEW p \in Pruners, PruneBegin(p) \/ Prune(p) PROVE TallyInv'
  BY <1>1, <1>5, ForgetTally DEF PruneBegin, Prune, ghosts
<1>6. CASE UNCHANGED vars
  BY <1>1, <1>6 DEF vars, ghosts
<1> QED
  BY <1>2, <1>3, <1>4, <1>5, <1>6 DEF Next

(* Entries account for exactly the items recorded since they were created, *)
(* whatever exports, prunes and resets there are.                          *)
THEOREM EntriesAreAccounts == Spec => []EntriesAccountForItems
<1>1. Init => TallyInv
  BY DEF Init, TallyInv, EntriesAccountForItems
<1>2. TallyInv => EntriesAccountForItems
  BY DEF TallyInv
<1> QED
  BY <1>1, <1>2, TypesHold, TallyStep, PTL DEF Spec
-----------------------------------------------------------------------------
(* handleReset clears the catalogs one by one; what an earlier step has    *)
(* cleared stays cleared of the old entries.                               *)
LEMMA ResetStepForgets ==
  ASSUME TypeInv, ResetInv, ResetStep
  PROVE  ResetInv'
<1> DEFINE signal == Signals[resetAt + 1]
<1>1. DOMAIN entries' = DOMAIN entries \ NamesOf(signal)
  <2>1. Forget(NamesOf(signal))
    BY DEF ResetStep, Clear
  <2> QED
    BY <2>1, ForgetProperties
<1>2. old' = (IF resetAt = 0 THEN DOMAIN entries ELSE old) \intersect DOMAIN entries'
  BY DEF ResetStep
<1>3. resetAt \in 0 .. 2 /\ Len(Signals) = 3 /\ resetAt' = (resetAt + 1) % Len(Signals)
  BY DEF ResetStep, Signals, TypeInv, TypeOK
<1>4. old' \subseteq Names /\ \A n \in old' : SignalOf[n] # signal
  BY <1>1, <1>2 DEF NamesOf, TypeInv, TypeOK
<1>5. \A n \in Names : SignalOf[n] \in {"metrics", "spans", "logs"}
  BY SignalType
<1>6. CASE resetAt = 0
  <2>1. signal = "metrics" /\ resetAt' = 1
    BY <1>3, <1>6 DEF Signals
  <2> QED
    BY <1>4, <2>1 DEF ResetInv, ResetForgets
<1>7. CASE resetAt = 1
  <2>1. signal = "spans" /\ resetAt' = 2
    BY <1>3, <1>7 DEF Signals
  <2>2. \A n \in old' : SignalOf[n] # "metrics"
    BY <1>2, <1>7 DEF ResetInv
  <2> QED
    BY <1>4, <1>5, <2>1, <2>2 DEF ResetInv, ResetForgets
<1>8. CASE resetAt = 2
  <2>1. signal = "logs" /\ resetAt' = 0
    BY <1>3, <1>8 DEF Signals
  <2>2. \A n \in old' : SignalOf[n] = "logs"
    BY <1>2, <1>8 DEF ResetInv
  <2>3. old' = {}
    BY <1>4, <2>1, <2>2
  <2> QED
    BY <2>1, <2>3 DEF ResetInv, ResetForgets
<1> QED
  BY <1>3, <1>6, <1>7, <1>8

LEMMA ResetInvStep == TypeInv /\ ResetInv /\ [Next]_vars => ResetInv'
<1> SUFFICES ASSUME TypeInv, ResetInv, [Next]_vars PROVE ResetInv'
  OBVIOUS
<1>1. CASE UNCHANGED <<resetAt, old>>
  BY <1>1 DEF ResetInv, ResetForgets
<1>2. CASE ResetStep
  BY <1>2, ResetStepForgets
<1>3. CASE \E p \in Pruners : Prune(p)
  BY <1>3 DEF Prune, ResetInv, ResetForgets
<1>4. CASE Tick \/ (\E p \in Pruners : PruneBegin(p)) \/ UNCHANGED vars
  BY <1>1, <1>4 DEF Tick, PruneBegin, vars, ghosts
<1>5. CASE \E e \in Exporters : ExportBegin(e) \/ ExportStep(e)
  BY <1>1, <1>5 DEF ExportBegin, ExportStep, Record, RecordAttributes, ItemDone,
                    RecordBatch, ghosts
<1> QED
  BY <1>2, <1>3, <1>4, <1>5 DEF Next

(* Once a reset has answered, nothing from before it is left in any of the *)
(* catalogs, whatever exports were under way.                              *)
THEOREM ResetsForget == Spec => []ResetForgets
<1>1. Init => ResetInv
  BY DEF Init, ResetInv, ResetForgets
<1>2. ResetInv => ResetForgets
  BY DEF ResetInv
<1> QED
  BY <1>1, <1>2, TypesHold, ResetInvStep, PTL DEF Spec
-----------------------------------------------------------------------------
(* Two steady windows have the same average.                               *)
LEMMA SteadyAverages ==
  ASSUME NEW s \in Nat, NEW b \in Nat, NEW c \in Nat
  PROVE  (s * b) * c = (s * c) * b /\ (s * b) * c \in Nat
OBVIOUS

LEMMA SteadyGrows ==
  ASSUME NEW s \in Nat, NEW b \in Nat
  PROVE  s * b + s = s * (b + 1) /\ s * 1 = s
OBVIOUS

LEMMA WindowIsNoNoWindow == TypeInv => NoWindow \notin Windows
<1> SUFFICES ASSUME TypeInv PROVE NoWindow \notin Windows
  OBVIOUS
<1>1. Times \subseteq Nat
  BY LoadType DEF TypeInv
<1>2. Windows \subseteq [points : Nat, batches : Nat, start : Nat]
  BY <1>1 DEF Windows
<1> QED
  BY <1>2, CatalogAssumption

(* Only batches of one size have been counted: no rate has changed.        *)
LEMMA RateInvImplies == TypeInv /\ RateInv => RateCheckIsSound
<1> SUFFICES ASSUME TypeInv, RateInv, Cardinality(sizes) <= 1, RateChanged
             PROVE  FALSE
  BY DEF RateCheckIsSound, RateInv, SteadyIsNotChanged
<1>1. prevWindow # NoWindow /\ currWindow # NoWindow
  BY DEF RateChanged
<1>2. IsSteady(prevWindow) /\ IsSteady(currWindow)
  BY <1>1 DEF RateInv
<1>3. sizes # {}
  BY <1>1 DEF RateInv, WindowsAreSuccessive
<1>4. \E s : sizes = {s}
  <2>1. IsFiniteSet(sizes)
    BY DEF RateInv
  <2>2. Cardinality(sizes) \in Nat /\ Cardinality(sizes) # 0
    BY <1>3, <2>1, FS_CardinalityType, FS_EmptySet
  <2>3. Cardinality(sizes) = 1
    BY <2>2
  <2> QED
    BY <2>1, <2>3, FS_Singleton
<1>5. PICK s : sizes = {s}
  BY <1>4
<1>6. s \in Nat
  BY <1>5 DEF TypeInv, TypeOK
<1> DEFINE b == prevWindow.batches
           c == currWindow.batches
<1>7. b \in Nat /\ c \in Nat
  BY <1>1 DEF TypeInv, TypeOK, Windows
<1>8. prevWindow.points = s * b /\ currWindow.points = s * c
  BY <1>2, <1>5 DEF IsSteady
<1>9. prevWindow.points * c = currWindow.points * b /\ prevWindow.points * c \in Nat
  <2> HIDE DEF b, c
  <2> QED
    BY <1>6, <1>7, <1>8, SteadyAverages
<1> QED
  <2> DEFINE x == prevWindow.points * c
             y == currWindow.points * b
  <2>1. 2 * (y - x) > x \/ 2 * (x - y) > x
    BY DEF RateChanged
  <2>2. x = y /\ x \in Nat
    BY <1>9
  <2> HIDE DEF x, y
  <2> QED
    BY <2>1, <2>2

LEMMA RecordBatchRate ==
  ASSUME TypeInv, RateInv, NEW e \in Exporters, RecordBatch(e)
  PROVE  RateInv'
<1> DEFINE total == TotalPoints(msg[e])
           at == clock[e]
           opened == [points |-> total, batches |-> 1, start |-> at]
           grown == [currWindow EXCEPT !.points = @ + total, !.batches = @ + 1]
<1>1. total \in Nat \ {0} /\ at \in Times
  BY BatchType
<1>2. sizes' = sizes \union {total}
  BY DEF RecordBatch
<1>3. BatchWindows(total, at)
  BY DEF RecordBatch
<1> HIDE DEF total, at
<1>4. Times \subseteq Nat /\ WindowDur \in Nat
  BY LoadType, CatalogAssumption DEF TypeInv
<1>5. opened \in Windows /\ opened # NoWindow /\ opened.start = at
      /\ opened.points = total /\ opened.batches = 1
  BY <1>1, WindowIsNoNoWindow DEF Windows
<1>6. ASSUME currWindow # NoWindow
      PROVE  /\ currWindow \in Windows
             /\ grown \in Windows /\ grown # NoWindow /\ grown.start = currWindow.start
             /\ grown.points = currWindow.points + total
             /\ grown.batches = currWindow.batches + 1
  <2>1. currWindow \in Windows
    BY <1>6 DEF TypeInv, TypeOK
  <2> QED
    BY <1>1, <2>1, GrownWindow, WindowIsNoNoWindow
<1> HIDE DEF opened, grown
<1>7. \/ currWindow = NoWindow /\ currWindow' = opened /\ prevWindow' = prevWindow
      \/ /\ currWindow # NoWindow /\ at - currWindow.start >= WindowDur
         /\ currWindow' = opened /\ prevWindow' = currWindow
      \/ currWindow # NoWindow /\ currWindow' = grown /\ prevWindow' = prevWindow
  BY <1>3 DEF BatchWindows, opened, grown
\* What was steady stays so; the batch has the one size there is.
<1>8. ASSUME NEW s \in sizes', sizes' = {s}
      PROVE  s = total /\ (sizes = {} \/ sizes = {s})
  BY <1>2, <1>8
<1>9. ASSUME NEW s \in sizes', sizes' = {s}
      PROVE  opened.points = s * opened.batches
  BY <1>1, <1>5, <1>8, <1>9
<1>10. ASSUME NEW w \in {prevWindow, currWindow} \ {NoWindow},
              NEW s \in sizes', sizes' = {s}
       PROVE  w.points = s * w.batches /\ w.batches \in Nat /\ s = total
  <2>1. currWindow # NoWindow /\ IsSteady(w)
    BY DEF RateInv, WindowsAreSuccessive
  <2>2. sizes = {s}
    BY <1>8, <1>10, <2>1 DEF RateInv, WindowsAreSuccessive
  <2>3. w \in Windows
    BY DEF TypeInv, TypeOK
  <2> QED
    BY <1>8, <1>10, <2>1, <2>2, <2>3 DEF IsSteady, Windows
<1>11. ASSUME currWindow # NoWindow, NEW s \in sizes', sizes' = {s}
       PROVE  grown.points = s * grown.batches
  <2>1. currWindow.points = s * currWindow.batches /\ currWindow.batches \in Nat /\ s = total
    BY <1>10, <1>11
  <2>2. s * currWindow.batches + s = s * (currWindow.batches + 1)
    BY <1>1, <2>1, SteadyGrows
  <2> QED
    BY <1>6, <1>11, <2>1, <2>2
<1>12. ASSUME NEW w \in {prevWindow', currWindow'} \ {NoWindow}
       PROVE  \A s \in sizes' : sizes' = {s} => w.points = s * w.batches
  BY <1>7, <1>9, <1>10, <1>11
<1>13. \A w \in {prevWindow', currWindow'} \ {NoWindow} : IsSteady(w)'
  BY <1>12 DEF IsSteady
<1>14. WindowsAreSuccessive'
  BY <1>1, <1>2, <1>4, <1>5, <1>6, <1>7 DEF RateInv, WindowsAreSuccessive
<1>15. IsFiniteSet(sizes')
  BY <1>2, FS_AddElement DEF RateInv
<1> QED
  BY <1>13, <1>14, <1>15 DEF RateInv

LEMMA RateInvStep == TypeInv /\ RateInv /\ [Next]_vars => RateInv'
<1> SUFFICES ASSUME TypeInv, RateInv, [Next]_vars PROVE RateInv'
  OBVIOUS
<1>1. CASE UNCHANGED <<windows, sizes>>
  BY <1>1 DEF windows, RateInv, WindowsAreSuccessive, IsSteady
<1>2. CASE ResetStep
  <2>1. CASE UNCHANGED <<prevWindow, currWindow, sizes>>
    BY <1>1, <2>1 DEF windows
  <2>2. CASE prevWindow' = NoWindow /\ currWindow' = NoWindow /\ sizes' = {}
    BY <2>2, FS_EmptySet DEF RateInv, WindowsAreSuccessive
  <2> QED
    BY <1>2, <2>1, <2>2 DEF ResetStep, Clear
<1>3. CASE \E e \in Exporters : RecordBatch(e)
  BY <1>3, RecordBatchRate
<1>4. CASE \E p \in Pruners : PruneBegin(p) \/ Prune(p)
  BY <1>1, <1>4 DEF PruneBegin, Prune, ghosts
<1>5. CASE Tick \/ UNCHANGED vars
  BY <1>1, <1>5 DEF Tick, vars, ghosts
<1>6. CASE \E e \in Exporters : \/ ExportBegin(e) \/ Record(e)
                               \/ RecordAttributes(e) \/ ItemDone(e)
  BY <1>1, <1>6 DEF ExportBegin, Record, RecordAttributes, ItemDone, ghosts
<1> QED
  BY <1>2, <1>3, <1>4, <1>5, <1>6 DEF Next, ExportStep

(* The rate warning compares successive windows, and exports of one size   *)
(* never raise it, for windows and messages of any size.                   *)
THEOREM RateChecksAreSound == Spec => []RateCheckIsSound
<1>1. Init => RateInv
  BY FS_EmptySet DEF Init, RateInv, WindowsAreSuccessive
<1> QED
  BY <1>1, RateInvImplies, TypesHold, RateInvStep, PTL DEF Spec
-----------------------------------------------------------------------------
LEMMA TimesAreNumbers ==
  ASSUME TypeInv
  PROVE  /\ now \in Nat /\ MaxDelay \in Nat /\ Times \subseteq Nat
         /\ \A e \in Exporters : clock[e] \in Nat
         /\ \A n \in Names : newest[n] \in Nat
         /\ \A n \in DOMAIN entries : n \in Names /\ entries[n].last \in Nat
<1>1. now \in Nat /\ MaxDelay \in Nat /\ Times \subseteq Nat
  BY LoadType, CatalogAssumption DEF TypeInv
<1>2. /\ clock \in [Exporters -> Times] /\ newest \in [Names -> Times]
      /\ DOMAIN entries \subseteq Names
      /\ \A n \in DOMAIN entries : entries[n] \in EntryOf(SignalOf[n])
  BY DEF TypeInv, TypeOK
<1>3. ASSUME NEW n \in DOMAIN entries
      PROVE  entries[n].last \in Times
  <2>1. entries[n] \in EntryOf(SignalOf[n]) /\ SignalOf[n] \in {"metrics", "spans", "logs"}
    BY <1>2, SignalType
  <2> QED
    BY <2>1 DEF EntryOf
<1> QED
  BY <1>1, <1>2, <1>3

LEMMA ForgetRecent ==
  ASSUME TypeInv, RecentInv, NEW names, Forget(names), UNCHANGED <<now, pc, clock>>
  PROVE  RecentInv'
<1>1. /\ DOMAIN entries' = DOMAIN entries \ names
      /\ \A n \in DOMAIN entries' : entries'[n] = entries[n]
      /\ \A n \in Names \ names : newest'[n] = newest[n]
      /\ \A n \in Names \intersect names : newest'[n] = 0
  BY ForgetProperties
<1>2. \A n \in DOMAIN entries : n \in Names
  BY TimesAreNumbers
<1>3. \A n \in DOMAIN entries' : newest'[n] <= entries'[n].last + MaxDelay
  BY <1>1, <1>2 DEF RecentInv
<1>4. \A n \in Names : newest'[n] <= now'
  BY <1>1, TimesAreNumbers DEF RecentInv
<1> QED
  BY <1>3, <1>4 DEF RecentInv

LEMMA ContinueRecent ==
  ASSUME TypeInv, RecentInv, NEW e \in Exporters, NEW rest, NEW items,
         items \in Seq(Item), Continue(e, rest, items), UNCHANGED <<now, entries, newest>>
  PROVE  RecentInv'
<1> DEFINE next == IF rest # <<>> THEN "record" ELSE AfterLast(items)
<1>1. /\ pc' = [pc EXCEPT ![e] = next]
      /\ clock' = [clock EXCEPT ![e] = IF next = "idle" THEN 0 ELSE now]
  BY DEF Continue
<1> HIDE DEF next
<1>2. ASSUME NEW x \in Exporters, pc'[x] \in {"record", "batch"}
      PROVE  clock'[x] <= now /\ now <= clock'[x] + MaxDelay
  <2>1. CASE x = e
    <3>1. pc'[x] = next /\ clock'[x] = IF next = "idle" THEN 0 ELSE now
      BY <1>1, <2>1 DEF TypeInv, TypeOK
    <3>2. clock'[x] = now
      BY <3>1, <1>2
    <3> QED
      BY <3>2, TimesAreNumbers
  <2>2. CASE x # e
    <3>1. pc'[x] = pc[x] /\ clock'[x] = clock[x]
      BY <1>1, <2>2 DEF TypeInv, TypeOK
    <3> QED
      BY <3>1, <1>2 DEF RecentInv
  <2> QED
    BY <2>1, <2>2
<1> QED
  BY <1>2 DEF RecentInv

LEMMA RecordRecent ==
  ASSUME TypeInv, RecentInv, NEW e \in Exporters, Record(e)
  PROVE  RecentInv'
<1> DEFINE item == Head(left[e])
           n == item.name
           at == clock[e]
<1>1. /\ item \in Item /\ n \in Names /\ at \in Times
      /\ DOMAIN entries' = DOMAIN entries \union {n}
      /\ entries'[n] = EntryAfter(item, at)
      /\ \A k \in DOMAIN entries \ {n} : entries'[k] = entries[k]
  BY RecordEntries
<1>2. entries'[n].last = at
  BY <1>1, EntryAfterType
<1>3. newest' = [newest EXCEPT ![n] = IF n \notin DOMAIN entries \/ at > @ THEN at ELSE @]
  BY DEF Record
<1>4. at <= now /\ now <= at + MaxDelay
  BY DEF Record, RecentInv
<1> HIDE DEF item, n, at
<1>5. newest'[n] \in {at, newest[n]} /\ \A k \in Names \ {n} : newest'[k] = newest[k]
  BY <1>1, <1>3 DEF TypeInv, TypeOK
<1>6. at \in Nat /\ now \in Nat /\ MaxDelay \in Nat /\ newest[n] \in Nat /\ newest[n] <= now
  BY <1>1, TimesAreNumbers DEF RecentInv
<1>7. newest'[n] <= now /\ newest'[n] <= entries'[n].last + MaxDelay
  BY <1>2, <1>4, <1>5, <1>6
<1>8. \A k \in DOMAIN entries' : newest'[k] <= entries'[k].last + MaxDelay
  BY <1>1, <1>5, <1>7, TimesAreNumbers DEF RecentInv
<1>9. now' = now /\ \A x \in Exporters :
        pc'[x] \in {"record", "batch"} => pc'[x] = pc[x] /\ clock'[x] = clock[x]
  BY DEF Record, TypeInv, TypeOK
<1> QED
  BY <1>5, <1>7, <1>8, <1>9 DEF RecentInv

LEMMA RecordAttributesRecent ==
  ASSUME TypeInv, RecentInv, NEW e \in Exporters, RecordAttributes(e)
  PROVE  RecentInv'
<1> DEFINE n == Head(left[e]).name
           taken == Tracked(entries[n].trackers, Head(calls[e]))
<1>1. /\ DOMAIN entries' = DOMAIN entries
      /\ \A k \in DOMAIN entries \ {n} : entries'[k] = entries[k]
      /\ n \in DOMAIN entries => entries'[n] = [entries[n] EXCEPT !.trackers = taken]
  BY RecordAttributesEntries
<1> HIDE DEF n, taken
<1>2. ASSUME NEW k \in DOMAIN entries
      PROVE  entries'[k].last = entries[k].last
  <2>1. entries[k] \in EntryOf(SignalOf[k]) /\ SignalOf[k] \in {"metrics", "spans", "logs"}
    BY SignalType DEF TypeInv, TypeOK
  <2> QED
    BY <1>1, <2>1 DEF EntryOf
<1>3. UNCHANGED <<now, pc, clock, newest>>
  BY DEF RecordAttributes
<1> QED
  BY <1>1, <1>2, <1>3 DEF RecentInv

LEMMA RecordBatchRecent ==
  ASSUME TypeInv, RecentInv, NEW e \in Exporters, RecordBatch(e)
  PROVE  RecentInv'
<1>1. UNCHANGED <<now, entries, newest>>
  BY DEF RecordBatch
<1>2. \A x \in Exporters :
        pc'[x] \in {"record", "batch"} => pc'[x] = pc[x] /\ clock'[x] = clock[x]
  BY DEF RecordBatch, TypeInv, TypeOK
<1> QED
  BY <1>1, <1>2 DEF RecentInv

LEMMA TickRecent == TypeInv /\ RecentInv /\ Tick => RecentInv'
<1> SUFFICES ASSUME TypeInv, RecentInv, Tick PROVE RecentInv'
  OBVIOUS
<1>1. UNCHANGED <<pc, clock, entries, newest>> /\ now' = now + 1
  BY DEF Tick, exportVars, ghosts
<1>2. ASSUME NEW e \in Exporters, pc[e] \in {"record", "batch"}
      PROVE  clock[e] <= now + 1 /\ now + 1 <= clock[e] + MaxDelay
  <2>1. now - clock[e] < MaxDelay
    BY <1>2 DEF Tick
  <2> QED
    BY <1>2, <2>1, TimesAreNumbers DEF RecentInv
<1>3. \A n \in Names : newest[n] <= now + 1
  BY TimesAreNumbers DEF RecentInv
<1> QED
  BY <1>1, <1>2, <1>3 DEF RecentInv

LEMMA RecentInvStep == TypeInv /\ RecentInv /\ [Next]_vars => RecentInv'
<1> SUFFICES ASSUME TypeInv, RecentInv, [Next]_vars PROVE RecentInv'
  OBVIOUS
<1>1. CASE Tick
  BY <1>1, TickRecent
<1>2. CASE ResetStep
  BY <1>2, ForgetRecent DEF ResetStep, Clear, exportVars
<1>3. ASSUME NEW p \in Pruners, PruneBegin(p) \/ Prune(p) PROVE RecentInv'
  <2>1. CASE PruneBegin(p)
    BY <2>1 DEF PruneBegin, RecentInv, exportVars, ghosts
  <2>2. CASE Prune(p)
    BY <2>2, ForgetRecent DEF Prune, exportVars
  <2> QED
    BY <1>3, <2>1, <2>2
<1>4. ASSUME NEW e \in Exporters, ExportBegin(e) \/ ExportStep(e) PROVE RecentInv'
  <2>1. CASE ExportBegin(e)
    BY <2>1, ContinueRecent, LoadType DEF ExportBegin, TypeInv, ghosts
  <2>2. CASE ItemDone(e)
    <3>1. msg[e] \in Seq(Item) /\ Continue(e, Tail(left[e]), msg[e])
          /\ UNCHANGED <<now, entries, newest>>
      BY <2>2 DEF ItemDone, TypeInv, TypeOK
    <3> QED
      BY <3>1, ContinueRecent
  <2>3. CASE Record(e) \/ RecordAttributes(e) \/ RecordBatch(e)
    BY <2>3, RecordRecent, RecordAttributesRecent, RecordBatchRecent
  <2> QED
    BY <1>4, <2>1, <2>2, <2>3 DEF ExportStep
<1>5. CASE UNCHANGED vars
  BY <1>5 DEF RecentInv, vars, exportVars, ghosts
<1> QED
  BY <1>1, <1>2, <1>3, <1>4, <1>5 DEF Next

LEMMA RecentInit == Init => RecentInv
<1> SUFFICES ASSUME Init PROVE RecentInv
  OBVIOUS
<1>1. /\ now = 0 /\ DOMAIN entries = {}
      /\ \A e \in Exporters : pc[e] = "idle"
      /\ \A n \in Names : newest[n] = 0
  BY DEF Init
<1>2. ASSUME NEW n \in Names PROVE newest[n] <= now
  <2>1. newest[n] = 0 /\ now = 0
    BY <1>1
  <2> QED
    BY <2>1
<1>3. \A e \in Exporters : pc[e] \notin {"record", "batch"}
  BY <1>1
<1> QED
  BY <1>1, <1>2, <1>3 DEF RecentInv

(* Only the end of a prune takes its cutoff away.                          *)
LEMMA PruneSparesRecentStep ==
  ASSUME TypeInv, RecentInv, [Next]_vars,
         NEW p \in Pruners, cutoff[p] # NoTime, cutoff'[p] = NoTime,
         NEW n \in DOMAIN entries \ DOMAIN entries'
  PROVE  newest[n] < cutoff[p] + MaxDelay
<1>1. Prune(p)
  <2>1. cutoff' # cutoff
    OBVIOUS
  <2>2. ~(Tick \/ ResetStep \/ UNCHANGED vars)
    BY <2>1 DEF Tick, ResetStep, pruneVars, vars
  <2>3. ~(\E e \in Exporters : ExportBegin(e) \/ ExportStep(e))
    BY <2>1 DEF ExportBegin, ExportStep, Record, RecordAttributes, ItemDone, RecordBatch,
                pruneVars
  <2>4. ASSUME NEW q \in Pruners, PruneBegin(q)
        PROVE  FALSE
    BY <2>4, CatalogAssumption, TimesAreNumbers DEF PruneBegin, TypeInv, TypeOK
  <2>5. ASSUME NEW q \in Pruners, Prune(q)
        PROVE  q = p
    BY <2>5 DEF Prune, TypeInv, TypeOK
  <2> QED
    BY <2>2, <2>3, <2>4, <2>5 DEF Next
<1>2. entries[n].last < cutoff[p]
  <2> DEFINE stale == Stale(Signals[turn[p]], cutoff[p])
  <2>1. Forget(stale)
    BY <1>1 DEF Prune
  <2> HIDE DEF stale
  <2>2. n \in stale
    <3>1. DOMAIN entries' = DOMAIN entries \ stale
      BY <2>1, ForgetProperties
    <3> QED
      BY <3>1
  <2> QED
    BY <2>2 DEF Stale, stale
<1>3. newest[n] <= entries[n].last + MaxDelay
  BY DEF RecentInv
<1>4. cutoff[p] \in Int
  BY CatalogAssumption DEF TypeInv, TypeOK
<1>5. newest[n] \in Nat /\ entries[n].last \in Nat /\ MaxDelay \in Nat
  BY TimesAreNumbers
<1> QED
  BY <1>2, <1>3, <1>4, <1>5

(* A prune removes no entry that an export has seen in the time to live,   *)
(* give or take the longest wait for the lock.                             *)
THEOREM PrunesSpareRecent == Spec => PruneSparesRecent
<1> DEFINE Spares == \A p \in Pruners : cutoff[p] # NoTime /\ cutoff'[p] = NoTime =>
                       \A n \in DOMAIN entries \ DOMAIN entries' :
                         newest[n] < cutoff[p] + MaxDelay
<1>1. TypeInv /\ RecentInv /\ [Next]_vars => [Spares]_vars
  BY PruneSparesRecentStep
<1>2. Spec => [][Spares]_vars
  <2> HIDE DEF Spares
  <2> QED
    BY <1>1, RecentInit, TypesHold, RecentInvStep, PTL DEF Spec
<1> QED
  BY <1>2 DEF PruneSparesRecent
-----------------------------------------------------------------------------
(* KeysHaveSamples, for one attribute of one entry.                        *)
Awaited(n, a) ==
  \E e \in intact : /\ Head(left[e]).name = n
                    /\ \E kvs \in ToSet(calls[e]), v \in Values : <<a, v>> \in ToSet(kvs)

LEMMA ForgetSamples ==
  ASSUME TypeInv, SamplesInv, NEW names, Forget(names), UNCHANGED <<pc, left, calls>>
  PROVE  SamplesInv'
<1>1. /\ DOMAIN entries' = DOMAIN entries \ names
      /\ \A n \in DOMAIN entries' : entries'[n] = entries[n]
      /\ \A n \in Names \ names : owed'[n] = owed[n]
      /\ \A n \in Names \intersect names : owed'[n] = {}
      /\ intact' \subseteq intact
      /\ \A e \in intact : e \in intact' <=> Head(left[e]).name \notin names
  BY ForgetProperties
<1>2. DOMAIN entries \subseteq Names
  BY DEF TypeInv, TypeOK
<1>3. ASSUME NEW n \in DOMAIN entries'
      PROVE  n \in DOMAIN entries /\ n \notin names
             /\ entries'[n] = entries[n] /\ owed'[n] = owed[n]
  BY <1>1, <1>2
<1>4. IntactInv'
  BY <1>1 DEF SamplesInv, IntactInv
<1>5. UncappedIsComplete'
  BY <1>3 DEF SamplesInv, UncappedIsComplete, Samples
<1>6. \A n \in Names \ DOMAIN entries' : owed'[n] = {}
  BY <1>1 DEF SamplesInv
<1>7. KeysHaveSamples'
  <2> SUFFICES ASSUME NEW n \in NamesOf("metrics") \intersect DOMAIN entries',
                      NEW a \in entries'[n].keys, ~Awaited(n, a)'
               PROVE  Samples(n, a)' # {}
    BY DEF KeysHaveSamples, Awaited, NamesOf
  <2>1. ~Awaited(n, a)
    BY <1>1, <1>3 DEF Awaited
  <2>2. Samples(n, a) # {}
    BY <1>3, <2>1 DEF SamplesInv, KeysHaveSamples, Awaited
  <2> QED
    BY <1>3, <2>2 DEF Samples
<1> QED
  BY <1>4, <1>5, <1>6, <1>7 DEF SamplesInv

(* An exporter goes on that is done with its item, or had none.            *)
LEMMA ContinueSamples ==
  ASSUME TypeInv, SamplesInv, NEW e \in Exporters, NEW rest, NEW items,
         Continue(e, rest, items), UNCHANGED <<entries, owed, calls>>,
         intact' = intact \ {e}, e \in intact => calls[e] = <<>>
  PROVE  SamplesInv'
<1>1. \A x \in Exporters \ {e} : left'[x] = left[x] /\ pc'[x] = pc[x]
  BY DEF Continue, TypeInv, TypeOK
<1>2. \A x \in intact' : x \in Exporters \ {e} /\ x \in intact
  BY DEF TypeInv, TypeOK
<1>3. IntactInv'
  BY <1>1, <1>2 DEF SamplesInv, IntactInv
<1>4. KeysHaveSamples'
  <2> SUFFICES ASSUME NEW n \in NamesOf("metrics") \intersect DOMAIN entries,
                      NEW a \in entries[n].keys, ~Awaited(n, a)'
               PROVE  Samples(n, a) # {}
    BY DEF KeysHaveSamples, Awaited, NamesOf, Samples
  <2>1. ~Awaited(n, a)
    <3> SUFFICES ASSUME NEW x \in intact, Head(left[x]).name = n,
                        NEW kvs \in ToSet(calls[x]), NEW v \in Values, <<a, v>> \in ToSet(kvs)
                 PROVE  FALSE
      BY DEF Awaited
    <3>1. x # e
      BY ToSetEmpty
    <3>2. x \in intact' /\ left'[x] = left[x] /\ calls'[x] = calls[x]
      BY <3>1, <1>1 DEF TypeInv, TypeOK
    <3> QED
      BY <3>2 DEF Awaited
  <2> QED
    BY <2>1 DEF SamplesInv, KeysHaveSamples, Awaited
<1>5. UncappedIsComplete' /\ \A n \in Names \ DOMAIN entries' : owed'[n] = {}
  BY DEF SamplesInv, UncappedIsComplete, Samples
<1> QED
  BY <1>3, <1>4, <1>5 DEF SamplesInv

(* Record promises the samples of the keys it adds: the exporter that      *)
(* records them next is intact.                                            *)
LEMMA EntryAfterKeys ==
  ASSUME TypeInv, NEW item \in Item, NEW at \in Times, SignalOf[item.name] = "metrics"
  PROVE  LET n == item.name
         IN  EntryAfter(item, at).keys =
               IF n \in DOMAIN entries THEN entries[n].keys \union AttrKeys(item)
               ELSE AttrKeys(item)
<1> DEFINE n == item.name
           r == entries[n]
<1>1. EntryAfter(item, at) = MetricEntry(item, at)
  BY DEF EntryAfter
<1>2. CASE n \in DOMAIN entries
  <2>1. r \in EntryOf("metrics")
    BY <1>2 DEF TypeInv, TypeOK
  <2>2. MetricEntry(item, at) = [first |-> r.first, last |-> at, trackers |-> r.trackers,
                                 keys |-> r.keys \union AttrKeys(item)]
    BY <1>2, <2>1 DEF MetricEntry, EntryOf
  <2> QED
    BY <1>1, <1>2, <2>2
<1>3. CASE n \notin DOMAIN entries
  BY <1>1, <1>3 DEF MetricEntry
<1> QED
  BY <1>2, <1>3

LEMMA RecordSamples ==
  ASSUME TypeInv, SamplesInv, NEW e \in Exporters, Record(e)
  PROVE  SamplesInv'
<1> DEFINE item == Head(left[e])
           n == item.name
           at == clock[e]
           new == EntryAfter(item, at)
<1>1. /\ item \in Item /\ n \in Names /\ at \in Times
      /\ DOMAIN entries' = DOMAIN entries \union {n}
      /\ entries'[n] = new
      /\ \A k \in DOMAIN entries \ {n} : entries'[k] = entries[k]
  BY RecordEntries
<1>2. new.trackers = IF n \in DOMAIN entries THEN entries[n].trackers ELSE NewTrackers
  BY <1>1, EntryAfterType
<1>3. SignalOf[n] = "metrics" =>
        new.keys = IF n \in DOMAIN entries THEN entries[n].keys \union AttrKeys(item)
                   ELSE AttrKeys(item)
  BY <1>1, EntryAfterKeys
<1>4. \A a \in AttrKeys(item) : \E kvs \in ToSet(AttributeCalls(item)), v \in Values :
        <<a, v>> \in ToSet(kvs)
  BY <1>1, AttributeCallsProperties
<1>5. /\ calls' = [calls EXCEPT ![e] = AttributeCalls(item)]
      /\ pc' = [pc EXCEPT ![e] = "attrs"]
      /\ left' = left /\ owed' = owed /\ intact' = intact \union {e}
  BY DEF Record
<1>6. e \notin intact
  BY DEF SamplesInv, IntactInv, Record
<1>7. Head(left[e]).name = n /\ Head(left[e]) = item
  OBVIOUS
<1> HIDE DEF item, n, at, new
<1>8. /\ calls'[e] = AttributeCalls(item) /\ pc'[e] = "attrs"
      /\ \A x \in Exporters \ {e} : calls'[x] = calls[x] /\ pc'[x] = pc[x]
  BY <1>5 DEF TypeInv, TypeOK
<1>9. intact \subseteq Exporters \ {e}
  BY <1>6 DEF TypeInv, TypeOK
<1>10. IntactInv'
  BY <1>1, <1>5, <1>7, <1>8, <1>9 DEF SamplesInv, IntactInv
<1>11. ASSUME NEW k \in DOMAIN entries
       PROVE  k \in DOMAIN entries' /\ entries'[k].trackers = entries[k].trackers
  BY <1>1, <1>2
<1>12. \A k \in Names \ DOMAIN entries' : owed'[k] = {}
  BY <1>1, <1>5 DEF SamplesInv
<1>13. UncappedIsComplete'
  <2> SUFFICES ASSUME NEW k \in DOMAIN entries', NEW kv \in owed[k]
               PROVE  entries'[k].trackers[kv[1]].capped \/ kv[2] \in Samples(k, kv[1])'
    BY <1>5 DEF UncappedIsComplete
  <2>1. k \in DOMAIN entries
    BY <1>1 DEF SamplesInv
  <2>2. entries[k].trackers[kv[1]].capped \/ kv[2] \in Samples(k, kv[1])
    BY <2>1 DEF SamplesInv, UncappedIsComplete
  <2> QED
    BY <1>11, <2>1, <2>2 DEF Samples
<1>14. KeysHaveSamples'
  <2> SUFFICES ASSUME NEW k \in NamesOf("metrics") \intersect DOMAIN entries',
                      NEW a \in entries'[k].keys, ~Awaited(k, a)'
               PROVE  Samples(k, a)' # {}
    BY DEF KeysHaveSamples, Awaited, NamesOf
  <2>1. ~Awaited(k, a)
    BY <1>5, <1>8, <1>9 DEF Awaited
  <2>2. ~(k = n /\ a \in AttrKeys(item))
    <3> SUFFICES ASSUME k = n, a \in AttrKeys(item) PROVE FALSE
      OBVIOUS
    <3>1. e \in intact' /\ Head(left'[e]).name = k
      BY <1>5, <1>7
    <3> QED
      BY <3>1, <1>4, <1>8 DEF Awaited
  <2>3. k \in DOMAIN entries /\ a \in entries[k].keys
    BY <1>1, <1>3, <2>2 DEF NamesOf
  <2>4. Samples(k, a) # {}
    BY <2>1, <2>3 DEF SamplesInv, KeysHaveSamples, Awaited
  <2> QED
    BY <1>11, <2>3, <2>4 DEF Samples
<1> QED
  BY <1>10, <1>12, <1>13, <1>14 DEF SamplesInv

(* RecordAttributes: what is owed from now on is in the trackers, and the  *)
(* keys that waited for this call have a sample.                           *)
LEMMA RecordAttributesSamples ==
  ASSUME TypeInv, SamplesInv, NEW e \in Exporters, RecordAttributes(e)
  PROVE  SamplesInv'
<1> DEFINE n == Head(left[e]).name
           kvs == Head(calls[e])
           taken == Tracked(entries[n].trackers, kvs)
<1>1. /\ n \in Names /\ kvs \in Pairs
      /\ DOMAIN entries' = DOMAIN entries
      /\ \A k \in DOMAIN entries \ {n} : entries'[k] = entries[k]
      /\ n \in DOMAIN entries => entries'[n] = [entries[n] EXCEPT !.trackers = taken]
  BY RecordAttributesEntries
<1>2. n \in DOMAIN entries =>
        /\ taken \in SoundTrackers
        /\ \A a \in Attrs : Extends(taken[a], entries[n].trackers[a])
        /\ \A kv \in ToSet(kvs) : Holds(taken[kv[1]], kv[2])
  BY <1>1, TrackedProperties DEF TypeInv
<1>3. /\ owed' = IF e \in intact THEN [owed EXCEPT ![n] = @ \union ToSet(kvs)] ELSE owed
      /\ calls' = [calls EXCEPT ![e] = Tail(@)]
      /\ intact' = intact /\ left' = left /\ pc' = pc
  BY DEF RecordAttributes
<1>4. calls[e] \in Seq(Pairs) /\ calls[e] # <<>>
  BY DEF RecordAttributes, TypeInv, TypeOK
<1>5. ToSet(calls[e]) = {kvs} \union ToSet(calls'[e])
      /\ \A x \in Exporters \ {e} : calls'[x] = calls[x]
  BY <1>3, <1>4, ToSetTail DEF TypeInv, TypeOK
<1>6. e \in intact => n \in DOMAIN entries
  BY DEF SamplesInv, IntactInv
<1>7. Head(left[e]).name = n
  OBVIOUS
<1>8. ToSet(kvs) \subseteq Attrs \X Values
  BY <1>1, ToSetType DEF Pairs
<1> HIDE DEF n, kvs, taken
<1>9. DOMAIN entries \subseteq Names /\ intact \subseteq Exporters
      /\ owed \in [Names -> SUBSET (Attrs \X Values)]
  BY DEF TypeInv, TypeOK
<1>10. ASSUME NEW k \in DOMAIN entries
       PROVE  /\ k # n => entries'[k] = entries[k] /\ owed'[k] = owed[k]
              /\ k = n => /\ entries'[k].trackers = taken
                          /\ SignalOf[k] = "metrics" => entries'[k].keys = entries[k].keys
                          /\ owed'[k] \subseteq owed[k] \union ToSet(kvs)
              /\ \A a \in Attrs : Extends(entries'[k].trackers[a], entries[k].trackers[a])
  <2>1. entries[k] \in EntryOf(SignalOf[k]) /\ SignalOf[k] \in {"metrics", "spans", "logs"}
    BY SignalType DEF TypeInv, TypeOK
  <2>2. CASE k = n
    <3>1. entries'[k].trackers = taken
      BY <1>1, <2>1, <2>2 DEF EntryOf
    <3>2. SignalOf[k] = "metrics" => entries'[k].keys = entries[k].keys
      BY <1>1, <2>1, <2>2 DEF EntryOf
    <3>3. owed'[k] \subseteq owed[k] \union ToSet(kvs)
      BY <1>1, <1>3, <1>9, <2>2
    <3> QED
      BY <1>2, <2>2, <3>1, <3>2, <3>3
  <2>3. CASE k # n
    BY <1>1, <1>3, <1>9, <2>3 DEF Extends
  <2> QED
    BY <2>2, <2>3
<1>11. IntactInv'
  BY <1>1, <1>3 DEF SamplesInv, IntactInv
<1>12. UncappedIsComplete'
  <2> SUFFICES ASSUME NEW k \in DOMAIN entries, NEW kv \in owed'[k]
               PROVE  \/ entries'[k].trackers[kv[1]].capped
                      \/ kv[2] \in ToSet(entries'[k].trackers[kv[1]].samples)
    BY <1>1 DEF UncappedIsComplete, Samples
  <2>1. CASE kv \in owed[k]
    <3>1. \/ entries[k].trackers[kv[1]].capped
          \/ kv[2] \in ToSet(entries[k].trackers[kv[1]].samples)
      BY <2>1 DEF SamplesInv, UncappedIsComplete, Samples
    <3>2. kv[1] \in Attrs
      BY <1>9, <2>1
    <3> QED
      BY <1>10, <3>1, <3>2 DEF Extends
  <2>2. CASE kv \notin owed[k]
    <3>1. k = n /\ kv \in ToSet(kvs)
      BY <1>10, <2>2
    <3> QED
      BY <1>2, <1>10, <3>1 DEF Holds
  <2> QED
    BY <2>1, <2>2
<1>13. \A k \in Names \ DOMAIN entries' : owed'[k] = {}
  <2>1. ASSUME NEW k \in Names \ DOMAIN entries
        PROVE  owed'[k] = owed[k]
    BY <1>3, <1>6, <1>9
  <2> QED
    BY <1>1, <2>1 DEF SamplesInv
<1>14. KeysHaveSamples'
  <2> SUFFICES ASSUME NEW k \in NamesOf("metrics") \intersect DOMAIN entries,
                      NEW a \in entries'[k].keys, ~Awaited(k, a)'
               PROVE  ToSet(entries'[k].trackers[a].samples) # {}
    BY <1>1 DEF KeysHaveSamples, Awaited, NamesOf, Samples
  <2>1. SignalOf[k] = "metrics" /\ a \in entries[k].keys
    BY <1>10 DEF NamesOf
  <2>2. a \in Attrs
    BY <2>1 DEF TypeInv, TypeOK, EntryOf
  <2>3. CASE ToSet(entries[k].trackers[a].samples) # {}
    BY <1>10, <2>2, <2>3 DEF Extends
  <2>4. CASE ToSet(entries[k].trackers[a].samples) = {}
    <3>1. Awaited(k, a)
      BY <2>1, <2>4 DEF SamplesInv, KeysHaveSamples, Samples, Awaited
    <3>2. PICK x \in intact : /\ Head(left[x]).name = k
                              /\ \E c \in ToSet(calls[x]), v \in Values : <<a, v>> \in ToSet(c)
      BY <3>1 DEF Awaited
    <3>3. PICK c \in ToSet(calls[x]), v \in Values : <<a, v>> \in ToSet(c)
      BY <3>2
    <3>4. c \notin ToSet(calls'[x])
      BY <1>3, <3>2, <3>3 DEF Awaited
    <3>5. x = e /\ c = kvs
      BY <1>5, <1>9, <3>3, <3>4
    <3>6. k = n
      BY <1>7, <3>2, <3>5
    <3>7. Holds(taken[a], v) /\ Sound(taken[a]) /\ entries'[k].trackers = taken
      BY <1>2, <1>10, <2>2, <3>3, <3>5, <3>6 DEF SoundTrackers
    <3>8. taken[a].capped => ToSet(taken[a].samples) # {}
      BY <3>7, CatalogAssumption, FS_EmptySet DEF Sound
    <3> QED
      BY <3>7, <3>8 DEF Holds
  <2> QED
    BY <2>3, <2>4
<1> QED
  BY <1>11, <1>12, <1>13, <1>14 DEF SamplesInv

LEMMA SamplesStep == TypeInv /\ SamplesInv /\ [Next]_vars => SamplesInv'
<1> SUFFICES ASSUME TypeInv, SamplesInv, [Next]_vars PROVE SamplesInv'
  OBVIOUS
<1>1. CASE UNCHANGED <<entries, owed, intact, left, calls, pc>>
  BY <1>1 DEF SamplesInv, IntactInv, UncappedIsComplete, KeysHaveSamples, Samples, NamesOf
<1>2. CASE Tick \/ UNCHANGED vars
  BY <1>1, <1>2 DEF Tick, vars, exportVars, ghosts
<1>3. CASE ResetStep
  BY <1>3, ForgetSamples DEF ResetStep, Clear, exportVars
<1>4. ASSUME NEW e \in Exporters, ExportBegin(e) \/ ExportStep(e) PROVE SamplesInv'
  <2>1. CASE ExportBegin(e)
    <3>1. e \notin intact
      BY <2>1 DEF ExportBegin, SamplesInv, IntactInv
    <3>2. PICK m \in load.messages : Continue(e, m, m)
      BY <2>1 DEF ExportBegin
    <3>3. UNCHANGED <<entries, owed, calls, intact>>
      BY <2>1 DEF ExportBegin, ghosts
    <3> QED
      BY <3>1, <3>2, <3>3, ContinueSamples
  <2>2. CASE ItemDone(e)
    BY <2>2, ContinueSamples DEF ItemDone
  <2>3. CASE RecordBatch(e)
    <3>1. e \notin intact
      BY <2>3 DEF RecordBatch, SamplesInv, IntactInv
    <3>2. UNCHANGED <<entries, owed, intact, left, calls>> /\ pc' = [pc EXCEPT ![e] = "idle"]
      BY <2>3 DEF RecordBatch
    <3>3. \A x \in intact : pc'[x] = pc[x]
      BY <3>1, <3>2 DEF TypeInv, TypeOK
    <3>4. IntactInv'
      BY <3>2, <3>3 DEF SamplesInv, IntactInv
    <3> QED
      BY <3>2, <3>4
      DEF SamplesInv, UncappedIsComplete, KeysHaveSamples, Samples, NamesOf
  <2>4. CASE Record(e) \/ RecordAttributes(e)
    BY <2>4, RecordSamples, RecordAttributesSamples
  <2> QED
    BY <1>4, <2>1, <2>2, <2>3, <2>4 DEF ExportStep
<1>5. ASSUME NEW p \in Pruners, PruneBegin(p) \/ Prune(p) PROVE SamplesInv'
  <2>1. CASE PruneBegin(p)
    BY <1>1, <2>1 DEF PruneBegin, exportVars, ghosts
  <2>2. CASE Prune(p)
    BY <2>2, ForgetSamples DEF Prune, exportVars
  <2> QED
    BY <1>5, <2>1, <2>2
<1> QED
  BY <1>2, <1>3, <1>4, <1>5 DEF Next

LEMMA TrackersAreSound == TypeInv => TrackersAreBounded
<1> SUFFICES ASSUME TypeInv, NEW n \in DOMAIN entries, NEW a \in Attrs
             PROVE  Sound(entries[n].trackers[a])
  BY DEF TrackersAreBounded, Samples, Sound
<1> QED
  BY DEF TypeInv, SoundTrackers

(* What filter analysis takes for the truth is true: an attribute that is  *)
(* not capped lists all its values, no tracker grows over its bound, and a *)
(* key without samples has an export that is about to record them.         *)
THEOREM SamplesHold == Spec => []SamplesAreFaithful
<1>1. Init => SamplesInv
  BY DEF Init, SamplesInv, IntactInv, UncappedIsComplete, KeysHaveSamples
<1>2. TypeInv /\ SamplesInv => SamplesAreFaithful
  BY TrackersAreSound DEF TypeInv, SamplesInv, SamplesAreFaithful
<1> QED
  BY <1>1, <1>2, TypesHold, SamplesStep, PTL DEF Spec
=============================================================================
