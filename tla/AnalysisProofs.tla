---------------------------- MODULE AnalysisProofs ----------------------------
(***************************************************************************)
(* Proofs about the two analyses of a configuration: what its filters do   *)
(* to the metrics an alert reads (AlertCoverage, with the filter analysis  *)
(* it rests on), and what the static rules say of it (StaticAdvice, with   *)
(* the search for loops of connectors, ConnectorLoop).                     *)
(*                                                                         *)
(* The first part is for any filters, alerts, points and sample limit, and *)
(* any interleaving with exports, prunes and resets.                       *)
(*                                                                         *)
(* The second is for any set of pipelines, finite or not.  LoopInv         *)
(* strengthens SearchIsSound and CleanIsOrdered to an invariant that is    *)
(* inductive.  It says what the variables of the recursion mean: gray is   *)
(* being on the path, the path follows edges and parents, the walk is the  *)
(* end of the path and then one of its pipelines; and what a call has      *)
(* learnt so far: a successor it need not look at any more has returned or *)
(* is the next call, unless something was found.                           *)
(*                                                                         *)
(* The third is for any configurations.  After facts about the edits of a  *)
(* list there is a lemma for each kind of edit (a component gets settings, *)
(* a name is taken out of a list, put into one, moved in one) that says    *)
(* which critical findings it may bring about, then one for the advice of  *)
(* each rule, <Rule>Advice, that it is GoodAdvice: rid of its finding, and *)
(* raising no others than Raises says.  AdviceInv makes these facts about  *)
(* the steps of AdviceSpec: a report is about the configuration as it is.  *)
(***************************************************************************)
EXTENDS AlertCoverage, StaticAdvice, FiniteSetTheorems, SequenceTheorems,
        WellFoundedInduction, TLAPS

-----------------------------------------------------------------------------
(* Filter analysis: what it concludes from samples is right *)

(* A non-empty set of natural numbers (positions of a rule list, times at   *)
(* which calls of the search returned) has a least one.                     *)
LEMMA FirstPosition ==
  ASSUME NEW S \in SUBSET Nat, S # {}
  PROVE  \E i \in S : \A j \in S : i <= j
<1> DEFINE R == {ss \in Nat \X Nat : ss[1] < ss[2]}
<1>1. IsWellFoundedOn(R, Nat)
  BY NatLessThanWellFounded DEF OpToRel
<1>2. PICK i \in S : \A j \in S : <<j, i>> \notin R
  BY <1>1, WFMin
<1>3. \A j \in S : ~(j < i)
  BY <1>2
<1> QED
  BY <1>3

(* matchOTTLWithAttrs keeps a metric only if every condition keeps it      *)
(* (matcher.go:193-242).                                                   *)
LEMMA KeptByEvery ==
  ASSUME NEW conditions \in Seq(Condition), NEW name, NEW sampled,
         OTTLOutcome(conditions, name, sampled) = "kept"
  PROVE  \A i \in DOMAIN conditions : ConditionOutcome(conditions[i], name, sampled) = "kept"
<1> DEFINE outcome(i) == ConditionOutcome(conditions[i], name, sampled)
           decisive(i) == outcome(i) # "kept" /\ \A j \in 1 .. i - 1 : outcome(j) = "kept"
           D == DOMAIN conditions
           Bad == {i \in D : outcome(i) # "kept"}
<1>1. ~ \E i \in D : decisive(i)
  <2> SUFFICES ASSUME \E i \in D : decisive(i) PROVE FALSE
    OBVIOUS
  <2>1. decisive(CHOOSE i \in D : decisive(i))
    OBVIOUS
  <2>2. OTTLOutcome(conditions, name, sampled) = outcome(CHOOSE i \in D : decisive(i))
    BY DEF OTTLOutcome
  <2> HIDE DEF outcome
  <2> QED
    BY <2>1, <2>2
<1>2. D \subseteq Nat /\ \A i \in D : 1 .. i - 1 \subseteq D
  OBVIOUS
<1> HIDE DEF outcome, D
<1>3. Bad = {}
  <2> SUFFICES ASSUME Bad # {} PROVE FALSE
    OBVIOUS
  <2>1. PICK i \in Bad : \A j \in Bad : i <= j
    BY <1>2, FirstPosition
  <2>2. \A j \in 1 .. i - 1 : outcome(j) = "kept"
    BY <1>2, <2>1
  <2> QED
    BY <1>1, <2>1, <2>2
<1> QED
  BY <1>3 DEF D, outcome

(* The samples of a metric cover a data point if each of its attributes is *)
(* listed, or the list is capped.                                          *)
CoversValue(values, v) == v = NoValue \/ v \in values \/ Capped(values)
Covers(sampled, p) == \A a \in Attrs : CoversValue(sampled[a], p.attrs[a])

(* An attribute without samples is not capped. *)
LEMMA EmptyNotCapped == ~Capped({})
  BY FS_EmptySet, FilterAssumption DEF Capped

(* A condition that keeps a metric does not hold for any data point that   *)
(* the samples cover (matcher.go:184-341).                                 *)
LEMMA KeptDoesNotHold ==
  ASSUME NEW c \in Condition, NEW p \in Point, NEW other \in BOOLEAN,
         NEW sampled \in [Attrs -> SUBSET Values], Covers(sampled, p),
         ConditionOutcome(c, p.name, sampled) = "kept"
  PROVE  ~Holds(c, p, other)
<1>1. /\ c.attr \in Attrs /\ c.arg \in Strings /\ c.form \in Forms
      /\ p.attrs[c.attr] \in Values \union {NoValue}
  BY DEF Condition, Point
<1>2. NoValue \notin Strings /\ ~FitsPattern(NoValue, c.arg)
  BY FilterAssumption DEF FitsPattern
<1>3. p.attrs[c.attr] = NoValue \/ p.attrs[c.attr] \in sampled[c.attr] \/ Capped(sampled[c.attr])
  BY <1>1 DEF Covers, CoversValue
<1>4. CASE c.form \in {"unsupported", "name", "nameMatch"}
  BY <1>4 DEF ConditionOutcome, Holds, DroppedIf
<1>5. CASE c.form = "hasKey"
  <2>1. sampled[c.attr] = {}
    BY <1>5 DEF ConditionOutcome, DroppedIf
  <2> QED
    BY <1>3, <1>5, <2>1, EmptyNotCapped DEF Holds
<1>6. CASE c.form = "attrMatch" /\ c.arg \notin DOMAIN Fits
  BY <1>6 DEF Holds, FitsPattern
<1>7. CASE c.form \in {"attr", "hasAttr"} \/ (c.form = "attrMatch" /\ c.arg \in DOMAIN Fits)
  <2>1. OutcomeAtLevel(c.attr[1], OutcomeOfHits(sampled[c.attr], Hits(c, sampled))) = "kept"
    BY <1>7 DEF ConditionOutcome
  <2>2. Hits(c, sampled) = {} /\ ~Capped(sampled[c.attr])
    BY <2>1 DEF OutcomeAtLevel, OutcomeOfHits
  <2>3. p.attrs[c.attr] = NoValue \/ p.attrs[c.attr] \notin Hits(c, sampled)
    BY <2>2
  <2> QED
    BY <1>1, <1>2, <1>3, <1>7, <2>2, <2>3 DEF Holds, Hits
<1> QED
  BY <1>1, <1>4, <1>5, <1>6, <1>7 DEF Forms, AttrForms

LEMMA ConditionOutcomeType ==
  ASSUME NEW c, NEW name, NEW sampled
  PROVE  ConditionOutcome(c, name, sampled) \in Outcomes
<1>1. OutcomeOfHits(sampled[c.attr], Hits(c, sampled)) \in Outcomes
  BY DEF OutcomeOfHits, Outcomes
<1>2. OutcomeAtLevel(c.attr[1], OutcomeOfHits(sampled[c.attr], Hits(c, sampled))) \in Outcomes
  BY <1>1 DEF OutcomeAtLevel, Outcomes
<1>3. \A b : DroppedIf(b) \in Outcomes
  BY DEF DroppedIf, Outcomes
<1>4. "kept" \in Outcomes /\ "unknown" \in Outcomes
  BY DEF Outcomes
<1> QED
  BY <1>2, <1>3, <1>4 DEF ConditionOutcome

LEMMA OutcomeType ==
  ASSUME NEW f, NEW name, NEW sampled
  PROVE  Outcome(f, name, sampled) \in Outcomes
<1>1. OTTLOutcome(Conditions(f), name, sampled) \in Outcomes
  BY ConditionOutcomeType DEF OTTLOutcome, Outcomes
<1>2. ListOutcome(f, name) \in Outcomes
  BY DEF ListOutcome, DroppedIf, Outcomes
<1> QED
  BY <1>1, <1>2 DEF Outcome

(* "kept" can be relied on: whatever an unsupported condition means, a     *)
(* filter drops no data point that the samples cover                       *)
(* (matcher.go:175-242).                                                   *)
THEOREM KeptIsNotDropped ==
  ASSUME NEW f \in Filter, NEW p \in Point, NEW other \in BOOLEAN,
         NEW sampled \in [Attrs -> SUBSET Values], Covers(sampled, p),
         Outcome(f, p.name, sampled) = "kept"
  PROVE  ~Drops(f, p, other)
<1> DEFINE mine == f.metric \o f.datapoint
<1>1. mine \in Seq(Condition) /\ f.span \in Seq(Condition)
  BY DEF Filter
<1> HIDE DEF mine
<1>2. CASE mine # <<>>
  <2>1. Conditions(f) = mine
    BY <1>2 DEF Conditions, mine
  <2>2. OTTLOutcome(mine, p.name, sampled) = "kept"
    BY <1>2, <2>1 DEF Outcome
  <2>3. \A i \in DOMAIN mine : mine[i] \in Condition /\ ~Holds(mine[i], p, other)
    BY <1>1, <2>2, KeptByEvery, KeptDoesNotHold
  <2> QED
    BY <1>2, <2>3 DEF Drops, mine
<1>3. CASE mine = <<>> /\ Listed(f) # {}
  <2>1. Conditions(f) = <<>>
    BY <1>3 DEF Conditions, mine
  <2>2. ListOutcome(f, p.name) = "kept"
    BY <2>1 DEF Outcome
  <2> QED
    BY <1>3, <2>2 DEF ListOutcome, DroppedIf, Drops, mine
<1>4. CASE mine = <<>> /\ Listed(f) = {}
  BY <1>4 DEF Listed, Drops, InList, mine
<1> QED
  BY <1>2, <1>3, <1>4

-----------------------------------------------------------------------------
(* Composition *)

(* The outcome of several processors is the worst of their outcomes: it    *)
(* does not depend on the order in which a map yields them, nor on how     *)
(* often one of them is composed (coverage.go:36-66).                      *)
THEOREM CompositionIsUnordered ==
  ASSUME NEW x \in Outcomes, NEW y \in Outcomes, NEW z \in Outcomes
  PROVE  /\ Compose(x, y) = Compose(y, x)
         /\ Compose(Compose(x, y), z) = Compose(x, Compose(y, z))
         /\ Compose(Compose(x, y), z) = Worst({x, y, z})
         /\ Compose(x, x) = x
<1> USE DEF Outcomes, Compose, Worst
<1>1. Compose(x, y) = Compose(y, x) /\ Compose(x, x) = x
  OBVIOUS
<1>2. Compose(Compose(x, y), z) = Worst({x, y, z})
  OBVIOUS
<1>3. Compose(x, Compose(y, z)) = Worst({x, y, z})
  OBVIOUS
<1> QED
  BY <1>1, <1>2, <1>3

LEMMA ComposeType ==
  ASSUME NEW x, NEW y
  PROVE  Compose(x, y) \in Outcomes
  BY DEF Compose, Worst, Outcomes

(* A metric is only kept if every processor keeps it. *)
LEMMA ComposeKept ==
  ASSUME NEW x \in Outcomes, NEW y \in Outcomes, Compose(x, y) = "kept"
  PROVE  x = "kept" /\ y = "kept"
  BY DEF Compose, Worst, Outcomes

LEMMA StatusType ==
  ASSUME NEW set
  PROVE  DeriveStatus(set) \in Statuses
<1>1. Worst(set) \in Outcomes
  BY DEF Worst, Outcomes
<1> QED
  BY <1>1 DEF DeriveStatus, Statuses, Outcomes

(* Only an alert all of whose metrics are kept is safe. *)
LEMMA SafeStatus ==
  ASSUME NEW set, DeriveStatus(set) = "safe"
  PROVE  set \intersect Outcomes \subseteq {"kept"}
<1>1. Worst(set) \in Outcomes
  BY DEF Worst, Outcomes
<1>2. Worst(set) = "kept"
  BY <1>1 DEF DeriveStatus, Outcomes
<1> QED
  BY <1>2 DEF Worst, Outcomes

(* Sampling never takes a value away, and covers the value it is given     *)
(* (tap/catalog.go:50-64).                                                 *)
LEMMA SamplingCovers ==
  ASSUME NEW values \in SUBSET Values, NEW v \in Values \union {NoValue}
  PROVE  /\ AddSample(values, v) \in SUBSET Values
         /\ CoversValue(AddSample(values, v), v)
         /\ \A w : CoversValue(values, w) => CoversValue(AddSample(values, v), w)
<1>1. CASE v = NoValue \/ Capped(values)
  BY <1>1 DEF AddSample, CoversValue
<1>2. CASE v # NoValue /\ ~Capped(values)
  BY <1>2 DEF AddSample, CoversValue
<1> QED
  BY <1>1, <1>2

-----------------------------------------------------------------------------
(* The type invariant *)

LEMMA SamplesType ==
  ASSUME TypeOK, point # NoPoint, NEW lvl
  PROVE  /\ point \in Point /\ point.name \in Names
         /\ point.attrs \in [Attrs -> Values \union {NoValue}]
         /\ AddSamples(lvl) \in [Names -> [Attrs -> SUBSET Values]]
         /\ \A n \in Names : n # point.name \/ n \notin known => AddSamples(lvl)[n] = samples[n]
         /\ point.name \in known => \A a \in Attrs :
              AddSamples(lvl)[point.name][a] =
                IF a[1] = lvl THEN AddSample(samples[point.name][a], point.attrs[a])
                ELSE samples[point.name][a]
<1>1. point \in Point /\ point.name \in Names /\ point.attrs \in [Attrs -> Values \union {NoValue}]
  BY CoverageAssumption DEF TypeOK, Point
<1> DEFINE old == samples[point.name]
           new == [a \in Attrs |-> IF a[1] = lvl THEN AddSample(old[a], point.attrs[a]) ELSE old[a]]
<1>2. samples \in [Names -> [Attrs -> SUBSET Values]] /\ old \in [Attrs -> SUBSET Values]
  BY <1>1 DEF TypeOK
<1>3. new \in [Attrs -> SUBSET Values]
  <2> HIDE DEF old
  <2> QED BY <1>1, <1>2, SamplingCovers
<1>4. AddSamples(lvl) = IF point.name \notin known THEN samples
                        ELSE [samples EXCEPT ![point.name] = new]
  BY <1>1, <1>2 DEF AddSamples
<1> HIDE DEF new
<1>5. AddSamples(lvl) \in [Names -> [Attrs -> SUBSET Values]]
  BY <1>1, <1>2, <1>3, <1>4
<1>6. \A n \in Names : n # point.name \/ n \notin known => AddSamples(lvl)[n] = samples[n]
  BY <1>1, <1>2, <1>4
<1>7. point.name \in known => AddSamples(lvl)[point.name] = new
  BY <1>1, <1>2, <1>4
<1> QED
  BY <1>1, <1>5, <1>6, <1>7 DEF new

LEMMA AnswerType ==
  ASSUME NEW b \in BOOLEAN, Answer(b)
  PROVE  status' \in Statuses /\ pc' = "idle"
  BY StatusType DEF Answer

LEMMA TypeInit == Init => TypeOK
  BY DEF Init, TypeOK, NoSamples

LEMMA TypeStep == TypeOK /\ [Next]_vars => TypeOK'
<1> SUFFICES ASSUME TypeOK, [Next]_vars PROVE TypeOK'
  OBVIOUS
<1> USE DEF fixed, catalog, export, request
<1>1. ASSUME NEW p \in Points, Record(p) PROVE TypeOK'
  <2>1. p.name \in Names /\ p # NoPoint
    BY CoverageAssumption DEF Point
  <2> QED
    BY <1>1, <2>1 DEF TypeOK, Record
<1>2. ASSUME RecordResource PROVE TypeOK'
  <2>1. point # NoPoint
    BY <1>2 DEF TypeOK, RecordResource
  <2>2. samples' \in [Names -> [Attrs -> SUBSET Values]]
        /\ \A n \in Names : n \notin known => samples'[n] = samples[n]
    BY <1>2, <2>1, SamplesType DEF RecordResource
  <2> QED
    BY <1>2, <2>2 DEF TypeOK, RecordResource
<1>3. ASSUME RecordDatapoint PROVE TypeOK'
  <2>1. point # NoPoint /\ point \in Points
    BY <1>3 DEF TypeOK, RecordDatapoint
  <2>2. samples' \in [Names -> [Attrs -> SUBSET Values]]
        /\ \A n \in Names : n \notin known => samples'[n] = samples[n]
    BY <1>3, <2>1, SamplesType DEF RecordDatapoint
  <2> QED
    BY <1>3, <2>1, <2>2 DEF TypeOK, RecordDatapoint
<1>4. ASSUME NEW gone, Forget(gone) PROVE TypeOK'
  <2>1. NoSamples \in [Attrs -> SUBSET Values]
    BY DEF NoSamples
  <2>2. samples' \in [Names -> [Attrs -> SUBSET Values]]
    BY <1>4, <2>1 DEF TypeOK, Forget
  <2>3. \A n \in Names : n \notin known' => samples'[n] = NoSamples
    BY <1>4 DEF TypeOK, Forget
  <2> QED
    BY <1>4, <2>2, <2>3 DEF TypeOK, Forget
<1>5. ASSUME RequestBegin PROVE TypeOK'
  BY <1>5 DEF TypeOK, RequestBegin
<1>6. ASSUME NEW f \in config, AnalyzeFilter(f) PROVE TypeOK'
  <2>1. outcomes' \in [Strings -> Outcomes \union {"none"}]
    BY <1>6, OutcomeType, ComposeType DEF TypeOK, AnalyzeFilter
  <2> QED
    BY <1>6, <2>1 DEF TypeOK, AnalyzeFilter
<1>7. ASSUME ReadLen PROVE TypeOK'
  BY <1>7, AnswerType DEF TypeOK, ReadLen
<1>8. ASSUME ReadNames PROVE TypeOK'
  BY <1>8, AnswerType DEF TypeOK, ReadNames
<1>9. CASE UNCHANGED vars
  BY <1>9 DEF TypeOK, vars
<1> QED
  BY <1>1, <1>2, <1>3, <1>4, <1>5, <1>6, <1>7, <1>8, <1>9 DEF Next

(* Every variable keeps its type; an outcome, once there, is one of four.  *)
THEOREM CoverageTypeCorrect == Spec => []TypeOK
  BY TypeInit, TypeStep, PTL DEF Spec

-----------------------------------------------------------------------------
(* "safe" can be relied on *)

(* What has been recorded whole is covered by the samples. *)
SeenIsCovered ==
  \A p \in seen : p.name \in known /\ Covers(samples[p.name], p)

(* So is the resource of a point that is recorded by half. *)
ResourceIsCovered ==
  level = "datapoint" /\ point.name \in known =>
    \A a \in Attrs : a[1] = "resource" => CoversValue(samples[point.name][a], point.attrs[a])

(* Every filter that has been analysed knew of the points of before, and   *)
(* has left an outcome that says so.                                       *)
Judged(p, f) ==
  /\ outcomes[p.name] \in Outcomes
  /\ outcomes[p.name] = "kept" => \A other \in BOOLEAN : ~Drops(f, p, other)

BeforeIsJudged ==
  \A p \in before :
    /\ p \in seen
    /\ pc # "idle" => hasCatalog
    /\ \A f \in config \ todo : HasRules(f) => Judged(p, f)

(* A safe alert has been derived from outcomes that still stand. *)
SafeIsKept ==
  /\ pc # "idle" => status = "none"
  /\ pc = "names" => todo = {}
  /\ status = "safe" => todo = {} /\ \A n \in Names : Concerns(n) => outcomes[n] \in {"kept", "none"}

SafeInv == TypeOK /\ SeenIsCovered /\ ResourceIsCovered /\ BeforeIsJudged /\ SafeIsKept

(* A filter without rules drops nothing. *)
LEMMA NoRulesDropNothing ==
  ASSUME NEW f \in Filter, ~HasRules(f), NEW p, NEW other
  PROVE  ~Drops(f, p, other)
<1> DEFINE mine == f.metric \o f.datapoint
<1>1. Conditions(f) = <<>> /\ Listed(f) = {}
  BY DEF HasRules
<1>2. mine = <<>>
  BY <1>1 DEF Conditions
<1> HIDE DEF mine
<1> QED
  BY <1>1, <1>2 DEF Drops, Listed, InList, mine

(* From the invariant to the promise. *)
LEMMA SafeInvImplies == SafeInv => SafeMeansNotDropped
<1> SUFFICES ASSUME SafeInv, status = "safe",
                    NEW p \in before, Concerns(p.name), NEW f \in config, NEW other \in BOOLEAN
             PROVE  ~Drops(f, p, other)
  BY DEF SafeMeansNotDropped
<1>1. p.name \in Names /\ f \in Filter
  BY CoverageAssumption DEF SafeInv, TypeOK, Point
<1>2. todo = {} /\ outcomes[p.name] \in {"kept", "none"}
  BY <1>1 DEF SafeInv, SafeIsKept
<1>3. CASE HasRules(f)
  <2>1. Judged(p, f)
    BY <1>2, <1>3 DEF SafeInv, BeforeIsJudged
  <2> QED
    BY <1>2, <2>1 DEF Judged, Outcomes
<1>4. CASE ~HasRules(f)
  BY <1>1, <1>4, NoRulesDropNothing
<1> QED
  BY <1>3, <1>4

(* The outcomes of an alert that is answered "safe". *)
LEMMA SafeAnswer ==
  ASSUME TypeOK, NEW b \in BOOLEAN, DeriveStatus(AlertOutcomes(b)) = "safe",
         NEW n \in Names, Concerns(n)
  PROVE  outcomes[n] \in {"kept", "none"}
<1>1. outcomes \in [Strings -> Outcomes \union {"none"}] /\ n \in Strings
  BY DEF TypeOK, Strings
<1>2. AlertOutcomes(b) \intersect Outcomes \subseteq {"kept"}
  BY SafeStatus
<1>3. CASE n \in alert.names
  <2>1. NameOutcome(b, n) \in AlertOutcomes(b)
    BY <1>3 DEF AlertOutcomes
  <2> QED
    BY <1>1, <1>2, <2>1 DEF NameOutcome
<1>4. CASE \E q \in alert.patterns \intersect DOMAIN Finds : n \in Finds[q]
  <2>1. PICK q \in alert.patterns \intersect DOMAIN Finds : n \in Finds[q]
    BY <1>4
  <2>2. RegexOutcome(q) \in AlertOutcomes(b)
    BY <2>1 DEF AlertOutcomes
  <2> DEFINE found == {s \in Finds[q] : outcomes[s] # "none"}
             results == {outcomes[s] : s \in found}
  <2>3. CASE outcomes[n] # "none"
    <3>1. outcomes[n] \in results /\ found # {}
      BY <2>1, <2>3
    <3>2. RegexOutcome(q) = Worst(results)
      BY <2>1, <3>1 DEF RegexOutcome
    <3> HIDE DEF results
    <3>3. Worst(results) = "kept"
      <4>1. Worst(results) \in Outcomes
        BY DEF Worst, Outcomes
      <4> QED
        BY <1>2, <2>2, <3>2, <4>1
    <3> QED
      BY <1>1, <2>3, <3>1, <3>3 DEF Worst, Outcomes
  <2> QED
    BY <2>3
<1> QED
  BY <1>3, <1>4 DEF Concerns

(* A step of the exporter samples, and uncovers nothing. *)
LEMMA SamplesGrow ==
  ASSUME TypeOK, point # NoPoint, NEW lvl, samples' = AddSamples(lvl),
         NEW n \in Names, NEW a \in Attrs
  PROVE  \A v : CoversValue(samples[n][a], v) => CoversValue(samples'[n][a], v)
<1>1. samples[n][a] \in SUBSET Values
  BY DEF TypeOK
<1>2. CASE n # point.name \/ n \notin known
  BY <1>2, SamplesType
<1>3. CASE n = point.name /\ n \in known
  <2>1. point.attrs[a] \in Values \union {NoValue}
    BY SamplesType
  <2>2. samples'[n][a] = IF a[1] = lvl THEN AddSample(samples[n][a], point.attrs[a])
                         ELSE samples[n][a]
    BY <1>3, SamplesType
  <2> QED
    BY <1>1, <2>1, <2>2, SamplingCovers
<1> QED
  BY <1>2, <1>3

(* At the level that it records, the point itself is covered. *)
LEMMA LevelIsCovered ==
  ASSUME TypeOK, point # NoPoint, NEW lvl, samples' = AddSamples(lvl),
         point.name \in known, NEW a \in Attrs, a[1] = lvl
  PROVE  CoversValue(samples'[point.name][a], point.attrs[a])
<1>1. point.name \in Names /\ point.attrs[a] \in Values \union {NoValue}
  BY SamplesType
<1>2. samples[point.name][a] \in SUBSET Values
  BY <1>1 DEF TypeOK
<1>3. samples'[point.name][a] = AddSample(samples[point.name][a], point.attrs[a])
  BY SamplesType
<1> QED
  BY <1>1, <1>2, <1>3, SamplingCovers

LEMMA PointsAreNamed == TypeOK => \A p \in seen \union before : p \in Point /\ p.name \in Names
  BY CoverageAssumption DEF TypeOK, Point

(* Only steps of the catalog disturb what is seen and covered. *)
LEMMA CoveredStep == SafeInv /\ [Next]_vars => SeenIsCovered' /\ ResourceIsCovered'
<1> SUFFICES ASSUME SafeInv, [Next]_vars PROVE SeenIsCovered' /\ ResourceIsCovered'
  OBVIOUS
<1> USE DEF fixed, catalog, export, request
<1>0. TypeOK /\ SeenIsCovered /\ ResourceIsCovered
  BY DEF SafeInv
<1>1. ASSUME NEW p \in Points, Record(p) PROVE SeenIsCovered' /\ ResourceIsCovered'
  BY <1>0, <1>1 DEF Record, SeenIsCovered, ResourceIsCovered
<1>2. ASSUME RecordResource PROVE SeenIsCovered' /\ ResourceIsCovered'
  <2>1. point # NoPoint /\ samples' = AddSamples("resource") /\ point' = point /\ known' = known
    BY <1>0, <1>2 DEF RecordResource, TypeOK
  <2>2. SeenIsCovered'
    BY <1>0, <1>2, <2>1, SamplesGrow, PointsAreNamed DEF RecordResource, SeenIsCovered, Covers
  <2>3. ResourceIsCovered'
    BY <1>0, <2>1, LevelIsCovered DEF ResourceIsCovered
  <2> QED
    BY <2>2, <2>3
<1>3. ASSUME RecordDatapoint PROVE SeenIsCovered' /\ ResourceIsCovered'
  <2>1. /\ point # NoPoint /\ samples' = AddSamples("datapoint") /\ known' = known
        /\ level = "datapoint" /\ level' = "none"
    BY <1>0, <1>3 DEF RecordDatapoint, TypeOK
  <2>2. ASSUME NEW p \in seen PROVE p.name \in known' /\ Covers(samples'[p.name], p)
    BY <1>0, <2>1, <2>2, SamplesGrow, PointsAreNamed DEF SeenIsCovered, Covers
  <2>3. ASSUME point.name \in known PROVE Covers(samples'[point.name], point)
    <3> SUFFICES ASSUME NEW a \in Attrs
                 PROVE  CoversValue(samples'[point.name][a], point.attrs[a])
      BY DEF Covers
    <3>1. a[1] = "resource" \/ a[1] = "datapoint"
      BY DEF Attrs
    <3>2. CASE a[1] = "datapoint"
      BY <1>0, <2>1, <2>3, <3>2, LevelIsCovered
    <3>3. CASE a[1] = "resource"
      <4>1. point.name \in Names /\ CoversValue(samples[point.name][a], point.attrs[a])
        BY <1>0, <2>1, <2>3, <3>3, SamplesType DEF ResourceIsCovered
      <4> QED
        BY <1>0, <2>1, <4>1, SamplesGrow
    <3> QED
      BY <3>1, <3>2, <3>3
  <2>4. SeenIsCovered'
    BY <1>3, <2>1, <2>2, <2>3 DEF RecordDatapoint, SeenIsCovered
  <2> QED
    BY <2>1, <2>4 DEF ResourceIsCovered
<1>4. ASSUME NEW gone, Forget(gone) PROVE SeenIsCovered' /\ ResourceIsCovered'
  <2>1. \A n \in Names : n \notin gone => samples'[n] = samples[n]
    BY <1>4 DEF Forget
  <2>2. SeenIsCovered'
    BY <1>0, <1>4, <2>1, PointsAreNamed DEF Forget, SeenIsCovered
  <2>3. ResourceIsCovered'
    BY <1>0, <1>4, <2>1 DEF Forget, ResourceIsCovered, TypeOK
  <2> QED
    BY <2>2, <2>3
<1>5. ASSUME UNCHANGED <<catalog, export, seen>> PROVE SeenIsCovered' /\ ResourceIsCovered'
  BY <1>0, <1>5 DEF SeenIsCovered, ResourceIsCovered
<1> QED
  BY <1>1, <1>2, <1>3, <1>4, <1>5
     DEF Next, vars, RequestBegin, AnalyzeFilter, ReadLen, ReadNames

(* Analysing a filter judges every point of before, and takes back no      *)
(* judgement: composition only makes outcomes worse.                       *)
LEMMA AnalysisJudges ==
  ASSUME SafeInv, NEW f \in config, AnalyzeFilter(f), NEW p \in before,
         NEW g \in config \ todo', HasRules(g)
  PROVE  Judged(p, g)'
<1>0. TypeOK /\ SeenIsCovered /\ BeforeIsJudged /\ p \in seen /\ g \in Filter /\ f \in Filter
  BY CoverageAssumption DEF SafeInv, BeforeIsJudged, TypeOK
<1>1. p \in Point /\ p.name \in Names /\ p.name \in Strings
  BY <1>0, PointsAreNamed DEF Strings
<1>2. hasCatalog /\ p.name \in known /\ Covers(samples[p.name], p)
  BY <1>0 DEF BeforeIsJudged, SeenIsCovered, AnalyzeFilter
<1> DEFINE result == Outcome(f, p.name, samples[p.name])
<1>3. result \in Outcomes /\ samples[p.name] \in [Attrs -> SUBSET Values]
  BY <1>0, <1>1, OutcomeType DEF TypeOK
<1>4. outcomes'[p.name] = IF outcomes[p.name] = "none" THEN result
                          ELSE Compose(outcomes[p.name], result)
  BY <1>1, <1>2 DEF AnalyzeFilter
<1>5. outcomes[p.name] \in Outcomes \union {"none"}
  BY <1>0, <1>1 DEF TypeOK
<1>6. result = "kept" => \A other \in BOOLEAN : ~Drops(f, p, other)
  BY <1>0, <1>1, <1>2, <1>3, KeptIsNotDropped
<1> HIDE DEF result
<1>7. outcomes'[p.name] \in Outcomes
  BY <1>3, <1>4, ComposeType
<1>8. outcomes'[p.name] = "kept" => result = "kept" /\ outcomes[p.name] \in {"kept", "none"}
  BY <1>3, <1>4, <1>5, ComposeKept
<1>9. CASE g = f
  BY <1>6, <1>7, <1>8, <1>9 DEF Judged
<1>10. CASE g # f
  <2>1. g \in config \ todo
    BY <1>10 DEF AnalyzeFilter
  <2>2. Judged(p, g)
    BY <1>0, <2>1 DEF BeforeIsJudged
  <2> QED
    BY <1>7, <1>8, <2>2 DEF Judged, Outcomes
<1> QED
  BY <1>9, <1>10

LEMMA JudgedStep == SafeInv /\ [Next]_vars => BeforeIsJudged'
<1> SUFFICES ASSUME SafeInv, [Next]_vars PROVE BeforeIsJudged'
  OBVIOUS
<1> USE DEF fixed, catalog, export, request
<1>0. TypeOK /\ SeenIsCovered /\ BeforeIsJudged
  BY DEF SafeInv
<1>1. ASSUME NEW p \in Points, Record(p) PROVE BeforeIsJudged'
  BY <1>0, <1>1 DEF Record, BeforeIsJudged, Judged
<1>2. ASSUME RecordResource PROVE BeforeIsJudged'
  BY <1>0, <1>2 DEF RecordResource, BeforeIsJudged, Judged
<1>3. ASSUME RecordDatapoint PROVE BeforeIsJudged'
  BY <1>0, <1>3 DEF RecordDatapoint, BeforeIsJudged, Judged
<1>4. ASSUME NEW gone, Forget(gone) PROVE BeforeIsJudged'
  BY <1>0, <1>4 DEF Forget, BeforeIsJudged, Judged
<1>5. ASSUME RequestBegin PROVE BeforeIsJudged'
  <2>1. \A f \in config' \ todo' : ~HasRules(f)
    BY <1>5 DEF RequestBegin
  <2>2. \A p \in before' : p \in seen' /\ hasCatalog'
    BY <1>0, <1>5 DEF RequestBegin, SeenIsCovered
  <2> QED
    BY <2>1, <2>2 DEF BeforeIsJudged
<1>6. ASSUME NEW f \in config, AnalyzeFilter(f) PROVE BeforeIsJudged'
  <2>1. \A p \in before', g \in config' \ todo' : HasRules(g) => Judged(p, g)'
    BY <1>6, AnalysisJudges DEF AnalyzeFilter
  <2>2. \A p \in before' : p \in seen' /\ (pc' # "idle" => hasCatalog')
    BY <1>0, <1>6 DEF AnalyzeFilter, BeforeIsJudged
  <2> QED
    BY <2>1, <2>2 DEF BeforeIsJudged
<1>7. ASSUME ReadLen PROVE BeforeIsJudged'
  BY <1>0, <1>7 DEF ReadLen, Answer, BeforeIsJudged, Judged
<1>8. ASSUME ReadNames PROVE BeforeIsJudged'
  BY <1>0, <1>8 DEF ReadNames, Answer, BeforeIsJudged, Judged
<1>9. CASE UNCHANGED vars
  BY <1>0, <1>9 DEF vars, BeforeIsJudged, Judged
<1> QED
  BY <1>1, <1>2, <1>3, <1>4, <1>5, <1>6, <1>7, <1>8, <1>9 DEF Next

LEMMA SafeKeptStep == SafeInv /\ [Next]_vars => SafeIsKept'
<1> SUFFICES ASSUME SafeInv, [Next]_vars PROVE SafeIsKept'
  OBVIOUS
<1> USE DEF fixed, catalog, export, request
<1>0. TypeOK /\ SafeIsKept
  BY DEF SafeInv
<1>1. ASSUME UNCHANGED <<fixed, request>> PROVE SafeIsKept'
  BY <1>0, <1>1 DEF SafeIsKept, Concerns
<1>2. ASSUME RequestBegin PROVE SafeIsKept'
  BY <1>2 DEF RequestBegin, SafeIsKept
<1>3. ASSUME NEW f \in config, AnalyzeFilter(f) PROVE SafeIsKept'
  BY <1>0, <1>3 DEF AnalyzeFilter, SafeIsKept
<1>4. ASSUME NEW b \in BOOLEAN, Answer(b), todo = {}, UNCHANGED <<fixed, todo, outcomes>>
      PROVE  SafeIsKept'
  <2>1. pc' = "idle" /\ todo' = {} /\ status' = DeriveStatus(AlertOutcomes(b))
    BY <1>4 DEF Answer
  <2>2. ASSUME status' = "safe", NEW n \in Names, Concerns(n)'
        PROVE  outcomes'[n] \in {"kept", "none"}
    <3>1. Concerns(n)
      BY <1>4, <2>2 DEF Concerns
    <3> QED
      BY <1>0, <1>4, <2>1, <2>2, <3>1, SafeAnswer
  <2> QED
    BY <2>1, <2>2 DEF SafeIsKept
<1>5. ASSUME ReadLen PROVE SafeIsKept'
  <2>1. CASE known = {}
    BY <1>4, <1>5, <2>1 DEF ReadLen
  <2>2. CASE known # {}
    BY <1>0, <1>5, <2>2 DEF ReadLen, SafeIsKept
  <2> QED
    BY <2>1, <2>2
<1>6. ASSUME ReadNames PROVE SafeIsKept'
  BY <1>0, <1>4, <1>6 DEF ReadNames, SafeIsKept
<1> QED
  BY <1>1, <1>2, <1>3, <1>5, <1>6
     DEF Next, vars, Record, RecordResource, RecordDatapoint, Forget

LEMMA SafeInvariant ==
  /\ Init => SafeInv
  /\ SafeInv /\ [Next]_vars => SafeInv'
<1>1. Init => SafeInv
  BY TypeInit
     DEF Init, SafeInv, SeenIsCovered, ResourceIsCovered, BeforeIsJudged, SafeIsKept
<1> QED
  BY <1>1, TypeStep, CoveredStep, JudgedStep, SafeKeptStep DEF SafeInv

(* An alert that is answered "safe" keeps every point of its metrics that  *)
(* had been recorded when the request came in: no filter drops one,        *)
(* whatever it is that its unsupported conditions mean, and whatever       *)
(* exports, prunes and resets came between the request's reads             *)
(* (alertcoverage_handler.go:66-111, coverage.go:36-161).                  *)
THEOREM SafeIsReliable == Spec => []SafeMeansNotDropped
  BY SafeInvariant, SafeInvImplies, PTL DEF Spec

-----------------------------------------------------------------------------
(* Alarms and unknowns have reasons *)

(* Every sampled value was that of a point.                                *)
SamplesAreFlown ==
  /\ point # NoPoint => point \in flown
  /\ \A n \in Names : \A a \in Attrs : \A v \in samples[n][a] :
       \E p \in flown : p.name = n /\ p.attrs[a] = v

(* A point with no attributes at all. *)
Bare(s) == [name |-> s, attrs |-> [a \in Attrs |-> NoValue]]

DropsSome(f, s) ==
  \/ \E p \in flown : p.name = s /\ Drops(f, p, FALSE)
  \/ Drops(f, Bare(s), FALSE)

NoSpanRules == ~(\E f \in config : SpanRules(f))

(* A bad outcome is that of a filter which drops something.                *)
BadOutcomesAreReal ==
  NoSpanRules => \A s \in Strings :
    outcomes[s] \in {"dropped", "partial"} => \E f \in config : DropsSome(f, s)

(* An alarm was raised for an outcome that still stands.                   *)
AlarmsHaveOutcome ==
  status \in {"broken", "would_activate", "at_risk"} =>
    \E s \in Strings : Concerns(s) /\ outcomes[s] \in {"dropped", "partial"}

(* Why a condition may be undecided for one metric, and whether any is.    *)
IndefiniteFor(c, n) ==
  \/ c.form = "unsupported"
  \/ c.form = "attrMatch" /\ c.arg \notin DOMAIN Fits
  \/ Capped(samples[n][c.attr])

Undecided(n) ==
  \E f \in config : \E i \in DOMAIN Conditions(f) : IndefiniteFor(Conditions(f)[i], n)

Forgotten(n) == \A p \in before : p.name # n

UnknownsAreUndecided ==
  \A n \in alert.names : outcomes[n] = "unknown" => Forgotten(n) \/ Undecided(n)

UnknownsHaveOutcome ==
  status = "unknown" =>
    \/ alert.names = {} \/ alert.patterns # {}
    \/ \E n \in alert.names : outcomes[n] = "unknown" \/ Forgotten(n)

ReasonInv ==
  /\ SafeInv
  /\ SamplesAreFlown /\ BadOutcomesAreReal /\ AlarmsHaveOutcome
  /\ UnknownsAreUndecided /\ UnknownsHaveOutcome

LEMMA AlertType == TypeOK => alert.names \subseteq Names /\ Names \subseteq Strings
  BY CoverageAssumption DEF TypeOK, Strings

LEMMA ReasonImplies == ReasonInv => AlarmIsReal /\ UnknownHasReason
<1> SUFFICES ASSUME ReasonInv PROVE AlarmIsReal /\ UnknownHasReason
  OBVIOUS
<1>1. AlarmIsReal
  BY DEF ReasonInv, BadOutcomesAreReal, AlarmsHaveOutcome, AlarmIsReal, NoSpanRules,
         DropsSome, Bare
<1>2. ASSUME NEW n \in alert.names, Undecided(n)
      PROVE  \E f \in config : \E i \in DOMAIN Conditions(f) : Indefinite(Conditions(f)[i])
  BY <1>2 DEF Undecided, IndefiniteFor, Indefinite
<1>3. UnknownHasReason
  BY <1>2 DEF ReasonInv, UnknownsAreUndecided, UnknownsHaveOutcome, UnknownHasReason, Forgotten
<1> QED
  BY <1>1, <1>3

(* A rule list that does not keep a metric has a condition with the very   *)
(* outcome (matcher.go:193-242).                                           *)
LEMMA DecidedByOne ==
  ASSUME NEW conditions, NEW name, NEW sampled,
         OTTLOutcome(conditions, name, sampled) # "kept"
  PROVE  \E i \in DOMAIN conditions :
           ConditionOutcome(conditions[i], name, sampled) = OTTLOutcome(conditions, name, sampled)
<1> DEFINE outcome(i) == ConditionOutcome(conditions[i], name, sampled)
           decisive(i) == outcome(i) # "kept" /\ \A j \in 1 .. i - 1 : outcome(j) = "kept"
           first == CHOOSE i \in DOMAIN conditions : decisive(i)
<1>1. \E i \in DOMAIN conditions : decisive(i)
  BY DEF OTTLOutcome
<1>2. first \in DOMAIN conditions
  BY <1>1
<1>3. OTTLOutcome(conditions, name, sampled) = outcome(first)
  BY <1>1 DEF OTTLOutcome
<1> HIDE DEF first
<1> QED
  BY <1>2, <1>3

(* A condition that drops some of a metric holds for the bare point, or    *)
(* for any point with a value that was sampled (matcher.go:184-341).       *)
LEMMA BadHolds ==
  ASSUME NEW c \in Condition, NEW s \in Strings, NEW sampled \in [Attrs -> SUBSET Values],
         ConditionOutcome(c, s, sampled) \in {"dropped", "partial"}
  PROVE  \/ Holds(c, Bare(s), FALSE)
         \/ \E v \in sampled[c.attr] : \A p : p.name = s /\ p.attrs[c.attr] = v => Holds(c, p, FALSE)
<1>1. c.attr \in Attrs /\ c.form \in Forms /\ sampled[c.attr] \subseteq Values
  BY DEF Condition
<1>2. CASE c.form = "unsupported"
  BY <1>2 DEF ConditionOutcome
<1>6. CASE c.form = "attrMatch" /\ c.arg \notin DOMAIN Fits
  BY <1>6 DEF ConditionOutcome
<1>3. CASE c.form \in {"name", "nameMatch"}
  BY <1>3 DEF ConditionOutcome, DroppedIf, Holds, Bare
<1>4. CASE c.form = "hasKey"
  <2>1. PICK v \in sampled[c.attr] : TRUE
    BY <1>4 DEF ConditionOutcome, DroppedIf
  <2>2. v # NoValue
    BY <1>1, FilterAssumption DEF Strings
  <2>3. \A p : p.attrs[c.attr] = v => Holds(c, p, FALSE)
    BY <1>4, <2>2 DEF Holds
  <2> QED
    BY <2>3
<1>5. CASE c.form \in {"attr", "hasAttr"} \/ (c.form = "attrMatch" /\ c.arg \in DOMAIN Fits)
  <2>1. OutcomeAtLevel(c.attr[1], OutcomeOfHits(sampled[c.attr], Hits(c, sampled)))
          \in {"dropped", "partial"}
    BY <1>5 DEF ConditionOutcome
  <2>2. Hits(c, sampled) # {}
    BY <2>1 DEF OutcomeAtLevel, OutcomeOfHits
  <2>3. PICK v \in Hits(c, sampled) : TRUE
    BY <2>2
  <2>4. /\ v \in sampled[c.attr]
        /\ IF c.form = "attrMatch" THEN FitsPattern(v, c.arg) ELSE v = c.arg
    BY <2>3 DEF Hits
  <2>5. \A p : p.attrs[c.attr] = v => Holds(c, p, FALSE)
    BY <1>5, <2>4 DEF Holds
  <2> QED
    BY <2>4, <2>5
<1> QED
  BY <1>1, <1>2, <1>3, <1>4, <1>5, <1>6 DEF Forms, AttrForms

(* "dropped" and "partial" are no false alarms: a filter whose rules are   *)
(* about metrics drops the bare point, or any point with one of the values *)
(* that were sampled (matcher.go:175-242).                                 *)
THEOREM BadIsDropped ==
  ASSUME NEW f \in Filter, ~SpanRules(f), NEW s \in Strings,
         NEW sampled \in [Attrs -> SUBSET Values],
         Outcome(f, s, sampled) \in {"dropped", "partial"}
  PROVE  \/ Drops(f, Bare(s), FALSE)
         \/ \E a \in Attrs : \E v \in sampled[a] :
              \A p : p.name = s /\ p.attrs[a] = v => Drops(f, p, FALSE)
<1> DEFINE mine == f.metric \o f.datapoint
<1>1. mine \in Seq(Condition)
  BY DEF Filter
<1> HIDE DEF mine
<1>2. CASE mine # <<>>
  <2>1. OTTLOutcome(mine, s, sampled) \in {"dropped", "partial"}
    BY <1>2 DEF Outcome, Conditions, mine
  <2>2. PICK i \in DOMAIN mine : ConditionOutcome(mine[i], s, sampled) \in {"dropped", "partial"}
    BY <2>1, DecidedByOne
  <2> DEFINE c == mine[i]
  <2>3. c \in Condition
    BY <1>1, <2>2
  <2>4. \A p : Holds(c, p, FALSE) => Drops(f, p, FALSE)
    BY <1>2, <2>2 DEF Drops, mine
  <2>5. ConditionOutcome(c, s, sampled) \in {"dropped", "partial"}
    BY <2>2
  <2> HIDE DEF c
  <2>6. c.attr \in Attrs
    BY <2>3 DEF Condition
  <2>7. \/ Holds(c, Bare(s), FALSE)
        \/ \E v \in sampled[c.attr] : \A p : p.name = s /\ p.attrs[c.attr] = v => Holds(c, p, FALSE)
    BY <2>3, <2>5, BadHolds
  <2> QED
    BY <2>4, <2>6, <2>7
<1>3. CASE mine = <<>>
  <2>1. Conditions(f) = <<>>
    BY <1>3 DEF Conditions, SpanRules, mine
  <2>2. ListOutcome(f, s) = "dropped"
    BY <2>1 DEF Outcome, ListOutcome, DroppedIf
  <2> QED
    BY <1>3, <2>2 DEF ListOutcome, DroppedIf, Drops, Bare, mine
<1> QED
  BY <1>2, <1>3

LEMMA ConditionsType ==
  ASSUME NEW f \in Filter
  PROVE  Conditions(f) \in Seq(Condition)
<1>1. f.metric \in Seq(Condition) /\ f.datapoint \in Seq(Condition) /\ f.span \in Seq(Condition)
  BY DEF Filter
<1> QED
  BY <1>1 DEF Conditions

(* "unknown" is the outcome of a condition that cannot be decided.         *)
LEMMA UnknownOutcome ==
  ASSUME NEW f \in config, NEW n \in Names, TypeOK, Outcome(f, n, samples[n]) = "unknown"
  PROVE  Undecided(n)
<1>1. OTTLOutcome(Conditions(f), n, samples[n]) = "unknown"
  BY DEF Outcome, ListOutcome, DroppedIf
<1>2. PICK i \in DOMAIN Conditions(f) :
        ConditionOutcome(Conditions(f)[i], n, samples[n]) = "unknown"
  BY <1>1, DecidedByOne
<1> DEFINE c == Conditions(f)[i]
<1>3. IndefiniteFor(c, n)
  <2>4. c \in Condition
    BY <1>2, CoverageAssumption, ConditionsType DEF TypeOK
  <2> HIDE DEF c
  <2>5. c.form \in Forms
    BY <2>4 DEF Condition
  <2>0. ConditionOutcome(c, n, samples[n]) = "unknown"
    BY <1>2 DEF c
  <2>1. CASE c.form = "unsupported"
    BY <2>1 DEF IndefiniteFor
  <2>6. CASE c.form = "attrMatch" /\ c.arg \notin DOMAIN Fits
    BY <2>6 DEF IndefiniteFor
  <2>2. CASE c.form \in {"name", "nameMatch", "hasKey"}
    BY <2>0, <2>2 DEF ConditionOutcome, DroppedIf
  <2>3. CASE c.form \in {"attr", "hasAttr"} \/ (c.form = "attrMatch" /\ c.arg \in DOMAIN Fits)
    <3>1. OutcomeAtLevel(c.attr[1], OutcomeOfHits(samples[n][c.attr], Hits(c, samples[n])))
            = "unknown"
      BY <2>0, <2>3 DEF ConditionOutcome
    <3>2. Capped(samples[n][c.attr])
      BY <3>1 DEF OutcomeAtLevel, OutcomeOfHits
    <3> QED
      BY <3>2 DEF IndefiniteFor
  <2> QED
    BY <2>1, <2>2, <2>3, <2>5, <2>6 DEF Forms, AttrForms
<1> QED
  BY <1>3 DEF Undecided

(* The outcome of several processors is that of one of them. *)
LEMMA ComposeOneOf ==
  ASSUME NEW x \in Outcomes, NEW y \in Outcomes
  PROVE  Compose(x, y) \in {x, y}
  BY DEF Compose, Worst, Outcomes

LEMMA AnalysedOutcome ==
  ASSUME TypeOK, NEW f \in config, AnalyzeFilter(f), NEW s \in Strings,
         outcomes'[s] # outcomes[s]
  PROVE  /\ outcomes'[s] = Outcome(f, s, IF hasCatalog THEN samples[s] ELSE NoSamples)
         /\ hasCatalog => s \in known
<1> DEFINE result == Outcome(f, s, IF hasCatalog THEN samples[s] ELSE NoSamples)
           analysed == IF hasCatalog THEN known ELSE RuleNames(f)
<1>1. result \in Outcomes /\ outcomes[s] \in Outcomes \union {"none"}
  BY OutcomeType DEF TypeOK
<1>2. outcomes'[s] = IF s \notin analysed THEN outcomes[s]
                     ELSE IF outcomes[s] = "none" THEN result
                     ELSE Compose(outcomes[s], result)
  BY DEF AnalyzeFilter
<1>3. s \in analysed
  BY <1>2
<1> HIDE DEF result
<1>4. outcomes'[s] = result
  BY <1>1, <1>2, <1>3, ComposeOneOf
<1> QED
  BY <1>3, <1>4 DEF result

(* A step of the exporter samples values of the point it records.          *)
LEMMA SampledIsPoints ==
  ASSUME TypeOK, point # NoPoint, NEW lvl, NEW n \in Names, NEW a \in Attrs,
         NEW v \in AddSamples(lvl)[n][a]
  PROVE  v \in samples[n][a] \/ (n = point.name /\ v = point.attrs[a])
<1>1. CASE n # point.name \/ n \notin known
  BY <1>1, SamplesType
<1>2. CASE n = point.name /\ n \in known
  <2>1. AddSamples(lvl)[n][a] = IF a[1] = lvl THEN AddSample(samples[n][a], point.attrs[a])
                                ELSE samples[n][a]
    BY <1>2, SamplesType
  <2> QED
    BY <1>2, <2>1 DEF AddSample
<1> QED
  BY <1>1, <1>2

LEMMA FlownStep == TypeOK /\ SamplesAreFlown /\ [Next]_vars => SamplesAreFlown'
<1> SUFFICES ASSUME TypeOK, SamplesAreFlown, [Next]_vars PROVE SamplesAreFlown'
  OBVIOUS
<1> USE DEF fixed, catalog, export, request
<1>1. ASSUME NEW p \in Points, Record(p) PROVE SamplesAreFlown'
  BY <1>1 DEF Record, SamplesAreFlown
<1>2. ASSUME NEW lvl, point # NoPoint, samples' = AddSamples(lvl), point' \in {point, NoPoint},
             flown' = flown
      PROVE  SamplesAreFlown'
  <2>1. ASSUME NEW n \in Names, NEW a \in Attrs, NEW v \in samples'[n][a]
        PROVE  \E p \in flown' : p.name = n /\ p.attrs[a] = v
    <3>1. v \in samples[n][a] \/ (n = point.name /\ v = point.attrs[a])
      BY <1>2, <2>1, SampledIsPoints
    <3> QED
      BY <1>2, <3>1 DEF SamplesAreFlown
  <2> QED
    BY <1>2, <2>1 DEF SamplesAreFlown
<1>3. ASSUME RecordResource PROVE SamplesAreFlown'
  BY <1>2, <1>3 DEF RecordResource, TypeOK
<1>4. ASSUME RecordDatapoint PROVE SamplesAreFlown'
  BY <1>2, <1>4 DEF RecordDatapoint, TypeOK
<1>5. ASSUME NEW gone, Forget(gone) PROVE SamplesAreFlown'
  BY <1>5 DEF Forget, SamplesAreFlown, NoSamples
<1>6. ASSUME UNCHANGED <<catalog, export, flown>> PROVE SamplesAreFlown'
  BY <1>6 DEF SamplesAreFlown
<1> QED
  BY <1>1, <1>3, <1>4, <1>5, <1>6
     DEF Next, vars, RequestBegin, AnalyzeFilter, ReadLen, ReadNames

(* What a filter drops of what was seen, it still drops of what is seen.   *)
LEMMA DropsStand ==
  ASSUME flown \subseteq flown', NEW f, NEW s, DropsSome(f, s)
  PROVE  DropsSome(f, s)'
  BY DEF DropsSome, Bare

LEMMA FlownGrows == [Next]_vars => flown \subseteq flown' /\ config' = config /\ alert' = alert
  BY DEF Next, vars, fixed, Record, RecordResource, RecordDatapoint, Forget, RequestBegin,
         AnalyzeFilter, ReadLen, ReadNames

(* Analysing a filter raises no false alarm. *)
LEMMA AnalysisIsReal ==
  ASSUME TypeOK, SamplesAreFlown, NoSpanRules, NEW f \in config, AnalyzeFilter(f),
         NEW s \in Strings, outcomes'[s] # outcomes[s], outcomes'[s] \in {"dropped", "partial"}
  PROVE  DropsSome(f, s)
<1> DEFINE sampled == IF hasCatalog THEN samples[s] ELSE NoSamples
<1>1. Outcome(f, s, sampled) \in {"dropped", "partial"} /\ (hasCatalog => s \in Names)
  BY AnalysedOutcome DEF TypeOK
<1>2. sampled \in [Attrs -> SUBSET Values]
  BY <1>1 DEF TypeOK, NoSamples
<1>3. f \in Filter /\ ~SpanRules(f)
  BY CoverageAssumption DEF TypeOK, NoSpanRules
<1>4. ASSUME NEW a \in Attrs, NEW v \in sampled[a] PROVE \E p \in flown : p.name = s /\ p.attrs[a] = v
  BY <1>1, <1>4 DEF SamplesAreFlown, NoSamples
<1> HIDE DEF sampled
<1>5. CASE Drops(f, Bare(s), FALSE)
  BY <1>5 DEF DropsSome
<1>6. ASSUME NEW a \in Attrs, NEW v \in sampled[a],
             \A p : p.name = s /\ p.attrs[a] = v => Drops(f, p, FALSE)
      PROVE  DropsSome(f, s)
  <2>1. PICK p \in flown : p.name = s /\ p.attrs[a] = v
    BY <1>4, <1>6
  <2> QED
    BY <1>6, <2>1 DEF DropsSome
<1> QED
  BY <1>1, <1>2, <1>3, <1>5, <1>6, BadIsDropped

LEMMA BadOutcomesStep ==
  TypeOK /\ SamplesAreFlown /\ BadOutcomesAreReal /\ [Next]_vars => BadOutcomesAreReal'
<1> SUFFICES ASSUME TypeOK, SamplesAreFlown, BadOutcomesAreReal, [Next]_vars,
                    NoSpanRules', NEW s \in Strings, outcomes'[s] \in {"dropped", "partial"}
             PROVE  \E f \in config' : DropsSome(f, s)'
  BY DEF BadOutcomesAreReal
<1> USE DEF fixed, catalog, export, request
<1>1. flown \subseteq flown' /\ config' = config /\ NoSpanRules
  BY FlownGrows DEF NoSpanRules
<1>2. CASE outcomes'[s] = outcomes[s]
  <2>1. PICK f \in config : DropsSome(f, s)
    BY <1>1, <1>2 DEF BadOutcomesAreReal
  <2> QED
    BY <1>1, <2>1, DropsStand
<1>3. CASE outcomes'[s] # outcomes[s]
  <2>1. RequestBegin \/ \E f \in config : AnalyzeFilter(f)
    BY <1>3 DEF Next, vars, Record, RecordResource, RecordDatapoint, Forget, ReadLen, ReadNames
  <2>2. ~RequestBegin
    BY DEF RequestBegin
  <2>3. PICK f \in config : AnalyzeFilter(f)
    BY <2>1, <2>2
  <2>4. DropsSome(f, s)
    BY <1>1, <1>3, <2>3, AnalysisIsReal
  <2> QED
    BY <1>1, <2>4, DropsStand
<1> QED
  BY <1>2, <1>3

(* A status that is answered is that of an outcome.                        *)
LEMMA WorstIsOneOf ==
  ASSUME NEW set, Worst(set) # "kept"
  PROVE  Worst(set) \in set
  BY DEF Worst

LEMMA AlarmAnswer ==
  ASSUME TypeOK, NEW b \in BOOLEAN,
         DeriveStatus(AlertOutcomes(b)) \in {"broken", "would_activate", "at_risk"}
  PROVE  \E s \in Strings : Concerns(s) /\ outcomes[s] \in {"dropped", "partial"}
<1> DEFINE set == AlertOutcomes(b)
           worst == Worst(set)
<1>1. worst \in {"dropped", "partial"}
  <2> HIDE DEF set
  <2>1. worst \in Outcomes
    BY DEF Worst, Outcomes
  <2> HIDE DEF worst
  <2>2. DeriveStatus(set) \notin {"unknown", "safe"}
    BY DEF set
  <2> QED
    BY <2>1, <2>2 DEF DeriveStatus, Outcomes, worst
<1>2. worst \in set
  BY <1>1, WorstIsOneOf
<1>3. ASSUME NEW n \in alert.names, NameOutcome(b, n) = worst
      PROVE  outcomes[n] = worst /\ Concerns(n) /\ n \in Strings
  <2> HIDE DEF worst
  <2> QED
    BY <1>1, <1>3, AlertType DEF NameOutcome, UnfilteredOutcome, Concerns
<1>4. ASSUME NEW q \in alert.patterns, RegexOutcome(q) = worst
      PROVE  \E s \in Strings : Concerns(s) /\ outcomes[s] = worst
  <2> DEFINE found == IF q \in DOMAIN Finds THEN {s \in Finds[q] : outcomes[s] # "none"} ELSE {}
             results == {outcomes[s] : s \in found}
  <2> HIDE DEF worst
  <2>1. found # {} /\ Worst(results) = worst
    BY <1>1, <1>4 DEF RegexOutcome
  <2>2. worst \in results
    <3> HIDE DEF results
    <3> QED BY <1>1, <2>1, WorstIsOneOf
  <2>3. PICK s \in found : outcomes[s] = worst
    BY <2>2
  <2>4. q \in DOMAIN Finds /\ s \in Finds[q]
    BY <2>1, <2>3
  <2> QED
    BY <2>3, <2>4, CoverageAssumption DEF Concerns
<1> HIDE DEF worst
<1>5. \/ \E n \in alert.names : NameOutcome(b, n) = worst
      \/ \E q \in alert.patterns : RegexOutcome(q) = worst
  BY <1>2 DEF AlertOutcomes
<1> QED
  BY <1>1, <1>3, <1>4, <1>5

LEMMA AlarmStep ==
  TypeOK /\ SafeIsKept /\ AlarmsHaveOutcome /\ [Next]_vars => AlarmsHaveOutcome'
<1> SUFFICES ASSUME TypeOK, SafeIsKept, AlarmsHaveOutcome, [Next]_vars PROVE AlarmsHaveOutcome'
  OBVIOUS
<1> USE DEF fixed, catalog, export, request
<1>1. ASSUME UNCHANGED <<fixed, outcomes, status>> PROVE AlarmsHaveOutcome'
  BY <1>1 DEF AlarmsHaveOutcome, Concerns
<1>2. ASSUME RequestBegin PROVE AlarmsHaveOutcome'
  BY <1>2 DEF RequestBegin, AlarmsHaveOutcome
<1>3. ASSUME NEW f \in config, AnalyzeFilter(f) PROVE AlarmsHaveOutcome'
  BY <1>3 DEF AnalyzeFilter, AlarmsHaveOutcome, SafeIsKept
<1>4. ASSUME NEW b \in BOOLEAN, Answer(b), UNCHANGED <<fixed, outcomes>> PROVE AlarmsHaveOutcome'
  <2>1. status' = DeriveStatus(AlertOutcomes(b))
    BY <1>4 DEF Answer
  <2>2. \A s : Concerns(s) => Concerns(s)'
    BY <1>4 DEF Concerns
  <2> QED
    BY <1>4, <2>1, <2>2, AlarmAnswer DEF AlarmsHaveOutcome
<1>5. ASSUME ReadLen PROVE AlarmsHaveOutcome'
  BY <1>1, <1>4, <1>5 DEF ReadLen
<1>6. ASSUME ReadNames PROVE AlarmsHaveOutcome'
  BY <1>4, <1>6 DEF ReadNames
<1> QED
  BY <1>1, <1>2, <1>3, <1>5, <1>6
     DEF Next, vars, Record, RecordResource, RecordDatapoint, Forget

(* A tracker that is capped takes no further value, so what could not be   *)
(* decided still cannot be, unless the metric was forgotten.               *)
LEMMA UndecidedStands ==
  ASSUME TypeOK, [Next]_vars, NEW n \in alert.names, Undecided(n)
  PROVE  Undecided(n)' \/ Forgotten(n)'
<1> USE DEF fixed, catalog, export, request
<1>0. n \in Names /\ config' = config
  BY AlertType, FlownGrows
<1>1. PICK f \in config : \E i \in DOMAIN Conditions(f) : IndefiniteFor(Conditions(f)[i], n)
  BY DEF Undecided
<1>2. PICK i \in DOMAIN Conditions(f) : IndefiniteFor(Conditions(f)[i], n)
  BY <1>1
<1> DEFINE c == Conditions(f)[i]
<1>3. c \in Condition
  BY <1>2, CoverageAssumption, ConditionsType DEF TypeOK
<1>4. SUFFICES ASSUME ~Forgotten(n)' PROVE IndefiniteFor(c, n)'
  BY <1>0, <1>1, <1>2 DEF Undecided
<1>5. IndefiniteFor(c, n)
  BY <1>2
<1> HIDE DEF c
<1>6. c.attr \in Attrs
  BY <1>3 DEF Condition
<1>7. CASE samples'[n] = samples[n]
  BY <1>5, <1>7 DEF IndefiniteFor
<1>8. ASSUME NEW lvl, point # NoPoint, samples' = AddSamples(lvl) PROVE IndefiniteFor(c, n)'
  <2>1. CASE Capped(samples[n][c.attr])
    <3>1. CASE n # point.name \/ n \notin known
      BY <1>0, <1>7, <1>8, <3>1, SamplesType
    <3>2. CASE n = point.name /\ n \in known
      <4>1. samples'[n][c.attr] = IF c.attr[1] = lvl
                                  THEN AddSample(samples[n][c.attr], point.attrs[c.attr])
                                  ELSE samples[n][c.attr]
        BY <1>6, <1>8, <3>2, SamplesType
      <4>2. samples'[n][c.attr] = samples[n][c.attr]
        BY <2>1, <4>1 DEF AddSample
      <4> QED
        BY <2>1, <4>2 DEF IndefiniteFor
    <3> QED
      BY <3>1, <3>2
  <2>2. CASE ~Capped(samples[n][c.attr])
    BY <1>5, <2>2 DEF IndefiniteFor
  <2> QED
    BY <2>1, <2>2
<1>9. CASE RecordResource
  BY <1>8, <1>9 DEF RecordResource, TypeOK
<1>10. CASE RecordDatapoint
  BY <1>8, <1>10 DEF RecordDatapoint, TypeOK
<1>11. ASSUME NEW gone, Forget(gone) PROVE IndefiniteFor(c, n)'
  <2>1. n \notin gone
    BY <1>4, <1>11 DEF Forget, Forgotten
  <2>2. samples'[n] = samples[n]
    BY <1>0, <1>11, <2>1 DEF Forget
  <2> QED
    BY <1>7, <2>2
<1>12. CASE samples' = samples
  BY <1>7, <1>12
<1> QED
  BY <1>9, <1>10, <1>11, <1>12
     DEF Next, vars, Record, RequestBegin, AnalyzeFilter, ReadLen, ReadNames

(* What is forgotten stays so until the next request begins.               *)
LEMMA ForgottenStands ==
  ASSUME [Next]_vars, ~RequestBegin, NEW n, Forgotten(n)
  PROVE  Forgotten(n)'
  BY DEF Forgotten, Next, vars, fixed, catalog, export, request, Record, RecordResource,
         RecordDatapoint, Forget, AnalyzeFilter, ReadLen, ReadNames

LEMMA UnknownStep == SafeInv /\ UnknownsAreUndecided /\ [Next]_vars => UnknownsAreUndecided'
<1> SUFFICES ASSUME SafeInv, UnknownsAreUndecided, [Next]_vars,
                    NEW n \in alert.names, outcomes'[n] = "unknown"
             PROVE  Forgotten(n)' \/ Undecided(n)'
  BY FlownGrows DEF UnknownsAreUndecided
<1> USE DEF fixed, catalog, export, request
<1>0. TypeOK /\ n \in Names /\ n \in Strings
  BY AlertType DEF SafeInv
<1>1. ~RequestBegin
  BY <1>0 DEF RequestBegin
<1>2. CASE outcomes'[n] = outcomes[n]
  BY <1>0, <1>1, <1>2, ForgottenStands, UndecidedStands DEF UnknownsAreUndecided
<1>3. CASE outcomes'[n] # outcomes[n]
  <2>1. PICK f \in config : AnalyzeFilter(f)
    BY <1>1, <1>3 DEF Next, vars, Record, RecordResource, RecordDatapoint, Forget, ReadLen, ReadNames
  <2>2. CASE Forgotten(n)
    BY <1>1, <2>2, ForgottenStands
  <2>3. CASE ~Forgotten(n)
    <3>1. hasCatalog
      BY <2>1, <2>3 DEF Forgotten, SafeInv, BeforeIsJudged, AnalyzeFilter
    <3>2. Outcome(f, n, samples[n]) = "unknown"
      BY <1>0, <1>3, <2>1, <3>1, AnalysedOutcome
    <3>3. Undecided(n)
      BY <1>0, <3>2, UnknownOutcome
    <3> QED
      BY <1>0, <3>3, UndecidedStands
  <2> QED
    BY <2>2, <2>3
<1> QED
  BY <1>2, <1>3

(* An alert is answered "unknown" for one of its names that is, or that is *)
(* not in the catalog any more.                                            *)
LEMMA UnknownAnswer ==
  ASSUME TypeOK, SeenIsCovered, BeforeIsJudged, NEW b \in BOOLEAN,
         DeriveStatus(AlertOutcomes(b)) = "unknown"
  PROVE  \/ alert.names = {} \/ alert.patterns # {}
         \/ \E n \in alert.names : outcomes[n] = "unknown" \/ Forgotten(n)
<1> SUFFICES ASSUME alert.names # {}, alert.patterns = {}
             PROVE  \E n \in alert.names : outcomes[n] = "unknown" \/ Forgotten(n)
  OBVIOUS
<1> DEFINE set == AlertOutcomes(b)
<1>1. PICK m \in alert.names : NameOutcome(b, m) \in set
  BY DEF AlertOutcomes
<1>2. Worst(set) = "unknown"
  <2> HIDE DEF set
  <2>1. Worst(set) \in Outcomes /\ set # {}
    BY <1>1 DEF Worst, Outcomes
  <2>2. DeriveStatus(set) = "unknown"
    BY DEF set
  <2> QED
    BY <2>1, <2>2 DEF DeriveStatus, Outcomes
<1>3. "unknown" \in set
  BY <1>2, WorstIsOneOf
<1>4. PICK n \in alert.names : NameOutcome(b, n) = "unknown"
  BY <1>3 DEF AlertOutcomes
<1>5. CASE outcomes[n] = "none"
  <2>1. n \notin known
    BY <1>4, <1>5 DEF NameOutcome, UnfilteredOutcome
  <2>2. Forgotten(n)
    BY <2>1 DEF Forgotten, SeenIsCovered, BeforeIsJudged
  <2> QED
    BY <2>2
<1>6. CASE outcomes[n] # "none"
  BY <1>4, <1>6 DEF NameOutcome
<1> QED
  BY <1>5, <1>6

LEMMA UnknownOutcomeStep ==
  SafeInv /\ UnknownsHaveOutcome /\ [Next]_vars => UnknownsHaveOutcome'
<1> SUFFICES ASSUME SafeInv, UnknownsHaveOutcome, [Next]_vars PROVE UnknownsHaveOutcome'
  OBVIOUS
<1> USE DEF fixed, catalog, export, request
<1>1. ASSUME UNCHANGED <<fixed, outcomes, status>>, before' \subseteq before
      PROVE  UnknownsHaveOutcome'
  BY <1>1 DEF UnknownsHaveOutcome, Forgotten
<1>2. ASSUME RequestBegin PROVE UnknownsHaveOutcome'
  BY <1>2 DEF RequestBegin, UnknownsHaveOutcome
<1>3. ASSUME NEW f \in config, AnalyzeFilter(f) PROVE UnknownsHaveOutcome'
  BY <1>3 DEF AnalyzeFilter, UnknownsHaveOutcome, SafeInv, SafeIsKept
<1>4. ASSUME NEW b \in BOOLEAN, Answer(b), UNCHANGED <<fixed, outcomes, before>>
      PROVE  UnknownsHaveOutcome'
  <2>1. status' = DeriveStatus(AlertOutcomes(b))
    BY <1>4 DEF Answer
  <2>2. \A n : Forgotten(n) => Forgotten(n)'
    BY <1>4 DEF Forgotten
  <2> QED
    BY <1>4, <2>1, <2>2, UnknownAnswer DEF UnknownsHaveOutcome, SafeInv
<1>5. ASSUME ReadLen PROVE UnknownsHaveOutcome'
  BY <1>1, <1>4, <1>5 DEF ReadLen
<1>6. ASSUME ReadNames PROVE UnknownsHaveOutcome'
  BY <1>4, <1>6 DEF ReadNames
<1> QED
  BY <1>1, <1>2, <1>3, <1>5, <1>6
     DEF Next, vars, Record, RecordResource, RecordDatapoint, Forget

LEMMA ReasonInvariant == Spec => []ReasonInv
<1>1. Init => ReasonInv
  BY SafeInvariant, AlertType, TypeInit
     DEF Init, ReasonInv, SamplesAreFlown, BadOutcomesAreReal, AlarmsHaveOutcome,
         UnknownsAreUndecided, UnknownsHaveOutcome, NoSamples
<1>2. ReasonInv /\ [Next]_vars => ReasonInv'
  BY SafeInvariant, FlownStep, BadOutcomesStep, AlarmStep, UnknownStep, UnknownOutcomeStep
     DEF ReasonInv, SafeInv
<1> QED
  BY <1>1, <1>2, PTL DEF Spec

(* "broken", "would_activate" and "at_risk" are no false alarms: unless    *)
(* conditions on spans pass for rules on metrics, a filter drops a point   *)
(* that was exported, or any point, of a metric that the alert refers to   *)
(* (coverage.go:147-156).                                                  *)
THEOREM AlarmsAreReal == Spec => []AlarmIsReal
  BY ReasonInvariant, ReasonImplies, PTL

(* "unknown" is never an accident of timing: however exports, prunes and   *)
(* resets come between the reads of a request, an alert on metrics that    *)
(* were there before it and have not been forgotten gets a verdict, unless *)
(* a condition cannot be decided (coverage.go:86-90).                      *)
THEOREM UnknownsHaveReason == Spec => []UnknownHasReason
  BY ReasonInvariant, ReasonImplies, PTL

-----------------------------------------------------------------------------
(* The search for connector loops *)

OnPath(u) == \E i \in 1 .. Len(path) : path[i] = u

PathInv ==
  /\ \A i, j \in 1 .. Len(path) : path[i] = path[j] => i = j
  /\ \A u \in Pipeline : color[u] = "gray" <=> OnPath(u)
  /\ \A i \in 1 .. Len(path) - 1 :
       parent[path[i + 1]] = path[i] /\ path[i + 1] \in adj[path[i]]

\* The walk has come up to path[k] and looks for path[j].
WalkAt(k, j) ==
  /\ j <= k
  /\ Len(walk) = Len(path) - k + 2
  /\ \A i \in 1 .. Len(path) - k + 1 : walk[i] = path[k + i - 1]
  /\ walk[Len(walk)] = path[j]
  /\ path[j] \in adj[path[Len(path)]]

WalkInv == walk # <<>> => \E k, j \in 1 .. Len(path) : WalkAt(k, j)

Found == cycles # {} \/ walk # <<>>

RestInv ==
  \A i \in 1 .. Len(path) :
    /\ rest[path[i]] \subseteq adj[path[i]]
    /\ \A v \in adj[path[i]] \ rest[path[i]] :
         Found \/ color[v] = "black" \/ (i < Len(path) /\ v = path[i + 1])

BlackInv ==
  \A u \in DOMAIN adj :
    color[u] = "black" =>
      /\ finish[u] <= clock
      /\ \A v \in adj[u] : Found \/ (color[v] = "black" /\ finish[v] < finish[u])

LoopInv ==
  SearchTypeOK /\ PathInv /\ WalkInv /\ RestInv /\ BlackInv /\ ReportedAreCycles
-----------------------------------------------------------------------------
(* A graph gives sets of its own pipelines. *)
LEMMA GraphType ==
  ASSUME NEW g, IsGraph(g)
  PROVE  DOMAIN g \subseteq Pipeline /\ g \in [DOMAIN g -> SUBSET DOMAIN g]
BY DEF IsGraph

LEMMA GraphsAreGraphs ==
  \A S \in SUBSET Pipeline : \A g \in [S -> SUBSET S] : IsGraph(g)
BY DEF IsGraph

(* The sequence without its last element. *)
LEMMA FrontProperties ==
  ASSUME NEW S, NEW s \in Seq(S), s # <<>>
  PROVE  LET f == SubSeq(s, 1, Len(s) - 1)
         IN  /\ f \in Seq(S)
             /\ Len(f) = Len(s) - 1
             /\ \A i \in 1 .. Len(s) - 1 : f[i] = s[i]
<1> DEFINE n == Len(s) - 1
<1>1. n \in Nat /\ \A i \in 1 .. n : s[i] \in S
  BY EmptySeq, LenProperties
<1> HIDE DEF n
<1>2. (IF 1 <= n THEN n - 1 + 1 ELSE 0) = n /\ n - 1 + 1 = n
  BY <1>1
<1>3. n \in Int /\ 1 \in Int
  BY <1>1
<1>4. /\ SubSeq(s, 1, n) \in Seq(S)
      /\ Len(SubSeq(s, 1, n)) = n
      /\ \A i \in 1 .. n : SubSeq(s, 1, n)[i] = s[1 + i - 1]
  BY <1>1, <1>2, <1>3, SubSeqProperties
<1> QED
  BY <1>1, <1>4 DEF n

(* What follows from the types alone, of the path and of the call that is *)
(* under way innermost.                                                   *)
LEMMA PathType ==
  ASSUME SearchTypeOK
  PROVE  /\ DOMAIN adj \subseteq Pipeline
         /\ adj \in [DOMAIN adj -> SUBSET DOMAIN adj]
         /\ Len(path) \in Nat
         /\ \A i \in 1 .. Len(path) : path[i] \in DOMAIN adj
         /\ path # <<>> => /\ Len(path) \in 1 .. Len(path)
                           /\ EndOf(path) = path[Len(path)]
                           /\ EndOf(path) \in DOMAIN adj
BY GraphType, LenProperties, EmptySeq, ElementOfSeq DEF SearchTypeOK, EndOf
-----------------------------------------------------------------------------
(* Nothing is visited and nothing found before a search. *)
Fresh == \E g : IsGraph(g) /\ SearchInit(g)

LEMMA FreshInv == Fresh => LoopInv
<1> SUFFICES ASSUME NEW g, IsGraph(g), SearchInit(g)
             PROVE  LoopInv
  BY DEF Fresh
<1> USE DEF SearchInit
<1>1. IsGraph(adj) /\ DOMAIN adj \subseteq Pipeline
  BY GraphType
<1>2. SearchTypeOK
  BY <1>1 DEF SearchTypeOK, Colors
<1>3. PathInv /\ WalkInv /\ RestInv
  BY DEF PathInv, OnPath, WalkInv, RestInv
<1>4. BlackInv
  BY <1>1 DEF BlackInv
<1> QED
  BY <1>2, <1>3, <1>4 DEF LoopInv, ReportedAreCycles

(* connector_loop.go:38-44 and 79-83 *)
LEMMA VisitInv ==
  ASSUME LoopInv, NEW u \in Pipeline, Visit(u)
  PROVE  LoopInv'
<1> USE DEF LoopInv, Visit, Enter
<1>1. /\ path = <<>> /\ u \in DOMAIN adj /\ color[u] = "white"
      /\ color' = [color EXCEPT ![u] = "gray"]
      /\ path' = Append(path, u)
      /\ rest' = [rest EXCEPT ![u] = adj[u]]
      /\ UNCHANGED <<adj, parent, walk, cycles, finish, clock>>
  OBVIOUS
<1>2. Len(path') = 1 /\ path'[1] = u /\ path' \in Seq(DOMAIN adj)
  BY <1>1
<1>3. DOMAIN adj \subseteq Pipeline /\ adj[u] \subseteq DOMAIN adj
  BY <1>1, PathType
<1>4. SearchTypeOK'
  BY <1>1, <1>2, <1>3 DEF SearchTypeOK, Colors
<1>5. walk = <<>>
  BY <1>1 DEF WalkInv
<1>6. PathInv'
  BY <1>1, <1>2, <1>3 DEF PathInv, OnPath, SearchTypeOK
<1>7. WalkInv'
  BY <1>1, <1>5 DEF WalkInv
<1>8. RestInv'
  BY <1>1, <1>2, <1>3 DEF RestInv, SearchTypeOK
<1>9. BlackInv'
  BY <1>1, <1>3 DEF BlackInv, Found, SearchTypeOK
<1> QED
  BY <1>1, <1>4, <1>6, <1>7, <1>8, <1>9 DEF ReportedAreCycles, IsCycle

(* connector_loop.go:45-47: a successor that was never reached becomes the *)
(* innermost call.                                                         *)
LEMMA DescendInv ==
  ASSUME LoopInv, NEW v \in Pipeline, Descend(v)
  PROVE  LoopInv'
<1> USE DEF LoopInv
<1> DEFINE u == EndOf(path)
           n == Len(path)
<1>1. /\ path # <<>> /\ walk = <<>> /\ v \in rest[u] /\ color[v] = "white"
      /\ parent' = [parent EXCEPT ![v] = u]
      /\ color' = [color EXCEPT ![v] = "gray"]
      /\ path' = Append(path, v)
      /\ rest' = [rest EXCEPT ![u] = @ \ {v}, ![v] = adj[v]]
      /\ UNCHANGED <<adj, walk, cycles, finish, clock>>
  BY DEF Descend, Look, Enter
<1>2. /\ DOMAIN adj \subseteq Pipeline /\ adj \in [DOMAIN adj -> SUBSET DOMAIN adj]
      /\ n \in Nat /\ n \in 1 .. n /\ u = path[n] /\ u \in DOMAIN adj
      /\ \A i \in 1 .. n : path[i] \in DOMAIN adj
  BY <1>1, PathType
<1>3. v \in DOMAIN adj /\ v \in adj[u]
  BY <1>1, <1>2 DEF SearchTypeOK, RestInv
<1>4. /\ path' \in Seq(DOMAIN adj) /\ Len(path') = n + 1
      /\ path'[n + 1] = v /\ \A i \in 1 .. n : path'[i] = path[i]
  BY <1>1, <1>3, AppendProperties DEF SearchTypeOK
<1>5. \A i \in 1 .. n : path[i] # v
  BY <1>1, <1>2 DEF PathInv, OnPath
<1> HIDE DEF n, u
<1>6. SearchTypeOK'
  BY <1>1, <1>2, <1>3, <1>4 DEF SearchTypeOK, Colors
<1>7. PathInv'
  <2>1. \A i, j \in 1 .. n + 1 : path'[i] = path'[j] => i = j
    BY <1>2, <1>4, <1>5 DEF PathInv, n
  <2>2. \A x \in Pipeline : color'[x] = "gray" <=> \E i \in 1 .. n + 1 : path'[i] = x
    <3> SUFFICES ASSUME NEW x \in Pipeline
                 PROVE  color'[x] = "gray" <=> \E i \in 1 .. n + 1 : path'[i] = x
      OBVIOUS
    <3>1. color[x] = "gray" <=> \E i \in 1 .. n : path[i] = x
      BY DEF PathInv, OnPath, n
    <3>2. color'[x] = "gray" <=> (x = v \/ color[x] = "gray")
      BY <1>1 DEF SearchTypeOK
    <3>3. (\E i \in 1 .. n + 1 : path'[i] = x) <=> (x = v \/ \E i \in 1 .. n : path[i] = x)
      BY <1>2, <1>4
    <3> QED
      BY <3>1, <3>2, <3>3
  <2>3. \A i \in 1 .. n : parent'[path'[i + 1]] = path'[i] /\ path'[i + 1] \in adj[path'[i]]
    <3> SUFFICES ASSUME NEW i \in 1 .. n
                 PROVE  parent'[path'[i + 1]] = path'[i] /\ path'[i + 1] \in adj[path'[i]]
      OBVIOUS
    <3>1. CASE i = n
      BY <1>1, <1>2, <1>3, <1>4, <3>1 DEF SearchTypeOK
    <3>2. CASE i # n
      <4>1. i \in 1 .. n - 1 /\ i + 1 \in 1 .. n
        BY <1>2, <3>2
      <4>2. path'[i + 1] = path[i + 1] /\ path'[i] = path[i] /\ path[i + 1] # v
        BY <1>4, <1>5, <4>1
      <4>3. parent[path[i + 1]] = path[i] /\ path[i + 1] \in adj[path[i]]
        BY <4>1 DEF PathInv, n
      <4> QED
        BY <1>1, <1>2, <4>1, <4>2, <4>3 DEF SearchTypeOK
    <3> QED
      BY <3>1, <3>2
  <2> QED
    BY <1>1, <1>2, <1>4, <2>1, <2>2, <2>3 DEF PathInv, OnPath
<1>8. WalkInv'
  BY <1>1 DEF WalkInv
<1>9. RestInv'
  <2>0. Len(path') = n + 1 /\ adj' = adj
    BY <1>1, <1>4
  <2> SUFFICES ASSUME NEW i \in 1 .. n + 1
               PROVE  /\ rest'[path'[i]] \subseteq adj[path'[i]]
                      /\ \A w \in adj[path'[i]] \ rest'[path'[i]] :
                           Found' \/ color'[w] = "black" \/ (i < n + 1 /\ w = path'[i + 1])
    BY <2>0 DEF RestInv
  <2>1. CASE i = n + 1
    BY <1>1, <1>2, <1>3, <1>4, <2>1 DEF SearchTypeOK
  <2>2. CASE i = n
    <3>1. path'[i] = u /\ u # v /\ path'[i + 1] = v
      BY <1>2, <1>4, <1>5, <2>2
    <3>2. rest'[u] = rest[u] \ {v}
      BY <1>1, <1>2, <3>1 DEF SearchTypeOK
    <3>3. rest[u] \subseteq adj[u] /\ \A w \in adj[u] \ rest[u] : Found \/ color[w] = "black"
      BY <1>2 DEF RestInv, n
    <3>4. \A w \in DOMAIN adj : color[w] = "black" => color'[w] = "black"
      BY <1>1, <1>2 DEF SearchTypeOK
    <3>5. (Found' <=> Found) /\ n < n + 1 /\ adj[u] \subseteq DOMAIN adj
      BY <1>1, <1>2 DEF Found
    <3> QED
      BY <2>2, <3>1, <3>2, <3>3, <3>4, <3>5
  <2>3. CASE i < n
    <3>1. i \in 1 .. n /\ i + 1 \in 1 .. n /\ i < n + 1
      BY <1>2, <2>3
    <3>2. path'[i] = path[i] /\ path'[i + 1] = path[i + 1] /\ path[i] # v
      BY <1>4, <1>5, <3>1
    <3>3. path[i] # u
      BY <1>2, <2>3, <3>1 DEF PathInv, n
    <3>4. rest'[path[i]] = rest[path[i]]
      BY <1>1, <1>2, <3>1, <3>2, <3>3 DEF SearchTypeOK
    <3>5. /\ rest[path[i]] \subseteq adj[path[i]]
          /\ \A w \in adj[path[i]] \ rest[path[i]] :
               Found \/ color[w] = "black" \/ w = path[i + 1]
      BY <3>1 DEF RestInv, n
    <3>6. \A w \in DOMAIN adj : color[w] = "black" => color'[w] = "black"
      BY <1>1, <1>2 DEF SearchTypeOK
    <3>7. adj[path[i]] \subseteq DOMAIN adj
      BY <1>2, <3>1
    <3> QED
      BY <1>1, <3>1, <3>2, <3>4, <3>5, <3>6, <3>7 DEF Found
  <2> QED
    BY <1>2, <2>1, <2>2, <2>3
<1>10. BlackInv'
  <2>1. \A x \in DOMAIN adj : color'[x] = "black" <=> color[x] = "black"
    BY <1>1, <1>2 DEF SearchTypeOK
  <2> QED
    BY <1>1, <1>2, <2>1 DEF BlackInv, Found
<1> QED
  BY <1>1, <1>6, <1>7, <1>8, <1>9, <1>10 DEF ReportedAreCycles, IsCycle

(* connector_loop.go:48-60: the edge to a gray pipeline starts a walk from *)
(* the caller, which is on the path at or below that pipeline.             *)
LEMMA MeetGrayInv ==
  ASSUME LoopInv, NEW v \in Pipeline, MeetGray(v)
  PROVE  LoopInv'
<1> USE DEF LoopInv
<1> DEFINE u == EndOf(path)
           n == Len(path)
<1>1. /\ path # <<>> /\ walk = <<>> /\ v \in rest[u] /\ color[v] = "gray"
      /\ rest' = [rest EXCEPT ![u] = @ \ {v}]
      /\ walk' = <<u, v>>
      /\ UNCHANGED <<adj, color, parent, path, cycles, finish, clock>>
  BY DEF MeetGray, Look
<1>2. /\ DOMAIN adj \subseteq Pipeline /\ adj \in [DOMAIN adj -> SUBSET DOMAIN adj]
      /\ n \in Nat /\ n \in 1 .. n /\ u = path[n] /\ u \in DOMAIN adj
      /\ \A i \in 1 .. n : path[i] \in DOMAIN adj
  BY <1>1, PathType
<1>3. v \in DOMAIN adj /\ v \in adj[u]
  BY <1>1, <1>2 DEF SearchTypeOK, RestInv
<1>4. PICK j \in 1 .. n : path[j] = v
  BY <1>1 DEF PathInv, OnPath
<1> HIDE DEF n, u
<1>5. SearchTypeOK'
  BY <1>1, <1>2, <1>3 DEF SearchTypeOK
<1>6. PathInv'
  BY <1>1 DEF PathInv, OnPath
<1>7. WalkInv'
  <2>1. walk' # <<>> /\ Len(walk') = 2 /\ walk'[1] = u /\ walk'[2] = v
    BY <1>1
  <2>2. n - n + 2 = 2 /\ n - n + 1 = 1 /\ n + 1 - 1 = n /\ j <= n
    BY <1>2, <1>4
  <2>3. WalkAt(n, j)'
    BY <1>1, <1>2, <1>3, <1>4, <2>1, <2>2 DEF WalkAt, n
  <2> QED
    BY <1>1, <1>2, <1>4, <2>3 DEF WalkInv, n
<1>8. RestInv'
  <2>1. Found'
    BY <1>1 DEF Found
  <2>2. \A i \in 1 .. n : rest'[path[i]] \subseteq rest[path[i]]
    BY <1>1, <1>2 DEF SearchTypeOK
  <2> QED
    BY <1>1, <2>1, <2>2 DEF RestInv, n
<1>9. BlackInv'
  BY <1>1 DEF BlackInv, Found
<1> QED
  BY <1>1, <1>5, <1>6, <1>7, <1>8, <1>9 DEF ReportedAreCycles, IsCycle

(* A successor whose call has returned is passed over. *)
LEMMA MeetBlackInv ==
  ASSUME LoopInv, NEW v \in Pipeline, MeetBlack(v)
  PROVE  LoopInv'
<1> USE DEF LoopInv
<1> DEFINE u == EndOf(path)
           n == Len(path)
<1>1. /\ path # <<>> /\ walk = <<>> /\ v \in rest[u] /\ color[v] = "black"
      /\ rest' = [rest EXCEPT ![u] = @ \ {v}]
      /\ UNCHANGED <<adj, color, parent, path, walk, cycles, finish, clock>>
  BY DEF MeetBlack, Look
<1>2. /\ DOMAIN adj \subseteq Pipeline /\ n \in Nat /\ u = path[n] /\ u \in DOMAIN adj
      /\ \A i \in 1 .. n : path[i] \in DOMAIN adj
  BY <1>1, PathType
<1> HIDE DEF n, u
<1>3. SearchTypeOK'
  BY <1>1, <1>2 DEF SearchTypeOK
<1>4. PathInv' /\ WalkInv' /\ BlackInv'
  BY <1>1 DEF PathInv, OnPath, WalkInv, BlackInv, Found
<1>5. RestInv'
  <2>1. \A i \in 1 .. n : /\ rest'[path[i]] \subseteq rest[path[i]]
                          /\ rest[path[i]] \subseteq rest'[path[i]] \cup {v}
    BY <1>1, <1>2 DEF SearchTypeOK
  <2> QED
    BY <1>1, <2>1 DEF RestInv, Found, n
<1> QED
  BY <1>1, <1>3, <1>4, <1>5 DEF ReportedAreCycles, IsCycle

(* connector_loop.go:64-66: the walk has not met the pipeline it looks for, *)
(* which is further up the path, so that the parent is on the path too.     *)
LEMMA WalkUpInv ==
  ASSUME LoopInv, WalkUp
  PROVE  LoopInv'
<1> USE DEF LoopInv
<1> DEFINE n == Len(path)
<1>1. /\ walk # <<>> /\ Head(walk) # EndOf(walk)
      /\ walk' = <<parent[Head(walk)]>> \o walk
      /\ UNCHANGED <<adj, color, parent, path, rest, cycles, finish, clock>>
  BY DEF WalkUp
<1>2. PICK k, j \in 1 .. n : WalkAt(k, j)
  BY <1>1 DEF WalkInv
<1>3. n \in Nat /\ \A i \in 1 .. n : path[i] \in DOMAIN adj
  BY PathType
<1> HIDE DEF n
<1>4. /\ j <= k /\ Len(walk) = n - k + 2
      /\ \A i \in 1 .. n - k + 1 : walk[i] = path[k + i - 1]
      /\ walk[n - k + 2] = path[j] /\ path[j] \in adj[path[n]]
  BY <1>2 DEF WalkAt, n
<1>5. walk[1] = path[k] /\ Head(walk) = path[k] /\ EndOf(walk) = path[j]
  <2>1. 1 \in 1 .. n - k + 1 /\ k + 1 - 1 = k
    BY <1>2, <1>3
  <2> QED
    BY <1>1, <1>4, <2>1 DEF EndOf, SearchTypeOK
<1>6. k - 1 \in 1 .. n /\ j <= k - 1
  BY <1>1, <1>2, <1>3, <1>4, <1>5
<1>7. parent[path[k]] = path[k - 1]
  <2>1. k - 1 \in 1 .. n - 1 /\ (k - 1) + 1 = k
    BY <1>2, <1>3, <1>6
  <2> QED
    BY <2>1 DEF PathInv, n
<1>8. walk' = <<path[k - 1]>> \o walk
  BY <1>1, <1>5, <1>7
<1>9. /\ walk' \in Seq(DOMAIN adj) /\ Len(walk') = n - (k - 1) + 2
      /\ walk'[1] = path[k - 1]
      /\ \A i \in 2 .. n - (k - 1) + 2 : walk'[i] = walk[i - 1]
  <2>1. walk \in Seq(DOMAIN adj) /\ path[k - 1] \in DOMAIN adj
    BY <1>3, <1>6 DEF SearchTypeOK
  <2>2. Len(walk) + 1 = n - (k - 1) + 2 /\ Len(walk) \in Nat
    BY <1>2, <1>3, <1>4
  <2>3. /\ walk' \in Seq(DOMAIN adj) /\ Len(walk') = Len(walk) + 1
        /\ walk'[1] = path[k - 1]
        /\ \A i \in 2 .. Len(walk) + 1 : walk'[i] = walk[i - 1]
    BY <1>8, <2>1
  <2> QED
    BY <2>2, <2>3
<1>10. WalkAt(k - 1, j)'
  <2>1. \A i \in 1 .. n - (k - 1) + 1 : walk'[i] = path[(k - 1) + i - 1]
    <3> SUFFICES ASSUME NEW i \in 1 .. n - (k - 1) + 1
                 PROVE  walk'[i] = path[(k - 1) + i - 1]
      OBVIOUS
    <3>1. CASE i = 1
      BY <1>6, <1>9, <3>1
    <3>2. CASE i # 1
      <4>1. /\ i \in 2 .. n - (k - 1) + 2 /\ i - 1 \in 1 .. n - k + 1
            /\ k + (i - 1) - 1 = (k - 1) + i - 1
        BY <1>2, <1>3, <3>2
      <4> QED
        BY <1>4, <1>9, <4>1
    <3> QED
      BY <3>1, <3>2
  <2>2. walk'[n - (k - 1) + 2] = path[j]
    <3>1. n - (k - 1) + 2 \in 2 .. n - (k - 1) + 2 /\ (n - (k - 1) + 2) - 1 = n - k + 2
      BY <1>2, <1>3
    <3> QED
      BY <1>4, <1>9, <3>1
  <2> QED
    BY <1>1, <1>4, <1>6, <1>9, <2>1, <2>2 DEF WalkAt, n
<1>11. SearchTypeOK'
  BY <1>1, <1>9 DEF SearchTypeOK
<1>12. WalkInv'
  BY <1>1, <1>2, <1>6, <1>10 DEF WalkInv, n
<1>13. walk' # <<>>
  BY <1>1, <1>8 DEF SearchTypeOK
<1>14. RestInv' /\ BlackInv' /\ PathInv'
  BY <1>1, <1>13 DEF RestInv, BlackInv, Found, PathInv, OnPath
<1> QED
  BY <1>1, <1>11, <1>12, <1>14 DEF ReportedAreCycles, IsCycle

(* A walk that has come back to its last pipeline is a cycle of the graph: *)
(* its other edges are those of the path.                                  *)
LEMMA WalkIsCycle ==
  ASSUME LoopInv, walk # <<>>, Head(walk) = EndOf(walk)
  PROVE  IsCycle(walk)
<1> USE DEF LoopInv
<1> DEFINE n == Len(path)
<1>1. PICK k, j \in 1 .. n : WalkAt(k, j)
  BY DEF WalkInv
<1>2. n \in Nat /\ \A i \in 1 .. n : path[i] \in DOMAIN adj
  BY PathType
<1> HIDE DEF n
<1>3. /\ j <= k /\ Len(walk) = n - k + 2
      /\ \A i \in 1 .. n - k + 1 : walk[i] = path[k + i - 1]
      /\ walk[n - k + 2] = path[j] /\ path[j] \in adj[path[n]]
  BY <1>1 DEF WalkAt, n
<1>4. Len(walk) >= 2 /\ walk[1] = EndOf(walk)
  BY <1>1, <1>2, <1>3 DEF SearchTypeOK
<1>5. ASSUME NEW i \in 1 .. Len(walk) - 1
      PROVE  walk[i] \in DOMAIN adj /\ walk[i + 1] \in adj[walk[i]]
  <2>1. i \in 1 .. n - k + 1 /\ k + i - 1 \in 1 .. n
    BY <1>1, <1>2, <1>3
  <2>2. walk[i] = path[k + i - 1] /\ walk[i] \in DOMAIN adj
    BY <1>2, <1>3, <2>1
  <2>3. CASE i = n - k + 1
    <3>1. k + i - 1 = n /\ i + 1 = n - k + 2
      BY <1>1, <1>2, <2>3
    <3> QED
      BY <1>3, <2>2, <3>1
  <2>4. CASE i # n - k + 1
    <3>1. /\ i + 1 \in 1 .. n - k + 1 /\ k + i - 1 \in 1 .. n - 1
          /\ k + (i + 1) - 1 = (k + i - 1) + 1
      BY <1>1, <1>2, <2>1, <2>4
    <3>2. walk[i + 1] = path[(k + i - 1) + 1]
      BY <1>3, <3>1
    <3>3. path[(k + i - 1) + 1] \in adj[path[k + i - 1]]
      BY <3>1 DEF PathInv, n
    <3> QED
      BY <2>2, <3>2, <3>3
  <2> QED
    BY <2>2, <2>3, <2>4
<1> QED
  BY <1>4, <1>5 DEF IsCycle

(* connector_loop.go:67-74 *)
LEMMA ReportCycleInv ==
  ASSUME LoopInv, ReportCycle
  PROVE  LoopInv'
<1> USE DEF LoopInv
<1>1. /\ walk # <<>> /\ Head(walk) = EndOf(walk)
      /\ cycles' = cycles \cup {walk}
      /\ walk' = <<>>
      /\ UNCHANGED <<adj, color, parent, path, rest, finish, clock>>
  BY DEF ReportCycle
<1>2. SearchTypeOK'
  BY <1>1 DEF SearchTypeOK
<1>3. PathInv' /\ WalkInv'
  BY <1>1 DEF PathInv, OnPath, WalkInv
<1>4. Found'
  BY <1>1 DEF Found
<1>5. RestInv' /\ BlackInv'
  BY <1>1, <1>4 DEF RestInv, BlackInv
<1>6. ReportedAreCycles'
  BY <1>1, WalkIsCycle DEF ReportedAreCycles, IsCycle
<1> QED
  BY <1>2, <1>3, <1>5, <1>6

(* connector_loop.go:76: all successors of the innermost call have been    *)
(* looked at, so each of them has returned before it or led to a report.   *)
LEMMA ReturnInv ==
  ASSUME LoopInv, Return
  PROVE  LoopInv'
<1> USE DEF LoopInv
<1> DEFINE u == EndOf(path)
           n == Len(path)
<1>1. /\ path # <<>> /\ walk = <<>> /\ rest[u] = {}
      /\ color' = [color EXCEPT ![u] = "black"]
      /\ path' = SubSeq(path, 1, n - 1)
      /\ clock' = clock + 1
      /\ finish' = [finish EXCEPT ![u] = clock + 1]
      /\ UNCHANGED <<adj, parent, rest, walk, cycles>>
  BY DEF Return
<1>2. /\ DOMAIN adj \subseteq Pipeline /\ adj \in [DOMAIN adj -> SUBSET DOMAIN adj]
      /\ n \in Nat /\ n \in 1 .. n /\ u = path[n] /\ u \in DOMAIN adj
      /\ \A i \in 1 .. n : path[i] \in DOMAIN adj
  BY <1>1, PathType
<1>3. /\ path' \in Seq(DOMAIN adj) /\ Len(path') = n - 1
      /\ \A i \in 1 .. n - 1 : path'[i] = path[i]
  BY <1>1, FrontProperties DEF SearchTypeOK
<1>4. \A i \in 1 .. n - 1 : path[i] # u
  BY <1>2 DEF PathInv
<1>5. \A v \in adj[u] : Found \/ (color[v] = "black" /\ v # u)
  <2>1. color[u] = "gray"
    BY <1>2 DEF PathInv, OnPath
  <2>2. \A v \in adj[u] \ rest[u] : Found \/ color[v] = "black"
    BY <1>2 DEF RestInv
  <2> QED
    BY <1>1, <2>1, <2>2
<1> HIDE DEF n, u
<1>6. clock \in Nat /\ finish \in [Pipeline -> Nat] /\ color \in [Pipeline -> Colors]
  BY DEF SearchTypeOK
<1>7. SearchTypeOK'
  BY <1>1, <1>2, <1>3, <1>6 DEF SearchTypeOK, Colors
<1>8. PathInv'
  <2>1. \A i, j \in 1 .. n - 1 : path'[i] = path'[j] => i = j
    BY <1>2, <1>3 DEF PathInv, n
  <2>2. \A x \in Pipeline : color'[x] = "gray" <=> \E i \in 1 .. n - 1 : path'[i] = x
    <3> SUFFICES ASSUME NEW x \in Pipeline
                 PROVE  color'[x] = "gray" <=> \E i \in 1 .. n - 1 : path'[i] = x
      OBVIOUS
    <3>1. color[x] = "gray" <=> \E i \in 1 .. n : path[i] = x
      BY DEF PathInv, OnPath, n
    <3>2. color'[x] = "gray" <=> (x # u /\ color[x] = "gray")
      BY <1>1, <1>6
    <3>3. (\E i \in 1 .. n - 1 : path'[i] = x) <=> (x # u /\ \E i \in 1 .. n : path[i] = x)
      BY <1>2, <1>3, <1>4
    <3> QED
      BY <3>1, <3>2, <3>3
  <2>3. \A i \in 1 .. (n - 1) - 1 :
          parent'[path'[i + 1]] = path'[i] /\ path'[i + 1] \in adj[path'[i]]
    <3> SUFFICES ASSUME NEW i \in 1 .. (n - 1) - 1
                 PROVE  parent'[path'[i + 1]] = path'[i] /\ path'[i + 1] \in adj[path'[i]]
      OBVIOUS
    <3>1. i \in 1 .. n - 1 /\ i + 1 \in 1 .. n - 1
      BY <1>2
    <3>2. path'[i] = path[i] /\ path'[i + 1] = path[i + 1] /\ parent' = parent
      BY <1>1, <1>3, <3>1
    <3>3. parent[path[i + 1]] = path[i] /\ path[i + 1] \in adj[path[i]]
      BY <3>1 DEF PathInv, n
    <3> QED
      BY <3>2, <3>3
  <2>4. Len(path') = n - 1 /\ adj' = adj
    BY <1>1, <1>3
  <2> QED
    BY <2>1, <2>2, <2>3, <2>4 DEF PathInv, OnPath
<1>9. WalkInv'
  BY <1>1 DEF WalkInv
<1>10. Found' <=> Found
  BY <1>1 DEF Found
<1>11. \A x \in DOMAIN adj : color'[x] = "black" <=> (x = u \/ color[x] = "black")
  BY <1>1, <1>2, <1>6
<1>12. RestInv'
  <2>1. Len(path') = n - 1 /\ adj' = adj
    BY <1>1, <1>3
  <2> SUFFICES ASSUME NEW i \in 1 .. n - 1
               PROVE  /\ rest'[path'[i]] \subseteq adj[path'[i]]
                      /\ \A w \in adj[path'[i]] \ rest'[path'[i]] :
                           Found' \/ color'[w] = "black" \/ (i < n - 1 /\ w = path'[i + 1])
    BY <2>1 DEF RestInv
  <2>2. i \in 1 .. n /\ path'[i] = path[i] /\ rest' = rest /\ i < n
    BY <1>1, <1>2, <1>3
  <2>3. /\ rest[path[i]] \subseteq adj[path[i]]
        /\ \A w \in adj[path[i]] \ rest[path[i]] :
             Found \/ color[w] = "black" \/ w = path[i + 1]
    BY <2>2 DEF RestInv, n
  <2>4. adj[path[i]] \subseteq DOMAIN adj
    BY <1>2, <2>2
  <2>5. path[i + 1] = u \/ (i < n - 1 /\ path[i + 1] = path'[i + 1])
    <3>1. i + 1 = n \/ (i < n - 1 /\ i + 1 \in 1 .. n - 1)
      BY <1>2, <2>2
    <3> QED
      BY <1>2, <1>3, <3>1
  <2> QED
    BY <1>10, <1>11, <2>2, <2>3, <2>4, <2>5
<1>13. BlackInv'
  <2> SUFFICES ASSUME NEW x \in DOMAIN adj, color'[x] = "black"
               PROVE  /\ finish'[x] <= clock + 1
                      /\ \A v \in adj[x] :
                           Found \/ (color'[v] = "black" /\ finish'[v] < finish'[x])
    BY <1>1, <1>10 DEF BlackInv
  <2>1. x \in Pipeline /\ adj[x] \subseteq DOMAIN adj
    BY <1>2
  <2>2. /\ finish'[u] = clock + 1
        /\ \A y \in Pipeline : y # u => finish'[y] = finish[y]
    BY <1>1, <1>2, <1>6
  <2>3. \A y \in DOMAIN adj : color[y] = "black" => finish[y] <= clock
    BY DEF BlackInv
  <2>4. color[u] # "black"
    <3>1. color[u] = "gray"
      BY <1>2 DEF PathInv, OnPath, n
    <3> QED
      BY <3>1
  <2>5. CASE x = u
    <3>1. \A v \in adj[u] : Found \/ (color'[v] = "black" /\ finish'[v] <= clock)
      BY <1>2, <1>5, <1>11, <2>1, <2>2, <2>3, <2>5
    <3>2. \A v \in adj[u] : finish[v] \in Nat /\ finish'[v] \in Nat
      BY <1>2, <1>6, <1>7, <2>1, <2>5 DEF SearchTypeOK
    <3> QED
      BY <1>6, <2>2, <2>5, <3>1, <3>2
  <2>6. CASE x # u
    <3>1. color[x] = "black" /\ finish[x] <= clock /\ finish'[x] = finish[x]
      BY <1>11, <2>1, <2>2, <2>3, <2>6
    <3>2. \A v \in adj[x] : Found \/ (color[v] = "black" /\ finish[v] < finish[x])
      BY <3>1 DEF BlackInv
    <3>3. \A v \in adj[x] : color[v] = "black" => color'[v] = "black" /\ finish'[v] = finish[v]
      BY <1>2, <1>11, <2>1, <2>2, <2>4
    <3>4. finish[x] \in Nat /\ finish[x] <= clock + 1
      BY <1>6, <2>1, <3>1
    <3> QED
      BY <3>1, <3>2, <3>3, <3>4
  <2> QED
    BY <2>5, <2>6
<1> QED
  BY <1>1, <1>7, <1>8, <1>9, <1>12, <1>13 DEF ReportedAreCycles, IsCycle

(* A new evaluation starts like the first one. *)
LEMMA BeginInv ==
  ASSUME NEW g, IsGraph(g), Begin(g)
  PROVE  LoopInv'
<1>1. Fresh'
  BY DEF Begin, Fresh, SearchInit
<1>2. Fresh' => LoopInv'
  BY FreshInv, PTL
<1> QED
  BY <1>1, <1>2

LEMMA LoopInvInductive == LoopInv /\ [LoopNext]_searchVars => LoopInv'
<1> SUFFICES ASSUME LoopInv, [LoopNext]_searchVars PROVE LoopInv'
  OBVIOUS
<1>1. CASE \E u \in Pipeline : Visit(u) \/ Descend(u) \/ MeetGray(u) \/ MeetBlack(u)
  BY <1>1, VisitInv, DescendInv, MeetGrayInv, MeetBlackInv
<1>2. CASE WalkUp \/ ReportCycle \/ Return
  BY <1>2, WalkUpInv, ReportCycleInv, ReturnInv
<1>3. CASE \E S \in SUBSET Pipeline : \E g \in [S -> SUBSET S] : Begin(g)
  BY <1>3, BeginInv, GraphsAreGraphs
<1>4. CASE UNCHANGED searchVars
  BY <1>4 DEF searchVars, LoopInv, SearchTypeOK, PathInv, OnPath, WalkInv, WalkAt,
     RestInv, BlackInv, Found, ReportedAreCycles, IsCycle
<1> QED
  BY <1>1, <1>2, <1>3, <1>4 DEF LoopNext, SearchStep

(* LoopInv holds of every search, in whatever order the maps are ranged    *)
(* over, and of every search after it.                                     *)
LEMMA InitIsFresh == LoopInit => Fresh
BY GraphsAreGraphs DEF LoopInit, Fresh

THEOREM SearchInvariant == LoopSpec => []LoopInv
<1>1. LoopInit => LoopInv
  BY FreshInv, InitIsFresh
<1> QED
  BY <1>1, LoopInvInductive, PTL DEF LoopSpec
-----------------------------------------------------------------------------
LEMMA InvIsSound == LoopInv => SearchIsSound
<1> SUFFICES ASSUME LoopInv PROVE WalkStaysOnPath
  BY DEF LoopInv, SearchIsSound
<1> SUFFICES ASSUME NEW i \in 1 .. Len(walk)
             PROVE  \E j \in 1 .. Len(path) : walk[i] = path[j]
  BY DEF WalkStaysOnPath
<1>1. walk # <<>>
  BY EmptySeq
<1>2. PICK k, j \in 1 .. Len(path) : WalkAt(k, j)
  BY <1>1 DEF LoopInv, WalkInv
<1>3. Len(path) \in Nat
  BY PathType DEF LoopInv
<1>4. CASE i = Len(walk)
  BY <1>2, <1>4 DEF WalkAt
<1>5. CASE i # Len(walk)
  <2>1. Len(walk) = Len(path) - k + 2
    BY <1>2 DEF WalkAt
  <2>2. i \in 1 .. Len(path) - k + 1 /\ k + i - 1 \in 1 .. Len(path)
    BY <1>3, <1>5, <2>1
  <2> QED
    BY <1>2, <2>2 DEF WalkAt
<1> QED
  BY <1>4, <1>5

(* The walk that reconstructs a cycle never leaves the calls under way, so *)
(* it cannot run past the root, and every list that is reported is a cycle *)
(* of the graph (connector_loop.go:48-74).                                 *)
THEOREM SoundSearch == LoopSpec => []SearchIsSound
BY SearchInvariant, InvIsSound, PTL

(* What a finished search without a report leaves behind is an order of    *)
(* the pipelines in which each one comes after all that it feeds, whence   *)
(* no loop was missed (connector_loop.go:36-84).                           *)
LEMMA InvIsOrdered == LoopInv => CleanIsOrdered
<1> SUFFICES ASSUME LoopInv, Done, cycles = {},
                    NEW u \in DOMAIN adj, NEW v \in adj[u]
             PROVE  finish[v] < finish[u]
  BY DEF CleanIsOrdered
<1>1. color[u] = "black" /\ path = <<>>
  BY DEF Done
<1>2. walk = <<>>
  BY <1>1 DEF LoopInv, WalkInv
<1> QED
  BY <1>1, <1>2 DEF LoopInv, BlackInv, Found

THEOREM OrderedWhenClean == LoopSpec => []CleanIsOrdered
BY SearchInvariant, InvIsOrdered, PTL
-----------------------------------------------------------------------------
(* Refinement: the search decides what LoopVerdict promises. *)

(* Pipelines that each feed another of them cannot be ordered: one of them *)
(* would have returned first.                                              *)
LEMMA OrderedHasNoLoop ==
  ASSUME IsGraph(adj), finish \in [Pipeline -> Nat],
         \A u \in DOMAIN adj : \A v \in adj[u] : finish[v] < finish[u]
  PROVE  ~Promise!HasLoop(adj)
<1> SUFFICES ASSUME NEW S \in SUBSET DOMAIN adj, S # {},
                    \A u \in S : adj[u] \cap S # {}
             PROVE  FALSE
  BY DEF Promise!HasLoop
<1> DEFINE T == {finish[u] : u \in S}
<1>1. T \in SUBSET Nat /\ T # {}
  BY GraphType
<1>2. PICK x \in T : \A y \in T : ~(y < x)
  <2> HIDE DEF T
  <2> QED
    BY <1>1, FirstPosition
<1>3. PICK u \in S : x = finish[u]
  OBVIOUS
<1>4. PICK v \in S : v \in adj[u]
  BY <1>3
<1>5. finish[v] < x /\ finish[v] \in T
  BY <1>3, <1>4
<1> QED
  BY <1>2, <1>5

LEMMA CycleIsLoop ==
  ASSUME SearchTypeOK, NEW w \in cycles, IsCycle(w)
  PROVE  Promise!HasLoop(adj)
<1> DEFINE S == {w[i] : i \in 1 .. Len(w)}
<1>1. w \in Seq(DOMAIN adj) /\ Len(w) \in Nat /\ Len(w) >= 2 /\ w[1] = w[Len(w)]
  BY LenProperties DEF SearchTypeOK, IsCycle, EndOf
<1>2. \A i \in 1 .. Len(w) - 1 : w[i + 1] \in adj[w[i]]
  BY DEF IsCycle
<1>3. S \in SUBSET DOMAIN adj
  BY <1>1, ElementOfSeq
<1>4. w[1] \in S
  BY <1>1
<1>5. ASSUME NEW u \in S PROVE adj[u] \cap S # {}
  <2>1. PICK i \in 1 .. Len(w) : u = w[i]
    OBVIOUS
  <2>2. PICK k \in 1 .. Len(w) - 1 : u = w[k]
    BY <1>1, <2>1
  <2>3. w[k + 1] \in adj[u] /\ k + 1 \in 1 .. Len(w)
    BY <1>1, <1>2, <2>2
  <2> QED
    BY <2>3
<1> HIDE DEF S
<1> QED
  BY <1>3, <1>4, <1>5 DEF Promise!HasLoop

(* A verdict is the answer about the graph that was searched. *)
LEMMA VerdictIsAnswer ==
  LoopInv => Promise!IsGraph(adj) /\ Verdict \in {"pending", Promise!Answer(adj)}
<1> SUFFICES ASSUME LoopInv
             PROVE  Promise!IsGraph(adj) /\ Verdict \in {"pending", Promise!Answer(adj)}
  OBVIOUS
<1>1. SearchTypeOK /\ IsGraph(adj) /\ finish \in [Pipeline -> Nat]
  BY DEF LoopInv, SearchTypeOK
<1>2. CASE ~Done
  BY <1>1, <1>2 DEF Verdict, IsGraph, Promise!IsGraph
<1>3. CASE Done /\ cycles = {}
  <2>1. ~Promise!HasLoop(adj)
    BY <1>1, <1>3, InvIsOrdered, OrderedHasNoLoop DEF CleanIsOrdered
  <2> QED
    BY <1>1, <1>3, <2>1 DEF Verdict, IsGraph, Promise!IsGraph, Promise!Answer
<1>4. CASE Done /\ cycles # {}
  <2>1. Promise!HasLoop(adj)
    BY <1>1, <1>4, CycleIsLoop DEF LoopInv, ReportedAreCycles
  <2> QED
    BY <1>1, <1>4, <2>1 DEF Verdict, IsGraph, Promise!IsGraph, Promise!Answer
<1> QED
  BY <1>2, <1>3, <1>4

(* Nothing is left to do for a search that is done. *)
LEMMA DoneIsQuiet ==
  ASSUME LoopInv, Done, SearchStep
  PROVE  FALSE
<1>1. path = <<>> /\ walk = <<>> /\ \A p \in DOMAIN adj : color[p] = "black"
  BY DEF Done, LoopInv, WalkInv
<1> QED
  BY <1>1 DEF SearchStep, Visit, Descend, MeetGray, MeetBlack, Look, WalkUp,
     ReportCycle, Return

(* The search in whatever order, with its recursion and the walks up the   *)
(* parents, implements the promise of the rule: "loop" exactly of graphs   *)
(* in which data can go round (connector_loop.go:14-91).                   *)
THEOREM SearchKeepsPromise == LoopSpec => VerdictIsRight
<1>1. LoopInit => Promise!Init
  <2> SUFFICES ASSUME LoopInit PROVE Promise!Init
    OBVIOUS
  <2> QED
    BY FreshInv, VerdictIsAnswer, InitIsFresh DEF Promise!Init
<1>2. LoopInv /\ LoopInv' /\ [LoopNext]_searchVars => [Promise!Next]_(Promise!vars)
  <2> SUFFICES ASSUME LoopInv, LoopInv', [LoopNext]_searchVars
               PROVE  Promise!Next \/ UNCHANGED <<adj, Verdict>>
    BY DEF Promise!vars
  <2>1. (LoopInv => Promise!IsGraph(adj) /\ Verdict \in {"pending", Promise!Answer(adj)})'
    BY VerdictIsAnswer, PTL
  <2>2. Promise!IsGraph(adj') /\ Verdict' \in {"pending", Promise!Answer(adj')}
    BY <2>1 DEF Promise!IsGraph, Promise!Answer, Promise!HasLoop
  <2>3. CASE SearchStep
    <3>1. ~Done /\ adj' = adj
      BY <2>3, DoneIsQuiet DEF SearchStep, Visit, Descend, MeetGray, MeetBlack, WalkUp,
         ReportCycle, Return
    <3>2. Verdict = "pending"
      BY <3>1 DEF Verdict
    <3>3. CASE Verdict' = "pending"
      BY <3>1, <3>2, <3>3
    <3>4. CASE Verdict' = Promise!Answer(adj)
      BY <3>1, <3>2, <3>4 DEF Promise!Next, Promise!Decide
    <3> QED
      BY <2>2, <3>1, <3>3, <3>4
  <2>4. CASE \E S \in SUBSET Pipeline : \E g \in [S -> SUBSET S] : Begin(g)
    <3>1. Verdict # "pending"
      BY <2>4 DEF Begin, Verdict
    <3> QED
      BY <2>2, <3>1 DEF Promise!Next, Promise!Ask
  <2>5. CASE UNCHANGED searchVars
    BY <2>5 DEF searchVars, Verdict, Done
  <2> QED
    BY <2>3, <2>4, <2>5 DEF LoopNext
<1> QED
  BY <1>1, <1>2, SearchInvariant, PTL DEF LoopSpec, VerdictIsRight, Promise!Spec
-----------------------------------------------------------------------------
(* Static advice: lists of names *)

(* The first position with one of the types, whatever else it is.          *)
LEMMA FirstOfIs ==
  ASSUME NEW S, NEW s \in Seq(S), NEW types
  PROVE  LET i == FirstOf(s, types)
         IN  \/ i = 0 /\ \A j \in DOMAIN s : ComponentType(s[j]) \notin types
             \/ /\ i \in DOMAIN s /\ ComponentType(s[i]) \in types
                /\ \A j \in DOMAIN s : j < i => ComponentType(s[j]) \notin types
<1> DEFINE I == {j \in 1 .. Len(s) : ComponentType(s[j]) \in types}
<1>1. FirstOf(s, types) = IF I # {} THEN Min(I) ELSE 0
  BY DEF FirstOf, SelectInSeq
<1>2. DOMAIN s = 1 .. Len(s) /\ Len(s) \in Nat /\ I \in SUBSET Nat
  OBVIOUS
<1>3. CASE I = {}
  BY <1>1, <1>2, <1>3
<1>4. CASE I # {}
  <2>1. PICK i \in I : \A j \in I : i <= j
    BY <1>2, <1>4, FirstPosition
  <2>2. Min(I) \in I /\ \A j \in I : Min(I) <= j
    BY <2>1 DEF Min
  <2>3. FirstOf(s, types) = Min(I)
    BY <1>1, <1>4
  <2>4. \A j \in DOMAIN s : j < Min(I) => ComponentType(s[j]) \notin types
    <3> SUFFICES ASSUME NEW j \in DOMAIN s, j < Min(I), ComponentType(s[j]) \in types PROVE FALSE
      OBVIOUS
    <3>1. j \in I
      BY <1>2
    <3>2. Min(I) <= j /\ Min(I) \in Nat /\ j \in Nat
      BY <1>2, <2>2, <3>1
    <3> QED
      BY <3>2
  <2>5. Min(I) \in DOMAIN s /\ ComponentType(s[Min(I)]) \in types
    BY <1>2, <2>2
  <2> QED
    BY <2>3, <2>4, <2>5
<1> QED
  BY <1>3, <1>4

LEMMA FirstOfUnique ==
  ASSUME NEW S, NEW s \in Seq(S), NEW types, NEW i \in DOMAIN s,
         ComponentType(s[i]) \in types,
         \A j \in DOMAIN s : j < i => ComponentType(s[j]) \notin types
  PROVE  FirstOf(s, types) = i
<1> DEFINE k == FirstOf(s, types)
<1>1. k \in DOMAIN s /\ ComponentType(s[k]) \in types
      /\ \A j \in DOMAIN s : j < k => ComponentType(s[j]) \notin types
  BY FirstOfIs
<1>2. i \in Nat /\ k \in Nat
  BY <1>1
<1> HIDE DEF k
<1>3. ~(i < k) /\ ~(k < i)
  BY <1>1
<1> QED
  BY <1>2, <1>3 DEF k

LEMMA NoneOfThem ==
  ASSUME NEW S, NEW s \in Seq(S), NEW types
  PROVE  FirstOf(s, types) = 0 <=> Types(s) \cap types = {}
BY FirstOfIs DEF Types

(* The last position with one of the types.                                *)
LEMMA LastOfIs ==
  ASSUME NEW S, NEW s \in Seq(S), NEW types, NEW k \in DOMAIN s, ComponentType(s[k]) \in types
  PROVE  LET i == LastOf(s, types)
         IN  /\ i \in DOMAIN s /\ ComponentType(s[i]) \in types
             /\ \A j \in DOMAIN s : j > i => ComponentType(s[j]) \notin types
<1> DEFINE I == {j \in 1 .. Len(s) : ComponentType(s[j]) \in types}
           M == {Len(s) - j : j \in I}
<1>1. LastOf(s, types) = IF I # {} THEN Max(I) ELSE 0
  BY DEF LastOf, SelectLastInSeq
<1>2. DOMAIN s = 1 .. Len(s) /\ Len(s) \in Nat /\ I \in SUBSET Nat /\ k \in I
  OBVIOUS
<1>3. M \in SUBSET Nat /\ M # {}
  BY <1>2
<1>4. PICK m \in M : \A j \in M : m <= j
  BY <1>3, FirstPosition
<1>5. PICK i \in I : m = Len(s) - i
  OBVIOUS
<1>6. \A j \in I : Len(s) - i <= Len(s) - j
  BY <1>4, <1>5
<1>7. \A j \in I : i >= j
  BY <1>2, <1>6
<1>8. Max(I) \in I /\ \A j \in I : Max(I) >= j
  BY <1>5, <1>7 DEF Max
<1>9. LastOf(s, types) = Max(I)
  BY <1>1, <1>2
<1>10. \A j \in DOMAIN s : j > Max(I) => ComponentType(s[j]) \notin types
  <2> SUFFICES ASSUME NEW j \in DOMAIN s, j > Max(I), ComponentType(s[j]) \in types PROVE FALSE
    OBVIOUS
  <2>1. j \in I
    BY <1>2
  <2>2. Max(I) >= j /\ Max(I) \in Nat /\ j \in Nat
    BY <1>2, <1>8, <2>1
  <2> QED
    BY <2>2
<1>11. Max(I) \in DOMAIN s /\ ComponentType(s[Max(I)]) \in types
  BY <1>2, <1>8
<1> QED
  BY <1>9, <1>10, <1>11

(* What an inserted name, or a removed one, makes of a list.                *)
LEMMA InsertAtParts ==
  ASSUME NEW s, NEW i, NEW e
  PROVE  InsertAt(s, i, e) = SubSeq(s, 1, i - 1) \o <<e>> \o SubSeq(s, i, Len(s))
BY DEF InsertAt

(* An element put into a sequence: what comes of it, and where the others  *)
(* are.                                                                    *)
LEMMA InsertAtType ==
  ASSUME NEW S, NEW s \in Seq(S), NEW i \in 1 .. Len(s) + 1, NEW e \in S
  PROVE  InsertAt(s, i, e) \in Seq(S) /\ Len(InsertAt(s, i, e)) = Len(s) + 1
<1> DEFINE a == SubSeq(s, 1, i - 1)
           b == SubSeq(s, i, Len(s))
<1>1. Len(s) \in Nat /\ i \in Nat /\ i - 1 \in Nat /\ i - 1 <= Len(s)
      /\ \A k \in 1 .. Len(s) : s[k] \in S
  BY LenProperties, ElementOfSeq
<1>2. a \in Seq(S) /\ Len(a) = i - 1
  <2>1. \A k \in 1 .. i - 1 : s[k] \in S
    BY <1>1
  <2>2. a \in Seq(S) /\ Len(a) = IF 1 <= i - 1 THEN (i - 1) - 1 + 1 ELSE 0
    BY <1>1, <2>1, SubSeqProperties
  <2> QED
    BY <1>1, <2>2
<1>3. b \in Seq(S) /\ Len(b) = Len(s) - i + 1
  <2>1. \A k \in i .. Len(s) : s[k] \in S
    BY <1>1
  <2>2. b \in Seq(S) /\ Len(b) = IF i <= Len(s) THEN Len(s) - i + 1 ELSE 0
    BY <1>1, <2>1, SubSeqProperties
  <2> QED
    BY <1>1, <2>2
<1>4. <<e>> \in Seq(S) /\ Len(<<e>>) = 1
  OBVIOUS
<1>5. InsertAt(s, i, e) = a \o <<e>> \o b
  BY InsertAtParts DEF a, b
<1> HIDE DEF a, b
<1> DEFINE c == a \o <<e>>
<1>6. c \in Seq(S) /\ Len(c) = i
  BY <1>1, <1>2, <1>4, ConcatProperties
<1>7. InsertAt(s, i, e) = c \o b
  BY <1>5
<1> HIDE DEF c
<1>8. c \o b \in Seq(S) /\ Len(c \o b) = Len(c) + Len(b)
  BY <1>3, <1>6, ConcatProperties
<1> QED
  BY <1>1, <1>3, <1>6, <1>7, <1>8

LEMMA InsertAtIs ==
  ASSUME NEW S, NEW s \in Seq(S), NEW i \in 1 .. Len(s) + 1, NEW e \in S
  PROVE  /\ InsertAt(s, i, e) \in Seq(S)
         /\ Len(InsertAt(s, i, e)) = Len(s) + 1
         /\ \A k \in 1 .. Len(s) + 1 :
              InsertAt(s, i, e)[k] = IF k < i THEN s[k] ELSE IF k = i THEN e ELSE s[k - 1]
<1> DEFINE a == SubSeq(s, 1, i - 1)
           b == SubSeq(s, i, Len(s))
<1>1. Len(s) \in Nat /\ i \in Nat /\ i - 1 \in Nat /\ i - 1 <= Len(s)
      /\ \A k \in 1 .. Len(s) : s[k] \in S
  BY LenProperties, ElementOfSeq
<1>2. a \in Seq(S) /\ Len(a) = i - 1 /\ \A k \in 1 .. i - 1 : a[k] = s[k]
  <2>1. \A k \in 1 .. i - 1 : s[k] \in S
    BY <1>1
  <2>2. /\ a \in Seq(S) /\ Len(a) = IF 1 <= i - 1 THEN (i - 1) - 1 + 1 ELSE 0
        /\ \A k \in 1 .. (i - 1) - 1 + 1 : a[k] = s[1 + k - 1]
    BY <1>1, <2>1, SubSeqProperties
  <2> QED
    BY <1>1, <2>2
<1>3. b \in Seq(S) /\ Len(b) = Len(s) - i + 1
      /\ \A k \in 1 .. Len(s) - i + 1 : b[k] = s[i + k - 1]
  <2>1. \A k \in i .. Len(s) : s[k] \in S
    BY <1>1
  <2>2. /\ b \in Seq(S) /\ Len(b) = IF i <= Len(s) THEN Len(s) - i + 1 ELSE 0
        /\ \A k \in 1 .. Len(s) - i + 1 : b[k] = s[i + k - 1]
    BY <1>1, <2>1, SubSeqProperties
  <2> QED
    BY <1>1, <2>2
<1>4. <<e>> \in Seq(S) /\ Len(<<e>>) = 1 /\ <<e>>[1] = e
  OBVIOUS
<1> HIDE DEF a, b
<1> DEFINE c == a \o <<e>>
           t == c \o b
<1>5. c \in Seq(S) /\ Len(c) = i /\ \A k \in 1 .. i : c[k] = IF k < i THEN s[k] ELSE e
  BY <1>1, <1>2, <1>4, ConcatProperties
<1> HIDE DEF c
<1>6. t \in Seq(S) /\ Len(t) = Len(s) + 1
      /\ \A k \in 1 .. Len(s) + 1 : t[k] = IF k <= i THEN c[k] ELSE b[k - i]
  <2>1. /\ t \in Seq(S) /\ Len(t) = Len(c) + Len(b)
        /\ \A k \in 1 .. Len(c) + Len(b) :
             t[k] = IF k <= Len(c) THEN c[k] ELSE b[k - Len(c)]
    BY <1>3, <1>5, ConcatProperties
  <2>2. Len(c) + Len(b) = Len(s) + 1
    BY <1>1, <1>3, <1>5
  <2> HIDE DEF t
  <2> QED
    BY <1>5, <2>1, <2>2
<1>7. InsertAt(s, i, e) = t
  BY InsertAtParts DEF a, b, c
<1> HIDE DEF t
<1>8. \A k \in 1 .. Len(s) + 1 :
        t[k] = IF k < i THEN s[k] ELSE IF k = i THEN e ELSE s[k - 1]
  <2> SUFFICES ASSUME NEW k \in 1 .. Len(s) + 1
               PROVE  t[k] = IF k < i THEN s[k] ELSE IF k = i THEN e ELSE s[k - 1]
    OBVIOUS
  <2>1. CASE k <= i
    BY <1>1, <1>5, <1>6, <2>1
  <2>2. CASE k > i
    <3>1. k - i \in 1 .. Len(s) - i + 1 /\ i + (k - i) - 1 = k - 1 /\ ~(k <= i) /\ ~(k < i) /\ k # i
      BY <1>1, <2>2
    <3>2. t[k] = b[k - i]
      BY <1>6, <3>1
    <3>3. b[k - i] = s[i + (k - i) - 1]
      BY <1>3, <3>1
    <3> QED
      BY <3>1, <3>2, <3>3
  <2> QED
    BY <1>1, <2>1, <2>2
<1> QED
  BY <1>6, <1>7, <1>8

LEMMA InsertAtElement ==
  ASSUME NEW S, NEW s \in Seq(S), NEW i \in 1 .. Len(s) + 1, NEW e \in S,
         NEW k \in 1 .. Len(s) + 1
  PROVE  InsertAt(s, i, e)[k] = IF k < i THEN s[k] ELSE IF k = i THEN e ELSE s[k - 1]
BY InsertAtIs

(* An element taken out of a sequence.                                     *)
LEMMA RemoveAtIs ==
  ASSUME NEW S, NEW s \in Seq(S), NEW i \in DOMAIN s
  PROVE  LET t == RemoveAt(s, i)
         IN  /\ t \in Seq(S)
             /\ Len(t) = Len(s) - 1
             /\ \A k \in 1 .. Len(s) - 1 : t[k] = IF k < i THEN s[k] ELSE s[k + 1]
<1> DEFINE a == SubSeq(s, 1, i - 1)
           b == SubSeq(s, i + 1, Len(s))
<1>1. Len(s) \in Nat /\ i \in Nat /\ i - 1 \in Nat /\ i <= Len(s)
      /\ \A k \in 1 .. Len(s) : s[k] \in S
  BY LenProperties, ElementOfSeq
<1>2. a \in Seq(S) /\ Len(a) = i - 1 /\ \A k \in 1 .. i - 1 : a[k] = s[k]
  <2>1. \A k \in 1 .. i - 1 : s[k] \in S
    BY <1>1
  <2>2. /\ a \in Seq(S) /\ Len(a) = IF 1 <= i - 1 THEN (i - 1) - 1 + 1 ELSE 0
        /\ \A k \in 1 .. (i - 1) - 1 + 1 : a[k] = s[1 + k - 1]
    BY <1>1, <2>1, SubSeqProperties
  <2> QED
    BY <1>1, <2>2
<1>3. b \in Seq(S) /\ Len(b) = Len(s) - i /\ \A k \in 1 .. Len(s) - i : b[k] = s[i + k]
  <2>1. \A k \in i + 1 .. Len(s) : s[k] \in S
    BY <1>1
  <2>2. /\ b \in Seq(S) /\ Len(b) = IF i + 1 <= Len(s) THEN Len(s) - (i + 1) + 1 ELSE 0
        /\ \A k \in 1 .. Len(s) - (i + 1) + 1 : b[k] = s[(i + 1) + k - 1]
    BY <1>1, <2>1, SubSeqProperties
  <2> QED
    BY <1>1, <2>2
<1> HIDE DEF a, b
<1> DEFINE t == a \o b
<1>4. t \in Seq(S) /\ Len(t) = Len(s) - 1
      /\ \A k \in 1 .. Len(s) - 1 : t[k] = IF k <= i - 1 THEN a[k] ELSE b[k - (i - 1)]
  <2>1. /\ t \in Seq(S) /\ Len(t) = Len(a) + Len(b)
        /\ \A k \in 1 .. Len(a) + Len(b) :
             t[k] = IF k <= Len(a) THEN a[k] ELSE b[k - Len(a)]
    BY <1>2, <1>3, ConcatProperties
  <2>2. Len(a) + Len(b) = Len(s) - 1
    BY <1>1, <1>2, <1>3
  <2> HIDE DEF t
  <2> QED
    BY <1>2, <2>1, <2>2
<1>5. RemoveAt(s, i) = t
  BY DEF RemoveAt, a, b
<1> HIDE DEF t
<1>6. \A k \in 1 .. Len(s) - 1 : t[k] = IF k < i THEN s[k] ELSE s[k + 1]
  <2> SUFFICES ASSUME NEW k \in 1 .. Len(s) - 1
               PROVE  t[k] = IF k < i THEN s[k] ELSE s[k + 1]
    OBVIOUS
  <2>1. CASE k < i
    BY <1>1, <1>2, <1>4, <2>1
  <2>2. CASE k >= i
    <3>1. t[k] = b[k - (i - 1)] /\ k - (i - 1) \in 1 .. Len(s) - i /\ i + (k - (i - 1)) = k + 1
      BY <1>1, <1>4, <2>2
    <3> QED
      BY <1>1, <1>3, <2>2, <3>1
  <2> QED
    BY <1>1, <2>1, <2>2
<1> QED
  BY <1>4, <1>5, <1>6

(* Where the first component of some types is after one of another type is *)
(* put in.                                                                 *)
LEMMA FirstAfterInsert ==
  ASSUME NEW S, NEW s \in Seq(S), NEW i \in 1 .. Len(s) + 1, NEW e \in S, NEW types,
         ComponentType(e) \notin types
  PROVE  FirstOf(InsertAt(s, i, e), types) =
           IF FirstOf(s, types) < i THEN FirstOf(s, types) ELSE FirstOf(s, types) + 1
<1> DEFINE t == InsertAt(s, i, e)
           k == FirstOf(s, types)
<1>1. /\ t \in Seq(S) /\ Len(t) = Len(s) + 1 /\ Len(s) \in Nat
      /\ DOMAIN t = 1 .. Len(s) + 1 /\ DOMAIN s = 1 .. Len(s)
      /\ \A n \in 1 .. Len(s) + 1 :
           t[n] = IF n < i THEN s[n] ELSE IF n = i THEN e ELSE s[n - 1]
  <2>1. /\ t \in Seq(S) /\ Len(t) = Len(s) + 1
        /\ \A n \in 1 .. Len(s) + 1 :
             t[n] = IF n < i THEN s[n] ELSE IF n = i THEN e ELSE s[n - 1]
    BY InsertAtIs, InsertAtElement
  <2>2. Len(s) \in Nat /\ DOMAIN s = 1 .. Len(s) /\ DOMAIN t = 1 .. Len(t)
    BY <2>1, LenProperties
  <2> QED
    BY <2>1, <2>2
<1>2. \/ k = 0 /\ \A j \in DOMAIN s : ComponentType(s[j]) \notin types
      \/ /\ k \in DOMAIN s /\ ComponentType(s[k]) \in types
         /\ \A j \in DOMAIN s : j < k => ComponentType(s[j]) \notin types
  BY FirstOfIs
<1>3. \/ FirstOf(t, types) = 0 /\ \A j \in DOMAIN t : ComponentType(t[j]) \notin types
      \/ /\ FirstOf(t, types) \in DOMAIN t /\ ComponentType(t[FirstOf(t, types)]) \in types
         /\ \A j \in DOMAIN t : j < FirstOf(t, types) => ComponentType(t[j]) \notin types
  BY <1>1, FirstOfIs
<1>4. \A n \in DOMAIN t : n # i =>
         /\ (IF n < i THEN n ELSE n - 1) \in DOMAIN s
         /\ t[n] = s[IF n < i THEN n ELSE n - 1]
  BY <1>1
<1>5. t[i] = e /\ i \in DOMAIN t
  BY <1>1
<1> HIDE DEF t, k
<1>6. CASE k = 0
  <2>1. \A n \in DOMAIN t : ComponentType(t[n]) \notin types
    BY <1>1, <1>2, <1>4, <1>5, <1>6
  <2> QED
    BY <1>1, <1>3, <1>6, <2>1 DEF t, k
<1>7. CASE k \in DOMAIN s
  <2> DEFINE m == IF k < i THEN k ELSE k + 1
  <2>1. m \in DOMAIN t /\ m # i /\ t[m] = s[k]
    BY <1>1, <1>7
  <2>2. ComponentType(t[m]) \in types
    BY <1>1, <1>2, <1>7, <2>1
  <2>3. \A n \in DOMAIN t : n < m => ComponentType(t[n]) \notin types
    <3> SUFFICES ASSUME NEW n \in DOMAIN t, n < m PROVE ComponentType(t[n]) \notin types
      OBVIOUS
    <3>1. CASE n = i
      BY <1>5, <3>1
    <3>2. CASE n # i
      <4>1. (IF n < i THEN n ELSE n - 1) < k
        BY <1>1, <1>7, <3>2
      <4> QED
        BY <1>1, <1>2, <1>4, <1>7, <3>2, <4>1
    <3> QED
      BY <3>1, <3>2
  <2>4. FirstOf(t, types) = m
    <3> HIDE DEF m
    <3> QED
      BY <1>1, <2>1, <2>2, <2>3, FirstOfUnique
  <2> QED
    BY <2>4 DEF t, k
<1> QED
  BY <1>2, <1>6, <1>7

(* Where it is when the one put in is of these types.                      *)
LEMMA FirstOfInserted ==
  ASSUME NEW S, NEW s \in Seq(S), NEW i \in 1 .. Len(s) + 1, NEW e \in S, NEW types,
         ComponentType(e) \in types
  PROVE  FirstOf(InsertAt(s, i, e), types) =
           IF FirstOf(s, types) \in 1 .. i - 1 THEN FirstOf(s, types) ELSE i
<1> DEFINE t == InsertAt(s, i, e)
           k == FirstOf(s, types)
<1>1. /\ t \in Seq(S) /\ Len(t) = Len(s) + 1 /\ Len(s) \in Nat
      /\ DOMAIN t = 1 .. Len(s) + 1 /\ DOMAIN s = 1 .. Len(s)
      /\ \A n \in 1 .. Len(s) + 1 :
           t[n] = IF n < i THEN s[n] ELSE IF n = i THEN e ELSE s[n - 1]
  <2>1. /\ t \in Seq(S) /\ Len(t) = Len(s) + 1
        /\ \A n \in 1 .. Len(s) + 1 :
             t[n] = IF n < i THEN s[n] ELSE IF n = i THEN e ELSE s[n - 1]
    BY InsertAtIs, InsertAtElement
  <2>2. Len(s) \in Nat /\ DOMAIN s = 1 .. Len(s) /\ DOMAIN t = 1 .. Len(t)
    BY <2>1, LenProperties
  <2> QED
    BY <2>1, <2>2
<1>2. \/ k = 0 /\ \A j \in DOMAIN s : ComponentType(s[j]) \notin types
      \/ /\ k \in DOMAIN s /\ ComponentType(s[k]) \in types
         /\ \A j \in DOMAIN s : j < k => ComponentType(s[j]) \notin types
  BY FirstOfIs
<1> DEFINE m == IF k \in 1 .. i - 1 THEN k ELSE i
<1> HIDE DEF t, k
<1>3. m \in DOMAIN t /\ ComponentType(t[m]) \in types
  BY <1>1, <1>2
<1>4. \A n \in DOMAIN t : n < m => ComponentType(t[n]) \notin types
  <2> SUFFICES ASSUME NEW n \in DOMAIN t, n < m PROVE ComponentType(t[n]) \notin types
    OBVIOUS
  <2>1. n < i /\ n \in DOMAIN s /\ t[n] = s[n] /\ (k # 0 => n < k)
    BY <1>1, <1>2
  <2> QED
    BY <1>2, <2>1
<1>5. FirstOf(t, types) = m
  <2> HIDE DEF m
  <2> QED
    BY <1>1, <1>3, <1>4, FirstOfUnique
<1> QED
  BY <1>5 DEF t, k

(* Where it is after one of another type is taken out.                     *)
LEMMA FirstAfterRemove ==
  ASSUME NEW S, NEW s \in Seq(S), NEW i \in DOMAIN s, NEW types,
         ComponentType(s[i]) \notin types
  PROVE  FirstOf(RemoveAt(s, i), types) =
           IF FirstOf(s, types) < i THEN FirstOf(s, types) ELSE FirstOf(s, types) - 1
<1> DEFINE t == RemoveAt(s, i)
           k == FirstOf(s, types)
<1>1. /\ t \in Seq(S) /\ Len(t) = Len(s) - 1 /\ Len(s) \in Nat
      /\ DOMAIN t = 1 .. Len(s) - 1 /\ DOMAIN s = 1 .. Len(s)
      /\ \A n \in 1 .. Len(s) - 1 : t[n] = IF n < i THEN s[n] ELSE s[n + 1]
  BY RemoveAtIs, LenProperties
<1>2. \/ k = 0 /\ \A j \in DOMAIN s : ComponentType(s[j]) \notin types
      \/ /\ k \in DOMAIN s /\ ComponentType(s[k]) \in types
         /\ \A j \in DOMAIN s : j < k => ComponentType(s[j]) \notin types
  BY FirstOfIs
<1>3. \/ FirstOf(t, types) = 0 /\ \A j \in DOMAIN t : ComponentType(t[j]) \notin types
      \/ /\ FirstOf(t, types) \in DOMAIN t /\ ComponentType(t[FirstOf(t, types)]) \in types
         /\ \A j \in DOMAIN t : j < FirstOf(t, types) => ComponentType(t[j]) \notin types
  BY <1>1, FirstOfIs
<1>4. \A n \in DOMAIN t : /\ (IF n < i THEN n ELSE n + 1) \in DOMAIN s
                          /\ t[n] = s[IF n < i THEN n ELSE n + 1]
  BY <1>1
<1> HIDE DEF t, k
<1>5. CASE k = 0
  <2>1. \A n \in DOMAIN t : ComponentType(t[n]) \notin types
    BY <1>1, <1>2, <1>4, <1>5
  <2> QED
    BY <1>1, <1>3, <1>5, <2>1 DEF t, k
<1>6. CASE k \in DOMAIN s
  <2> DEFINE m == IF k < i THEN k ELSE k - 1
  <2>1. k # i
    BY <1>1, <1>2, <1>6
  <2>2. m \in DOMAIN t /\ t[m] = s[k]
    BY <1>1, <1>6, <2>1
  <2>3. \A n \in DOMAIN t : n < m => ComponentType(t[n]) \notin types
    <3> SUFFICES ASSUME NEW n \in DOMAIN t, n < m PROVE ComponentType(t[n]) \notin types
      OBVIOUS
    <3>1. (IF n < i THEN n ELSE n + 1) < k
      BY <1>1, <1>6, <2>1
    <3> QED
      BY <1>1, <1>2, <1>4, <1>6, <3>1
  <2>4. FirstOf(t, types) = m
    <3>1. ComponentType(t[m]) \in types
      BY <1>1, <1>2, <1>6, <2>2
    <3> HIDE DEF m
    <3> QED
      BY <1>1, <2>2, <2>3, <3>1, FirstOfUnique
  <2> QED
    BY <2>4 DEF t, k
<1> QED
  BY <1>2, <1>5, <1>6

(* Without the first of some types, the next one is not before it.         *)
LEMMA FirstOfRest ==
  ASSUME NEW S, NEW s \in Seq(S), NEW types, FirstOf(s, types) # 0
  PROVE  LET i == FirstOf(s, types)
             k == FirstOf(RemoveAt(s, i), types)
         IN  \/ k = 0
             \/ k >= i /\ k + 1 \in DOMAIN s /\ ComponentType(s[k + 1]) \in types
<1> DEFINE i == FirstOf(s, types)
           t == RemoveAt(s, i)
           k == FirstOf(t, types)
<1>1. /\ i \in DOMAIN s /\ ComponentType(s[i]) \in types
      /\ \A j \in DOMAIN s : j < i => ComponentType(s[j]) \notin types
  BY FirstOfIs
<1> HIDE DEF i
<1>2. /\ t \in Seq(S) /\ Len(t) = Len(s) - 1 /\ Len(s) \in Nat
      /\ DOMAIN t = 1 .. Len(s) - 1 /\ DOMAIN s = 1 .. Len(s)
      /\ \A n \in 1 .. Len(s) - 1 : t[n] = IF n < i THEN s[n] ELSE s[n + 1]
  BY <1>1, RemoveAtIs, LenProperties
<1> HIDE DEF t
<1>3. k = 0 \/ (k \in DOMAIN t /\ ComponentType(t[k]) \in types)
  BY <1>2, FirstOfIs
<1> HIDE DEF k
<1>4. k = 0 \/ (k >= i /\ k + 1 \in DOMAIN s /\ ComponentType(s[k + 1]) \in types)
  BY <1>1, <1>2, <1>3
<1> QED
  BY <1>4 DEF i, t, k

(* What stays of a list is in it and among the names that may stay.        *)
LEMMA OnlyIs ==
  ASSUME NEW S, NEW s \in Seq(S), NEW names
  PROVE  Only(s, names) \in Seq(ToSet(s) \cap names)
<1> DEFINE stay == {i \in DOMAIN s : s[i] \in names}
           upTo(n) == {j \in stay : j <= n}
           g(n) == Cardinality(upTo(n))
           c == Cardinality(stay)
<1>1. Len(s) \in Nat /\ DOMAIN s = 1 .. Len(s) /\ stay \subseteq 1 .. Len(s)
  BY LenProperties
<1>2. IsFiniteSet(stay) /\ c \in Nat
  <2>1. IsFiniteSet(1 .. Len(s))
    BY <1>1, FS_Interval
  <2> QED
    BY <1>1, <2>1, FS_Subset, FS_CardinalityType
<1>3. \A n : IsFiniteSet(upTo(n)) /\ g(n) \in Nat
  <2> SUFFICES ASSUME NEW n PROVE IsFiniteSet(upTo(n)) /\ g(n) \in Nat
    OBVIOUS
  <2>1. upTo(n) \subseteq stay
    OBVIOUS
  <2> QED
    BY <1>2, <2>1, FS_Subset, FS_CardinalityType
<1>4. \A k \in 1 .. c : \E i \in stay : g(i) = k
  <2> SUFFICES ASSUME NEW k \in 1 .. c PROVE \E i \in stay : g(i) = k
    OBVIOUS
  <2> DEFINE W == {n \in Nat : g(n) >= k}
  <2>1. upTo(Len(s)) = stay
    BY <1>1
  <2>2. Len(s) \in W
    <3>1. g(Len(s)) = c
      BY <2>1
    <3> HIDE DEF g, c
    <3> QED
      BY <1>1, <1>2, <3>1
  <2>3. PICK i \in W : \A j \in W : i <= j
    <3> HIDE DEF W
    <3>1. W \in SUBSET Nat /\ W # {}
      BY <2>2 DEF W
    <3> QED
      BY <3>1, FirstPosition
  <2>4. upTo(0) = {}
    BY <1>1
  <2>5. i # 0
    BY <2>3, <2>4, FS_EmptySet
  <2>6. i - 1 \in Nat /\ i - 1 \notin W
    BY <2>3, <2>5
  <2>7. g(i - 1) < k
    <3>1. g(i - 1) \in Nat
      BY <1>3
    <3>2. ~(g(i - 1) >= k)
      BY <2>6
    <3> HIDE DEF g
    <3> QED
      BY <3>1, <3>2
  <2>8. g(i) >= k
    BY <2>3
  <2>9. CASE i \in stay
    <3>1. upTo(i) = upTo(i - 1) \cup {i} /\ i \notin upTo(i - 1)
      BY <1>1, <2>6, <2>9
    <3>2. g(i) = g(i - 1) + 1
      BY <1>3, <3>1, FS_AddElement
    <3>3. g(i) = k
      <4>1. g(i) \in Nat /\ g(i - 1) \in Nat
        BY <1>3
      <4> HIDE DEF g
      <4> QED
        BY <2>7, <2>8, <3>2, <4>1
    <3> QED
      BY <2>9, <3>3
  <2>10. CASE i \notin stay
    <3>1. upTo(i) = upTo(i - 1)
      BY <1>1, <2>3, <2>10
    <3>2. g(i - 1) \in Nat /\ g(i) = g(i - 1)
      BY <1>3, <3>1
    <3> HIDE DEF g
    <3> QED
      BY <2>7, <2>8, <3>2
  <2> QED
    BY <2>9, <2>10
<1> DEFINE e(k) == s[CHOOSE i \in stay : g(i) = k]
<1>5. \A k \in 1 .. c : e(k) \in ToSet(s) \cap names
  <2> SUFFICES ASSUME NEW k \in 1 .. c PROVE e(k) \in ToSet(s) \cap names
    OBVIOUS
  <2>1. (CHOOSE i \in stay : g(i) = k) \in stay
    BY <1>4
  <2> QED
    BY <2>1 DEF ToSet
<1>6. Only(s, names) = [k \in 1 .. c |-> e(k)]
  BY DEF Only
<1> HIDE DEF e, c
<1> QED
  BY <1>2, <1>5, <1>6

(* Each rule reports under its own name. *)
LEMMA FindingsNameRule ==
  ASSUME NEW c
  PROVE  /\ \A f \in MissingMemoryLimiter(c) : f.rule = "missing-memory-limiter"
         /\ \A f \in MissingBatch(c) : f.rule = "missing-batch"
         /\ \A f \in NoTraceSampling(c) : f.rule = "no-trace-sampling"
         /\ \A f \in UnusedComponents(c) : f.rule = "unused-components"
         /\ \A f \in MultipleExportersNoRouting(c) : f.rule = "multiple-exporters-no-routing"
         /\ \A f \in NoLogSeverityFilter(c) : f.rule = "no-log-severity-filter"
         /\ \A f \in MemoryLimiterNotFirst(c) : f.rule = "memory-limiter-not-first"
         /\ \A f \in BatchBeforeSampling(c) : f.rule = "batch-before-sampling"
         /\ \A f \in BatchNotNearEnd(c) : f.rule = "batch-not-near-end"
         /\ \A f \in ReceiverEndpointWildcard(c) : f.rule = "receiver-endpoint-wildcard"
         /\ \A f \in DebugExporterInPipeline(c) : f.rule = "debug-exporter-in-pipeline"
         /\ \A f \in PprofExtensionEnabled(c) : f.rule = "pprof-extension-enabled"
         /\ \A f \in MemoryLimiterWithoutLimits(c) : f.rule = "memory-limiter-without-limits"
         /\ \A f \in ExporterNoSendingQueue(c) : f.rule = "exporter-no-sending-queue"
         /\ \A f \in ExporterNoRetry(c) : f.rule = "exporter-no-retry"
         /\ \A f \in UndefinedComponentRef(c) : f.rule = "undefined-component-ref"
         /\ \A f \in EmptyPipeline(c) : f.rule = "empty-pipeline"
         /\ \A f \in FilterErrorModePropagate(c) : f.rule = "filter-error-mode-propagate"
         /\ \A f \in ScrapeIntervalMismatch(c) : f.rule = "scrape-interval-mismatch"
         /\ \A f \in ExporterInsecureTLS(c) : f.rule = "exporter-insecure-tls"
         /\ \A f \in NoHealthCheckExtension(c) : f.rule = "no-health-check-extension"
         /\ \A f \in ExporterEndpointLocalhost(c) : f.rule = "exporter-endpoint-localhost"
         /\ \A f \in ExporterNoCompression(c) : f.rule = "exporter-no-compression"
         /\ \A f \in TailSamplingWithoutMemoryLimiter(c) : f.rule = "tail-sampling-without-memory-limiter"
         /\ \A f \in NoHealthCheckTraceFilter(c) : f.rule = "no-health-check-trace-filter"
         /\ \A f \in FilesystemScraperNoExclusions(c) : f.rule = "filesystem-scraper-no-exclusions"
         /\ \A f \in ShortScrapeInterval(c) : f.rule = "short-scrape-interval"
         /\ \A f \in ExporterTimeoutTooLow(c) : f.rule = "exporter-timeout-too-low"
         /\ \A f \in SendingQueueTooSmall(c) : f.rule = "sending-queue-too-small"
         /\ \A f \in NoSpanMetricsConnector(c) : f.rule = "no-span-metrics-connector"
         /\ \A f \in ExtensionEndpointExposed(c) : f.rule = "extension-endpoint-exposed"
         /\ \A f \in DebugLogFeedbackLoop(c) : f.rule = "debug-log-feedback-loop"
<1>1. \A f \in MissingMemoryLimiter(c) : f.rule = "missing-memory-limiter"
  BY DEF MissingMemoryLimiter, InPipelines, Finding, FindingAbout
<1>2. \A f \in MissingBatch(c) : f.rule = "missing-batch"
  BY DEF MissingBatch, InPipelines, Finding, FindingAbout
<1>3. \A f \in NoTraceSampling(c) : f.rule = "no-trace-sampling"
  BY DEF NoTraceSampling, InPipelines, Finding, FindingAbout
<1>4. \A f \in UnusedComponents(c) : f.rule = "unused-components"
  BY DEF UnusedComponents, Finding, FindingAbout
<1>5. \A f \in MultipleExportersNoRouting(c) : f.rule = "multiple-exporters-no-routing"
  BY DEF MultipleExportersNoRouting, InPipelines, Finding, FindingAbout
<1>6. \A f \in NoLogSeverityFilter(c) : f.rule = "no-log-severity-filter"
  BY DEF NoLogSeverityFilter, InPipelines, Finding, FindingAbout
<1>7. \A f \in MemoryLimiterNotFirst(c) : f.rule = "memory-limiter-not-first"
  BY DEF MemoryLimiterNotFirst, InPipelines, Finding, FindingAbout
<1>8. \A f \in BatchBeforeSampling(c) : f.rule = "batch-before-sampling"
  BY DEF BatchBeforeSampling, InPipelines, Finding, FindingAbout
<1>9. \A f \in BatchNotNearEnd(c) : f.rule = "batch-not-near-end"
  BY DEF BatchNotNearEnd, InPipelines, Finding, FindingAbout
<1>10. \A f \in ReceiverEndpointWildcard(c) : f.rule = "receiver-endpoint-wildcard"
  BY DEF ReceiverEndpointWildcard, AboutReceivers, FindingAbout
<1>11. \A f \in DebugExporterInPipeline(c) : f.rule = "debug-exporter-in-pipeline"
  BY DEF DebugExporterInPipeline, AboutPipelines, FindingAbout
<1>12. \A f \in PprofExtensionEnabled(c) : f.rule = "pprof-extension-enabled"
  BY DEF PprofExtensionEnabled, Finding, FindingAbout
<1>13. \A f \in MemoryLimiterWithoutLimits(c) : f.rule = "memory-limiter-without-limits"
  BY DEF MemoryLimiterWithoutLimits, InComponents, Finding, FindingAbout
<1>14. \A f \in ExporterNoSendingQueue(c) : f.rule = "exporter-no-sending-queue"
  <2>1. \A f \in ExporterNoSendingQueue(c) : \E n : f = Finding("exporter-no-sending-queue", "exporter", n)
    BY Zenon DEF ExporterNoSendingQueue, InPipelines, InComponents, InExporters
  <2> QED
    BY <2>1 DEF Finding, FindingAbout
<1>15. \A f \in ExporterNoRetry(c) : f.rule = "exporter-no-retry"
  <2>1. \A f \in ExporterNoRetry(c) : \E n : f = Finding("exporter-no-retry", "exporter", n)
    BY Zenon DEF ExporterNoRetry, InPipelines, InComponents, InExporters
  <2> QED
    BY <2>1 DEF Finding, FindingAbout
<1>16. \A f \in UndefinedComponentRef(c) : f.rule = "undefined-component-ref"
  BY DEF UndefinedComponentRef, AboutPipelines, FindingAbout
<1>17. \A f \in EmptyPipeline(c) : f.rule = "empty-pipeline"
  BY DEF EmptyPipeline, AboutPipelines, FindingAbout
<1>18. \A f \in FilterErrorModePropagate(c) : f.rule = "filter-error-mode-propagate"
  BY DEF FilterErrorModePropagate, InComponents, Finding, FindingAbout
<1>19. \A f \in ScrapeIntervalMismatch(c) : f.rule = "scrape-interval-mismatch"
  <2>1. \A f \in ScrapeIntervalMismatch(c) : \E n : f = Finding("scrape-interval-mismatch", "pipeline", n)
    BY Zenon DEF ScrapeIntervalMismatch, InPipelines, InComponents, InExporters
  <2> QED
    BY <2>1 DEF Finding, FindingAbout
<1>20. \A f \in ExporterInsecureTLS(c) : f.rule = "exporter-insecure-tls"
  <2>1. \A f \in ExporterInsecureTLS(c) : \E n : f = Finding("exporter-insecure-tls", "exporter", n)
    BY Zenon DEF ExporterInsecureTLS, InPipelines, InComponents, InExporters
  <2> QED
    BY <2>1 DEF Finding, FindingAbout
<1>21. \A f \in NoHealthCheckExtension(c) : f.rule = "no-health-check-extension"
  BY DEF NoHealthCheckExtension, Finding, FindingAbout
<1>22. \A f \in ExporterEndpointLocalhost(c) : f.rule = "exporter-endpoint-localhost"
  BY DEF ExporterEndpointLocalhost, InComponents, InExporters, Finding, FindingAbout
<1>23. \A f \in ExporterNoCompression(c) : f.rule = "exporter-no-compression"
  <2>1. \A f \in ExporterNoCompression(c) : \E n : f = Finding("exporter-no-compression", "exporter", n)
    BY Zenon DEF ExporterNoCompression, InPipelines, InComponents, InExporters
  <2> QED
    BY <2>1 DEF Finding, FindingAbout
<1>24. \A f \in TailSamplingWithoutMemoryLimiter(c) : f.rule = "tail-sampling-without-memory-limiter"
  BY DEF TailSamplingWithoutMemoryLimiter, InPipelines, Finding, FindingAbout
<1>25. \A f \in NoHealthCheckTraceFilter(c) : f.rule = "no-health-check-trace-filter"
  BY DEF NoHealthCheckTraceFilter, InPipelines, Finding, FindingAbout
<1>26. \A f \in FilesystemScraperNoExclusions(c) : f.rule = "filesystem-scraper-no-exclusions"
  BY DEF FilesystemScraperNoExclusions, InComponents, Finding, FindingAbout
<1>27. \A f \in ShortScrapeInterval(c) : f.rule = "short-scrape-interval"
  BY DEF ShortScrapeInterval, AboutReceivers, FindingAbout
<1>28. \A f \in ExporterTimeoutTooLow(c) : f.rule = "exporter-timeout-too-low"
  BY DEF ExporterTimeoutTooLow, InComponents, InExporters, Finding, FindingAbout
<1>29. \A f \in SendingQueueTooSmall(c) : f.rule = "sending-queue-too-small"
  <2>1. \A f \in SendingQueueTooSmall(c) : \E n : f = Finding("sending-queue-too-small", "exporter", n)
    BY Zenon DEF SendingQueueTooSmall, InPipelines, InComponents, InExporters
  <2> QED
    BY <2>1 DEF Finding, FindingAbout
<1>30. \A f \in NoSpanMetricsConnector(c) : f.rule = "no-span-metrics-connector"
  BY DEF NoSpanMetricsConnector, Finding, FindingAbout
<1>31. \A f \in ExtensionEndpointExposed(c) : f.rule = "extension-endpoint-exposed"
  BY DEF ExtensionEndpointExposed, Finding, FindingAbout
<1>32. \A f \in DebugLogFeedbackLoop(c) : f.rule = "debug-log-feedback-loop"
  BY DEF DebugLogFeedbackLoop, InPipelines, Finding, FindingAbout
<1> QED
  BY <1>1, <1>2, <1>3, <1>4, <1>5, <1>6, <1>7, <1>8, <1>9, <1>10, <1>11, <1>12, <1>13, <1>14, <1>15, <1>16, <1>17, <1>18, <1>19, <1>20, <1>21, <1>22, <1>23, <1>24, <1>25, <1>26, <1>27, <1>28, <1>29, <1>30, <1>31, <1>32

(* A finding of all rules is one of the rule it names.                     *)
LEMMA OfRule ==
  ASSUME NEW c, NEW f \in AllRules(c)
  PROVE  /\ f.rule = "missing-memory-limiter" => f \in MissingMemoryLimiter(c)
         /\ f.rule = "missing-batch" => f \in MissingBatch(c)
         /\ f.rule = "no-trace-sampling" => f \in NoTraceSampling(c)
         /\ f.rule = "unused-components" => f \in UnusedComponents(c)
         /\ f.rule = "multiple-exporters-no-routing" => f \in MultipleExportersNoRouting(c)
         /\ f.rule = "no-log-severity-filter" => f \in NoLogSeverityFilter(c)
         /\ f.rule = "memory-limiter-not-first" => f \in MemoryLimiterNotFirst(c)
         /\ f.rule = "batch-before-sampling" => f \in BatchBeforeSampling(c)
         /\ f.rule = "batch-not-near-end" => f \in BatchNotNearEnd(c)
         /\ f.rule = "receiver-endpoint-wildcard" => f \in ReceiverEndpointWildcard(c)
         /\ f.rule = "debug-exporter-in-pipeline" => f \in DebugExporterInPipeline(c)
         /\ f.rule = "pprof-extension-enabled" => f \in PprofExtensionEnabled(c)
         /\ f.rule = "memory-limiter-without-limits" => f \in MemoryLimiterWithoutLimits(c)
         /\ f.rule = "exporter-no-sending-queue" => f \in ExporterNoSendingQueue(c)
         /\ f.rule = "exporter-no-retry" => f \in ExporterNoRetry(c)
         /\ f.rule = "undefined-component-ref" => f \in UndefinedComponentRef(c)
         /\ f.rule = "empty-pipeline" => f \in EmptyPipeline(c)
         /\ f.rule = "filter-error-mode-propagate" => f \in FilterErrorModePropagate(c)
         /\ f.rule = "scrape-interval-mismatch" => f \in ScrapeIntervalMismatch(c)
         /\ f.rule = "exporter-insecure-tls" => f \in ExporterInsecureTLS(c)
         /\ f.rule = "no-health-check-extension" => f \in NoHealthCheckExtension(c)
         /\ f.rule = "exporter-endpoint-localhost" => f \in ExporterEndpointLocalhost(c)
         /\ f.rule = "exporter-no-compression" => f \in ExporterNoCompression(c)
         /\ f.rule = "tail-sampling-without-memory-limiter" => f \in TailSamplingWithoutMemoryLimiter(c)
         /\ f.rule = "no-health-check-trace-filter" => f \in NoHealthCheckTraceFilter(c)
         /\ f.rule = "filesystem-scraper-no-exclusions" => f \in FilesystemScraperNoExclusions(c)
         /\ f.rule = "short-scrape-interval" => f \in ShortScrapeInterval(c)
         /\ f.rule = "exporter-timeout-too-low" => f \in ExporterTimeoutTooLow(c)
         /\ f.rule = "sending-queue-too-small" => f \in SendingQueueTooSmall(c)
         /\ f.rule = "no-span-metrics-connector" => f \in NoSpanMetricsConnector(c)
         /\ f.rule = "extension-endpoint-exposed" => f \in ExtensionEndpointExposed(c)
         /\ f.rule = "debug-log-feedback-loop" => f \in DebugLogFeedbackLoop(c)
BY FindingsNameRule DEF AllRules

(* A finding that is critical is of one of eight rules. *)
LEMMA RaisedBy ==
  ASSUME NEW c, NEW d, NEW R,
         MissingMemoryLimiter(d) \subseteq MissingMemoryLimiter(c) \/ "missing-memory-limiter" \in R,
         MemoryLimiterNotFirst(d) \subseteq MemoryLimiterNotFirst(c) \/ "memory-limiter-not-first" \in R,
         BatchBeforeSampling(d) \subseteq BatchBeforeSampling(c) \/ "batch-before-sampling" \in R,
         MemoryLimiterWithoutLimits(d) \subseteq MemoryLimiterWithoutLimits(c)
           \/ "memory-limiter-without-limits" \in R,
         UndefinedComponentRef(d) \subseteq UndefinedComponentRef(c) \/ "undefined-component-ref" \in R,
         EmptyPipeline(d) \subseteq EmptyPipeline(c) \/ "empty-pipeline" \in R,
         ExporterInsecureTLS(d) \subseteq ExporterInsecureTLS(c),
         DebugLogFeedbackLoop(d) \subseteq DebugLogFeedbackLoop(c) \/ "debug-log-feedback-loop" \in R,
         (HasLoop(d) => HasLoop(c)) \/ "connector-loop" \in R
  PROVE  Raised(c, d) \subseteq R
<1>1. ASSUME NEW f \in AllRules(d) \ AllRules(c), f.rule \in CriticalRules
      PROVE  f.rule \in R
  <2>1. ~(\E A \in {MissingMemoryLimiter(c), MemoryLimiterNotFirst(c), BatchBeforeSampling(c),
             MemoryLimiterWithoutLimits(c), UndefinedComponentRef(c), EmptyPipeline(c),
             ExporterInsecureTLS(c), DebugLogFeedbackLoop(c)} : f \in A)
    BY <1>1 DEF AllRules
  <2>2. CASE f.rule = "missing-memory-limiter"
    BY <1>1, <2>1, <2>2, OfRule
  <2>3. CASE f.rule = "memory-limiter-not-first"
    BY <1>1, <2>1, <2>3, OfRule
  <2>4. CASE f.rule = "batch-before-sampling"
    BY <1>1, <2>1, <2>4, OfRule
  <2>5. CASE f.rule = "memory-limiter-without-limits"
    BY <1>1, <2>1, <2>5, OfRule
  <2>6. CASE f.rule = "undefined-component-ref"
    BY <1>1, <2>1, <2>6, OfRule
  <2>7. CASE f.rule = "empty-pipeline"
    BY <1>1, <2>1, <2>7, OfRule
  <2>8. CASE f.rule = "exporter-insecure-tls"
    BY <1>1, <2>1, <2>8, OfRule
  <2>9. CASE f.rule = "debug-log-feedback-loop"
    BY <1>1, <2>1, <2>9, OfRule
  <2>10. f.rule # "connector-loop"
    BY <1>1, FindingsNameRule DEF AllRules
  <2> QED
    BY <1>1, <2>2, <2>3, <2>4, <2>5, <2>6, <2>7, <2>8, <2>9, <2>10 DEF CriticalRules
<1> QED
  BY <1>1 DEF Raised

-----------------------------------------------------------------------------
(* Static advice: settings and maps *)

IntervalsAre(s) == PrometheusIntervals(s) \subseteq Nat /\ HostMetricsInterval(s) \in Nat

(* Settings that leave the intervals alone, or set some, leave intervals.  *)
LEMMA OverIntervals ==
  ASSUME NEW new, NEW old, IntervalsAre(new), IntervalsAre(old)
  PROVE  IntervalsAre(Over(new, old))
BY DEF IntervalsAre, PrometheusIntervals, HostMetricsInterval, Setting, Over

LEMMA NoIntervals == IntervalsAre(NoSettings)
BY DEF IntervalsAre, PrometheusIntervals, HostMetricsInterval, Setting, NoSettings

(* A merge changes one section, and there one component.                   *)
LEMMA MergeShape ==
  ASSUME NEW c, IsConfig(c), NEW section \in Components, NEW name, NEW settings,
         section = "receivers" => IntervalsAre(settings)
  PROVE  LET d == Merge(c, section, name, settings)
         IN /\ IsConfig(d)
            /\ d.pipelines = c.pipelines /\ d.serviceExtensions = c.serviceExtensions
            /\ \A s \in Components \ {section} : d[s] = c[s]
            /\ DOMAIN d[section] = DOMAIN c[section] \cup {name}
            /\ \A n \in DOMAIN c[section] \ {name} : d[section][n] = c[section][n]
            /\ d[section][name] = Over(settings, Setting(c[section], name, NoSettings))
<1> DEFINE d == Merge(c, section, name, settings)
<1>1. /\ IsMap(d) /\ DOMAIN d = DOMAIN c
      /\ d.pipelines = c.pipelines /\ d.serviceExtensions = c.serviceExtensions
      /\ \A s \in Components \ {section} : d[s] = c[s]
      /\ DOMAIN d[section] = DOMAIN c[section] \cup {name}
      /\ \A n \in DOMAIN c[section] \ {name} : d[section][n] = c[section][n]
      /\ d[section][name] = Over(settings, Setting(c[section], name, NoSettings))
  BY DEF Merge, IsConfig, IsMap, Components, Over
<1>2. ASSUME NEW n \in DOMAIN d.receivers
      PROVE  IntervalsAre(d.receivers[n])
  <2>1. \A m \in DOMAIN c.receivers : IntervalsAre(c.receivers[m])
    BY DEF IsConfig, IntervalsAre
  <2>2. CASE section = "receivers" /\ n = name
    <3>1. IntervalsAre(Setting(c.receivers, name, NoSettings))
      BY <2>1, NoIntervals DEF Setting
    <3> QED
      BY <1>1, <2>2, <3>1, OverIntervals
  <2>3. CASE ~(section = "receivers" /\ n = name)
    <3>1. n \in DOMAIN c.receivers /\ d.receivers[n] = c.receivers[n]
      BY <1>1, <1>2, <2>3 DEF Components
    <3> QED
      BY <2>1, <3>1
  <2> QED
    BY <2>2, <2>3
<1>3. IsConfig(d)
  BY <1>1, <1>2 DEF IsConfig, IntervalsAre
<1> QED
  BY <1>1, <1>3

(* A new list changes one pipeline, and there one list.                    *)
LEMMA ListsShape ==
  ASSUME NEW c, IsConfig(c), NEW p \in DOMAIN c.pipelines, NEW list \in PipelineLists,
         NEW S, NEW names \in Seq(S)
  PROVE  LET d == Lists(c, p, list, names)
         IN /\ IsConfig(d)
            /\ \A s \in Components : d[s] = c[s]
            /\ d.serviceExtensions = c.serviceExtensions
            /\ DOMAIN d.pipelines = DOMAIN c.pipelines
            /\ \A q \in DOMAIN c.pipelines \ {p} : d.pipelines[q] = c.pipelines[q]
            /\ d.pipelines[p].signal = c.pipelines[p].signal
            /\ d.pipelines[p][list] = names
            /\ \A l \in PipelineLists \ {list} : d.pipelines[p][l] = c.pipelines[p][l]
<1> DEFINE d == Lists(c, p, list, names)
           old == c.pipelines[p]
           new == [old EXCEPT ![list] = names]
<1>1. names \in Seq(ToSet(names))
  BY DEF ToSet
<1>2. IsPipeline(old) /\ old.signal = ComponentType(p)
  BY DEF IsConfig
<1>3. /\ IsPipeline(new) /\ new.signal = old.signal /\ new[list] = names
      /\ \A l \in PipelineLists \ {list} : new[l] = old[l]
  BY <1>1, <1>2 DEF IsPipeline, PipelineLists, IsMap
<1> HIDE DEF new
<1>4. d = [c EXCEPT !.pipelines = [c.pipelines EXCEPT ![p] = new]]
  BY DEF Lists, new
<1>5. /\ IsMap(d) /\ DOMAIN d = DOMAIN c /\ IsMap(d.pipelines)
      /\ \A s \in Components : d[s] = c[s]
      /\ d.serviceExtensions = c.serviceExtensions
      /\ d.pipelines = [c.pipelines EXCEPT ![p] = new]
  BY <1>4 DEF IsConfig, IsMap, Components
<1>6. /\ DOMAIN d.pipelines = DOMAIN c.pipelines /\ d.pipelines[p] = new
      /\ \A q \in DOMAIN c.pipelines \ {p} : d.pipelines[q] = c.pipelines[q]
  BY <1>5 DEF IsConfig, IsMap
<1> HIDE DEF d
<1>7. \A q \in DOMAIN d.pipelines :
        IsPipeline(d.pipelines[q]) /\ d.pipelines[q].signal = ComponentType(q)
  BY <1>2, <1>3, <1>6 DEF IsConfig
<1>8. d.receivers = c.receivers
  BY <1>5 DEF Components
<1>9. IsConfig(d)
  BY <1>5, <1>7, <1>8 DEF IsConfig
<1> QED
  BY <1>3, <1>5, <1>6, <1>9 DEF d
-----------------------------------------------------------------------------
(* Static advice: what is new in the report *)

(* With no more edges and pipelines there are no more loops.               *)
LEMMA LoopsGrow ==
  ASSUME NEW c, NEW d,
         \A u \in DOMAIN d.pipelines :
           u \in DOMAIN c.pipelines /\ Feeds(d)[u] \subseteq Feeds(c)[u]
  PROVE  HasLoop(d) => HasLoop(c)
<1> SUFFICES ASSUME HasLoop(d) PROVE HasLoop(c)
  OBVIOUS
<1>1. PICK W \in SUBSET DOMAIN Feeds(d) : W # {} /\ \A u \in W : Feeds(d)[u] \cap W # {}
  BY DEF HasLoop, Promise!HasLoop
<1>2. DOMAIN Feeds(d) = DOMAIN d.pipelines /\ DOMAIN Feeds(c) = DOMAIN c.pipelines
  BY DEF Feeds
<1>3. W \in SUBSET DOMAIN Feeds(c) /\ \A u \in W : Feeds(c)[u] \cap W # {}
  BY <1>1, <1>2
<1> QED
  BY <1>1, <1>3 DEF HasLoop, Promise!HasLoop

LEMMA SamePipelines ==
  ASSUME NEW c, NEW d, d.pipelines = c.pipelines
  PROVE  /\ MissingMemoryLimiter(d) = MissingMemoryLimiter(c)
         /\ MemoryLimiterNotFirst(d) = MemoryLimiterNotFirst(c)
         /\ BatchBeforeSampling(d) = BatchBeforeSampling(c)
         /\ EmptyPipeline(d) = EmptyPipeline(c)
BY DEF MissingMemoryLimiter, MemoryLimiterNotFirst, BatchBeforeSampling, EmptyPipeline,
       InPipelines, AboutPipelines

(* What the rule on undefined references reads: the names in a list that   *)
(* no section has.                                                         *)
LEMMA RefsAre ==
  ASSUME NEW c, NEW p, NEW b
  PROVE  b \in UndefinedRefs(c, p) <=>
           \E list \in PipelineLists : \E x \in ToSet(p[list]) :
             /\ x \notin DOMAIN c[list]
             /\ list # "processors" => x \notin DOMAIN c.connectors
             /\ b = <<list, x>>
BY DEF UndefinedRefs

RefersToNothing(c, n, list, x) ==
  /\ n \in DOMAIN c.pipelines /\ list \in PipelineLists /\ x \in ToSet(c.pipelines[n][list])
  /\ x \notin DOMAIN c[list]
  /\ list # "processors" => x \notin DOMAIN c.connectors

UndefinedRef(n, list, x) == FindingAbout("undefined-component-ref", "pipeline", n, <<list, x>>)

(* The rule reports exactly the names that refer to nothing.               *)
LEMMA UndefinedHas ==
  ASSUME NEW c, NEW f \in UndefinedComponentRef(c)
  PROVE  \E n, list, x : RefersToNothing(c, n, list, x) /\ f = UndefinedRef(n, list, x)
<1>1. PICK n \in DOMAIN c.pipelines : \E b \in UndefinedRefs(c, c.pipelines[n]) :
        f = FindingAbout("undefined-component-ref", "pipeline", n, b)
  BY DEF UndefinedComponentRef, AboutPipelines
<1>2. PICK b \in UndefinedRefs(c, c.pipelines[n]) :
        f = FindingAbout("undefined-component-ref", "pipeline", n, b)
  BY <1>1
<1>3. PICK list \in PipelineLists : \E x \in ToSet(c.pipelines[n][list]) :
        /\ x \notin DOMAIN c[list]
        /\ list # "processors" => x \notin DOMAIN c.connectors
        /\ b = <<list, x>>
  BY RefsAre
<1>4. PICK x : RefersToNothing(c, n, list, x) /\ b = <<list, x>>
  BY <1>3 DEF RefersToNothing
<1> QED
  BY <1>2, <1>4 DEF UndefinedRef

LEMMA UndefinedIn ==
  ASSUME NEW c, NEW n, NEW list, NEW x, RefersToNothing(c, n, list, x)
  PROVE  UndefinedRef(n, list, x) \in UndefinedComponentRef(c)
<1>1. <<list, x>> \in UndefinedRefs(c, c.pipelines[n])
  BY RefsAre DEF RefersToNothing
<1> QED
  BY <1>1 DEF UndefinedComponentRef, AboutPipelines, RefersToNothing, UndefinedRef

(* With no fewer components and no more names it reports no more.          *)
LEMMA UndefinedShrinks ==
  ASSUME NEW c, NEW d,
         \A n, list, x : RefersToNothing(d, n, list, x) => RefersToNothing(c, n, list, x)
  PROVE  UndefinedComponentRef(d) \subseteq UndefinedComponentRef(c)
<1> SUFFICES ASSUME NEW f \in UndefinedComponentRef(d) PROVE f \in UndefinedComponentRef(c)
  OBVIOUS
<1>1. PICK n, list, x : RefersToNothing(d, n, list, x) /\ f = UndefinedRef(n, list, x)
  BY UndefinedHas
<1> QED
  BY <1>1, UndefinedIn

(* What each critical rule about settings reads.                           *)
LEMMA LimitlessIs ==
  ASSUME NEW c, NEW f
  PROVE  f \in MemoryLimiterWithoutLimits(c) <=>
           \E n \in DOMAIN c.processors :
             /\ ComponentType(n) = "memory_limiter"
             /\ DOMAIN c.processors[n] \cap {"limit_mib", "limit_percentage"} = {}
             /\ f = Finding("memory-limiter-without-limits", "processor", n)
BY DEF MemoryLimiterWithoutLimits, InComponents

LEMMA InsecureIs ==
  ASSUME NEW c, NEW f
  PROVE  f \in ExporterInsecureTLS(c) <=>
           \E n \in DOMAIN c.exporters :
             /\ ComponentType(n) \in NetworkExporterTypes
             /\ ~IsTapExporter(n)
             /\ Setting(c.exporters[n], "tls_insecure", FALSE)
             /\ f = Finding("exporter-insecure-tls", "exporter", n)
BY Zenon DEF ExporterInsecureTLS, InExporters, InComponents

LEMMA InsecureKept ==
  ASSUME NEW c, NEW d,
         \A n \in DOMAIN d.exporters :
           Setting(d.exporters[n], "tls_insecure", FALSE) =>
             n \in DOMAIN c.exporters /\ Setting(c.exporters[n], "tls_insecure", FALSE)
  PROVE  ExporterInsecureTLS(d) \subseteq ExporterInsecureTLS(c)
<1> SUFFICES ASSUME NEW f \in ExporterInsecureTLS(d) PROVE f \in ExporterInsecureTLS(c)
  OBVIOUS
<1>1. PICK n \in DOMAIN d.exporters :
           /\ ComponentType(n) \in NetworkExporterTypes
           /\ ~IsTapExporter(n)
           /\ Setting(d.exporters[n], "tls_insecure", FALSE)
           /\ f = Finding("exporter-insecure-tls", "exporter", n)
  BY InsecureIs
<1> QED
  BY <1>1, InsecureIs

(* What the rule on feedback of debug logs reads.                          *)
LEMMA FeedbackIs ==
  ASSUME NEW c, NEW f
  PROVE  f \in DebugLogFeedbackLoop(c) <=>
           \E n \in DOMAIN c.pipelines :
             /\ \E r \in DOMAIN c.receivers : ComponentType(r) \in {"filelog", "journald"}
             /\ c.pipelines[n].signal = "logs"
             /\ Types(c.pipelines[n].exporters) \cap DebugTypes # {}
             /\ f = Finding("debug-log-feedback-loop", "pipeline", n)
BY DEF DebugLogFeedbackLoop, InPipelines

(* Findings of a rule about different things are different.                *)
LEMMA NamesOfFindings ==
  /\ \A r, k, n, m : Finding(r, k, n) = Finding(r, k, m) => n = m
  /\ \A r, k, n, m, a, b : FindingAbout(r, k, n, a) = FindingAbout(r, k, m, b) => n = m /\ a = b
  /\ \A r, k, n : Finding(r, k, n).rule = r /\ Finding(r, k, n).name = n
  /\ \A r, k, n, a : /\ FindingAbout(r, k, n, a).rule = r /\ FindingAbout(r, k, n, a).name = n
                     /\ FindingAbout(r, k, n, a).about = a
<1>1. /\ \A r, k, n : Finding(r, k, n).rule = r /\ Finding(r, k, n).name = n
      /\ \A r, k, n, a : /\ FindingAbout(r, k, n, a).rule = r /\ FindingAbout(r, k, n, a).name = n
                         /\ FindingAbout(r, k, n, a).about = a
  BY DEF Finding, FindingAbout
<1> QED
  BY <1>1

(* Merging a snippet makes critical only what it defines: a memory limiter *)
(* without limits, a receiver of logs, a connector.                        *)
LEMMA MergeRaises ==
  ASSUME NEW c, IsConfig(c), NEW section \in Components, NEW name, NEW settings, NEW R,
         section = "receivers" => IntervalsAre(settings),
         \/ section # "processors" \/ name \in DOMAIN c.processors
         \/ ComponentType(name) # "memory_limiter"
         \/ DOMAIN settings \cap {"limit_mib", "limit_percentage"} # {}
         \/ "memory-limiter-without-limits" \in R,
         \/ section # "receivers" \/ name \in DOMAIN c.receivers
         \/ ComponentType(name) \notin {"filelog", "journald"}
         \/ "debug-log-feedback-loop" \in R,
         \/ section # "exporters"
         \/ "tls_insecure" \notin DOMAIN settings
         \/ settings["tls_insecure"] = FALSE,
         section # "connectors" \/ "connector-loop" \in R
  PROVE  Raised(c, Merge(c, section, name, settings)) \subseteq R
<1> DEFINE d == Merge(c, section, name, settings)
<1>1. /\ IsConfig(d)
      /\ d.pipelines = c.pipelines
      /\ \A s \in Components \ {section} : d[s] = c[s]
      /\ DOMAIN d[section] = DOMAIN c[section] \cup {name}
      /\ \A n \in DOMAIN c[section] \ {name} : d[section][n] = c[section][n]
      /\ d[section][name] = Over(settings, Setting(c[section], name, NoSettings))
  BY MergeShape
<1> HIDE DEF d
<1>2. DOMAIN Over(settings, Setting(c[section], name, NoSettings)) =
        DOMAIN settings \cup DOMAIN Setting(c[section], name, NoSettings)
  BY DEF Over
<1>3. /\ MissingMemoryLimiter(d) = MissingMemoryLimiter(c)
      /\ MemoryLimiterNotFirst(d) = MemoryLimiterNotFirst(c)
      /\ BatchBeforeSampling(d) = BatchBeforeSampling(c)
      /\ EmptyPipeline(d) = EmptyPipeline(c)
  BY <1>1, SamePipelines
<1>4. \A s \in Components : DOMAIN c[s] \subseteq DOMAIN d[s]
  BY <1>1
<1>5. UndefinedComponentRef(d) \subseteq UndefinedComponentRef(c)
  BY <1>1, <1>4, UndefinedShrinks DEF RefersToNothing, PipelineLists, Components
<1>6. MemoryLimiterWithoutLimits(d) \subseteq MemoryLimiterWithoutLimits(c)
        \/ "memory-limiter-without-limits" \in R
  <2> SUFFICES ASSUME NEW f \in MemoryLimiterWithoutLimits(d),
                      "memory-limiter-without-limits" \notin R
               PROVE  f \in MemoryLimiterWithoutLimits(c)
    OBVIOUS
  <2>1. PICK n \in DOMAIN d.processors :
               /\ ComponentType(n) = "memory_limiter"
               /\ DOMAIN d.processors[n] \cap {"limit_mib", "limit_percentage"} = {}
               /\ f = Finding("memory-limiter-without-limits", "processor", n)
    BY LimitlessIs
  <2>2. /\ n \in DOMAIN c.processors
        /\ DOMAIN c.processors[n] \cap {"limit_mib", "limit_percentage"} = {}
    <3>1. CASE section = "processors" /\ n = name
      <4>1. d.processors[n] = Over(settings, Setting(c.processors, name, NoSettings))
        BY <1>1, <3>1
      <4>2. n \in DOMAIN c.processors
        BY <1>2, <2>1, <3>1, <4>1
      <4>3. Setting(c.processors, name, NoSettings) = c.processors[n]
        BY <3>1, <4>2 DEF Setting
      <4> QED
        BY <1>2, <2>1, <3>1, <4>1, <4>2, <4>3
    <3>2. CASE ~(section = "processors" /\ n = name)
      BY <1>1, <2>1, <3>2 DEF Components
    <3> QED
      BY <3>1, <3>2
  <2> QED
    BY <2>1, <2>2, LimitlessIs
<1>7. ExporterInsecureTLS(d) \subseteq ExporterInsecureTLS(c)
  <2> SUFFICES ASSUME NEW n \in DOMAIN d.exporters, Setting(d.exporters[n], "tls_insecure", FALSE)
               PROVE  n \in DOMAIN c.exporters /\ Setting(c.exporters[n], "tls_insecure", FALSE)
    BY InsecureKept
  <2>1. CASE section = "exporters" /\ n = name
    <3>1. d.exporters[n] = Over(settings, Setting(c.exporters, name, NoSettings))
      BY <1>1, <2>1
    <3>2. "tls_insecure" \notin DOMAIN settings
      BY <2>1, <3>1 DEF Setting, Over
    <3>3. Setting(Setting(c.exporters, name, NoSettings), "tls_insecure", FALSE)
      BY <3>1, <3>2 DEF Setting, Over
    <3> QED
      BY <2>1, <3>3 DEF Setting, NoSettings
  <2>2. CASE ~(section = "exporters" /\ n = name)
    BY <1>1, <2>2 DEF Components
  <2> QED
    BY <2>1, <2>2
<1>8. DebugLogFeedbackLoop(d) \subseteq DebugLogFeedbackLoop(c) \/ "debug-log-feedback-loop" \in R
  <2> SUFFICES ASSUME NEW f \in DebugLogFeedbackLoop(d), "debug-log-feedback-loop" \notin R
               PROVE  f \in DebugLogFeedbackLoop(c)
    OBVIOUS
  <2>1. \A r \in DOMAIN d.receivers :
          ComponentType(r) \in {"filelog", "journald"} => r \in DOMAIN c.receivers
    BY <1>1 DEF Components
  <2> QED
    BY <1>1, <2>1, FeedbackIs
<1>9. (HasLoop(d) => HasLoop(c)) \/ "connector-loop" \in R
  <2>1. CASE section = "connectors"
    BY <2>1
  <2>2. CASE section # "connectors"
    <3>1. d.connectors = c.connectors
      BY <1>1, <2>2 DEF Components
    <3>2. Feeds(d) = Feeds(c)
      BY <1>1, <3>1 DEF Feeds
    <3> QED
      BY <3>2 DEF HasLoop
  <2> QED
    BY <2>1, <2>2
<1>10. Raised(c, d) \subseteq R
  BY <1>3, <1>5, <1>6, <1>7, <1>8, <1>9, RaisedBy
<1> QED
  BY <1>10 DEF d

(* What two edits raise is raised by one or the other.                     *)
LEMMA RaisedInTwoSteps ==
  ASSUME NEW c, NEW d, NEW e, NEW R, Raised(c, d) \subseteq R, Raised(d, e) \subseteq R
  PROVE  Raised(c, e) \subseteq R
<1>1. \A f \in AllRules(e) \ AllRules(c) : f.rule \in CriticalRules => f.rule \in R
  BY DEF Raised
<1>2. HasLoop(e) /\ ~HasLoop(c) => "connector-loop" \in R
  BY DEF Raised
<1> QED
  BY <1>1, <1>2 DEF Raised

(* The critical rules about the order of the processors of a pipeline.     *)
BatchFirst(s) ==
  LET batch == FirstOf(s, {"batch"})
      sampler == FirstOf(s, Samplers)
  IN  batch # 0 /\ sampler # 0 /\ batch < sampler

(* The list t of processors is in no critical way worse than s. *)
Gentle(s, t) ==
  /\ "memory_limiter" \in Types(s) => "memory_limiter" \in Types(t)
  /\ FirstOf(t, {"memory_limiter"}) > 1 => FirstOf(s, {"memory_limiter"}) > 1
  /\ BatchFirst(t) => BatchFirst(s)

OrderRules == {"missing-memory-limiter", "memory-limiter-not-first", "batch-before-sampling"}

(* If a list goes gently to another, these rules report no more.           *)
LEMMA OrderKept ==
  ASSUME NEW c, NEW d,
         \A n \in DOMAIN d.pipelines :
           n \in DOMAIN c.pipelines /\ Gentle(Processors(c, n), Processors(d, n))
  PROVE  /\ MissingMemoryLimiter(d) \subseteq MissingMemoryLimiter(c)
         /\ MemoryLimiterNotFirst(d) \subseteq MemoryLimiterNotFirst(c)
         /\ BatchBeforeSampling(d) \subseteq BatchBeforeSampling(c)
<1>1. MissingMemoryLimiter(d) \subseteq MissingMemoryLimiter(c)
  BY DEF Gentle, Processors, MissingMemoryLimiter, InPipelines
<1>2. MemoryLimiterNotFirst(d) \subseteq MemoryLimiterNotFirst(c)
  BY DEF Gentle, Processors, MemoryLimiterNotFirst, InPipelines
<1>3. BatchBeforeSampling(d) \subseteq BatchBeforeSampling(c)
  BY DEF Gentle, BatchFirst, Processors, BatchBeforeSampling, InPipelines
<1> QED
  BY <1>1, <1>2, <1>3

(* What the rule on empty pipelines reads.                                 *)
LEMMA EmptyIs ==
  ASSUME NEW c, NEW d,
         \A n \in DOMAIN d.pipelines : \A list \in {"receivers", "exporters"} :
           d.pipelines[n][list] = <<>> =>
             n \in DOMAIN c.pipelines /\ c.pipelines[n][list] = <<>>
  PROVE  EmptyPipeline(d) \subseteq EmptyPipeline(c)
BY DEF EmptyPipeline, AboutPipelines

LEMMA FeedbackKept ==
  ASSUME NEW c, NEW d,
         \A r \in DOMAIN d.receivers :
           ComponentType(r) \in {"filelog", "journald"} => r \in DOMAIN c.receivers,
         \A n \in DOMAIN d.pipelines :
           /\ n \in DOMAIN c.pipelines
           /\ c.pipelines[n].signal = d.pipelines[n].signal
           /\ Types(d.pipelines[n].exporters) \cap DebugTypes
                \subseteq Types(c.pipelines[n].exporters)
  PROVE  DebugLogFeedbackLoop(d) \subseteq DebugLogFeedbackLoop(c)
<1> SUFFICES ASSUME NEW f \in DebugLogFeedbackLoop(d) PROVE f \in DebugLogFeedbackLoop(c)
  OBVIOUS
<1>1. PICK n \in DOMAIN d.pipelines :
        /\ \E r \in DOMAIN d.receivers : ComponentType(r) \in {"filelog", "journald"}
        /\ d.pipelines[n].signal = "logs"
        /\ Types(d.pipelines[n].exporters) \cap DebugTypes # {}
        /\ f = Finding("debug-log-feedback-loop", "pipeline", n)
  BY DEF DebugLogFeedbackLoop, InPipelines
<1> QED
  BY <1>1, FeedbackIs

(* The types in a list.                                                    *)
LEMMA TypesOf ==
  ASSUME NEW s, NEW t, ToSet(s) \subseteq ToSet(t)
  PROVE  Types(s) \subseteq Types(t)
BY DEF Types, ToSet

(* What a new list of processors or exporters may raise.                   *)
LEMMA ListsRaise ==
  ASSUME NEW c, IsConfig(c), NEW p \in DOMAIN c.pipelines, NEW list \in PipelineLists,
         NEW S, NEW t \in Seq(S), NEW R,
         \/ list # "processors" \/ Gentle(Processors(c, p), t) \/ OrderRules \subseteq R,
         \/ ToSet(t) \subseteq ToSet(c.pipelines[p][list]) \cup DOMAIN c[list]
         \/ "undefined-component-ref" \in R,
         \/ list = "processors" \/ t # <<>> \/ "empty-pipeline" \in R,
         \/ list # "exporters"
         \/ Types(t) \cap DebugTypes \subseteq Types(c.pipelines[p][list]),
         \/ list = "processors" \/ ToSet(t) \subseteq ToSet(c.pipelines[p][list])
         \/ "connector-loop" \in R
  PROVE  Raised(c, Lists(c, p, list, t)) \subseteq R
<1> DEFINE d == Lists(c, p, list, t)
<1>1. /\ IsConfig(d)
      /\ \A s \in Components : d[s] = c[s]
      /\ DOMAIN d.pipelines = DOMAIN c.pipelines
      /\ \A q \in DOMAIN c.pipelines \ {p} : d.pipelines[q] = c.pipelines[q]
      /\ d.pipelines[p].signal = c.pipelines[p].signal
      /\ d.pipelines[p][list] = t
      /\ \A l \in PipelineLists \ {list} : d.pipelines[p][l] = c.pipelines[p][l]
  BY ListsShape
<1> HIDE DEF d
<1>2. \/ OrderRules \subseteq R
      \/ /\ MissingMemoryLimiter(d) \subseteq MissingMemoryLimiter(c)
         /\ MemoryLimiterNotFirst(d) \subseteq MemoryLimiterNotFirst(c)
         /\ BatchBeforeSampling(d) \subseteq BatchBeforeSampling(c)
  <2> SUFFICES ASSUME ~(OrderRules \subseteq R)
               PROVE  \A n \in DOMAIN d.pipelines :
                        /\ n \in DOMAIN c.pipelines
                        /\ Gentle(Processors(c, n), Processors(d, n))
    BY OrderKept
  <2> TAKE n \in DOMAIN d.pipelines
  <2>1. CASE n = p /\ list = "processors"
    BY <1>1, <2>1 DEF Processors
  <2>2. CASE n # p \/ list # "processors"
    <3>1. Processors(d, n) = Processors(c, n)
      BY <1>1, <2>2 DEF Processors, PipelineLists
    <3> QED
      BY <1>1, <3>1 DEF Gentle
  <2> QED
    BY <2>1, <2>2
<1>3. UndefinedComponentRef(d) \subseteq UndefinedComponentRef(c) \/ "undefined-component-ref" \in R
  <2> SUFFICES ASSUME "undefined-component-ref" \notin R,
                      NEW n, NEW l, NEW x, RefersToNothing(d, n, l, x)
               PROVE  RefersToNothing(c, n, l, x)
    BY UndefinedShrinks
  <2>1. /\ n \in DOMAIN c.pipelines /\ l \in PipelineLists /\ x \notin DOMAIN c[l]
        /\ l # "processors" => x \notin DOMAIN c.connectors
    BY <1>1 DEF RefersToNothing, PipelineLists, Components
  <2>2. x \in ToSet(d.pipelines[n][l])
    BY DEF RefersToNothing
  <2>3. x \in ToSet(c.pipelines[n][l])
    <3>1. CASE n = p /\ l = list
      BY <1>1, <2>1, <2>2, <3>1
    <3>2. CASE n # p \/ l # list
      BY <1>1, <2>1, <2>2, <3>2
    <3> QED
      BY <3>1, <3>2
  <2> QED
    BY <2>1, <2>3 DEF RefersToNothing
<1>4. EmptyPipeline(d) \subseteq EmptyPipeline(c) \/ "empty-pipeline" \in R
  <2> SUFFICES ASSUME "empty-pipeline" \notin R,
                      NEW n \in DOMAIN d.pipelines, NEW l \in {"receivers", "exporters"},
                      d.pipelines[n][l] = <<>>
               PROVE  n \in DOMAIN c.pipelines /\ c.pipelines[n][l] = <<>>
    BY EmptyIs
  <2> QED
    BY <1>1 DEF PipelineLists
<1>5. d.processors = c.processors /\ d.exporters = c.exporters /\ d.receivers = c.receivers
      /\ d.connectors = c.connectors
  BY <1>1 DEF Components
<1>6. MemoryLimiterWithoutLimits(d) = MemoryLimiterWithoutLimits(c)
  BY <1>5 DEF MemoryLimiterWithoutLimits
<1>7. ExporterInsecureTLS(d) \subseteq ExporterInsecureTLS(c)
  BY <1>5, InsecureKept
<1>8. DebugLogFeedbackLoop(d) \subseteq DebugLogFeedbackLoop(c)
  <2>1. \A n \in DOMAIN d.pipelines :
          /\ n \in DOMAIN c.pipelines
          /\ c.pipelines[n].signal = d.pipelines[n].signal
          /\ Types(d.pipelines[n].exporters) \cap DebugTypes
               \subseteq Types(c.pipelines[n].exporters)
    BY <1>1 DEF PipelineLists
  <2> QED
    BY <1>5, <2>1, FeedbackKept
<1>9. (HasLoop(d) => HasLoop(c)) \/ "connector-loop" \in R
  <2> SUFFICES ASSUME "connector-loop" \notin R,
                      NEW u \in DOMAIN d.pipelines
               PROVE  u \in DOMAIN c.pipelines /\ Feeds(d)[u] \subseteq Feeds(c)[u]
    BY LoopsGrow
  <2>1. \A q \in DOMAIN c.pipelines :
          /\ ToSet(d.pipelines[q].exporters) \subseteq ToSet(c.pipelines[q].exporters)
          /\ ToSet(d.pipelines[q].receivers) \subseteq ToSet(c.pipelines[q].receivers)
    BY <1>1 DEF PipelineLists
  <2> QED
    BY <1>1, <1>5, <2>1 DEF Feeds
<1>10. Raised(c, d) \subseteq R
  BY <1>2, <1>3, <1>4, <1>6, <1>7, <1>8, <1>9, RaisedBy DEF OrderRules
<1> QED
  BY <1>10 DEF d

-----------------------------------------------------------------------------
(* Static advice: what is shown of the advice of each rule *)

(* What advice is given on.                                                *)
Usable(c) == IsConfig(c) /\ DOMAIN c.pipelines \subseteq Pipeline

(* What is to be shown of an edit from c to d on account of finding f.     *)
GoodAdvice(c, f, d) ==
  /\ Usable(d)
  /\ Raised(c, d) \subseteq Raises(f.rule)
  /\ Unaddressed(f, c, d) \/ f \notin AllRules(d)

Has(c, section, name) == name \in DOMAIN c[section]

(* The result of a merge, as the proofs about rules use it.                *)
MergedInto(c, d, section, name, settings) ==
  /\ Usable(d)
  /\ d.pipelines = c.pipelines /\ d.serviceExtensions = c.serviceExtensions
  /\ \A s \in Components \ {section} : d[s] = c[s]
  /\ DOMAIN d[section] = DOMAIN c[section] \cup {name}
  /\ \A n \in DOMAIN c[section] \ {name} : d[section][n] = c[section][n]
  /\ d[section][name] = Over(settings, Setting(c[section], name, NoSettings))

(* A merge has this result.                                                *)
LEMMA MergeIs ==
  ASSUME NEW c, Usable(c), NEW section, section \in Components, NEW name, NEW settings,
         section = "receivers" => IntervalsAre(settings)
  PROVE  MergedInto(c, Merge(c, section, name, settings), section, name, settings)
<1> DEFINE d == Merge(c, section, name, settings)
<1>1. /\ IsConfig(d)
      /\ d.pipelines = c.pipelines /\ d.serviceExtensions = c.serviceExtensions
      /\ \A s \in Components \ {section} : d[s] = c[s]
      /\ DOMAIN d[section] = DOMAIN c[section] \cup {name}
      /\ \A n \in DOMAIN c[section] \ {name} : d[section][n] = c[section][n]
      /\ d[section][name] = Over(settings, Setting(c[section], name, NoSettings))
  BY MergeShape DEF Usable
<1> HIDE DEF d
<1>2. Usable(d)
  BY <1>1 DEF Usable
<1>3. MergedInto(c, d, section, name, settings)
  BY <1>1, <1>2 DEF MergedInto
<1> QED
  BY <1>3 DEF d

(* A snippet with settings of a component that is there.                   *)
LEMMA SettingsAdvice ==
  ASSUME NEW c, Usable(c), NEW section, section \in Components, section # "connectors",
         NEW name, Has(c, section, name), NEW settings,
         section = "receivers" => IntervalsAre(settings),
         "tls_insecure" \notin DOMAIN settings \/ settings["tls_insecure"] = FALSE
  PROVE  /\ MergedInto(c, Merge(c, section, name, settings), section, name, settings)
         /\ Raised(c, Merge(c, section, name, settings)) = {}
<1>1. MergedInto(c, Merge(c, section, name, settings), section, name, settings)
  BY MergeIs
<1>2. IsConfig(c)
  BY DEF Usable
<1>3. section = "processors" => name \in DOMAIN c.processors
  BY DEF Has
<1>4. section = "receivers" => name \in DOMAIN c.receivers
  BY DEF Has
<1>5. Raised(c, Merge(c, section, name, settings)) \subseteq {}
  BY <1>2, <1>3, <1>4, MergeRaises
<1> QED
  BY <1>1, <1>5

-----------------------------------------------------------------------------
(* Static advice: a component gets settings *)

(* Advice that gives a component settings: the rule reads what was         *)
(* written.                                                                *)
LEMMA LimitsAdvice ==
  ASSUME NEW c, Usable(c), NEW f \in AllRules(c), f.rule = "memory-limiter-without-limits",
         NEW d \in Advice(c, f)
  PROVE  GoodAdvice(c, f, d)
<1>1. d = Merge(c, "processors", f.name, MemoryLimits)
  BY DEF Advice, Processor
<1>2. \A e, g : g \in MemoryLimiterWithoutLimits(e) =>
        /\ g.name \in DOMAIN e.processors
        /\ DOMAIN e.processors[g.name] \cap {"limit_mib", "limit_percentage"} = {}
  BY DEF MemoryLimiterWithoutLimits, InComponents, Finding, FindingAbout
<1>3. f.name \in DOMAIN c.processors
  BY <1>2, OfRule
<1>4. DOMAIN MemoryLimits = {"limit_mib"}
  BY DEF MemoryLimits
<1>5. Has(c, "processors", f.name) /\ "processors" \in Components
  BY <1>3 DEF Has, Components
<1>6. MergedInto(c, d, "processors", f.name, MemoryLimits) /\ Raised(c, d) = {}
  BY <1>1, <1>4, <1>5, SettingsAdvice
<1>7. /\ Usable(d) /\ Raised(c, d) = {}
      /\ d.processors[f.name] = Over(MemoryLimits, c.processors[f.name])
  BY <1>3, <1>6 DEF MergedInto, Setting
<1>8. "limit_mib" \in DOMAIN d.processors[f.name]
  BY <1>4, <1>7 DEF Over
<1>9. f \notin AllRules(d)
  BY <1>2, <1>8, OfRule
<1> QED
  BY <1>7, <1>9 DEF GoodAdvice

LEMMA ErrorModeAdvice ==
  ASSUME NEW c, Usable(c), NEW f \in AllRules(c), f.rule = "filter-error-mode-propagate",
         NEW d \in Advice(c, f)
  PROVE  GoodAdvice(c, f, d)
<1> DEFINE settings == [error_mode |-> "ignore"]
<1>1. d = Merge(c, "processors", f.name, settings)
  BY DEF Advice, Processor
<1>2. \A e, g : g \in FilterErrorModePropagate(e) =>
        /\ g.name \in DOMAIN e.processors
        /\ Setting(e.processors[g.name], "error_mode", "propagate") = "propagate"
  BY DEF FilterErrorModePropagate, InComponents, Finding, FindingAbout
<1>3. f.name \in DOMAIN c.processors
  BY <1>2, OfRule
<1>4. DOMAIN settings = {"error_mode"} /\ settings["error_mode"] = "ignore"
  OBVIOUS
<1> HIDE DEF settings
<1>5. Has(c, "processors", f.name) /\ "processors" \in Components
  BY <1>3 DEF Has, Components
<1>6. MergedInto(c, d, "processors", f.name, settings) /\ Raised(c, d) = {}
  BY <1>1, <1>4, <1>5, SettingsAdvice
<1>7. /\ Usable(d) /\ Raised(c, d) = {}
      /\ d.processors[f.name] = Over(settings, c.processors[f.name])
  BY <1>3, <1>6 DEF MergedInto, Setting
<1>8. Setting(d.processors[f.name], "error_mode", "propagate") = "ignore"
  BY <1>4, <1>7 DEF Over, Setting
<1>9. f \notin AllRules(d)
  BY <1>2, <1>8, OfRule
<1> QED
  BY <1>7, <1>9 DEF GoodAdvice

LEMMA QueueAdvice ==
  ASSUME NEW c, Usable(c), NEW f \in AllRules(c), f.rule = "exporter-no-sending-queue",
         NEW d \in Advice(c, f)
  PROVE  GoodAdvice(c, f, d)
<1> DEFINE settings == [sending_queue_enabled |-> TRUE, sending_queue_queue_size |-> 5000]
<1>1. d = Merge(c, "exporters", f.name, settings)
  BY DEF Advice, Exporter
<1>2. \A e, g : g \in ExporterNoSendingQueue(e) =>
        /\ g.name \in DOMAIN e.exporters
        /\ ~Setting(e.exporters[g.name], "sending_queue_enabled", FALSE)
  <2> SUFFICES ASSUME NEW e, NEW g \in ExporterNoSendingQueue(e)
               PROVE  g.name \in DOMAIN e.exporters /\ ~Setting(e.exporters[g.name], "sending_queue_enabled", FALSE)
    OBVIOUS
  <2>1. PICK n \in DOMAIN e.exporters :
          g = Finding("exporter-no-sending-queue", "exporter", n) /\ ~Setting(e.exporters[n], "sending_queue_enabled", FALSE)
    BY Zenon DEF ExporterNoSendingQueue, InExporters, InComponents
  <2>2. g.name = n
    <3>1. g = Finding("exporter-no-sending-queue", "exporter", n)
      BY <2>1
    <3> QED
      BY <3>1, NamesOfFindings
  <2> QED
    BY Zenon, <2>1, <2>2
<1>3. f.name \in DOMAIN c.exporters
  BY <1>2, OfRule
<1>4. /\ DOMAIN settings = {"sending_queue_enabled", "sending_queue_queue_size"}
      /\ settings["sending_queue_enabled"] = TRUE /\ settings["sending_queue_queue_size"] = 5000
  OBVIOUS
<1> HIDE DEF settings
<1>5. "tls_insecure" \notin DOMAIN settings \/ settings["tls_insecure"] = FALSE
  BY <1>4
<1>6. Has(c, "exporters", f.name) /\ "exporters" \in Components
  BY <1>3 DEF Has, Components
<1>7. MergedInto(c, d, "exporters", f.name, settings) /\ Raised(c, d) = {}
  BY <1>1, <1>5, <1>6, SettingsAdvice
<1>8. Usable(d) /\ d.exporters[f.name] = Over(settings, c.exporters[f.name])
  BY <1>3, <1>7 DEF MergedInto, Setting
<1>9. Setting(d.exporters[f.name], "sending_queue_enabled", FALSE)
  BY <1>4, <1>8 DEF Over, Setting
<1>10. f \notin AllRules(d)
  BY <1>2, <1>9, OfRule
<1> QED
  BY <1>7, <1>8, <1>10 DEF GoodAdvice

LEMMA QueueSizeAdvice ==
  ASSUME NEW c, Usable(c), NEW f \in AllRules(c), f.rule = "sending-queue-too-small",
         NEW d \in Advice(c, f)
  PROVE  GoodAdvice(c, f, d)
<1> DEFINE settings == [sending_queue_enabled |-> TRUE, sending_queue_queue_size |-> 5000]
<1>1. d = Merge(c, "exporters", f.name, settings)
  BY DEF Advice, Exporter
<1>2. \A e, g : g \in SendingQueueTooSmall(e) =>
        /\ g.name \in DOMAIN e.exporters
        /\ Setting(e.exporters[g.name], "sending_queue_queue_size", -1) \in 1 .. 499
  <2> SUFFICES ASSUME NEW e, NEW g \in SendingQueueTooSmall(e)
               PROVE  g.name \in DOMAIN e.exporters /\ Setting(e.exporters[g.name], "sending_queue_queue_size", -1) \in 1 .. 499
    OBVIOUS
  <2>1. PICK n \in DOMAIN e.exporters :
          g = Finding("sending-queue-too-small", "exporter", n) /\ Setting(e.exporters[n], "sending_queue_queue_size", -1) \in 1 .. 499
    BY Zenon DEF SendingQueueTooSmall, InExporters, InComponents
  <2>2. g.name = n
    <3>1. g = Finding("sending-queue-too-small", "exporter", n)
      BY <2>1
    <3> QED
      BY <3>1, NamesOfFindings
  <2> QED
    BY Zenon, <2>1, <2>2
<1>3. f.name \in DOMAIN c.exporters
  BY <1>2, OfRule
<1>4. /\ DOMAIN settings = {"sending_queue_enabled", "sending_queue_queue_size"}
      /\ settings["sending_queue_enabled"] = TRUE /\ settings["sending_queue_queue_size"] = 5000
  OBVIOUS
<1> HIDE DEF settings
<1>5. "tls_insecure" \notin DOMAIN settings \/ settings["tls_insecure"] = FALSE
  BY <1>4
<1>6. Has(c, "exporters", f.name) /\ "exporters" \in Components
  BY <1>3 DEF Has, Components
<1>7. MergedInto(c, d, "exporters", f.name, settings) /\ Raised(c, d) = {}
  BY <1>1, <1>5, <1>6, SettingsAdvice
<1>8. Usable(d) /\ d.exporters[f.name] = Over(settings, c.exporters[f.name])
  BY <1>3, <1>7 DEF MergedInto, Setting
<1>9. Setting(d.exporters[f.name], "sending_queue_queue_size", -1) \notin 1 .. 499
  BY <1>4, <1>8 DEF Over, Setting
<1>10. f \notin AllRules(d)
  BY <1>2, <1>9, OfRule
<1> QED
  BY <1>7, <1>8, <1>10 DEF GoodAdvice

LEMMA RetryAdvice ==
  ASSUME NEW c, Usable(c), NEW f \in AllRules(c), f.rule = "exporter-no-retry",
         NEW d \in Advice(c, f)
  PROVE  GoodAdvice(c, f, d)
<1> DEFINE settings == [retry_on_failure_enabled |-> TRUE]
<1>1. d = Merge(c, "exporters", f.name, settings)
  BY DEF Advice, Exporter
<1>2. \A e, g : g \in ExporterNoRetry(e) =>
        /\ g.name \in DOMAIN e.exporters
        /\ ~Setting(e.exporters[g.name], "retry_on_failure_enabled", FALSE)
  <2> SUFFICES ASSUME NEW e, NEW g \in ExporterNoRetry(e)
               PROVE  g.name \in DOMAIN e.exporters /\ ~Setting(e.exporters[g.name], "retry_on_failure_enabled", FALSE)
    OBVIOUS
  <2>1. PICK n \in DOMAIN e.exporters :
          g = Finding("exporter-no-retry", "exporter", n) /\ ~Setting(e.exporters[n], "retry_on_failure_enabled", FALSE)
    BY Zenon DEF ExporterNoRetry, InExporters, InComponents
  <2>2. g.name = n
    <3>1. g = Finding("exporter-no-retry", "exporter", n)
      BY <2>1
    <3> QED
      BY <3>1, NamesOfFindings
  <2> QED
    BY Zenon, <2>1, <2>2
<1>3. f.name \in DOMAIN c.exporters
  BY <1>2, OfRule
<1>4. DOMAIN settings = {"retry_on_failure_enabled"} /\ settings["retry_on_failure_enabled"] = TRUE
  OBVIOUS
<1> HIDE DEF settings
<1>5. "tls_insecure" \notin DOMAIN settings \/ settings["tls_insecure"] = FALSE
  BY <1>4
<1>6. Has(c, "exporters", f.name) /\ "exporters" \in Components
  BY <1>3 DEF Has, Components
<1>7. MergedInto(c, d, "exporters", f.name, settings) /\ Raised(c, d) = {}
  BY <1>1, <1>5, <1>6, SettingsAdvice
<1>8. Usable(d) /\ d.exporters[f.name] = Over(settings, c.exporters[f.name])
  BY <1>3, <1>7 DEF MergedInto, Setting
<1>9. Setting(d.exporters[f.name], "retry_on_failure_enabled", FALSE)
  BY <1>4, <1>8 DEF Over, Setting
<1>10. f \notin AllRules(d)
  BY <1>2, <1>9, OfRule
<1> QED
  BY <1>7, <1>8, <1>10 DEF GoodAdvice

LEMMA TLSAdvice ==
  ASSUME NEW c, Usable(c), NEW f \in AllRules(c), f.rule = "exporter-insecure-tls",
         NEW d \in Advice(c, f)
  PROVE  GoodAdvice(c, f, d)
<1> DEFINE settings == [tls_insecure |-> FALSE]
<1>1. d = Merge(c, "exporters", f.name, settings)
  BY DEF Advice, Exporter
<1>2. \A e, g : g \in ExporterInsecureTLS(e) =>
        /\ g.name \in DOMAIN e.exporters
        /\ Setting(e.exporters[g.name], "tls_insecure", FALSE)
  <2> SUFFICES ASSUME NEW e, NEW g \in ExporterInsecureTLS(e)
               PROVE  g.name \in DOMAIN e.exporters /\ Setting(e.exporters[g.name], "tls_insecure", FALSE)
    OBVIOUS
  <2>1. PICK n \in DOMAIN e.exporters :
          g = Finding("exporter-insecure-tls", "exporter", n) /\ Setting(e.exporters[n], "tls_insecure", FALSE)
    BY Zenon DEF ExporterInsecureTLS, InExporters, InComponents
  <2>2. g.name = n
    <3>1. g = Finding("exporter-insecure-tls", "exporter", n)
      BY <2>1
    <3> QED
      BY <3>1, NamesOfFindings
  <2> QED
    BY Zenon, <2>1, <2>2
<1>3. f.name \in DOMAIN c.exporters
  BY <1>2, OfRule
<1>4. DOMAIN settings = {"tls_insecure"} /\ settings["tls_insecure"] = FALSE
  OBVIOUS
<1> HIDE DEF settings
<1>5. "tls_insecure" \notin DOMAIN settings \/ settings["tls_insecure"] = FALSE
  BY <1>4
<1>6. Has(c, "exporters", f.name) /\ "exporters" \in Components
  BY <1>3 DEF Has, Components
<1>7. MergedInto(c, d, "exporters", f.name, settings) /\ Raised(c, d) = {}
  BY <1>1, <1>5, <1>6, SettingsAdvice
<1>8. Usable(d) /\ d.exporters[f.name] = Over(settings, c.exporters[f.name])
  BY <1>3, <1>7 DEF MergedInto, Setting
<1>9. ~Setting(d.exporters[f.name], "tls_insecure", FALSE)
  BY <1>4, <1>8 DEF Over, Setting
<1>10. f \notin AllRules(d)
  BY <1>2, <1>9, OfRule
<1> QED
  BY <1>7, <1>8, <1>10 DEF GoodAdvice

LEMMA BackendAdvice ==
  ASSUME NEW c, Usable(c), NEW f \in AllRules(c), f.rule = "exporter-endpoint-localhost",
         NEW d \in Advice(c, f)
  PROVE  GoodAdvice(c, f, d)
<1> DEFINE settings == [endpoint |-> <<"backend", 4317>>]
<1>1. d = Merge(c, "exporters", f.name, settings)
  BY DEF Advice, Exporter
<1>2. \A e, g : g \in ExporterEndpointLocalhost(e) =>
        /\ g.name \in DOMAIN e.exporters
        /\ IsLocalhost(e.exporters[g.name]["endpoint"])
  <2> SUFFICES ASSUME NEW e, NEW g \in ExporterEndpointLocalhost(e)
               PROVE  g.name \in DOMAIN e.exporters /\ IsLocalhost(e.exporters[g.name]["endpoint"])
    OBVIOUS
  <2>1. PICK n \in DOMAIN e.exporters :
          g = Finding("exporter-endpoint-localhost", "exporter", n) /\ IsLocalhost(e.exporters[n]["endpoint"])
    BY Zenon DEF ExporterEndpointLocalhost, InExporters, InComponents
  <2>2. g.name = n
    <3>1. g = Finding("exporter-endpoint-localhost", "exporter", n)
      BY <2>1
    <3> QED
      BY <3>1, NamesOfFindings
  <2> QED
    BY Zenon, <2>1, <2>2
<1>3. f.name \in DOMAIN c.exporters
  BY <1>2, OfRule
<1>4. DOMAIN settings = {"endpoint"} /\ settings["endpoint"] = <<"backend", 4317>>
  OBVIOUS
<1> HIDE DEF settings
<1>5. "tls_insecure" \notin DOMAIN settings \/ settings["tls_insecure"] = FALSE
  BY <1>4
<1>6. Has(c, "exporters", f.name) /\ "exporters" \in Components
  BY <1>3 DEF Has, Components
<1>7. MergedInto(c, d, "exporters", f.name, settings) /\ Raised(c, d) = {}
  BY <1>1, <1>5, <1>6, SettingsAdvice
<1>8. Usable(d) /\ d.exporters[f.name] = Over(settings, c.exporters[f.name])
  BY <1>3, <1>7 DEF MergedInto, Setting
<1>9. ~IsLocalhost(d.exporters[f.name]["endpoint"])
  BY <1>4, <1>8 DEF Over, Setting, IsLocalhost
<1>10. f \notin AllRules(d)
  BY <1>2, <1>9, OfRule
<1> QED
  BY <1>7, <1>8, <1>10 DEF GoodAdvice

LEMMA CompressionAdvice ==
  ASSUME NEW c, Usable(c), NEW f \in AllRules(c), f.rule = "exporter-no-compression",
         NEW d \in Advice(c, f)
  PROVE  GoodAdvice(c, f, d)
<1> DEFINE settings == [compression |-> "gzip"]
<1>1. d = Merge(c, "exporters", f.name, settings)
  BY DEF Advice, Exporter
<1>2. \A e, g : g \in ExporterNoCompression(e) =>
        /\ g.name \in DOMAIN e.exporters
        /\ Setting(e.exporters[g.name], "compression", "gzip") \in {"none", ""}
  <2> SUFFICES ASSUME NEW e, NEW g \in ExporterNoCompression(e)
               PROVE  g.name \in DOMAIN e.exporters /\ Setting(e.exporters[g.name], "compression", "gzip") \in {"none", ""}
    OBVIOUS
  <2>1. PICK n \in DOMAIN e.exporters :
          g = Finding("exporter-no-compression", "exporter", n) /\ Setting(e.exporters[n], "compression", "gzip") \in {"none", ""}
    BY Zenon DEF ExporterNoCompression, InExporters, InComponents
  <2>2. g.name = n
    <3>1. g = Finding("exporter-no-compression", "exporter", n)
      BY <2>1
    <3> QED
      BY <3>1, NamesOfFindings
  <2> QED
    BY Zenon, <2>1, <2>2
<1>3. f.name \in DOMAIN c.exporters
  BY <1>2, OfRule
<1>4. DOMAIN settings = {"compression"} /\ settings["compression"] = "gzip"
  OBVIOUS
<1> HIDE DEF settings
<1>5. "tls_insecure" \notin DOMAIN settings \/ settings["tls_insecure"] = FALSE
  BY <1>4
<1>6. Has(c, "exporters", f.name) /\ "exporters" \in Components
  BY <1>3 DEF Has, Components
<1>7. MergedInto(c, d, "exporters", f.name, settings) /\ Raised(c, d) = {}
  BY <1>1, <1>5, <1>6, SettingsAdvice
<1>8. Usable(d) /\ d.exporters[f.name] = Over(settings, c.exporters[f.name])
  BY <1>3, <1>7 DEF MergedInto, Setting
<1>9. Setting(d.exporters[f.name], "compression", "gzip") \notin {"none", ""}
  BY <1>4, <1>8 DEF Over, Setting
<1>10. f \notin AllRules(d)
  BY <1>2, <1>9, OfRule
<1> QED
  BY <1>7, <1>8, <1>10 DEF GoodAdvice

LEMMA TimeoutAdvice ==
  ASSUME NEW c, Usable(c), NEW f \in AllRules(c), f.rule = "exporter-timeout-too-low",
         NEW d \in Advice(c, f)
  PROVE  GoodAdvice(c, f, d)
<1> DEFINE settings == [timeout |-> 30]
<1>1. d = Merge(c, "exporters", f.name, settings)
  BY DEF Advice, Exporter
<1>2. \A e, g : g \in ExporterTimeoutTooLow(e) =>
        /\ g.name \in DOMAIN e.exporters
        /\ Setting(e.exporters[g.name], "timeout", 0) < 10
  <2> SUFFICES ASSUME NEW e, NEW g \in ExporterTimeoutTooLow(e)
               PROVE  g.name \in DOMAIN e.exporters /\ Setting(e.exporters[g.name], "timeout", 0) < 10
    OBVIOUS
  <2>1. PICK n \in DOMAIN e.exporters :
          g = Finding("exporter-timeout-too-low", "exporter", n) /\ Setting(e.exporters[n], "timeout", 0) < 10
    BY Zenon DEF ExporterTimeoutTooLow, InExporters, InComponents
  <2>2. g.name = n
    <3>1. g = Finding("exporter-timeout-too-low", "exporter", n)
      BY <2>1
    <3> QED
      BY <3>1, NamesOfFindings
  <2> QED
    BY Zenon, <2>1, <2>2
<1>3. f.name \in DOMAIN c.exporters
  BY <1>2, OfRule
<1>4. DOMAIN settings = {"timeout"} /\ settings["timeout"] = 30
  OBVIOUS
<1> HIDE DEF settings
<1>5. "tls_insecure" \notin DOMAIN settings \/ settings["tls_insecure"] = FALSE
  BY <1>4
<1>6. Has(c, "exporters", f.name) /\ "exporters" \in Components
  BY <1>3 DEF Has, Components
<1>7. MergedInto(c, d, "exporters", f.name, settings) /\ Raised(c, d) = {}
  BY <1>1, <1>5, <1>6, SettingsAdvice
<1>8. Usable(d) /\ d.exporters[f.name] = Over(settings, c.exporters[f.name])
  BY <1>3, <1>7 DEF MergedInto, Setting
<1>9. ~(Setting(d.exporters[f.name], "timeout", 0) < 10)
  BY <1>4, <1>8 DEF Over, Setting
<1>10. f \notin AllRules(d)
  BY <1>2, <1>9, OfRule
<1> QED
  BY <1>7, <1>8, <1>10 DEF GoodAdvice

LEMMA FilesystemAdvice ==
  ASSUME NEW c, Usable(c), NEW f \in AllRules(c), f.rule = "filesystem-scraper-no-exclusions",
         NEW d \in Advice(c, f)
  PROVE  GoodAdvice(c, f, d)
<1> DEFINE settings == [scrapers_filesystem |-> {"exclude_mount_points", "exclude_fs_types"}]
<1>1. d = Merge(c, "receivers", f.name, settings)
  BY DEF Advice
<1>2. \A e, g : g \in FilesystemScraperNoExclusions(e) =>
        /\ g.name \in DOMAIN e.receivers
        /\ e.receivers[g.name]["scrapers_filesystem"]
             \cap {"exclude_mount_points", "exclude_fs_types"} = {}
  BY DEF FilesystemScraperNoExclusions, InComponents, Finding, FindingAbout
<1>3. Has(c, "receivers", f.name) /\ "receivers" \in Components
  BY <1>2, OfRule DEF Has, Components
<1>4. /\ DOMAIN settings = {"scrapers_filesystem"}
      /\ settings["scrapers_filesystem"] = {"exclude_mount_points", "exclude_fs_types"}
  OBVIOUS
<1> HIDE DEF settings
<1>5. "tls_insecure" \notin DOMAIN settings /\ IntervalsAre(settings)
  BY <1>4 DEF IntervalsAre, PrometheusIntervals, HostMetricsInterval, Setting
<1>6. MergedInto(c, d, "receivers", f.name, settings) /\ Raised(c, d) = {}
  BY <1>1, <1>3, <1>5, SettingsAdvice
<1>7. Usable(d) /\ d.receivers[f.name] = Over(settings, c.receivers[f.name])
  BY <1>3, <1>6 DEF MergedInto, Setting, Has
<1>8. d.receivers[f.name]["scrapers_filesystem"] = {"exclude_mount_points", "exclude_fs_types"}
  BY <1>4, <1>7 DEF Over
<1>9. f \notin AllRules(d)
  BY <1>2, <1>8, OfRule
<1> QED
  BY <1>6, <1>7, <1>9 DEF GoodAdvice

LEMMA BindAdvice ==
  ASSUME NEW c, Usable(c), NEW f \in AllRules(c), f.rule = "receiver-endpoint-wildcard",
         NEW d \in Advice(c, f)
  PROVE  GoodAdvice(c, f, d)
<1> DEFINE ep == Localhost(f.about)
           http == IF ep[2] = 4317 THEN <<ep[1], 4318>> ELSE ep
           settings == IF ComponentType(f.name) = "otlp"
                       THEN [grpc_endpoint |-> ep, http_endpoint |-> http] ELSE [endpoint |-> ep]
           written == IF ComponentType(f.name) = "otlp"
                      THEN {"grpc_endpoint", "http_endpoint"} ELSE {"endpoint"}
<1>1. d = Merge(c, "receivers", f.name, settings)
  BY DEF Advice, BindReceiverLocally
<1>2. \A e, g : g \in ReceiverEndpointWildcard(e) =>
        /\ g.name \in DOMAIN e.receivers
        /\ g.about \in Endpoints(e.receivers[g.name]) /\ g.about[1] = "0.0.0.0"
  BY DEF ReceiverEndpointWildcard, AboutReceivers, FindingAbout
<1>3. Has(c, "receivers", f.name) /\ "receivers" \in Components
  BY <1>2, OfRule DEF Has, Components
<1>4. DOMAIN settings = written /\ \A k \in DOMAIN settings : settings[k][1] = "localhost"
  BY DEF Localhost
<1>5. "tls_insecure" \notin DOMAIN settings /\ IntervalsAre(settings)
  <2>1. DOMAIN settings \cap {"tls_insecure", "scrape_intervals", "collection_interval"} = {}
    BY <1>4
  <2> HIDE DEF settings
  <2> QED
    BY <2>1 DEF IntervalsAre, PrometheusIntervals, HostMetricsInterval, Setting
<1> HIDE DEF settings
<1>6. MergedInto(c, d, "receivers", f.name, settings) /\ Raised(c, d) = {}
  BY <1>1, <1>3, <1>5, SettingsAdvice
<1>7. Usable(d) /\ d.receivers[f.name] = Over(settings, c.receivers[f.name])
  BY <1>3, <1>6 DEF MergedInto, Setting, Has
<1>8. ASSUME f \in AllRules(d)
      PROVE  f.about \in OutOfReach("receivers", f.name, c.receivers[f.name])
  <2>1. f.about \in Endpoints(d.receivers[f.name]) /\ f.about[1] = "0.0.0.0"
    BY <1>2, <1>8, OfRule
  <2>2. PICK k \in DOMAIN d.receivers[f.name] \cap EndpointSettings :
          f.about = d.receivers[f.name][k]
    BY <2>1 DEF Endpoints
  <2>3. k \notin DOMAIN settings
    BY <1>4, <1>7, <2>1, <2>2 DEF Over
  <2>4. k \in DOMAIN c.receivers[f.name] /\ f.about = c.receivers[f.name][k]
    BY <1>7, <2>2, <2>3 DEF Over
  <2> QED
    BY <1>4, <2>2, <2>3, <2>4 DEF OutOfReach
<1>9. Unaddressed(f, c, d) \/ f \notin AllRules(d)
  BY <1>8 DEF Unaddressed
<1> QED
  BY <1>6, <1>7, <1>9 DEF GoodAdvice

LEMMA ExposedAdvice ==
  ASSUME NEW c, Usable(c), NEW f \in AllRules(c), f.rule = "extension-endpoint-exposed",
         NEW d \in Advice(c, f)
  PROVE  GoodAdvice(c, f, d)
<1>1. PICK ep : d = Merge(c, "extensions", f.name, [endpoint |-> Localhost(ep)])
  BY DEF Advice, Extension
<1> DEFINE settings == [endpoint |-> Localhost(ep)]
<1>2. \A e, g : g \in ExtensionEndpointExposed(e) =>
        /\ g.name \in DOMAIN e.extensions
        /\ \E x \in Endpoints(e.extensions[g.name]) : IsWildcard(x)
  BY DEF ExtensionEndpointExposed, Finding, FindingAbout
<1>3. Has(c, "extensions", f.name) /\ "extensions" \in Components
  BY <1>2, OfRule DEF Has, Components
<1>4. DOMAIN settings = {"endpoint"} /\ ~IsWildcard(settings["endpoint"])
  BY DEF Localhost, IsWildcard
<1>5. d = Merge(c, "extensions", f.name, settings)
  BY <1>1
<1> HIDE DEF settings
<1>6. "tls_insecure" \notin DOMAIN settings
  BY <1>4
<1>7. MergedInto(c, d, "extensions", f.name, settings) /\ Raised(c, d) = {}
  BY <1>5, <1>3, <1>6, SettingsAdvice
<1>8. Usable(d) /\ d.extensions[f.name] = Over(settings, c.extensions[f.name])
  BY <1>3, <1>7 DEF MergedInto, Setting, Has
<1>9. ASSUME f \in AllRules(d)
      PROVE  \E x \in OutOfReach("extensions", f.name, c.extensions[f.name]) : IsWildcard(x)
  <2>1. PICK x \in Endpoints(d.extensions[f.name]) : IsWildcard(x)
    BY <1>2, <1>9, OfRule
  <2>2. PICK k \in DOMAIN d.extensions[f.name] \cap EndpointSettings :
          x = d.extensions[f.name][k]
    BY <2>1 DEF Endpoints
  <2>3. k # "endpoint"
    BY <1>4, <1>8, <2>1, <2>2 DEF Over
  <2>4. k \in DOMAIN c.extensions[f.name] /\ x = c.extensions[f.name][k]
    BY <1>4, <1>8, <2>2, <2>3 DEF Over
  <2>5. x \in OutOfReach("extensions", f.name, c.extensions[f.name])
    BY <2>2, <2>3, <2>4 DEF OutOfReach
  <2> QED
    BY <2>1, <2>5
<1>10. Unaddressed(f, c, d) \/ f \notin AllRules(d)
  BY <1>9 DEF Unaddressed
<1> QED
  BY <1>7, <1>8, <1>10 DEF GoodAdvice

LEMMA ShortIntervalAdvice ==
  ASSUME NEW c, Usable(c), NEW f \in AllRules(c), f.rule = "short-scrape-interval",
         NEW d \in Advice(c, f)
  PROVE  GoodAdvice(c, f, d)
<1> DEFINE old == c.receivers[f.name]
           settings == IF ComponentType(f.name) = "hostmetrics" THEN [collection_interval |-> 60]
                       ELSE [scrape_intervals |-> (PrometheusIntervals(old) \ {f.about[2]}) \cup {60}]
<1>1. d = Merge(c, "receivers", f.name, settings)
  BY DEF Advice, LengthenInterval
<1>2. \A e, g : g \in ShortScrapeInterval(e) =>
        /\ g.name \in DOMAIN e.receivers
        /\ \/ /\ ComponentType(g.name) = "prometheus"
              /\ g.about[2] \in PrometheusIntervals(e.receivers[g.name])
           \/ /\ ComponentType(g.name) = "hostmetrics"
              /\ g.about[2] = Setting(e.receivers[g.name], "collection_interval", 60)
        /\ g.about[2] < 60
  BY DEF ShortScrapeInterval, AboutReceivers, FindingAbout
<1>3. Has(c, "receivers", f.name) /\ "receivers" \in Components
  BY <1>2, OfRule DEF Has, Components
<1>4. /\ ComponentType(f.name) = "hostmetrics" =>
           DOMAIN settings = {"collection_interval"} /\ settings["collection_interval"] = 60
      /\ ComponentType(f.name) # "hostmetrics" =>
           /\ DOMAIN settings = {"scrape_intervals"}
           /\ settings["scrape_intervals"] = (PrometheusIntervals(old) \ {f.about[2]}) \cup {60}
  OBVIOUS
<1>5. PrometheusIntervals(old) \subseteq Nat
  BY <1>3 DEF Usable, IsConfig, Has
<1> HIDE DEF settings, old
<1>6. "tls_insecure" \notin DOMAIN settings /\ IntervalsAre(settings)
  BY <1>4, <1>5 DEF IntervalsAre, PrometheusIntervals, HostMetricsInterval, Setting
<1>7. MergedInto(c, d, "receivers", f.name, settings) /\ Raised(c, d) = {}
  BY <1>1, <1>3, <1>6, SettingsAdvice
<1>8. Usable(d) /\ d.receivers[f.name] = Over(settings, c.receivers[f.name])
  BY <1>3, <1>7 DEF MergedInto, Setting, Has
<1>9. f \notin AllRules(d)
  <2> SUFFICES ASSUME f \in AllRules(d) PROVE FALSE
    OBVIOUS
  <2>1. f \in ShortScrapeInterval(d)
    BY OfRule
  <2>2. CASE ComponentType(f.name) = "hostmetrics"
    <3>1. Setting(d.receivers[f.name], "collection_interval", 60) = 60
      BY <1>4, <1>8, <2>2 DEF Over, Setting
    <3>2. f.about[2] = 60 /\ f.about[2] < 60
      BY <1>2, <2>1, <2>2, <3>1
    <3> QED
      BY <3>2
  <2>3. CASE ComponentType(f.name) # "hostmetrics"
    <3>1. PrometheusIntervals(d.receivers[f.name]) = (PrometheusIntervals(old) \ {f.about[2]}) \cup {60}
      BY <1>4, <1>8, <2>3 DEF Over, Setting, PrometheusIntervals
    <3>2. f.about[2] \in (PrometheusIntervals(old) \ {f.about[2]}) \cup {60} /\ f.about[2] < 60
      BY <1>2, <2>1, <2>3, <3>1
    <3> QED
      BY <3>2
  <2> QED
    BY <2>2, <2>3
<1> QED
  BY <1>7, <1>8, <1>9 DEF GoodAdvice

-----------------------------------------------------------------------------
(* Static advice: components and extensions *)

(* A list is a sequence of its elements.                                   *)
LEMMA OwnElements ==
  ASSUME NEW S, NEW t \in Seq(S)
  PROVE  t \in Seq(ToSet(t))
BY DEF ToSet

(* The advice is the connector alone, used in no pipeline.                 *)
LEMMA SpanMetricsIs ==
  ASSUME NEW c, NEW f, f.rule = "no-span-metrics-connector"
  PROVE  Advice(c, f) = {Merge(c, "connectors", <<"spanmetrics", "">>, NoSettings)}
BY DEF Advice

LEMMA SpanMetricsAdvice ==
  ASSUME NEW c, Usable(c), NEW f \in AllRules(c), f.rule = "no-span-metrics-connector",
         NEW d \in Advice(c, f)
  PROVE  GoodAdvice(c, f, d)
<1> DEFINE name == <<"spanmetrics", "">>
<1>1. d = Merge(c, "connectors", name, NoSettings)
  BY SpanMetricsIs
<1>2. ComponentType(name) = "spanmetrics"
  BY DEF ComponentType
<1> HIDE DEF name
<1>3. MergedInto(c, d, "connectors", name, NoSettings)
  BY <1>1, MergeIs DEF Components
<1>4. Usable(d) /\ name \in DOMAIN d.connectors
  BY <1>3 DEF MergedInto
<1>5. NoSpanMetricsConnector(d) = {}
  BY <1>2, <1>4 DEF NoSpanMetricsConnector
<1>6. f \notin AllRules(d)
  BY <1>5, OfRule
<1>7. "connectors" \in Components /\ IsConfig(c)
  BY DEF Components, Usable
<1>8. Raised(c, d) \subseteq {"connector-loop"}
  BY <1>1, <1>7, MergeRaises
<1>9. Raises(f.rule) = {"connector-loop"}
  BY DEF Raises
<1> QED
  BY <1>4, <1>6, <1>8, <1>9 DEF GoodAdvice

(* An edit that leaves alone what critical rules read raises nothing.      *)
LEMMA NothingRaised ==
  ASSUME NEW c, NEW d,
         MissingMemoryLimiter(d) \subseteq MissingMemoryLimiter(c),
         MemoryLimiterNotFirst(d) \subseteq MemoryLimiterNotFirst(c),
         BatchBeforeSampling(d) \subseteq BatchBeforeSampling(c),
         MemoryLimiterWithoutLimits(d) \subseteq MemoryLimiterWithoutLimits(c),
         UndefinedComponentRef(d) \subseteq UndefinedComponentRef(c),
         EmptyPipeline(d) \subseteq EmptyPipeline(c),
         ExporterInsecureTLS(d) \subseteq ExporterInsecureTLS(c),
         DebugLogFeedbackLoop(d) \subseteq DebugLogFeedbackLoop(c),
         HasLoop(d) => HasLoop(c)
  PROVE  Raised(c, d) \subseteq {}
<1> DEFINE R == {}
<1> HIDE DEF R
<1>1. Raised(c, d) \subseteq R
  BY RaisedBy
<1> QED
  BY <1>1 DEF R

(* Nothing critical is about the extensions.                               *)
LEMMA ExtensionsRaise ==
  ASSUME NEW c, NEW d, d.pipelines = c.pipelines, d.receivers = c.receivers,
         d.processors = c.processors, d.exporters = c.exporters, d.connectors = c.connectors
  PROVE  Raised(c, d) = {}
<1>1. /\ MissingMemoryLimiter(d) = MissingMemoryLimiter(c)
      /\ MemoryLimiterNotFirst(d) = MemoryLimiterNotFirst(c)
      /\ BatchBeforeSampling(d) = BatchBeforeSampling(c)
      /\ EmptyPipeline(d) = EmptyPipeline(c)
  BY SamePipelines
<1>2. UndefinedComponentRef(d) \subseteq UndefinedComponentRef(c)
  BY UndefinedShrinks DEF RefersToNothing, PipelineLists
<1>3. MemoryLimiterWithoutLimits(d) = MemoryLimiterWithoutLimits(c)
  BY DEF MemoryLimiterWithoutLimits
<1>4. ExporterInsecureTLS(d) \subseteq ExporterInsecureTLS(c)
  BY InsecureKept
<1>5. DebugLogFeedbackLoop(d) = DebugLogFeedbackLoop(c)
  BY DEF DebugLogFeedbackLoop, InPipelines
<1>6. HasLoop(d) => HasLoop(c)
  BY DEF HasLoop, Feeds
<1>7. Raised(c, d) \subseteq {}
  BY <1>1, <1>2, <1>3, <1>4, <1>5, <1>6, RaisedBy
<1> QED
  BY <1>7

LEMMA PprofAdvice ==
  ASSUME NEW c, Usable(c), NEW f \in AllRules(c), f.rule = "pprof-extension-enabled",
         NEW d \in Advice(c, f)
  PROVE  GoodAdvice(c, f, d)
<1> DEFINE s == c.serviceExtensions
           t == Only(s, ToSet(s) \ {f.name})
<1>1. d = [c EXCEPT !.serviceExtensions = t]
  BY DEF Advice
<1>2. s \in Seq(ToSet(s))
  BY DEF Usable, IsConfig
<1> HIDE DEF s
<1>3. t \in Seq(ToSet(s) \cap (ToSet(s) \ {f.name}))
  BY <1>2, OnlyIs
<1>4. \A i \in DOMAIN t : t[i] # f.name
  BY <1>3
<1>5. t \in Seq(ToSet(t))
  BY <1>3, OwnElements
<1> HIDE DEF t
<1>6. Usable(d) /\ d.serviceExtensions = t
  BY <1>1, <1>5 DEF Usable, IsConfig, IsMap, Components
<1>7. Raised(c, d) = {}
  BY <1>1, ExtensionsRaise DEF Usable, IsConfig, Components
<1>8. ASSUME f \in AllRules(d) PROVE FALSE
  <2>1. f \in PprofExtensionEnabled(d)
    BY <1>8, OfRule
  <2>2. FirstOf(t, {"pprof"}) # 0 /\ f.name = t[FirstOf(t, {"pprof"})]
    BY <1>6, <2>1 DEF PprofExtensionEnabled, Finding, FindingAbout
  <2>3. FirstOf(t, {"pprof"}) \in DOMAIN t
    BY <1>3, <2>2, FirstOfIs
  <2> QED
    BY <1>4, <2>2, <2>3
<1> QED
  BY <1>6, <1>7, <1>8 DEF GoodAdvice

LEMMA HealthCheckAdvice ==
  ASSUME NEW c, Usable(c), NEW f \in AllRules(c), f.rule = "no-health-check-extension",
         NEW d \in Advice(c, f)
  PROVE  GoodAdvice(c, f, d)
<1> DEFINE name == <<"health_check", "">>
           settings == [endpoint |-> <<"0.0.0.0", 13133>>]
           m == Merge(c, "extensions", name, settings)
<1>1. d = Enable(m, name)
  <2>1. Advice(c, f) = {AddHealthCheck(c)}
    BY DEF Advice
  <2>2. d = AddHealthCheck(c)
    BY <2>1
  <2>3. AddHealthCheck(c) = Enable(m, name)
    BY DEF AddHealthCheck
  <2> HIDE DEF m
  <2> QED
    BY <2>2, <2>3
<1>2. ComponentType(name) = "health_check"
  BY DEF ComponentType
<1> HIDE DEF name, settings
<1>3. "extensions" \in Components
  BY DEF Components
<1>4. MergedInto(c, m, "extensions", name, settings)
  BY <1>3, MergeIs
<1> HIDE DEF m
<1>5. /\ Usable(m) /\ m.pipelines = c.pipelines /\ m.receivers = c.receivers
      /\ m.processors = c.processors /\ m.exporters = c.exporters
      /\ m.connectors = c.connectors /\ name \in DOMAIN m.extensions
  BY <1>4 DEF MergedInto, Components
<1>6. /\ d.pipelines = m.pipelines /\ d.receivers = m.receivers
      /\ d.processors = m.processors /\ d.exporters = m.exporters
      /\ d.connectors = m.connectors /\ d.extensions = m.extensions
      /\ d.serviceExtensions = Append(m.serviceExtensions, name)
      /\ IsMap(d) /\ DOMAIN d = DOMAIN m
  BY <1>1, <1>5 DEF Usable, IsConfig, IsMap, Components, Enable
<1>7. d.serviceExtensions \in Seq(ToSet(d.serviceExtensions))
  <2>1. m.serviceExtensions \in Seq(ToSet(m.serviceExtensions))
    BY <1>5 DEF Usable, IsConfig
  <2>2. \A x : x \in ToSet(m.serviceExtensions) => x \in ToSet(m.serviceExtensions) \cup {name}
    OBVIOUS
  <2>3. m.serviceExtensions \in Seq(ToSet(m.serviceExtensions) \cup {name})
    BY <2>1
  <2>4. d.serviceExtensions \in Seq(ToSet(m.serviceExtensions) \cup {name})
    BY <1>6, <2>3
  <2> QED
    BY <2>4 DEF ToSet
<1>8. Usable(d)
  BY <1>5, <1>6, <1>7 DEF Usable, IsConfig
<1>9. Raised(c, d) = {}
  BY <1>5, <1>6, ExtensionsRaise
<1>10. NoHealthCheckExtension(d) = {}
  BY <1>2, <1>5, <1>6 DEF NoHealthCheckExtension
<1>11. f \notin AllRules(d)
  BY <1>10, OfRule
<1> QED
  BY <1>8, <1>9, <1>11 DEF GoodAdvice

LEMMA UnusedAdvice ==
  ASSUME NEW c, Usable(c), NEW f \in AllRules(c), f.rule = "unused-components",
         NEW d \in Advice(c, f)
  PROVE  GoodAdvice(c, f, d)
<1>1. \A e, g : g \in UnusedComponents(e) =>
        \/ /\ g.kind = "receiver" /\ g.name \in DOMAIN e.receivers
           /\ \A n \in DOMAIN e.pipelines : g.name \notin ToSet(e.pipelines[n].receivers)
        \/ /\ g.kind = "processor" /\ g.name \in DOMAIN e.processors
           /\ \A n \in DOMAIN e.pipelines : g.name \notin ToSet(e.pipelines[n].processors)
        \/ /\ g.kind = "exporter" /\ g.name \in DOMAIN e.exporters
           /\ \A n \in DOMAIN e.pipelines : g.name \notin ToSet(e.pipelines[n].exporters)
  BY DEF UnusedComponents, Finding, FindingAbout
<1>2. f \in UnusedComponents(c)
  BY OfRule
<1>3. PICK list \in PipelineLists :
        /\ \A n \in DOMAIN c.pipelines : f.name \notin ToSet(c.pipelines[n][list])
        /\ f.kind = "receiver" <=> list = "receivers"
        /\ f.kind = "processor" <=> list = "processors"
        /\ f.kind = "exporter" <=> list = "exporters"
        /\ d = [c EXCEPT ![list] = Restrict(c[list], DOMAIN c[list] \ {f.name})]
  <2>0. d = RemoveUnused(c, f)
    BY DEF Advice
  <2>1. CASE f.kind = "receiver"
    BY <1>1, <1>2, <2>0, <2>1 DEF RemoveUnused, PipelineLists
  <2>2. CASE f.kind = "processor"
    BY <1>1, <1>2, <2>0, <2>2 DEF RemoveUnused, PipelineLists
  <2>3. CASE f.kind = "exporter"
    BY <1>1, <1>2, <2>0, <2>3 DEF RemoveUnused, PipelineLists
  <2> QED
    BY <1>1, <1>2, <2>1, <2>2, <2>3
<1>4. /\ IsMap(d) /\ DOMAIN d = DOMAIN c
      /\ d.pipelines = c.pipelines /\ d.serviceExtensions = c.serviceExtensions
      /\ \A s \in Components \ {list} : d[s] = c[s]
      /\ DOMAIN d[list] = DOMAIN c[list] \ {f.name}
      /\ \A n \in DOMAIN d[list] : d[list][n] = c[list][n]
  BY <1>3 DEF Usable, IsConfig, IsMap, Components, PipelineLists, Restrict
<1>5. \A s \in Components : /\ DOMAIN d[s] \subseteq DOMAIN c[s]
                            /\ \A n \in DOMAIN d[s] : d[s][n] = c[s][n]
  BY <1>4
<1>6. Usable(d)
  BY <1>4, <1>5 DEF Usable, IsConfig, Components
<1>7. Raised(c, d) \subseteq {}
  <2>1. /\ MissingMemoryLimiter(d) = MissingMemoryLimiter(c)
        /\ MemoryLimiterNotFirst(d) = MemoryLimiterNotFirst(c)
        /\ BatchBeforeSampling(d) = BatchBeforeSampling(c)
        /\ EmptyPipeline(d) = EmptyPipeline(c)
    BY <1>4, SamePipelines
  <2>2. d.connectors = c.connectors
    BY <1>4 DEF Components, PipelineLists
  <2>3. UndefinedComponentRef(d) \subseteq UndefinedComponentRef(c)
    <3> SUFFICES ASSUME NEW n, NEW l, NEW x, RefersToNothing(d, n, l, x)
                 PROVE  RefersToNothing(c, n, l, x)
      BY UndefinedShrinks
    <3>1. /\ n \in DOMAIN c.pipelines /\ l \in PipelineLists
          /\ x \in ToSet(c.pipelines[n][l]) /\ x \notin DOMAIN d[l]
          /\ l # "processors" => x \notin DOMAIN c.connectors
      BY <1>4, <2>2 DEF RefersToNothing
    <3>2. l = list => x # f.name
      BY <1>3, <3>1
    <3>3. x \notin DOMAIN c[l]
      BY <1>4, <3>1, <3>2 DEF PipelineLists, Components
    <3> QED
      BY <3>1, <3>3 DEF RefersToNothing
  <2>4. MemoryLimiterWithoutLimits(d) \subseteq MemoryLimiterWithoutLimits(c)
    BY <1>5 DEF MemoryLimiterWithoutLimits, InComponents, Components
  <2>5. ExporterInsecureTLS(d) \subseteq ExporterInsecureTLS(c)
    <3>1. \A n \in DOMAIN d.exporters :
            n \in DOMAIN c.exporters /\ d.exporters[n] = c.exporters[n]
      BY <1>5 DEF Components
    <3> QED
      BY <3>1, InsecureKept
  <2>6. DebugLogFeedbackLoop(d) \subseteq DebugLogFeedbackLoop(c)
    BY <1>4, <1>5 DEF DebugLogFeedbackLoop, InPipelines, Components
  <2>7. HasLoop(d) => HasLoop(c)
    <3>1. Feeds(d) = Feeds(c)
      BY <1>4, <2>2 DEF Feeds
    <3> QED
      BY <3>1 DEF HasLoop
  <2>8. /\ MissingMemoryLimiter(d) \subseteq MissingMemoryLimiter(c)
         /\ MemoryLimiterNotFirst(d) \subseteq MemoryLimiterNotFirst(c)
         /\ BatchBeforeSampling(d) \subseteq BatchBeforeSampling(c)
         /\ EmptyPipeline(d) \subseteq EmptyPipeline(c)
    BY <2>1
  <2> QED
    BY <2>8, <2>3, <2>4, <2>5, <2>6, <2>7, NothingRaised
<1>8. f \notin AllRules(d)
  <2> SUFFICES ASSUME f \in UnusedComponents(d) PROVE FALSE
    BY OfRule
  <2>1. f.name \in DOMAIN d[list]
    BY <1>1, <1>3 DEF PipelineLists
  <2> QED
    BY <1>4, <2>1
<1> QED
  BY <1>6, <1>7, <1>8 DEF GoodAdvice

-----------------------------------------------------------------------------
(* Static advice: names that leave a list, and exporters *)

(* What a list of a pipeline becomes.                                      *)
BecomesIn(c, d, p, list, t) ==
  /\ Usable(d)
  /\ \A s \in Components : d[s] = c[s]
  /\ d.serviceExtensions = c.serviceExtensions
  /\ DOMAIN d.pipelines = DOMAIN c.pipelines
  /\ \A q \in DOMAIN c.pipelines \ {p} : d.pipelines[q] = c.pipelines[q]
  /\ d.pipelines[p].signal = c.pipelines[p].signal
  /\ d.pipelines[p][list] = t
  /\ \A l \in PipelineLists \ {list} : d.pipelines[p][l] = c.pipelines[p][l]

LEMMA ListsIs ==
  ASSUME NEW c, Usable(c), NEW p, p \in DOMAIN c.pipelines, NEW list, list \in PipelineLists,
         NEW S, NEW t \in Seq(S)
  PROVE  BecomesIn(c, Lists(c, p, list, t), p, list, t)
<1> DEFINE d == Lists(c, p, list, t)
<1>1. /\ IsConfig(d)
      /\ \A s \in Components : d[s] = c[s]
      /\ d.serviceExtensions = c.serviceExtensions
      /\ DOMAIN d.pipelines = DOMAIN c.pipelines
      /\ \A q \in DOMAIN c.pipelines \ {p} : d.pipelines[q] = c.pipelines[q]
      /\ d.pipelines[p].signal = c.pipelines[p].signal
      /\ d.pipelines[p][list] = t
      /\ \A l \in PipelineLists \ {list} : d.pipelines[p][l] = c.pipelines[p][l]
  BY ListsShape DEF Usable
<1> HIDE DEF d
<1>2. Usable(d)
  BY <1>1 DEF Usable
<1>3. BecomesIn(c, d, p, list, t)
  BY <1>1, <1>2 DEF BecomesIn
<1> QED
  BY <1>3 DEF d

(* A list loses some names, and keeps the order of the others.             *)
Rid(c, d, p, list, gone) ==
  \E t \in Seq(ToSet(c.pipelines[p][list]) \ gone) : BecomesIn(c, d, p, list, t)

(* This is what Without does.                                              *)
LEMMA WithoutIs ==
  ASSUME NEW c, Usable(c), NEW p, p \in DOMAIN c.pipelines, NEW list, list \in PipelineLists,
         NEW gone, NEW R,
         list # "processors" \/ OrderRules \subseteq R,
         list = "processors" \/ "empty-pipeline" \in R
  PROVE  /\ Rid(c, Without(c, p, list, gone), p, list, gone)
         /\ Raised(c, Without(c, p, list, gone)) \subseteq R
<1> DEFINE s == c.pipelines[p][list]
           t == Only(s, ToSet(s) \ gone)
           d == Without(c, p, list, gone)
<1>1. IsConfig(c) /\ s \in Seq(ToSet(s))
  BY DEF Usable, IsConfig, IsPipeline
<1>2. t \in Seq(ToSet(s) \cap (ToSet(s) \ gone))
  BY <1>1, OnlyIs
<1>3. d = Lists(c, p, list, t)
  BY DEF Without
<1> HIDE DEF t, d
<1>4. ToSet(s) \cap (ToSet(s) \ gone) = ToSet(s) \ gone
  OBVIOUS
<1>5. t \in Seq(ToSet(s) \ gone)
  BY <1>2, <1>4
<1>6. ToSet(t) \subseteq ToSet(s)
  BY <1>5 DEF ToSet
<1>7. Types(t) \subseteq Types(s)
  BY <1>6, TypesOf
<1>8. BecomesIn(c, d, p, list, t)
  BY <1>3, <1>5, ListsIs
<1>9. Rid(c, d, p, list, gone)
  BY <1>5, <1>8 DEF Rid
<1>10. Raised(c, d) \subseteq R
  <2>1. list # "processors" \/ Gentle(Processors(c, p), t) \/ OrderRules \subseteq R
    OBVIOUS
  <2>2. \/ ToSet(t) \subseteq ToSet(c.pipelines[p][list]) \cup DOMAIN c[list]
        \/ "undefined-component-ref" \in R
    BY <1>6
  <2>3. list = "processors" \/ t # <<>> \/ "empty-pipeline" \in R
    OBVIOUS
  <2>4. list # "exporters" \/ Types(t) \cap DebugTypes \subseteq Types(c.pipelines[p][list])
    BY <1>7
  <2>5. \/ list = "processors" \/ ToSet(t) \subseteq ToSet(c.pipelines[p][list])
        \/ "connector-loop" \in R
    BY <1>6
  <2> HIDE DEF s
  <2> QED
    BY <1>1, <1>3, <1>5, <2>1, <2>2, <2>3, <2>4, <2>5, ListsRaise
<1> QED
  BY <1>9, <1>10 DEF d

LEMMA DebugAdvice ==
  ASSUME NEW c, Usable(c), NEW f \in AllRules(c), f.rule = "debug-exporter-in-pipeline",
         NEW d \in Advice(c, f)
  PROVE  GoodAdvice(c, f, d)
<1>1. d = Without(c, f.name, "exporters", {f.about})
  BY DEF Advice
<1>2. \A e, g : g \in DebugExporterInPipeline(e) =>
        /\ g.name \in DOMAIN e.pipelines
        /\ g.about \in ToSet(e.pipelines[g.name].exporters)
  BY DEF DebugExporterInPipeline, AboutPipelines, FindingAbout
<1>3. f.name \in DOMAIN c.pipelines /\ "exporters" \in PipelineLists
  BY <1>2, OfRule DEF PipelineLists
<1>4. "empty-pipeline" \in Raises(f.rule)
  BY DEF Raises
<1>5. Rid(c, d, f.name, "exporters", {f.about}) /\ Raised(c, d) \subseteq Raises(f.rule)
  BY <1>1, <1>3, <1>4, WithoutIs
<1>6. PICK t \in Seq(ToSet(c.pipelines[f.name].exporters) \ {f.about}) :
        BecomesIn(c, d, f.name, "exporters", t)
  BY <1>5 DEF Rid
<1>7. f.about \notin ToSet(d.pipelines[f.name].exporters) /\ Usable(d)
  BY <1>6 DEF BecomesIn, ToSet
<1>8. f \notin AllRules(d)
  BY <1>2, <1>7, OfRule
<1> QED
  BY <1>5, <1>7, <1>8 DEF GoodAdvice

LEMMA FeedbackAdvice ==
  ASSUME NEW c, Usable(c), NEW f \in AllRules(c), f.rule = "debug-log-feedback-loop",
         NEW d \in Advice(c, f)
  PROVE  GoodAdvice(c, f, d)
<1> DEFINE gone == {n \in ToSet(c.pipelines[f.name].exporters) : ComponentType(n) \in DebugTypes}
<1>1. \/ d = Without(c, f.name, "exporters", gone)
      \/ \E r \in DOMAIN c.receivers :
           /\ "exclude" \notin DOMAIN c.receivers[r]
           /\ d = Merge(c, "receivers", r, [exclude |-> TRUE])
  BY DEF Advice, StopFeedback
<1>2. f.name \in DOMAIN c.pipelines /\ "exporters" \in PipelineLists
  <2>1. PICK n \in DOMAIN c.pipelines : f = Finding("debug-log-feedback-loop", "pipeline", n)
    BY OfRule, FeedbackIs
  <2> QED
    BY <2>1, NamesOfFindings DEF PipelineLists
<1>3. CASE d = Without(c, f.name, "exporters", gone)
  <2> HIDE DEF gone
  <2>1. "empty-pipeline" \in Raises(f.rule)
    BY DEF Raises
  <2>2. Rid(c, d, f.name, "exporters", gone) /\ Raised(c, d) \subseteq Raises(f.rule)
    BY <1>2, <1>3, <2>1, WithoutIs
  <2>3. PICK t \in Seq(ToSet(c.pipelines[f.name].exporters) \ gone) :
          BecomesIn(c, d, f.name, "exporters", t)
    BY <2>2 DEF Rid
  <2>4. d.pipelines[f.name].exporters = t /\ Usable(d)
    BY <2>3 DEF BecomesIn
  <2>5. Types(t) \cap DebugTypes = {}
    BY <2>3 DEF Types, gone
  <2>6. f \notin AllRules(d)
    <3> SUFFICES ASSUME f \in DebugLogFeedbackLoop(d) PROVE FALSE
      BY OfRule
    <3>1. PICK n \in DOMAIN d.pipelines :
             /\ Types(d.pipelines[n].exporters) \cap DebugTypes # {}
             /\ f = Finding("debug-log-feedback-loop", "pipeline", n)
      BY FeedbackIs
    <3>2. f.name = n
      BY <3>1, NamesOfFindings
    <3> QED
      BY <2>4, <2>5, <3>1, <3>2
  <2> QED
    BY <2>2, <2>4, <2>6 DEF GoodAdvice
<1>4. CASE \E r \in DOMAIN c.receivers :
             /\ "exclude" \notin DOMAIN c.receivers[r]
             /\ d = Merge(c, "receivers", r, [exclude |-> TRUE])
  <2> DEFINE settings == [exclude |-> TRUE]
  <2>1. PICK r \in DOMAIN c.receivers :
             /\ "exclude" \notin DOMAIN c.receivers[r]
             /\ d = Merge(c, "receivers", r, settings)
    BY <1>4
  <2>2. DOMAIN settings = {"exclude"}
    OBVIOUS
  <2> HIDE DEF settings
  <2>3. "tls_insecure" \notin DOMAIN settings /\ IntervalsAre(settings)
    BY <2>2 DEF IntervalsAre, PrometheusIntervals, HostMetricsInterval, Setting
  <2>4. Has(c, "receivers", r) /\ "receivers" \in Components
    BY DEF Has, Components
  <2>5. MergedInto(c, d, "receivers", r, settings) /\ Raised(c, d) = {}
    BY <2>1, <2>3, <2>4, SettingsAdvice
  <2>6. Usable(d) /\ d.receivers[r] = Over(settings, c.receivers[r])
    BY <2>4, <2>5 DEF MergedInto, Setting, Has
  <2>7. d.receivers # c.receivers
    BY <2>1, <2>2, <2>6 DEF Over
  <2>8. Unaddressed(f, c, d)
    BY <2>7 DEF Unaddressed
  <2> QED
    BY <2>5, <2>6, <2>8 DEF GoodAdvice
<1> QED
  BY <1>1, <1>3, <1>4

LEMMA RefAdvice ==
  ASSUME NEW c, Usable(c), NEW f \in AllRules(c), f.rule = "undefined-component-ref",
         NEW d \in Advice(c, f)
  PROVE  GoodAdvice(c, f, d)
<1>1. \A e : f \in AllRules(e) => RefersToNothing(e, f.name, f.about[1], f.about[2])
  <2> SUFFICES ASSUME NEW e, f \in UndefinedComponentRef(e)
               PROVE  RefersToNothing(e, f.name, f.about[1], f.about[2])
    BY OfRule
  <2>1. PICK n, l, y : RefersToNothing(e, n, l, y) /\ f = UndefinedRef(n, l, y)
    BY UndefinedHas
  <2>2. f.name = n /\ f.about = <<l, y>>
    BY <2>1, NamesOfFindings DEF UndefinedRef
  <2> QED
    BY <2>1, <2>2
<1> DEFINE n == f.name
           list == f.about[1]
           x == f.about[2]
<1>2. \/ d = Merge(c, list, x, NoSettings)
      \/ list # "processors" /\ d = Merge(c, "connectors", x, NoSettings)
      \/ d = Without(c, n, list, {x})
  BY DEF Advice, ResolveRef
<1>3. RefersToNothing(c, n, list, x) /\ \A e : f \in AllRules(e) => RefersToNothing(e, n, list, x)
  BY <1>1
<1> HIDE DEF n, list, x
<1>4. n \in DOMAIN c.pipelines /\ list \in PipelineLists
  BY <1>3 DEF RefersToNothing
<1>5. /\ OrderRules \subseteq Raises(f.rule)
      /\ {"empty-pipeline", "memory-limiter-without-limits", "debug-log-feedback-loop",
          "connector-loop"} \subseteq Raises(f.rule)
  BY DEF Raises, OrderRules
<1>6. CASE d = Merge(c, list, x, NoSettings)
  <2>1. list \in Components /\ list # "connectors" /\ IsConfig(c) /\ IntervalsAre(NoSettings)
        /\ "tls_insecure" \notin DOMAIN NoSettings
    BY <1>4, NoIntervals DEF PipelineLists, Components, Usable, NoSettings
  <2>2. MergedInto(c, d, list, x, NoSettings)
    BY <1>6, <2>1, MergeIs
  <2>3. Usable(d) /\ x \in DOMAIN d[list]
    BY <2>2 DEF MergedInto
  <2>4. Raised(c, d) \subseteq Raises(f.rule)
    BY <1>5, <1>6, <2>1, MergeRaises
  <2>5. f \notin AllRules(d)
    BY <1>3, <2>3 DEF RefersToNothing
  <2> QED
    BY <2>3, <2>4, <2>5 DEF GoodAdvice
<1>7. CASE list # "processors" /\ d = Merge(c, "connectors", x, NoSettings)
  <2>1. "connectors" \in Components /\ IsConfig(c) /\ IntervalsAre(NoSettings)
        /\ "tls_insecure" \notin DOMAIN NoSettings
    BY NoIntervals DEF Components, Usable, NoSettings
  <2>2. MergedInto(c, d, "connectors", x, NoSettings)
    BY <1>7, <2>1, MergeIs
  <2>3. Usable(d) /\ x \in DOMAIN d.connectors
    BY <2>2 DEF MergedInto
  <2>4. Raised(c, d) \subseteq {"connector-loop"}
    BY <1>7, <2>1, MergeRaises
  <2>5. f \notin AllRules(d)
    BY <1>3, <1>7, <2>3 DEF RefersToNothing
  <2> QED
    BY <1>5, <2>3, <2>4, <2>5 DEF GoodAdvice
<1>8. CASE d = Without(c, n, list, {x})
  <2>1. Rid(c, d, n, list, {x}) /\ Raised(c, d) \subseteq Raises(f.rule)
    BY <1>4, <1>5, <1>8, WithoutIs
  <2>2. PICK t \in Seq(ToSet(c.pipelines[n][list]) \ {x}) : BecomesIn(c, d, n, list, t)
    BY <2>1 DEF Rid
  <2>3. Usable(d) /\ x \notin ToSet(d.pipelines[n][list])
    BY <2>2 DEF BecomesIn, ToSet
  <2>4. f \notin AllRules(d)
    BY <1>3, <2>3 DEF RefersToNothing
  <2> QED
    BY <2>1, <2>3, <2>4 DEF GoodAdvice
<1> QED
  BY <1>2, <1>6, <1>7, <1>8

LEMMA FillAdvice ==
  ASSUME NEW c, Usable(c), NEW f \in AllRules(c), f.rule = "empty-pipeline",
         NEW d \in Advice(c, f)
  PROVE  GoodAdvice(c, f, d)
<1> DEFINE list == f.about[1]
           otlp == <<"otlp", "">>
           t == <<otlp>>
           R == Raises(f.rule)
<1>1. d = Lists(c, f.name, list, t)
  <2>1. Advice(c, f) = {FillPipeline(c, f)}
    BY DEF Advice
  <2>2. d = FillPipeline(c, f)
    BY <2>1
  <2>3. FillPipeline(c, f) = Lists(c, f.name, list, t)
    BY DEF FillPipeline
  <2> HIDE DEF list, t
  <2> QED
    BY <2>2, <2>3
<1>2. \A e, g : g \in EmptyPipeline(e) =>
        /\ g.name \in DOMAIN e.pipelines /\ g.about[1] \in {"receivers", "exporters"}
        /\ e.pipelines[g.name][g.about[1]] = <<>>
  BY DEF EmptyPipeline, AboutPipelines, FindingAbout
<1>3. f.name \in DOMAIN c.pipelines /\ list \in {"receivers", "exporters"} /\ list \in PipelineLists
  BY <1>2, OfRule DEF PipelineLists
<1>4. {"undefined-component-ref", "connector-loop"} \subseteq R
  BY DEF Raises
<1>5. t \in Seq({otlp}) /\ t # <<>> /\ Types(t) \cap DebugTypes = {}
  <2>1. ComponentType(otlp) = "otlp"
    BY DEF ComponentType
  <2> HIDE DEF otlp
  <2>2. t \in Seq({otlp}) /\ t # <<>> /\ DOMAIN t = {1} /\ t[1] = otlp
    OBVIOUS
  <2> HIDE DEF t
  <2> QED
    BY <2>1, <2>2 DEF Types, DebugTypes
<1>6. IsConfig(c)
  BY DEF Usable
<1>7. \A e : f \in AllRules(e) => e.pipelines[f.name][list] = <<>>
  BY <1>2, OfRule
<1> HIDE DEF list, otlp, t, R
<1>8. Raised(c, d) \subseteq R
  BY <1>1, <1>3, <1>4, <1>5, <1>6, ListsRaise
<1>9. BecomesIn(c, d, f.name, list, t)
  BY <1>1, <1>3, <1>5, ListsIs
<1>10. Usable(d) /\ d.pipelines[f.name][list] = t
  BY <1>9 DEF BecomesIn
<1>11. f \notin AllRules(d)
  BY <1>5, <1>7, <1>10
<1> QED
  BY <1>8, <1>10, <1>11 DEF GoodAdvice, R

(* A connector taken out of the exporters of the last pipeline of a cycle  *)
(* breaks it.                                                              *)
LEMMA LoopAdvice ==
  ASSUME NEW c, Usable(c), NEW f, f.rule = "connector-loop",
         NEW w \in Seq(DOMAIN c.pipelines), f.name[2] = w, Len(w) >= 2, w[1] = w[Len(w)],
         \A i \in 1 .. Len(w) - 1 : w[i + 1] \in Feeds(c)[w[i]],
         NEW d \in Advice(c, f)
  PROVE  Usable(d) /\ Raised(c, d) \subseteq Raises(f.rule) /\ ~Persists(f, d)
<1> DEFINE u == w[Len(w) - 1]
           v == w[1]
           gone == DOMAIN c.connectors \cap ToSet(c.pipelines[v].receivers)
<1>1. d = Without(c, u, "exporters", gone)
  BY DEF Advice, BreakLoop
<1>2. Len(w) \in Nat /\ Len(w) - 1 \in 1 .. Len(w) - 1 /\ Len(w) - 1 \in 1 .. Len(w)
      /\ (Len(w) - 1) + 1 = Len(w) /\ 1 \in 1 .. Len(w)
  OBVIOUS
<1>3. u \in DOMAIN c.pipelines /\ v \in DOMAIN c.pipelines /\ "exporters" \in PipelineLists
  BY <1>2 DEF PipelineLists
<1> HIDE DEF gone
<1>4. "empty-pipeline" \in Raises(f.rule)
  BY DEF Raises
<1>5. Rid(c, d, u, "exporters", gone) /\ Raised(c, d) \subseteq Raises(f.rule)
  BY <1>1, <1>3, <1>4, WithoutIs
<1>6. PICK t \in Seq(ToSet(c.pipelines[u].exporters) \ gone) :
        BecomesIn(c, d, u, "exporters", t)
  BY <1>5 DEF Rid
<1>7. /\ Usable(d) /\ DOMAIN d.pipelines = DOMAIN c.pipelines /\ d.connectors = c.connectors
      /\ d.pipelines[v].receivers = c.pipelines[v].receivers
      /\ ToSet(d.pipelines[u].exporters) \cap gone = {}
  BY <1>3, <1>6 DEF BecomesIn, PipelineLists, Components, ToSet
<1>8. v \notin Feeds(d)[u]
  BY <1>3, <1>7 DEF Feeds, gone
<1>9. ~Persists(f, d)
  <2>1. w[(Len(w) - 1) + 1] = v
    BY <1>2
  <2>2. ~(w[(Len(w) - 1) + 1] \in Feeds(d)[w[Len(w) - 1]])
    BY <1>8, <2>1
  <2> QED
    BY <1>2, <2>2 DEF Persists
<1> QED
  BY <1>5, <1>7, <1>9

(* New pipelines without processors.                                       *)
LEMMA PipelinesRaise ==
  ASSUME NEW c, Usable(c), NEW new, NEW R,
         \A n \in DOMAIN new :
           /\ n \in Pipeline /\ IsPipeline(new[n]) /\ new[n].signal = ComponentType(n)
           /\ new[n].processors = <<>> /\ new[n].receivers # <<>> /\ new[n].exporters # <<>>,
         "missing-memory-limiter" \in R, "undefined-component-ref" \in R,
         "debug-log-feedback-loop" \in R, "connector-loop" \in R
  PROVE  /\ Usable(AddPipelines(c, new))
         /\ DOMAIN AddPipelines(c, new).pipelines = DOMAIN c.pipelines \cup DOMAIN new
         /\ Raised(c, AddPipelines(c, new)) \subseteq R
<1> DEFINE d == AddPipelines(c, new)
<1>1. /\ IsMap(d) /\ DOMAIN d = DOMAIN c /\ d.pipelines = Over(new, c.pipelines)
      /\ d.receivers = c.receivers /\ d.processors = c.processors
      /\ d.exporters = c.exporters /\ d.serviceExtensions = c.serviceExtensions
  BY DEF AddPipelines, Usable, IsConfig, IsMap, Components
<1>2. /\ IsMap(d.pipelines) /\ DOMAIN d.pipelines = DOMAIN c.pipelines \cup DOMAIN new
      /\ \A n \in DOMAIN new : d.pipelines[n] = new[n]
      /\ \A n \in DOMAIN c.pipelines \ DOMAIN new : d.pipelines[n] = c.pipelines[n]
  BY <1>1 DEF Over, IsMap
<1> HIDE DEF d
<1>3. \A n \in DOMAIN d.pipelines :
        IsPipeline(d.pipelines[n]) /\ d.pipelines[n].signal = ComponentType(n) /\ n \in Pipeline
  BY <1>2 DEF Usable, IsConfig
<1>4. Usable(d)
  BY <1>1, <1>2, <1>3 DEF Usable, IsConfig
<1>5. \A n \in DOMAIN new : \A types : FirstOf(new[n].processors, types) = 0
  <2> TAKE n \in DOMAIN new
  <2> TAKE types
  <2>1. new[n].processors = <<>> /\ <<>> \in Seq({}) /\ DOMAIN <<>> = {}
    OBVIOUS
  <2>2. FirstOf(<<>>, types) = 0
    BY <2>1, FirstOfIs
  <2> QED
    BY <2>1, <2>2
<1>6. MemoryLimiterNotFirst(d) \subseteq MemoryLimiterNotFirst(c)
  BY <1>2, <1>5 DEF MemoryLimiterNotFirst, InPipelines
<1>7. BatchBeforeSampling(d) \subseteq BatchBeforeSampling(c)
  BY <1>2, <1>5 DEF BatchBeforeSampling, InPipelines
<1>8. EmptyPipeline(d) \subseteq EmptyPipeline(c)
  BY <1>2, EmptyIs
<1>9. MemoryLimiterWithoutLimits(d) = MemoryLimiterWithoutLimits(c)
  BY <1>1 DEF MemoryLimiterWithoutLimits
<1>10. ExporterInsecureTLS(d) \subseteq ExporterInsecureTLS(c)
  BY <1>1, InsecureKept
<1>11. Raised(c, d) \subseteq R
  BY <1>6, <1>7, <1>8, <1>9, <1>10, RaisedBy
<1> QED
  BY <1>2, <1>4, <1>11 DEF d

(* What new exporters of one pipeline may raise.                           *)
LEMMA ExportersRaise ==
  ASSUME NEW c, Usable(c), NEW p \in DOMAIN c.pipelines, NEW S, NEW t \in Seq(S), NEW R,
         t # <<>>, Types(t) \cap DebugTypes = {},
         "undefined-component-ref" \in R, "connector-loop" \in R
  PROVE  /\ Usable(Lists(c, p, "exporters", t))
         /\ Lists(c, p, "exporters", t).pipelines[p].exporters = t
         /\ Raised(c, Lists(c, p, "exporters", t)) \subseteq R
<1> DEFINE list == "exporters"
           d == Lists(c, p, list, t)
<1>1. list \in PipelineLists /\ list # "processors" /\ IsConfig(c)
  BY DEF PipelineLists, Usable
<1> HIDE DEF list
<1>2. Types(t) \cap DebugTypes \subseteq Types(c.pipelines[p][list])
  OBVIOUS
<1>3. Raised(c, d) \subseteq R
  BY <1>1, <1>2, ListsRaise
<1>4. BecomesIn(c, d, p, list, t)
  BY <1>1, ListsIs
<1>5. Usable(d) /\ d.pipelines[p][list] = t
  BY <1>4 DEF BecomesIn
<1> QED
  BY <1>3, <1>5 DEF list

LEMMA RouteAdvice ==
  ASSUME NEW c, Usable(c), NEW f \in AllRules(c), f.rule = "multiple-exporters-no-routing",
         NEW d \in Advice(c, f)
  PROVE  GoodAdvice(c, f, d)
<1> DEFINE p == f.name
           routing == <<"routing", "">>
           exporters == c.pipelines[p].exporters
           Branch(name, es) == PipelineOf(<<ComponentType(p), name>>, <<routing>>, <<>>, es)
           one == Branch("primary", <<Head(exporters)>>)
           two == Branch("secondary", Tail(exporters))
           new == Over(one, two)
           m == Merge(c, "connectors", routing, NoSettings)
           e == AddPipelines(m, new)
           t == <<routing>>
           R == Raises(f.rule)
<1>1. d = Lists(e, p, "exporters", t)
  <2>1. Advice(c, f) = {RouteExporters(c, f.name)}
    BY DEF Advice
  <2>2. d = RouteExporters(c, p)
    BY <2>1
  <2>3. RouteExporters(c, p) = Lists(e, p, "exporters", t)
    BY DEF RouteExporters
  <2> HIDE DEF e, t
  <2> QED
    BY <2>2, <2>3
<1>2. \A g, a : a \in MultipleExportersNoRouting(g) =>
        a.name \in DOMAIN g.pipelines /\ Len(g.pipelines[a.name].exporters) >= 2
  BY DEF MultipleExportersNoRouting, InPipelines, Finding, FindingAbout
<1>3. p \in DOMAIN c.pipelines /\ Len(exporters) >= 2
  BY <1>2, OfRule
<1>4. exporters \in Seq(ToSet(exporters)) /\ p \in Pipeline
  BY <1>3 DEF Usable, IsConfig, IsPipeline, PipelineLists
<1>5. /\ "missing-memory-limiter" \in R /\ "undefined-component-ref" \in R
      /\ "debug-log-feedback-loop" \in R /\ "connector-loop" \in R
  BY DEF Raises
<1>6. ComponentType(routing) = "routing"
  BY DEF ComponentType
<1> HIDE DEF R, routing
<1>7. Usable(m) /\ DOMAIN m.pipelines = DOMAIN c.pipelines /\ Raised(c, m) \subseteq R
  <2>1. MergedInto(c, m, "connectors", routing, NoSettings)
    BY MergeIs DEF Components
  <2>2. "connectors" \in Components /\ IsConfig(c)
    BY DEF Components, Usable
  <2>3. Raised(c, m) \subseteq R
    BY <1>5, <2>2, MergeRaises
  <2> QED
    BY <2>1, <2>3 DEF MergedInto
<1>8. \A n \in DOMAIN new :
        /\ n \in Pipeline /\ IsPipeline(new[n]) /\ new[n].signal = ComponentType(n)
        /\ new[n].processors = <<>> /\ new[n].receivers # <<>> /\ new[n].exporters # <<>>
  <2>1. ASSUME NEW name \in {"primary", "secondary"}, NEW S, NEW es \in Seq(S), es # <<>>,
               NEW n \in DOMAIN Branch(name, es)
        PROVE  /\ n \in Pipeline /\ IsPipeline(Branch(name, es)[n])
               /\ Branch(name, es)[n].signal = ComponentType(n)
               /\ Branch(name, es)[n].processors = <<>> /\ Branch(name, es)[n].receivers # <<>>
               /\ Branch(name, es)[n].exporters # <<>>
    <3> DEFINE b == [signal |-> ComponentType(n), receivers |-> t, processors |-> <<>>,
                     exporters |-> es]
    <3>1. n = <<ComponentType(p), name>> /\ Branch(name, es)[n] = b
      BY <2>1 DEF PipelineOf, ComponentType
    <3>2. n \in Pipeline
      BY <1>4, <3>1, BranchesAssumption
    <3>3. t \in Seq(ToSet(t)) /\ es \in Seq(ToSet(es)) /\ <<>> \in Seq(ToSet(<<>>))
      <4>1. es \in Seq(ToSet(es))
      BY <2>1, OwnElements
    <4>2. t \in Seq({routing})
      OBVIOUS
    <4>3. <<>> \in Seq({})
      OBVIOUS
    <4> HIDE DEF t
    <4> QED
      BY <4>1, <4>2, <4>3, OwnElements
    <3>4. IsPipeline(b)
      BY <3>3 DEF IsPipeline, IsMap, PipelineLists
    <3>5. t # <<>>
      OBVIOUS
    <3>6. b.signal = ComponentType(n) /\ b.processors = <<>> /\ b.receivers = t /\ b.exporters = es
      OBVIOUS
    <3> HIDE DEF b, Branch, t
    <3> QED
      BY <2>1, <3>1, <3>2, <3>4, <3>5, <3>6
  <2>2. <<Head(exporters)>> \in Seq(ToSet(exporters)) /\ <<Head(exporters)>> # <<>>
        /\ Tail(exporters) \in Seq(ToSet(exporters)) /\ Tail(exporters) # <<>>
    <3> HIDE DEF exporters
    <3>1. exporters # <<>> /\ exporters \in Seq(ToSet(exporters)) /\ Len(exporters) >= 2
      BY <1>3, <1>4
    <3>2. Head(exporters) \in ToSet(exporters) /\ Tail(exporters) \in Seq(ToSet(exporters))
          /\ Len(Tail(exporters)) = Len(exporters) - 1
      BY <3>1, HeadTailProperties
    <3>3. Tail(exporters) # <<>>
      <4>1. Len(exporters) \in Nat /\ Len(<<>>) = 0
        BY <3>1, LenProperties
      <4>2. Len(Tail(exporters)) # 0
        BY <3>1, <3>2, <4>1
      <4> QED
        BY <4>1, <4>2
    <3> QED
      BY <3>2, <3>3
  <2>3. /\ \A n \in DOMAIN one :
             /\ n \in Pipeline /\ IsPipeline(one[n]) /\ one[n].signal = ComponentType(n)
             /\ one[n].processors = <<>> /\ one[n].receivers # <<>> /\ one[n].exporters # <<>>
        /\ \A n \in DOMAIN two :
             /\ n \in Pipeline /\ IsPipeline(two[n]) /\ two[n].signal = ComponentType(n)
             /\ two[n].processors = <<>> /\ two[n].receivers # <<>> /\ two[n].exporters # <<>>
    BY <2>1, <2>2
  <2> HIDE DEF one, two
  <2> QED
    BY <2>3 DEF Over
<1> HIDE DEF new, m
<1>9. Usable(e) /\ p \in DOMAIN e.pipelines /\ Raised(m, e) \subseteq R
  BY <1>3, <1>5, <1>7, <1>8, PipelinesRaise
<1>10. t \in Seq({routing}) /\ Len(t) = 1 /\ t # <<>> /\ Types(t) \cap DebugTypes = {}
  <2>1. t \in Seq({routing}) /\ Len(t) = 1 /\ DOMAIN t = {1} /\ t[1] = routing /\ t # <<>>
    OBVIOUS
  <2> HIDE DEF t
  <2> QED
    BY <1>6, <2>1 DEF Types, DebugTypes
<1> HIDE DEF e, t
<1>11. /\ Usable(d) /\ d.pipelines[p].exporters = t /\ Raised(e, d) \subseteq R
  BY <1>1, <1>5, <1>9, <1>10, ExportersRaise
<1>12. Raised(c, d) \subseteq R
  <2>1. Raised(c, e) \subseteq R
    BY <1>7, <1>9, RaisedInTwoSteps
  <2> QED
    BY <1>11, <2>1, RaisedInTwoSteps
<1>13. f \notin AllRules(d)
  <2> SUFFICES ASSUME f \in AllRules(d) PROVE FALSE
    OBVIOUS
  <2>1. Len(d.pipelines[f.name].exporters) >= 2
    BY <1>2, OfRule
  <2>2. Len(t) >= 2
    BY <1>11, <2>1
  <2> QED
    BY <1>10, <2>2
<1> QED
  BY <1>11, <1>12, <1>13 DEF GoodAdvice, R

-----------------------------------------------------------------------------
(* Static advice: a processor is put in *)

(* What a new list of processors may raise if it is gentle.                *)
LEMMA ProcessorsRaise ==
  ASSUME NEW c, Usable(c), NEW p, p \in DOMAIN c.pipelines, NEW S, NEW t \in Seq(S), NEW R,
         Gentle(Processors(c, p), t),
         ToSet(t) \subseteq ToSet(Processors(c, p)) \cup DOMAIN c.processors
  PROVE  /\ BecomesIn(c, Lists(c, p, "processors", t), p, "processors", t)
         /\ Raised(c, Lists(c, p, "processors", t)) \subseteq R
<1> DEFINE list == "processors"
           d == Lists(c, p, list, t)
<1>1. list \in PipelineLists /\ IsConfig(c)
  BY DEF PipelineLists, Usable
<1>2. ToSet(t) \subseteq ToSet(c.pipelines[p][list]) \cup DOMAIN c[list]
  BY DEF Processors
<1>3. list # "exporters" /\ list = "processors"
  OBVIOUS
<1> HIDE DEF list
<1>4. Raised(c, d) \subseteq R
  BY <1>1, <1>2, <1>3, ListsRaise
<1>5. BecomesIn(c, d, p, list, t)
  BY <1>1, ListsIs
<1> QED
  BY <1>4, <1>5 DEF list

LEMMA InsertIs ==
  ASSUME NEW S, NEW s \in Seq(S), NEW i \in 1 .. Len(s) + 1, NEW e
  PROVE  /\ InsertAt(s, i, e) \in Seq(S \cup {e})
         /\ ToSet(InsertAt(s, i, e)) \subseteq ToSet(s) \cup {e}
         /\ ComponentType(e) \in Types(InsertAt(s, i, e))
<1> DEFINE W == S \cup {e}
           t == InsertAt(s, i, e)
<1>1. s \in Seq(W) /\ e \in W
  <2>1. \A k \in 1 .. Len(s) : s[k] \in W
    BY ElementOfSeq
  <2>2. e \in W
    OBVIOUS
  <2> HIDE DEF W
  <2> QED
    BY <2>1, <2>2
<1> HIDE DEF W, t
<1>2. /\ t \in Seq(W) /\ Len(t) = Len(s) + 1
      /\ \A k \in 1 .. Len(s) + 1 : t[k] = IF k < i THEN s[k] ELSE IF k = i THEN e ELSE s[k - 1]
  BY <1>1, InsertAtIs DEF t
<1>3. DOMAIN t = 1 .. Len(s) + 1 /\ DOMAIN s = 1 .. Len(s) /\ Len(s) \in Nat
  BY <1>2, LenProperties
<1>4. t[i] = e /\ i \in DOMAIN t
  BY <1>2, <1>3
<1>5. ASSUME NEW k \in DOMAIN t PROVE t[k] \in ToSet(s) \cup {e}
  <2>1. k \in Nat /\ i \in Nat /\ k \in 1 .. Len(s) + 1
    BY <1>3
  <2>2. CASE k < i
    BY <1>2, <1>3, <2>1, <2>2 DEF ToSet
  <2>3. CASE k = i
    BY <1>4, <2>3
  <2>4. CASE k > i
    <3>1. t[k] = s[k - 1] /\ k - 1 \in DOMAIN s
      BY <1>2, <1>3, <2>1, <2>4
    <3> QED
      BY <3>1 DEF ToSet
  <2> QED
    BY <2>1, <2>2, <2>3, <2>4
<1>6. ToSet(t) \subseteq ToSet(s) \cup {e}
  BY <1>5 DEF ToSet
<1>7. ComponentType(e) \in Types(t)
  BY <1>4 DEF Types
<1> QED
  BY <1>2, <1>6, <1>7 DEF W, t

(* A processor that a snippet defines and puts into the list.              *)
Inserted(c, d, p, name, settings, t) ==
  /\ Usable(d)
  /\ DOMAIN d.pipelines = DOMAIN c.pipelines
  /\ Processors(d, p) = t
  /\ ComponentType(name) \in Types(t)
  /\ name \in ToSet(t)
  /\ name \in DOMAIN d.processors
  /\ d.processors[name] = Over(settings, Setting(c.processors, name, NoSettings))

(* What putting a processor in does, and raises, whatever its type.        *)
LEMMA InsertAdvice ==
  ASSUME NEW c, Usable(c), NEW p, p \in DOMAIN c.pipelines, NEW name, NEW settings,
         NEW i \in 1 .. Len(Processors(c, p)) + 1, NEW R,
         \/ ComponentType(name) # "memory_limiter"
         \/ DOMAIN settings \cap {"limit_mib", "limit_percentage"} # {},
         Gentle(Processors(c, p), InsertAt(Processors(c, p), i, name))
  PROVE  /\ Inserted(c, Insert(c, p, name, settings, i), p, name, settings,
                     InsertAt(Processors(c, p), i, name))
         /\ Raised(c, Insert(c, p, name, settings, i)) \subseteq R
<1> DEFINE s == Processors(c, p)
           t == InsertAt(s, i, name)
           m == Merge(c, "processors", name, settings)
           d == Insert(c, p, name, settings, i)
<1>1. IsConfig(c) /\ "processors" \in Components
  BY DEF Usable, Components
<1>2. s \in Seq(ToSet(s))
  BY <1>1 DEF Processors, IsConfig, IsPipeline, PipelineLists
<1>3. MergedInto(c, m, "processors", name, settings)
  BY <1>1, MergeIs
<1>4. Raised(c, m) \subseteq R
  BY <1>1, MergeRaises
<1>5. d = Lists(m, p, "processors", t)
  BY DEF Insert
<1> HIDE DEF m
<1>6. /\ Usable(m) /\ m.pipelines = c.pipelines /\ DOMAIN m.processors = DOMAIN c.processors \cup {name}
      /\ m.processors[name] = Over(settings, Setting(c.processors, name, NoSettings))
  BY <1>3 DEF MergedInto
<1>7. Processors(m, p) = s
  BY <1>6 DEF Processors
<1> HIDE DEF s
<1>8. /\ t \in Seq(ToSet(s) \cup {name}) /\ ToSet(t) \subseteq ToSet(s) \cup {name}
      /\ ComponentType(name) \in Types(t)
  BY <1>2, InsertIs DEF s
<1>9. name \in ToSet(t)
  <2>1. s \in Seq(ToSet(s) \cup {name}) /\ name \in ToSet(s) \cup {name}
    BY <1>2
  <2>2. i \in 1 .. Len(s) + 1
    BY DEF s
  <2>3. Len(t) = Len(s) + 1 /\ t[i] = name
    BY <2>1, <2>2, InsertAtIs
  <2>4. i \in DOMAIN t
    BY <1>8, <2>2, <2>3, LenProperties
  <2> QED
    BY <2>3, <2>4 DEF ToSet
<1>10. Gentle(s, t)
  BY DEF s
<1> HIDE DEF t, d
<1>11. ToSet(t) \subseteq ToSet(Processors(m, p)) \cup DOMAIN m.processors
  BY <1>6, <1>7, <1>8
<1>12. Gentle(Processors(m, p), t) /\ p \in DOMAIN m.pipelines
  BY <1>6, <1>7, <1>10
<1>13. BecomesIn(m, d, p, "processors", t) /\ Raised(m, d) \subseteq R
  BY <1>5, <1>6, <1>8, <1>11, <1>12, ProcessorsRaise
<1>14. Raised(c, d) \subseteq R
  BY <1>4, <1>13, RaisedInTwoSteps
<1>15. Inserted(c, d, p, name, settings, t)
  BY <1>6, <1>8, <1>9, <1>13 DEF Inserted, BecomesIn, Components, Processors
<1> QED
  BY <1>14, <1>15 DEF d, t, s

(* The first of each type in a list with one more.                         *)
LEMMA InsertGentle ==
  ASSUME NEW S, NEW s \in Seq(S), NEW i \in 1 .. Len(s) + 1, NEW e,
         ComponentType(e) \notin {"memory_limiter", "batch"} \cup Samplers,
         FirstOf(s, {"memory_limiter"}) = 1 => i > 1
  PROVE  Gentle(s, InsertAt(s, i, e))
<1> DEFINE W == S \cup {e}
           t == InsertAt(s, i, e)
           ml == FirstOf(s, {"memory_limiter"})
           b == FirstOf(s, {"batch"})
           a == FirstOf(s, Samplers)
<1>1. s \in Seq(W) /\ e \in W
  <2>1. \A k \in 1 .. Len(s) : s[k] \in W
    BY ElementOfSeq
  <2> QED
    BY <2>1
<1> HIDE DEF W
<1>2. t \in Seq(W) /\ i \in Nat /\ i >= 1
  BY <1>1, InsertAtIs
<1>3. /\ FirstOf(t, {"memory_limiter"}) = IF ml < i THEN ml ELSE ml + 1
      /\ FirstOf(t, {"batch"}) = IF b < i THEN b ELSE b + 1
      /\ FirstOf(t, Samplers) = IF a < i THEN a ELSE a + 1
  BY <1>1, FirstAfterInsert
<1>4. ml \in Nat /\ b \in Nat /\ a \in Nat
  <2>1. \A types : FirstOf(s, types) \in Nat
    <3> TAKE types
    <3>1. FirstOf(s, types) = 0 \/ FirstOf(s, types) \in DOMAIN s
      BY <1>1, FirstOfIs
    <3> QED
      BY <1>1, <3>1
  <2> QED
    BY <2>1
<1>5. "memory_limiter" \in Types(s) => ml # 0
  BY <1>1, NoneOfThem
<1>6. FirstOf(t, {"memory_limiter"}) # 0 => "memory_limiter" \in Types(t)
  BY <1>2, NoneOfThem
<1> HIDE DEF t, ml, b, a
<1>7. "memory_limiter" \in Types(s) => "memory_limiter" \in Types(t)
  BY <1>2, <1>3, <1>4, <1>5, <1>6
<1>8. FirstOf(t, {"memory_limiter"}) > 1 => ml > 1
  BY <1>2, <1>3, <1>4 DEF ml
<1>9. BatchFirst(t) => b # 0 /\ a # 0 /\ b < a
  <2>1. BatchFirst(t) => FirstOf(t, {"batch"}) # 0 /\ FirstOf(t, Samplers) # 0
                         /\ FirstOf(t, {"batch"}) < FirstOf(t, Samplers)
    BY DEF BatchFirst
  <2> QED
    BY <1>2, <1>3, <1>4, <2>1
<1> QED
  BY <1>7, <1>8, <1>9 DEF Gentle, BatchFirst, ml, b, a, t

(* A first position is a number, 0 if there is none.                       *)
LEMMA FirstIsNat ==
  ASSUME NEW S, NEW s \in Seq(S), NEW types
  PROVE  FirstOf(s, types) \in Nat /\ FirstOf(s, types) <= Len(s)
<1>1. FirstOf(s, types) = 0 \/ FirstOf(s, types) \in 1 .. Len(s)
  BY FirstOfIs
<1> QED
  BY <1>1

(* Components of different types are not first at the same position.       *)
LEMMA DifferentFirst ==
  ASSUME NEW S, NEW s \in Seq(S), NEW A, NEW B, A \cap B = {}, FirstOf(s, A) = FirstOf(s, B)
  PROVE  FirstOf(s, A) = 0
<1>1. CASE FirstOf(s, A) # 0
  <2>1. ComponentType(s[FirstOf(s, A)]) \in A
    BY <1>1, FirstOfIs
  <2>2. ComponentType(s[FirstOf(s, B)]) \in B
    BY <1>1, FirstOfIs
  <2> QED
    BY <2>1, <2>2
<1> QED
  BY <1>1

(* The places that the snippets give their processors are gentle.          *)
LEMMA LimiterFirstIsGentle ==
  ASSUME NEW S, NEW s \in Seq(S), NEW e, ComponentType(e) = "memory_limiter"
  PROVE  Gentle(s, InsertAt(s, 1, e))
<1> DEFINE W == S \cup {e}
           t == InsertAt(s, 1, e)
           b == FirstOf(s, {"batch"})
           a == FirstOf(s, Samplers)
<1>1. s \in Seq(W) /\ e \in W /\ 1 \in 1 .. Len(s) + 1
  <2>1. \A k \in 1 .. Len(s) : s[k] \in W
    BY ElementOfSeq
  <2> QED
    BY <2>1
<1> HIDE DEF W
<1>2. ComponentType(e) \in Types(t)
  BY <1>1, InsertIs
<1>3. FirstOf(t, {"memory_limiter"}) = 1
  <2>1. ComponentType(e) \in {"memory_limiter"}
    OBVIOUS
  <2>2. FirstOf(t, {"memory_limiter"}) =
          IF FirstOf(s, {"memory_limiter"}) \in 1 .. 1 - 1 THEN FirstOf(s, {"memory_limiter"}) ELSE 1
    BY <1>1, <2>1, FirstOfInserted
  <2> QED
    BY <2>2
<1>4. /\ FirstOf(t, {"batch"}) = IF b < 1 THEN b ELSE b + 1
      /\ FirstOf(t, Samplers) = IF a < 1 THEN a ELSE a + 1
  BY <1>1, FirstAfterInsert DEF Samplers
<1>5. b \in Nat /\ a \in Nat
  BY FirstIsNat
<1> HIDE DEF t, b, a
<1>6. BatchFirst(t) => b # 0 /\ a # 0 /\ b < a
  BY <1>4, <1>5 DEF BatchFirst
<1> QED
  BY <1>2, <1>3, <1>6 DEF Gentle, BatchFirst, b, a, t

LEMMA BatchLastIsGentle ==
  ASSUME NEW S, NEW s \in Seq(S), NEW e, ComponentType(e) = "batch", "batch" \notin Types(s)
  PROVE  Gentle(s, InsertAt(s, Len(s) + 1, e))
<1> DEFINE W == S \cup {e}
           i == Len(s) + 1
           t == InsertAt(s, i, e)
           ml == FirstOf(s, {"memory_limiter"})
           a == FirstOf(s, Samplers)
<1>1. s \in Seq(W) /\ e \in W /\ i \in 1 .. Len(s) + 1 /\ Len(s) \in Nat
  <2>1. \A k \in 1 .. Len(s) : s[k] \in W
    BY ElementOfSeq
  <2> QED
    BY <2>1
<1> HIDE DEF W
<1>2. t \in Seq(W)
  BY <1>1, InsertAtIs
<1>3. FirstOf(t, {"batch"}) = i
  <2>1. FirstOf(s, {"batch"}) = 0
    BY NoneOfThem
  <2>2. FirstOf(t, {"batch"}) =
          IF FirstOf(s, {"batch"}) \in 1 .. i - 1 THEN FirstOf(s, {"batch"}) ELSE i
    BY <1>1, FirstOfInserted
  <2> QED
    BY <2>1, <2>2
<1>4. /\ FirstOf(t, {"memory_limiter"}) = IF ml < i THEN ml ELSE ml + 1
      /\ FirstOf(t, Samplers) = IF a < i THEN a ELSE a + 1
  BY <1>1, FirstAfterInsert DEF Samplers
<1>5. ml \in Nat /\ a \in Nat /\ ml <= Len(s) /\ a <= Len(s)
  BY FirstIsNat
<1>6. "memory_limiter" \in Types(s) => ml # 0
  BY <1>1, NoneOfThem
<1>7. FirstOf(t, {"memory_limiter"}) # 0 => "memory_limiter" \in Types(t)
  BY <1>2, NoneOfThem
<1> HIDE DEF t, ml, a
<1>8. ~BatchFirst(t)
  BY <1>1, <1>3, <1>4, <1>5 DEF BatchFirst
<1>9. FirstOf(t, {"memory_limiter"}) = ml
  BY <1>1, <1>4, <1>5
<1> QED
  BY <1>6, <1>7, <1>8, <1>9 DEF Gentle, ml, t

LEMMA SamplerIsGentle ==
  ASSUME NEW S, NEW s \in Seq(S), NEW e, ComponentType(e) \in Samplers,
         Types(s) \cap Samplers = {}, NEW i \in 1 .. Len(s) + 1,
         LET b == FirstOf(s, {"batch"}) IN i = IF b = 0 THEN Len(s) + 1 ELSE b
  PROVE  Gentle(s, InsertAt(s, i, e))
<1> DEFINE W == S \cup {e}
           t == InsertAt(s, i, e)
           ml == FirstOf(s, {"memory_limiter"})
           b == FirstOf(s, {"batch"})
<1>1. s \in Seq(W) /\ e \in W /\ Len(s) \in Nat /\ i \in Nat
  <2>1. \A k \in 1 .. Len(s) : s[k] \in W
    BY ElementOfSeq
  <2> QED
    BY <2>1
<1> HIDE DEF W
<1>2. t \in Seq(W)
  BY <1>1, InsertAtIs
<1>3. FirstOf(t, Samplers) = i
  <2>1. FirstOf(s, Samplers) = 0
    BY NoneOfThem
  <2>2. FirstOf(t, Samplers) =
          IF FirstOf(s, Samplers) \in 1 .. i - 1 THEN FirstOf(s, Samplers) ELSE i
    BY <1>1, FirstOfInserted
  <2> QED
    BY <2>1, <2>2
<1>4. /\ FirstOf(t, {"memory_limiter"}) = IF ml < i THEN ml ELSE ml + 1
      /\ FirstOf(t, {"batch"}) = IF b < i THEN b ELSE b + 1
  BY <1>1, FirstAfterInsert DEF Samplers
<1>5. ml \in Nat /\ b \in Nat /\ ml <= Len(s) /\ b <= Len(s)
  BY FirstIsNat
<1>6. "memory_limiter" \in Types(s) => ml # 0
  BY <1>1, NoneOfThem
<1>7. FirstOf(t, {"memory_limiter"}) # 0 => "memory_limiter" \in Types(t)
  BY <1>2, NoneOfThem
<1>8. ml = b => ml = 0
  BY DifferentFirst
<1>9. i = IF b = 0 THEN Len(s) + 1 ELSE b
  OBVIOUS
<1> HIDE DEF t, ml, b
<1>10. ~BatchFirst(t)
  BY <1>1, <1>3, <1>4, <1>5, <1>9 DEF BatchFirst
<1>11. FirstOf(t, {"memory_limiter"}) > 1 => ml > 1
  BY <1>1, <1>4, <1>5, <1>8, <1>9
<1>12. ml # 0 => FirstOf(t, {"memory_limiter"}) # 0
  BY <1>1, <1>4, <1>5
<1> QED
  BY <1>6, <1>7, <1>10, <1>11, <1>12 DEF Gentle, ml, t

(* Processors are a sequence of what is in it.                             *)
LEMMA SeqOfProcessors ==
  ASSUME NEW c, Usable(c), NEW p, p \in DOMAIN c.pipelines
  PROVE  /\ Processors(c, p) \in Seq(ToSet(Processors(c, p)))
         /\ Len(Processors(c, p)) \in Nat
<1>1. Processors(c, p) \in Seq(ToSet(Processors(c, p)))
  BY DEF Processors, Usable, IsConfig, IsPipeline, PipelineLists
<1> QED
  BY <1>1, LenProperties

LEMMA LimiterAdvice ==
  ASSUME NEW c, Usable(c), NEW f \in AllRules(c),
         f.rule \in {"missing-memory-limiter", "tail-sampling-without-memory-limiter"},
         NEW d \in Advice(c, f)
  PROVE  GoodAdvice(c, f, d)
<1> DEFINE p == f.name
           name == <<"memory_limiter", "">>
           s == Processors(c, p)
           t == InsertAt(s, 1, name)
<1>1. d = Insert(c, p, name, MemoryLimits, 1)
  <2>1. Advice(c, f) = {AddMemoryLimiter(c, f.name)}
    <3>1. CASE f.rule = "missing-memory-limiter"
      BY <3>1 DEF Advice
    <3>2. CASE f.rule = "tail-sampling-without-memory-limiter"
      BY <3>2 DEF Advice
    <3> QED
      BY <3>1, <3>2
  <2>2. d = AddMemoryLimiter(c, p)
    BY <2>1
  <2>3. AddMemoryLimiter(c, p) = Insert(c, p, name, MemoryLimits, 1)
    BY DEF AddMemoryLimiter
  <2> HIDE DEF name
  <2> QED
    BY <2>2, <2>3
<1>2. \A e : f \in AllRules(e) => /\ f.name \in DOMAIN e.pipelines
                                  /\ "memory_limiter" \notin Types(Processors(e, f.name))
  <2>1. \A e, g : \/ g \in MissingMemoryLimiter(e)
                  \/ g \in TailSamplingWithoutMemoryLimiter(e)
                  => /\ g.name \in DOMAIN e.pipelines
                     /\ "memory_limiter" \notin Types(Processors(e, g.name))
    BY DEF MissingMemoryLimiter, TailSamplingWithoutMemoryLimiter, InPipelines, Finding,
           FindingAbout, Processors
  <2> QED
    BY <2>1, OfRule
<1>3. ComponentType(name) = "memory_limiter"
  BY DEF ComponentType
<1> HIDE DEF name
<1>4. p \in DOMAIN c.pipelines
  BY <1>2
<1>5. s \in Seq(ToSet(s)) /\ Len(s) \in Nat /\ 1 \in 1 .. Len(s) + 1
  BY <1>4, SeqOfProcessors
<1>6. Gentle(s, t)
  BY <1>3, <1>5, LimiterFirstIsGentle
<1>7. DOMAIN MemoryLimits \cap {"limit_mib", "limit_percentage"} # {}
  BY DEF MemoryLimits
<1>8. Inserted(c, d, p, name, MemoryLimits, t) /\ Raised(c, d) \subseteq Raises(f.rule)
  BY <1>1, <1>4, <1>5, <1>6, <1>7, InsertAdvice
<1>9. Usable(d) /\ "memory_limiter" \in Types(Processors(d, p))
  BY <1>3, <1>8 DEF Inserted
<1>10. f \notin AllRules(d)
  BY <1>2, <1>9
<1> QED
  BY <1>8, <1>9, <1>10 DEF GoodAdvice

LEMMA BatchAdvice ==
  ASSUME NEW c, Usable(c), NEW f \in AllRules(c), f.rule = "missing-batch",
         NEW d \in Advice(c, f)
  PROVE  GoodAdvice(c, f, d)
<1> DEFINE p == f.name
           name == <<"batch", "">>
           s == Processors(c, p)
           t == InsertAt(s, Len(s) + 1, name)
<1>1. d = Insert(c, p, name, NoSettings, Len(s) + 1)
  <2>1. Advice(c, f) = {AddBatch(c, f.name)}
    BY DEF Advice
  <2>2. d = AddBatch(c, p)
    BY <2>1
  <2>3. AddBatch(c, p) = Insert(c, p, name, NoSettings, Len(s) + 1)
    BY DEF AddBatch
  <2> HIDE DEF name
  <2> QED
    BY <2>2, <2>3
<1>2. \A e : f \in AllRules(e) => /\ f.name \in DOMAIN e.pipelines
                                  /\ "batch" \notin Types(Processors(e, f.name))
  <2>1. \A e, g : g \in MissingBatch(e)
                  => /\ g.name \in DOMAIN e.pipelines
                     /\ "batch" \notin Types(Processors(e, g.name))
    BY DEF MissingBatch, InPipelines, Finding, FindingAbout, Processors
  <2> QED
    BY <2>1, OfRule
<1>3. ComponentType(name) = "batch"
  BY DEF ComponentType
<1> HIDE DEF name
<1>4. p \in DOMAIN c.pipelines
  BY <1>2
<1>5. s \in Seq(ToSet(s)) /\ Len(s) \in Nat /\ Len(s) + 1 \in 1 .. Len(s) + 1
  BY <1>4, SeqOfProcessors
<1>6. Gentle(s, t)
  BY <1>2, <1>3, <1>5, BatchLastIsGentle
<1>8. Inserted(c, d, p, name, NoSettings, t) /\ Raised(c, d) \subseteq Raises(f.rule)
  BY <1>1, <1>3, <1>4, <1>5, <1>6, InsertAdvice
<1>9. Usable(d) /\ "batch" \in Types(Processors(d, p))
  BY <1>3, <1>8 DEF Inserted
<1>10. f \notin AllRules(d)
  BY <1>2, <1>9
<1> QED
  BY <1>8, <1>9, <1>10 DEF GoodAdvice

(* The place before the batch processor is one of the list.                *)
LEMMA BeforeBatchIs ==
  ASSUME NEW c, Usable(c), NEW p, p \in DOMAIN c.pipelines
  PROVE  BeforeBatch(c, p) \in 1 .. Len(Processors(c, p)) + 1
<1>1. /\ FirstOf(Processors(c, p), {"batch"}) \in Nat /\ Len(Processors(c, p)) \in Nat
      /\ FirstOf(Processors(c, p), {"batch"}) <= Len(Processors(c, p))
  BY SeqOfProcessors, FirstIsNat
<1> QED
  BY <1>1 DEF BeforeBatch

LEMMA SamplerAdvice ==
  ASSUME NEW c, Usable(c), NEW f \in AllRules(c), f.rule = "no-trace-sampling",
         NEW d \in Advice(c, f)
  PROVE  GoodAdvice(c, f, d)
<1> DEFINE p == f.name
           name == <<"probabilistic_sampler", "">>
           s == Processors(c, p)
           i == BeforeBatch(c, p)
           t == InsertAt(s, i, name)
<1>1. d = Insert(c, p, name, NoSettings, i)
  <2>1. Advice(c, f) = {AddSampler(c, f.name)}
    BY DEF Advice
  <2>2. d = AddSampler(c, p)
    BY <2>1
  <2>3. AddSampler(c, p) = Insert(c, p, name, NoSettings, i)
    BY DEF AddSampler
  <2> HIDE DEF name, i
  <2> QED
    BY <2>2, <2>3
<1>2. \A e : f \in AllRules(e) => /\ f.name \in DOMAIN e.pipelines
                                  /\ Types(Processors(e, f.name)) \cap Samplers = {}
  <2>1. \A e, g : g \in NoTraceSampling(e)
                  => /\ g.name \in DOMAIN e.pipelines
                     /\ Types(Processors(e, g.name)) \cap Samplers = {}
    BY DEF NoTraceSampling, InPipelines, Finding, FindingAbout, Processors
  <2> QED
    BY <2>1, OfRule
<1>3. ComponentType(name) = "probabilistic_sampler" /\ ComponentType(name) \in Samplers
  BY DEF ComponentType, Samplers
<1> HIDE DEF name
<1>4. p \in DOMAIN c.pipelines
  BY <1>2
<1>5. s \in Seq(ToSet(s)) /\ Len(s) \in Nat /\ i \in 1 .. Len(s) + 1
  BY <1>4, SeqOfProcessors, BeforeBatchIs
<1>6. i = IF FirstOf(s, {"batch"}) = 0 THEN Len(s) + 1 ELSE FirstOf(s, {"batch"})
  BY DEF BeforeBatch
<1>7. Types(s) \cap Samplers = {}
  BY <1>2
<1> HIDE DEF i
<1>8. Gentle(s, t)
  BY <1>3, <1>5, <1>6, <1>7, SamplerIsGentle
<1>9. Inserted(c, d, p, name, NoSettings, t) /\ Raised(c, d) \subseteq Raises(f.rule)
  BY <1>1, <1>3, <1>4, <1>5, <1>8, InsertAdvice
<1>10. Usable(d) /\ Types(Processors(d, p)) \cap Samplers # {}
  BY <1>3, <1>9 DEF Inserted
<1>11. f \notin AllRules(d)
  BY <1>2, <1>10
<1> QED
  BY <1>9, <1>10, <1>11 DEF GoodAdvice

LEMMA SeverityAdvice ==
  ASSUME NEW c, Usable(c), NEW f \in AllRules(c), f.rule = "no-log-severity-filter",
         NEW d \in Advice(c, f)
  PROVE  GoodAdvice(c, f, d)
<1> DEFINE p == f.name
           name == <<"filter", "severity">>
           settings == [error_mode |-> "ignore"]
           s == Processors(c, p)
           i == BeforeBatch(c, p)
           t == InsertAt(s, i, name)
<1>1. d = Insert(c, p, name, settings, i)
  <2>1. Advice(c, f) = {AddSeverityFilter(c, f.name)}
    BY DEF Advice
  <2>2. d = AddSeverityFilter(c, p)
    BY <2>1
  <2>3. AddSeverityFilter(c, p) = Insert(c, p, name, settings, i)
    BY DEF AddSeverityFilter
  <2> HIDE DEF name, i, settings
  <2> QED
    BY <2>2, <2>3
<1>2. \A e : f \in AllRules(e) => /\ f.name \in DOMAIN e.pipelines
                                  /\ "filter" \notin Types(Processors(e, f.name))
  <2>1. \A e, g : g \in NoLogSeverityFilter(e)
                  => /\ g.name \in DOMAIN e.pipelines
                     /\ "filter" \notin Types(Processors(e, g.name))
    BY DEF NoLogSeverityFilter, InPipelines, Finding, FindingAbout, Processors
  <2> QED
    BY <2>1, OfRule
<1>3. ComponentType(name) = "filter"
  BY DEF ComponentType
<1>4. ComponentType(name) \notin {"memory_limiter", "batch"} \cup Samplers
  BY <1>3 DEF Samplers
<1> HIDE DEF name, settings
<1>5. p \in DOMAIN c.pipelines
  BY <1>2
<1>6. s \in Seq(ToSet(s)) /\ Len(s) \in Nat /\ i \in 1 .. Len(s) + 1
  BY <1>5, SeqOfProcessors, BeforeBatchIs
<1>7. i = IF FirstOf(s, {"batch"}) = 0 THEN Len(s) + 1 ELSE FirstOf(s, {"batch"})
  BY DEF BeforeBatch
<1>8. FirstOf(s, {"memory_limiter"}) = 1 => i > 1
  <2>1. FirstOf(s, {"memory_limiter"}) \in Nat /\ FirstOf(s, {"memory_limiter"}) <= Len(s)
    BY <1>6, FirstIsNat
  <2>2. FirstOf(s, {"memory_limiter"}) = FirstOf(s, {"batch"}) => FirstOf(s, {"memory_limiter"}) = 0
    BY <1>6, DifferentFirst
  <2>3. FirstOf(s, {"batch"}) \in Nat
    BY <1>6, FirstIsNat
  <2> HIDE DEF s, i
  <2> QED
    BY <1>6, <1>7, <2>1, <2>2, <2>3
<1> HIDE DEF i
<1>9. Gentle(s, t)
  BY <1>4, <1>6, <1>8, InsertGentle
<1>10. Inserted(c, d, p, name, settings, t) /\ Raised(c, d) \subseteq Raises(f.rule)
  BY <1>1, <1>3, <1>5, <1>6, <1>9, InsertAdvice
<1>11. Usable(d) /\ "filter" \in Types(Processors(d, p))
  BY <1>3, <1>10 DEF Inserted
<1>12. f \notin AllRules(d)
  BY <1>2, <1>11
<1> QED
  BY <1>10, <1>11, <1>12 DEF GoodAdvice

LEMMA HealthFilterAdvice ==
  ASSUME NEW c, Usable(c), NEW f \in AllRules(c), f.rule = "no-health-check-trace-filter",
         NEW d \in Advice(c, f)
  PROVE  GoodAdvice(c, f, d)
<1> DEFINE p == f.name
           name == <<"filter", "health">>
           settings == [error_mode |-> "ignore", traces_span |-> {"health"}]
           s == Processors(c, p)
           i == AfterMemoryLimiter(c, p)
           t == InsertAt(s, i, name)
<1>1. d = Insert(c, p, name, settings, i)
  <2>1. Advice(c, f) = {AddHealthFilter(c, f.name)}
    BY DEF Advice
  <2>2. d = AddHealthFilter(c, p)
    BY <2>1
  <2>3. AddHealthFilter(c, p) = Insert(c, p, name, settings, i)
    BY DEF AddHealthFilter
  <2> HIDE DEF name, i, settings
  <2> QED
    BY <2>2, <2>3
<1>2. \A e : f \in AllRules(e) =>
        /\ f.name \in DOMAIN e.pipelines
        /\ \A x \in ToSet(Processors(e, f.name)) :
             ~ /\ ComponentType(x) = "filter"
               /\ x \in DOMAIN e.processors
               /\ FilterDropsHealthSpans(e.processors[x])
  <2>1. \A e, g : g \in NoHealthCheckTraceFilter(e) =>
          /\ g.name \in DOMAIN e.pipelines
          /\ \A x \in ToSet(Processors(e, g.name)) :
               ~ /\ ComponentType(x) = "filter"
                 /\ x \in DOMAIN e.processors
                 /\ FilterDropsHealthSpans(e.processors[x])
    BY DEF NoHealthCheckTraceFilter, InPipelines, Finding, FindingAbout, Processors, ToSet
  <2> QED
    BY <2>1, OfRule
<1>3. ComponentType(name) = "filter"
  BY DEF ComponentType
<1>4. ComponentType(name) \notin {"memory_limiter", "batch"} \cup Samplers
  BY <1>3 DEF Samplers
<1>5. DOMAIN settings = {"error_mode", "traces_span"} /\ settings["traces_span"] = {"health"}
  OBVIOUS
<1> HIDE DEF name, settings
<1>6. p \in DOMAIN c.pipelines
  BY <1>2
<1>7. /\ s \in Seq(ToSet(s)) /\ Len(s) \in Nat
      /\ FirstOf(s, {"memory_limiter"}) \in Nat /\ FirstOf(s, {"memory_limiter"}) <= Len(s)
  BY <1>6, SeqOfProcessors, FirstIsNat
<1>8. i = FirstOf(s, {"memory_limiter"}) + 1
  BY DEF AfterMemoryLimiter
<1> HIDE DEF i
<1>9. i \in 1 .. Len(s) + 1 /\ (FirstOf(s, {"memory_limiter"}) = 1 => i > 1)
  BY <1>7, <1>8
<1>10. Gentle(s, t)
  BY <1>4, <1>7, <1>9, InsertGentle
<1>11. Inserted(c, d, p, name, settings, t) /\ Raised(c, d) \subseteq Raises(f.rule)
  BY <1>1, <1>3, <1>6, <1>9, <1>10, InsertAdvice
<1>12. Usable(d) /\ name \in ToSet(Processors(d, p)) /\ name \in DOMAIN d.processors
      /\ d.processors[name] = Over(settings, Setting(c.processors, name, NoSettings))
  BY <1>11 DEF Inserted
<1>13. FilterDropsHealthSpans(d.processors[name])
  BY <1>5, <1>12 DEF FilterDropsHealthSpans, Setting, Over
<1>14. f \notin AllRules(d)
  BY <1>2, <1>3, <1>12, <1>13
<1> QED
  BY <1>11, <1>12, <1>14 DEF GoodAdvice

-----------------------------------------------------------------------------
(* Static advice: a processor is moved *)

(* A processor that is moved from position i to position j.                *)
LEMMA MoveIs ==
  ASSUME NEW S, NEW s \in Seq(S), NEW i \in DOMAIN s, NEW j \in 1 .. Len(s)
  PROVE  /\ RemoveAt(s, i) \in Seq(S) /\ Len(RemoveAt(s, i)) = Len(s) - 1
         /\ j \in 1 .. Len(RemoveAt(s, i)) + 1 /\ s[i] \in S
         /\ InsertAt(RemoveAt(s, i), j, s[i]) \in Seq(S)
<1>1. Len(s) \in Nat /\ s[i] \in S
  BY LenProperties, ElementOfSeq
<1>2. RemoveAt(s, i) \in Seq(S) /\ Len(RemoveAt(s, i)) = Len(s) - 1
  BY RemoveAtIs
<1>3. j \in 1 .. Len(RemoveAt(s, i)) + 1
  BY <1>1, <1>2
<1> QED
  BY <1>1, <1>2, <1>3, InsertAtIs

(* Where the first component of other types is after a move.               *)
LEMMA MoveOther ==
  ASSUME NEW S, NEW s \in Seq(S), NEW i \in DOMAIN s, NEW j \in 1 .. Len(s), NEW types,
         ComponentType(s[i]) \notin types
  PROVE  /\ FirstOf(InsertAt(RemoveAt(s, i), j, s[i]), types) =
              LET k == FirstOf(s, types)
                  r == IF k < i THEN k ELSE k - 1
              IN  IF r < j THEN r ELSE r + 1
         /\ FirstOf(s, types) # i
<1> DEFINE r == RemoveAt(s, i)
<1>1. r \in Seq(S) /\ j \in 1 .. Len(r) + 1 /\ s[i] \in S
  BY MoveIs
<1>2. FirstOf(r, types) = IF FirstOf(s, types) < i THEN FirstOf(s, types) ELSE FirstOf(s, types) - 1
  BY FirstAfterRemove
<1>3. FirstOf(s, types) # i
  BY FirstOfIs
<1> HIDE DEF r
<1>4. FirstOf(InsertAt(r, j, s[i]), types) =
        IF FirstOf(r, types) < j THEN FirstOf(r, types) ELSE FirstOf(r, types) + 1
  BY <1>1, FirstAfterInsert
<1> QED
  BY <1>2, <1>3, <1>4 DEF r

(* Where the first one of its own types is.                                *)
LEMMA MoveOwn ==
  ASSUME NEW S, NEW s \in Seq(S), NEW types, FirstOf(s, types) # 0, NEW j \in 1 .. Len(s)
  PROVE  LET i == FirstOf(s, types)
             k == FirstOf(RemoveAt(s, i), types)
         IN  FirstOf(InsertAt(RemoveAt(s, i), j, s[i]), types) = IF k \in 1 .. j - 1 THEN k ELSE j
<1> DEFINE i == FirstOf(s, types)
           r == RemoveAt(s, i)
<1>1. i \in DOMAIN s /\ ComponentType(s[i]) \in types
  BY FirstOfIs
<1> HIDE DEF i
<1>2. r \in Seq(S) /\ j \in 1 .. Len(r) + 1 /\ s[i] \in S
  BY <1>1, MoveIs
<1> HIDE DEF r
<1>3. FirstOf(InsertAt(r, j, s[i]), types) = IF FirstOf(r, types) \in 1 .. j - 1 THEN FirstOf(r, types) ELSE j
  BY <1>1, <1>2, FirstOfInserted
<1> QED
  BY <1>3 DEF i, r

Moved(s, i, j) == InsertAt(RemoveAt(s, i), j, s[i])

(* What a move does, and raises, if it is gentle.                          *)
LEMMA MoveAdvice ==
  ASSUME NEW c, Usable(c), NEW p, p \in DOMAIN c.pipelines,
         NEW i, i \in DOMAIN Processors(c, p), NEW j, j \in 1 .. Len(Processors(c, p)), NEW R,
         Gentle(Processors(c, p), Moved(Processors(c, p), i, j))
  PROVE  /\ Usable(Move(c, p, i, j))
         /\ Processors(Move(c, p, i, j), p) = Moved(Processors(c, p), i, j)
         /\ Raised(c, Move(c, p, i, j)) \subseteq R
<1> DEFINE s == Processors(c, p)
           t == Moved(s, i, j)
           d == Move(c, p, i, j)
<1>1. s \in Seq(ToSet(s))
  BY SeqOfProcessors
<1>2. t \in Seq(ToSet(s))
  <2> HIDE DEF s
  <2> SUFFICES InsertAt(RemoveAt(s, i), j, s[i]) \in Seq(ToSet(s))
    BY DEF Moved
  <2> QED
    BY <1>1, MoveIs DEF s
<1>3. d = Lists(c, p, "processors", t)
  BY DEF Move, Moved
<1>4. Gentle(s, t)
  OBVIOUS
<1> HIDE DEF s, t, d
<1>5. ToSet(t) \subseteq ToSet(s) \cup DOMAIN c.processors
  BY <1>2 DEF ToSet
<1>6. BecomesIn(c, d, p, "processors", t) /\ Raised(c, d) \subseteq R
  BY <1>2, <1>3, <1>4, <1>5, ProcessorsRaise DEF s
<1>7. Usable(d) /\ Processors(d, p) = t
  BY <1>6 DEF BecomesIn, Processors
<1> QED
  BY <1>6, <1>7 DEF s, t, d

LEMMA MoveLimiterAdvice ==
  ASSUME NEW c, Usable(c), NEW f \in AllRules(c), f.rule = "memory-limiter-not-first",
         NEW d \in Advice(c, f)
  PROVE  GoodAdvice(c, f, d)
<1> DEFINE p == f.name
           s == Processors(c, p)
           i == FirstOf(s, {"memory_limiter"})
           t == Moved(s, i, 1)
           b == FirstOf(s, {"batch"})
           a == FirstOf(s, Samplers)
<1>1. d = Move(c, p, i, 1)
  BY DEF Advice, MoveMemoryLimiterFirst
<1>2. \A e : f \in AllRules(e) => /\ f.name \in DOMAIN e.pipelines
                                  /\ FirstOf(Processors(e, f.name), {"memory_limiter"}) > 1
  <2>1. \A e, g : g \in MemoryLimiterNotFirst(e) =>
          /\ g.name \in DOMAIN e.pipelines
          /\ FirstOf(Processors(e, g.name), {"memory_limiter"}) > 1
    BY DEF MemoryLimiterNotFirst, InPipelines, Finding, FindingAbout, Processors
  <2> QED
    BY <2>1, OfRule
<1>3. p \in DOMAIN c.pipelines /\ i > 1
  BY <1>2
<1>4. s \in Seq(ToSet(s)) /\ Len(s) \in Nat /\ i \in Nat /\ i <= Len(s) /\ b \in Nat /\ a \in Nat
  BY <1>3, SeqOfProcessors, FirstIsNat
<1>5. 1 \in 1 .. Len(s) /\ i # 0
  BY <1>3, <1>4
<1>6. i \in DOMAIN s /\ ComponentType(s[i]) = "memory_limiter"
  BY <1>4, <1>5, FirstOfIs
<1>7. FirstOf(t, {"memory_limiter"}) = 1
  <2> DEFINE k == FirstOf(RemoveAt(s, i), {"memory_limiter"})
  <2>1. FirstOf(t, {"memory_limiter"}) = IF k \in 1 .. 1 - 1 THEN k ELSE 1
    BY <1>4, <1>5, MoveOwn DEF Moved
  <2> HIDE DEF k
  <2> QED
    BY <2>1
<1>8. /\ FirstOf(t, {"batch"}) = LET r == IF b < i THEN b ELSE b - 1 IN IF r < 1 THEN r ELSE r + 1
      /\ b # i
      /\ FirstOf(t, Samplers) = LET r == IF a < i THEN a ELSE a - 1 IN IF r < 1 THEN r ELSE r + 1
      /\ a # i
  <2>1. ComponentType(s[i]) \notin {"batch"} /\ ComponentType(s[i]) \notin Samplers
    BY <1>6 DEF Samplers
  <2> HIDE DEF i, s
  <2> QED
    BY <1>4, <1>5, <1>6, <2>1, MoveOther DEF Moved
<1>9. t \in Seq(ToSet(s))
  BY <1>4, <1>5, <1>6, MoveIs DEF Moved
<1>10. "memory_limiter" \in Types(t)
  BY <1>7, <1>9, NoneOfThem
<1>11. BatchFirst(t) => b # 0 /\ a # 0 /\ b < a
  <2> HIDE DEF t, i, b, a
  <2> QED
    BY <1>3, <1>4, <1>8 DEF BatchFirst
<1>12. Gentle(s, t)
  <2> HIDE DEF t
  <2> QED
    BY <1>7, <1>10, <1>11 DEF Gentle, BatchFirst
<1>13. /\ Usable(d) /\ Processors(d, p) = t /\ Raised(c, d) \subseteq Raises(f.rule)
  <2> HIDE DEF i
  <2> QED
    BY <1>1, <1>3, <1>5, <1>6, <1>12, MoveAdvice
<1>14. f \notin AllRules(d)
  <2> HIDE DEF t
  <2> QED
    BY <1>2, <1>7, <1>13
<1> QED
  BY <1>13, <1>14 DEF GoodAdvice

(* With a second batch processor in the list the advice need not work.     *)
LEMMA SecondBatch ==
  ASSUME NEW c, NEW d, NEW f, f.rule \in {"batch-before-sampling", "batch-not-near-end"},
         NEW i, i \in DOMAIN Processors(c, f.name), NEW j, j \in DOMAIN Processors(c, f.name),
         i # j, ComponentType(Processors(c, f.name)[i]) = "batch",
         ComponentType(Processors(c, f.name)[j]) = "batch"
  PROVE  Unaddressed(f, c, d)
<1>1. {ComponentType(Processors(c, f.name)[k]) : k \in {i, j}} = {"batch"}
  OBVIOUS
<1> QED
  BY <1>1 DEF Unaddressed

LEMMA MoveBatchAdvice ==
  ASSUME NEW c, Usable(c), NEW f \in AllRules(c), f.rule = "batch-before-sampling",
         NEW d \in Advice(c, f)
  PROVE  GoodAdvice(c, f, d)
<1> DEFINE p == f.name
           s == Processors(c, p)
           i == FirstOf(s, {"batch"})
           j == LastOf(s, Samplers)
           t == Moved(s, i, j)
           m == FirstOf(s, {"memory_limiter"})
           a == FirstOf(s, Samplers)
           k == FirstOf(RemoveAt(s, i), {"batch"})
<1>1. d = Move(c, p, i, j)
  BY DEF Advice, MoveBatchAfterSampling
<1>2. \A e : f \in AllRules(e) => /\ f.name \in DOMAIN e.pipelines
                                  /\ BatchFirst(Processors(e, f.name))
  <2>1. \A e, g : g \in BatchBeforeSampling(e) =>
          g.name \in DOMAIN e.pipelines /\ BatchFirst(Processors(e, g.name))
    BY DEF BatchBeforeSampling, InPipelines, Finding, FindingAbout, Processors, BatchFirst
  <2> QED
    BY <2>1, OfRule
<1>3. p \in DOMAIN c.pipelines /\ i # 0 /\ a # 0 /\ i < a
  BY <1>2 DEF BatchFirst
<1>4. s \in Seq(ToSet(s)) /\ Len(s) \in Nat /\ i \in Nat /\ i <= Len(s) /\ m \in Nat /\ a \in Nat
  BY <1>3, SeqOfProcessors, FirstIsNat
<1>5. a \in DOMAIN s /\ ComponentType(s[a]) \in Samplers
      /\ i \in DOMAIN s /\ ComponentType(s[i]) = "batch"
  BY <1>3, <1>4, FirstOfIs
<1>6. j \in 1 .. Len(s) /\ \A x \in DOMAIN s : x > j => ComponentType(s[x]) \notin Samplers
  BY <1>4, <1>5, LastOfIs
<1> HIDE DEF j, i, s
<1>7. j >= a
  BY <1>4, <1>5, <1>6
<1>8. FirstOf(t, {"batch"}) = IF k \in 1 .. j - 1 THEN k ELSE j
  BY <1>3, <1>4, <1>6, MoveOwn DEF Moved, i
<1>9. k = 0 \/ (k >= i /\ k + 1 \in DOMAIN s /\ ComponentType(s[k + 1]) \in {"batch"})
  BY <1>3, <1>4, FirstOfRest DEF i
<1>10. /\ FirstOf(t, {"memory_limiter"}) = LET r == IF m < i THEN m ELSE m - 1 IN IF r < j THEN r ELSE r + 1
       /\ m # i
       /\ FirstOf(t, Samplers) = LET r == IF a < i THEN a ELSE a - 1 IN IF r < j THEN r ELSE r + 1
       /\ a # i
  <2>1. ComponentType(s[i]) \notin {"memory_limiter"} /\ ComponentType(s[i]) \notin Samplers
    BY <1>5 DEF Samplers
  <2> QED
    BY <1>4, <1>5, <1>6, <2>1, MoveOther DEF Moved
<1>11. t \in Seq(ToSet(s))
  BY <1>4, <1>5, <1>6, MoveIs DEF Moved
<1>12. k \in Nat
  <2>1. RemoveAt(s, i) \in Seq(ToSet(s))
    BY <1>4, <1>5, <1>6, MoveIs
  <2> QED
    BY <2>1, FirstIsNat
<1> HIDE DEF t, m, a, k
<1>13. "memory_limiter" \in Types(s) => "memory_limiter" \in Types(t)
  <2>1. "memory_limiter" \in Types(s) => m # 0
    BY <1>4, NoneOfThem DEF m
  <2>2. FirstOf(t, {"memory_limiter"}) # 0 => "memory_limiter" \in Types(t)
    BY <1>11, NoneOfThem
  <2>3. m # 0 => FirstOf(t, {"memory_limiter"}) # 0
    BY <1>3, <1>4, <1>6, <1>10
  <2> QED
    BY <2>1, <2>2, <2>3
<1>14. FirstOf(t, {"memory_limiter"}) > 1 => m > 1
  BY <1>3, <1>4, <1>6, <1>7, <1>10
<1>15. Gentle(s, t)
  <2>1. BatchFirst(s)
    BY <1>2 DEF s
  <2> QED
    BY <1>13, <1>14, <2>1 DEF Gentle, m
<1>16. /\ Usable(d) /\ Processors(d, p) = t /\ Raised(c, d) \subseteq Raises(f.rule)
  BY <1>1, <1>3, <1>5, <1>6, <1>15, MoveAdvice DEF s, t
<1>17. CASE k = 0
  <2>1. FirstOf(t, {"batch"}) = j
    BY <1>8, <1>17
  <2>2. FirstOf(t, Samplers) = a - 1
    BY <1>3, <1>4, <1>6, <1>7, <1>10
  <2>3. ~(j < a - 1)
    BY <1>4, <1>6, <1>7
  <2>4. ~BatchFirst(t)
    BY <2>1, <2>2, <2>3 DEF BatchFirst
  <2>5. f \notin AllRules(d)
    BY <1>2, <1>16, <2>4
  <2> QED
    BY <1>16, <2>5 DEF GoodAdvice
<1>18. CASE k # 0
  <2>1. k >= i /\ k + 1 \in DOMAIN s /\ ComponentType(s[k + 1]) = "batch"
    BY <1>9, <1>18
  <2>2. i # k + 1
    BY <1>4, <1>12, <2>1
  <2>3. Unaddressed(f, c, d)
    BY <1>5, <2>1, <2>2, SecondBatch DEF s
  <2> QED
    BY <1>16, <2>3 DEF GoodAdvice
<1> QED
  BY <1>17, <1>18

LEMMA BatchToEndAdvice ==
  ASSUME NEW c, Usable(c), NEW f \in AllRules(c), f.rule = "batch-not-near-end",
         NEW d \in Advice(c, f)
  PROVE  GoodAdvice(c, f, d)
<1> DEFINE p == f.name
           s == Processors(c, p)
           i == FirstOf(s, {"batch"})
           j == Len(s)
           t == Moved(s, i, j)
           m == FirstOf(s, {"memory_limiter"})
           a == FirstOf(s, Samplers)
           k == FirstOf(RemoveAt(s, i), {"batch"})
<1>1. d = Move(c, p, i, j)
  BY DEF Advice, MoveBatchToEnd
<1>2. \A e : f \in AllRules(e) =>
        /\ f.name \in DOMAIN e.pipelines
        /\ FirstOf(Processors(e, f.name), {"batch"}) # 0
        /\ FirstOf(Processors(e, f.name), {"batch"}) < Len(Processors(e, f.name)) - 1
  <2>1. \A e, g : g \in BatchNotNearEnd(e) =>
          /\ g.name \in DOMAIN e.pipelines
          /\ FirstOf(Processors(e, g.name), {"batch"}) # 0
          /\ FirstOf(Processors(e, g.name), {"batch"}) < Len(Processors(e, g.name)) - 1
    BY DEF BatchNotNearEnd, InPipelines, Finding, FindingAbout, Processors
  <2> QED
    BY <2>1, OfRule
<1>3. p \in DOMAIN c.pipelines /\ i # 0 /\ i < j - 1
  BY <1>2
<1>4. /\ s \in Seq(ToSet(s)) /\ Len(s) \in Nat /\ i \in Nat /\ i <= Len(s) /\ m \in Nat /\ a \in Nat
      /\ m <= Len(s) /\ a <= Len(s)
  BY <1>3, SeqOfProcessors, FirstIsNat
<1>5. i \in DOMAIN s /\ ComponentType(s[i]) = "batch"
  BY <1>3, <1>4, FirstOfIs
<1>6. j \in 1 .. Len(s)
  BY <1>3, <1>4
<1>7. j = Len(s)
  OBVIOUS
<1> HIDE DEF j, i, s
<1>8. FirstOf(t, {"batch"}) = IF k \in 1 .. j - 1 THEN k ELSE j
  BY <1>3, <1>4, <1>6, MoveOwn DEF Moved, i
<1>9. k = 0 \/ (k >= i /\ k + 1 \in DOMAIN s /\ ComponentType(s[k + 1]) \in {"batch"})
  BY <1>3, <1>4, FirstOfRest DEF i
<1>10. /\ FirstOf(t, {"memory_limiter"}) = LET r == IF m < i THEN m ELSE m - 1 IN IF r < j THEN r ELSE r + 1
       /\ m # i
       /\ FirstOf(t, Samplers) = LET r == IF a < i THEN a ELSE a - 1 IN IF r < j THEN r ELSE r + 1
       /\ a # i
  <2>1. ComponentType(s[i]) \notin {"memory_limiter"} /\ ComponentType(s[i]) \notin Samplers
    BY <1>5 DEF Samplers
  <2> QED
    BY <1>4, <1>5, <1>6, <2>1, MoveOther DEF Moved
<1>11. t \in Seq(ToSet(s)) /\ Len(t) = Len(s)
  <2>1. /\ RemoveAt(s, i) \in Seq(ToSet(s)) /\ Len(RemoveAt(s, i)) = Len(s) - 1
        /\ j \in 1 .. Len(RemoveAt(s, i)) + 1 /\ s[i] \in ToSet(s)
    BY <1>4, <1>5, <1>6, MoveIs
  <2>2. t \in Seq(ToSet(s)) /\ Len(t) = Len(RemoveAt(s, i)) + 1
    <3> DEFINE r == RemoveAt(s, i)
    <3> HIDE DEF r
    <3>1. r \in Seq(ToSet(s)) /\ j \in 1 .. Len(r) + 1 /\ s[i] \in ToSet(s)
      BY <2>1 DEF r
    <3>2. InsertAt(r, j, s[i]) \in Seq(ToSet(s)) /\ Len(InsertAt(r, j, s[i])) = Len(r) + 1
      BY <3>1, InsertAtType
    <3> QED
      BY <3>2 DEF Moved, r, t
  <2> QED
    BY <1>4, <2>1, <2>2
<1>12. k \in Nat
  <2>1. RemoveAt(s, i) \in Seq(ToSet(s))
    BY <1>4, <1>5, <1>6, MoveIs
  <2> QED
    BY <2>1, FirstIsNat
<1> HIDE DEF t, m, a, k
<1>13. "memory_limiter" \in Types(s) => "memory_limiter" \in Types(t)
  <2>1. "memory_limiter" \in Types(s) => m # 0
    BY <1>4, NoneOfThem DEF m
  <2>2. FirstOf(t, {"memory_limiter"}) # 0 => "memory_limiter" \in Types(t)
    BY <1>11, NoneOfThem
  <2>3. m # 0 => FirstOf(t, {"memory_limiter"}) # 0
    BY <1>3, <1>4, <1>6, <1>10
  <2> QED
    BY <2>1, <2>2, <2>3
<1>14. FirstOf(t, {"memory_limiter"}) > 1 => m > 1
  BY <1>3, <1>4, <1>6, <1>10
<1>15. BatchFirst(t) => BatchFirst(s)
  <2>1. FirstOf(t, {"batch"}) < FirstOf(t, Samplers) => i < a
    BY <1>3, <1>4, <1>6, <1>7, <1>8, <1>9, <1>10, <1>12
  <2>2. FirstOf(t, Samplers) # 0 => a # 0
    BY <1>3, <1>4, <1>6, <1>10
  <2> QED
    BY <1>3, <2>1, <2>2 DEF BatchFirst, i, a
<1>16. Gentle(s, t)
  BY <1>13, <1>14, <1>15 DEF Gentle, m
<1>17. /\ Usable(d) /\ Processors(d, p) = t /\ Raised(c, d) \subseteq Raises(f.rule)
  BY <1>1, <1>3, <1>5, <1>6, <1>16, MoveAdvice DEF s, t
<1>18. CASE k = 0
  <2>1. FirstOf(t, {"batch"}) = Len(t)
    BY <1>7, <1>8, <1>11, <1>18
  <2>2. ~(Len(t) < Len(t) - 1)
    BY <1>4, <1>11
  <2>3. f \notin AllRules(d)
    BY <1>2, <1>17, <2>1, <2>2
  <2> QED
    BY <1>17, <2>3 DEF GoodAdvice
<1>19. CASE k # 0
  <2>1. k >= i /\ k + 1 \in DOMAIN s /\ ComponentType(s[k + 1]) = "batch"
    BY <1>9, <1>19
  <2>2. i # k + 1
    BY <1>4, <1>12, <2>1
  <2>3. Unaddressed(f, c, d)
    BY <1>5, <2>1, <2>2, SecondBatch DEF s
  <2> QED
    BY <1>17, <2>3 DEF GoodAdvice
<1> QED
  BY <1>18, <1>19

-----------------------------------------------------------------------------
(* Static advice: scrape intervals *)

(* A receiver gives a pipeline an interval.                                *)
Gives(c, r, x) ==
  \/ ComponentType(r) = "prometheus" /\ x \in PrometheusIntervals(c.receivers[r])
  \/ ComponentType(r) = "hostmetrics" /\ x = HostMetricsInterval(c.receivers[r]) /\ x # 0

(* The intervals of a pipeline are those its receivers give.               *)
LEMMA IntervalIs ==
  ASSUME NEW c, NEW rs, NEW ri \in ReceiverIntervals(c, rs)
  PROVE  /\ ri = <<ri[1], ri[2]>> /\ ri[1] \in ToSet(rs) /\ ri[1] \in DOMAIN c.receivers
         /\ Gives(c, ri[1], ri[2])
BY DEF ReceiverIntervals, Gives

LEMMA IntervalIn ==
  ASSUME NEW c, NEW rs, NEW ri, ri = <<ri[1], ri[2]>>, ri[1] \in ToSet(rs),
         ri[1] \in DOMAIN c.receivers, Gives(c, ri[1], ri[2])
  PROVE  ri \in ReceiverIntervals(c, rs)
BY DEF ReceiverIntervals, Gives

(* The image of a finite set is finite.                                    *)
LEMMA FiniteImage ==
  ASSUME NEW S, IsFiniteSet(S), NEW g, DOMAIN g = S
  PROVE  IsFiniteSet({g[x] : x \in S})
<1> DEFINE T == {g[x] : x \in S}
           h == [x \in S |-> g[x]]
<1>1. h \in [S -> T] /\ \A y \in T : \E x \in S : h[x] = y
  OBVIOUS
<1>2. h \in Surjection(S, T)
  BY <1>1 DEF Surjection
<1> HIDE DEF h, T
<1>3. IsFiniteSet(T)
  BY <1>2, FS_Surjection
<1> QED
  BY <1>3 DEF T

(* Of two different intervals one is the shortest, the other the longest.  *)
LEMMA MinMaxOfTwo ==
  ASSUME NEW x \in Nat, NEW y \in Nat, x < y
  PROVE  Min({x, y}) = x /\ Max({x, y}) = y
BY DEF Min, Max

(* Without prometheus each receiver gives at most one interval.            *)
LEMMA FewIntervals ==
  ASSUME NEW c, Usable(c), NEW S, NEW rs \in Seq(S),
         \A ri \in ReceiverIntervals(c, rs) : ComponentType(ri[1]) # "prometheus"
  PROVE  /\ IsFiniteSet(ReceiverIntervals(c, rs))
         /\ \A ri \in ReceiverIntervals(c, rs) :
              /\ ri[2] = HostMetricsInterval(c.receivers[ri[1]]) /\ ri[2] # 0 /\ ri[2] \in Nat
              /\ ComponentType(ri[1]) = "hostmetrics"
<1> DEFINE all == {<<r, HostMetricsInterval(c.receivers[r])>> : r \in ToSet(rs)}
<1>1. \A ri \in ReceiverIntervals(c, rs) :
        /\ ri[2] = HostMetricsInterval(c.receivers[ri[1]]) /\ ri[2] # 0 /\ ri[1] \in ToSet(rs)
        /\ ri[1] \in DOMAIN c.receivers /\ ri = <<ri[1], ri[2]>>
        /\ ComponentType(ri[1]) = "hostmetrics"
  BY IntervalIs DEF Gives
<1>2. \A r \in DOMAIN c.receivers : HostMetricsInterval(c.receivers[r]) \in Nat
  BY DEF Usable, IsConfig
<1>3. IsFiniteSet(ToSet(rs))
  <2>1. IsFiniteSet(1 .. Len(rs))
    BY LenProperties, FS_Interval
  <2>2. ToSet(rs) = {rs[k] : k \in 1 .. Len(rs)}
    BY LenProperties DEF ToSet
  <2>3. IsFiniteSet({rs[k] : k \in 1 .. Len(rs)})
    BY <2>1, LenProperties, FiniteImage
  <2> QED
    BY <2>2, <2>3
<1>4. IsFiniteSet(all)
  <2> DEFINE g == [r \in ToSet(rs) |-> <<r, HostMetricsInterval(c.receivers[r])>>]
  <2>1. IsFiniteSet({g[r] : r \in ToSet(rs)})
    BY <1>3, FiniteImage
  <2>2. all = {g[r] : r \in ToSet(rs)}
    OBVIOUS
  <2> QED
    BY <2>1, <2>2
<1>5. ReceiverIntervals(c, rs) \subseteq all
  BY <1>1
<1>6. IsFiniteSet(ReceiverIntervals(c, rs))
  BY <1>4, <1>5, FS_Subset
<1> QED
  BY <1>1, <1>2, <1>6

(* Sets of two elements, and no more than two.                             *)
LEMMA TwoApart ==
  ASSUME NEW T, Cardinality(T) >= 2, IsFiniteSet(T)
  PROVE  \E x, y \in T : x # y
<1>1. T # {}
  BY FS_EmptySet
<1>2. PICK x \in T : TRUE
  BY <1>1
<1>3. T # {x}
  <2>1. Cardinality({x}) = 1
    BY FS_Singleton
  <2> QED
    BY <2>1
<1> QED
  BY <1>2, <1>3

LEMMA OnlyTwo ==
  ASSUME NEW T, IsFiniteSet(T), ~(Cardinality(T) > 2), NEW x \in T, NEW y \in T, x # y
  PROVE  T = {x, y}
<1>1. IsFiniteSet({x, y}) /\ Cardinality({x, y}) = 2
  <2>1. IsFiniteSet({x}) /\ Cardinality({x}) = 1 /\ y \notin {x}
    BY FS_Singleton
  <2>2. IsFiniteSet({x} \cup {y}) /\ Cardinality({x} \cup {y}) = 2
    BY <2>1, FS_AddElement
  <2>3. {x} \cup {y} = {x, y}
    OBVIOUS
  <2> QED
    BY <2>2, <2>3
<1>2. Cardinality(T) \in Nat
  BY FS_CardinalityType
<1>3. Cardinality({x, y}) <= Cardinality(T)
  BY FS_Subset
<1>4. Cardinality({x, y}) = Cardinality(T)
  BY <1>1, <1>2, <1>3
<1> QED
  BY <1>4, FS_Subset

LEMMA AlignAdvice ==
  ASSUME NEW c, Usable(c), NEW f \in AllRules(c), f.rule = "scrape-interval-mismatch",
         NEW d \in Advice(c, f)
  PROVE  GoodAdvice(c, f, d)
<1> DEFINE p == f.name
           rs == c.pipelines[p].receivers
           all == ReceiverIntervals(c, rs)
           values == {ri[2] : ri \in all}
           shortest == Min(values)
           settings == [collection_interval |-> shortest]
<1>1. \A e : f \in AllRules(e) =>
        /\ f.name \in DOMAIN e.pipelines
        /\ Cardinality({ri[2] : ri \in ReceiverIntervals(e, e.pipelines[f.name].receivers)}) >= 2
  <2>1. \A e, g : g \in ScrapeIntervalMismatch(e) => \E n \in DOMAIN e.pipelines :
          /\ g = Finding("scrape-interval-mismatch", "pipeline", n)
          /\ Cardinality({ri[2] : ri \in ReceiverIntervals(e, e.pipelines[n].receivers)}) >= 2
    BY Zenon DEF ScrapeIntervalMismatch, InPipelines
  <2> SUFFICES ASSUME NEW e, f \in AllRules(e)
               PROVE  /\ f.name \in DOMAIN e.pipelines
                      /\ Cardinality({ri[2] : ri \in ReceiverIntervals(e, e.pipelines[f.name].receivers)}) >= 2
    OBVIOUS
  <2>2. f \in ScrapeIntervalMismatch(e)
    BY OfRule
  <2>3. PICK n \in DOMAIN e.pipelines :
          /\ f = Finding("scrape-interval-mismatch", "pipeline", n)
          /\ Cardinality({ri[2] : ri \in ReceiverIntervals(e, e.pipelines[n].receivers)}) >= 2
    BY <2>1, <2>2, Zenon
  <2>4. f.name = n
    <3>1. Finding("scrape-interval-mismatch", "pipeline", n).name = n
      BY NamesOfFindings
    <3> QED
      BY <2>3, <3>1, Zenon
  <2> QED
    BY <2>3, <2>4, Zenon
<1>2. p \in DOMAIN c.pipelines /\ Cardinality(values) >= 2
  BY <1>1
<1>3. rs \in Seq(ToSet(rs))
  BY <1>2 DEF Usable, IsConfig, IsPipeline, PipelineLists
<1>4. PICK ri \in all : ri[2] = Max(values) /\ d = Merge(c, "receivers", ri[1], settings)
  <2>1. Advice(c, f) = AlignIntervals(c, f.name)
    BY DEF Advice
  <2>2. d \in AlignIntervals(c, p)
    BY <2>1
  <2> QED
    BY <2>2 DEF AlignIntervals
<1>5. \A x \in all : x[2] \in Nat
  <2> SUFFICES ASSUME NEW x \in all PROVE x[2] \in Nat
    OBVIOUS
  <2>1. x[1] \in DOMAIN c.receivers /\ Gives(c, x[1], x[2])
    BY IntervalIs
  <2>2. PrometheusIntervals(c.receivers[x[1]]) \subseteq Nat /\ HostMetricsInterval(c.receivers[x[1]]) \in Nat
    BY <2>1 DEF Usable, IsConfig
  <2> QED
    BY <2>1, <2>2 DEF Gives
<1>6. shortest \in Nat
  <2>1. values \in SUBSET Nat /\ values # {}
    BY <1>5
  <2>2. \E x \in values : \A y \in values : x <= y
    BY <2>1, FirstPosition
  <2> HIDE DEF values
  <2>3. Min(values) \in values
    BY <2>2 DEF Min
  <2> QED
    BY <2>1, <2>3
<1>7. DOMAIN settings = {"collection_interval"} /\ settings["collection_interval"] = shortest
  OBVIOUS
<1> HIDE DEF settings, shortest
<1>8. "tls_insecure" \notin DOMAIN settings /\ IntervalsAre(settings)
  BY <1>6, <1>7 DEF IntervalsAre, PrometheusIntervals, HostMetricsInterval, Setting
<1>9. ri[1] \in DOMAIN c.receivers /\ ri[1] \in ToSet(rs)
  BY IntervalIs
<1>10. Has(c, "receivers", ri[1]) /\ "receivers" \in Components
  BY <1>9 DEF Has, Components
<1>11. MergedInto(c, d, "receivers", ri[1], settings) /\ Raised(c, d) = {}
  BY <1>4, <1>8, <1>10, SettingsAdvice
<1>12. /\ Usable(d) /\ d.pipelines = c.pipelines /\ DOMAIN d.receivers = DOMAIN c.receivers
       /\ \A r \in DOMAIN c.receivers \ {ri[1]} : d.receivers[r] = c.receivers[r]
       /\ d.receivers[ri[1]] = Over(settings, c.receivers[ri[1]])
  BY <1>9, <1>11 DEF MergedInto, Setting
<1>13. CASE Cardinality(all) > 2 \/ \E x \in all : ComponentType(x[1]) = "prometheus"
  <2>1. Unaddressed(f, c, d)
    BY <1>13 DEF Unaddressed
  <2> QED
    BY <1>11, <1>12, <2>1 DEF GoodAdvice
<1>14. CASE ~(Cardinality(all) > 2) /\ \A x \in all : ComponentType(x[1]) # "prometheus"
  <2>1. /\ IsFiniteSet(all)
        /\ \A x \in all : /\ x[2] = HostMetricsInterval(c.receivers[x[1]])
                          /\ x[2] # 0 /\ ComponentType(x[1]) = "hostmetrics"
    BY <1>3, <1>14, FewIntervals
  <2>2. IsFiniteSet(values)
    <3> DEFINE g == [x \in all |-> x[2]]
    <3>1. IsFiniteSet({g[x] : x \in all})
      BY <2>1, FiniteImage
    <3>2. values = {g[x] : x \in all}
      OBVIOUS
    <3> QED
      BY <3>1, <3>2
  <2>3. PICK v \in values, w \in values : v # w
    BY <1>2, <2>2, TwoApart
  <2>4. PICK x \in all, y \in all : x[2] < y[2]
    <3>1. PICK x1 \in all, y1 \in all : x1[2] # y1[2]
      BY <2>3
    <3>2. x1[2] \in Nat /\ y1[2] \in Nat
      BY <1>5
    <3>3. x1[2] < y1[2] \/ y1[2] < x1[2]
      BY <3>1, <3>2
    <3> QED
      BY <3>3
  <2>5. x[2] \in Nat /\ y[2] \in Nat /\ x # y
    BY <1>5, <2>4
  <2>6. all = {x, y}
    BY <1>14, <2>1, <2>5, OnlyTwo
  <2>7. values = {x[2], y[2]}
    BY <2>6
  <2>8. Min(values) = x[2] /\ Max(values) = y[2]
    BY <2>4, <2>5, <2>7, MinMaxOfTwo
  <2>9. ri = y
    BY <1>4, <2>4, <2>5, <2>6, <2>8
  <2>10. HostMetricsInterval(d.receivers[y[1]]) = x[2]
    <3>1. shortest = x[2]
      BY <2>8 DEF shortest
    <3> QED
      BY <1>7, <1>12, <2>9, <3>1 DEF HostMetricsInterval, Setting, Over
  <2>11. \A z \in ReceiverIntervals(d, rs) : z[2] = x[2]
    <3> SUFFICES ASSUME NEW z \in ReceiverIntervals(d, rs) PROVE z[2] = x[2]
      OBVIOUS
    <3>1. /\ z = <<z[1], z[2]>> /\ z[1] \in ToSet(rs) /\ z[1] \in DOMAIN c.receivers
          /\ Gives(d, z[1], z[2])
      BY <1>12, IntervalIs
    <3>2. CASE z[1] = y[1]
      <4>1. ComponentType(z[1]) = "hostmetrics"
        BY <2>1, <3>2
      <4> QED
        BY <2>10, <3>1, <3>2, <4>1 DEF Gives
    <3>3. CASE z[1] # y[1]
      <4>1. d.receivers[z[1]] = c.receivers[z[1]]
        BY <1>12, <2>9, <3>1, <3>3
      <4>2. Gives(c, z[1], z[2])
        BY <3>1, <4>1 DEF Gives
      <4>3. z \in all
        BY <3>1, <4>2, IntervalIn
      <4> QED
        BY <2>6, <3>3, <4>3
    <3> QED
      BY <3>2, <3>3
  <2>12. f \notin AllRules(d)
    <3> SUFFICES ASSUME f \in AllRules(d) PROVE FALSE
      OBVIOUS
    <3> DEFINE now == {z[2] : z \in ReceiverIntervals(d, rs)}
    <3>1. Cardinality(now) >= 2
      BY <1>1, <1>12
    <3>2. now \subseteq {x[2]}
      BY <2>11
    <3> HIDE DEF now
    <3>3. IsFiniteSet({x[2]}) /\ Cardinality({x[2]}) = 1
      BY FS_Singleton
    <3>4. IsFiniteSet(now)
      BY <3>2, <3>3, FS_Subset
    <3>5. PICK v1 \in now, w1 \in now : v1 # w1
      BY <3>1, <3>4, TwoApart
    <3> QED
      BY <3>2, <3>5
  <2> QED
    BY <1>11, <1>12, <2>12 DEF GoodAdvice
<1> QED
  BY <1>13, <1>14

-----------------------------------------------------------------------------
(* Static advice: every finding of every analysis *)

(* The names of the rules but connector-loop.                              *)
RuleIds ==
  {"missing-memory-limiter", "missing-batch", "no-trace-sampling", "unused-components",
   "multiple-exporters-no-routing", "no-log-severity-filter", "memory-limiter-not-first",
   "batch-before-sampling", "batch-not-near-end", "receiver-endpoint-wildcard",
   "debug-exporter-in-pipeline", "pprof-extension-enabled", "memory-limiter-without-limits",
   "exporter-no-sending-queue", "exporter-no-retry", "undefined-component-ref",
   "empty-pipeline", "filter-error-mode-propagate", "scrape-interval-mismatch",
   "exporter-insecure-tls", "no-health-check-extension", "exporter-endpoint-localhost",
   "exporter-no-compression", "tail-sampling-without-memory-limiter",
   "no-health-check-trace-filter", "filesystem-scraper-no-exclusions",
   "short-scrape-interval", "exporter-timeout-too-low", "sending-queue-too-small",
   "no-span-metrics-connector", "extension-endpoint-exposed", "debug-log-feedback-loop"}

LEMMA RuleOfFinding ==
  ASSUME NEW c, NEW f \in AllRules(c)
  PROVE  f.rule \in RuleIds
BY FindingsNameRule DEF AllRules, RuleIds

(* The advice of every rule leads to a configuration, is followed by no    *)
(* critical finding but those of Raises, and does away with the finding    *)
(* wherever Unaddressed does not say that it cannot.                       *)
LEMMA AdviceIsGood ==
  ASSUME NEW c, Usable(c), NEW f \in AllRules(c), NEW d \in Advice(c, f)
  PROVE  GoodAdvice(c, f, d)
<1>1. CASE f.rule \in {"missing-memory-limiter", "tail-sampling-without-memory-limiter"}
  BY <1>1, LimiterAdvice
<1>2. CASE f.rule \in {"missing-batch", "no-trace-sampling", "unused-components",
                       "multiple-exporters-no-routing", "no-log-severity-filter"}
  BY <1>2, BatchAdvice, SamplerAdvice, UnusedAdvice, RouteAdvice, SeverityAdvice
<1>3. CASE f.rule \in {"memory-limiter-not-first", "batch-before-sampling", "batch-not-near-end",
                       "receiver-endpoint-wildcard", "debug-exporter-in-pipeline"}
  BY <1>3, MoveLimiterAdvice, MoveBatchAdvice, BatchToEndAdvice, BindAdvice, DebugAdvice
<1>4. CASE f.rule \in {"pprof-extension-enabled", "memory-limiter-without-limits",
                       "exporter-no-sending-queue", "exporter-no-retry",
                       "undefined-component-ref", "empty-pipeline"}
  BY <1>4, PprofAdvice, LimitsAdvice, QueueAdvice, RetryAdvice, RefAdvice, FillAdvice
<1>5. CASE f.rule \in {"filter-error-mode-propagate", "scrape-interval-mismatch",
                       "exporter-insecure-tls", "no-health-check-extension",
                       "exporter-endpoint-localhost", "exporter-no-compression"}
  BY <1>5, ErrorModeAdvice, AlignAdvice, TLSAdvice, HealthCheckAdvice, BackendAdvice,
     CompressionAdvice
<1>6. CASE f.rule \in {"no-health-check-trace-filter", "filesystem-scraper-no-exclusions",
                       "short-scrape-interval", "exporter-timeout-too-low",
                       "sending-queue-too-small"}
  BY <1>6, HealthFilterAdvice, FilesystemAdvice, ShortIntervalAdvice, TimeoutAdvice,
     QueueSizeAdvice
<1>7. CASE f.rule \in {"no-span-metrics-connector", "extension-endpoint-exposed",
                       "debug-log-feedback-loop"}
  BY <1>7, SpanMetricsAdvice, ExposedAdvice, FeedbackAdvice
<1>8. f.rule \in RuleIds
  BY RuleOfFinding
<1> QED
  BY <1>1, <1>2, <1>3, <1>4, <1>5, <1>6, <1>7, <1>8 DEF RuleIds

(* What the rule connector-loop reports of a configuration: a cycle of it. *)
NamesLoop(c, f) ==
  \E w \in Seq(DOMAIN c.pipelines) :
    /\ f = Finding("connector-loop", "all", <<"cycle", w>>)
    /\ Len(w) >= 2 /\ w[1] = w[Len(w)]
    /\ \A i \in 1 .. Len(w) - 1 : w[i + 1] \in Feeds(c)[w[i]]

(* A report is about the configuration as it is, and so is a search.       *)
AdviceInv ==
  /\ Usable(cfg)
  /\ LoopInv
  /\ phase = "searching" => adj = Feeds(cfg)
  /\ phase = "reported" => \A f \in findings : f \in AllRules(cfg) \/ NamesLoop(cfg, f)

(* What a search begins with is a graph.                                   *)
LEMMA FeedsIsGraph ==
  ASSUME NEW c, Usable(c)
  PROVE  IsGraph(Feeds(c)) /\ DOMAIN Feeds(c) = DOMAIN c.pipelines
BY DEF Usable, IsGraph, Feeds

LEMMA EmptyIsGraph == IsGraph(<<>>)
<1>1. DOMAIN <<>> = {}
  OBVIOUS
<1> QED
  BY <1>1 DEF IsGraph

(* The invariant holds of every sample and is kept by every step.          *)
LEMMA AdviceInitInv == AdviceInit => AdviceInv
<1> SUFFICES ASSUME AdviceInit PROVE AdviceInv
  OBVIOUS
<1>1. Fresh
  BY EmptyIsGraph DEF AdviceInit, Fresh
<1>2. LoopInv
  BY <1>1, FreshInv
<1>3. Usable(cfg)
  BY SamplesAssumption DEF AdviceInit, Usable
<1> QED
  BY <1>2, <1>3 DEF AdviceInit, AdviceInv

(* A search takes the steps of LoopSpec and leaves its graph alone.        *)
LEMMA SearchStepInv ==
  ASSUME LoopInv, SearchStep
  PROVE  LoopInv' /\ adj' = adj
<1>1. LoopInv'
  BY LoopInvInductive DEF LoopNext
<1>2. adj' = adj
  BY DEF SearchStep, Visit, Descend, MeetGray, MeetBlack, WalkUp, ReportCycle, Return
<1> QED
  BY <1>1, <1>2

LEMMA LoopUnchanged == LoopInv /\ UNCHANGED searchVars => LoopInv'
BY LoopInvInductive

(* The cycles of a search that is done are those of the configuration.     *)
LEMMA FoundLoops ==
  ASSUME AdviceInv, phase = "searching", NEW f \in LoopFindings
  PROVE  NamesLoop(cfg, f)
<1>1. PICK w \in cycles : f = Finding("connector-loop", "all", <<"cycle", w>>)
  BY DEF LoopFindings
<1>2. /\ LoopInv /\ adj = Feeds(cfg) /\ DOMAIN Feeds(cfg) = DOMAIN cfg.pipelines
  BY FeedsIsGraph DEF AdviceInv
<1>3. w \in Seq(DOMAIN cfg.pipelines)
  BY <1>1, <1>2 DEF LoopInv, SearchTypeOK
<1>4. IsCycle(w)
  BY <1>1, <1>2 DEF LoopInv, ReportedAreCycles
<1>5. Len(w) >= 2 /\ w[1] = w[Len(w)] /\ \A i \in 1 .. Len(w) - 1 : w[i + 1] \in Feeds(cfg)[w[i]]
  BY <1>2, <1>4 DEF IsCycle, EndOf
<1> QED
  BY <1>1, <1>3, <1>5 DEF NamesLoop

(* What follows from following a finding of a report.                      *)
LEMMA FollowedAdvice ==
  ASSUME AdviceInv, NEW f \in findings, Follow(f)
  PROVE  /\ Usable(cfg') /\ followed' = f
         /\ Raised(cfg, cfg') \subseteq Raises(f.rule)
         /\ Unaddressed(f, cfg, cfg') \/ ~Persists(f, cfg')
<1>1. /\ Usable(cfg) /\ followed' = f /\ cfg' \in Advice(cfg, f)
      /\ f \in AllRules(cfg) \/ NamesLoop(cfg, f)
  BY DEF AdviceInv, Follow
<1> DEFINE c == cfg
           d == cfg'
<1> HIDE DEF c, d
<1>2. CASE f \in AllRules(cfg)
  <2>1. GoodAdvice(cfg, f, cfg')
    BY <1>1, <1>2, AdviceIsGood
  <2>2. f.rule # "connector-loop"
    BY <1>2, RuleOfFinding DEF RuleIds
  <2> QED
    BY <1>1, <2>1, <2>2 DEF GoodAdvice, Persists
<1>3. CASE NamesLoop(cfg, f)
  <2>1. PICK w \in Seq(DOMAIN cfg.pipelines) :
          /\ f = Finding("connector-loop", "all", <<"cycle", w>>)
          /\ Len(w) >= 2 /\ w[1] = w[Len(w)]
          /\ \A i \in 1 .. Len(w) - 1 : w[i + 1] \in Feeds(cfg)[w[i]]
    BY <1>3 DEF NamesLoop
  <2>2. f.rule = "connector-loop" /\ f.name = <<"cycle", w>>
    <3>1. LET g == Finding("connector-loop", "all", <<"cycle", w>>)
          IN  g.rule = "connector-loop" /\ g.name = <<"cycle", w>>
      BY NamesOfFindings
    <3> QED
      BY <2>1, <3>1, Zenon
  <2>3. f.name[2] = w
    BY <2>2
  <2> QED
    BY <1>1, <2>1, <2>2, <2>3, LoopAdvice
<1> QED
  BY <1>1, <1>2, <1>3

LEMMA AdviceInvInductive == AdviceInv /\ [AdviceNext]_adviceVars => AdviceInv'
<1> SUFFICES ASSUME AdviceInv, [AdviceNext]_adviceVars PROVE AdviceInv'
  OBVIOUS
<1>1. LoopInv /\ Usable(cfg)
  BY DEF AdviceInv
<1>2. CASE AnalyzeWithoutConnectors
  <2>1. /\ phase' = "reported" /\ cfg' = cfg /\ UNCHANGED searchVars
        /\ \A f \in findings' : f \in AllRules(cfg)
    BY <1>2 DEF AnalyzeWithoutConnectors, FilterBySeverity
  <2> QED
    BY <1>1, <2>1, LoopUnchanged DEF AdviceInv
<1>3. CASE AnalyzeBegin
  <2>1. phase' = "searching" /\ cfg' = cfg /\ Begin(Feeds(cfg)) /\ IsGraph(Feeds(cfg))
    BY <1>1, <1>3, FeedsIsGraph DEF AnalyzeBegin
  <2>2. LoopInv' /\ adj' = Feeds(cfg)
    BY <2>1, BeginInv DEF Begin
  <2> QED
    BY <1>1, <2>1, <2>2 DEF AdviceInv
<1>4. CASE AnalyzeSearch
  <2>1. phase = "searching" /\ phase' = phase /\ cfg' = cfg /\ SearchStep
    BY <1>4 DEF AnalyzeSearch
  <2>2. LoopInv' /\ adj' = adj
    BY <1>1, <2>1, SearchStepInv
  <2> QED
    BY <1>1, <2>1, <2>2 DEF AdviceInv
<1>5. CASE AnalyzeEnd
  <2>1. /\ phase = "searching" /\ phase' = "reported" /\ cfg' = cfg /\ UNCHANGED searchVars
        /\ \A f \in findings' : f \in AllRules(cfg) \/ f \in LoopFindings
    BY <1>5 DEF AnalyzeEnd, FilterBySeverity
  <2>2. \A f \in findings' : f \in AllRules(cfg) \/ NamesLoop(cfg, f)
    BY <2>1, FoundLoops
  <2> QED
    BY <1>1, <2>1, <2>2, LoopUnchanged DEF AdviceInv
<1>6. ASSUME NEW f \in findings, Follow(f) PROVE AdviceInv'
  <2>1. phase' = "edited" /\ UNCHANGED searchVars
    BY <1>6 DEF Follow
  <2>2. Usable(cfg')
    BY <1>6, FollowedAdvice
  <2> QED
    BY <1>1, <2>1, <2>2, LoopUnchanged DEF AdviceInv
<1>7. CASE UNCHANGED adviceVars
  <2>1. UNCHANGED <<cfg, findings, phase>> /\ UNCHANGED searchVars
    BY <1>7 DEF adviceVars
  <2>2. adj' = adj
    BY <2>1 DEF searchVars
  <2> QED
    BY <1>1, <2>1, <2>2, LoopUnchanged DEF AdviceInv
<1> QED
  BY <1>2, <1>3, <1>4, <1>5, <1>6, <1>7 DEF AdviceNext

(* Every configuration that advice leads to is one, and every report is    *)
(* about the configuration as it is: for all samples to start from.        *)
THEOREM ReportsAreCurrent == AdviceSpec => []AdviceInv
BY AdviceInitInv, AdviceInvInductive, PTL DEF AdviceSpec

(* Only following a finding takes a report to an edit.                     *)
LEMMA FollowedIsFollow ==
  ASSUME AdviceInv, [AdviceNext]_adviceVars, Followed
  PROVE  /\ Raised(cfg, cfg') \subseteq Raises(followed'.rule)
         /\ Unaddressed(followed', cfg, cfg') \/ ~Persists(followed', cfg')
<1>1. PICK f \in findings : Follow(f)
  BY DEF Followed, AdviceNext, adviceVars, AnalyzeWithoutConnectors, AnalyzeBegin,
     AnalyzeSearch, AnalyzeEnd
<1>2. /\ followed' = f
      /\ Raised(cfg, cfg') \subseteq Raises(f.rule)
      /\ Unaddressed(f, cfg, cfg') \/ ~Persists(f, cfg')
  BY <1>1, FollowedAdvice
<1> QED
  BY <1>2

(* Whoever follows the advice of a finding is rid of it, whatever the      *)
(* configuration, for each of the 33 rules, but where the advice is known  *)
(* not to reach (the snippets of rules/static beside their conditions).    *)
THEOREM AdviceDoesWork == AdviceSpec => AdviceWorks
<1>1. AdviceInv /\ [AdviceNext]_adviceVars =>
        [Followed /\ ~Unaddressed(followed', cfg, cfg') => ~Persists(followed', cfg')]_adviceVars
  BY FollowedIsFollow
<1> QED
  BY <1>1, ReportsAreCurrent, PTL DEF AdviceSpec, AdviceWorks

(* Following a finding brings about no critical finding but of the rules   *)
(* that Raises lists, whatever the configuration and the finding, the      *)
(* loops that the search reports included.                                 *)
THEOREM NoOtherEscalation == AdviceSpec => EscalationIsKnown
<1>1. AdviceInv /\ [AdviceNext]_adviceVars =>
        [Followed => Raised(cfg, cfg') \subseteq Raises(followed'.rule)]_adviceVars
  BY FollowedIsFollow
<1> QED
  BY <1>1, ReportsAreCurrent, PTL DEF AdviceSpec, EscalationIsKnown

(* As part of an analysis the search begins with the graph that the        *)
(* connectors of the configuration make, and nothing else touches it: a    *)
(* user's analyses are one behaviour of the search after the other         *)
(* (analyze.go:35-42 calls the rule, connector_loop.go:28-46 its graph).   *)
THEOREM AnalysisSearches == AdviceSpec => LoopSpec
<1>1. AdviceInit => LoopInit
  <2> SUFFICES ASSUME AdviceInit PROVE LoopInit
    OBVIOUS
  <2> DEFINE none == <<>>
  <2>1. SearchInit(none)
    BY DEF AdviceInit
  <2>2. IsGraph(none)
    BY EmptyIsGraph
  <2> HIDE DEF none
  <2> QED
    BY <2>1, <2>2 DEF LoopInit, IsGraph
<1>2. AdviceInv /\ [AdviceNext]_adviceVars => [LoopNext]_searchVars
  <2> SUFFICES ASSUME AdviceInv, [AdviceNext]_adviceVars PROVE [LoopNext]_searchVars
    OBVIOUS
  <2>1. CASE AnalyzeBegin
    <3> DEFINE g == Feeds(cfg)
    <3>1. Begin(g) /\ IsGraph(g)
      BY <2>1, FeedsIsGraph DEF AnalyzeBegin, AdviceInv
    <3> HIDE DEF g
    <3> QED
      BY <3>1 DEF LoopNext, IsGraph
  <2>2. CASE AnalyzeSearch
    BY <2>2 DEF AnalyzeSearch, LoopNext
  <2>3. CASE UNCHANGED searchVars
    BY <2>3
  <2> QED
    BY <2>1, <2>2, <2>3 DEF AdviceNext, AnalyzeWithoutConnectors, AnalyzeEnd, Follow, adviceVars
<1> QED
  BY <1>1, <1>2, ReportsAreCurrent, PTL DEF AdviceSpec, LoopSpec

(* So what holds of every search holds of those of an analysis: the cycles *)
(* in a report are cycles of the configuration, none is missed, and the    *)
(* verdict is the one that LoopVerdict promises.                           *)
THEOREM AnalysisKeepsPromise ==
  AdviceSpec => []SearchIsSound /\ []CleanIsOrdered /\ VerdictIsRight
BY AnalysisSearches, SoundSearch, OrderedWhenClean, SearchKeepsPromise, PTL
=============================================================================
