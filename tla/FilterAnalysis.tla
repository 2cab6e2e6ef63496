----------------------------- MODULE FilterAnalysis -----------------------------
(***************************************************************************)
(* What the backend concludes about a filter processor: the rules it takes *)
(* from its configuration (filter/parser.go, filter/ottl_attr.go), and the *)
(* outcome of those rules for a metric of which the catalog has sampled    *)
(* the attributes (filter/matcher.go).                                     *)
(*                                                                         *)
(* A condition or a list entry is taken as parsed.  Metric names,          *)
(* attribute values and regular expressions are members of sets, and Fits  *)
(* says what a regular expression matches from end to end.                 *)
(***************************************************************************)
EXTENDS Naturals, Sequences, FiniteSets

CONSTANTS
  Names, Keys, Values,  \* metric names, attribute keys, attribute values
  Patterns, Fits,       \* regular expressions; those that compile, with what they match
  MaxSamples,           \* tap.MaxSampleValues: 25 in the program
  NoValue,              \* a data point does not have the attribute
  NoText                \* the empty string

Strings == Names \union Values \union Patterns

ASSUME FilterAssumption ==
  /\ MaxSamples \in Nat \ {0}
  /\ NoValue \notin Strings /\ NoText \notin Strings
  /\ DOMAIN Fits \subseteq Patterns
  /\ \A p \in DOMAIN Fits : Fits[p] \subseteq Strings

Attrs == {"resource", "datapoint"} \X Keys

(* A data point with the attributes of its resource. *)
Point == [name : Names, attrs : [Attrs -> Values \union {NoValue}]]

(* The forms of an OTTL condition that the parser tells apart; everything  *)
(* else, "and" and "or" included, is unsupported.  A form on data points   *)
(* only (HasAttrKeyOnDatapoint, HasAttrOnDatapoint) has such an attribute. *)
AttrForms == {"attr", "attrMatch", "hasKey", "hasAttr"}
Forms == {"name", "nameMatch", "unsupported"} \union AttrForms
Condition == [form : Forms, attr : Attrs, arg : Strings]

(* A list of names to include or exclude; an absent list is an empty one.  *)
List == [regexp : BOOLEAN, names : SUBSET Strings]

(* The configuration of a filter processor. *)
Filter == [metric : Seq(Condition), datapoint : Seq(Condition),
           include : List, exclude : List, span : Seq(Condition)]

-----------------------------------------------------------------------------
(* Extraction *)

Listed(f) == f.include.names \union f.exclude.names

(* Conditions in a metrics block go before lists, and conditions on spans  *)
(* are taken if the metrics block has given no rule.                       *)
Conditions(f) ==
  IF f.metric \o f.datapoint # <<>> THEN f.metric \o f.datapoint
  ELSE IF Listed(f) # {} THEN <<>>
  ELSE f.span

HasRules(f) == Conditions(f) # <<>> \/ Listed(f) # {}

(* FilterRule.Pattern, which is empty for some forms. *)
PatternOf(c) == IF c.form \in {"unsupported", "hasKey", "hasAttr"} THEN NoText ELSE c.arg

(* extractNamesFromFilterRules: patterns and attribute values pass for     *)
(* names.                                                                  *)
RuleNames(f) ==
  (IF Conditions(f) # <<>>
   THEN {PatternOf(Conditions(f)[i]) : i \in DOMAIN Conditions(f)}
   ELSE Listed(f)) \ {NoText}

-----------------------------------------------------------------------------
(* Matching *)

Outcomes == {"kept", "dropped", "partial", "unknown"}

(* A pattern that does not compile matches nothing. *)
FitsPattern(text, pattern) == pattern \in DOMAIN Fits /\ text \in Fits[pattern]

MatchesPattern(regexp, name, pattern) ==
  IF regexp THEN FitsPattern(name, pattern) ELSE name = pattern

(* What the catalog has sampled of a metric's attributes. *)
NoSamples == [a \in Attrs |-> {}]
Capped(samples) == Cardinality(samples) >= MaxSamples

\* Mutation: a capped tracker is taken for complete.
OutcomeOfHitsUncapped(samples, hits) ==
  CASE hits = {} -> "kept"
    [] hits # {} /\ hits = samples -> "dropped"
    [] OTHER -> "partial"

(* The values of an attribute that satisfy a condition, out of those       *)
(* sampled.  An attribute that was never sampled cannot match.             *)
OutcomeOfHits(samples, hits) ==
  CASE hits = {} -> IF Capped(samples) THEN "unknown" ELSE "kept"
    [] hits # {} /\ hits = samples /\ ~Capped(samples) -> "dropped"
    [] OTHER -> "partial"

(* On a resource any match counts as dropping the whole metric. *)
OutcomeAtLevel(level, outcome) ==
  IF level = "resource" /\ outcome = "partial" THEN "dropped" ELSE outcome

DroppedIf(matches) == IF matches THEN "dropped" ELSE "kept"

Hits(c, samples) ==
  {v \in samples[c.attr] : IF c.form = "attrMatch" THEN FitsPattern(v, c.arg) ELSE v = c.arg}

ConditionOutcome(c, name, samples) ==
  CASE c.form = "unsupported" -> "unknown"
    [] c.form \in {"name", "nameMatch"} ->
         DroppedIf(MatchesPattern(c.form = "nameMatch", name, c.arg))
    [] c.form = "hasKey" -> DroppedIf(samples[c.attr] # {})
    [] c.form = "attrMatch" /\ c.arg \notin DOMAIN Fits ->
         IF samples[c.attr] = {} THEN "kept" ELSE "unknown"
    [] OTHER ->
         OutcomeAtLevel(c.attr[1], OutcomeOfHits(samples[c.attr], Hits(c, samples)))

(* matchOTTLWithAttrs: the first condition that does not keep the metric   *)
(* decides, whatever comes after it.                                       *)
OTTLOutcome(conditions, name, samples) ==
  LET outcome(i) == ConditionOutcome(conditions[i], name, samples)
      decisive(i) == outcome(i) # "kept" /\ \A j \in 1 .. i - 1 : outcome(j) = "kept"
  IN  IF \E i \in DOMAIN conditions : decisive(i)
      THEN outcome(CHOOSE i \in DOMAIN conditions : decisive(i))
      ELSE "kept"

InList(list, name) == \E p \in list.names : MatchesPattern(list.regexp, name, p)

\* Mutation: an absent include list is one that includes nothing.
ListOutcomeNeedsInclude(f, name) ==
  DroppedIf(~InList(f.include, name) \/ InList(f.exclude, name))

(* matchLegacy: include first, then exclude from what is left. *)
ListOutcome(f, name) ==
  DroppedIf(\/ f.include.names # {} /\ ~InList(f.include, name)
            \/ InList(f.exclude, name))

(* matchMetricWithAttrs.  Matching by name alone (matchMetric) is matching *)
(* with nothing sampled.                                                   *)
Outcome(f, name, samples) ==
  IF Conditions(f) # <<>> THEN OTTLOutcome(Conditions(f), name, samples)
  ELSE ListOutcome(f, name)

-----------------------------------------------------------------------------
(* The filter processor of the collector, as the code understands it: a    *)
(* point is dropped if any condition of the metrics block holds for it, or *)
(* by the lists.  "other" is what an unsupported condition evaluates to.   *)

Holds(c, p, other) ==
  CASE c.form = "unsupported" -> other
    [] c.form \in {"name", "nameMatch"} ->
         MatchesPattern(c.form = "nameMatch", p.name, c.arg)
    [] c.form = "hasKey" -> p.attrs[c.attr] # NoValue
    [] c.form = "attrMatch" -> FitsPattern(p.attrs[c.attr], c.arg)
    [] OTHER -> p.attrs[c.attr] = c.arg

Drops(f, p, other) ==
  LET conditions == f.metric \o f.datapoint
  IN  IF conditions # <<>>
      THEN \E i \in DOMAIN conditions : Holds(conditions[i], p, other)
      ELSE \/ f.include.names # {} /\ ~InList(f.include, p.name)
           \/ InList(f.exclude, p.name)

=============================================================================
