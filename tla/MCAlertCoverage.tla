----------------------------- MODULE MCAlertCoverage -----------------------------
(* An instance of AlertCoverage for TLC: two metrics, one attribute key,   *)
(* one pattern that compiles and one that does not.                        *)
EXTENDS AlertCoverage, TLC

CONSTANTS n1, n2, k, v1, v2, v3, pat, bad

TheFits == pat :> {n1, v1, v2}
TheFinds == pat :> {n1, n2, v1, v2, pat}

At(lvl) == <<lvl, k>>
Sample(name, onResource, onPoint) ==
  [name |-> name, attrs |-> (At("resource") :> onResource @@ At("datapoint") :> onPoint)]

(* Three values against a cap of two, a second resource, a bare point.     *)
ThePoints == {
  Sample(n1, v1, v1), Sample(n1, v1, v2), Sample(n1, v2, v3), Sample(n2, NoValue, NoValue) }

NoList == [regexp |-> FALSE, names |-> {}]
Empty == [metric |-> <<>>, datapoint |-> <<>>, include |-> NoList, exclude |-> NoList,
          span |-> <<>>]
On(lvl, form, arg) == [form |-> form, attr |-> At(lvl), arg |-> arg]
OnName(form, arg) == On("datapoint", form, arg)
Metric(conditions) == [Empty EXCEPT !.metric = conditions]
Strict(names) == [regexp |-> FALSE, names |-> names]
Regexp(names) == [regexp |-> TRUE, names |-> names]

(* Filters with one condition, of every form. *)
Simple == {Metric(<<c>>) : c \in {
  On("datapoint", "attr", v3), On("resource", "attr", v1),
  On("datapoint", "attrMatch", pat), On("datapoint", "attrMatch", bad),
  On("datapoint", "hasKey", v1), On("datapoint", "hasAttr", v1),
  OnName("name", n1), OnName("nameMatch", pat), OnName("unsupported", v1)}}

DropN1ThenUnknown == Metric(<<OnName("name", n1), OnName("unsupported", v1)>>)
PartialThenName == [Metric(<<On("datapoint", "attr", v1)>>) EXCEPT !.datapoint = <<OnName("name", n2)>>]
Include == [Empty EXCEPT !.include = Strict({n1})]
Exclude == [Empty EXCEPT !.exclude = Regexp({pat, bad})]
Both == [Empty EXCEPT !.include = Strict({n1, n2}), !.exclude = Strict({n2})]
Spans == [Empty EXCEPT !.span = <<OnName("name", n1)>>]

Others == {DropN1ThenUnknown, PartialThenName, Include, Exclude, Both, Spans, Empty}

(* One filter, none, or two whose outcomes are composed.                   *)
TheConfigs ==
  {{f} : f \in Simple \union Others} \union
  {{}, {Include, Both}, {Exclude, PartialThenName},
   {Metric(<<On("datapoint", "attr", v3)>>), Metric(<<OnName("unsupported", v1)>>)},
   {Metric(<<On("datapoint", "attrMatch", pat)>>), Include}}

TheAlerts == {
  [names |-> {n1}, patterns |-> {}, absent |-> FALSE],
  [names |-> {n1, n2}, patterns |-> {}, absent |-> TRUE],
  [names |-> {}, patterns |-> {pat}, absent |-> FALSE],
  [names |-> {n2}, patterns |-> {bad}, absent |-> FALSE],
  [names |-> {}, patterns |-> {}, absent |-> FALSE] }

=============================================================================
