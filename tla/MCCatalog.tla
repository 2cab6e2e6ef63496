-------------------------------- MODULE MCCatalog --------------------------------
(* An instance of Catalog for TLC. *)
EXTENDS Catalog, TLC

CONSTANTS n1, s1, l1, a1, a2, v1, v2, v3, p1

MCSignalOf == n1 :> "metrics" @@ s1 :> "spans" @@ l1 :> "logs"

An(name, tag, outer, points) ==
  [name |-> name, tag |-> tag, outer |-> <<outer, <<>>>>, points |-> points]

(* More values than a tracker takes, a data point with an attribute that   *)
(* the first one has not, metrics without data points, and an export that *)
(* has the metric twice, from two resources.                               *)
AttributeLoad ==
  [messages |-> {
     <<An(n1, "unset", <<<<a1, v1>>>>, <<>>)>>,
     <<An(n1, "unset", <<>>, <<<<<<a1, v2>>>>, <<<<a1, v3>>, <<a2, v1>>>>>>)>>,
     <<An(n1, "unset", <<>>, <<<<<<a2, v1>>>>>>), An(n1, "unset", <<>>, <<>>)>>},
   exports |-> 2, pruners |-> {p1}, resets |-> FALSE, time |-> 2]

(* More batches than the two windows need to be compared. *)
RateLoad ==
  [messages |-> {<<An(n1, "unset", <<>>, <<<<>>, <<>>, <<>>>>)>>},
   exports |-> 5, pruners |-> {}, resets |-> TRUE, time |-> 3]

(* Exports of the three signals; spans and log records of two tags. *)
SignalMessages == {
  <<An(n1, "unset", <<>>, <<<<>>>>)>>,
  <<An(s1, "ok", <<>>, <<<<>>>>), An(s1, "error", <<>>, <<<<>>>>)>>,
  <<An(s1, "ok", <<>>, <<<<>>>>)>>,
  <<An(l1, "error", <<>>, <<<<>>>>), An(l1, "unset", <<>>, <<<<<<a1, v1>>>>>>)>>}

PruneLoad ==
  [messages |-> SignalMessages, exports |-> 2, pruners |-> {p1}, resets |-> FALSE, time |-> 2]

ResetLoad ==
  [messages |-> SignalMessages, exports |-> 3, pruners |-> {}, resets |-> TRUE, time |-> 0]

MCWorkloads == {AttributeLoad, RateLoad, PruneLoad, ResetLoad}

=============================================================================
