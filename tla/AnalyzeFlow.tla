---------------------------- MODULE AnalyzeFlow -----------------------------
(***************************************************************************)
(* The editor and the analysis of what it holds: App in                    *)
(* frontend/src/App.tsx.  Texts are numbered in the order they are typed,  *)
(* calls of analyze in the order they are made.  A call aborts the fetch   *)
(* of the one before; its own continuation, and what comes after it, run   *)
(* when its fetch is answered or has been aborted.                         *)
(***************************************************************************)
EXTENDS Integers

CONSTANTS
  Editors,     \* bounds of a behaviour: [edits, clicks], and are there alert rules
  MaxCalls,    \* bound on the calls of analyze
  Nothing      \* no text

ASSUME EditorsAssumption ==
  /\ MaxCalls \in Nat \ {0}
  /\ \A e \in Editors : /\ e.edits \in Nat /\ e.clicks \in Nat /\ e.rules \in BOOLEAN
                        /\ e.edits + e.clicks < MaxCalls

VARIABLES
  yaml, debounced,
  blank,       \* texts with nothing in them
  live,        \* liveMode
  calls,       \* per call of analyze: the text and where it stands
  made,        \* number of calls; the last one owns abortRef
  loading,
  result,      \* the text whose result is shown
  failed,      \* the text whose error is shown
  covering,    \* texts whose alert coverage has been asked for
  coverage,    \* the text whose alert coverage is shown
  rest         \* what is left of the edits and clicks

text == <<yaml, debounced, blank, live>>
shown == <<loading, result, failed>>
analyzeVars == <<text, calls, made, shown, covering, coverage, rest>>

Stages == {"waiting", "answered", "aborted", "failed", "over"}
Texts == {Nothing} \union Nat

AnalyzeTypeOK ==
  /\ yaml \in Nat /\ debounced \in Nat /\ blank \subseteq Nat /\ live \in BOOLEAN /\ loading \in BOOLEAN
  /\ result \in Texts /\ failed \in Texts /\ coverage \in Texts
  /\ made \in 0 .. MaxCalls
  /\ calls \in [1 .. MaxCalls -> [of : Nat, stage : Stages]]
  /\ covering \subseteq Nat

(* A page begins in live mode, with the analysis of what it has saved.     *)
AnalyzeInit ==
  /\ yaml = 0 /\ debounced = 0 /\ blank \in SUBSET {0} /\ live = TRUE
  /\ rest \in Editors
  /\ made = IF blank = {} THEN 1 ELSE 0
  /\ loading = (blank = {})
  /\ calls = [i \in 1 .. MaxCalls |->
                [of |-> 0, stage |-> IF i = made THEN "waiting" ELSE "over"]]
  /\ result = Nothing /\ failed = Nothing /\ coverage = Nothing
  /\ covering = IF rest.rules /\ blank = {} THEN {0} ELSE {}

-----------------------------------------------------------------------------
\* Mutation: the fetch of the call before is left alone.
AnalyzeWithoutAbort(t) ==
  /\ made < MaxCalls
  /\ made' = made + 1
  /\ calls' = [calls EXCEPT ![made + 1] = [of |-> t, stage |-> "waiting"]]
  /\ failed' = Nothing /\ loading' = TRUE
  /\ UNCHANGED result

(* analyze, up to its fetch.  The call before is aborted while it waits,   *)
(* and also once it was answered, well or with an error, as long as its    *)
(* continuation is still to run: the body is then being read.              *)
Analyze(t) ==
  /\ made < MaxCalls
  /\ made' = made + 1
  /\ calls' = [i \in DOMAIN calls |->
       IF i = made + 1 THEN [of |-> t, stage |-> "waiting"]
       ELSE IF calls[i].stage \in {"waiting", "answered", "failed"}
            THEN [calls[i] EXCEPT !.stage = "aborted"]
       ELSE calls[i]]
  /\ failed' = Nothing /\ loading' = TRUE
  /\ UNCHANGED result

(* The effect on the debounced text and on live mode; analyze ignores a    *)
(* blank text.                                                             *)
InLiveMode(t) ==
  IF live' /\ t \notin blank THEN Analyze(t) ELSE UNCHANGED <<calls, made, shown>>

Edit ==
  /\ rest.edits > 0
  /\ rest' = [rest EXCEPT !.edits = @ - 1]
  /\ yaml' = yaml + 1
  /\ blank' \in {blank, blank \union {yaml'}}
  /\ UNCHANGED <<debounced, live, calls, made, shown, covering, coverage>>

Debounce ==
  /\ debounced # yaml
  /\ debounced' = yaml
  /\ UNCHANGED <<yaml, blank, live, covering, coverage, rest>>
  /\ InLiveMode(yaml)

Cover(t) == covering' = IF rest.rules THEN covering \union {t} ELSE covering

(* Switched on, both effects run on the debounced text. *)
ToggleLive ==
  /\ rest.clicks > 0
  /\ rest' = [rest EXCEPT !.clicks = @ - 1]
  /\ live' = ~live
  /\ InLiveMode(debounced)
  /\ IF live' /\ debounced \notin blank THEN Cover(debounced) ELSE UNCHANGED covering
  /\ UNCHANGED <<yaml, debounced, blank, coverage>>

(* The alert rules were edited, and their debounced text changes.          *)
RulesEdited ==
  /\ rest.clicks > 0 /\ live /\ debounced \notin blank
  /\ rest' = [rest EXCEPT !.clicks = @ - 1]
  /\ Cover(debounced)
  /\ UNCHANGED <<text, calls, made, shown, coverage>>

(* The button, which a running analysis disables. *)
AnalyzeClicked ==
  /\ rest.clicks > 0 /\ ~live /\ ~loading /\ yaml \notin blank
  /\ rest' = [rest EXCEPT !.clicks = @ - 1]
  /\ Analyze(yaml)
  /\ UNCHANGED <<text, covering, coverage>>

-----------------------------------------------------------------------------
Respond(i) ==
  /\ calls[i].stage = "waiting"
  /\ \E outcome \in {"answered", "failed"} : calls' = [calls EXCEPT ![i].stage = outcome]
  /\ UNCHANGED <<text, made, shown, covering, coverage, rest>>

CallOver(i) == calls' = [calls EXCEPT ![i].stage = "over"]

Succeeded(i) ==
  /\ calls[i].stage = "answered"
  /\ CallOver(i)
  /\ result' = calls[i].of
  /\ loading' = FALSE
  /\ Cover(calls[i].of)
  /\ UNCHANGED <<text, made, failed, coverage, rest>>

FailedCall(i) ==
  /\ calls[i].stage = "failed"
  /\ CallOver(i)
  /\ failed' = calls[i].of /\ result' = Nothing
  /\ loading' = FALSE
  /\ Cover(calls[i].of)
  /\ UNCHANGED <<text, made, coverage, rest>>

(* The catch returns, but not without the finally. *)
Aborted(i) ==
  /\ calls[i].stage = "aborted"
  /\ CallOver(i)
  /\ loading' = FALSE
  /\ UNCHANGED <<text, made, result, failed, covering, coverage, rest>>

Continue(i) == Succeeded(i) \/ FailedCall(i) \/ Aborted(i)

(* A coverage report arrives, or its fetch fails and is ignored. *)
Covered(t) ==
  /\ t \in covering
  /\ covering' = covering \ {t}
  /\ coverage' \in {t, coverage}
  /\ UNCHANGED <<text, calls, made, shown, rest>>

AnalyzeNext ==
  \/ Edit \/ Debounce \/ ToggleLive \/ RulesEdited \/ AnalyzeClicked
  \/ \E i \in 1 .. MaxCalls : Respond(i) \/ Continue(i)
  \/ \E t \in covering : Covered(t)

AnalyzeFairness ==
  /\ WF_analyzeVars(Debounce)
  /\ \A i \in 1 .. MaxCalls : WF_analyzeVars(Respond(i)) /\ WF_analyzeVars(Continue(i))

AnalyzeSpec == AnalyzeInit /\ [][AnalyzeNext]_analyzeVars /\ AnalyzeFairness

-----------------------------------------------------------------------------
(* What is shown in live mode is, in the end, about what the editor holds: *)
(* a result or an error, but never that of an older text that came late    *)
(* (App.tsx:76-119).                                                       *)
LiveEditorIsAnalysed ==
  <>[](live /\ yaml \notin blank) => <>[](yaml \in {result, failed})

=============================================================================
