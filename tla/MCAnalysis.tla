------------------------------ MODULE MCAnalysis ------------------------------
(***************************************************************************)
(* All pairs of a set of outputs of depth two; or two runs with up to two  *)
(* results each; or two providers that run twice, or three that run once,  *)
(* those with the weights of docs/model-selection.md as well.  The three   *)
(* parts share nothing: a behaviour is of one of them.                     *)
(***************************************************************************)
EXTENDS OutputDiff, RunDiff, ModelSelector, TLC

VARIABLE part

vars == <<part, outputVars, corpus, selectVars>>

Leaves == {Leaf("x"), Leaf("y")}
Flat == Leaves \cup {Object(f) : f \in UNION {[S -> Leaves] : S \in SUBSET {"k", "l"}}}
               \cup {Array(s) : s \in {<<>>} \cup [1..1 -> Leaves] \cup [1..2 -> Leaves]}
MCValues ==
  Leaves
    \cup {Object(<<>>)} \cup {Object("k" :> u) : u \in Flat} \cup {Object("l" :> v) : v \in Leaves}
    \cup {Object("k" :> u @@ "l" :> v) : u \in Flat, v \in Leaves}
    \cup {Array(<<>>)} \cup {Array(<<u>>) : u \in Flat} \cup {Array(<<u, v>>) : u \in Flat, v \in Leaves}

Result(channel, status, provider, output, cost, latency) ==
  [channel |-> channel, status |-> status, schemaValid |-> status = "ok", provider |-> provider,
   model |-> provider, output |-> output, cost |-> cost, latency |-> latency]
Results ==
  {Result("c", "ok", "p", Leaf("x"), 2, 1), Result("c", "ok", "q", Leaf("x"), 3, 2),
   Result("c", "ok", "p", Leaf("y"), Null, 3), Result("c", "error", "p", Leaf("x"), Null, 0),
   Result("s", "ok", "q", Leaf("x"), 0, 1), Result("s", "error", "q", Leaf("y"), 1, 2)}
MCRunSet ==
  {[pipeline |-> h.pipeline, day |-> h.day, status |-> h.status, valid |-> h.valid, results |-> r] :
     h \in {[pipeline |-> "P", day |-> 1, status |-> "completed", valid |-> TRUE],
            [pipeline |-> "P", day |-> 2, status |-> "completed", valid |-> TRUE],
            [pipeline |-> "P", day |-> 2, status |-> "partial", valid |-> FALSE],
            [pipeline |-> "Q", day |-> 1, status |-> "completed", valid |-> FALSE]},
     r \in SeqOf(Results, 2)}

MCProviderLists == {<<>>, <<"p", "q">>, <<"p", "q", "p">>}
MCRunsOption == {NaN, 0, 1, 2}
Channel(valid, cost, latency) == [valid |-> valid, cost |-> cost, latency |-> latency]
MCRunOutcomes ==
  {[valid |-> v, channels |-> c] :
     v \in BOOLEAN,
     c \in {<<Channel(TRUE, 1, 1)>>, <<Channel(TRUE, 3, 1)>>, <<Channel(TRUE, Unreported, 2)>>,
            <<Channel(FALSE, Unreported, 3)>>,
            <<Channel(TRUE, 1, 1), Channel(FALSE, Unreported, 1)>>}}
    \cup {[valid |-> TRUE, channels |-> <<>>]}
MCWeightOptions == {<<>>, [validation |-> 10, cost |-> 6, latency |-> 4, conformance |-> 0]}

Init ==
  /\ part \in {"outputs", "corpus", "select"}
  /\ OutputInit /\ CorpusInit /\ SelectInit
  /\ part # "outputs" => left = Leaf("x") /\ right = Leaf("x")
  /\ IF part = "select" THEN runsOption = 2 => Len(providers) < 3 /\ weights = DefaultWeights
     ELSE providers = <<>> /\ runsOption = 1 /\ weights = DefaultWeights

Next ==
  /\ part' = part
  /\ UNCHANGED outputVars
  /\ \/ part = "corpus" /\ SaveRun /\ UNCHANGED selectVars
     \/ part = "select" /\ SelectNext /\ UNCHANGED corpus

Spec == Init /\ [][Next]_vars
=============================================================================
