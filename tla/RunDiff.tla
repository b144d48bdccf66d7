-------------------------------- MODULE RunDiff --------------------------------
(***************************************************************************)
(* RunDiffer: the diff of two stored runs.  Which places of two outputs    *)
(* differ is a parameter here, diffParsed, which OutputDiff models; the    *)
(* rendering as markdown is left out.                                      *)
(***************************************************************************)
EXTENDS RunStats

CONSTANT OutputChanges(_, _)  \* diffParsed: the places where two outputs differ

\* Two outputs without a change are equal.
ASSUME OutputChangesAssumption ==
  \A r, s \in RunSet : \A i \in DOMAIN r.results, j \in DOMAIN s.results :
    OutputChanges(r.results[i].output, s.results[j].output) = {}
      <=> r.results[i].output = s.results[j].output

----------------------------------------------------------------------------
ChannelIds(run) == {run.results[i].channel : i \in DOMAIN run.results}

\* Fault: the first result of a channel is kept.
LastOf_First(run, c) == CHOOSE i \in DOMAIN run.results :
  run.results[i].channel = c /\ \A j \in 1..(i - 1) : run.results[j].channel # c

\* Where channelMap takes a channel's result from: the last one set wins.
LastOf(run, c) == CHOOSE i \in DOMAIN run.results :
  run.results[i].channel = c /\ \A j \in DOMAIN run.results : j > i => run.results[j].channel # c

ChannelMap(run) == [c \in ChannelIds(run) |-> run.results[LastOf(run, c)]]

\* The channels whose newest result carries a cost; Null when there are none.
CostedChannels(run) == {c \in ChannelIds(run) : ChannelMap(run)[c].cost # Null}
TotalCost(run) ==
  IF CostedChannels(run) = {} THEN Null
  ELSE Total([c \in CostedChannels(run) |-> ChannelMap(run)[c].cost])

Delta(x, y) == IF x = Null \/ y = Null THEN {} ELSE {y - x}

\* Fields that differ; cost and latency are reported and do not count.
DiffChannel(a, b) ==
  {f \in {"status", "schemaValid", "provider", "model"} : a[f] # b[f]}
    \cup (IF OutputChanges(a.output, b.output) = {} THEN {} ELSE {"output"})

Outcome(a, b) == {f \in {"status", "valid"} : a[f] # b[f]}

\* diffRuns: refused between different pipeline definitions.
Diff(a, b) ==
  LET ma == ChannelMap(a)  mb == ChannelMap(b)
      both == DOMAIN ma \cap DOMAIN mb
      fields == [c \in both |-> DiffChannel(ma[c], mb[c])]
      onlyA == DOMAIN ma \ both  onlyB == DOMAIN mb \ both
  IN [comparable |-> TRUE, onlyA |-> onlyA, onlyB |-> onlyB, fields |-> fields, run |-> Outcome(a, b),
      total |-> Delta(TotalCost(a), TotalCost(b)),
      identical |-> Outcome(a, b) = {} /\ onlyA \cup onlyB = {} /\ \A c \in both : fields[c] = {}]

TryDiff(a, b) ==
  IF a.pipeline # b.pipeline
  THEN [comparable |-> FALSE, onlyA |-> {}, onlyB |-> {}, fields |-> <<>>, run |-> Outcome(a, b),
        total |-> {}, identical |-> FALSE]
  ELSE Diff(a, b)

\* The two surfaces: an answer with its status code, an exit code with what is printed.
DiffRoute(i, j) ==
  IF ~({i, j} \subseteq DOMAIN corpus) THEN [code |-> 404]
  ELSE IF corpus[i].pipeline # corpus[j].pipeline THEN [code |-> 409]
  ELSE [code |-> 200, diff |-> Diff(corpus[i], corpus[j])]

DiffCommand(i, j) ==
  IF {i, j} \subseteq DOMAIN corpus /\ corpus[i].pipeline = corpus[j].pipeline
  THEN [exit |-> 0, diff |-> Diff(corpus[i], corpus[j])]
  ELSE [exit |-> 1]

----------------------------------------------------------------------------
\* What counts of the newest result of a channel.
Newest(run, c) ==
  LET n == Max({k \in DOMAIN run.results : run.results[k].channel = c})
  IN [f \in {"status", "schemaValid", "provider", "model", "output"} |-> run.results[n][f]]

\* Two runs count as identical when their pipelines, outcomes and the newest
\* result of each channel agree, in whichever order they are compared; their
\* totals leave out what earlier depths cost, so no total exceeds what the
\* statistics count for the run, and it is that when no channel ran twice.
DiffSound ==
  \A i, j \in DOMAIN corpus :
    LET a == corpus[i]  b == corpus[j]
    IN /\ DiffCommand(i, j) = (IF DiffRoute(i, j).code = 200
                              THEN [exit |-> 0, diff |-> DiffRoute(i, j).diff] ELSE [exit |-> 1])
       /\ TryDiff(a, b).identical <=>
            /\ a.pipeline = b.pipeline /\ a.status = b.status /\ a.valid = b.valid
            /\ ChannelIds(a) = ChannelIds(b)
            /\ \A c \in ChannelIds(a) : Newest(a, c) = Newest(b, c)
       /\ TryDiff(a, b).identical = TryDiff(b, a).identical
       /\ TryDiff(a, b).onlyA = TryDiff(b, a).onlyB
       /\ TotalCost(a) <= RunCost(a)
       /\ Cardinality(ChannelIds(a)) = Len(a.results) => TotalCost(a) \in {Null, RunCost(a)}
=============================================================================
