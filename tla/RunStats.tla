------------------------------- MODULE RunStats -------------------------------
(***************************************************************************)
(* StatsQueries: the aggregates over all stored runs.  A run's results are *)
(* those of all depths, the synthesis last.  Times are days, costs cents,  *)
(* a cost nobody reported is Null.  The order of lists and the rendering   *)
(* as tables are left out, and with the order the cut of the failed        *)
(* channels at the most frequent ones.                                     *)
(***************************************************************************)
EXTENDS Integers, Sequences, FiniteSets, Sums

CONSTANTS
  RunSet,   \* runs that may be saved
  MaxRuns,  \* bound on the stored runs
  Today

VARIABLE corpus  \* the stored runs

Null == -1

\* Costs and latencies are not negative.
ASSUME RunsAssumption ==
  /\ Today \in Nat
  /\ \A r \in RunSet :
       /\ r.day \in Nat
       /\ Len(r.results) \in Nat /\ DOMAIN r.results = 1..Len(r.results)
       /\ \A i \in DOMAIN r.results :
            r.results[i].cost \in Nat \cup {Null} /\ r.results[i].latency \in Nat

CorpusInit == corpus = <<>>

SaveRun == Len(corpus) < MaxRuns /\ \E r \in RunSet : corpus' = Append(corpus, r)

CorpusSpec == CorpusInit /\ [][SaveRun]_corpus

----------------------------------------------------------------------------
\* A window is {n}, of n days back from today, or {}: no bound.
InRange(run, window) == \A n \in window : run.day >= Today - n

\* A filter is {x}, or {}: nothing is filtered out.
Wanted(filter, x) == filter \subseteq {x}

Ids(window) == {i \in DOMAIN corpus : InRange(corpus[i], window)}

CostedResults(run) == {i \in DOMAIN run.results : run.results[i].cost # Null}
RunCost(run) == Total([i \in CostedResults(run) |-> run.results[i].cost])
CostOf(ids) == Total([i \in ids |-> RunCost(corpus[i])])

\* Fault: the bucket of a day is made anew for each of its runs.
Bucket_Fresh(ids, day) ==
  LET i == CHOOSE i \in ids : corpus[i].day = day /\ \A j \in ids : corpus[j].day = day => j <= i
  IN [runs |-> 1, cost |-> RunCost(corpus[i])]

Bucket(ids, day) ==
  LET here == {i \in ids : corpus[i].day = day}
  IN [runs |-> Cardinality(here), cost |-> CostOf(here)]

CostStats(pipeline, window) ==
  LET ids == {i \in Ids(window) : Wanted(pipeline, corpus[i].pipeline)}
  IN [totalRuns |-> Cardinality(ids),
      totalCost |-> CostOf(ids),
      buckets |-> [d \in {corpus[i].day : i \in ids} |-> Bucket(ids, d)]]

\* Every result of every run in the window, as run and index.
Samples(window) == UNION {{i} \X DOMAIN corpus[i].results : i \in Ids(window)}
ResultAt(s) == corpus[s[1]].results[s[2]]
SamplesOf(p, window) == {s \in Samples(window) : ResultAt(s).provider = p}

LatencyStats(provider, window) ==
  [p \in {ResultAt(s).provider : s \in {t \in Samples(window) : Wanted(provider, ResultAt(t).provider)}} |->
     LET latencies == [s \in SamplesOf(p, window) |-> ResultAt(s).latency]
         values == {latencies[s] : s \in DOMAIN latencies}
     IN [samples |-> Cardinality(DOMAIN latencies), total |-> Total(latencies),
         min |-> Min(values), max |-> Max({0} \cup values)]]

FailureStats(window) ==
  LET failed == {s \in Samples(window) : ResultAt(s).status # "ok"}
  IN [byPipeline |-> [p \in {corpus[i].pipeline : i \in Ids(window)} |->
        LET all == {i \in Ids(window) : corpus[i].pipeline = p}
        IN [total |-> Cardinality(all), invalid |-> Cardinality({i \in all : ~corpus[i].valid})]],
      channels |-> [c \in {ResultAt(s).channel : s \in failed} |->
        Cardinality({s \in failed : ResultAt(s).channel = c})]]

\* The three queries, as routes and as commands.
Stats(kind, filter, window) ==
  CASE kind = "cost" -> CostStats(filter, window)
    [] kind = "latency" -> LatencyStats(filter, window)
    [] kind = "failures" -> FailureStats(window)

\* loadAllRunsForStats: only the sqlite store answers.
StatsRoute(store, kind, filter, window) ==
  IF store = "sqlite" THEN [code |-> 200, stats |-> Stats(kind, filter, window)] ELSE [code |-> 409]

StatsCommand(store, kind, filter, window) ==
  IF store = "sqlite" THEN [exit |-> 0, stats |-> Stats(kind, filter, window)] ELSE [exit |-> 1]

----------------------------------------------------------------------------
\* The aggregates count every run and every result of the window once: the days
\* and the pipelines add up to the total, the providers to all results, no mean
\* leaves its minimum and maximum, and a window never counts more than no window.
StatsAddUp ==
  \A w \in {{}} \cup {{n} : n \in 0..Today} :
    LET cost(p) == StatsCommand("sqlite", "cost", {p}, w).stats
        c == StatsRoute("sqlite", "cost", {}, w).stats
        l == StatsRoute("sqlite", "latency", {}, w).stats
        f == StatsRoute("sqlite", "failures", {}, w).stats
        pipelines == {corpus[i].pipeline : i \in DOMAIN corpus}
    IN /\ c.totalRuns = Total([d \in DOMAIN c.buckets |-> c.buckets[d].runs])
       /\ c.totalCost = Total([d \in DOMAIN c.buckets |-> c.buckets[d].cost])
       /\ c.totalCost = Total([p \in pipelines |-> cost(p).totalCost])
       /\ c.totalRuns = Total([p \in DOMAIN f.byPipeline |-> f.byPipeline[p].total])
       /\ Cardinality(Samples(w)) = Total([p \in DOMAIN l |-> l[p].samples])
       /\ \A p \in DOMAIN l : /\ l[p].min * l[p].samples <= l[p].total
                              /\ l[p].total <= l[p].max * l[p].samples
       /\ c.totalCost <= CostStats({}, {}).totalCost
=============================================================================
