------------------------------ MODULE RunLineage ------------------------------
(***************************************************************************)
(* Runs, resumes, reruns and replays of one pipeline whose definition      *)
(* changes: the pipeline file, a prompt and a schema per unit.  A hash is  *)
(* the version of the text it was computed from (0: not recorded).  Every  *)
(* read of the registry is a step, and a definition may change between any *)
(* two of them.  One operation at a time; what happens inside a level      *)
(* apart from reading and settling is the subject of PipelineExecutor.     *)
(***************************************************************************)
EXTENDS Naturals, Sequences

CONSTANTS
  Setups,     \* instances: width (channels 1..width in plan order, the synthesis
              \* is width + 1), schemas (units with an outputSchema), specDepth
              \* (maxDepth of the pipeline), depths (values of the depth option),
              \* git (a git registry, as in the CLI, or a filesystem one), and
              \* the bounds runs and changes: runs stored, changes made
  Versions    \* versions of a file, or commits

ASSUME LineageAssumption ==
  /\ \A s \in Setups : /\ s.width \in Nat \ {0} /\ s.schemas \subseteq 1..(s.width + 1)
                       /\ s.specDepth \in Nat \ {0} /\ s.depths \subseteq Nat \ {0}
                       /\ s.git \in BOOLEAN /\ s.runs \in Nat /\ s.changes \in Nat
  /\ Versions \subseteq Nat \ {0}

VARIABLES
  setup,    \* the instance; never changes
  files,    \* the definition as the registry would read it now
  changes,  \* how often it was changed
  store,    \* the stored runs, oldest first
  pc,       \* where the operation is
  op,       \* the operation: kind, prior run, depth limit
  todo,     \* files still to be checked or hashed
  differs,  \* a mismatch has been found
  source,   \* RunResult.source of the run in progress
  results,  \* RunResult.channels of the run in progress, carried ones of depth 0
  depth, stage, made,   \* depth; per unit: how far it is, and from which texts
  commit,   \* resolvedSha of the git registry
  dirty,    \* history: the definition changed since the operation began
  outcome   \* how the last operation ended

vars == <<setup, files, changes, store, pc, op, todo, differs, source, results, depth,
          stage, made, commit, dirty, outcome>>
inRun == <<source, results, depth, stage, made>>

Width == setup.width
Schemas == setup.schemas
Git == setup.git
Synth == Width + 1
Units == 1..Synth
Unread == [u \in Units |-> 0]
Blank == [pipeline |-> 0, prompt |-> Unread, schema |-> Unread]
Nothing == [prompt |-> 0, schema |-> 0]
NoOp == [kind |-> "none", prior |-> 0, limit |-> 0]
Uniform(v) == [pipeline |-> v, prompt |-> [u \in Units |-> v],
               schema |-> [u \in Units |-> IF u \in Schemas THEN v ELSE 0]]

\* The pipeline file with the wanted id; a directory without one makes the
\* operation fail (Fails).
ResolvedPipeline == files.pipeline

\* The files a run recorded hashes of.
Recorded(src) == {f \in {"prompt", "schema"} \X Units : src[f[1]][f[2]] # 0}

\* The Map keyed by channel id: the last ok result of each channel.
Carried ==
  IF op.kind # "resume" THEN {}
  ELSE LET ok == {r \in store[op.prior].results : r.status = "ok"}
           newest == {r \in ok : \A s \in ok : s.unit = r.unit => s.depth <= r.depth}
       IN {[r EXCEPT !.depth = 0] : r \in newest}
CarriedUnits == {r.unit : r \in Carried}

Init ==
  /\ setup \in Setups
  /\ \E v \in Versions : files = Uniform(v)
  /\ changes = 0 /\ store = <<>> /\ pc = "idle" /\ op = NoOp /\ todo = {}
  /\ differs = FALSE /\ source = Blank /\ results = {} /\ depth = 0
  /\ stage = [u \in Units |-> "idle"] /\ made = [u \in Units |-> Nothing]
  /\ commit = 0 /\ dirty = FALSE /\ outcome = "none"

\* What an operation holds in memory goes with it.
Forget ==
  /\ op' = NoOp /\ todo' = {} /\ differs' = FALSE /\ commit' = 0
  /\ source' = Blank /\ results' = {} /\ depth' = 0
  /\ stage' = [u \in Units |-> "idle"] /\ made' = [u \in Units |-> Nothing]
  /\ setup' = setup

----------------------------------------------------------------------------
\* Somebody else: an edit of one file, or another process's checkout of the
\* clone that all git registries of one repository share.
Changed ==
  /\ changes < setup.changes
  /\ changes' = changes + 1
  /\ dirty' = (dirty \/ pc # "idle")
  /\ UNCHANGED <<setup, store, pc, op, todo, differs, commit, outcome, inRun>>

EditFile ==
  /\ ~Git
  /\ \E v \in Versions :
       \/ files' = [files EXCEPT !.pipeline = v]
       \/ \E u \in Units : files' = [files EXCEPT !.prompt[u] = v]
       \/ \E u \in Schemas : files' = [files EXCEPT !.schema[u] = v]
  /\ files' # files
  /\ Changed

OtherCheckout ==
  /\ Git
  /\ \E v \in Versions : files' = Uniform(v)
  /\ files' # files
  /\ Changed

----------------------------------------------------------------------------
Begin(kind, prior, limit) ==
  /\ pc = "idle" /\ Len(store) < setup.runs
  /\ op' = [kind |-> kind, prior |-> prior, limit |-> limit]
  /\ pc' = IF Git THEN "prepare" ELSE IF kind \in {"resume", "replay"} THEN "check" ELSE "resolve"
  /\ dirty' = FALSE /\ outcome' = "none"
  /\ UNCHANGED <<setup, files, changes, store, todo, differs, commit, inRun>>

Run    == \E d \in setup.depths : Begin("run", 0, d)
Resume == \E r \in DOMAIN store : Begin("resume", r, setup.specDepth)
Rerun  == store # <<>> /\ Begin("run", 0, setup.specDepth)  \* rerun_channel checks nothing
Replay == \E r \in DOMAIN store : Begin("replay", r, setup.specDepth)

\* doPrepare of the git registry: the first use of the instance leaves the
\* clone at the tip of its ref, wherever that is by now, or fails.
Prepare ==
  /\ pc = "prepare"
  /\ \E v \in Versions : files' = Uniform(v) /\ commit' = v
  /\ pc' = IF op.kind \in {"resume", "replay"} THEN "check" ELSE "resolve"
  /\ UNCHANGED <<setup, changes, store, op, todo, differs, dirty, outcome, inRun>>

\* A refusal, a read that fails, a crash: nothing more is stored.
End(how) ==
  /\ pc' = "idle" /\ outcome' = how
  /\ Forget
  /\ UNCHANGED <<setup, files, changes, store, dirty>>

Fails == pc # "idle" /\ End("failed")

\* resume() and replay(): the pipeline, then every file with a recorded hash.
CheckPipeline ==
  /\ pc = "check"
  /\ differs' = (ResolvedPipeline # store[op.prior].source.pipeline)
  /\ todo' = Recorded(store[op.prior].source)
  /\ pc' = "files"
  /\ UNCHANGED <<setup, files, changes, store, op, commit, dirty, outcome, inRun>>

\* The files are compared in the order in which they were recorded, the prompts first.
Comparable(f) == f \in todo /\ (f[1] = "schema" => \A g \in todo : g[1] = "schema")

\* Fault: the check remembers only the last comparison.
CheckFile_LastOnly ==
  /\ pc = "files"
  /\ \E f \in todo :
       /\ Comparable(f)
       /\ differs' = (files[f[1]][f[2]] # store[op.prior].source[f[1]][f[2]])
       /\ todo' = todo \ {f}
  /\ UNCHANGED <<setup, files, changes, store, pc, op, commit, dirty, outcome, inRun>>

CheckFile ==
  /\ pc = "files"
  /\ \E f \in todo :
       /\ Comparable(f)
       /\ differs' = (differs \/ files[f[1]][f[2]] # store[op.prior].source[f[1]][f[2]])
       /\ todo' = todo \ {f}
  /\ UNCHANGED <<setup, files, changes, store, pc, op, commit, dirty, outcome, inRun>>

Refuse == pc = "files" /\ todo = {} /\ differs /\ End("hash_mismatch")

Accept ==
  /\ pc = "files" /\ todo = {} /\ ~differs
  /\ pc' = "resolve"
  /\ UNCHANGED <<setup, files, changes, store, op, todo, differs, commit, dirty, outcome, inRun>>

----------------------------------------------------------------------------
\* run(): resolves the pipeline (a second time after resume() and replay()).
ResolvePipeline ==
  /\ pc = "resolve"
  /\ source' = [source EXCEPT !.pipeline = ResolvedPipeline]
  /\ todo' = {f \in {"prompt", "schema"} \X CarriedUnits : f[1] = "schema" => f[2] \in Schemas}
  /\ pc' = "carry" /\ depth' = 1
  /\ UNCHANGED <<setup, files, changes, store, op, differs, results, stage, made, commit, dirty, outcome>>

\* Channel by channel, the prompt of each first.
Hashable(f) ==
  /\ f \in todo
  /\ \A g \in todo : f[2] < g[2] \/ (f[2] = g[2] /\ (f[1] = "schema" => g[1] = "schema"))

\* Fault: recordHashes records the schema's hash and leaves out the prompt's.
RecordHash_SchemaOnly ==
  /\ pc = "carry"
  /\ \E f \in todo :
       /\ Hashable(f)
       /\ source' = IF f[1] = "schema" THEN [source EXCEPT !.schema[f[2]] = files.schema[f[2]]] ELSE source
       /\ todo' = todo \ {f}
  /\ UNCHANGED <<setup, files, changes, store, pc, op, differs, results, depth, stage, made,
                 commit, dirty, outcome>>

\* recordHashes: a carried result is stamped with what its files hash to now.
RecordHash ==
  /\ pc = "carry"
  /\ \E f \in todo :
       /\ Hashable(f)
       /\ source' = [source EXCEPT ![f[1]][f[2]] = files[f[1]][f[2]]]
       /\ todo' = todo \ {f}
  /\ UNCHANGED <<setup, files, changes, store, pc, op, differs, results, depth, stage, made,
                 commit, dirty, outcome>>

SpliceCarried ==
  /\ pc = "carry" /\ todo = {}
  /\ results' = Carried
  /\ stage' = [u \in Units |-> IF u \in CarriedUnits THEN "carried" ELSE "idle"]
  /\ pc' = "level"
  /\ UNCHANGED <<setup, files, changes, store, op, todo, differs, source, depth, made, commit, dirty, outcome>>

\* The synthesis follows the channels.
Ready(u) == stage[u] = "idle"
            /\ (u = Synth => \A c \in 1..Width : stage[c] \in {"carried", "ok", "error", "skipped"})

\* A policy's skip comes before runOne: no hash is recorded.
Skip(u) ==
  /\ pc = "level" /\ Ready(u)
  /\ stage' = [stage EXCEPT ![u] = "skipped"]
  /\ UNCHANGED <<setup, files, changes, store, pc, op, todo, differs, source, results, depth, made,
                 commit, dirty, outcome>>

Read(u, kind) ==
  /\ source' = [source EXCEPT ![kind][u] = files[kind][u]]
  /\ made' = [made EXCEPT ![u][kind] = files[kind][u]]
  /\ UNCHANGED <<setup, files, changes, store, pc, op, todo, differs, results, depth, commit, dirty, outcome>>

\* The unit settles with any status once it has its texts.
LoadPrompt(u) ==
  /\ pc = "level" /\ Ready(u)
  /\ Read(u, "prompt")
  /\ \E s \in (IF u \in Schemas THEN {"prompted"} ELSE {"ok", "error"}) :
       stage' = [stage EXCEPT ![u] = s]

LoadSchema(u) ==
  /\ pc = "level" /\ stage[u] = "prompted"
  /\ Read(u, "schema")
  /\ \E s \in {"ok", "error"} : stage' = [stage EXCEPT ![u] = s]

\* The depth is over: the results of the channels that ran are reported.
EndDepth ==
  /\ pc = "level" /\ stage[Synth] \in {"ok", "error", "skipped"}
  /\ results' = results \cup
       {[unit |-> u, depth |-> depth, status |-> stage[u], made |-> made[u]] :
          u \in {v \in 1..Width : stage[v] \in {"ok", "error"}}}
  /\ IF depth < op.limit
     THEN /\ depth' = depth + 1
          /\ stage' = [u \in Units |-> "idle"] /\ made' = [u \in Units |-> Nothing]
          /\ pc' = "level"
     ELSE pc' = "save" /\ UNCHANGED <<depth, stage, made>>
  /\ UNCHANGED <<setup, files, changes, store, op, todo, differs, source, commit, dirty, outcome>>

Save ==
  /\ pc = "save"
  /\ store' = Append(store,
       [source |-> source, results |-> results, commit |-> commit,
        dirty |-> dirty \/ (op.kind = "resume" /\ store[op.prior].dirty),
        resumedFrom |-> IF op.kind = "resume" THEN op.prior ELSE 0,
        replayedFrom |-> 0])
  /\ IF op.kind = "replay"
     THEN pc' = "mark" /\ UNCHANGED <<op, todo, differs, commit, outcome, inRun>>
     ELSE pc' = "idle" /\ outcome' = "ok" /\ Forget
  /\ UNCHANGED <<setup, files, changes, dirty>>

\* replay() sets replayedFrom on the result and saves it again.
Mark ==
  /\ pc = "mark"
  /\ store' = [store EXCEPT ![Len(store)].replayedFrom = op.prior]
  /\ pc' = "diff"
  /\ UNCHANGED <<setup, files, changes, op, todo, differs, commit, dirty, outcome, inRun>>

\* What the replay is compared with: the stored run, or what its manifest says.
Baseline == store[op.prior].source.pipeline

\* diffRuns refuses runs of different pipeline hashes.
Diff ==
  /\ pc = "diff"
  /\ End(IF source.pipeline = Baseline THEN "ok" ELSE "pipeline_mismatch")

Next ==
  \/ EditFile \/ OtherCheckout
  \/ Run \/ Resume \/ Rerun \/ Replay \/ Prepare \/ Fails
  \/ CheckPipeline \/ CheckFile \/ Refuse \/ Accept
  \/ ResolvePipeline \/ RecordHash \/ SpliceCarried
  \/ (\E u \in Units : Skip(u) \/ LoadPrompt(u) \/ LoadSchema(u))
  \/ EndDepth \/ Save \/ Mark \/ Diff

Spec == Init /\ [][Next]_vars
----------------------------------------------------------------------------
Source == [pipeline : Versions \cup {0}, prompt : [Units -> Versions \cup {0}],
           schema : [Units -> Versions \cup {0}]]
Made == [prompt : Versions \cup {0}, schema : Versions \cup {0}]
Result == [unit : 1..Width, depth : Nat, status : {"ok", "error"}, made : Made]
StoredRun == [source : Source, results : SUBSET Result, commit : Versions \cup {0},
              dirty : BOOLEAN, resumedFrom : Nat, replayedFrom : Nat]

\* Type invariant; links to other runs lead backwards.
TypeOK ==
  /\ files \in Source /\ changes \in Nat /\ source \in Source
  /\ store \in Seq(StoredRun) /\ results \in SUBSET Result
  /\ \A r \in DOMAIN store : store[r].resumedFrom < r /\ store[r].replayedFrom < r
  /\ pc \in {"idle", "prepare", "check", "files", "resolve", "carry", "level", "save", "mark", "diff"}
  /\ op.kind \in {"none", "run", "resume", "replay"}
  /\ op.prior \in 0..Len(store) /\ op.limit \in Nat /\ depth \in Nat
  /\ stage \in [Units -> {"idle", "carried", "skipped", "prompted", "ok", "error"}]
  /\ made \in [Units -> Made] /\ commit \in Versions \cup {0}
  /\ differs \in BOOLEAN /\ dirty \in BOOLEAN
  /\ outcome \in {"none", "ok", "failed", "hash_mismatch", "pipeline_mismatch"}

\* When the definition did not change under a run, nor under the runs its
\* results were carried from, the hashes it records are those of the texts
\* that produced each of its results, the carried ones (re-hashed by
\* recordHashes) and those of every depth included; and with a git registry
\* they are those of the recorded commit.
HashesVouch ==
  \A r \in DOMAIN store :
    ~store[r].dirty =>
      /\ \A x \in store[r].results :
           x.made = [prompt |-> store[r].source.prompt[x.unit],
                     schema |-> store[r].source.schema[x.unit]]
      /\ Git => \A u \in Units : store[r].source.prompt[u] \in {0, store[r].commit}

\* A resumed run or a replay belongs to the definition of the run it comes
\* from, as far as that run recorded it: a change made after the first run is
\* refused by resume() and replay() however many runs lie in between.  A
\* replay is refused by the differ, after it has been paid for, only if the
\* definition changed while it ran.
SameDefinition ==
  /\ \A r \in DOMAIN store :
       LET from == store[r].resumedFrom + store[r].replayedFrom
           now == store[r].source
       IN (from # 0 /\ ~store[r].dirty) =>
            /\ now.pipeline = store[from].source.pipeline
            /\ \A u \in Units :
                 /\ now.prompt[u] # 0 /\ store[from].source.prompt[u] # 0
                      => now.prompt[u] = store[from].source.prompt[u]
                 /\ now.schema[u] # 0 /\ store[from].source.schema[u] # 0
                      => now.schema[u] = store[from].source.schema[u]
  /\ outcome = "pipeline_mismatch" => dirty

=============================================================================
