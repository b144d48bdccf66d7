--------------------------- MODULE PipelineExecutor ---------------------------
(***************************************************************************)
(* One run of a pipeline: PipelineExecutor.run of core/src/executor.       *)
(*                                                                         *)
(* Depth after depth, the channels of the plan are executed level by level *)
(* of their dependency graph: under p-limit limiters when no enforcement   *)
(* policy is registered, one at a time between the policies' hooks when    *)
(* some are; then comes the synthesis channel.  What is executed here, a   *)
(* unit, is a channel (its position in the plan) or the synthesis channel; *)
(* executeChannel itself is the module ChannelExecutor and appears as the  *)
(* states "running" and the status it settles with.                        *)
(*                                                                         *)
(* The run shares the process with everything it awaits: running units     *)
(* settle in any order, the caller's AbortSignal may fire at any point,    *)
(* and when one unit throws, run() rejects while the others carry on.      *)
(*                                                                         *)
(* Left out: telemetry (safeTelemetry swallows its failures), prompt and   *)
(* schema hashes, timestamps, and what makes the recursion policy stop     *)
(* below maxDepth (cost and run time).                                     *)
(***************************************************************************)
EXTENDS Integers, Sequences, FiniteSets

CONSTANTS
  NumChannels,  \* channels of the pipeline
  Providers,    \* its providers
  Plans,        \* the plans (and requests) a run may start from
  Statuses,     \* what executeChannel may settle with, "ok" among them
  MayLack,      \* those of them that come with a parsed output or without
  NULL          \* an absent value

Channels == 1..NumChannels
Synth    == 0
Units    == 0..NumChannels

\* A plan as buildExecutionPlan and the request make it.  rank is the level of a
\* channel in plan.levels; providerCap is NULL for a provider without a limiter of
\* its own; before and after count the policies that have that hook; carried are the
\* channels a resumed run brings along; ceiling, that recursion may stop early.
PlanType == [deps : [Channels -> SUBSET Channels], rank : [Channels -> Nat \ {0}],
             provider : [Channels -> Providers], synthesis : BOOLEAN,
             recursionEnabled : BOOLEAN, maxDepth : Nat, ceiling : BOOLEAN,
             globalCap : Nat \ {0},
             providerCap : [Providers -> (Nat \ {0}) \cup {NULL}],
             sequential : BOOLEAN, before : Nat, after : Nat,
             carried : SUBSET Channels]

\* What topoLevels ensures (see ExecutionPlan) and what having policies means.
WellFormed(p) ==
  /\ \A c \in Channels : \A d \in p.deps[c] : p.rank[d] < p.rank[c]
  /\ p.before + p.after > 0 => p.sequential

ASSUME NumChannelsAssumption == NumChannels \in Nat
ASSUME PlansAssumption       == \A p \in Plans : p \in PlanType /\ WellFormed(p)

\* The states of a unit that is not settled.
Active   == {"queued", "waiting", "running"}
Unsettled == {"idle", "thrown"} \cup Active

ASSUME StatusesAssumption ==
  "ok" \in Statuses /\ Statuses \cap (Unsettled \cup {"null"}) = {} /\ NULL \notin Statuses

\* NULL is none of the values it may stand in for.
ASSUME NullAssumption ==
  NULL \notin [depth : Nat, status : Statuses] \cup {"completed", "failed", "partial"}

VARIABLES
  plan,
  pc,         \* where run() is
  depth,
  aborted,    \* runController.signal.aborted
  halted,
  level,      \* the level of the plan being executed
  todo,       \* its channels whose result is not recorded yet
  cur,        \* the unit inside runGated on the sequential path
  hook,       \* the policy whose hook is next
  st,         \* per unit, at this depth: its state, then its status or "null"
  done,       \* completedThisDepth
  parsed,     \* the channels whose result at this depth has a parsedOutput
  upstream,   \* per channel: the upstream texts its prompt was given
  channels,   \* result.channels; depth 0 marks a carried result
  synthesis,  \* result.synthesis
  log,        \* result.policy
  status,     \* result.status, once the run has returned
  runs,       \* per unit: how often executeChannel was entered
  ended       \* how those executions ended, whoever awaits them

vars == <<plan, pc, depth, aborted, halted, level, todo, cur, hook, st, done,
          parsed, upstream, channels, synthesis, log, status, runs, ended>>

progress == <<depth, level, todo, cur>>
report   == <<channels, synthesis, log, status>>

-----------------------------------------------------------------------------
(***************************************************************************)
(* Helpers.                                                                *)
(***************************************************************************)

Settled(x) == st[x] \in Statuses \cup {"null"}

\* Fault: the channels of a level are taken last to first.
First_Last(S) == {c \in S : \A d \in S : c >= d}

\* The channel of S that is declared first, if S has any.
First(S) == {c \in S : \A d \in S : c <= d}

\* carryAtThisDepth: only depth 1 carries results forward.
CarriedAt(d) == IF d = 1 THEN plan.carried ELSE {}

\* plan.levels has further levels.
LevelsLeft == \E c \in Channels : plan.rank[c] > level

\* Fault: a resumed run executes the carried channels as well.
ToRun_Carried(l) == {c \in Channels : plan.rank[c] = l}

\* toRun: the channels of level l that are not carried.
ToRun(l) == {c \in Channels : plan.rank[c] = l} \ CarriedAt(depth)

\* recordCompleted, and the splicing of a carried result.
Completed(c, d, s) ==
  /\ channels' = Append(channels, [channel |-> c, depth |-> d, status |-> s])
  /\ done' = done \cup {c}

\* parsedOutput of channel x, settled with status s: what its text parsed to,
\* also when it fails the schema or is refused.  There is none when the text is no
\* JSON or no answer came, and may be none with the statuses of MayLack: the text
\* of a refusal rarely parses, and "null" parses to null.
NeverParsed == {"invalid_json", "error", "timeout"}

Parses(x, s) ==
  \/ x # Synth /\ s \notin NeverParsed /\ parsed' = parsed \cup {x}
  \/ (x = Synth \/ s \in NeverParsed \cup MayLack) /\ parsed' = parsed

\* A settled result has raw output in the store unless the channel failed; a
\* carried one has it in the run it was carried from, where nobody looks for it.
HasRaw(d) == st[d] \notin {"error", "timeout"}

\* buildUpstream: the texts a channel gets from the dependencies it finds.
UpstreamOf(c) ==
  LET found == plan.deps[c] \cap done IN
  {<<d, "parsed">> : d \in found \cap parsed} \cup
  {<<d, "raw">> : d \in {e \in found : HasRaw(e) /\ e \notin CarriedAt(depth)}}

\* Some dependency of c makes buildUpstream read the store.
ReadsStore(c) == \E d \in plan.deps[c] \cap done : HasRaw(d)

Count(states, S) == Cardinality({c \in S : st[c] \in states})

SameProvider(c) == {d \in Channels : plan.provider[d] = plan.provider[c]}

\* runOne is entered for unit x.
Start(x) ==
  /\ st'   = [st EXCEPT ![x] = "running"]
  /\ runs' = [runs EXCEPT ![x] = @ + 1]

\* runOne is not entered.
GoNull(x) == st' = [st EXCEPT ![x] = "null"] /\ UNCHANGED runs

Logged(name, decision) ==
  log' = Append(log, [unit |-> cur, depth |-> depth, hook |-> name, decision |-> decision])

-----------------------------------------------------------------------------
(***************************************************************************)
(* The depth and level loops.                                              *)
(***************************************************************************)

Init ==
  /\ plan \in Plans
  /\ pc = "depth" /\ depth = 0 /\ aborted = FALSE /\ halted = FALSE
  /\ level = 0 /\ todo = {} /\ cur = NULL /\ hook = 0
  /\ st = [x \in Units |-> "idle"] /\ done = {} /\ parsed = {} /\ upstream = [c \in Channels |-> {}]
  /\ channels = <<>> /\ synthesis = NULL /\ log = <<>> /\ status = NULL
  /\ runs = [x \in Units |-> 0] /\ ended = {}

\* A new depth: everything is forgotten but the results.
StartDepth ==
  /\ pc = "depth"
  /\ depth' = depth + 1
  /\ todo' = CarriedAt(depth + 1)
  /\ pc' = IF todo' = {} THEN "level" ELSE "carry"
  /\ st' = [x \in Units |-> "idle"] /\ done' = {} /\ parsed' = {}
  /\ upstream' = [c \in Channels |-> {}]
  /\ level' = 0
  /\ UNCHANGED <<plan, aborted, halted, cur, hook, runs, ended>>
  /\ UNCHANGED report

\* Fault: a carried result is reported but not offered to the channels behind it.
Carry_NotCompleted ==
  /\ pc = "carry"
  /\ \E c \in First(todo) :
       /\ channels' = Append(channels, [channel |-> c, depth |-> 0, status |-> "ok"])
       /\ st' = [st EXCEPT ![c] = "ok"] /\ Parses(c, "ok")
       /\ todo' = todo \ {c}
  /\ pc' = IF todo' = {} THEN "level" ELSE "carry"
  /\ UNCHANGED <<plan, depth, aborted, halted, level, cur, hook, done, upstream, synthesis, log,
                 status, runs, ended>>

\* The next carried result is spliced in.
Carry ==
  /\ pc = "carry"
  /\ \E c \in First(todo) :
       /\ Completed(c, 0, "ok")
       /\ st' = [st EXCEPT ![c] = "ok"] /\ Parses(c, "ok")
       /\ todo' = todo \ {c}
  /\ pc' = IF todo' = {} THEN "level" ELSE "carry"
  /\ UNCHANGED <<plan, depth, aborted, halted, level, cur, hook, upstream, synthesis, log,
                 status, runs, ended>>

\* The next level on the concurrent path: prompts are prepared and everything
\* is handed to the limiters.
LaunchLevel ==
  /\ pc = "level" /\ ~halted /\ LevelsLeft /\ ~plan.sequential
  /\ level' = level + 1
  /\ todo' = ToRun(level + 1)
  /\ IF todo' = {}
       THEN UNCHANGED <<pc, st, upstream>>
       ELSE /\ pc' = "wait"
            /\ st' = [x \in Units |-> IF x \in todo' THEN "queued" ELSE st[x]]
            /\ upstream' = [c \in Channels |-> IF c \in todo' THEN UpstreamOf(c) ELSE upstream[c]]
  /\ UNCHANGED <<plan, depth, aborted, halted, cur, hook, done, parsed, runs, ended>>
  /\ UNCHANGED report

\* The next level on the sequential path.
EnterLevel ==
  /\ pc = "level" /\ ~halted /\ LevelsLeft /\ plan.sequential
  /\ level' = level + 1
  /\ todo' = ToRun(level + 1)
  /\ IF todo' = {} THEN UNCHANGED <<pc, cur>> ELSE pc' = "gate" /\ cur' \in First(todo')
  /\ UNCHANGED <<plan, depth, aborted, halted, hook, st, done, parsed, upstream, runs, ended>>
  /\ UNCHANGED report

\* The levels are through, or a policy stopped them: the synthesis channel is
\* next, unless there is none or the run is halted.
EndLevels ==
  /\ pc = "level" /\ (halted \/ ~LevelsLeft)
  /\ IF plan.synthesis /\ ~halted
       THEN pc' = "gate" /\ cur' = Synth
       ELSE pc' = "decide" /\ UNCHANGED cur
  /\ UNCHANGED <<plan, depth, aborted, halted, level, todo, hook, st, done, parsed, upstream,
                 runs, ended>>
  /\ UNCHANGED report

\* The recursion decision (DefaultRecursionPolicy).
Decide ==
  /\ pc = "decide"
  /\ \/ /\ ~halted /\ plan.recursionEnabled /\ depth < plan.maxDepth
        /\ pc' = "depth"
     \/ /\ halted \/ ~plan.recursionEnabled \/ depth >= plan.maxDepth \/ plan.ceiling
        /\ pc' = "finish"
  /\ UNCHANGED <<plan, aborted, halted, hook, st, done, parsed, upstream, runs, ended>>
  /\ UNCHANGED <<progress, report>>

\* Fault: only the last depth is looked at.
Reported_LastDepth ==
  {channels[i].status : i \in {j \in 1..Len(channels) : channels[j].depth = depth}} \cup
  (IF synthesis = NULL THEN {} ELSE {synthesis.status})

\* The statuses the aggregation looks at.
Reported == {channels[i].status : i \in 1..Len(channels)} \cup
            (IF synthesis = NULL THEN {} ELSE {synthesis.status})

\* The verdict is drawn and saveRun stores the result: run() resolves.
Finish ==
  /\ pc = "finish"
  /\ status' = IF Reported # {} /\ "ok" \notin Reported THEN "failed"
               ELSE IF Reported \subseteq {"ok"} THEN "completed" ELSE "partial"
  /\ pc' = "returned"
  /\ UNCHANGED <<plan, aborted, halted, hook, st, done, parsed, upstream, channels, synthesis, log,
                 runs, ended>>
  /\ UNCHANGED progress

\* A registry or a store throws where run() itself awaits it: recordHashes for
\* carried channels, getRawOutput for upstream texts, saveRun.
PluginThrows ==
  /\ \/ pc = "carry"
     \/ /\ pc = "level" /\ ~halted /\ LevelsLeft /\ ~plan.sequential
        /\ \E c \in ToRun(level + 1) : ReadsStore(c)
     \/ pc = "gate" /\ cur \in Channels /\ ReadsStore(cur)
     \/ pc = "finish"
  /\ pc' = "rejected"
  /\ UNCHANGED <<plan, aborted, halted, hook, st, done, parsed, upstream, runs, ended>>
  /\ UNCHANGED <<progress, report>>

-----------------------------------------------------------------------------
(***************************************************************************)
(* The concurrent path.  Both limiters are p-limit queues, first in first  *)
(* out; a level enters them in declared order, and a channel keeps its     *)
(* global slot while it waits for its provider's.                          *)
(***************************************************************************)

frame == <<plan, aborted, halted, hook, done, parsed, upstream>>

\* Fault: one slot too many is handed out.
TakeGlobal_OneTooMany(c) ==
  /\ st[c] = "queued"
  /\ \A d \in Channels : st[d] = "queued" => c <= d
  /\ Count({"waiting", "running"}, Channels) <= plan.globalCap
  /\ st' = [st EXCEPT ![c] = "waiting"]
  /\ UNCHANGED <<pc, runs, ended>>
  /\ UNCHANGED <<frame, progress, report>>

\* Fault: a channel that throws never gives its slot back.
TakeGlobal_Leaks(c) ==
  /\ st[c] = "queued"
  /\ \A d \in Channels : st[d] = "queued" => c <= d
  /\ Count({"waiting", "running", "thrown"}, Channels) < plan.globalCap
  /\ st' = [st EXCEPT ![c] = "waiting"]
  /\ UNCHANGED <<pc, runs, ended>>
  /\ UNCHANGED <<frame, progress, report>>

\* The oldest channel in the global queue takes a free slot.
TakeGlobal(c) ==
  /\ st[c] = "queued"
  /\ \A d \in Channels : st[d] = "queued" => c <= d
  /\ Count({"waiting", "running"}, Channels) < plan.globalCap
  /\ st' = [st EXCEPT ![c] = "waiting"]
  /\ UNCHANGED <<pc, runs, ended>>
  /\ UNCHANGED <<frame, progress, report>>

\* Fault: a channel released by the limiters starts whether the run is aborted or not.
TakeProvider_Regardless(c) ==
  /\ st[c] = "waiting"
  /\ \A d \in SameProvider(c) : st[d] = "waiting" => c <= d
  /\ LET cap == plan.providerCap[plan.provider[c]] IN
       cap # NULL => Count({"running"}, SameProvider(c)) < cap
  /\ Start(c)
  /\ UNCHANGED <<pc, ended>>
  /\ UNCHANGED <<frame, progress, report>>

\* The channel reaches runGated: nothing starts once the run is aborted.
TakeProvider(c) ==
  /\ st[c] = "waiting"
  /\ \A d \in SameProvider(c) : st[d] = "waiting" => c <= d
  /\ LET cap == plan.providerCap[plan.provider[c]] IN
       cap # NULL => Count({"running"}, SameProvider(c)) < cap
  /\ IF aborted THEN GoNull(c) ELSE Start(c)
  /\ UNCHANGED <<pc, ended>>
  /\ UNCHANGED <<frame, progress, report>>

\* executeChannel settles.
Settle(c, s) ==
  /\ st[c] = "running" /\ ~plan.sequential
  /\ st' = [st EXCEPT ![c] = s]
  /\ ended' = ended \cup {[unit |-> c, depth |-> depth, status |-> s]}
  /\ Parses(c, s)
  /\ UNCHANGED <<plan, pc, aborted, halted, hook, done, upstream, runs>>
  /\ UNCHANGED <<progress, report>>

\* runOne throws (unknown provider type, unreadable prompt or schema): the
\* Promise.all of the level rejects and so does run(); nothing is cancelled.
Throw(c) ==
  /\ st[c] = "running" /\ ~plan.sequential
  /\ st' = [st EXCEPT ![c] = "thrown"]
  /\ pc' = "rejected"
  /\ UNCHANGED <<runs, ended>>
  /\ UNCHANGED <<frame, progress, report>>

\* The whole level has settled.
Awaited ==
  /\ pc = "wait" /\ \A c \in todo : Settled(c)
  /\ pc' = "collect"
  /\ UNCHANGED <<st, runs, ended>>
  /\ UNCHANGED <<frame, progress, report>>

\* Its results are recorded one by one in declared order.
Collect ==
  /\ pc = "collect"
  /\ \E c \in First(todo) :
       /\ IF st[c] = "null" THEN UNCHANGED <<channels, done>> ELSE Completed(c, depth, st[c])
       /\ todo' = todo \ {c}
  /\ pc' = IF todo' = {} THEN "level" ELSE "collect"
  /\ UNCHANGED <<plan, depth, aborted, halted, level, cur, hook, st, parsed, upstream, synthesis,
                 log, status, runs, ended>>

-----------------------------------------------------------------------------
(***************************************************************************)
(* The sequential path and the synthesis channel: runGated with its hooks, *)
(* one unit at a time.                                                     *)
(***************************************************************************)

\* runGated is entered: nothing runs once the run is aborted.  This is the only
\* time it looks.
EnterGate ==
  /\ pc = "gate"
  /\ upstream' = IF cur = Synth THEN upstream ELSE [upstream EXCEPT ![cur] = UpstreamOf(cur)]
  /\ \/ aborted /\ GoNull(cur) /\ pc' = "record" /\ UNCHANGED hook
     \/ ~aborted /\ plan.before = 0 /\ Start(cur) /\ pc' = "run" /\ UNCHANGED hook
     \/ ~aborted /\ plan.before > 0 /\ hook' = 1 /\ pc' = "before" /\ UNCHANGED <<st, runs>>
  /\ UNCHANGED <<plan, aborted, halted, done, parsed, ended>>
  /\ UNCHANGED <<progress, report>>

\* The next policy lets the unit through; the last one lets it run.
Proceed ==
  /\ pc = "before"
  /\ Logged("before", "proceed")
  /\ IF hook < plan.before
       THEN hook' = hook + 1 /\ UNCHANGED <<pc, st, runs>>
       ELSE Start(cur) /\ pc' = "run" /\ UNCHANGED hook
  /\ UNCHANGED <<plan, aborted, halted, done, parsed, upstream, channels, synthesis, status, ended>>
  /\ UNCHANGED progress

\* It keeps the unit from running.
Skip ==
  /\ pc = "before"
  /\ Logged("before", "skip")
  /\ GoNull(cur) /\ pc' = "record"
  /\ UNCHANGED <<plan, aborted, halted, hook, done, parsed, upstream, channels, synthesis, status,
                 ended>>
  /\ UNCHANGED progress

\* Fault: an abort only keeps its own unit from running.
Abort_UnitOnly ==
  /\ pc = "before"
  /\ Logged("before", "abort")
  /\ GoNull(cur) /\ pc' = "record"
  /\ UNCHANGED <<plan, aborted, halted, hook, done, parsed, upstream, channels, synthesis, status,
                 ended>>
  /\ UNCHANGED progress

\* It stops the whole run.
Abort ==
  /\ pc = "before"
  /\ Logged("before", "abort")
  /\ halted' = TRUE /\ aborted' = TRUE
  /\ GoNull(cur) /\ pc' = "record"
  /\ UNCHANGED <<plan, hook, done, parsed, upstream, channels, synthesis, status, ended>>
  /\ UNCHANGED progress

\* A policy's hook throws; nothing catches it.
HookThrows ==
  /\ pc \in {"before", "after"}
  /\ pc' = "rejected"
  /\ UNCHANGED <<plan, aborted, halted, hook, st, done, parsed, upstream, runs, ended>>
  /\ UNCHANGED <<progress, report>>

SettleGated(s) ==
  /\ pc = "run"
  /\ st' = [st EXCEPT ![cur] = s]
  /\ ended' = ended \cup {[unit |-> cur, depth |-> depth, status |-> s]}
  /\ Parses(cur, s)
  /\ IF plan.after = 0 THEN pc' = "record" /\ UNCHANGED hook ELSE pc' = "after" /\ hook' = 1
  /\ UNCHANGED <<plan, aborted, halted, done, upstream, runs>>
  /\ UNCHANGED <<progress, report>>

ThrowGated ==
  /\ pc = "run"
  /\ st' = [st EXCEPT ![cur] = "thrown"]
  /\ pc' = "rejected"
  /\ UNCHANGED <<plan, aborted, halted, hook, done, parsed, upstream, runs, ended>>
  /\ UNCHANGED <<progress, report>>

\* Every policy sees the result, also after one of them has halted the run.
AfterHook(verdict) ==
  /\ pc = "after"
  /\ Logged("after", verdict)
  /\ halted'  = (halted \/ verdict = "halt")
  /\ aborted' = (aborted \/ verdict = "halt")
  /\ IF hook < plan.after THEN hook' = hook + 1 /\ UNCHANGED pc ELSE pc' = "record" /\ UNCHANGED hook
  /\ UNCHANGED <<plan, st, done, parsed, upstream, channels, synthesis, status, runs, ended>>
  /\ UNCHANGED progress

\* Fault: the loop is left before the result that halted the run is recorded.
RecordChannel_HaltDrops ==
  /\ pc = "record" /\ cur \in Channels
  /\ IF st[cur] = "null" \/ halted
       THEN UNCHANGED <<channels, done>>
       ELSE Completed(cur, depth, st[cur])
  /\ todo' = todo \ {cur}
  /\ IF todo' = {} \/ halted
       THEN pc' = "level" /\ UNCHANGED cur
       ELSE pc' = "gate" /\ cur' \in First(todo')
  /\ UNCHANGED <<plan, depth, aborted, halted, level, hook, st, parsed, upstream, synthesis,
                 log, status, runs, ended>>

\* What runGated returned is recorded; the level goes on unless the run is halted.
RecordChannel ==
  /\ pc = "record" /\ cur \in Channels
  /\ IF st[cur] = "null"
       THEN UNCHANGED <<channels, done>>
       ELSE Completed(cur, depth, st[cur])
  /\ todo' = todo \ {cur}
  /\ IF todo' = {} \/ halted
       THEN pc' = "level" /\ UNCHANGED cur
       ELSE pc' = "gate" /\ cur' \in First(todo')
  /\ UNCHANGED <<plan, depth, aborted, halted, level, hook, st, parsed, upstream, synthesis,
                 log, status, runs, ended>>

\* Fault: a synthesis channel that did not run is recorded all the same.
RecordSynthesis_Null ==
  /\ pc = "record" /\ cur = Synth
  /\ synthesis' = [depth |-> depth, status |-> st[Synth]]
  /\ pc' = "decide"
  /\ UNCHANGED <<plan, aborted, halted, hook, st, done, parsed, upstream, channels, log, status,
                 runs, ended>>
  /\ UNCHANGED progress

\* The synthesis replaces that of the depth before, if there is a new one.
RecordSynthesis ==
  /\ pc = "record" /\ cur = Synth
  /\ synthesis' = IF st[Synth] = "null" THEN synthesis ELSE [depth |-> depth, status |-> st[Synth]]
  /\ pc' = "decide"
  /\ UNCHANGED <<plan, aborted, halted, hook, st, done, parsed, upstream, channels, log, status,
                 runs, ended>>
  /\ UNCHANGED progress

-----------------------------------------------------------------------------

\* The caller's AbortSignal fires.
ExternalAbort ==
  /\ ~aborted /\ pc # "returned"
  /\ aborted' = TRUE
  /\ UNCHANGED <<plan, pc, halted, hook, st, done, parsed, upstream, runs, ended>>
  /\ UNCHANGED <<progress, report>>

Quiet == pc \in {"returned", "rejected"} /\ \A x \in Units : st[x] \notin Active

Over == Quiet /\ UNCHANGED vars

Step ==
  \/ StartDepth \/ Carry \/ LaunchLevel \/ EnterLevel \/ EndLevels \/ Decide \/ Finish \/ PluginThrows
  \/ \E c \in Channels : TakeGlobal(c) \/ TakeProvider(c) \/ Throw(c)
  \/ \E c \in Channels, s \in Statuses : Settle(c, s)
  \/ Awaited \/ Collect
  \/ EnterGate \/ Proceed \/ Skip \/ Abort \/ HookThrows
  \/ \E s \in Statuses : SettleGated(s)
  \/ ThrowGated
  \/ \E verdict \in {"continue", "halt"} : AfterHook(verdict)
  \/ RecordChannel \/ RecordSynthesis

Next == Step \/ ExternalAbort \/ Over

Spec == Init /\ [][Next]_vars

\* Whatever run() awaits settles (see ChannelExecutor), and the event loop gets
\* round to it; nobody has to abort.
FairSpec == Spec /\ WF_vars(Step)
-----------------------------------------------------------------------------
(***************************************************************************)
(* Properties.                                                             *)
(***************************************************************************)

UnitStates == Unsettled \cup {"null"} \cup Statuses

PCs == {"depth", "carry", "level", "wait", "collect", "gate", "before", "run", "after", "record",
        "decide", "finish", "returned", "rejected"}

\* The type invariant: every variable of run() has its type.
TypeOK ==
  /\ plan \in Plans /\ pc \in PCs
  /\ depth \in Nat /\ level \in Nat /\ hook \in Nat
  /\ aborted \in BOOLEAN /\ halted \in BOOLEAN
  /\ todo \subseteq Channels /\ cur \in Units \cup {NULL}
  /\ pc \in {"gate", "before", "run", "after", "record"} => cur \in Units
  /\ st \in [Units -> UnitStates] /\ done \subseteq Channels /\ parsed \subseteq Channels
  /\ upstream \in [Channels -> SUBSET (Channels \X {"parsed", "raw"})]
  /\ channels \in Seq([channel : Channels, depth : Nat, status : Statuses])
  /\ synthesis \in [depth : Nat, status : Statuses] \cup {NULL}
  /\ log \in Seq([unit : Units, depth : Nat, hook : {"before", "after"},
                  decision : {"proceed", "skip", "abort", "continue", "halt"}])
  /\ status \in {"completed", "failed", "partial", NULL}
  /\ runs \in [Units -> Nat]
  /\ ended \subseteq [unit : Units, depth : Nat, status : Statuses]

\* At most globalCap channels hold a slot and at most a provider's cap of its
\* channels are running, whatever order they settle, throw or are aborted in;
\* with policies registered one unit runs at a time, and while the synthesis
\* channel runs no channel does.
CapsRespected ==
  /\ Count({"waiting", "running"}, Channels) <= plan.globalCap
  /\ \A p \in Providers : plan.providerCap[p] # NULL =>
       Count({"running"}, {c \in Channels : plan.provider[c] = p}) <= plan.providerCap[p]
  /\ plan.sequential \/ st[Synth] = "running" => Count(Active, Units) <= 1

\* A channel that runs, runs after everything it depends on: each dependency
\* has settled or was skipped at this depth, and the prompt was given the parsed
\* output of exactly those that have one, whatever their status and carried ones
\* included, and the raw text of exactly those that answered in this run.
DependencyOrder ==
  \A c \in Channels : st[c] = "running" =>
    \A d \in plan.deps[c] :
      /\ Settled(d)
      /\ d \in parsed <=> <<d, "parsed">> \in upstream[c]
      /\ st[d] # "null" /\ HasRaw(d) /\ d \notin CarriedAt(depth) <=> <<d, "raw">> \in upstream[c]

\* No channel is executed twice at a depth, none that is carried over from the
\* run being resumed is executed at depth 1, and recursion is bounded by the
\* plan whatever the outcomes are.
AtMostOncePerDepth ==
  /\ \A x \in Units : runs[x] <= depth
  /\ \A c \in plan.carried : runs[c] < depth \/ runs[c] = 0
  /\ depth <= 1 \/ depth <= plan.maxDepth

\* Once a policy has halted the run no unit starts any more; once the run is
\* aborted none does but the one already past the check of runGated, and a
\* queue that is released later only drains.
NoStartAfterStop ==
  [][runs' # runs => ~halted /\ (aborted => pc = "before")]_vars

\* The decision trail tells the story of the run: a unit is executed at a depth
\* exactly when every policy has let it proceed there, an abort is the last
\* entry, and after a halt only the rest of the same unit's hooks are consulted.
DecisionTrail ==
  /\ plan.before > 0 =>
       \A x \in Units :
         runs[x] = Cardinality({d \in 1..depth :
           Cardinality({i \in 1..Len(log) : /\ log[i].unit = x /\ log[i].depth = d
                                            /\ log[i].decision = "proceed"}) = plan.before})
  /\ \A i, j \in 1..Len(log) : i < j =>
       /\ log[i].decision # "abort"
       /\ log[i].decision = "halt" =>
            log[j].unit = log[i].unit /\ log[j].hook = "after" /\ log[j].depth = log[i].depth

\* result.channels never depends on which channel finished first: results come
\* by depth, then by level of the graph, then in declared order, carried ones
\* in front, and no channel has two of the same depth.
Precedes(e, f) ==
  \/ e.depth < f.depth
  \/ e.depth = f.depth /\ e.depth > 0 /\ plan.rank[e.channel] < plan.rank[f.channel]
  \/ e.depth = f.depth /\ e.channel < f.channel
       /\ (e.depth > 0 => plan.rank[e.channel] = plan.rank[f.channel])

ResultsInPlanOrder ==
  \A i, j \in 1..Len(channels) : i < j => Precedes(channels[i], channels[j])

\* A run that returns has lost nothing: the results of its channels are exactly
\* the executions that ended, one for each that was started, and the synthesis
\* it reports is the newest one there was.
Entry(e) == [unit |-> e.channel, depth |-> e.depth, status |-> e.status]

NothingLost ==
  pc = "returned" =>
    /\ {Entry(channels[i]) : i \in {j \in 1..Len(channels) : channels[j].depth > 0}}
         = {e \in ended : e.unit # Synth}
    /\ \A x \in Units : runs[x] = Cardinality({e \in ended : e.unit = x})
    /\ {c \in Channels : \E i \in 1..Len(channels) :
          channels[i] = [channel |-> c, depth |-> 0, status |-> "ok"]} = plan.carried
    /\ LET syntheses == {e \in ended : e.unit = Synth} IN
         IF synthesis = NULL THEN syntheses = {}
         ELSE \E e \in syntheses :
                /\ synthesis = [depth |-> e.depth, status |-> e.status]
                /\ \A f \in syntheses : f.depth <= e.depth

\* The verdict matches what happened to the channels: a completed run has no
\* channel that went wrong at any depth, a failed one has none that went right.
HonestStatus ==
  LET outcomes == {e.status : e \in {f \in ended : f.unit # Synth}} IN
  /\ status = "completed" => outcomes \subseteq {"ok"}
  /\ status = "failed"    => "ok" \notin outcomes /\ ended # {}
  /\ status = "partial"   => \E e \in ended : e.status # "ok"

\* run() settles, resolved or rejected, and in the end nothing it started is
\* left in a limiter's queue or in flight.
Settles == <>Quiet

\* The inductive invariant behind the proofs.  How pc, cur and halted bind the
\* units: who is settled when results are recorded, who may be in flight, and
\* that a halted run only winds down.
InGate == {"gate", "before", "run", "after", "record"}

Phase ==
  /\ pc = "collect" => \A c \in todo : Settled(c)
  /\ pc = "run"     => st[cur] = "running"
  /\ pc = "after"   => st[cur] \in Statuses
  /\ pc = "record"  => Settled(cur)
  /\ pc \in InGate  => cur = Synth \/ (plan.sequential /\ cur \in todo)
  /\ pc \in {"wait", "collect"} => ~plan.sequential
  /\ \A x \in Units : st[x] \in Active =>
       \/ pc = "run" /\ x = cur
       \/ ~plan.sequential /\ x # Synth /\ ((pc = "wait" /\ x \in todo) \/ pc = "rejected")
  /\ halted => aborted /\ pc \in {"after", "record", "level", "decide", "finish",
                                  "returned", "rejected"}

\* Nothing has been executed at this depth that is still ahead of the level loop.
Unstarted == {"idle", "queued", "waiting"}

Fresh ==
  /\ depth = 0 => pc = "depth"
  /\ pc \in {"carry", "level", "wait", "collect"} => st[Synth] = "idle"
  /\ pc \in InGate /\ cur # Synth => st[Synth] = "idle"
  /\ pc \in {"gate", "before"} => st[cur] = "idle"
  /\ pc \in {"carry", "level", "wait", "collect"} \cup InGate =>
       /\ \A c \in Channels : plan.rank[c] > level /\ c \notin CarriedAt(depth) => st[c] = "idle"
       /\ \A c \in todo : IF pc = "carry" THEN c \in CarriedAt(depth)
                         ELSE c \notin CarriedAt(depth) /\ plan.rank[c] = level
       /\ pc \in InGate /\ cur # Synth => \A c \in todo : c # cur => st[c] = "idle"
  /\ \A c \in Channels : st[c] \in {"queued", "waiting"} => c \notin CarriedAt(depth)

\* The executions a unit may have had: one per depth, none where it was carried.
Allowed(x) == IF x \in plan.carried THEN depth - 1 ELSE depth

RunsAccounted ==
  \A x \in Units :
    IF depth = 0 THEN runs[x] = 0
    ELSE /\ runs[x] <= Allowed(x)
         /\ st[x] \in Unstarted /\ x \notin CarriedAt(depth) => runs[x] < Allowed(x)

IInv == TypeOK /\ Phase /\ Fresh /\ RunsAccounted

=============================================================================
