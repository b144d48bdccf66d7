------------------------ MODULE PipelineExecutorProofs ------------------------
(***************************************************************************)
(* Theorems about PipelineExecutor, for any pipeline, plan, set of         *)
(* statuses and number of policies: how units are launched, bounded and    *)
(* stopped; and what a run reports: that a channel runs behind what it     *)
(* depends on, that the report is in plan order, loses nothing and draws   *)
(* an honest verdict, and that the decision trail tells the story of the   *)
(* run.                                                                    *)
(***************************************************************************)
EXTENDS PipelineExecutor, SequenceTheorems, FiniteSetTheorems, TLAPS

-----------------------------------------------------------------------------
(***************************************************************************)
(* Types.                                                                  *)
(***************************************************************************)

\* Plans are of their type, and a plan stays the one it is.
LEMMA PlanTyped == TypeOK => plan \in PlanType /\ WellFormed(plan)
  BY PlansAssumption DEF TypeOK

\* A run starts with the types it keeps.
LEMMA InitTyped == Init => TypeOK
  BY NumChannelsAssumption DEF Init, TypeOK, Units, Channels, UnitStates, Unsettled, PCs

\* Facts every step proof below needs: a unit is a channel or the synthesis, and
\* what is written into st keeps the four kinds of states apart.
LEMMA Kinds ==
  /\ Channels \subseteq Units /\ Synth \in Units /\ Synth \notin Channels
  /\ Statuses \subseteq UnitStates /\ "ok" \in Statuses
  /\ \A s \in {"idle", "thrown", "queued", "waiting", "running", "null"} :
       s \in UnitStates /\ s \notin Statuses
  BY NumChannelsAssumption, StatusesAssumption
     DEF Channels, Units, Synth, UnitStates, Unsettled, Active

\* No step changes the plan.
LEMMA PlanFixed == [Next]_vars => plan' = plan
  BY DEF Next, Step, Over, vars, StartDepth, Carry, LaunchLevel, EnterLevel, EndLevels, Decide,
         Finish, PluginThrows, HookThrows, TakeGlobal, TakeProvider, Throw, Settle, Awaited, Collect,
         EnterGate, Proceed, Skip, Abort, SettleGated, ThrowGated, AfterHook, RecordChannel,
         RecordSynthesis, ExternalAbort, frame

\* Starting a unit and recording a result keep the types.
LEMMA StartTyped ==
  ASSUME TypeOK, NEW x \in Units, Start(x)
  PROVE  st' \in [Units -> UnitStates] /\ runs' \in [Units -> Nat]
<1>1. st' \in [Units -> UnitStates]
  BY Kinds DEF Start, TypeOK
<1>2. \A y \in Units : runs[y] \in Nat /\ runs[y] + 1 \in Nat
  BY DEF TypeOK
<1>3. runs' = [y \in Units |-> IF y = x THEN runs[x] + 1 ELSE runs[y]]
  BY DEF Start, TypeOK
<1> QED BY <1>1, <1>2, <1>3

\* Recording a result keeps the types.
LEMMA CompletedTyped ==
  ASSUME TypeOK, NEW c \in Channels, NEW d \in Nat, NEW s \in Statuses, Completed(c, d, s)
  PROVE  /\ channels' \in Seq([channel : Channels, depth : Nat, status : Statuses])
         /\ done' \subseteq Channels
<1> DEFINE Entries == [channel : Channels, depth : Nat, status : Statuses]
<1>1. channels \in Seq(Entries) /\ [channel |-> c, depth |-> d, status |-> s] \in Entries
  BY DEF TypeOK
<1>2. channels' \in Seq(Entries)
  <2> HIDE DEF Entries
  <2> QED BY <1>1 DEF Completed
<1> QED BY <1>2 DEF Completed, TypeOK

\* Every step keeps the types.
LEMMA StepTyped == TypeOK /\ Phase /\ [Next]_vars => TypeOK'
<1> SUFFICES ASSUME TypeOK, Phase, [Next]_vars PROVE TypeOK'
  OBVIOUS
<1> USE Kinds DEF TypeOK, PCs
<1>a. plan.carried \in SUBSET Channels
  BY PlanTyped DEF PlanType
<1>1. CASE StartDepth
  BY <1>1, <1>a DEF StartDepth, CarriedAt, report
<1>2. CASE Carry
  BY <1>2 DEF Carry, First, Completed, Parses
<1>3. CASE LaunchLevel
  <2>1. todo' \subseteq Channels /\ level' \in Nat
    BY <1>3 DEF LaunchLevel, ToRun
  <2>2. \A c \in Channels : UpstreamOf(c) \subseteq Channels \X {"parsed", "raw"}
    BY DEF UpstreamOf
  <2>3. upstream' \in [Channels -> SUBSET (Channels \X {"parsed", "raw"})]
    <3>1. CASE todo' = {}
      BY <1>3, <3>1 DEF LaunchLevel
    <3>2. CASE todo' # {}
      <4>1. upstream' = [c \in Channels |-> IF c \in todo' THEN UpstreamOf(c) ELSE upstream[c]]
        BY <1>3, <3>2 DEF LaunchLevel
      <4> QED BY <2>2, <4>1
    <3> QED BY <3>1, <3>2
  <2>4. st' \in [Units -> UnitStates]
    BY <1>3 DEF LaunchLevel
  <2> QED BY <1>3, <2>1, <2>3, <2>4 DEF LaunchLevel, report
<1>4. CASE EnterLevel
  BY <1>4 DEF EnterLevel, ToRun, First, report
<1>5. CASE EndLevels
  BY <1>5 DEF EndLevels, report
<1>6. CASE Decide
  BY <1>6 DEF Decide, report, progress
<1>7. CASE Finish
  BY <1>7 DEF Finish, progress
<1>8. CASE PluginThrows
  BY <1>8 DEF PluginThrows, report, progress
<1>9. ASSUME NEW c \in Channels, TakeGlobal(c) PROVE TypeOK'
  BY <1>9 DEF TakeGlobal, frame, report, progress
<1>10. ASSUME NEW c \in Channels, TakeProvider(c) PROVE TypeOK'
  <2>1. CASE aborted
    BY <1>10, <2>1 DEF TakeProvider, GoNull, frame, report, progress
  <2>2. CASE ~aborted
    <3>1. st' \in [Units -> UnitStates] /\ runs' \in [Units -> Nat]
      BY <1>10, <2>2, StartTyped DEF TakeProvider
    <3> QED BY <1>10, <3>1 DEF TakeProvider, frame, report, progress
  <2> QED BY <2>1, <2>2
<1>11. ASSUME NEW c \in Channels, Throw(c) PROVE TypeOK'
  BY <1>11 DEF Throw, frame, report, progress
<1>12. ASSUME NEW c \in Channels, NEW s \in Statuses, Settle(c, s) PROVE TypeOK'
  BY <1>12 DEF Settle, Parses, report, progress
<1>13. CASE Awaited
  BY <1>13 DEF Awaited, frame, report, progress
<1>14. CASE Collect
  <2>1. PICK c \in First(todo) :
          /\ IF st[c] = "null" THEN UNCHANGED <<channels, done>> ELSE Completed(c, depth, st[c])
          /\ todo' = todo \ {c}
    BY <1>14 DEF Collect
  <2>2. c \in Channels /\ Settled(c)
    BY <1>14 DEF Collect, First, Phase
  <2>3. /\ channels' \in Seq([channel : Channels, depth : Nat, status : Statuses])
        /\ done' \subseteq Channels
    <3>1. CASE st[c] = "null"
      BY <2>1, <3>1
    <3>2. CASE st[c] # "null"
      BY <2>1, <2>2, <3>2, CompletedTyped DEF Settled
    <3> QED BY <3>1, <3>2
  <2> QED BY <1>14, <2>1, <2>3 DEF Collect
<1>15. CASE EnterGate
  <2>1. cur # Synth => cur \in Channels
    BY <1>15, NumChannelsAssumption DEF EnterGate, Units, Channels, Synth
  <2>2. upstream' \in [Channels -> SUBSET (Channels \X {"parsed", "raw"})]
    <3>1. cur # Synth => UpstreamOf(cur) \subseteq Channels \X {"parsed", "raw"}
      BY DEF UpstreamOf
    <3> QED BY <1>15, <2>1, <3>1 DEF EnterGate
  <2>3. CASE aborted /\ GoNull(cur) /\ pc' = "record" /\ UNCHANGED hook
    BY <1>15, <2>2, <2>3 DEF EnterGate, GoNull, report, progress
  <2>4. CASE ~aborted /\ plan.before = 0 /\ Start(cur) /\ pc' = "run" /\ UNCHANGED hook
    <3>1. st' \in [Units -> UnitStates] /\ runs' \in [Units -> Nat]
      BY <1>15, <2>4, StartTyped DEF EnterGate
    <3> QED BY <1>15, <2>2, <2>4, <3>1 DEF EnterGate, report, progress
  <2>5. CASE ~aborted /\ plan.before > 0 /\ hook' = 1 /\ pc' = "before" /\ UNCHANGED <<st, runs>>
    BY <1>15, <2>2, <2>5 DEF EnterGate, report, progress
  <2> QED BY <1>15, <2>3, <2>4, <2>5 DEF EnterGate
<1>16. CASE Proceed
  <2>1. log' \in Seq([unit : Units, depth : Nat, hook : {"before", "after"},
                      decision : {"proceed", "skip", "abort", "continue", "halt"}])
    BY <1>16 DEF Proceed, Logged
  <2>2. CASE hook < plan.before
    BY <1>16, <2>1, <2>2 DEF Proceed, progress
  <2>3. CASE ~(hook < plan.before)
    <3>1. st' \in [Units -> UnitStates] /\ runs' \in [Units -> Nat]
      BY <1>16, <2>3, StartTyped DEF Proceed
    <3> QED BY <1>16, <2>1, <2>3, <3>1 DEF Proceed, progress
  <2> QED BY <2>2, <2>3
<1>17. CASE Skip
  BY <1>17 DEF Skip, Logged, GoNull, report, progress
<1>18. CASE Abort
  BY <1>18 DEF Abort, Logged, GoNull, report, progress
<1>19. ASSUME NEW s \in Statuses, SettleGated(s) PROVE TypeOK'
  <2>1. cur # Synth => cur \in Channels
    BY <1>19 DEF SettleGated, Units, Channels, Synth
  <2>2. parsed' \subseteq Channels
    BY <1>19, <2>1 DEF SettleGated, Parses
  <2> QED BY <1>19, <2>2 DEF SettleGated, report, progress
<1>20. CASE ThrowGated
  BY <1>20 DEF ThrowGated, report, progress
<1>21. ASSUME NEW verdict \in {"continue", "halt"}, AfterHook(verdict) PROVE TypeOK'
  BY <1>21 DEF AfterHook, Logged, report, progress
<1>22. CASE RecordChannel
  <2>1. cur \in Channels /\ Settled(cur)
    BY <1>22 DEF RecordChannel, Phase
  <2>2. /\ channels' \in Seq([channel : Channels, depth : Nat, status : Statuses])
        /\ done' \subseteq Channels
    <3>1. CASE st[cur] = "null"
      BY <1>22, <3>1 DEF RecordChannel
    <3>2. CASE st[cur] # "null"
      BY <1>22, <2>1, <3>2, CompletedTyped DEF RecordChannel, Settled
    <3> QED BY <3>1, <3>2
  <2>3. /\ pc' \in {"level", "gate"} /\ cur' \in Units
        /\ todo' \subseteq Channels
    BY <1>22 DEF RecordChannel, First
  <2> QED BY <1>22, <2>2, <2>3 DEF RecordChannel
<1>23. CASE RecordSynthesis
  <2>1. synthesis' \in [depth : Nat, status : Statuses] \cup {NULL}
    BY <1>23 DEF RecordSynthesis, Phase, Settled
  <2> QED BY <1>23, <2>1 DEF RecordSynthesis, progress
<1>24. CASE ExternalAbort
  BY <1>24 DEF ExternalAbort, report, progress
<1>25. CASE UNCHANGED vars
  BY <1>25 DEF vars
<1>26. CASE HookThrows
  BY <1>26 DEF HookThrows, report, progress
<1> QED
  BY <1>1, <1>2, <1>3, <1>4, <1>5, <1>6, <1>7, <1>8, <1>9, <1>10, <1>11, <1>12, <1>13, <1>14,
     <1>15, <1>16, <1>17, <1>18, <1>19, <1>20, <1>21, <1>22, <1>23, <1>24, <1>25, <1>26
     DEF Next, Step, Over

-----------------------------------------------------------------------------
(***************************************************************************)
(* The phases of a run.                                                    *)
(***************************************************************************)

\* A state of a unit that ends its turn at a depth is not one in flight.
LEMMA SettledIsNotActive ==
  \A s \in Statuses \cup {"null", "idle", "thrown"} : s \notin Active
  BY StatusesAssumption DEF Active, Unsettled

\* Every step keeps what the program counter says of the units.
LEMMA PhaseStep == TypeOK /\ Phase /\ [Next]_vars => Phase'
<1> SUFFICES ASSUME TypeOK, Phase, [Next]_vars PROVE Phase'
  OBVIOUS
<1> USE Kinds, SettledIsNotActive DEF TypeOK, Phase, InGate
<1>1. CASE StartDepth
  BY <1>1 DEF StartDepth, report
<1>2. CASE Carry
  BY <1>2 DEF Carry
<1>3. CASE LaunchLevel
  BY <1>3 DEF LaunchLevel, ToRun, report
<1>4. CASE EnterLevel
  BY <1>4 DEF EnterLevel, First, report
<1>5. CASE EndLevels
  BY <1>5 DEF EndLevels, report
<1>6. CASE Decide
  BY <1>6 DEF Decide, report, progress
<1>7. CASE Finish
  BY <1>7 DEF Finish, progress
<1>8. CASE PluginThrows
  BY <1>8 DEF PluginThrows, report, progress
<1>9. ASSUME NEW c \in Channels, TakeGlobal(c) PROVE Phase'
  BY <1>9 DEF TakeGlobal, frame, report, progress, Active, Settled
<1>10. ASSUME NEW c \in Channels, TakeProvider(c) PROVE Phase'
  BY <1>10 DEF TakeProvider, Start, GoNull, frame, report, progress, Active, Settled
<1>11. ASSUME NEW c \in Channels, Throw(c) PROVE Phase'
  BY <1>11 DEF Throw, frame, report, progress, Active
<1>12. ASSUME NEW c \in Channels, NEW s \in Statuses, Settle(c, s) PROVE Phase'
  BY <1>12 DEF Settle, frame, report, progress, Active, Settled
<1>13. CASE Awaited
  BY <1>13 DEF Awaited, frame, report, progress, Settled
<1>14. CASE Collect
  BY <1>14 DEF Collect, Settled
<1>15. CASE EnterGate
  BY <1>15 DEF EnterGate, GoNull, Start, report, progress, Settled
<1>16. CASE Proceed
  BY <1>16 DEF Proceed, Start, progress
<1>17. CASE Skip
  BY <1>17 DEF Skip, GoNull, progress, Settled
<1>18. CASE Abort
  BY <1>18 DEF Abort, GoNull, progress, Settled
<1>19. ASSUME NEW s \in Statuses, SettleGated(s) PROVE Phase'
  BY <1>19 DEF SettleGated, report, progress, Settled
<1>20. CASE ThrowGated
  BY <1>20 DEF ThrowGated, report, progress
<1>21. ASSUME NEW verdict \in {"continue", "halt"}, AfterHook(verdict) PROVE Phase'
  BY <1>21 DEF AfterHook, progress, Settled
<1>22. CASE RecordChannel
  BY <1>22 DEF RecordChannel, First
<1>23. CASE RecordSynthesis
  BY <1>23 DEF RecordSynthesis, progress
<1>24. CASE ExternalAbort
  BY <1>24 DEF ExternalAbort, report, progress, Settled
<1>25. CASE UNCHANGED vars
  BY <1>25 DEF vars, Settled
<1>26. CASE HookThrows
  BY <1>26 DEF HookThrows, report, progress
<1> QED
  BY <1>1, <1>2, <1>3, <1>4, <1>5, <1>6, <1>7, <1>8, <1>9, <1>10, <1>11, <1>12, <1>13, <1>14,
     <1>15, <1>16, <1>17, <1>18, <1>19, <1>20, <1>21, <1>22, <1>23, <1>24, <1>25, <1>26
     DEF Next, Step, Over

-----------------------------------------------------------------------------
(***************************************************************************)
(* What is still ahead of the level loop has not been executed.            *)
(***************************************************************************)

\* Every step leaves what is ahead of the level loop alone.
LEMMA FreshStep == TypeOK /\ Phase /\ Fresh /\ [Next]_vars => Fresh'
<1> SUFFICES ASSUME TypeOK, Phase, Fresh, [Next]_vars PROVE Fresh'
  OBVIOUS
<1>p. plan \in PlanType
  BY PlanTyped
<1> USE Kinds, SettledIsNotActive, <1>p DEF TypeOK, Phase, Fresh, InGate, PlanType
<1>1. CASE StartDepth
  BY <1>1 DEF StartDepth, CarriedAt, report
<1>2. CASE Carry
  BY <1>2 DEF Carry, First, Completed, CarriedAt
<1>3. CASE LaunchLevel
  <2>1. CASE todo' = {}
    BY <1>3, <2>1 DEF LaunchLevel, ToRun, CarriedAt, report
  <2>2. CASE todo' # {}
    <3>1. \A c \in todo' : c \in Channels /\ c \notin CarriedAt(depth) /\ plan.rank[c] = level'
      BY <1>3 DEF LaunchLevel, ToRun
    <3>2. \A x \in Units : st'[x] = IF x \in todo' THEN "queued" ELSE st[x]
      BY <1>3, <2>2 DEF LaunchLevel
    <3>3. \A c \in Channels :
            plan.rank[c] > level' => plan.rank[c] > level /\ c \notin todo'
      BY <1>3, <3>1 DEF LaunchLevel
    <3> QED BY <1>3, <2>2, <3>1, <3>2, <3>3 DEF LaunchLevel, CarriedAt, report
  <2> QED BY <2>1, <2>2
<1>4. CASE EnterLevel
  BY <1>4 DEF EnterLevel, ToRun, First, CarriedAt, report
<1>5. CASE EndLevels
  BY <1>5 DEF EndLevels, CarriedAt, report
<1>6. CASE Decide
  BY <1>6 DEF Decide, CarriedAt, report, progress
<1>7. CASE Finish
  BY <1>7 DEF Finish, CarriedAt, progress
<1>8. CASE PluginThrows
  BY <1>8 DEF PluginThrows, CarriedAt, report, progress
<1>9. ASSUME NEW c \in Channels, TakeGlobal(c) PROVE Fresh'
  BY <1>9 DEF TakeGlobal, CarriedAt, frame, report, progress, Active
<1>10. ASSUME NEW c \in Channels, TakeProvider(c) PROVE Fresh'
  BY <1>10 DEF TakeProvider, Start, GoNull, CarriedAt, frame, report, progress, Active
<1>11. ASSUME NEW c \in Channels, Throw(c) PROVE Fresh'
  BY <1>11 DEF Throw, CarriedAt, frame, report, progress, Active
<1>12. ASSUME NEW c \in Channels, NEW s \in Statuses, Settle(c, s) PROVE Fresh'
  BY <1>12 DEF Settle, CarriedAt, frame, report, progress, Active
<1>13. CASE Awaited
  BY <1>13 DEF Awaited, CarriedAt, frame, report, progress
<1>14. CASE Collect
  BY <1>14 DEF Collect, CarriedAt, Completed
<1>15. CASE EnterGate
  <2>1. \A c \in Channels : plan.rank[c] > level => c # cur
    BY <1>15 DEF EnterGate
  <2>2. \A x \in Units : x # cur => st'[x] = st[x]
    BY <1>15 DEF EnterGate, GoNull, Start
  <2>3. pc' \in InGate /\ (pc' \in {"gate", "before"} => st' = st)
    BY <1>15 DEF EnterGate
  <2> QED BY <1>15, <2>1, <2>2, <2>3 DEF EnterGate, CarriedAt, report, progress
<1>16. CASE Proceed
  <2>1. \A c \in Channels : plan.rank[c] > level => c # cur
    BY <1>16 DEF Proceed
  <2>2. \A x \in Units : x # cur => st'[x] = st[x]
    BY <1>16 DEF Proceed, Start
  <2>3. pc' \in InGate /\ (pc' \in {"gate", "before"} => st' = st)
    BY <1>16 DEF Proceed
  <2>4. st'[cur] \in {"idle", "running"}
    BY <1>16 DEF Proceed, Start
  <2>5. UNCHANGED <<plan, depth, level, todo, cur>> /\ cur \in Units
    BY <1>16 DEF Proceed, progress
  <2> QED BY <1>16, <2>1, <2>2, <2>3, <2>4, <2>5 DEF Proceed, CarriedAt
<1>17. CASE Skip
  BY <1>17 DEF Skip, GoNull, CarriedAt, progress
<1>18. CASE Abort
  BY <1>18 DEF Abort, GoNull, CarriedAt, progress
<1>19. ASSUME NEW s \in Statuses, SettleGated(s) PROVE Fresh'
  BY <1>19 DEF SettleGated, CarriedAt, report, progress
<1>20. CASE ThrowGated
  BY <1>20 DEF ThrowGated, CarriedAt, report, progress
<1>21. ASSUME NEW verdict \in {"continue", "halt"}, AfterHook(verdict) PROVE Fresh'
  BY <1>21 DEF AfterHook, CarriedAt, progress
<1>22. CASE RecordChannel
  BY <1>22 DEF RecordChannel, First, CarriedAt, Completed
<1>23. CASE RecordSynthesis
  BY <1>23 DEF RecordSynthesis, CarriedAt, progress
<1>24. CASE ExternalAbort
  BY <1>24 DEF ExternalAbort, CarriedAt, report, progress
<1>25. CASE UNCHANGED vars
  BY <1>25 DEF vars, CarriedAt
<1>26. CASE HookThrows
  BY <1>26 DEF HookThrows, CarriedAt, report, progress
<1> QED
  BY <1>1, <1>2, <1>3, <1>4, <1>5, <1>6, <1>7, <1>8, <1>9, <1>10, <1>11, <1>12, <1>13, <1>14,
     <1>15, <1>16, <1>17, <1>18, <1>19, <1>20, <1>21, <1>22, <1>23, <1>24, <1>25, <1>26
     DEF Next, Step, Over

-----------------------------------------------------------------------------
(***************************************************************************)
(* How often a unit is executed.                                           *)
(***************************************************************************)

\* A step that starts nothing and makes no unit startable again.
Idles ==
  /\ plan' = plan /\ depth' = depth /\ runs' = runs
  /\ \A x \in Units : st'[x] \in Unstarted => st[x] \in Unstarted \/ x \in CarriedAt(depth)

\* Such a step keeps the accounts.
LEMMA IdleAccounted == TypeOK /\ RunsAccounted /\ Idles => RunsAccounted'
  BY DEF TypeOK, RunsAccounted, Idles, Allowed, CarriedAt

\* A unit that is started had not been at this depth.
LEMMA StartAccounted ==
  ASSUME TypeOK, RunsAccounted, plan' = plan, depth' = depth, depth > 0,
         NEW x \in Units, Start(x), st[x] \in Unstarted, x \notin CarriedAt(depth)
  PROVE  RunsAccounted'
<1>1. depth \in Nat /\ runs \in [Units -> Nat] /\ Allowed(x) \in Int
  BY DEF TypeOK, Allowed
<1>2. runs'[x] = runs[x] + 1 /\ st'[x] = "running" /\ "running" \notin Unstarted
  BY DEF Start, TypeOK, Unstarted
<1>3. runs'[x] <= Allowed(x)
  BY <1>1, <1>2 DEF RunsAccounted
<1>4. \A y \in Units : y # x => runs'[y] = runs[y] /\ st'[y] = st[y]
  BY DEF Start, TypeOK
<1> QED BY <1>2, <1>3, <1>4 DEF RunsAccounted, Allowed, CarriedAt

\* Every step keeps the number of executions a unit may have had.
LEMMA RunsStep == IInv /\ [Next]_vars => RunsAccounted'
<1> SUFFICES ASSUME IInv, [Next]_vars PROVE RunsAccounted'
  OBVIOUS
<1>p. plan \in PlanType /\ plan.carried \subseteq Channels
  BY PlanTyped DEF IInv, PlanType
<1>s. \A s \in Statuses : s \notin Unstarted
  BY StatusesAssumption DEF Unstarted, Unsettled, Active
<1> USE Kinds DEF IInv
<1>1. CASE StartDepth
  <2>1. \A x \in Units : runs[x] \in Nat
    BY DEF TypeOK
  <2>2. plan' = plan /\ runs' = runs /\ depth' = depth + 1 /\ depth \in Nat
    BY <1>1 DEF StartDepth, TypeOK
  <2>3. CASE depth = 0
    BY <1>p, <2>1, <2>2, <2>3 DEF RunsAccounted, Allowed, CarriedAt
  <2>4. CASE depth > 0
    <3>1. \A x \in Units : runs[x] <= Allowed(x)
      BY <2>4 DEF RunsAccounted
    <3> QED BY <2>1, <2>2, <2>4, <3>1 DEF RunsAccounted, Allowed, CarriedAt
  <2> QED BY <2>2, <2>3, <2>4
<1>2. CASE Carry
  BY <1>2, <1>s, IdleAccounted DEF Idles, TypeOK, Carry, First
<1>3. CASE LaunchLevel
  <2>1. plan' = plan /\ depth' = depth /\ runs' = runs
    BY <1>3 DEF LaunchLevel
  <2>2. \A c \in todo' : c \in Channels /\ plan.rank[c] > level /\ c \notin CarriedAt(depth)
    BY <1>3, <1>p DEF LaunchLevel, ToRun, TypeOK, PlanType
  <2>3. \A c \in todo' : st[c] = "idle"
    BY <1>3, <2>2 DEF LaunchLevel, Fresh
  <2>4. \A x \in Units : st'[x] = IF x \in todo' THEN "queued" ELSE st[x]
    BY <1>3 DEF LaunchLevel, TypeOK
  <2> QED BY <2>1, <2>3, <2>4, IdleAccounted DEF Idles, Unstarted, TypeOK
<1>4. CASE EnterLevel
  BY <1>4, <1>s, IdleAccounted DEF Idles, TypeOK, EnterLevel, report
<1>5. CASE EndLevels
  BY <1>5, <1>s, IdleAccounted DEF Idles, TypeOK, EndLevels, report
<1>6. CASE Decide
  BY <1>6, <1>s, IdleAccounted DEF Idles, TypeOK, Decide, progress
<1>7. CASE Finish
  BY <1>7, <1>s, IdleAccounted DEF Idles, TypeOK, Finish, progress
<1>8. CASE PluginThrows
  BY <1>8, <1>s, IdleAccounted DEF Idles, TypeOK, PluginThrows, progress
<1>9. ASSUME NEW c \in Channels, TakeGlobal(c) PROVE RunsAccounted'
  BY <1>9, <1>s, IdleAccounted DEF Idles, TypeOK, TakeGlobal, frame, progress, Unstarted
<1>10. ASSUME NEW c \in Channels, TakeProvider(c) PROVE RunsAccounted'
  <2>1. plan' = plan /\ depth' = depth /\ depth > 0 /\ c \notin CarriedAt(depth)
    BY <1>10 DEF TakeProvider, frame, progress, Phase, Fresh, Active, TypeOK, InGate
  <2>2. CASE aborted
    BY <1>10, <2>2, IdleAccounted DEF TakeProvider, GoNull, Idles, TypeOK, frame, progress, Unstarted
  <2>3. CASE ~aborted
    BY <1>10, <2>1, <2>3, StartAccounted DEF TakeProvider, Unstarted
  <2> QED BY <2>2, <2>3
<1>11. ASSUME NEW c \in Channels, Throw(c) PROVE RunsAccounted'
  BY <1>11, <1>s, IdleAccounted DEF Idles, TypeOK, Throw, frame, progress, Unstarted
<1>12. ASSUME NEW c \in Channels, NEW s \in Statuses, Settle(c, s) PROVE RunsAccounted'
  BY <1>12, <1>s, IdleAccounted DEF Idles, TypeOK, Settle, frame, progress
<1>13. CASE Awaited
  BY <1>13, <1>s, IdleAccounted DEF Idles, TypeOK, Awaited, frame, progress
<1>14. CASE Collect
  BY <1>14, <1>s, IdleAccounted DEF Idles, TypeOK, Collect
<1>15. CASE EnterGate
  <2>1. plan' = plan /\ depth' = depth /\ depth > 0 /\ cur \in Units /\ st[cur] = "idle"
    BY <1>15 DEF EnterGate, progress, Fresh, TypeOK, InGate
  <2>2. cur \notin CarriedAt(depth)
    BY <1>15, <1>p DEF EnterGate, Phase, Fresh, InGate, CarriedAt
  <2>3. CASE Start(cur)
    BY <2>1, <2>2, <2>3, StartAccounted DEF Unstarted
  <2>4. CASE ~Start(cur)
    BY <1>15, <2>1, <2>4, IdleAccounted DEF EnterGate, GoNull, Idles, TypeOK, Unstarted
  <2> QED BY <2>3, <2>4
<1>16. CASE Proceed
  <2>1. plan' = plan /\ depth' = depth /\ depth > 0 /\ cur \in Units /\ st[cur] = "idle"
    BY <1>16 DEF Proceed, progress, Fresh, TypeOK, InGate
  <2>2. cur \notin CarriedAt(depth)
    BY <1>16, <1>p DEF Proceed, Phase, Fresh, InGate, CarriedAt
  <2>3. CASE Start(cur)
    BY <2>1, <2>2, <2>3, StartAccounted DEF Unstarted
  <2>4. CASE ~Start(cur)
    BY <1>16, <2>1, <2>4, IdleAccounted DEF Proceed, GoNull, Idles, TypeOK, Unstarted
  <2> QED BY <2>3, <2>4
<1>17. CASE Skip
  BY <1>17, <1>s, IdleAccounted DEF Idles, TypeOK, Skip, GoNull, progress, Unstarted
<1>18. CASE Abort
  BY <1>18, <1>s, IdleAccounted DEF Idles, TypeOK, Abort, GoNull, progress, Unstarted
<1>19. ASSUME NEW s \in Statuses, SettleGated(s) PROVE RunsAccounted'
  BY <1>19, <1>s, IdleAccounted DEF Idles, TypeOK, SettleGated, progress
<1>20. CASE ThrowGated
  BY <1>20, <1>s, IdleAccounted DEF Idles, TypeOK, ThrowGated, progress, Unstarted
<1>21. ASSUME NEW verdict \in {"continue", "halt"}, AfterHook(verdict) PROVE RunsAccounted'
  BY <1>21, <1>s, IdleAccounted DEF Idles, TypeOK, AfterHook, progress
<1>22. CASE RecordChannel
  BY <1>22, <1>s, IdleAccounted DEF Idles, TypeOK, RecordChannel
<1>23. CASE RecordSynthesis
  BY <1>23, <1>s, IdleAccounted DEF Idles, TypeOK, RecordSynthesis, progress
<1>24. CASE ExternalAbort
  BY <1>24, <1>s, IdleAccounted DEF Idles, TypeOK, ExternalAbort, progress
<1>25. CASE UNCHANGED vars
  BY <1>25, <1>s, IdleAccounted DEF Idles, TypeOK, vars
<1>26. CASE HookThrows
  BY <1>26, <1>s, IdleAccounted DEF Idles, TypeOK, HookThrows, progress
<1> QED
  BY <1>1, <1>2, <1>3, <1>4, <1>5, <1>6, <1>7, <1>8, <1>9, <1>10, <1>11, <1>12, <1>13, <1>14,
     <1>15, <1>16, <1>17, <1>18, <1>19, <1>20, <1>21, <1>22, <1>23, <1>24, <1>25, <1>26
     DEF Next, Step, Over

-----------------------------------------------------------------------------
(***************************************************************************)
(* Slots.                                                                  *)
(***************************************************************************)

Holders(states, S, f) == {c \in S : f[c] \in states}

\* Channels are few: counting them makes sense.
LEMMA CountTyped ==
  ASSUME NEW states, NEW S \in SUBSET Channels, NEW f
  PROVE  IsFiniteSet(Holders(states, S, f)) /\ Cardinality(Holders(states, S, f)) \in Nat
<1>1. IsFiniteSet(Channels)
  BY NumChannelsAssumption, FS_Interval DEF Channels
<1>2. Holders(states, S, f) \subseteq Channels
  BY DEF Holders
<1> QED BY <1>1, <1>2, FS_Subset, FS_CardinalityType

\* Nobody joins the holders: there are no more of them.
LEMMA CountShrinks ==
  ASSUME NEW states, NEW S \in SUBSET Channels, NEW f, NEW g,
         \A c \in S : g[c] \in states => f[c] \in states
  PROVE  Cardinality(Holders(states, S, g)) <= Cardinality(Holders(states, S, f))
<1>1. Holders(states, S, g) \subseteq Holders(states, S, f)
  BY DEF Holders
<1> QED BY <1>1, CountTyped, FS_Subset

\* One joins: there is at most one more.
LEMMA CountGrows ==
  ASSUME NEW states, NEW S \in SUBSET Channels, NEW f, NEW g, NEW d,
         \A c \in S : g[c] \in states => f[c] \in states \/ c = d
  PROVE  Cardinality(Holders(states, S, g)) <= Cardinality(Holders(states, S, f)) + 1
<1> DEFINE F == Holders(states, S, f)
           G == Holders(states, S, g)
<1>1. IsFiniteSet(F) /\ IsFiniteSet(F \cup {d}) /\ Cardinality(F) \in Nat
  BY CountTyped, FS_AddElement
<1>2. Cardinality(F \cup {d}) <= Cardinality(F) + 1
  BY <1>1, FS_AddElement
<1>3. G \subseteq F \cup {d}
  BY DEF Holders
<1>4. Cardinality(G) <= Cardinality(F \cup {d}) /\ Cardinality(F \cup {d}) \in Nat
        /\ Cardinality(G) \in Nat
  BY <1>1, <1>3, FS_Subset, FS_CardinalityType
<1> QED BY <1>1, <1>2, <1>4

\* All the holders are one unit.
LEMMA CountOne ==
  ASSUME NEW S, NEW d, \A c \in S : c = d
  PROVE  IsFiniteSet(S) /\ Cardinality(S) <= 1
<1>1. IsFiniteSet({d}) /\ Cardinality({d}) = 1
  BY FS_Singleton
<1>2. S \subseteq {d}
  OBVIOUS
<1>3. IsFiniteSet(S) /\ Cardinality(S) <= Cardinality({d})
  BY <1>1, <1>2, FS_Subset
<1> QED BY <1>1, <1>3

\* The channels of a provider, and the caps of the limiters.
OfProvider(p) == {c \in Channels : plan.provider[c] = p}

SlotsHeld ==
  /\ Count({"waiting", "running"}, Channels) <= plan.globalCap
  /\ \A p \in Providers : plan.providerCap[p] # NULL =>
       Count({"running"}, OfProvider(p)) <= plan.providerCap[p]

\* Caps are positive, or there is none.
LEMMA CapsTyped ==
  ASSUME TypeOK
  PROVE  /\ plan.globalCap \in Nat \ {0}
         /\ \A p \in Providers : plan.providerCap[p] # NULL => plan.providerCap[p] \in Nat \ {0}
         /\ \A c \in Channels : plan.provider[c] \in Providers
BY PlanTyped DEF PlanType

\* A step after which whoever holds a slot held the same one before.
Calm == \A c \in Channels : st'[c] \in {"waiting", "running"} => st'[c] = st[c]

\* On the concurrent path only the limiters hand out slots.
LEMMA CalmSteps ==
  ASSUME IInv, [Next]_vars,
         \A c \in Channels : ~TakeGlobal(c) /\ ~TakeProvider(c),
         ~plan.sequential
  PROVE  Calm
<1> USE Kinds, SettledIsNotActive DEF IInv, TypeOK, Calm
<1>1. CASE StartDepth
  BY <1>1 DEF StartDepth
<1>2. CASE Carry
  BY <1>2 DEF Carry, Active
<1>3. CASE LaunchLevel
  BY <1>3 DEF LaunchLevel
<1>4. ASSUME NEW c \in Channels, Throw(c) PROVE Calm
  BY <1>4 DEF Throw
<1>5. ASSUME NEW c \in Channels, NEW s \in Statuses, Settle(c, s) PROVE Calm
  BY <1>5 DEF Settle, Active
<1>6. ASSUME cur \notin Channels, cur \in Units, EnterGate \/ Proceed \/ Skip \/ Abort \/ ThrowGated
      PROVE  Calm
  BY <1>6 DEF EnterGate, Proceed, Skip, Abort, ThrowGated, Start, GoNull
<1>7. ASSUME cur \notin Channels, NEW s \in Statuses, SettleGated(s) PROVE Calm
  BY <1>7 DEF SettleGated
<1>8. pc \in InGate => cur \notin Channels /\ cur \in Units
  BY DEF Phase, InGate
<1>9. st' = st => Calm
  OBVIOUS
<1> QED
  BY <1>1, <1>2, <1>3, <1>4, <1>5, <1>6, <1>7, <1>8, <1>9
     DEF Next, Step, Over, vars, InGate, EnterLevel, EndLevels, Decide, Finish, PluginThrows, HookThrows,
         Awaited, Collect, EnterGate, Proceed, Skip, Abort, SettleGated, ThrowGated, AfterHook,
         RecordChannel, RecordSynthesis, ExternalAbort

\* With policies registered at most one unit is in flight at all.
LEMMA SequentialSlots == TypeOK /\ Phase /\ plan.sequential => SlotsHeld
<1> SUFFICES ASSUME TypeOK, Phase, plan.sequential PROVE SlotsHeld
  OBVIOUS
<1>1. ASSUME NEW S \in SUBSET Channels, NEW states, states \subseteq Active
      PROVE  Count(states, S) \in Nat /\ Count(states, S) <= 1
  <2>1. \A c \in {d \in S : st[d] \in states} : c = cur
    BY <1>1, Kinds DEF Phase
  <2>2. Count(states, S) <= 1
    BY <2>1, CountOne DEF Count
  <2> QED BY <2>1, <2>2, CountOne, FS_CardinalityType DEF Count
<1>2. {"waiting", "running"} \subseteq Active /\ {"running"} \subseteq Active
  BY DEF Active
<1> QED BY <1>1, <1>2, CapsTyped DEF SlotsHeld, OfProvider

\* Every step keeps to the caps.
LEMMA SlotsStep == IInv /\ SlotsHeld /\ [Next]_vars => SlotsHeld'
<1> SUFFICES ASSUME IInv, SlotsHeld, [Next]_vars PROVE SlotsHeld'
  OBVIOUS
<1>p. plan' = plan /\ IInv'
  BY PlanFixed, StepTyped, PhaseStep, FreshStep, RunsStep DEF IInv
<1>c. /\ plan.globalCap \in Nat
      /\ \A p \in Providers : plan.providerCap[p] # NULL => plan.providerCap[p] \in Nat
      /\ \A p \in Providers : OfProvider(p) \subseteq Channels /\ OfProvider(p)' = OfProvider(p)
  BY <1>p, CapsTyped DEF IInv, OfProvider
<1>n. ASSUME NEW states, NEW S \in SUBSET Channels
      PROVE  /\ Count(states, S) = Cardinality(Holders(states, S, st))
             /\ Count(states, S)' = Cardinality(Holders(states, S, st'))
             /\ Count(states, S) \in Nat /\ Count(states, S)' \in Nat
  BY CountTyped DEF Count, Holders
<1>s. ASSUME NEW states, NEW S \in SUBSET Channels,
             \A c \in S : st'[c] \in states => st[c] \in states
      PROVE  Count(states, S)' <= Count(states, S)
  BY <1>s, <1>n, CountShrinks
<1>g. ASSUME NEW states, NEW S \in SUBSET Channels, NEW d,
             \A c \in S : st'[c] \in states => st[c] \in states \/ c = d
      PROVE  Count(states, S)' <= Count(states, S) + 1
  BY <1>g, <1>n, CountGrows
<1>1. CASE plan.sequential
  <2>1. (TypeOK /\ Phase /\ plan.sequential)'
    BY <1>1, <1>p DEF IInv
  <2> QED BY <2>1, SequentialSlots, PTL
<1>2. ASSUME NEW d \in Channels, TakeGlobal(d) PROVE SlotsHeld'
  <2>1. /\ Count({"waiting", "running"}, Channels) < plan.globalCap
        /\ st' = [st EXCEPT ![d] = "waiting"]
    BY <1>2 DEF TakeGlobal
  <2>2. \A c \in Channels : c # d => st'[c] = st[c]
    BY <2>1, Kinds DEF IInv, TypeOK
  <2>3. st'[d] = "waiting"
    BY <2>1, Kinds DEF IInv, TypeOK
  <2>4. Count({"waiting", "running"}, Channels)' <= Count({"waiting", "running"}, Channels) + 1
    BY <2>2, <1>g
  <2>5. \A p \in Providers : Count({"running"}, OfProvider(p))' <= Count({"running"}, OfProvider(p))
    BY <2>2, <2>3, <1>s, <1>c
  <2> QED BY <2>1, <2>4, <2>5, <1>n, <1>c, <1>p DEF SlotsHeld
<1>3. ASSUME NEW d \in Channels, TakeProvider(d) PROVE SlotsHeld'
  <2>1. st[d] = "waiting" /\ \A c \in Channels : c # d => st'[c] = st[c]
    BY <1>3, Kinds DEF TakeProvider, Start, GoNull, IInv, TypeOK
  <2>2. Count({"waiting", "running"}, Channels)' <= Count({"waiting", "running"}, Channels)
    BY <2>1, <1>s
  <2>3. ASSUME NEW p \in Providers, plan.providerCap[p] # NULL
        PROVE  Count({"running"}, OfProvider(p))' <= plan.providerCap[p]
    <3>1. CASE plan.provider[d] = p
      <4>1. Count({"running"}, OfProvider(p)) < plan.providerCap[p]
        BY <1>3, <2>3, <3>1 DEF TakeProvider, SameProvider, OfProvider
      <4>2. Count({"running"}, OfProvider(p))' <= Count({"running"}, OfProvider(p)) + 1
        BY <2>1, <1>g, <1>c
      <4> QED BY <4>1, <4>2, <2>3, <1>n, <1>c
    <3>2. CASE plan.provider[d] # p
      <4>1. d \notin OfProvider(p)
        BY <3>2 DEF OfProvider
      <4>2. Count({"running"}, OfProvider(p))' <= Count({"running"}, OfProvider(p))
        BY <4>1, <2>1, <1>s, <1>c
      <4> QED BY <4>2, <2>3, <1>n, <1>c DEF SlotsHeld
    <3> QED BY <3>1, <3>2
  <2> QED BY <2>2, <2>3, <1>n, <1>c, <1>p DEF SlotsHeld
<1>4. CASE Calm
  <2>1. Count({"waiting", "running"}, Channels)' <= Count({"waiting", "running"}, Channels)
    BY <1>4, <1>s DEF Calm
  <2>2. \A p \in Providers : Count({"running"}, OfProvider(p))' <= Count({"running"}, OfProvider(p))
    BY <1>4, <1>s, <1>c DEF Calm
  <2> QED BY <2>1, <2>2, <1>n, <1>c, <1>p DEF SlotsHeld
<1> QED BY <1>1, <1>2, <1>3, <1>4, CalmSteps

-----------------------------------------------------------------------------
(***************************************************************************)
(* The theorems.                                                           *)
(***************************************************************************)

\* The inductive invariant holds in every reachable state.
THEOREM InductiveInvariant == Spec => []IInv
<1>1. Init => IInv
  <2> SUFFICES ASSUME Init PROVE IInv
    OBVIOUS
  <2>1. TypeOK
    BY InitTyped
  <2>2. Phase
    BY DEF Init, Phase, Active, InGate
  <2>3. Fresh
    BY Kinds DEF Init, Fresh, InGate
  <2>4. RunsAccounted
    BY DEF Init, RunsAccounted
  <2> QED BY <2>1, <2>2, <2>3, <2>4 DEF IInv
<1>2. IInv /\ [Next]_vars => IInv'
  BY StepTyped, PhaseStep, FreshStep, RunsStep DEF IInv
<1> QED BY <1>1, <1>2, PTL DEF Spec

\* The variables of run() keep their types in every reachable state.
THEOREM TypeCorrect == Spec => []TypeOK
<1>1. IInv => TypeOK
  BY DEF IInv
<1> QED BY <1>1, InductiveInvariant, PTL

\* Whatever order channels take, keep and give back their slots in, no limiter
\* hands out more than its cap; with policies registered one unit is in flight
\* at a time, and no channel is beside the synthesis channel.
THEOREM SlotsRespected == Spec => []CapsRespected
<1>1. Init => SlotsHeld
  <2> SUFFICES ASSUME Init PROVE SlotsHeld
    OBVIOUS
  <2>1. \A c \in Channels : st[c] = "idle"
    BY Kinds DEF Init
  <2>2. ASSUME NEW S \in SUBSET Channels, NEW states, "idle" \notin states
        PROVE  Count(states, S) = 0
    BY <2>1, <2>2, FS_EmptySet DEF Count
  <2> QED BY <2>2, InitTyped, CapsTyped DEF SlotsHeld, OfProvider
<1>2. IInv /\ SlotsHeld => CapsRespected
  <2> SUFFICES ASSUME IInv, SlotsHeld PROVE CapsRespected
    OBVIOUS
  <2>1. ASSUME plan.sequential \/ st[Synth] = "running" PROVE Count(Active, Units) <= 1
    <3>1. \A x \in {y \in Units : st[y] \in Active} : x = cur
      BY <2>1, Kinds DEF IInv, Phase, Active
    <3> QED BY <3>1, CountOne DEF Count
  <2> QED BY <2>1 DEF CapsRespected, SlotsHeld, OfProvider
<1> QED BY <1>1, <1>2, SlotsStep, InductiveInvariant, PTL DEF Spec

\* Whatever fails, is skipped or is aborted: at each depth a unit is executed at
\* most once and a carried channel not at all at the first, and there is no
\* depth beyond the plan's.
THEOREM ExecutedAtMostOnce == Spec => []AtMostOncePerDepth
<1> DEFINE Bounded == depth <= 1 \/ depth <= plan.maxDepth
           Next1   == pc = "depth" => depth = 0 \/ depth < plan.maxDepth
           DInv    == Bounded /\ Next1
<1>1. Init => DInv
  BY DEF Init
<1>2. IInv /\ DInv /\ [Next]_vars => DInv'
  <2> SUFFICES ASSUME IInv, DInv, [Next]_vars PROVE DInv'
    OBVIOUS
  <2>p. plan.maxDepth \in Nat /\ depth \in Nat
    BY PlanTyped DEF IInv, TypeOK, PlanType
  <2>1. CASE StartDepth
    BY <2>p, <2>1 DEF StartDepth
  <2>2. CASE Decide
    BY <2>p, <2>2 DEF Decide, progress
  <2>3. plan' = plan
    BY PlanFixed
  <2>4. ~StartDepth /\ ~Decide => depth' = depth /\ (pc' = "depth" => pc = "depth")
    BY DEF Next, Step, Over, vars, Carry, LaunchLevel, EnterLevel, EndLevels,
           Finish, PluginThrows, HookThrows, TakeGlobal, TakeProvider, Throw, Settle, Awaited, Collect,
           EnterGate, Proceed, Skip, Abort, SettleGated, ThrowGated, AfterHook, RecordChannel,
           RecordSynthesis, ExternalAbort, frame, progress
  <2> QED BY <2>1, <2>2, <2>3, <2>4
<1>3. IInv /\ DInv => AtMostOncePerDepth
  <2> SUFFICES ASSUME IInv, DInv PROVE AtMostOncePerDepth
    OBVIOUS
  <2>1. plan.carried \subseteq Channels /\ Channels \subseteq Units
    BY PlanTyped, Kinds DEF IInv, PlanType
  <2>2. depth \in Nat /\ \A x \in Units : runs[x] \in Nat
    BY DEF IInv, TypeOK
  <2> QED BY <2>1, <2>2 DEF AtMostOncePerDepth, IInv, RunsAccounted, Allowed
<1> QED BY <1>1, <1>2, <1>3, InductiveInvariant, PTL DEF Spec

\* A policy's halt and an abort are final: no step of any run starts a unit once
\* the run is halted, nor once it is aborted unless the unit had passed its gate.
THEOREM StopsForGood == Spec => NoStartAfterStop
<1> DEFINE Guarded == runs' # runs => ~halted /\ (aborted => pc = "before")
<1>1. IInv /\ [Next]_vars => [Guarded]_vars
  <2> SUFFICES ASSUME IInv, Next, runs' # runs PROVE ~halted /\ (aborted => pc = "before")
    BY DEF vars
  <2> USE DEF IInv, Phase
  <2>1. ASSUME NEW c \in Channels, TakeProvider(c) PROVE ~halted /\ ~aborted
    BY <2>1 DEF TakeProvider, GoNull
  <2>2. CASE EnterGate
    BY <2>2 DEF EnterGate, GoNull
  <2>3. CASE Proceed
    BY <2>3 DEF Proceed
  <2> QED BY <2>1, <2>2, <2>3
       DEF Next, Step, Over, vars, StartDepth, Carry, LaunchLevel, EnterLevel, EndLevels, Decide,
           Finish, PluginThrows, HookThrows, TakeGlobal, Throw, Settle, Awaited, Collect, Skip,
           Abort, GoNull, SettleGated, ThrowGated, AfterHook, RecordChannel, RecordSynthesis, ExternalAbort
<1> QED BY <1>1, InductiveInvariant, PTL DEF Spec, NoStartAfterStop

-----------------------------------------------------------------------------
(***************************************************************************)
(* What is reported: the invariants.                                       *)
(***************************************************************************)

\* The channels the level loop has put behind it at this depth.
Passed == {c \in Channels : c \in CarriedAt(depth) \/ plan.rank[c] <= level} \ todo

\* What is behind the loop is settled, and recorded if it has a result; what is in
\* flight is on the loop's level, and what a halt left there has not begun.
Levelled ==
  /\ \A c \in Passed : Settled(c)
  /\ done = {c \in Passed : st[c] \in Statuses}
  /\ \A c \in Channels : st[c] \in Active => c \in todo
  /\ pc = "level" /\ ~halted => todo = {}
  /\ \/ pc \in {"depth", "carry", "level", "decide", "finish", "returned"}
     \/ pc \in InGate /\ cur = Synth
     => \A c \in todo : st[c] = "idle"

\* Only a result has a parsed output.
ParsedOfResults == \A c \in parsed : st[c] \in Statuses

\* What dependency d has to give, and that c's prompt was given just that.
Given(c, d) ==
  /\ d \in parsed <=> <<d, "parsed">> \in upstream[c]
  /\ st[d] # "null" /\ HasRaw(d) /\ d \notin CarriedAt(depth) <=> <<d, "raw">> \in upstream[c]

\* The prompt of a channel that may run was made from dependencies that are behind it.
Informed ==
  \A c \in Channels : st[c] \in Active \/ (pc = "before" /\ c = cur) =>
    /\ plan.deps[c] \subseteq Passed
    /\ \A d \in plan.deps[c] : Given(c, d)

\* The channel inside runGated is the first of the level that is not recorded.
Foremost == pc \in InGate /\ cur # Synth => cur \in First(todo)

\* Every result that is still to come goes behind those that are reported.
Ahead ==
  /\ depth = 0 => channels = <<>>
  /\ \A i \in 1..Len(channels) :
       LET e == channels[i] IN
       /\ e.depth <= depth
       /\ pc = "carry" => e.depth = 0 /\ \A c \in todo : e.channel < c
       /\ pc # "carry" /\ e.depth = depth =>
            /\ plan.rank[e.channel] <= level
            /\ \A c \in todo : plan.rank[e.channel] < level \/ e.channel < c

\* The books of a run: what has ended, and where each of it is now.
Recorded == {Entry(channels[i]) : i \in {j \in 1..Len(channels) : channels[j].depth > 0}}

Outcome(x) == [unit |-> x, depth |-> depth, status |-> st[x]]

Pending == {Outcome(c) : c \in {d \in todo : st[d] \in Statuses}}

Ends(x) == {e \in ended : e.unit = x}

CarriedIn == {c \in Channels : \E i \in 1..Len(channels) :
                channels[i] = [channel |-> c, depth |-> 0, status |-> "ok"]}

InFlight(x) == IF st[x] \in {"running", "thrown"} THEN 1 ELSE 0

\* What ended at this depth is what the units settled with.
Ended ==
  /\ \A e \in ended : e.depth <= depth /\ (e.depth = depth => st[e.unit] = e.status)
  /\ \A x \in Units : st[x] \in Statuses /\ x \notin CarriedAt(depth) => Outcome(x) \in ended

\* Each channel that ended is in the report or about to enter it.
ChannelBook == {e \in ended : e.unit # Synth} = Recorded \cup Pending

\* Each execution has ended, is in flight or has thrown.
RunBook ==
  /\ IsFiniteSet(ended)
  /\ \A x \in Units : runs[x] = Cardinality(Ends(x)) + InFlight(x)

\* A unit that throws takes the run with it.
Thrown == \A x \in Units : st[x] = "thrown" => pc = "rejected"

\* Carried results are marked as such, and once they are spliced in all are there.
CarryBook ==
  /\ \A i \in 1..Len(channels) : channels[i].depth = 0 => channels[i].status = "ok"
  /\ pc = "carry" => CarriedIn = plan.carried \ todo
  /\ pc \notin {"carry", "rejected"} /\ depth > 0 => CarriedIn = plan.carried

\* The synthesis that is reported is the newest but for one just being taken in.
NewestOf(S) ==
  IF synthesis = NULL THEN S = {}
  ELSE \E e \in S : /\ synthesis = [depth |-> e.depth, status |-> e.status]
                    /\ \A f \in S : f.depth <= e.depth

\* The executions of the synthesis channel the loop is done with.
TakenIn == {e \in Ends(Synth) : e.depth < depth \/ pc \notin {"after", "record"}}

SynthesisBook ==
  pc # "rejected" => NewestOf(TakenIn)

Verdict ==
  status # NULL =>
    /\ pc = "returned"
    /\ status = IF Reported # {} /\ "ok" \notin Reported THEN "failed"
                ELSE IF Reported \subseteq {"ok"} THEN "completed" ELSE "partial"

\* The trail: how often the policies let x proceed at depth d.
Lets(x, d) == {i \in 1..Len(log) : log[i].unit = x /\ log[i].depth = d /\ log[i].decision = "proceed"}

\* x was started at this depth.
Began(x) == st[x] \in {"running", "thrown"} \/ (st[x] \in Statuses /\ x \notin CarriedAt(depth))

\* Each execution has the leave of every policy in the trail, and no unit else has.
Approved ==
  plan.before > 0 =>
    /\ \A i \in 1..Len(log) : log[i].depth <= depth
    /\ \A x \in Units :
         /\ runs[x] = Cardinality({d \in 1..depth : Cardinality(Lets(x, d)) = plan.before})
         /\ Began(x) <=> Cardinality(Lets(x, depth)) = plan.before
         /\ st[x] = "idle" /\ ~(pc \in {"before", "rejected"} /\ x = cur)
              => Lets(x, depth) = {}
    /\ pc = "before" => hook \in 1..plan.before /\ Cardinality(Lets(cur, depth)) = hook - 1

\* The decisions that stop a run are only in the trail of one that is halted.
Stopped ==
  \A i \in 1..Len(log) :
    /\ log[i].decision \in {"abort", "halt"} => halted
    /\ log[i].decision = "abort" => pc # "after"
    /\ log[i].decision = "halt" /\ pc = "after" => log[i].unit = cur /\ log[i].depth = depth

\* Behind such a decision come those of the same hook of the same unit at most.
LastWord ==
  \A i, j \in 1..Len(log) : i < j =>
    /\ log[i].decision # "abort"
    /\ log[i].decision = "halt" =>
         log[j].unit = log[i].unit /\ log[j].hook = "after" /\ log[j].depth = log[i].depth

-----------------------------------------------------------------------------
(***************************************************************************)
(* Behind the level loop.                                                  *)
(***************************************************************************)

\* A step that keeps the loop where it is touches only the units it is at.
LEMMA LevelledKept ==
  ASSUME TypeOK, Levelled, UNCHANGED <<plan, depth, level, todo, done>>,
         \A c \in Channels : /\ c \notin todo => st'[c] = st[c]
                             /\ st'[c] \in Active => c \in todo,
         pc' \notin {"depth", "carry", "level", "decide", "finish", "returned"},
         pc' \in InGate /\ cur' = Synth => \A c \in todo : st'[c] = "idle"
  PROVE  Levelled'
BY DEF TypeOK, Levelled, Passed, Settled, CarriedAt

\* Every step: what is behind the loop has settled, what is in flight is on its level.
LEMMA LevelledStep == IInv /\ Levelled /\ [Next]_vars => Levelled'
<1> SUFFICES ASSUME IInv, Levelled, [Next]_vars PROVE Levelled'
  OBVIOUS
<1>p. plan \in PlanType
  BY PlanTyped DEF IInv
<1> USE Kinds, SettledIsNotActive, <1>p DEF IInv, TypeOK, Phase, Fresh, Levelled, Passed, Settled, CarriedAt, InGate, PlanType
<1>1. CASE StartDepth
  BY <1>1 DEF StartDepth, report
<1>2. CASE Carry
  BY <1>2 DEF Carry, First, Completed
<1>3. CASE LaunchLevel
  <2>1. todo = {} /\ todo' = {c \in Channels : plan.rank[c] = level + 1} \ CarriedAt(depth)
    BY <1>3 DEF LaunchLevel, ToRun
  <2>2. UNCHANGED <<plan, depth, done, halted>> /\ level' = level + 1
    BY <1>3 DEF LaunchLevel
  <2>3. Passed' = Passed
    BY <2>1, <2>2
  <2>4. \A x \in Units : st'[x] = IF x \in todo' THEN "queued" ELSE st[x]
    BY <1>3 DEF LaunchLevel
  <2>5. \A c \in Channels : st[c] \notin Active
    BY <2>1
  <2>6. \A c \in Passed : c \in Units /\ c \notin todo'
    BY <2>3
  <2> QED BY <1>3, <2>2, <2>3, <2>4, <2>5, <2>6 DEF LaunchLevel
<1>4. CASE EnterLevel
  <2>1. todo = {} /\ todo' = {c \in Channels : plan.rank[c] = level + 1} \ CarriedAt(depth)
    BY <1>4 DEF EnterLevel, ToRun
  <2>2. UNCHANGED <<plan, depth, st, done, halted>> /\ level' = level + 1
    BY <1>4 DEF EnterLevel
  <2>3. Passed' = Passed
    BY <2>1, <2>2
  <2>4. \A c \in todo' : st'[c] = "idle"
    BY <2>1, <2>2, <1>4 DEF EnterLevel
  <2>5. \A c \in Channels : st'[c] \notin Active
    BY <2>1, <2>2
  <2> QED BY <1>4, <2>2, <2>3, <2>4, <2>5 DEF EnterLevel, First
<1>5. CASE EndLevels
  BY <1>5 DEF EndLevels, report
<1>6. CASE Decide
  BY <1>6 DEF Decide, report, progress
<1>7. CASE Finish
  BY <1>7 DEF Finish, progress
<1>8. CASE PluginThrows
  BY <1>8 DEF PluginThrows, report, progress
<1>9. ASSUME NEW c \in Channels, TakeGlobal(c) PROVE Levelled'
  BY <1>9, LevelledKept DEF TakeGlobal, frame, report, progress, Active
<1>10. ASSUME NEW c \in Channels, TakeProvider(c) PROVE Levelled'
  <2>1. c \in todo /\ \A x \in Units : x # c => st'[x] = st[x]
    BY <1>10 DEF TakeProvider, Start, GoNull, Active
  <2> QED BY <1>10, <2>1, LevelledKept DEF TakeProvider, frame, progress, Active
<1>11. ASSUME NEW c \in Channels, Throw(c) PROVE Levelled'
  BY <1>11 DEF Throw, frame, report, progress
<1>12. ASSUME NEW c \in Channels, NEW s \in Statuses, Settle(c, s) PROVE Levelled'
  BY <1>12 DEF Settle, frame, report, progress
<1>13. CASE Awaited
  BY <1>13 DEF Awaited, frame, report, progress
<1>14. CASE Collect
  BY <1>14 DEF Collect, First, Completed
<1>15. CASE EnterGate
  <2>1. \A x \in Units : x # cur => st'[x] = st[x]
    BY <1>15 DEF EnterGate, GoNull, Start
  <2>2. UNCHANGED <<plan, depth, level, todo, done, cur>> /\ pc' \in {"record", "run", "before"}
    BY <1>15 DEF EnterGate, progress
  <2>3. \A c \in Channels : /\ c \notin todo => st'[c] = st[c]
                            /\ st'[c] \in Active => c \in todo
    BY <1>15, <2>1 DEF EnterGate
  <2>4. pc' \in InGate /\ cur' = Synth => \A c \in todo : st'[c] = "idle"
    BY <1>15, <2>1, <2>2 DEF EnterGate
  <2> HIDE DEF Levelled, IInv, TypeOK, InGate
  <2> QED BY <2>2, <2>3, <2>4, LevelledKept DEF IInv
<1>16. CASE Proceed
  <2>1. \A x \in Units : x # cur => st'[x] = st[x]
    BY <1>16 DEF Proceed, Start
  <2>2. UNCHANGED <<plan, depth, level, todo, done, cur>> /\ pc' \in {"run", "before"}
    BY <1>16 DEF Proceed, progress
  <2>3. \A c \in Channels : /\ c \notin todo => st'[c] = st[c]
                            /\ st'[c] \in Active => c \in todo
    BY <1>16, <2>1 DEF Proceed
  <2>4. pc' \in InGate /\ cur' = Synth => \A c \in todo : st'[c] = "idle"
    BY <1>16, <2>1, <2>2 DEF Proceed
  <2> HIDE DEF Levelled, IInv, TypeOK, InGate
  <2> QED BY <2>2, <2>3, <2>4, LevelledKept DEF IInv
<1>17. CASE Skip
  BY <1>17 DEF Skip, GoNull, Logged, progress
<1>18. CASE Abort
  BY <1>18 DEF Abort, GoNull, Logged, progress
<1>19. ASSUME NEW s \in Statuses, SettleGated(s) PROVE Levelled'
  BY <1>19 DEF SettleGated, report, progress
<1>20. CASE ThrowGated
  BY <1>20 DEF ThrowGated, report, progress
<1>21. ASSUME NEW verdict \in {"continue", "halt"}, AfterHook(verdict) PROVE Levelled'
  BY <1>21 DEF AfterHook, Logged, progress
<1>22. CASE RecordChannel
  <2>1. /\ cur \in Channels /\ cur \in todo /\ Settled(cur)
        /\ cur \notin CarriedAt(depth) /\ plan.rank[cur] = level
        /\ \A c \in todo : c # cur => st[c] = "idle"
    BY <1>22 DEF RecordChannel
  <2>2. /\ UNCHANGED <<plan, depth, level, st, halted>> /\ todo' = todo \ {cur}
        /\ done' = IF st[cur] = "null" THEN done ELSE done \cup {cur}
        /\ pc' = "level" /\ ~halted => todo' = {}
    BY <1>22 DEF RecordChannel, Completed
  <2>3. Passed' = Passed \cup {cur}
    BY <2>1, <2>2
  <2>4. \A c \in Passed' : st'[c] \in Statuses \cup {"null"}
    BY <2>1, <2>2, <2>3
  <2>5. done' = {c \in Passed' : st'[c] \in Statuses}
    BY <2>1, <2>2, <2>3
  <2>6. \A c \in Channels : st'[c] \in Active => c \in todo'
    BY <2>1, <2>2
  <2>7. \A c \in todo' : st'[c] = "idle"
    BY <2>1, <2>2
  <2> QED BY <2>2, <2>4, <2>5, <2>6, <2>7
<1>23. CASE RecordSynthesis
  BY <1>23 DEF RecordSynthesis, progress
<1>24. CASE ExternalAbort
  BY <1>24 DEF ExternalAbort, report, progress
<1>25. CASE UNCHANGED vars
  BY <1>25 DEF vars
<1>26. CASE HookThrows
  BY <1>26 DEF HookThrows, report, progress
<1> QED
  BY <1>1, <1>2, <1>3, <1>4, <1>5, <1>6, <1>7, <1>8, <1>9, <1>10, <1>11, <1>12, <1>13, <1>14,
     <1>15, <1>16, <1>17, <1>18, <1>19, <1>20, <1>21, <1>22, <1>23, <1>24, <1>25, <1>26
     DEF Next, Step, Over

-----------------------------------------------------------------------------
(***************************************************************************)
(* Dependencies.                                                           *)
(***************************************************************************)

\* A step that leaves the parsed outputs alone and takes no result back.
LEMMA ParsedKept ==
  ASSUME TypeOK, ParsedOfResults, parsed' = parsed,
         \A x \in Channels : st[x] \in Statuses => st'[x] = st[x]
  PROVE  ParsedOfResults'
BY DEF ParsedOfResults, TypeOK

\* A step in which channel x settles or its carried result is spliced in.
LEMMA ParsedAdded ==
  ASSUME TypeOK, ParsedOfResults, NEW x \in Units, NEW s \in Statuses,
         st' = [st EXCEPT ![x] = s], Parses(x, s)
  PROVE  ParsedOfResults'
BY DEF ParsedOfResults, Parses, TypeOK

\* Every step: only a result has a parsed output.
LEMMA ParsedStep == IInv /\ ParsedOfResults /\ [Next]_vars => ParsedOfResults'
<1> SUFFICES ASSUME IInv, ParsedOfResults, [Next]_vars PROVE ParsedOfResults'
  OBVIOUS
<1>t. TypeOK /\ plan \in PlanType
  BY PlanTyped DEF IInv
<1>1. CASE StartDepth
  BY <1>1 DEF StartDepth, ParsedOfResults
<1>2. CASE Carry
  <2>1. PICK c \in First(todo) : st' = [st EXCEPT ![c] = "ok"] /\ Parses(c, "ok")
    BY <1>2 DEF Carry
  <2>2. c \in Units
    BY <1>t, <2>1, Kinds DEF First, TypeOK
  <2> QED BY <1>t, <2>1, <2>2, ParsedAdded, StatusesAssumption
<1>3. CASE LaunchLevel
  <2>1. ASSUME NEW x \in Channels, st[x] \in Statuses PROVE st'[x] = st[x]
    <3>1. x \in todo' => plan.rank[x] = level + 1 /\ x \notin CarriedAt(depth)
      BY <1>3 DEF LaunchLevel, ToRun
    <3>2. x \in todo' => plan.rank[x] > level
      BY <1>t, <3>1 DEF TypeOK, PlanType
    <3>3. x \in todo' => st[x] = "idle"
      BY <1>3, <3>1, <3>2 DEF LaunchLevel, IInv, Fresh
    <3>4. x \notin todo'
      BY <2>1, <3>3, Kinds
    <3>5. x \in Units
      BY Kinds
    <3> QED BY <1>3, <3>4, <3>5 DEF LaunchLevel
  <2>2. parsed' = parsed
    BY <1>3 DEF LaunchLevel
  <2> QED BY <1>t, <2>1, <2>2, ParsedKept
<1>4. ASSUME NEW x \in Units, NEW s, st[x] \notin Statuses, st' = [st EXCEPT ![x] = s], parsed' = parsed
      PROVE  ParsedOfResults'
  <2>1. \A y \in Channels : st[y] \in Statuses => st'[y] = st[y]
    BY <1>t, <1>4, Kinds DEF TypeOK
  <2> QED BY <1>t, <1>4, <2>1, ParsedKept
<1>5. ASSUME NEW c \in Channels, TakeGlobal(c) \/ TakeProvider(c) \/ Throw(c) PROVE ParsedOfResults'
  <2>1. c \in Units /\ st[c] \notin Statuses /\ parsed' = parsed
    BY <1>5, Kinds DEF TakeGlobal, TakeProvider, Throw, frame
  <2>2. \E s : st' = [st EXCEPT ![c] = s]
    BY <1>5 DEF TakeGlobal, TakeProvider, Throw, GoNull, Start
  <2> QED BY <1>4, <2>1, <2>2
<1>6. ASSUME NEW c \in Channels, NEW s \in Statuses, Settle(c, s) PROVE ParsedOfResults'
  BY <1>t, <1>6, Kinds, ParsedAdded DEF Settle
<1>7. CASE EnterGate \/ Proceed \/ Skip \/ Abort \/ ThrowGated
  <2>1. cur \in Units /\ st[cur] \notin Statuses /\ parsed' = parsed
    BY <1>7, <1>t, Kinds DEF EnterGate, Proceed, Skip, Abort, ThrowGated, IInv, Fresh, Phase, TypeOK
  <2>2. st' = st \/ \E s : st' = [st EXCEPT ![cur] = s]
    BY <1>7 DEF EnterGate, Proceed, Skip, Abort, ThrowGated, GoNull, Start
  <2> QED BY <1>t, <1>4, <2>1, <2>2, ParsedKept
<1>8. ASSUME NEW s \in Statuses, SettleGated(s) PROVE ParsedOfResults'
  <2>1. cur \in Units
    BY <1>8, <1>t DEF SettleGated, TypeOK
  <2> QED BY <1>8, <1>t, <2>1, ParsedAdded DEF SettleGated
<1>9. st' = st /\ parsed' = parsed => ParsedOfResults'
  BY <1>t, ParsedKept
<1> QED
  BY <1>1, <1>2, <1>3, <1>5, <1>6, <1>7, <1>8, <1>9
     DEF Next, Step, Over, EnterLevel, EndLevels, Decide, Finish, PluginThrows, Awaited, Collect,
         HookThrows, AfterHook, RecordChannel, RecordSynthesis, ExternalAbort, vars, frame

\* A prompt made from dependencies behind the loop has the parsed output of
\* exactly those that have one, and the raw text of those that answered.
LEMMA UpstreamFound ==
  ASSUME TypeOK, Levelled, ParsedOfResults, NEW c \in Channels, NEW d \in plan.deps[c], d \in Passed
  PROVE  /\ d \in parsed <=> <<d, "parsed">> \in UpstreamOf(c)
         /\ st[d] # "null" /\ HasRaw(d) /\ d \notin CarriedAt(depth) <=> <<d, "raw">> \in UpstreamOf(c)
<1>1. d \in done <=> st[d] \in Statuses
  BY DEF Levelled
<1>2. st[d] \in Statuses \cup {"null"} /\ "null" \notin Statuses
  BY StatusesAssumption DEF Levelled, Settled
<1>3. <<d, "parsed">> \in UpstreamOf(c) <=> d \in done \cap parsed
  BY DEF UpstreamOf
<1>4. <<d, "raw">> \in UpstreamOf(c) <=> d \in done /\ HasRaw(d) /\ d \notin CarriedAt(depth)
  BY DEF UpstreamOf
<1>5. d \in parsed => d \in done
  BY <1>1 DEF ParsedOfResults
<1> QED BY <1>1, <1>2, <1>3, <1>4, <1>5

\* Everything a channel of the next level depends on is behind the loop once the
\* level before is.
LEMMA DependenciesPassed ==
  ASSUME TypeOK, NEW c \in Channels, plan.rank[c] = level \/ plan.rank[c] = level + 1,
         \A d \in todo : plan.rank[d] = plan.rank[c]
  PROVE  plan.deps[c] \subseteq {d \in Channels : plan.rank[d] <= level} \ todo
<1>1. plan.deps[c] \subseteq Channels /\ \A d \in plan.deps[c] : plan.rank[d] < plan.rank[c]
  BY PlanTyped DEF PlanType, WellFormed
<1>2. level \in Nat /\ \A d \in Channels : plan.rank[d] \in Nat
  BY PlanTyped DEF PlanType, TypeOK
<1> QED BY <1>1, <1>2

\* A step that starts to prepare no channel and lets go of none that is behind.
LEMMA InformedKept ==
  ASSUME TypeOK, Informed, UNCHANGED <<plan, depth, level, todo, upstream>>,
         \A c \in Channels :
           /\ c \notin todo => st'[c] = st[c] /\ (c \in parsed' <=> c \in parsed)
           /\ st'[c] \in Active \/ (pc' = "before" /\ c = cur')
                => st[c] \in Active \/ (pc = "before" /\ c = cur)
  PROVE  Informed'
<1>1. Passed' = Passed
  BY DEF Passed, CarriedAt
<1>2. \A d \in Passed : st'[d] = st[d] /\ (d \in parsed' <=> d \in parsed)
  BY DEF Passed
<1>3. \A c \in Channels, d \in Passed : Given(c, d) => Given(c, d)'
  BY <1>2 DEF Given, HasRaw, CarriedAt
<1> QED BY <1>1, <1>3 DEF Informed

\* Every step: prompts are made from dependencies that are behind them.
LEMMA InformedStep == IInv /\ Levelled /\ ParsedOfResults /\ Informed /\ [Next]_vars => Informed'
<1> SUFFICES ASSUME IInv, Levelled, ParsedOfResults, Informed, [Next]_vars PROVE Informed'
  OBVIOUS
<1>t. TypeOK /\ plan \in PlanType
  BY PlanTyped DEF IInv
<1>f. Phase'
  BY PhaseStep DEF IInv
<1>v. pc' \notin {"before", "run", "wait", "rejected"} => Informed'
  BY <1>f, Kinds DEF Phase, Informed
<1>1. CASE LaunchLevel
  <2>1. CASE todo' = {}
    BY <1>1, <1>v, <2>1 DEF LaunchLevel
  <2>2. CASE todo' # {}
    <3>1. todo = {} /\ todo' = {c \in Channels : plan.rank[c] = level + 1} \ CarriedAt(depth)
      BY <1>1 DEF LaunchLevel, ToRun, Levelled
    <3>2. UNCHANGED <<plan, depth, cur>> /\ level' = level + 1 /\ pc' = "wait"
      BY <1>1, <2>2 DEF LaunchLevel
    <3>3. /\ \A x \in Units : st'[x] = IF x \in todo' THEN "queued" ELSE st[x]
          /\ \A c \in todo' : upstream'[c] = UpstreamOf(c)
      BY <1>1, <2>2, <3>1 DEF LaunchLevel
    <3>4. Passed' = Passed
      BY <1>t, <3>1, <3>2 DEF Passed, CarriedAt, TypeOK, PlanType
    <3>5. ASSUME NEW c \in Channels, st'[c] \in Active
          PROVE  c \in todo'
      BY <3>1, <3>3, <3>5, Kinds DEF Levelled
    <3>6. ASSUME NEW c \in todo'
          PROVE  /\ plan.deps[c] \subseteq Passed
                 /\ \A d \in plan.deps[c] : Given(c, d)'
      <4>1. c \in Channels /\ plan.deps[c] \subseteq Passed
        BY <1>t, <3>1, DependenciesPassed DEF Passed
      <4>2. \A d \in Passed : st'[d] = st[d]
        BY <3>3, <3>4, Kinds DEF Passed
      <4>3. parsed' = parsed
        BY <1>1 DEF LaunchLevel
      <4>4. ASSUME NEW d \in plan.deps[c] PROVE Given(c, d)'
        <5>1. d \in Passed /\ upstream'[c] = UpstreamOf(c)
          BY <4>1, <3>3
        <5>2. /\ d \in parsed <=> <<d, "parsed">> \in UpstreamOf(c)
              /\ st[d] # "null" /\ HasRaw(d) /\ d \notin CarriedAt(depth)
                   <=> <<d, "raw">> \in UpstreamOf(c)
          BY <1>t, <4>1, <5>1, UpstreamFound
        <5> QED BY <3>2, <4>2, <4>3, <5>1, <5>2 DEF Given, HasRaw, CarriedAt
      <4> QED BY <4>1, <4>4
    <3> QED BY <3>2, <3>4, <3>5, <3>6 DEF Informed
  <2> QED BY <2>1, <2>2
<1>2. CASE EnterGate
  <2>1. UNCHANGED <<plan, depth, level, todo, cur>> /\ cur \in Units /\ plan = plan'
    BY <1>2, <1>t DEF EnterGate, progress, TypeOK
  <2>2. \A x \in Units : x # cur => st'[x] = st[x]
    BY <1>2, <1>t DEF EnterGate, GoNull, Start, TypeOK
  <2>3. \A c \in Channels : st[c] \notin Active
    BY <1>2, Kinds DEF EnterGate, IInv, Phase
  <2>4. Passed' = Passed
    BY <2>1 DEF Passed, CarriedAt
  <2>5. CASE cur = Synth
    BY <2>2, <2>3, <2>5, <2>1, Kinds DEF Informed
  <2>6. CASE cur # Synth
    <3>1. cur \in todo /\ cur \in Channels
      BY <1>2, <2>6 DEF EnterGate, IInv, Phase, InGate, TypeOK
    <3>2. \A c \in todo : plan.rank[c] = level
      BY <1>2, <2>6 DEF EnterGate, IInv, Fresh, InGate
    <3>3. plan.deps[cur] \subseteq Passed
      BY <1>t, <3>1, <3>2, DependenciesPassed DEF Passed
    <3>4. upstream'[cur] = UpstreamOf(cur)
      BY <1>2, <1>t, <2>6, <3>1 DEF EnterGate, TypeOK
    <3>5. \A d \in Passed : st'[d] = st[d]
      BY <2>2, <3>1, Kinds DEF Passed
    <3>6. ASSUME NEW d \in plan.deps[cur] PROVE Given(cur, d)'
      <4>1. d \in Passed /\ parsed' = parsed /\ UNCHANGED <<plan, depth, cur>>
        BY <1>2, <2>1, <3>3 DEF EnterGate
      <4>2. /\ d \in parsed <=> <<d, "parsed">> \in UpstreamOf(cur)
            /\ st[d] # "null" /\ HasRaw(d) /\ d \notin CarriedAt(depth)
                 <=> <<d, "raw">> \in UpstreamOf(cur)
        BY <1>t, <3>1, <4>1, UpstreamFound
      <4> QED BY <3>4, <3>5, <4>1, <4>2 DEF Given, HasRaw, CarriedAt
    <3>7. \A c \in Channels : c # cur => st'[c] \notin Active
      BY <2>2, <2>3, Kinds
    <3> QED BY <2>1, <2>4, <3>3, <3>6, <3>7 DEF Informed
  <2> QED BY <2>5, <2>6
<1>3. CASE Proceed
  <2>1. \A x \in Units : x # cur => st'[x] = st[x]
    BY <1>3, <1>t DEF Proceed, Start, TypeOK
  <2>2. UNCHANGED <<plan, depth, level, todo, upstream, cur>> /\ (cur \in todo \/ cur = Synth)
    BY <1>3 DEF Proceed, progress, IInv, Phase, InGate
  <2> QED BY <1>3, <1>t, <2>1, <2>2, Kinds, InformedKept DEF Proceed
<1>4. ASSUME NEW c \in Channels, TakeGlobal(c) \/ TakeProvider(c) PROVE Informed'
  <2>1. UNCHANGED <<plan, depth, level, todo, parsed, upstream, cur, pc>>
    BY <1>4 DEF TakeGlobal, TakeProvider, frame, progress
  <2>2. st[c] \in Active /\ \A x \in Units : x # c => st'[x] = st[x]
    BY <1>4, <1>t DEF TakeGlobal, TakeProvider, Start, GoNull, Active, TypeOK
  <2>3. c \in todo
    BY <2>2 DEF Levelled
  <2> QED BY <1>t, <2>1, <2>2, <2>3, Kinds, InformedKept
<1>5. ASSUME NEW c \in Channels, NEW s \in Statuses \cup {"thrown"},
             st[c] = "running", st' = [st EXCEPT ![c] = s],
             UNCHANGED <<plan, depth, level, todo, upstream, cur>>, pc' # "before",
             \A d \in Channels : d # c => (d \in parsed' <=> d \in parsed)
      PROVE  Informed'
  <2>1. st'[c] \notin Active /\ \A x \in Units : x # c => st'[x] = st[x]
    BY <1>5, <1>t, SettledIsNotActive, Kinds DEF TypeOK
  <2>2. c \in todo
    BY <1>5 DEF Levelled, Active
  <2> QED BY <1>5, <1>t, <2>1, <2>2, Kinds, InformedKept
<1>6. CASE ThrowGated
  <2>1. cur \in Channels => Informed'
    BY <1>5, <1>6 DEF ThrowGated, progress, IInv, Phase
  <2>2. cur = Synth => Informed'
    BY <1>6, <1>t, Kinds, InformedKept DEF ThrowGated, progress, TypeOK
  <2> QED BY <1>6, <2>1, <2>2 DEF ThrowGated, IInv, Phase, InGate, TypeOK
<1>7. ASSUME NEW c \in Channels, Throw(c) PROVE Informed'
  BY <1>5, <1>7 DEF Throw, frame, progress
<1>8. ASSUME NEW c \in Channels, NEW s \in Statuses, Settle(c, s) PROVE Informed'
  <2>1. pc # "before"
    BY <1>8, Kinds DEF Settle, IInv, Phase, Active
  <2>2. \A d \in Channels : d # c => (d \in parsed' <=> d \in parsed)
    BY <1>8 DEF Settle, Parses
  <2> QED BY <1>5, <1>8, <2>1, <2>2 DEF Settle, progress
<1>9. CASE PluginThrows \/ HookThrows \/ ExternalAbort \/ UNCHANGED vars
  BY <1>9, <1>t, InformedKept DEF PluginThrows, HookThrows, ExternalAbort, vars, progress
<1> QED
  BY <1>1, <1>2, <1>3, <1>4, <1>6, <1>7, <1>8, <1>9, <1>v
     DEF Next, Step, Over, StartDepth, Carry, EnterLevel, EndLevels, Decide, Finish, Awaited, Collect,
         Skip, Abort, SettleGated, AfterHook, RecordChannel, RecordSynthesis

-----------------------------------------------------------------------------
(***************************************************************************)
(* The order of the report.                                                *)
(***************************************************************************)

\* What an entry appended to a sequence leaves in it.
LEMMA Appended ==
  ASSUME NEW S, NEW s \in Seq(S), NEW e
  PROVE  /\ Len(Append(s, e)) = Len(s) + 1 /\ Len(s) \in Nat
         /\ \A i \in 1..Len(s) : Append(s, e)[i] = s[i]
         /\ Append(s, e)[Len(s) + 1] = e
         /\ 1..(Len(s) + 1) = 1..Len(s) \cup {Len(s) + 1}
OBVIOUS

Entries == [channel : Channels, depth : Nat, status : Statuses]

\* Recording the first channel of the level keeps the order.
LEMMA OrderRecorded ==
  ASSUME IInv, Ahead, ResultsInPlanOrder, pc \in {"collect", "record"},
         NEW c \in First(todo), Completed(c, depth, st[c]), UNCHANGED <<plan, depth, level>>,
         todo' = todo \ {c}, pc' # "carry",
         pc = "record" => cur # Synth
  PROVE  Ahead' /\ ResultsInPlanOrder'
<1> DEFINE new == [channel |-> c, depth |-> depth, status |-> st[c]]
           n   == Len(channels)
<1>1. channels \in Seq(Entries) /\ channels' = Append(channels, new)
  BY DEF IInv, TypeOK, Entries, Completed
<1> HIDE DEF new
<1>2. /\ Len(channels') = n + 1 /\ n \in Nat
      /\ \A i \in 1..n : channels'[i] = channels[i]
      /\ channels'[n + 1] = new
      /\ 1..(n + 1) = 1..n \cup {n + 1}
  BY <1>1, Appended
<1>3. /\ depth \in Nat \ {0} /\ level \in Nat /\ c \in todo /\ c \in Channels
      /\ plan.rank[c] = level /\ plan.rank \in [Channels -> Nat \ {0}]
      /\ \A d \in todo : d # c => c < d
  <2>1. /\ depth \in Nat /\ level \in Nat /\ todo \subseteq Channels
        /\ plan.rank \in [Channels -> Nat \ {0}]
    BY PlanTyped DEF IInv, TypeOK, PlanType
  <2>2. depth # 0 /\ \A d \in todo : plan.rank[d] = level
    BY DEF IInv, Fresh, InGate
  <2>3. Channels \subseteq Int
    BY DEF Channels
  <2> QED BY <2>1, <2>2, <2>3 DEF First
<1>4. new.channel = c /\ new.depth = depth
  BY DEF new
<1>5. \A i \in 1..n : channels[i].channel \in Channels /\ channels[i].depth \in Nat
  <2>1. \A i \in 1..n : channels[i] \in Entries
    BY <1>1, ElementOfSeq
  <2> QED BY <2>1 DEF Entries
<1>6. Ahead'
  BY <1>2, <1>3, <1>4 DEF Ahead
<1>7. \A i \in 1..n : Precedes(channels[i], new)
  <2> SUFFICES ASSUME NEW i \in 1..n PROVE Precedes(channels[i], new)
    OBVIOUS
  <2> DEFINE e == channels[i]
  <2>1. e.channel \in Channels /\ e.depth \in Nat /\ plan.rank[e.channel] \in Nat
    BY <1>3, <1>5
  <2>2. e.depth <= depth
    BY DEF Ahead
  <2>3. e.depth = depth => plan.rank[e.channel] <= level /\ (plan.rank[e.channel] < level \/ e.channel < c)
    BY <1>3 DEF Ahead
  <2>4. Precedes(e, new)
    <3> HIDE DEF e
    <3> QED BY <1>3, <1>4, <2>1, <2>2, <2>3 DEF Precedes
  <2> QED BY <2>4
<1>8. ASSUME NEW i \in 1..(n + 1), NEW j \in 1..(n + 1), i < j
      PROVE  Precedes(channels'[i], channels'[j])
  <2>1. i \in 1..n
    BY <1>2, <1>8
  <2>2. CASE j \in 1..n
    BY <1>2, <2>1, <2>2, <1>8 DEF ResultsInPlanOrder
  <2>3. CASE j = n + 1
    BY <1>2, <1>7, <2>1, <2>3
  <2> QED BY <1>2, <2>2, <2>3
<1>9. \A e, f : Precedes(e, f)' <=> Precedes(e, f)
  BY DEF Precedes
<1> QED BY <1>2, <1>6, <1>8, <1>9 DEF ResultsInPlanOrder, Precedes

\* So does splicing in the next carried result.
LEMMA OrderCarried ==
  ASSUME IInv, Ahead, ResultsInPlanOrder, Carry
  PROVE  Ahead' /\ ResultsInPlanOrder'
<1>1. PICK c \in First(todo) : Completed(c, 0, "ok") /\ todo' = todo \ {c}
  BY DEF Carry
<1> DEFINE new == [channel |-> c, depth |-> 0, status |-> "ok"]
           n   == Len(channels)
<1>2. channels \in Seq(Entries) /\ channels' = Append(channels, new)
  BY <1>1 DEF IInv, TypeOK, Entries, Completed
<1>3. new.channel = c /\ new.depth = 0
  OBVIOUS
<1> HIDE DEF new
<1>4. /\ Len(channels') = n + 1 /\ n \in Nat
      /\ \A i \in 1..n : channels'[i] = channels[i]
      /\ channels'[n + 1] = new
      /\ 1..(n + 1) = 1..n \cup {n + 1}
  BY <1>2, Appended
<1>5. /\ depth = 1 /\ depth' = depth /\ plan' = plan
      /\ \A d \in todo : d # c => c < d
      /\ todo' = {} => pc' = "level"
      /\ todo' # {} => pc' = "carry"
  <2>1. todo \subseteq Channels /\ Channels \subseteq Int
    BY DEF IInv, TypeOK, Channels
  <2>2. depth = 1
    BY <1>1 DEF Carry, First, IInv, Fresh, CarriedAt
  <2>3. \A d \in todo : d # c => c < d
    BY <1>1, <2>1 DEF First
  <2>4. depth' = depth /\ plan' = plan /\ pc' = IF todo' = {} THEN "level" ELSE "carry"
    BY DEF Carry
  <2> QED BY <2>2, <2>3, <2>4
<1>6. \A i \in 1..n : channels[i].depth = 0 /\ channels[i].channel < c
                       /\ channels[i].channel \in Int
  <2>1. \A i \in 1..n : channels[i] \in Entries
    BY <1>2, ElementOfSeq
  <2>2. \A i \in 1..n : channels[i].channel \in Int
    BY <2>1 DEF Entries, Channels
  <2> QED BY <1>1, <2>2 DEF Carry, First, Ahead
<1>7. Ahead'
  <2>1. c \in Int /\ todo \subseteq Int
    <3>1. todo \subseteq Channels
      BY DEF IInv, TypeOK
    <3> QED BY <1>1, <3>1 DEF First, Channels
  <2>2. \A i \in 1..(n + 1) : channels'[i].depth = 0 /\ \A d \in todo' : channels'[i].channel < d
    BY <1>1, <1>3, <1>4, <1>5, <1>6, <2>1
  <2>3. todo' = {} => pc' = "level"
    BY <1>5
  <2> QED BY <1>4, <1>5, <2>2 DEF Ahead
<1>8. \A i \in 1..n : Precedes(channels[i], new)
  BY <1>3, <1>6 DEF Precedes
<1>9. ASSUME NEW i \in 1..(n + 1), NEW j \in 1..(n + 1), i < j
      PROVE  Precedes(channels'[i], channels'[j])
  <2>1. i \in 1..n
    BY <1>4, <1>9
  <2>2. CASE j \in 1..n
    BY <1>4, <2>1, <2>2, <1>9 DEF ResultsInPlanOrder
  <2>3. CASE j = n + 1
    BY <1>4, <1>8, <2>1, <2>3
  <2> QED BY <1>4, <2>2, <2>3
<1> QED BY <1>4, <1>5, <1>7, <1>9 DEF ResultsInPlanOrder, Precedes

\* Where the loop moves on, nothing on the next level is reported yet.
LEMMA OrderKept ==
  ASSUME IInv, Ahead, ResultsInPlanOrder, channels' = channels, plan' = plan,
         \/ depth' = depth + 1 /\ (pc' = "carry" => depth = 0)
         \/ depth' = depth /\ level' = level + 1 /\ (pc' # "carry")
              /\ (\A c \in todo' : plan.rank[c] = level + 1) /\ pc # "carry"
         \/ depth' = depth /\ level' = level /\ todo' \subseteq todo /\ (pc' = "carry" <=> pc = "carry")
         \/ depth' = depth /\ level' = level /\ todo' \subseteq todo /\ pc' = "rejected"
  PROVE  Ahead' /\ ResultsInPlanOrder'
<1>1. channels \in Seq(Entries)
  BY DEF IInv, TypeOK, Entries
<1>2. \A i \in 1..Len(channels) : channels[i] \in Entries
  BY <1>1, ElementOfSeq
<1>3. /\ depth \in Nat /\ level \in Nat /\ \A c \in Channels : plan.rank[c] \in Nat \ {0}
      /\ todo \subseteq Channels
  BY PlanTyped DEF IInv, TypeOK, PlanType
<1>4. \A i \in 1..Len(channels) : channels[i].channel \in Channels /\ channels[i].depth \in Nat
                                   /\ plan.rank[channels[i].channel] \in Nat
  BY <1>2, <1>3 DEF Entries
<1>5. pc = "carry" => depth = 1 \/ todo = {}
  BY DEF IInv, Fresh, CarriedAt
<1>6. Ahead'
  BY <1>3, <1>4, <1>5 DEF Ahead
<1> QED BY <1>6 DEF ResultsInPlanOrder, Precedes

\* Every step: the unit in the gate is the first of those left.
LEMMA ForemostStep == IInv /\ Foremost /\ [Next]_vars => Foremost'
<1> SUFFICES ASSUME IInv, Foremost, [Next]_vars PROVE Foremost'
  OBVIOUS
<1>1. CASE RecordChannel
  BY <1>1 DEF RecordChannel, Foremost, First, InGate
<1>2. CASE EnterLevel
  BY <1>2 DEF EnterLevel, Foremost, First, InGate, IInv, Phase
<1>3. ASSUME UNCHANGED <<todo, cur>>, pc' \in InGate => pc \in InGate
      PROVE  Foremost'
  BY <1>3 DEF Foremost, First
<1> QED
  BY <1>1, <1>2, <1>3
     DEF Next, Step, Over, vars, StartDepth, Carry, LaunchLevel, EndLevels, Decide, Finish,
         PluginThrows, HookThrows, TakeGlobal, TakeProvider, Throw, Settle, Awaited, Collect,
         EnterGate, Proceed, Skip, Abort, SettleGated, ThrowGated, AfterHook, RecordSynthesis,
         ExternalAbort, frame, progress, report, InGate, Foremost

\* Every step: results are in the order of depths, levels and declaration.
LEMMA OrderStep ==
  IInv /\ Foremost /\ Ahead /\ ResultsInPlanOrder /\ [Next]_vars => Ahead' /\ ResultsInPlanOrder'
<1> SUFFICES ASSUME IInv, Foremost, Ahead, ResultsInPlanOrder, [Next]_vars PROVE Ahead' /\ ResultsInPlanOrder'
  OBVIOUS
<1>1. CASE StartDepth
  <2>1. depth \in Nat
    BY DEF IInv, TypeOK
  <2> QED BY <1>1, <2>1, OrderKept DEF StartDepth, report, CarriedAt
<1>2. CASE Carry
  BY <1>2, OrderCarried
<1>3. CASE LaunchLevel \/ EnterLevel
  BY <1>3, OrderKept DEF LaunchLevel, EnterLevel, ToRun, report
<1>4. CASE Collect
  <2>1. PICK c \in First(todo) :
          /\ IF st[c] = "null" THEN UNCHANGED <<channels, done>> ELSE Completed(c, depth, st[c])
          /\ todo' = todo \ {c}
    BY <1>4 DEF Collect
  <2>2. pc = "collect" /\ pc' \in {"level", "collect"} /\ UNCHANGED <<plan, depth, level>>
    BY <1>4 DEF Collect
  <2>3. st[c] = "null" => Ahead' /\ ResultsInPlanOrder'
    BY <2>1, <2>2, OrderKept
  <2>4. st[c] # "null" => Ahead' /\ ResultsInPlanOrder'
    BY <2>1, <2>2, OrderRecorded
  <2> QED BY <2>3, <2>4
<1>5. CASE RecordChannel
  <2>1. /\ pc = "record" /\ pc' \in {"level", "gate"} /\ UNCHANGED <<plan, depth, level>>
        /\ todo' = todo \ {cur} /\ cur # Synth /\ cur \in First(todo)
    BY <1>5, Kinds DEF RecordChannel, Foremost, InGate
  <2>2. CASE st[cur] = "null"
    BY <1>5, <2>1, <2>2, OrderKept DEF RecordChannel
  <2>3. CASE st[cur] # "null"
    BY <1>5, <2>1, <2>3, OrderRecorded DEF RecordChannel
  <2> QED BY <2>2, <2>3
<1>6. ASSUME channels' = channels, plan' = plan, depth' = depth, level' = level, todo' = todo,
             pc' # "carry", pc # "carry" \/ pc' = "rejected"
      PROVE  Ahead' /\ ResultsInPlanOrder'
  BY <1>6, OrderKept
<1>7. ASSUME UNCHANGED <<channels, plan, depth, level, todo, pc>>
      PROVE  Ahead' /\ ResultsInPlanOrder'
  BY <1>7, OrderKept
<1> QED
  BY <1>1, <1>2, <1>3, <1>4, <1>5, <1>6, <1>7
     DEF Next, Step, Over, vars, EndLevels, Decide, Finish, PluginThrows, HookThrows, TakeGlobal,
         TakeProvider, Throw, Settle, Awaited, EnterGate, Proceed, Skip, Abort, SettleGated,
         ThrowGated, AfterHook, RecordSynthesis, ExternalAbort, frame, progress, report

-----------------------------------------------------------------------------
(***************************************************************************)
(* The books.                                                              *)
(***************************************************************************)

\* A unit in flight settles with status s.
Settling(x, s) ==
  /\ st[x] = "running" /\ st' = [st EXCEPT ![x] = s]
  /\ ended' = ended \cup {[unit |-> x, depth |-> depth, status |-> s]}
  /\ UNCHANGED <<plan, depth, todo, cur, channels, synthesis, runs>>

\* A step in which no unit gets or loses a status.
Calmly ==
  /\ UNCHANGED <<plan, depth, ended>>
  /\ \A x \in Units : st'[x] = st[x] \/ (st[x] \notin Statuses /\ st'[x] \notin Statuses)

\* Every step begins a depth, splices in a carried result, settles a unit, or
\* leaves the statuses alone.
LEMMA StepKinds ==
  IInv /\ Levelled /\ [Next]_vars =>
    \/ StartDepth \/ Carry \/ Calmly
    \/ \E x \in Units, s \in Statuses : Settling(x, s)
<1> SUFFICES ASSUME IInv, Levelled, [Next]_vars, ~StartDepth, ~Carry,
                    ~\E x \in Units, s \in Statuses : Settling(x, s)
             PROVE  Calmly
  OBVIOUS
<1>t. st \in [Units -> UnitStates]
  BY DEF IInv, TypeOK
<1>1. CASE LaunchLevel
  <2>1. \A c \in todo' : st[c] = "idle"
    <3>1. \A c \in todo' : c \in Channels /\ plan.rank[c] = level + 1 /\ c \notin CarriedAt(depth)
      BY <1>1 DEF LaunchLevel, ToRun
    <3>2. level \in Nat
      BY DEF IInv, TypeOK
    <3> QED BY <1>1, <3>1, <3>2 DEF LaunchLevel, IInv, Fresh
  <2>2. \A x \in Units : st'[x] = IF x \in todo' THEN "queued" ELSE st[x]
    BY <1>1, <1>t DEF LaunchLevel
  <2> QED BY <1>1, <2>1, <2>2, Kinds DEF LaunchLevel, Calmly
<1>2. ASSUME NEW c \in Channels, TakeGlobal(c) PROVE Calmly
  BY <1>2, <1>t, Kinds DEF TakeGlobal, Calmly, frame, progress
<1>3. ASSUME NEW c \in Channels, TakeProvider(c) PROVE Calmly
  <2>1. st[c] = "waiting" /\ \E s \in {"null", "running"} : st' = [st EXCEPT ![c] = s]
    BY <1>3 DEF TakeProvider, Start, GoNull
  <2> QED BY <1>3, <2>1, <1>t, Kinds DEF TakeProvider, Calmly, frame, progress
<1>4. ASSUME NEW c \in Channels, Throw(c) PROVE Calmly
  BY <1>4, <1>t, Kinds DEF Throw, Calmly, frame, progress
<1>5. ASSUME NEW c \in Channels, NEW s \in Statuses, Settle(c, s) PROVE FALSE
  BY <1>5, Kinds DEF Settle, Settling, frame, progress, report
<1>6. CASE EnterGate \/ Proceed \/ Skip \/ Abort
  <2>1. cur \in Units /\ st[cur] = "idle" /\ UNCHANGED <<plan, depth, ended>>
    BY <1>6 DEF EnterGate, Proceed, Skip, Abort, IInv, Phase, Fresh, TypeOK, progress
  <2>2. st' = st \/ \E s \in {"null", "running"} : st' = [st EXCEPT ![cur] = s]
    BY <1>6 DEF EnterGate, Proceed, Skip, Abort, Start, GoNull
  <2> QED BY <2>1, <2>2, <1>t, Kinds DEF Calmly
<1>7. ASSUME NEW s \in Statuses, SettleGated(s) PROVE FALSE
  <2>1. cur \in Units /\ st[cur] = "running"
    BY <1>7 DEF SettleGated, IInv, Phase, TypeOK
  <2>2. Settling(cur, s)
    BY <1>7, <2>1 DEF SettleGated, Settling, progress, report
  <2> QED BY <2>1, <2>2
<1>8. CASE ThrowGated
  <2>1. cur \in Units /\ st[cur] = "running"
    BY <1>8 DEF ThrowGated, IInv, Phase, TypeOK
  <2> QED BY <1>8, <2>1, <1>t, Kinds DEF ThrowGated, Calmly, progress
<1>9. UNCHANGED <<plan, depth, ended, st>> => Calmly
  BY DEF Calmly
<1> QED
  BY <1>1, <1>2, <1>3, <1>4, <1>5, <1>6, <1>7, <1>8, <1>9
     DEF Next, Step, Over, vars, EnterLevel, EndLevels, Decide, Finish, PluginThrows, HookThrows,
         Awaited, Collect, AfterHook, RecordChannel, RecordSynthesis, ExternalAbort, frame, progress

\* A unit that has no status has ended at none but earlier depths.
LEMMA EndedBefore ==
  ASSUME TypeOK, Ended, NEW x \in Units, st[x] \notin Statuses
  PROVE  \A e \in Ends(x) : e.depth < depth
<1>1. \A e \in ended : e.depth \in Nat /\ e.status \in Statuses /\ depth \in Nat
  BY DEF TypeOK
<1> QED BY <1>1 DEF Ended, Ends

\* Every step: a status is that of the execution that ended last.
LEMMA EndedStep == IInv /\ Levelled /\ Ended /\ [Next]_vars => Ended'
<1> SUFFICES ASSUME IInv, Levelled, Ended, [Next]_vars PROVE Ended'
  OBVIOUS
<1>t. /\ depth \in Nat /\ st \in [Units -> UnitStates]
      /\ \A e \in ended : e.unit \in Units /\ e.depth \in Nat /\ e.status \in Statuses
  BY DEF IInv, TypeOK
<1>1. CASE StartDepth
  <2>1. ended' = ended /\ depth' = depth + 1 /\ \A x \in Units : st'[x] = "idle"
    BY <1>1 DEF StartDepth
  <2> QED BY <1>t, <2>1, Kinds DEF Ended
<1>2. CASE Carry
  <2>1. PICK c \in todo : st' = [st EXCEPT ![c] = "ok"]
    BY <1>2 DEF Carry, First
  <2>2. UNCHANGED <<plan, depth, ended>> /\ c \in Units /\ st[c] = "idle" /\ c \in CarriedAt(depth)
    BY <1>2, <2>1, Kinds DEF Carry, Levelled, IInv, Fresh, TypeOK
  <2> QED BY <1>t, <2>1, <2>2, Kinds DEF Ended, Outcome, CarriedAt
<1>3. CASE Calmly
  BY <1>t, <1>3 DEF Calmly, Ended, Outcome, CarriedAt
<1>4. ASSUME NEW x \in Units, NEW s \in Statuses, Settling(x, s) PROVE Ended'
  <2>1. st'[x] = s /\ \A y \in Units : y # x => st'[y] = st[y]
    BY <1>4, <1>t DEF Settling
  <2>2. \A e \in ended : e.depth = depth => e.unit # x
    BY <1>4, <1>t, Kinds DEF Ended, Settling
  <2> QED BY <1>t, <1>4, <2>1, <2>2 DEF Settling, Ended, Outcome, CarriedAt
<1> QED BY <1>1, <1>2, <1>3, <1>4, StepKinds

\* Every step: who threw made the run reject.
LEMMA ThrownStep == IInv /\ Thrown /\ [Next]_vars => Thrown'
<1> SUFFICES ASSUME IInv, Thrown, [Next]_vars PROVE Thrown'
  OBVIOUS
<1> USE Kinds DEF IInv, TypeOK, Thrown
<1>1. CASE StartDepth
  BY <1>1 DEF StartDepth
<1>2. CASE Carry
  BY <1>2 DEF Carry, First
<1>3. CASE LaunchLevel
  BY <1>3 DEF LaunchLevel
<1>4. ASSUME NEW c \in Channels, TakeGlobal(c) \/ TakeProvider(c) \/ Throw(c) PROVE Thrown'
  BY <1>4 DEF TakeGlobal, TakeProvider, Throw, Start, GoNull
<1>5. ASSUME NEW c \in Channels, NEW s \in Statuses, Settle(c, s) PROVE Thrown'
  BY <1>5 DEF Settle
<1>6. CASE EnterGate \/ Proceed \/ Skip \/ Abort
  BY <1>6 DEF EnterGate, Proceed, Skip, Abort, Start, GoNull
<1>7. ASSUME NEW s \in Statuses, SettleGated(s) PROVE Thrown'
  BY <1>7 DEF SettleGated
<1>8. CASE ThrowGated
  BY <1>8 DEF ThrowGated
<1>9. st' = st /\ (pc = "rejected" => pc' = "rejected") => Thrown'
  OBVIOUS
<1> QED
  BY <1>1, <1>2, <1>3, <1>4, <1>5, <1>6, <1>7, <1>8, <1>9
     DEF Next, Step, Over, vars, EnterLevel, EndLevels, Decide, Finish, PluginThrows, HookThrows,
         Awaited, Collect, AfterHook, RecordChannel, RecordSynthesis, ExternalAbort, frame, progress

\* What a new entry of the report adds to its results and to its carried ones.
LEMMA RecordedGrows ==
  ASSUME TypeOK, NEW new \in Entries, channels' = Append(channels, new)
  PROVE  /\ Recorded' = Recorded \cup (IF new.depth > 0 THEN {Entry(new)} ELSE {})
         /\ CarriedIn' = CarriedIn \cup
              {c \in Channels : new = [channel |-> c, depth |-> 0, status |-> "ok"]}
<1> DEFINE n == Len(channels)
<1>1. channels \in Seq(Entries)
  BY DEF TypeOK, Entries
<1>2. /\ Len(channels') = n + 1 /\ n \in Nat
      /\ \A i \in 1..n : channels'[i] = channels[i]
      /\ channels'[n + 1] = new
      /\ 1..(n + 1) = 1..n \cup {n + 1}
  BY <1>1, Appended
<1> HIDE DEF n
<1>3. Recorded = {Entry(channels[i]) : i \in {j \in 1..n : channels[j].depth > 0}}
  BY DEF Recorded, n
<1>4. Recorded' = {Entry(channels'[i]) : i \in {j \in 1..(n + 1) : channels'[j].depth > 0}}
  BY <1>2 DEF Recorded, Entry
<1>5. CarriedIn = {c \in Channels : \E i \in 1..n :
                     channels[i] = [channel |-> c, depth |-> 0, status |-> "ok"]}
  BY DEF CarriedIn, n
<1>6. CarriedIn' = {c \in Channels : \E i \in 1..(n + 1) :
                      channels'[i] = [channel |-> c, depth |-> 0, status |-> "ok"]}
  BY <1>2 DEF CarriedIn
<1>7. CASE new.depth > 0
  <2>1. Recorded' = Recorded \cup {Entry(new)}
    BY <1>2, <1>3, <1>4, <1>7
  <2> QED BY <1>2, <1>5, <1>6, <1>7, <2>1
<1>8. CASE ~(new.depth > 0)
  <2>1. Recorded' = Recorded
    BY <1>2, <1>3, <1>4, <1>8
  <2> QED BY <1>2, <1>5, <1>6, <1>8, <2>1
<1> QED BY <1>7, <1>8

\* Recording a settled channel takes it from one side of the book to the other.
LEMMA BookRecorded ==
  ASSUME IInv, ChannelBook, pc # "depth", NEW c \in todo, Settled(c),
         IF st[c] = "null" THEN UNCHANGED <<channels, done>> ELSE Completed(c, depth, st[c]),
         todo' = todo \ {c}, UNCHANGED <<depth, st, ended>>
  PROVE  ChannelBook'
<1>1. c \in Channels /\ depth \in Nat \ {0}
  BY DEF IInv, TypeOK, Fresh
<1>2. CASE st[c] = "null"
  <2>1. Recorded' = Recorded
    BY <1>2 DEF Recorded, Entry
  <2>2. Pending' = Pending
    BY <1>2, Kinds DEF Pending, Outcome
  <2> QED BY <2>1, <2>2 DEF ChannelBook
<1>3. CASE st[c] \in Statuses
  <2> DEFINE new == [channel |-> c, depth |-> depth, status |-> st[c]]
  <2>1. channels' = Append(channels, new) /\ new \in Entries
    BY <1>1, <1>3, Kinds DEF Completed, Entries
  <2>2. Recorded' = Recorded \cup {Outcome(c)}
    BY <1>1, <2>1, RecordedGrows DEF IInv, Entry, Outcome
  <2>3. Pending = Pending' \cup {Outcome(c)}
    BY <1>3 DEF Pending, Outcome
  <2> QED BY <2>2, <2>3 DEF ChannelBook
<1> QED BY <1>2, <1>3 DEF Settled

\* Every step: each channel that ended is in the report or about to enter it.
LEMMA ChannelBookStep == IInv /\ Levelled /\ ChannelBook /\ [Next]_vars => ChannelBook'
<1> SUFFICES ASSUME IInv, Levelled, ChannelBook, [Next]_vars PROVE ChannelBook'
  OBVIOUS
<1>t. st \in [Units -> UnitStates] /\ todo \subseteq Channels /\ depth \in Nat
  BY DEF IInv, TypeOK
<1>1. CASE StartDepth
  <2>1. Pending = {}
    BY <1>1, Kinds DEF StartDepth, Levelled, Pending
  <2>2. Pending' = {} 
    <3>1. todo' \subseteq Units /\ \A x \in Units : st'[x] = "idle"
      BY <1>1, Kinds, PlanTyped DEF StartDepth, CarriedAt, IInv, PlanType
    <3> QED BY <3>1, Kinds DEF Pending
  <2> QED BY <1>1, <2>1, <2>2 DEF StartDepth, report, ChannelBook, Recorded, Entry
<1>2. CASE Carry
  <2>1. PICK c \in First(todo) : Completed(c, 0, "ok") /\ st' = [st EXCEPT ![c] = "ok"] /\ todo' = todo \ {c}
    BY <1>2 DEF Carry
  <2> DEFINE new == [channel |-> c, depth |-> 0, status |-> "ok"]
  <2>2. new \in Entries /\ ~(new.depth > 0) /\ channels' = Append(channels, new)
    BY <2>1, <1>t, Kinds DEF First, Entries, Completed
  <2>3. Recorded' = Recorded
    <3> HIDE DEF new
    <3> QED BY <2>2, RecordedGrows DEF IInv
  <2>4. Pending = {} /\ Pending' = {}
    BY <1>2, <1>t, <2>1, Kinds DEF Carry, Levelled, Pending, First
  <2> QED BY <1>2, <2>3, <2>4 DEF Carry, ChannelBook
<1>3. ASSUME NEW x \in Units, NEW s \in Statuses, Settling(x, s) PROVE ChannelBook'
  <2>1. st'[x] = s /\ \A y \in Units : y # x => st'[y] = st[y]
    BY <1>3, <1>t DEF Settling
  <2>2. Recorded' = Recorded /\ depth' = depth /\ todo' = todo
    BY <1>3 DEF Settling, Recorded, Entry
  <2>3. CASE x = Synth
    <3>1. Pending' = Pending
      BY <1>t, <2>1, <2>2, <2>3, Kinds DEF Pending, Outcome
    <3> QED BY <1>3, <2>2, <2>3, <3>1 DEF ChannelBook, Settling
  <2>4. CASE x # Synth
    <3>1. x \in todo
      BY <1>3, <2>4, NumChannelsAssumption DEF Levelled, Settling, Active, Units, Channels, Synth
    <3>2. Pending' = Pending \cup {[unit |-> x, depth |-> depth, status |-> s]}
      BY <1>3, <1>t, <2>1, <2>2, <3>1, Kinds DEF Pending, Outcome, Settling
    <3> QED BY <1>3, <2>2, <2>4, <3>2 DEF ChannelBook, Settling
  <2> QED BY <2>3, <2>4
<1>4. CASE Collect
  <2>1. pc = "collect"
    BY <1>4 DEF Collect
  <2>2. PICK c \in First(todo) :
          /\ IF st[c] = "null" THEN UNCHANGED <<channels, done>> ELSE Completed(c, depth, st[c])
          /\ todo' = todo \ {c}
    BY <1>4 DEF Collect
  <2>3. c \in todo /\ Settled(c)
    BY <2>1, <2>2 DEF First, IInv, Phase
  <2>4. UNCHANGED <<depth, st, ended>>
    BY <1>4 DEF Collect
  <2> QED BY <2>1, <2>2, <2>3, <2>4, BookRecorded
<1>5. CASE RecordChannel
  <2>1. cur \in todo /\ Settled(cur) /\ pc = "record"
    BY <1>5, Kinds DEF RecordChannel, IInv, Phase, InGate
  <2> QED BY <1>5, <2>1, BookRecorded DEF RecordChannel
<1>6. CASE LaunchLevel \/ EnterLevel
  <2>1. todo = {} /\ UNCHANGED <<channels, ended, depth>>
    BY <1>6 DEF LaunchLevel, EnterLevel, report, Levelled
  <2>2. \A c \in todo' : c \in Channels /\ plan.rank[c] = level + 1 /\ c \notin CarriedAt(depth)
    BY <1>6 DEF LaunchLevel, EnterLevel, ToRun
  <2>3. \A c \in todo' : st[c] = "idle"
    BY <1>6, <2>2 DEF LaunchLevel, EnterLevel, IInv, Fresh, TypeOK
  <2>4. \A c \in todo' : st'[c] \in {"idle", "queued"}
    BY <1>6, <1>t, <2>2, <2>3, Kinds DEF LaunchLevel, EnterLevel
  <2>5. Pending = {} /\ Pending' = {}
    BY <2>1, <2>4, Kinds DEF Pending
  <2> QED BY <2>1, <2>5 DEF ChannelBook, Recorded, Entry
<1>7. CASE Calmly /\ todo' = todo /\ channels' = channels
  <2>1. Pending' = Pending
    BY <1>7, <1>t, Kinds DEF Calmly, Pending, Outcome
  <2> QED BY <1>7, <2>1 DEF ChannelBook, Calmly, Recorded, Entry
<1>8. \/ StartDepth \/ Carry \/ Collect \/ RecordChannel \/ LaunchLevel \/ EnterLevel
      \/ todo' = todo /\ channels' = channels
  BY DEF Next, Step, Over, vars, EndLevels, Decide, Finish, PluginThrows, HookThrows, TakeGlobal,
         TakeProvider, Throw, Settle, Awaited, EnterGate, Proceed, Skip, Abort, SettleGated,
         ThrowGated, AfterHook, RecordSynthesis, ExternalAbort, frame, progress, report
<1> QED BY <1>1, <1>2, <1>3, <1>4, <1>5, <1>6, <1>7, <1>8, StepKinds

\* Who begins, and who ends.
LEMMA RunBookKept ==
  ASSUME RunBook, UNCHANGED <<ended, runs>>, \A x \in Units : InFlight(x)' = InFlight(x)
  PROVE  RunBook'
BY DEF RunBook, Ends

\* An execution that starts is in flight.
LEMMA RunBookStarted ==
  ASSUME TypeOK, RunBook, ended' = ended, NEW x \in Units, Start(x), st[x] \notin {"running", "thrown"}
  PROVE  RunBook'
<1>1. /\ runs'[x] = runs[x] + 1 /\ st'[x] = "running"
      /\ \A y \in Units : y # x => runs'[y] = runs[y] /\ st'[y] = st[y]
  BY DEF Start, TypeOK
<1>2. \A y \in Units : Cardinality(Ends(y)) \in Nat /\ Ends(y)' = Ends(y)
  <2>1. \A y \in Units : IsFiniteSet(Ends(y))
    BY FS_Subset DEF RunBook, Ends
  <2> QED BY <2>1, FS_CardinalityType DEF Ends
<1> QED BY <1>1, <1>2 DEF RunBook, InFlight

\* An execution that settles has ended and is in flight no more.
LEMMA RunBookSettled ==
  ASSUME TypeOK, Ended, RunBook, NEW x \in Units, NEW s \in Statuses, Settling(x, s)
  PROVE  RunBook'
<1> DEFINE new == [unit |-> x, depth |-> depth, status |-> s]
<1>1. ended' = ended \cup {new} /\ new \notin ended
  BY Kinds DEF Settling, Ended
<1>2. IsFiniteSet(ended') /\ \A y \in Units : IsFiniteSet(Ends(y))
  BY <1>1, FS_AddElement, FS_Subset DEF RunBook, Ends
<1>3. \A y \in Units : Cardinality(Ends(y)) \in Nat
  BY <1>2, FS_CardinalityType
<1>4. Ends(x)' = Ends(x) \cup {new} /\ new \notin Ends(x)
  BY <1>1 DEF Ends
<1>5. Cardinality(Ends(x))' = Cardinality(Ends(x)) + 1
  BY <1>2, <1>4, FS_AddElement
<1>6. \A y \in Units : y # x => Ends(y)' = Ends(y)
  BY <1>1 DEF Ends
<1>7. st[x] = "running" /\ st'[x] = s /\ \A y \in Units : y # x => st'[y] = st[y]
  BY DEF Settling, TypeOK
<1>8. InFlight(x) = 1 /\ InFlight(x)' = 0 /\ \A y \in Units : y # x => InFlight(y)' = InFlight(y)
  BY <1>7, Kinds DEF InFlight
<1>9. runs' = runs
  BY DEF Settling
<1> QED BY <1>2, <1>3, <1>5, <1>6, <1>8, <1>9 DEF RunBook

\* Every step: each execution has ended, is in flight or has thrown.
LEMMA RunBookStep == IInv /\ Levelled /\ Ended /\ Thrown /\ RunBook /\ [Next]_vars => RunBook'
<1> SUFFICES ASSUME IInv, Levelled, Ended, Thrown, RunBook, [Next]_vars PROVE RunBook'
  OBVIOUS
<1>t. TypeOK /\ st \in [Units -> UnitStates]
  BY DEF IInv, TypeOK
<1>1. CASE StartDepth
  <2>1. \A x \in Units : st[x] \notin {"running", "thrown"} /\ st'[x] = "idle"
    BY <1>1 DEF StartDepth, Thrown, IInv, Phase, Active
  <2> QED BY <1>1, <2>1, RunBookKept DEF StartDepth, InFlight
<1>2. CASE Carry
  <2>1. PICK c \in todo : st' = [st EXCEPT ![c] = "ok"]
    BY <1>2 DEF Carry, First
  <2>2. st[c] = "idle" /\ c \in Units /\ \A x \in Units : x # c => st'[x] = st[x]
    BY <1>2, <1>t, <2>1, Kinds DEF Carry, Levelled, TypeOK
  <2>3. st'[c] = "ok"
    BY <2>1, <2>2, <1>t
  <2> QED BY <1>2, <2>2, <2>3, Kinds, RunBookKept DEF Carry, InFlight
<1>3. ASSUME NEW x \in Units, NEW s \in Statuses, Settling(x, s) PROVE RunBook'
  BY <1>3, <1>t, RunBookSettled
<1>4. CASE LaunchLevel
  <2>1. \A c \in todo' : st[c] = "idle"
    <3>1. \A c \in todo' : c \in Channels /\ plan.rank[c] = level + 1 /\ c \notin CarriedAt(depth)
      BY <1>4 DEF LaunchLevel, ToRun
    <3>2. level \in Nat
      BY DEF IInv, TypeOK
    <3> QED BY <1>4, <3>1, <3>2 DEF LaunchLevel, IInv, Fresh
  <2>2. \A x \in Units : st'[x] = IF x \in todo' THEN "queued" ELSE st[x]
    BY <1>4, <1>t DEF LaunchLevel
  <2> QED BY <1>4, <2>1, <2>2, RunBookKept DEF LaunchLevel, InFlight
<1>5. ASSUME NEW c \in Channels, TakeGlobal(c) PROVE RunBook'
  BY <1>5, <1>t, Kinds, RunBookKept DEF TakeGlobal, InFlight
<1>6. ASSUME NEW c \in Channels, TakeProvider(c) PROVE RunBook'
  <2>1. CASE aborted
    <3>1. st' = [st EXCEPT ![c] = "null"] /\ st[c] = "waiting" /\ UNCHANGED <<runs, ended>>
      BY <1>6, <2>1 DEF TakeProvider, GoNull
    <3> QED BY <1>t, <3>1, Kinds, RunBookKept DEF InFlight
  <2>2. CASE ~aborted
    BY <1>6, <1>t, <2>2, Kinds, RunBookStarted DEF TakeProvider
  <2> QED BY <2>1, <2>2
<1>7. ASSUME NEW c \in Channels, Throw(c) PROVE RunBook'
  BY <1>7, <1>t, Kinds, RunBookKept DEF Throw, InFlight
<1>8. CASE EnterGate \/ Proceed \/ Skip \/ Abort
  <2>1. cur \in Units /\ st[cur] = "idle" /\ ended' = ended
    BY <1>8 DEF EnterGate, Proceed, Skip, Abort, IInv, Phase, Fresh, TypeOK
  <2>2. \/ UNCHANGED <<st, runs>>
        \/ GoNull(cur)
        \/ Start(cur)
    BY <1>8 DEF EnterGate, Proceed, Skip, Abort
  <2>3. UNCHANGED <<st, runs>> => RunBook'
    BY <2>1, RunBookKept DEF InFlight
  <2>4. GoNull(cur) => RunBook'
    BY <1>t, <2>1, RunBookKept DEF GoNull, InFlight
  <2>5. Start(cur) => RunBook'
    BY <1>t, <2>1, RunBookStarted
  <2> QED BY <2>2, <2>3, <2>4, <2>5
<1>9. CASE ThrowGated
  <2>1. cur \in Units /\ st[cur] = "running"
    BY <1>9 DEF ThrowGated, IInv, Phase, TypeOK
  <2> QED BY <1>9, <1>t, <2>1, RunBookKept DEF ThrowGated, InFlight
<1>10. UNCHANGED <<st, runs, ended>> => RunBook'
  BY RunBookKept DEF InFlight
<1>11. \/ StartDepth \/ Carry \/ LaunchLevel \/ EnterGate \/ Proceed \/ Skip \/ Abort \/ ThrowGated
       \/ \E c \in Channels : TakeGlobal(c) \/ TakeProvider(c) \/ Throw(c)
       \/ \E c \in Channels, s \in Statuses : Settle(c, s)
       \/ \E s \in Statuses : SettleGated(s)
       \/ UNCHANGED <<st, runs, ended>>
  BY DEF Next, Step, Over, vars, EnterLevel, EndLevels, Decide, Finish, PluginThrows, HookThrows,
         Awaited, Collect, AfterHook, RecordChannel, RecordSynthesis, ExternalAbort, frame
<1>12. ASSUME NEW c \in Channels, NEW s \in Statuses, Settle(c, s) PROVE RunBook'
  BY <1>3, <1>12, Kinds DEF Settle, Settling, frame, progress, report
<1>13. ASSUME NEW s \in Statuses, SettleGated(s) PROVE RunBook'
  <2>1. cur \in Units /\ Settling(cur, s)
    BY <1>13 DEF SettleGated, Settling, progress, report, IInv, Phase, TypeOK
  <2> QED BY <1>3, <2>1
<1> QED BY <1>1, <1>2, <1>4, <1>5, <1>6, <1>7, <1>8, <1>9, <1>10, <1>11, <1>12, <1>13

\* The carried results.
LEMMA CarryKept ==
  ASSUME CarryBook, channels' = channels, plan' = plan,
         pc' = "carry" => pc = "carry" /\ todo' = todo,
         pc' \notin {"carry", "rejected"} /\ depth' > 0 => pc \notin {"carry", "rejected"} /\ depth > 0
  PROVE  CarryBook'
BY DEF CarryBook, CarriedIn

\* A result recorded at a depth is no carried one.
LEMMA CarryRecorded ==
  ASSUME IInv, CarryBook, pc \notin {"carry", "rejected", "depth"}, pc' # "carry",
         NEW c \in Channels, Completed(c, depth, st[c]), Settled(c), st[c] # "null",
         UNCHANGED <<plan, depth>>
  PROVE  CarryBook'
<1> DEFINE new == [channel |-> c, depth |-> depth, status |-> st[c]]
<1>1. depth \in Nat \ {0} /\ channels \in Seq(Entries)
  BY DEF IInv, TypeOK, Fresh, Entries
<1>2. channels' = Append(channels, new) /\ new \in Entries
  BY <1>1 DEF Completed, Settled, Entries
<1>3. new.depth # 0 /\ \A d \in Channels : new # [channel |-> d, depth |-> 0, status |-> "ok"]
  BY <1>1
<1> HIDE DEF new
<1>4. CarriedIn' = CarriedIn
  BY <1>2, <1>3, RecordedGrows DEF IInv
<1>5. \A i \in 1..Len(channels') : channels'[i].depth = 0 => channels'[i].status = "ok"
  BY <1>1, <1>2, <1>3, Appended DEF CarryBook
<1> QED BY <1>1, <1>4, <1>5 DEF CarryBook

\* Every step: carried results are in the report, once the depth loop is past them.
LEMMA CarryBookStep == IInv /\ CarryBook /\ Ahead /\ [Next]_vars => CarryBook'
<1> SUFFICES ASSUME IInv, CarryBook, Ahead, [Next]_vars PROVE CarryBook'
  OBVIOUS
<1>t. plan.carried \subseteq Channels /\ channels \in Seq(Entries) /\ depth \in Nat
  BY PlanTyped DEF IInv, TypeOK, PlanType, Entries
<1>1. CASE StartDepth
  <2>1. UNCHANGED <<plan, channels>> /\ depth' = depth + 1 /\ todo' = CarriedAt(depth + 1)
         /\ pc' = (IF todo' = {} THEN "level" ELSE "carry") /\ pc = "depth"
    BY <1>1 DEF StartDepth, report
  <2>2. CarriedIn' = CarriedIn
    BY <2>1 DEF CarriedIn
  <2>3. CASE depth = 0
    <3>1. channels = <<>> /\ CarriedIn = {}
      BY <2>3 DEF Ahead, CarriedIn
    <3>2. todo' = plan.carried
      BY <2>1, <2>3 DEF CarriedAt
    <3> QED BY <2>1, <2>2, <3>1, <3>2 DEF CarryBook
  <2>4. CASE depth > 0
    <3>1. todo' = {}
      BY <2>1, <2>4, <1>t DEF CarriedAt
    <3> QED BY <2>1, <2>2, <2>4, <3>1, <1>t DEF CarryBook
  <2> QED BY <2>3, <2>4, <1>t
<1>2. CASE Carry
  <2>1. PICK c \in First(todo) : Completed(c, 0, "ok") /\ todo' = todo \ {c}
    BY <1>2 DEF Carry
  <2> DEFINE new == [channel |-> c, depth |-> 0, status |-> "ok"]
  <2>2. c \in todo /\ c \in Channels
    BY <2>1 DEF First, IInv, TypeOK
  <2>3. channels' = Append(channels, new) /\ new \in Entries
    BY <2>1, <2>2, Kinds DEF Completed, Entries
  <2>4. {d \in Channels : new = [channel |-> d, depth |-> 0, status |-> "ok"]} = {c}
    BY <2>2
  <2>5. new.depth = 0 /\ new.status = "ok"
    OBVIOUS
  <2> HIDE DEF new
  <2>6. CarriedIn' = CarriedIn \cup {c}
    BY <2>3, <2>4, RecordedGrows DEF IInv
  <2>7. \A i \in 1..Len(channels') : channels'[i].depth = 0 => channels'[i].status = "ok"
    BY <1>t, <2>3, <2>5, Appended DEF CarryBook
  <2>8. CarriedIn' = plan'.carried \ todo'
    <3>1. CarriedIn = plan.carried \ todo /\ plan' = plan /\ c \in plan.carried
      BY <1>2, <2>2 DEF Carry, CarryBook, IInv, Fresh, CarriedAt
    <3> QED BY <2>1, <2>2, <2>6, <3>1
  <2>9. pc' = IF todo' = {} THEN "level" ELSE "carry"
    BY <1>2 DEF Carry
  <2> QED BY <2>7, <2>8, <2>9 DEF CarryBook
<1>3. CASE Collect
  <2>1. pc = "collect" /\ pc' \in {"level", "collect"} /\ UNCHANGED <<plan, depth>>
    BY <1>3 DEF Collect
  <2>2. PICK c \in First(todo) :
          IF st[c] = "null" THEN UNCHANGED <<channels, done>> ELSE Completed(c, depth, st[c])
    BY <1>3 DEF Collect
  <2>3. c \in Channels /\ Settled(c)
    BY <2>1, <2>2 DEF First, IInv, Phase, TypeOK
  <2>4. st[c] = "null" => CarryBook'
    BY <2>1, <2>2, CarryKept
  <2>5. st[c] # "null" => CarryBook'
    BY <2>1, <2>2, <2>3, CarryRecorded
  <2> QED BY <2>4, <2>5
<1>4. CASE RecordChannel
  <2>1. /\ pc = "record" /\ pc' \in {"level", "gate"} /\ UNCHANGED <<plan, depth>>
        /\ cur \in Channels /\ Settled(cur)
    BY <1>4 DEF RecordChannel, IInv, Phase
  <2>2. st[cur] = "null" => CarryBook'
    BY <1>4, <2>1, CarryKept DEF RecordChannel
  <2>3. st[cur] # "null" => CarryBook'
    BY <1>4, <2>1, CarryRecorded DEF RecordChannel
  <2> QED BY <2>2, <2>3
<1>5. ASSUME UNCHANGED <<plan, channels, depth>>, pc' # "carry", pc \notin {"carry", "rejected"}
      PROVE  CarryBook'
  BY <1>5, CarryKept
<1>6. ASSUME UNCHANGED <<plan, channels, depth>>, pc' = "rejected" PROVE CarryBook'
  BY <1>6, CarryKept
<1>7. ASSUME UNCHANGED <<plan, channels, depth, pc, todo>> PROVE CarryBook'
  BY <1>7, CarryKept
<1> QED
  BY <1>1, <1>2, <1>3, <1>4, <1>5, <1>6, <1>7
     DEF Next, Step, Over, vars, LaunchLevel, EnterLevel, EndLevels, Decide, Finish, PluginThrows,
         HookThrows, TakeGlobal, TakeProvider, Throw, Settle, Awaited, EnterGate, Proceed, Skip,
         Abort, SettleGated, ThrowGated, AfterHook, RecordSynthesis, ExternalAbort, frame, progress,
         report

\* The synthesis.
LEMMA SynthesisKept ==
  ASSUME SynthesisBook, synthesis' = synthesis, pc # "rejected", TakenIn' = TakenIn
  PROVE  SynthesisBook'
BY DEF SynthesisBook, NewestOf

\* As long as the synthesis has no status at this depth, all there was is taken in.
LEMMA AllTakenIn ==
  ASSUME TypeOK, Ended, st[Synth] \notin Statuses
  PROVE  /\ TakenIn = Ends(Synth)
         /\ ended' = ended /\ (depth' = depth \/ pc' \notin {"after", "record"}) => TakenIn' = TakenIn
<1>1. \A e \in Ends(Synth) : e.depth < depth
  BY EndedBefore, Kinds
<1> QED BY <1>1 DEF TakenIn, Ends

\* The synthesis that is recorded is that of the last execution.
LEMMA SynthesisRecorded ==
  ASSUME IInv, Ended, SynthesisBook, RecordSynthesis
  PROVE  SynthesisBook'
<1>1. /\ pc = "record" /\ cur = Synth /\ pc' = "decide" /\ UNCHANGED <<ended, depth, st>>
      /\ synthesis' = IF st[Synth] = "null" THEN synthesis ELSE [depth |-> depth, status |-> st[Synth]]
  BY DEF RecordSynthesis, progress
<1>2. TakenIn' = Ends(Synth)
  BY <1>1 DEF TakenIn, Ends
<1>3. CASE st[Synth] = "null"
  <2>1. TakenIn = Ends(Synth)
    BY <1>3, AllTakenIn, Kinds DEF IInv
  <2> QED BY <1>1, <1>2, <1>3, <2>1 DEF SynthesisBook, NewestOf
<1>4. CASE st[Synth] \in Statuses
  <2> DEFINE new == Outcome(Synth)
  <2>1. new \in Ends(Synth) /\ new.depth = depth /\ new.status = st[Synth]
    <3>1. Synth \notin CarriedAt(depth)
      BY PlanTyped, Kinds DEF IInv, PlanType, CarriedAt
    <3> QED BY <1>4, <3>1, Kinds DEF Ended, Ends, Outcome
  <2>2. \A f \in Ends(Synth) : f.depth <= new.depth
    BY <2>1 DEF Ended, Ends
  <2>3. synthesis' # NULL /\ synthesis' = [depth |-> new.depth, status |-> new.status]
    <3>1. synthesis' = [depth |-> depth, status |-> st[Synth]]
      BY <1>1, <1>4, Kinds
    <3>2. [depth |-> depth, status |-> st[Synth]] \in [depth : Nat, status : Statuses]
      BY <1>4 DEF IInv, TypeOK
    <3> QED BY <2>1, <3>1, <3>2, NullAssumption
  <2> HIDE DEF new
  <2> QED BY <1>1, <1>2, <2>1, <2>2, <2>3 DEF SynthesisBook, NewestOf
<1> QED BY <1>1, <1>3, <1>4 DEF IInv, Phase, Settled

\* Every step: the reported synthesis is the newest that was taken in.
LEMMA SynthesisStep == IInv /\ Levelled /\ Ended /\ SynthesisBook /\ [Next]_vars => SynthesisBook'
<1> SUFFICES ASSUME IInv, Levelled, Ended, SynthesisBook, [Next]_vars, pc' # "rejected"
             PROVE  SynthesisBook'
  BY DEF SynthesisBook
<1>r. pc # "rejected"
  <2>1. pc = "rejected" => pc' = "rejected"
    BY DEF Next, Step, Over, vars, StartDepth, Carry, LaunchLevel, EnterLevel, EndLevels, Decide,
           Finish, PluginThrows, HookThrows, TakeGlobal, TakeProvider, Throw, Settle, Awaited,
           Collect, EnterGate, Proceed, Skip, Abort, SettleGated, ThrowGated, AfterHook,
           RecordChannel, RecordSynthesis, ExternalAbort, frame
  <2> QED BY <2>1
<1>t. TypeOK /\ st \in [Units -> UnitStates] /\ Synth \in Units
  BY Kinds DEF IInv, TypeOK
<1>k. ASSUME st[Synth] \notin Statuses, UNCHANGED <<synthesis, ended, depth>> PROVE SynthesisBook'
  BY <1>r, <1>t, <1>k, AllTakenIn, SynthesisKept
<1>1. CASE StartDepth
  <2>1. pc = "depth" /\ pc' \in {"level", "carry"} /\ UNCHANGED <<synthesis, ended>>
    BY <1>1 DEF StartDepth, report
  <2>2. TakenIn = Ends(Synth) /\ TakenIn' = Ends(Synth)
    BY <2>1 DEF TakenIn, Ends
  <2> QED BY <1>r, <2>1, <2>2, SynthesisKept
<1>2. CASE RecordSynthesis
  BY <1>2, SynthesisRecorded
<1>3. ASSUME NEW c \in Channels, NEW s \in Statuses, Settle(c, s) PROVE SynthesisBook'
  <2>1. pc' = pc /\ UNCHANGED <<synthesis, depth>>
    BY <1>3 DEF Settle, frame, progress, report
  <2>2. Ends(Synth)' = Ends(Synth)
    BY <1>3, Kinds DEF Settle, Ends
  <2> QED BY <1>r, <2>1, <2>2, SynthesisKept DEF TakenIn
<1>4. ASSUME NEW s \in Statuses, SettleGated(s) PROVE SynthesisBook'
  <2>1. /\ pc = "run" /\ pc' \in {"record", "after"} /\ UNCHANGED <<synthesis, depth>>
        /\ st[cur] = "running"
        /\ ended' = ended \cup {[unit |-> cur, depth |-> depth, status |-> s]}
    BY <1>4 DEF SettleGated, progress, report, IInv, Phase
  <2>2. st[Synth] \in {"running", "idle"}
    BY <2>1, Kinds DEF IInv, Fresh, InGate
  <2>3. TakenIn = Ends(Synth) /\ \A e \in Ends(Synth) : e.depth < depth
    BY <1>t, <2>2, Kinds, AllTakenIn, EndedBefore
  <2>4. TakenIn' = Ends(Synth)
    <3>1. depth \in Nat
      BY DEF IInv, TypeOK
    <3> QED BY <2>1, <2>3, <3>1 DEF TakenIn, Ends
  <2> QED BY <1>r, <2>1, <2>3, <2>4, SynthesisKept
<1>5. CASE RecordChannel
  <2>1. st[Synth] = "idle" /\ UNCHANGED <<synthesis, ended, depth>>
    BY <1>5, Kinds DEF RecordChannel, IInv, Fresh, InGate
  <2> QED BY <1>k, <2>1, Kinds
<1>6. CASE EnterGate \/ Proceed \/ Skip \/ Abort
  <2>1. pc \in {"gate", "before"} /\ UNCHANGED <<synthesis, ended, depth>>
    BY <1>6 DEF EnterGate, Proceed, Skip, Abort, progress, report
  <2>2. st[Synth] = "idle"
    BY <2>1 DEF IInv, Fresh, InGate
  <2> QED BY <1>k, <2>1, <2>2, Kinds
<1>7. ASSUME UNCHANGED <<synthesis, ended, depth>>,
             pc' \in {"after", "record"} <=> pc \in {"after", "record"}
      PROVE  SynthesisBook'
  BY <1>r, <1>7, SynthesisKept DEF TakenIn, Ends
<1> QED
  BY <1>1, <1>2, <1>3, <1>4, <1>5, <1>6, <1>7, <1>r
     DEF Next, Step, Over, vars, Carry, LaunchLevel, EnterLevel, EndLevels, Decide, Finish,
         PluginThrows, HookThrows, TakeGlobal, TakeProvider, Throw, Awaited, Collect, ThrowGated,
         AfterHook, ExternalAbort, frame, progress, report

\* The verdict is drawn once, from the report that is returned.
LEMMA VerdictStep == IInv /\ Verdict /\ [Next]_vars => Verdict'
<1> SUFFICES ASSUME IInv, Verdict, [Next]_vars PROVE Verdict'
  OBVIOUS
<1>1. CASE Finish
  BY <1>1 DEF Finish, Verdict, Reported
<1>2. CASE pc = "returned"
  <2>1. \A x \in Units : st[x] \notin Active
    BY <1>2 DEF IInv, Phase
  <2>2. UNCHANGED <<pc, status, channels, synthesis>>
    BY <1>2, <2>1, Kinds
       DEF Next, Step, Over, vars, StartDepth, Carry, LaunchLevel, EnterLevel, EndLevels, Decide,
           Finish, PluginThrows, HookThrows, TakeGlobal, TakeProvider, Throw, Settle, Awaited,
           Collect, EnterGate, Proceed, Skip, Abort, SettleGated, ThrowGated, AfterHook,
           RecordChannel, RecordSynthesis, ExternalAbort, Active
  <2> QED BY <2>2 DEF Verdict, Reported
<1>3. CASE pc # "returned" /\ ~Finish
  <2>1. status' = status
    BY <1>3 DEF Next, Step, Over, vars, StartDepth, Carry, LaunchLevel, EnterLevel, EndLevels, Decide,
           PluginThrows, HookThrows, TakeGlobal, TakeProvider, Throw, Settle, Awaited,
           Collect, EnterGate, Proceed, Skip, Abort, SettleGated, ThrowGated, AfterHook,
           RecordChannel, RecordSynthesis, ExternalAbort, report
  <2> QED BY <1>3, <2>1 DEF Verdict
<1> QED BY <1>1, <1>2, <1>3

-----------------------------------------------------------------------------
(***************************************************************************)
(* The theorems about the report.                                          *)
(***************************************************************************)

ReportInv ==
  /\ Levelled /\ ParsedOfResults /\ Informed /\ Foremost /\ Ahead /\ ResultsInPlanOrder
  /\ Ended /\ Thrown /\ ChannelBook /\ RunBook /\ CarryBook /\ SynthesisBook /\ Verdict

\* A run starts with empty books.
LEMMA InitReport == Init => ReportInv
<1> SUFFICES ASSUME Init PROVE ReportInv
  OBVIOUS
<1>1. /\ pc = "depth" /\ depth = 0 /\ level = 0 /\ todo = {} /\ cur = NULL /\ done = {} /\ parsed = {}
      /\ channels = <<>> /\ synthesis = NULL /\ status = NULL /\ ended = {} /\ plan \in PlanType
      /\ \A x \in Units : st[x] = "idle" /\ runs[x] = 0
  BY PlansAssumption DEF Init
<1>2. Passed = {}
  BY <1>1 DEF Passed, CarriedAt, PlanType
<1>3. Levelled /\ Informed /\ Foremost /\ ParsedOfResults
  BY <1>1, <1>2, Kinds, SettledIsNotActive DEF Levelled, Informed, Foremost, InGate, ParsedOfResults
<1>4. Ahead /\ ResultsInPlanOrder /\ CarryBook
  BY <1>1 DEF Ahead, ResultsInPlanOrder, CarryBook
<1>5. Ended /\ Thrown /\ Verdict
  BY <1>1, Kinds DEF Ended, Thrown, Verdict
<1>6. ChannelBook
  BY <1>1 DEF ChannelBook, Recorded, Pending
<1>7. RunBook
  BY <1>1, FS_EmptySet DEF RunBook, Ends, InFlight
<1>8. SynthesisBook
  BY <1>1 DEF SynthesisBook, NewestOf, TakenIn, Ends
<1> QED BY <1>3, <1>4, <1>5, <1>6, <1>7, <1>8 DEF ReportInv

\* The invariant of the report holds in every reachable state.
THEOREM BooksBalance == Spec => []ReportInv
<1>1. IInv /\ ReportInv /\ [Next]_vars => ReportInv'
  BY LevelledStep, ParsedStep, InformedStep, ForemostStep, OrderStep, EndedStep, ThrownStep, ChannelBookStep,
     RunBookStep, CarryBookStep, SynthesisStep, VerdictStep DEF ReportInv
<1> QED BY <1>1, InitReport, InductiveInvariant, PTL DEF Spec

\* Whatever order units settle, throw or are aborted in, a channel that runs has
\* everything it depends on behind it, and in its prompt exactly what that left.
THEOREM DependenciesRunFirst == Spec => []DependencyOrder
<1>1. IInv /\ ReportInv => DependencyOrder
  BY DEF ReportInv, Levelled, Informed, Given, DependencyOrder, Active
<1> QED BY <1>1, BooksBalance, InductiveInvariant, PTL

\* The order of the results is the plan's, never that in which channels finish.
THEOREM ReportIsOrdered == Spec => []ResultsInPlanOrder
<1>1. ReportInv => ResultsInPlanOrder
  BY DEF ReportInv
<1> QED BY <1>1, BooksBalance, PTL

\* What has ended is all in the report once the run returns.
LEMMA ReturnedBooks ==
  ASSUME IInv, ReportInv, pc = "returned"
  PROVE  /\ {e \in ended : e.unit # Synth} = Recorded
         /\ \A x \in Units : runs[x] = Cardinality(Ends(x))
         /\ CarriedIn = plan.carried
         /\ NewestOf(Ends(Synth))
<1>1. Pending = {}
  BY Kinds DEF ReportInv, Levelled, Pending
<1>2. \A x \in Units : InFlight(x) = 0
  BY DEF ReportInv, Thrown, InFlight, IInv, Phase, Active
<1>3. \A x \in Units : Cardinality(Ends(x)) \in Nat
  <2>1. \A x \in Units : IsFiniteSet(Ends(x))
    BY FS_Subset DEF ReportInv, RunBook, Ends
  <2> QED BY <2>1, FS_CardinalityType
<1>4. depth > 0
  BY DEF IInv, Fresh, TypeOK
<1>5. TakenIn = Ends(Synth)
  BY DEF TakenIn, Ends
<1> QED BY <1>1, <1>2, <1>3, <1>4, <1>5 DEF ReportInv, ChannelBook, RunBook, CarryBook, SynthesisBook

\* A run that returns has lost nothing of what it executed or was resumed with.
THEOREM NoResultLost == Spec => []NothingLost
<1>1. IInv /\ ReportInv => NothingLost
  <2> SUFFICES ASSUME IInv, ReportInv, pc = "returned" PROVE NothingLost
    BY DEF NothingLost
  <2> QED BY ReturnedBooks DEF NothingLost, Recorded, CarriedIn, NewestOf, Ends
<1> QED BY <1>1, BooksBalance, InductiveInvariant, PTL

\* The verdict a run returns with is that of everything that ended in it.
THEOREM VerdictIsHonest == Spec => []HonestStatus
<1>1. IInv /\ ReportInv => HonestStatus
  <2> SUFFICES ASSUME IInv, ReportInv PROVE HonestStatus
    OBVIOUS
  <2>n. NULL \notin {"completed", "failed", "partial"}
    BY NullAssumption
  <2> SUFFICES ASSUME status # NULL PROVE HonestStatus
    BY <2>n DEF HonestStatus
  <2>1. /\ pc = "returned"
        /\ status = IF Reported # {} /\ "ok" \notin Reported THEN "failed"
                    ELSE IF Reported \subseteq {"ok"} THEN "completed" ELSE "partial"
    BY DEF ReportInv, Verdict
  <2>2. {e \in ended : e.unit # Synth} = Recorded /\ NewestOf(Ends(Synth))
    BY <2>1, ReturnedBooks
  <2>3. ASSUME NEW e \in ended, e.unit # Synth PROVE e.status \in Reported
    <3>1. PICK i \in 1..Len(channels) : e = Entry(channels[i])
      BY <2>2, <2>3 DEF Recorded
    <3> QED BY <3>1 DEF Reported, Entry
  <2>4. ASSUME NEW s \in Reported PROVE s = "ok" \/ \E e \in ended : e.status = s
    <3>1. CASE synthesis # NULL /\ s = synthesis.status
      BY <2>2, <3>1 DEF NewestOf, Ends
    <3>2. CASE \E i \in 1..Len(channels) : s = channels[i].status
      <4>1. PICK i \in 1..Len(channels) : s = channels[i].status
        BY <3>2
      <4>2. channels[i].depth \in Nat
        <5>1. channels \in Seq(Entries)
          BY DEF IInv, TypeOK, Entries
        <5>2. channels[i] \in Entries
          BY <5>1, ElementOfSeq
        <5> QED BY <5>2 DEF Entries
      <4>3. CASE channels[i].depth = 0
        BY <4>1, <4>3 DEF ReportInv, CarryBook
      <4>4. CASE channels[i].depth > 0
        <5>1. Entry(channels[i]) \in Recorded
          BY <4>4 DEF Recorded
        <5> QED BY <2>2, <4>1, <5>1 DEF Entry
      <4> QED BY <4>2, <4>3, <4>4
    <3> QED BY <3>1, <3>2 DEF Reported
  <2>5. status = "failed" => ended # {}
    BY <2>1, <2>4
  <2> QED BY <2>1, <2>3, <2>4, <2>5 DEF HonestStatus
<1> QED BY <1>1, BooksBalance, InductiveInvariant, PTL

-----------------------------------------------------------------------------
(***************************************************************************)
(* The decision trail.                                                     *)
(***************************************************************************)

Decisions == [unit : Units, depth : Nat, hook : {"before", "after"},
              decision : {"proceed", "skip", "abort", "continue", "halt"}]

\* The policies that let a unit run are finitely many.
LEMMA LetsTyped ==
  ASSUME TypeOK, NEW x, NEW d
  PROVE  IsFiniteSet(Lets(x, d)) /\ Cardinality(Lets(x, d)) \in Nat
<1>1. IsFiniteSet(1..Len(log))
  <2>1. Len(log) \in Nat
    BY DEF TypeOK
  <2> QED BY <2>1, FS_Interval
<1> QED BY <1>1, FS_Subset, FS_CardinalityType DEF Lets

\* What a decision adds to the trail.
LEMMA TrailGrows ==
  ASSUME IInv, pc \in InGate, NEW name \in {"before", "after"},
         NEW decision \in {"proceed", "skip", "abort", "continue", "halt"}, Logged(name, decision)
  PROVE  /\ Len(log') = Len(log) + 1 /\ Len(log) \in Nat
         /\ \A i \in 1..Len(log) : log'[i] = log[i]
         /\ log'[Len(log) + 1] = [unit |-> cur, depth |-> depth, hook |-> name, decision |-> decision]
         /\ 1..(Len(log) + 1) = 1..Len(log) \cup {Len(log) + 1}
BY Appended DEF IInv, TypeOK, Logged, InGate

\* Only a decision to proceed lets a unit run, and that unit alone.
LEMMA LetsGrow ==
  ASSUME IInv, pc \in InGate, NEW name \in {"before", "after"},
         NEW decision \in {"proceed", "skip", "abort", "continue", "halt"}, Logged(name, decision),
         NEW x, NEW d
  PROVE  IF x = cur /\ d = depth /\ decision = "proceed"
           THEN Cardinality(Lets(x, d)') = Cardinality(Lets(x, d)) + 1
           ELSE Lets(x, d)' = Lets(x, d)
<1> DEFINE n   == Len(log)
           new == [unit |-> cur, depth |-> depth, hook |-> name, decision |-> decision]
<1>1. /\ Len(log') = n + 1 /\ n \in Nat
      /\ \A i \in 1..n : log'[i] = log[i]
      /\ log'[n + 1] = new
      /\ 1..(n + 1) = 1..n \cup {n + 1}
  BY TrailGrows
<1>2. new.unit = cur /\ new.depth = depth /\ new.decision = decision
  OBVIOUS
<1> HIDE DEF new
<1>3. CASE x = cur /\ d = depth /\ decision = "proceed"
  <2>1. Lets(x, d)' = Lets(x, d) \cup {n + 1}
    BY <1>1, <1>2, <1>3 DEF Lets
  <2>2. n + 1 \notin Lets(x, d)
    BY <1>1 DEF Lets
  <2>3. IsFiniteSet(Lets(x, d))
    BY LetsTyped DEF IInv
  <2> QED BY <1>3, <2>1, <2>2, <2>3, FS_AddElement
<1>4. CASE ~(x = cur /\ d = depth /\ decision = "proceed")
  BY <1>1, <1>2, <1>4 DEF Lets
<1> QED BY <1>3, <1>4

\* A step that neither lets nor starts anything.
LEMMA ApprovedKept ==
  ASSUME Approved, UNCHANGED <<plan, depth, runs>>,
         \A i \in 1..Len(log') : log'[i].depth <= depth,
         \A x \in Units, d \in 1..depth : Lets(x, d)' = Lets(x, d),
         \A x \in Units : Lets(x, depth)' = Lets(x, depth),
         \A x \in Units : Began(x)' <=> Began(x),
         \A x \in Units : st'[x] = "idle" /\ ~(pc' \in {"before", "rejected"} /\ x = cur')
                            => st[x] = "idle" /\ ~(pc \in {"before", "rejected"} /\ x = cur),
         pc' # "before"
  PROVE  Approved'
BY DEF Approved

\* Every step: who runs was let through by every policy.
LEMMA ApprovedStep == IInv /\ Levelled /\ Approved /\ [Next]_vars => Approved'
<1> SUFFICES ASSUME IInv, Levelled, Approved, [Next]_vars, plan.before > 0 PROVE Approved'
  BY PlanFixed DEF Approved
<1>p. plan.before \in Nat /\ plan.after \in Nat /\ plan.sequential /\ plan.carried \subseteq Channels
  BY PlanTyped DEF IInv, PlanType, WellFormed
<1>t. /\ TypeOK /\ st \in [Units -> UnitStates] /\ depth \in Nat /\ runs \in [Units -> Nat]
      /\ log \in Seq(Decisions)
  BY DEF IInv, TypeOK, Decisions
<1>l. \A i \in 1..Len(log) : log[i].depth <= depth /\ log[i].depth \in Nat
  <2>1. \A i \in 1..Len(log) : log[i] \in Decisions
    BY <1>t, ElementOfSeq
  <2> QED BY <1>p, <2>1 DEF Decisions, Approved
<1>c. \A x, d : Cardinality(Lets(x, d)) \in Nat
  BY <1>t, LetsTyped
<1>s. UNCHANGED log => \A x, d : Lets(x, d)' = Lets(x, d)
  BY DEF Lets
<1>q. \A c \in Channels : ~TakeGlobal(c) /\ ~TakeProvider(c) /\ ~Throw(c)
      /\ \A s \in Statuses : ~Settle(c, s)
  BY <1>p, Kinds DEF TakeGlobal, TakeProvider, Throw, Settle, IInv, Phase, Active
<1>k. ASSUME UNCHANGED <<plan, depth, runs, st>>, UNCHANGED log,
             pc' # "before", pc \in {"before", "rejected"} => pc' = "rejected" /\ cur' = cur
      PROVE  Approved'
  <2>1. \A x \in Units : Began(x)' <=> Began(x)
    BY <1>k DEF Began, CarriedAt
  <2> QED BY <1>k, <1>l, <1>s, <2>1, ApprovedKept
<1>1. CASE StartDepth
  <2>1. /\ UNCHANGED <<plan, runs, log>> /\ depth' = depth + 1 /\ \A x \in Units : st'[x] = "idle"
        /\ pc' \in {"carry", "level"}
    BY <1>1 DEF StartDepth, report
  <2>2. \A x : Lets(x, depth + 1) = {}
    BY <1>l, <1>t DEF Lets
  <2>3. \A x : Cardinality(Lets(x, depth + 1)) # plan.before
    BY <1>p, <2>2, FS_EmptySet
  <2>4. \A x \in Units : {d \in 1..(depth + 1) : Cardinality(Lets(x, d)) = plan.before}
                          = {d \in 1..depth : Cardinality(Lets(x, d)) = plan.before}
    BY <1>t, <2>3
  <2>5. \A x, d : Lets(x, d)' = Lets(x, d)
    BY <2>1, <1>s
  <2>6. \A x \in Units : ~Began(x)'
    BY <2>1, Kinds DEF Began
  <2>7. \A i \in 1..Len(log') : log'[i].depth <= depth'
    BY <2>1, <1>l, <1>t
  <2> QED BY <1>p, <2>1, <2>2, <2>3, <2>4, <2>5, <2>6, <2>7 DEF Approved
<1>2. CASE Carry
  <2>1. PICK c \in todo : st' = [st EXCEPT ![c] = "ok"]
    BY <1>2 DEF Carry, First
  <2>2. /\ UNCHANGED <<plan, depth, log, runs, cur>> /\ c \in Units /\ st[c] = "idle"
        /\ c \in CarriedAt(depth) /\ pc = "carry" /\ pc' \in {"carry", "level"}
    BY <1>2, <2>1, Kinds DEF Carry, Levelled, IInv, Fresh, TypeOK
  <2>3. st'[c] = "ok" /\ \A x \in Units : x # c => st'[x] = st[x]
    BY <2>1, <2>2, <1>t
  <2>4. \A x \in Units : Began(x)' <=> Began(x)
    BY <2>2, <2>3, Kinds DEF Began, CarriedAt
  <2> QED BY <1>l, <1>s, <2>2, <2>3, <2>4, Kinds, ApprovedKept
<1>3. CASE EnterGate
  <2>1. /\ UNCHANGED <<plan, depth, log, cur>> /\ cur \in Units /\ st[cur] = "idle" /\ pc = "gate"
    BY <1>3 DEF EnterGate, progress, report, IInv, Fresh, TypeOK, InGate
  <2>2. Lets(cur, depth) = {} /\ ~Began(cur)
    BY <1>p, <2>1, Kinds DEF Approved, Began
  <2>3. CASE GoNull(cur) /\ pc' = "record"
    <3>1. UNCHANGED runs /\ st'[cur] = "null" /\ \A x \in Units : x # cur => st'[x] = st[x]
      BY <1>t, <2>1, <2>3 DEF GoNull
    <3>2. \A x \in Units : Began(x)' <=> Began(x)
      BY <2>1, <2>2, <3>1, Kinds DEF Began, CarriedAt
    <3> QED BY <1>l, <1>s, <2>1, <2>3, <3>1, <3>2, Kinds, ApprovedKept
  <2>4. CASE hook' = 1 /\ pc' = "before" /\ UNCHANGED <<st, runs>>
    <3>1. \A x \in Units : Began(x)' <=> Began(x)
      BY <2>1, <2>4 DEF Began, CarriedAt
    <3>2. \A x, d : Lets(x, d)' = Lets(x, d)
      BY <2>1, <1>s
    <3>3. Cardinality(Lets(cur, depth)) = 0 /\ 1 \in 1..plan.before
      BY <1>p, <2>2, FS_EmptySet
    <3> QED BY <1>p, <2>1, <2>4, <3>1, <3>2, <3>3 DEF Approved
  <2> QED BY <1>3, <1>p, <2>3, <2>4 DEF EnterGate
<1>4. CASE Proceed
  <2>1. /\ UNCHANGED <<plan, depth, cur>> /\ cur \in Units /\ st[cur] = "idle" /\ pc = "before"
        /\ depth # 0 /\ cur \notin CarriedAt(depth) /\ Logged("before", "proceed")
    <3>1. cur \notin CarriedAt(depth)
      BY <1>4, <1>p, Kinds DEF Proceed, IInv, Phase, Fresh, InGate, CarriedAt
    <3> QED BY <1>4, <3>1 DEF Proceed, progress, IInv, Fresh, TypeOK
  <2>2. hook \in 1..plan.before /\ Cardinality(Lets(cur, depth)) = hook - 1
    BY <1>p, <2>1 DEF Approved
  <2>3. /\ Cardinality(Lets(cur, depth)') = hook
        /\ \A x, d : x # cur \/ d # depth => Lets(x, d)' = Lets(x, d)
    BY <1>c, <2>1, <2>2, LetsGrow DEF InGate
  <2>4. \A i \in 1..Len(log') : log'[i].depth <= depth
    <3>1. /\ Len(log') = Len(log) + 1 /\ \A i \in 1..Len(log) : log'[i] = log[i]
          /\ log'[Len(log) + 1].depth = depth /\ 1..(Len(log) + 1) = 1..Len(log) \cup {Len(log) + 1}
      BY <2>1, TrailGrows DEF InGate
    <3> QED BY <1>l, <1>t, <3>1
  <2>5. CASE hook < plan.before
    <3>1. UNCHANGED <<pc, st, runs>> /\ hook' = hook + 1
      BY <1>4, <2>5 DEF Proceed
    <3>2. \A x \in Units : Began(x)' <=> Began(x)
      BY <2>1, <3>1 DEF Began, CarriedAt
    <3>3. ~Began(cur)
      BY <2>1, Kinds DEF Began
    <3>4. \A x \in Units : \A d \in 1..depth :
            Cardinality(Lets(x, d)') = plan.before <=> Cardinality(Lets(x, d)) = plan.before
      <4> SUFFICES ASSUME NEW x \in Units, NEW d \in 1..depth
                   PROVE  Cardinality(Lets(x, d)') = plan.before <=> Cardinality(Lets(x, d)) = plan.before
        OBVIOUS
      <4>1. CASE x = cur /\ d = depth
        BY <1>p, <2>1, <2>2, <2>3, <2>5, <4>1
      <4>2. CASE ~(x = cur /\ d = depth)
        BY <2>3, <4>2
      <4> QED BY <4>1, <4>2
    <3>5. \A x \in Units : {d \in 1..depth : Cardinality(Lets(x, d)') = plan.before}
                          = {d \in 1..depth : Cardinality(Lets(x, d)) = plan.before}
      BY <3>4
    <3>6. hook' \in 1..plan.before /\ Cardinality(Lets(cur, depth)') = hook' - 1
      BY <1>p, <2>2, <2>3, <2>5, <3>1
    <3>7. \A x \in Units : Began(x) <=> Cardinality(Lets(x, depth)') = plan.before
      <4>1. depth \in 1..depth /\ depth' = depth
        BY <1>t, <2>1
      <4>2. \A x \in Units : Began(x) <=> Cardinality(Lets(x, depth)) = plan.before
        BY DEF Approved
      <4> QED BY <3>4, <4>1, <4>2
    <3>8. \A x \in Units : st[x] = "idle" /\ x # cur => Lets(x, depth)' = {}
      BY <1>p, <2>1, <2>3 DEF Approved
    <3> QED BY <1>p, <2>1, <2>4, <3>1, <3>2, <3>5, <3>6, <3>7, <3>8 DEF Approved
  <2>6. CASE ~(hook < plan.before)
    <3>1. hook = plan.before /\ Start(cur) /\ pc' = "run"
      BY <1>4, <1>p, <2>2, <2>6 DEF Proceed
    <3>2. /\ runs'[cur] = runs[cur] + 1 /\ st'[cur] = "running"
          /\ \A x \in Units : x # cur => runs'[x] = runs[x] /\ st'[x] = st[x]
      BY <1>t, <2>1, <3>1 DEF Start
    <3>3. \A x \in Units : Began(x)' <=> Began(x) \/ x = cur
      BY <2>1, <3>2 DEF Began, CarriedAt
    <3> DEFINE Had(x) == {d \in 1..depth : Cardinality(Lets(x, d)) = plan.before}
               Has(x) == {d \in 1..depth : Cardinality(Lets(x, d)') = plan.before}
    <3>4. \A x \in Units : x # cur => Has(x) = Had(x)
      BY <2>3
    <3>5. Has(cur) = Had(cur) \cup {depth} /\ depth \notin Had(cur)
      BY <1>t, <1>p, <2>1, <2>2, <2>3, <3>1
    <3>6. IsFiniteSet(Had(cur))
      <4>1. IsFiniteSet(1..depth)
        BY <1>t, FS_Interval
      <4>2. Had(cur) \subseteq 1..depth
        OBVIOUS
      <4> QED BY <4>1, <4>2, FS_Subset
    <3>7. Cardinality(Has(cur)) = Cardinality(Had(cur)) + 1
      BY <3>5, <3>6, FS_AddElement
    <3>8. \A x \in Units : runs'[x] = Cardinality(Has(x))
      <4>1. \A x \in Units : runs[x] = Cardinality(Had(x))
        BY <1>p DEF Approved
      <4> HIDE DEF Had, Has
      <4> QED BY <2>1, <3>2, <3>4, <3>7, <4>1
    <3>9. \A x \in Units : Began(x)' <=> Cardinality(Lets(x, depth)') = plan.before
      <4> SUFFICES ASSUME NEW x \in Units
                   PROVE  Began(x)' <=> Cardinality(Lets(x, depth)') = plan.before
        OBVIOUS
      <4>1. CASE x = cur
        BY <2>1, <2>3, <3>1, <3>3, <4>1
      <4>2. CASE x # cur
        <5>1. Began(x) <=> Cardinality(Lets(x, depth)) = plan.before
          BY <1>p DEF Approved
        <5> QED BY <2>1, <2>3, <3>3, <4>2, <5>1
      <4> QED BY <4>1, <4>2
    <3>10. \A x \in Units : st'[x] = "idle" => Lets(x, depth)' = {}
      BY <1>p, <2>1, <2>3, <3>2, Kinds DEF Approved
    <3> QED BY <1>p, <2>1, <2>4, <3>1, <3>8, <3>9, <3>10 DEF Approved
  <2> QED BY <2>5, <2>6
<1>5. CASE Skip \/ Abort
  <2>1. /\ UNCHANGED <<plan, depth, cur, runs>> /\ cur \in Units /\ st[cur] = "idle" /\ pc = "before"
        /\ GoNull(cur) /\ pc' = "record"
        /\ \E decision \in {"skip", "abort"} : Logged("before", decision)
    BY <1>5 DEF Skip, Abort, GoNull, progress, IInv, Phase, Fresh, TypeOK, InGate
  <2>2. PICK decision \in {"skip", "abort"} : Logged("before", decision)
    BY <2>1
  <2>3. \A x, d : Lets(x, d)' = Lets(x, d)
    BY <2>1, <2>2, LetsGrow DEF InGate
  <2>4. \A i \in 1..Len(log') : log'[i].depth <= depth
    <3>1. /\ Len(log') = Len(log) + 1 /\ \A i \in 1..Len(log) : log'[i] = log[i]
          /\ log'[Len(log) + 1].depth = depth /\ 1..(Len(log) + 1) = 1..Len(log) \cup {Len(log) + 1}
      BY <2>1, <2>2, TrailGrows DEF InGate
    <3> QED BY <1>l, <1>t, <3>1
  <2>5. st'[cur] = "null" /\ \A x \in Units : x # cur => st'[x] = st[x]
    BY <1>t, <2>1 DEF GoNull
  <2>6. \A x \in Units : Began(x)' <=> Began(x)
    BY <2>1, <2>5, Kinds DEF Began, CarriedAt
  <2> QED BY <2>1, <2>3, <2>4, <2>5, <2>6, ApprovedKept
<1>6. ASSUME NEW verdict \in {"continue", "halt"}, AfterHook(verdict) PROVE Approved'
  <2>1. /\ UNCHANGED <<plan, depth, cur, runs, st>> /\ pc = "after" /\ pc' \in {"after", "record"}
        /\ Logged("after", verdict) /\ cur \in Units
    BY <1>6 DEF AfterHook, progress, IInv, TypeOK
  <2>2. \A x, d : Lets(x, d)' = Lets(x, d)
    BY <2>1, LetsGrow DEF InGate
  <2>3. \A i \in 1..Len(log') : log'[i].depth <= depth
    <3>1. /\ Len(log') = Len(log) + 1 /\ \A i \in 1..Len(log) : log'[i] = log[i]
          /\ log'[Len(log) + 1].depth = depth /\ 1..(Len(log) + 1) = 1..Len(log) \cup {Len(log) + 1}
      BY <2>1, TrailGrows DEF InGate
    <3> QED BY <1>l, <1>t, <3>1
  <2>4. \A x \in Units : Began(x)' <=> Began(x)
    BY <2>1 DEF Began, CarriedAt
  <2> QED BY <2>1, <2>2, <2>3, <2>4, ApprovedKept
<1>7. ASSUME NEW s \in Statuses \cup {"thrown"}, pc = "run", st' = [st EXCEPT ![cur] = s],
             UNCHANGED <<plan, depth, runs, log, cur>>, pc' \in {"record", "after", "rejected"}
      PROVE  Approved'
  <2>1. cur \in Units /\ st[cur] = "running" /\ cur \notin CarriedAt(depth)
    BY <1>7, <1>p, Kinds DEF IInv, Phase, Fresh, TypeOK, InGate, CarriedAt
  <2>2. st'[cur] = s /\ \A x \in Units : x # cur => st'[x] = st[x]
    BY <1>t, <1>7, <2>1
  <2>3. \A x \in Units : Began(x)' <=> Began(x)
    BY <1>7, <2>1, <2>2 DEF Began, CarriedAt
  <2> QED BY <1>l, <1>s, <1>7, <2>2, <2>3, Kinds, ApprovedKept
<1>8. ASSUME NEW s \in Statuses, SettleGated(s) PROVE Approved'
  BY <1>7, <1>8 DEF SettleGated, progress, report
<1>9. CASE ThrowGated
  BY <1>7, <1>9 DEF ThrowGated, progress, report
<1>10. CASE UNCHANGED vars \/ ExternalAbort
  <2>1. UNCHANGED <<plan, pc, depth, runs, st, cur, hook, log>>
    BY <1>10 DEF vars, ExternalAbort, progress, report
  <2>2. \A x, d : Lets(x, d)' = Lets(x, d)
    BY <1>s, <2>1
  <2>3. \A x \in Units : Began(x)' <=> Began(x)
    BY <2>1 DEF Began, CarriedAt
  <2> QED BY <2>1, <2>2, <2>3 DEF Approved
<1> QED
  BY <1>1, <1>2, <1>3, <1>4, <1>5, <1>6, <1>8, <1>9, <1>10, <1>q, <1>p, <1>k
     DEF Next, Step, Over, LaunchLevel, EnterLevel, EndLevels, Decide, Finish,
         PluginThrows, HookThrows, Awaited, Collect, RecordChannel, RecordSynthesis, frame, progress,
         report

\* A decision recorded while nothing has stopped the run.
LEMMA LastWordGrows ==
  ASSUME IInv, Stopped, LastWord, pc \in InGate, cur' = cur, depth' = depth,
         NEW name \in {"before", "after"},
         NEW decision \in {"proceed", "skip", "abort", "continue", "halt"}, Logged(name, decision),
         (pc = "after" /\ name = "after") \/ ~halted,
         decision \in {"abort", "halt"} => halted', halted => halted',
         decision = "abort" => pc' # "after", pc' = "after" => pc = "after"
  PROVE  Stopped' /\ LastWord'
<1> DEFINE n   == Len(log)
           new == [unit |-> cur, depth |-> depth, hook |-> name, decision |-> decision]
<1>1. /\ Len(log') = n + 1 /\ n \in Nat
      /\ \A i \in 1..n : log'[i] = log[i]
      /\ log'[n + 1] = new
      /\ 1..(n + 1) = 1..n \cup {n + 1}
  BY TrailGrows
<1>2. new.unit = cur /\ new.depth = depth /\ new.decision = decision /\ new.hook = name
  OBVIOUS
<1> HIDE DEF new
<1>3. Stopped'
  BY <1>1, <1>2 DEF Stopped
<1>4. ASSUME NEW i \in 1..n
      PROVE  /\ log[i].decision # "abort"
             /\ log[i].decision = "halt" =>
                  new.unit = log[i].unit /\ new.hook = "after" /\ new.depth = log[i].depth
  BY <1>2 DEF Stopped
<1>5. ASSUME NEW i \in 1..(n + 1), NEW j \in 1..(n + 1), i < j
      PROVE  /\ log'[i].decision # "abort"
             /\ log'[i].decision = "halt" =>
                  log'[j].unit = log'[i].unit /\ log'[j].hook = "after" /\ log'[j].depth = log'[i].depth
  <2>1. i \in 1..n
    BY <1>1, <1>5
  <2>2. CASE j \in 1..n
    BY <1>1, <1>5, <2>1, <2>2 DEF LastWord
  <2>3. CASE j = n + 1
    BY <1>1, <1>4, <2>1, <2>3
  <2> QED BY <1>1, <2>2, <2>3
<1> QED BY <1>1, <1>3, <1>5 DEF LastWord

\* Every step: a decision that stops the run is the last of its kind in the trail.
LEMMA LastWordStep == IInv /\ Stopped /\ LastWord /\ [Next]_vars => Stopped' /\ LastWord'
<1> SUFFICES ASSUME IInv, Stopped, LastWord, [Next]_vars PROVE Stopped' /\ LastWord'
  OBVIOUS
<1>1. CASE Proceed
  <2>1. pc = "before" /\ ~halted /\ UNCHANGED <<halted, cur, depth>> /\ pc' # "after"
         /\ Logged("before", "proceed")
    BY <1>1 DEF Proceed, progress, IInv, Phase
  <2> QED BY <2>1, LastWordGrows DEF InGate
<1>2. CASE Skip
  <2>1. pc = "before" /\ ~halted /\ UNCHANGED <<halted, cur, depth>> /\ pc' # "after"
         /\ Logged("before", "skip")
    BY <1>2 DEF Skip, progress, IInv, Phase
  <2> QED BY <2>1, LastWordGrows DEF InGate
<1>3. CASE Abort
  <2>1. pc = "before" /\ ~halted /\ halted' /\ UNCHANGED <<cur, depth>> /\ pc' # "after"
         /\ Logged("before", "abort")
    BY <1>3 DEF Abort, progress, IInv, Phase
  <2> QED BY <2>1, LastWordGrows DEF InGate
<1>4. ASSUME NEW verdict \in {"continue", "halt"}, AfterHook(verdict) PROVE Stopped' /\ LastWord'
  <2>1. /\ pc = "after" /\ UNCHANGED <<cur, depth>> /\ Logged("after", verdict)
        /\ halted' = (halted \/ verdict = "halt")
    BY <1>4 DEF AfterHook, progress
  <2> QED BY <2>1, LastWordGrows DEF InGate
<1>5. ASSUME UNCHANGED log, halted => halted', pc' # "after" \/ ~halted PROVE Stopped' /\ LastWord'
  BY <1>5 DEF Stopped, LastWord
<1>6. ASSUME UNCHANGED <<log, halted, pc, cur, depth>> PROVE Stopped' /\ LastWord'
  BY <1>6 DEF Stopped, LastWord
<1>7. ASSUME NEW s \in Statuses, SettleGated(s) PROVE UNCHANGED <<log, halted>> /\ ~halted
  BY <1>7 DEF SettleGated, report, IInv, Phase
<1> QED
  BY <1>1, <1>2, <1>3, <1>4, <1>5, <1>6, <1>7
     DEF Next, Step, Over, vars, StartDepth, Carry, LaunchLevel, EnterLevel, EndLevels, Decide, Finish,
         PluginThrows, HookThrows, TakeGlobal, TakeProvider, Throw, Settle, Awaited, Collect,
         EnterGate, ThrowGated, RecordChannel, RecordSynthesis, ExternalAbort, frame, progress, report

TrailInv == Approved /\ Stopped /\ LastWord

\* The trail is right: a unit is executed at a depth exactly when every policy has
\* let it proceed there, and nothing but the halted unit's other hooks follows a
\* decision that stops the run.
THEOREM TrailTellsAll == Spec => []DecisionTrail
<1>1. Init => TrailInv
  <2> SUFFICES ASSUME Init PROVE TrailInv
    OBVIOUS
  <2>1. log = <<>> /\ depth = 0 /\ pc = "depth" /\ \A x \in Units : st[x] = "idle" /\ runs[x] = 0
    BY DEF Init
  <2>2. \A x, d : Lets(x, d) = {}
    BY <2>1 DEF Lets
  <2>3. Cardinality({}) = 0
    BY FS_EmptySet
  <2>4. \A x \in Units : {d \in 1..depth : Cardinality(Lets(x, d)) = plan.before} = {} /\ ~Began(x)
    BY <2>1, Kinds DEF Began
  <2>5. plan.before > 0 => plan.before # 0
    BY PlansAssumption DEF Init, PlanType
  <2> QED BY <2>1, <2>2, <2>3, <2>4, <2>5 DEF TrailInv, Approved, Stopped, LastWord
<1>2. IInv /\ ReportInv /\ TrailInv /\ [Next]_vars => TrailInv'
  BY ApprovedStep, LastWordStep DEF TrailInv, ReportInv
<1>3. TrailInv => DecisionTrail
  BY DEF TrailInv, Approved, LastWord, Lets, DecisionTrail
<1> QED BY <1>1, <1>2, <1>3, BooksBalance, InductiveInvariant, PTL DEF Spec
=============================================================================
