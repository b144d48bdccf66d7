------------------------ MODULE ChannelExecutorProofs ------------------------
(***************************************************************************)
(* ChannelExecutor proved for every set of configurations: the invariants  *)
(* its run checks, and that it implements ChannelContract step by step.    *)
(***************************************************************************)
EXTENDS ChannelExecutor, TLAPS

\* Multiplication by a natural number is monotonic.
LEMMA TimesMonotonic ==
  ASSUME NEW a \in Nat, NEW b \in Nat, NEW k \in Nat, a <= b
  PROVE  a * k <= b * k
<1>1. PICK d \in Nat : b = a + d
  <2>1. b - a \in Nat /\ b = a + (b - a)
    OBVIOUS
  <2> QED BY <2>1
<1>2. b * k = a * k + d * k
  BY <1>1
<1>3. d * k \in Nat /\ a * k \in Nat
  OBVIOUS
<1> QED BY <1>2, <1>3

\* CallsIn is a natural number, grows by one try's calls and is monotonic.
LEMMA CallsInFacts ==
  ASSUME NEW n \in Nat, NEW m \in Nat
  PROVE  /\ CallsIn(n, m) \in Nat
         /\ CallsIn(n + 1, m) = CallsIn(n, m) + m + 1
         /\ \A k \in Nat : n <= k => CallsIn(n, m) <= CallsIn(k, m)
<1>1. m + 1 \in Nat /\ n * (m + 1) \in Nat /\ (n + 1) * (m + 1) = n * (m + 1) + (m + 1)
  OBVIOUS
<1>2. \A k \in Nat : n <= k => n * (m + 1) <= k * (m + 1)
  BY <1>1, TimesMonotonic
<1> QED BY <1>1, <1>2 DEF CallsIn

-----------------------------------------------------------------------------
\* A catch block keeps attempts and base well typed and goes to sleep or done.
LEMMA CatchTypes ==
  ASSUME TypeOK, NEW cond \in Transients, NEW b, Catch(cond, b),
         b \in BaseType
  PROVE  /\ attempts' \in Seq([kind : Kinds, status : Statuses])
         /\ base' \in BaseType
         /\ pc' \in {"sleep", "done"}
<1>1. FailureStatus(cond) \in Statuses
  BY DEF FailureStatus, Statuses
<1>2. attempts' \in Seq([kind : Kinds, status : Statuses])
  BY <1>1 DEF Catch, Attempted, TypeOK, Kinds
<1>3. base' \in BaseType
  BY <1>1 DEF Catch, BaseType
<1> QED BY <1>2, <1>3 DEF Catch

\* An answer, whatever the provider sent, is given a status.
LEMMA OutcomeTyped ==
  ASSUME NEW a \in Answers
  PROVE  OutcomeToStatus(a) \in Outcomes
BY DEF Answers, OutcomeToStatus, Outcomes

\* The channel's variables keep their types in every reachable state.
THEOREM TypeCorrect == Spec => []TypeOK
<1>1. Init => TypeOK
  BY DEF Init, TypeOK, EmptyBase, BaseType, Statuses, Outcomes
<1>2. TypeOK /\ [Next]_vars => TypeOK'
  <2> SUFFICES ASSUME TypeOK, [Next]_vars PROVE TypeOK'
    OBVIOUS
  <2> USE DEF TypeOK
  <2>0. CallKind \in Kinds
    BY DEF CallKind, Kinds
  <2>1. ASSUME NEW a \in Answers, CallAnswered(a) PROVE TypeOK'
    <3>1. OutcomeToStatus(a) \in Statuses /\ OutcomeToStatus(a) \in CallReplies
      BY OutcomeTyped DEF Statuses, CallReplies
    <3>2. attempts' \in Seq([kind : Kinds, status : Statuses])
      BY <2>0, <2>1, <3>1 DEF CallAnswered, Attempted
    <3>3. calls' \in Seq([kind : Kinds, reply : CallReplies])
      BY <2>0, <2>1, <3>1 DEF CallAnswered, Called
    <3> QED BY <2>1, <3>2, <3>3 DEF CallAnswered
  <2>2. ASSUME NEW cond \in Transients, CallThrows(cond) PROVE TypeOK'
    <3>1. calls' \in Seq([kind : Kinds, reply : CallReplies])
      BY <2>0, <2>2 DEF CallThrows, Called, CallReplies
    <3> QED BY <2>2, <3>1, CatchTypes DEF CallThrows
  <2>3. ASSUME ValidatorThrows PROVE TypeOK'
    <3>1. calls' \in Seq([kind : Kinds, reply : CallReplies])
      BY <2>0, <2>3 DEF ValidatorThrows, Called, CallReplies
    <3>2. "provider_error" \in Transients
      BY DEF Transients
    <3> QED BY <2>3, <3>1, <3>2, CatchTypes DEF ValidatorThrows
  <2>4. ASSUME Sleep PROVE TypeOK'
    BY <2>4 DEF Sleep
  <2>5. RepairsNoted \in BaseType
    BY DEF RepairsNoted, BaseType
  <2>6. ASSUME SaveRaw PROVE TypeOK'
    <3>1. OutcomeToStatus(last) \in Statuses
      BY <2>6, OutcomeTyped DEF SaveRaw, Statuses
    <3>2. base' \in BaseType
      BY <2>5, <2>6, <3>1 DEF SaveRaw, BaseType
    <3> QED BY <2>6, <3>2 DEF SaveRaw
  <2>7. ASSUME NEW cond \in Transients, SaveThrows(cond) PROVE TypeOK'
    BY <2>5, <2>7, CatchTypes DEF SaveThrows
  <2>8. CASE Returned
    BY <2>8 DEF Returned, vars
  <2>9. CASE UNCHANGED vars
    BY <2>9 DEF vars
  <2> QED BY <2>1, <2>2, <2>3, <2>4, <2>6, <2>7, <2>8, <2>9 DEF Next
<1> QED BY <1>1, <1>2, PTL DEF Spec

-----------------------------------------------------------------------------
\* The numbers of a config are naturals, and so are the bounds made of them.
LEMMA ConfigNumbers ==
  ASSUME TypeOK
  PROVE  /\ cfg.retryAttempts \in Nat /\ cfg.maxRepairs \in Nat
         /\ Len(calls) \in Nat /\ Earlier \in Nat
<1>1. cfg.retryAttempts \in Nat /\ cfg.maxRepairs \in Nat
  BY ConfigsAssumption DEF TypeOK, ConfigType
<1>2. CallsIn(retryIndex, cfg.maxRepairs) \in Nat
  BY <1>1, CallsInFacts DEF TypeOK
<1>3. Len(calls) \in Nat
  BY DEF TypeOK
<1> QED BY <1>1, <1>2, <1>3 DEF Earlier

\* A try that fails, on a provider call or on the store, leaves the call count
\* within the tries taken so far.
LEMMA CatchAccounted ==
  ASSUME TypeOK, CallsAccounted, NEW cond, NEW b, Catch(cond, b),
         UNCHANGED <<cfg, retryIndex, repairs>>,
         Len(calls') <= Earlier + cfg.maxRepairs + 1
  PROVE  CallsAccounted'
<1>1. pc' \in {"sleep", "done"} /\ (pc' = "sleep" => retryIndex < cfg.retryAttempts)
  BY DEF Catch
<1>2. Earlier' = Earlier
  BY DEF Earlier
<1> QED BY <1>1, <1>2 DEF CallsAccounted

\* One more provider call is within the budget of this try.
LEMMA CallWithinTry ==
  ASSUME TypeOK, CallsAccounted, pc \in {"call", "repair"}, NEW kind, NEW reply,
         Called(kind, reply)
  PROVE  /\ Len(calls') = Len(calls) + 1
         /\ Len(calls') <= Earlier + repairs + 1
         /\ Len(calls') <= Earlier + cfg.maxRepairs + 1
<1>1. Len(calls) \in Nat /\ Len(calls') = Len(calls) + 1
  BY DEF Called, TypeOK
<1>2. Len(calls) <= Earlier + repairs /\ repairs <= cfg.maxRepairs
  BY <1>1, ConfigNumbers DEF CallsAccounted, TypeOK
<1> QED BY <1>1, <1>2, ConfigNumbers DEF TypeOK

\* The call count stays within the tries taken: CallsAccounted is inductive.
LEMMA AccountedStep ==
  ASSUME TypeOK, CallsAccounted, [Next]_vars
  PROVE  CallsAccounted'
<1> USE DEF TypeOK
<1>0. Len(calls) <= Earlier + cfg.maxRepairs + 1 /\ repairs <= cfg.maxRepairs
  BY DEF CallsAccounted
<1>1. ASSUME NEW a \in Answers, CallAnswered(a) PROVE CallsAccounted'
  <2>1. Len(calls') <= Earlier + repairs + 1 /\ Earlier' = Earlier
    BY <1>1, CallWithinTry DEF CallAnswered, Earlier
  <2>2. Len(calls') <= Earlier + cfg.maxRepairs + 1
    BY <1>0, <2>1, <1>1, CallWithinTry DEF CallAnswered
  <2>3. CASE WantsRepair(a, repairs)
    <3>1. pc' = "repair" /\ repairs' = repairs + 1 /\ repairs < cfg.maxRepairs
      BY <1>1, <2>3 DEF CallAnswered, WantsRepair
    <3> QED BY <1>1, <2>1, <2>2, <3>1, ConfigNumbers DEF CallAnswered, CallsAccounted
  <2>4. CASE ~WantsRepair(a, repairs)
    BY <1>1, <2>1, <2>2, <2>4 DEF CallAnswered, CallsAccounted
  <2> QED BY <2>3, <2>4
<1>2. ASSUME NEW cond \in Transients, CallThrows(cond) PROVE CallsAccounted'
  BY <1>2, CallWithinTry, CatchAccounted DEF CallThrows
<1>3. ASSUME ValidatorThrows PROVE CallsAccounted'
  BY <1>3, CallWithinTry, CatchAccounted DEF ValidatorThrows
<1>4. ASSUME Sleep PROVE CallsAccounted'
  <2>1. Earlier' = Earlier + cfg.maxRepairs + 1
    BY <1>4, ConfigNumbers, CallsInFacts DEF Sleep, Earlier
  <2>2. retryIndex' <= cfg.retryAttempts
    BY <1>4, ConfigNumbers DEF Sleep, CallsAccounted
  <2> QED BY <1>0, <1>4, <2>1, <2>2, ConfigNumbers DEF Sleep, CallsAccounted
<1>5. CASE SaveRaw
  BY <1>0, <1>5 DEF SaveRaw, CallsAccounted, Earlier
<1>6. ASSUME NEW cond \in Transients, SaveThrows(cond) PROVE CallsAccounted'
  BY <1>0, <1>6, CatchAccounted DEF SaveThrows
<1>7. CASE UNCHANGED vars
  BY <1>7 DEF vars, CallsAccounted, Earlier
<1> QED BY <1>1, <1>2, <1>3, <1>4, <1>5, <1>6, <1>7 DEF Next, Returned

-----------------------------------------------------------------------------
\* What a catch block does to the answer in hand, for a base that carries none.
LEMMA CatchAnswer ==
  ASSUME TypeOK, CallsAccounted, NEW cond \in Transients, NEW b \in BaseType, Catch(cond, b),
         b.rawOutputRef = FALSE, b.schemaValid = FALSE, Len(calls') > 0,
         raw' = 0, UNCHANGED <<cfg, retryIndex, repairs>>
  PROVE  AnswerInHand' /\ ResultIsLastAnswer' /\ GivesUpOnlyWhenSpent'
<1>1. cfg.retryAttempts \in Nat /\ retryIndex \in Nat /\ retryIndex <= cfg.retryAttempts
  BY ConfigNumbers DEF TypeOK, CallsAccounted
<1>2. CASE pc' = "sleep"
  BY <1>2 DEF Catch, AnswerInHand, ResultIsLastAnswer, GivesUpOnlyWhenSpent
<1>3. CASE pc' = "done"
  <2>1. /\ base' = [b EXCEPT !.status = FailureStatus(cond)]
        /\ cond \notin cfg.retryOn \/ retryIndex = cfg.retryAttempts
    BY <1>1, <1>3 DEF Catch
  <2>2. /\ base'.rawOutputRef = FALSE /\ base'.schemaValid = FALSE
        /\ base'.status = FailureStatus(cond)
    BY <2>1 DEF BaseType
  <2>3. base'.status \in {"timeout", "error"}
        /\ (base'.status = "timeout" => cond = "timeout")
        /\ (base'.status = "error" => cond = "provider_error")
    BY <2>2 DEF FailureStatus, Transients
  <2>4. AnswerInHand'
    BY <1>3, <2>2, <2>3 DEF AnswerInHand, Outcomes
  <2>5. GivesUpOnlyWhenSpent'
    BY <1>3, <2>1, <2>3 DEF GivesUpOnlyWhenSpent, Repairables
  <2> QED BY <2>2, <2>4, <2>5 DEF ResultIsLastAnswer
<1> QED BY <1>2, <1>3 DEF Catch

\* The conjuncts of the inductive invariant beside the call count are kept by
\* every step.
LEMMA AnswerStep ==
  ASSUME IInv, TypeOK', [Next]_vars
  PROVE  AnswerInHand' /\ RepairOnlyAfterRepairable' /\ ResultIsLastAnswer'
         /\ GivesUpOnlyWhenSpent'
<1> USE DEF IInv
<1>0. ASSUME NEW reply, Called(CallKind, reply), pc \in {"call", "repair"}, UNCHANGED cfg
      PROVE  /\ RepairOnlyAfterRepairable'
             /\ Len(calls') > 0 /\ calls'[Len(calls')].reply = reply
  <2>1. calls \in Seq([kind : Kinds, reply : CallReplies])
    BY DEF TypeOK
  <2>2. /\ Len(calls') = Len(calls) + 1 /\ Len(calls) \in Nat
        /\ calls'[Len(calls) + 1] = [kind |-> CallKind, reply |-> reply]
        /\ \A i \in 1..Len(calls) : calls'[i] = calls[i]
    BY <1>0, <2>1 DEF Called
  <2>3. CallKind = "repair" => pc = "repair"
    BY DEF CallKind
  <2>4. CallKind = "repair" => Len(calls) > 0 /\ calls[Len(calls)].reply \in cfg.repairOn
    BY <2>3 DEF AnswerInHand
  <2>5. ASSUME NEW i \in 1..Len(calls'), calls'[i].kind = "repair"
        PROVE  i > 1 /\ calls'[i - 1].reply \in cfg.repairOn
    <3>1. CASE i \in 1..Len(calls)
      BY <2>2, <2>5, <3>1 DEF RepairOnlyAfterRepairable
    <3>2. CASE i = Len(calls) + 1
      <4>1. CallKind = "repair"
        BY <2>2, <2>5, <3>2
      <4> QED BY <2>2, <2>4, <3>2, <4>1
    <3> QED BY <2>2, <3>1, <3>2
  <2> QED BY <1>0, <2>2, <2>5 DEF RepairOnlyAfterRepairable
<1>1. ASSUME NEW a \in Answers, CallAnswered(a)
      PROVE  AnswerInHand' /\ RepairOnlyAfterRepairable' /\ ResultIsLastAnswer'
             /\ GivesUpOnlyWhenSpent'
  <2>1. /\ RepairOnlyAfterRepairable'
        /\ Len(calls') > 0 /\ calls'[Len(calls')].reply = OutcomeToStatus(a)
    BY <1>0, <1>1 DEF CallAnswered
  <2>2. raw' = 0 /\ base'.rawOutputRef = FALSE /\ base'.schemaValid = FALSE
    BY <1>1 DEF CallAnswered, AnswerInHand
  <2>3. CASE WantsRepair(a, repairs)
    <3>1. OutcomeToStatus(a) \in cfg.repairOn
      BY <2>3 DEF WantsRepair, OutcomeToStatus
    <3>2. pc' = "repair" /\ cfg' = cfg
      BY <1>1, <2>3 DEF CallAnswered
    <3> QED BY <2>1, <2>2, <3>1, <3>2 DEF AnswerInHand, ResultIsLastAnswer, GivesUpOnlyWhenSpent
  <2>4. CASE ~WantsRepair(a, repairs)
    <3>1. pc' = "save" /\ cfg' = cfg /\ last' = a /\ repairs' = repairs
      BY <1>1, <2>4 DEF CallAnswered
    <3>2. ~WantsRepair(last, repairs)'
      BY <2>4, <3>1 DEF WantsRepair
    <3> QED BY <2>1, <2>2, <3>1, <3>2 DEF AnswerInHand, ResultIsLastAnswer, GivesUpOnlyWhenSpent
  <2> QED BY <2>3, <2>4
<1>2. pc # "done" => base \in BaseType /\ base.rawOutputRef = FALSE /\ base.schemaValid = FALSE
                     /\ raw = 0
  BY DEF TypeOK, AnswerInHand
<1>3. ASSUME NEW cond \in Transients, CallThrows(cond)
      PROVE  AnswerInHand' /\ RepairOnlyAfterRepairable' /\ ResultIsLastAnswer'
             /\ GivesUpOnlyWhenSpent'
  BY <1>0, <1>2, <1>3, CatchAnswer DEF CallThrows
<1>4. ASSUME ValidatorThrows
      PROVE  AnswerInHand' /\ RepairOnlyAfterRepairable' /\ ResultIsLastAnswer'
             /\ GivesUpOnlyWhenSpent'
  <2>1. "provider_error" \in Transients
    BY DEF Transients
  <2> QED BY <1>0, <1>2, <1>4, <2>1, CatchAnswer DEF ValidatorThrows
<1>5. ASSUME Sleep
      PROVE  AnswerInHand' /\ RepairOnlyAfterRepairable' /\ ResultIsLastAnswer'
             /\ GivesUpOnlyWhenSpent'
  BY <1>2, <1>5 DEF Sleep, AnswerInHand, RepairOnlyAfterRepairable, ResultIsLastAnswer,
                    GivesUpOnlyWhenSpent
<1>6. ASSUME SaveRaw
      PROVE  AnswerInHand' /\ RepairOnlyAfterRepairable' /\ ResultIsLastAnswer'
             /\ GivesUpOnlyWhenSpent'
  <2>1. /\ last \in Answers /\ Len(calls) > 0
        /\ calls[Len(calls)].reply = OutcomeToStatus(last)
        /\ ~WantsRepair(last, repairs)
    BY <1>6 DEF SaveRaw, TypeOK, AnswerInHand
  <2>2. OutcomeToStatus(last) \in Outcomes
    BY <2>1, OutcomeTyped
  <2>3. RepairsNoted \in BaseType
    BY DEF RepairsNoted, BaseType, TypeOK
  <2>4. /\ base'.status = OutcomeToStatus(last)
        /\ base'.schemaValid = (OutcomeToStatus(last) = "ok")
        /\ base'.rawOutputRef = TRUE
    BY <1>6, <2>3 DEF SaveRaw, BaseType
  <2>5. AnswerInHand'
    BY <1>6, <2>1, <2>2, <2>4 DEF SaveRaw, AnswerInHand
  <2>6. ResultIsLastAnswer'
    BY <1>6, <2>1, <2>4 DEF SaveRaw, ResultIsLastAnswer
  <2>7. OutcomeToStatus(last) \in Repairables /\ OutcomeToStatus(last) \in cfg.repairOn
          => repairs = cfg.maxRepairs
    <3>1. OutcomeToStatus(last) \in Repairables =>
            ~last.refused /\ last.parse # "valid" /\ OutcomeToStatus(last) = last.parse
      BY DEF OutcomeToStatus, Repairables
    <3>2. repairs \in Nat /\ cfg.maxRepairs \in Nat /\ repairs <= cfg.maxRepairs
      BY ConfigNumbers DEF TypeOK, CallsAccounted
    <3> QED BY <2>1, <3>1, <3>2 DEF WantsRepair
  <2>8. GivesUpOnlyWhenSpent'
    BY <1>6, <2>2, <2>4, <2>7 DEF SaveRaw, GivesUpOnlyWhenSpent, Outcomes
  <2> QED BY <1>6, <2>5, <2>6, <2>8 DEF SaveRaw, RepairOnlyAfterRepairable
<1>7. ASSUME NEW cond \in Transients, SaveThrows(cond)
      PROVE  AnswerInHand' /\ RepairOnlyAfterRepairable' /\ ResultIsLastAnswer'
             /\ GivesUpOnlyWhenSpent'
  <2>1. /\ RepairsNoted \in BaseType
        /\ RepairsNoted.rawOutputRef = FALSE /\ RepairsNoted.schemaValid = FALSE
    BY <1>2, <1>7 DEF SaveThrows, RepairsNoted, BaseType
  <2>2. raw' = 0 /\ Len(calls') > 0
    BY <1>2, <1>7 DEF SaveThrows, AnswerInHand
  <2>3. AnswerInHand' /\ ResultIsLastAnswer' /\ GivesUpOnlyWhenSpent'
    BY <1>7, <2>1, <2>2, CatchAnswer DEF SaveThrows
  <2> QED BY <1>7, <2>3 DEF SaveThrows, RepairOnlyAfterRepairable
<1>8. CASE UNCHANGED vars
  BY <1>8 DEF vars, AnswerInHand, RepairOnlyAfterRepairable, ResultIsLastAnswer,
              GivesUpOnlyWhenSpent, WantsRepair
<1> QED BY <1>1, <1>3, <1>4, <1>5, <1>6, <1>7, <1>8 DEF Next, Returned

\* The inductive invariant holds in every reachable state.
THEOREM InductiveInvariant == Spec => []IInv
<1>1. Init /\ TypeOK => IInv
  <2> SUFFICES ASSUME Init, TypeOK PROVE IInv
    OBVIOUS
  <2>1. CallsAccounted
    BY ConfigNumbers DEF Init, CallsAccounted
  <2> QED BY <2>1 DEF Init, IInv, AnswerInHand, EmptyBase, RepairOnlyAfterRepairable,
                      ResultIsLastAnswer, GivesUpOnlyWhenSpent
<1>2. IInv /\ TypeOK' /\ [Next]_vars => IInv'
  BY AccountedStep, AnswerStep DEF IInv
<1> QED BY <1>1, <1>2, TypeCorrect, PTL DEF Spec

\* CallBudget follows from the inductive invariant.
LEMMA InvariantImpliesBudget == IInv => CallBudget
<1> SUFFICES ASSUME IInv PROVE Len(calls) <= Budget
  BY DEF CallBudget
<1> USE DEF IInv
<1>1. /\ retryIndex \in Nat /\ retryIndex + 1 \in Nat
      /\ retryIndex + 1 <= cfg.retryAttempts + 1 /\ cfg.retryAttempts + 1 \in Nat
  BY ConfigNumbers DEF TypeOK, CallsAccounted
<1>2. /\ CallsIn(retryIndex + 1, cfg.maxRepairs) = Earlier + cfg.maxRepairs + 1
      /\ CallsIn(retryIndex + 1, cfg.maxRepairs) <= Budget
      /\ CallsIn(retryIndex + 1, cfg.maxRepairs) \in Nat /\ Budget \in Nat
  BY <1>1, ConfigNumbers, CallsInFacts DEF Earlier, Budget
<1>3. Len(calls) <= Earlier + cfg.maxRepairs + 1
  BY DEF CallsAccounted
<1> QED BY <1>2, <1>3, ConfigNumbers

\* A channel never makes more provider calls than its settings allow, whatever
\* they are.
THEOREM BudgetRespected == Spec => []CallBudget
BY InductiveInvariant, InvariantImpliesBudget, PTL

\* Repair prompts only ever follow an answer of a kind listed in repairOn.
THEOREM RepairsJustified == Spec => []RepairOnlyAfterRepairable
<1>1. IInv => RepairOnlyAfterRepairable
  BY DEF IInv
<1> QED BY <1>1, InductiveInvariant, PTL

\* The stored raw output and the reported status are of the channel's last call.
THEOREM ResultConsistent == Spec => []ResultIsLastAnswer
<1>1. IInv => ResultIsLastAnswer
  BY DEF IInv
<1> QED BY <1>1, InductiveInvariant, PTL

\* A failure is only reported once the settings leave nothing to try.
THEOREM NoEarlySurrender == Spec => []GivesUpOnlyWhenSpent
<1>1. IInv => GivesUpOnlyWhenSpent
  BY DEF IInv
<1> QED BY <1>1, InductiveInvariant, PTL

-----------------------------------------------------------------------------
\* The same in the state a step leads to.
LEMMA BudgetAfter == IInv' => CallBudget'
BY InvariantImpliesBudget, PTL

\* A channel may always make at least one call.
LEMMA BudgetPositive ==
  ASSUME TypeOK
  PROVE  Budget \in Nat \ {0}
<1>1. cfg.retryAttempts \in Nat /\ cfg.maxRepairs \in Nat
  BY ConfigNumbers
<1>2. /\ CallsIn(cfg.retryAttempts, cfg.maxRepairs) \in Nat
      /\ Budget = CallsIn(cfg.retryAttempts, cfg.maxRepairs) + cfg.maxRepairs + 1
  BY <1>1, CallsInFacts DEF Budget
<1> QED BY <1>1, <1>2

\* A settled channel's result is the contract's result for its status.
WellSettled == pc = "done" => Settled = Contract!Result(base.status)

\* In every state of the invariant.
LEMMA SettledResult == IInv => WellSettled
<1> SUFFICES ASSUME IInv, pc = "done" PROVE Settled = Contract!Result(base.status)
  BY DEF WellSettled
<1>1. base \in BaseType
  BY DEF IInv, TypeOK
<1>2. /\ base.schemaValid <=> base.status = "ok"
      /\ base.rawOutputRef <=> base.status \in Outcomes
  BY DEF IInv, AnswerInHand
<1>3. Outcomes = Contract!Answered
  BY DEF Outcomes, Contract!Answered
<1>4. base.schemaValid = (base.status = "ok") /\ base.rawOutputRef = (base.status \in Contract!Answered)
  BY <1>1, <1>2, <1>3 DEF BaseType
<1> QED BY <1>4 DEF Settled, Contract!Result

\* The same in the state a step leads to.
LEMMA SettledResultAfter == IInv' => WellSettled'
BY SettledResult, PTL

\* A catch block after a provider call is a step of the contract: a call the
\* channel goes on from, or its last one.
LEMMA CatchStep ==
  ASSUME IInv, IInv', NEW cond \in Transients, NEW b \in BaseType, Catch(cond, b),
         pc # "done", UNCHANGED <<cfg, raw>>,
         Len(calls') = Len(calls) + 1 \/ (Len(calls') = Len(calls) /\ Len(calls) > 0)
  PROVE  [Contract!Next]_(Contract!vars)
<1>1. Settled = NULL /\ Budget' = Budget /\ raw' = raw
  BY DEF Settled, Budget
<1>2. /\ Len(calls) \in Nat /\ Len(calls') \in Nat /\ Len(calls') <= Budget
      /\ Budget \in Nat
  <2>1. Len(calls') <= Budget
    BY BudgetAfter, <1>1 DEF CallBudget
  <2>2. Budget \in Nat
    BY BudgetPositive DEF IInv
  <2> QED BY <2>1, <2>2 DEF IInv, TypeOK
<1>3. CASE pc' = "sleep"
  <2>1. Settled' = NULL
    BY <1>3 DEF Settled
  <2> QED BY <1>1, <1>2, <2>1 DEF Contract!Next, Contract!CallProvider, Contract!Spend, Contract!vars
<1>4. CASE pc' = "done"
  <2>1. base'.status = FailureStatus(cond)
    BY <1>4 DEF Catch, BaseType
  <2>2. base'.status \in Contract!Failed
    BY <2>1 DEF FailureStatus, Contract!Failed
  <2>3. Settled' = Contract!Result(base'.status)
    BY <1>4, SettledResultAfter DEF WellSettled
  <2> QED BY <1>1, <1>2, <2>2, <2>3 DEF Contract!Next, Contract!SettleFailed, Contract!Spend
<1> QED BY <1>3, <1>4 DEF Catch

\* The safety part of the contract: every behaviour of executeChannel, seen
\* through the calls made and the result, is one ChannelContract allows.
THEOREM ImplementsContract == Spec => Contract!Safe
<1>1. Init /\ IInv => Contract!Init
  <2> SUFFICES ASSUME Init, IInv PROVE Contract!Init
    OBVIOUS
  <2>1. Budget \in Nat \ {0}
    BY BudgetPositive DEF IInv
  <2> QED BY <2>1 DEF Init, Contract!Init, Settled
<1>2. IInv /\ IInv' /\ [Next]_vars => [Contract!Next]_(Contract!vars)
  <2> SUFFICES ASSUME IInv, IInv', [Next]_vars PROVE [Contract!Next]_(Contract!vars)
    OBVIOUS
  <2>0. calls \in Seq([kind : Kinds, reply : CallReplies]) /\ Len(calls) \in Nat
    BY DEF IInv, TypeOK
  <2>1. ASSUME NEW a \in Answers, CallAnswered(a) PROVE Contract!CallProvider
    <3>1. Len(calls') = Len(calls) + 1 /\ Budget' = Budget /\ Settled = NULL /\ Settled' = NULL
      BY <2>0, <2>1 DEF CallAnswered, Called, Budget, Settled
    <3>2. Len(calls') <= Budget
      BY <3>1, BudgetAfter DEF CallBudget
    <3>3. Budget \in Nat
      BY BudgetPositive DEF IInv
    <3> QED BY <2>0, <2>1, <3>1, <3>2, <3>3 DEF CallAnswered, Contract!CallProvider, Contract!Spend
  <2>2. base \in BaseType /\ RepairsNoted \in BaseType
    BY DEF IInv, TypeOK, BaseType, RepairsNoted
  <2>3. ASSUME NEW cond \in Transients, CallThrows(cond) PROVE [Contract!Next]_(Contract!vars)
    BY <2>0, <2>2, <2>3, CatchStep DEF CallThrows, Called
  <2>4. ASSUME ValidatorThrows PROVE [Contract!Next]_(Contract!vars)
    <3>1. "provider_error" \in Transients
      BY DEF Transients
    <3> QED BY <2>0, <2>2, <2>4, <3>1, CatchStep DEF ValidatorThrows, Called
  <2>5. ASSUME Sleep PROVE UNCHANGED Contract!vars
    BY <2>5 DEF Sleep, Contract!vars, Settled, Budget
  <2>6. ASSUME SaveRaw PROVE Contract!Next
    <3>1. /\ Settled = NULL /\ Budget' = Budget /\ Len(calls) > 0
          /\ raw' = Len(calls) /\ calls' = calls
      BY <2>6 DEF SaveRaw, Settled, Budget, IInv, AnswerInHand
    <3>2. base'.status = OutcomeToStatus(last)
      BY <2>2, <2>6 DEF SaveRaw, BaseType
    <3>3. base'.status \in Contract!Answered
      BY <2>6, <3>2, OutcomeTyped DEF SaveRaw, IInv, TypeOK, Outcomes, Contract!Answered
    <3>4. Settled' = Contract!Result(base'.status)
      BY <2>6, SettledResultAfter DEF SaveRaw, WellSettled
    <3> QED BY <3>1, <3>3, <3>4 DEF Contract!Next, Contract!SettleAnswered
  <2>7. ASSUME NEW cond \in Transients, SaveThrows(cond) PROVE [Contract!Next]_(Contract!vars)
    BY <2>2, <2>7, CatchStep DEF SaveThrows, IInv, AnswerInHand
  <2>8. CASE UNCHANGED vars
    BY <2>8 DEF vars, Contract!vars, Settled, Budget
  <2> QED BY <2>1, <2>3, <2>4, <2>5, <2>6, <2>7, <2>8 DEF Next, Returned, Contract!Next
<1> QED BY <1>1, <1>2, InductiveInvariant, PTL DEF Spec, Contract!Safe
====
