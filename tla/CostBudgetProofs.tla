--------------------------- MODULE CostBudgetProofs ---------------------------
(***************************************************************************)
(* Theorems about the cost budget, for any plan, prices and ceilings: how  *)
(* far over the ceiling a run may go, and that it does not go unnoticed.   *)
(***************************************************************************)
EXTENDS CostBudget, PipelineExecutorProofs, SumTheorems

-----------------------------------------------------------------------------
(***************************************************************************)
(* The invariant: what the run knows it has spent is what was spent.       *)
(***************************************************************************)

Budgeted == budget \in BudgetType /\ plan \in Plans

CarriedSum == Total([c \in CarriedIn |-> budget.price[c]])

\* What is known is what the recorded results and the carried ones cost.
Balance == KnownCost = Spent(Recorded) + CarriedSum

\* What the channels of the run have cost, carried ones included.
Outlay == Spent(ChannelRuns) + CarriedCost

\* A channel runs only if the others were within the ceiling.
Affordable ==
  pc = "run" /\ cur # Synth /\ budget.perRun # NULL => Outlay < budget.perRun

\* A run that has reached a ceiling is halted, or about to be.
RunCeiling ==
  budget.perRun # NULL /\ ChannelRuns # {} /\ ~(Outlay < budget.perRun) =>
    halted \/ (pc = "after" /\ cur # Synth)

TooDear(e) == budget.perChannel # NULL /\ CostOf(e.unit, e.status) > budget.perChannel

ChannelCeiling ==
  \A e \in ended : TooDear(e) =>
    /\ halted \/ (pc = "after" /\ e.unit = cur /\ e.depth = depth)
    /\ \A f \in ended : f.depth <= e.depth

BudgetInv ==
  Budgeted /\ Balance /\ Affordable /\ OvershootByOne /\ RunCeiling /\ ChannelCeiling

-----------------------------------------------------------------------------
(***************************************************************************)
(* Costs.                                                                  *)
(***************************************************************************)

\* What an execution costs is a natural number.
LEMMA CostNat ==
  ASSUME budget \in BudgetType, NEW x \in Units, NEW s
  PROVE  CostOf(x, s) \in Nat
<1>1. budget.price \in [Units -> Nat]
  BY DEF BudgetType
<1> QED BY <1>1 DEF CostOf

\* The executions of channels, and of them those that are recorded, are finitely many.
LEMMA BooksFinite ==
  ASSUME IInv, ReportInv
  PROVE  /\ IsFiniteSet(ended) /\ IsFiniteSet(ChannelRuns) /\ IsFiniteSet(Recorded)
         /\ IsFiniteSet(CarriedIn) /\ IsFiniteSet(plan.carried) /\ IsFiniteSet(1..Len(channels))
         /\ Recorded \subseteq ChannelRuns /\ \A e \in ended : e.unit \in Units
         /\ plan.carried \subseteq Channels /\ CarriedIn \subseteq Channels
<1>1. IsFiniteSet(ended) /\ ChannelRuns \subseteq ended /\ ChannelRuns = Recorded \cup Pending
  BY DEF ReportInv, RunBook, ChannelBook, ChannelRuns
<1>2. IsFiniteSet(Channels)
  BY NumChannelsAssumption, FS_Interval DEF Channels
<1>3. plan.carried \subseteq Channels /\ CarriedIn \subseteq Channels
  BY PlanTyped DEF IInv, PlanType, CarriedIn
<1>4. Len(channels) \in Nat
  BY LenProperties DEF IInv, TypeOK
<1>5. IsFiniteSet(1..Len(channels))
  BY <1>4, FS_Interval
<1>6. \A e \in ended : e.unit \in Units
  BY DEF IInv, TypeOK
<1> QED BY <1>1, <1>2, <1>3, <1>5, <1>6, FS_Subset

\* What a set of executions cost is a natural number.
LEMMA SpentNat ==
  ASSUME budget \in BudgetType, NEW E, IsFiniteSet(E), \A e \in E : e.unit \in Units
  PROVE  Spent(E) \in Nat
<1> DEFINE f == [x \in E |-> CostOf(x.unit, x.status)]
<1>1. DOMAIN f = E /\ \A x \in DOMAIN f : f[x] \in Nat
  BY CostNat
<1>2. Spent(E) = Total(f)
  BY DEF Spent
<1> HIDE DEF f
<1> QED BY <1>1, <1>2, TotalNat

\* One execution more.
LEMMA SpentGrows ==
  ASSUME budget \in BudgetType, NEW E, IsFiniteSet(E), \A e \in E : e.unit \in Units,
         NEW e, e \notin E, e.unit \in Units
  PROVE  Spent(E \cup {e}) = CostOf(e.unit, e.status) + Spent(E) /\ Spent(E) \in Nat
<1> DEFINE f == [x \in E |-> CostOf(x.unit, x.status)]
           h == [x \in E \cup {e} |-> CostOf(x.unit, x.status)]
<1>1. /\ DOMAIN f = E /\ DOMAIN h = DOMAIN f \cup {e} /\ h[e] = CostOf(e.unit, e.status)
      /\ \A x \in DOMAIN f : h[x] = f[x] /\ f[x] = CostOf(x.unit, x.status)
  OBVIOUS
<1>2. h[e] \in Nat /\ \A x \in DOMAIN f : f[x] \in Nat
  BY <1>1, CostNat
<1>3. Spent(E) = Total(f) /\ Spent(E \cup {e}) = Total(h)
  BY DEF Spent
<1> HIDE DEF f, h
<1>4. Total(h) = h[e] + Total(f) /\ Total(f) \in Nat
  BY <1>1, <1>2, TotalGrows, TotalNat
<1> QED BY <1>1, <1>3, <1>4
\* What the sums are in the next state, prices being what they are.
LEMMA SumsNext ==
  ASSUME budget' = budget, plan' = plan
  PROVE  /\ \A R : ChannelRuns' = R => Spent(ChannelRuns)' = Spent(R)
         /\ \A R, e : ChannelRuns' = R => Spent(ChannelRuns \ {e})' = Spent(R \ {e})
         /\ \A R : Recorded' = R => Spent(Recorded)' = Spent(R)
         /\ \A C : CarriedIn' = C => CarriedSum' = Total([c \in C |-> budget.price[c]])
         /\ CarriedCost' = CarriedCost
         /\ \A s : channels' = s =>
              KnownCost' = Total([i \in DOMAIN s |-> CostOf(s[i].channel, s[i].status)])
<1>1. ASSUME NEW R, ChannelRuns' = R PROVE Spent(ChannelRuns)' = Spent(R)
  BY <1>1 DEF Spent, CostOf
<1>2. ASSUME NEW R, Recorded' = R PROVE Spent(Recorded)' = Spent(R)
  BY <1>2 DEF Spent, CostOf
<1>3. ASSUME NEW C, CarriedIn' = C PROVE CarriedSum' = Total([c \in C |-> budget.price[c]])
  BY <1>3 DEF CarriedSum
<1>4. CarriedCost' = CarriedCost
  BY DEF CarriedCost
<1>5. ASSUME NEW s, channels' = s
      PROVE  KnownCost' = Total([i \in DOMAIN s |-> CostOf(s[i].channel, s[i].status)])
  BY <1>5 DEF KnownCost, CostOf
<1>6. ASSUME NEW R, NEW e, ChannelRuns' = R PROVE Spent(ChannelRuns \ {e})' = Spent(R \ {e})
  BY <1>6 DEF Spent, CostOf
<1> QED BY <1>1, <1>2, <1>3, <1>4, <1>5, <1>6

\* What each step of the run may change of the books.
LEMMA BudgetSteps ==
  ASSUME [BudgetNext]_<<vars, budget>>
  PROVE  /\ [Next]_vars /\ budget' = budget /\ plan' = plan
         /\ halted => halted'
         /\ ended' = ended \/ \E s \in Statuses : SettleGated(s)
         /\ channels' = channels \/ Carry \/ RecordChannel
<1>1. ASSUME Ungated \/ Abort \/ Proceed \/ (\E v \in {"continue", "halt"} : AfterHook(v)) \/ Over
               \/ UNCHANGED vars
      PROVE  /\ [Next]_vars /\ plan' = plan
             /\ halted => halted'
             /\ ended' = ended \/ \E s \in Statuses : SettleGated(s)
             /\ channels' = channels \/ Carry \/ RecordChannel
  <2>1. [Next]_vars
    BY <1>1 DEF Ungated, Next, Step
  <2>2. ended' = ended \/ \E s \in Statuses : SettleGated(s)
    BY <1>1 DEF Ungated, Over, vars, StartDepth, Carry, EnterLevel, EndLevels, Decide, Finish,
               PluginThrows, EnterGate, ThrowGated, RecordChannel, RecordSynthesis, ExternalAbort,
               Abort, Proceed, AfterHook
  <2>3. channels' = channels \/ Carry \/ RecordChannel
    BY <1>1 DEF Ungated, Over, vars, StartDepth, EnterLevel, EndLevels, Decide, Finish,
               PluginThrows, EnterGate, SettleGated, ThrowGated, RecordSynthesis, ExternalAbort,
               Abort, Proceed, AfterHook, report
  <2>4. halted => halted'
    BY <1>1 DEF Ungated, Over, vars, StartDepth, Carry, EnterLevel, EndLevels, Decide, Finish,
               PluginThrows, EnterGate, SettleGated, ThrowGated, RecordChannel, RecordSynthesis,
               ExternalAbort, Abort, Proceed, AfterHook
  <2> QED BY <2>1, <2>2, <2>3, <2>4, PlanFixed
<1>2. BudgetNext => (Ungated \/ Abort \/ Proceed \/ (\E v \in {"continue", "halt"} : AfterHook(v)) \/ Over)
                    /\ budget' = budget
  BY DEF BudgetNext
<1>3. UNCHANGED <<vars, budget>> => UNCHANGED vars /\ budget' = budget
  OBVIOUS
<1>4. budget' = budget
  BY <1>2, <1>3
<1> QED BY <1>1, <1>2, <1>3, <1>4

-----------------------------------------------------------------------------
(***************************************************************************)
(* Every step keeps the invariant.                                         *)
(***************************************************************************)

\* One result more is known.
LEMMA KnownGrows ==
  ASSUME IInv, budget \in BudgetType, budget' = budget, plan' = plan,
         NEW new \in Entries, channels' = Append(channels, new)
  PROVE  KnownCost' = CostOf(new.channel, new.status) + KnownCost /\ KnownCost \in Nat
<1> DEFINE n == Len(channels)
           more == Append(channels, new)
           f == [i \in DOMAIN channels |-> CostOf(channels[i].channel, channels[i].status)]
           h == [i \in DOMAIN more |-> CostOf(more[i].channel, more[i].status)]
<1>1. /\ channels \in Seq(Entries) /\ n \in Nat /\ DOMAIN channels = 1..n
      /\ \A i \in 1..n : channels[i] \in Entries
  BY LenProperties, ElementOfSeq DEF IInv, TypeOK, Entries
<1>2. /\ more \in Seq(Entries) /\ DOMAIN more = 1..(n + 1) /\ 1..(n + 1) = 1..n \cup {n + 1}
      /\ more[n + 1] = new /\ \A i \in 1..n : more[i] = channels[i]
  BY <1>1, AppendProperties
<1>3. KnownCost = Total(f) /\ KnownCost' = Total(h)
  BY SumsNext DEF KnownCost
<1> HIDE DEF n, more
<1>4. /\ DOMAIN f = 1..n /\ DOMAIN h = DOMAIN f \cup {n + 1} /\ n + 1 \notin DOMAIN f
      /\ h[n + 1] = CostOf(new.channel, new.status)
      /\ \A i \in DOMAIN f : h[i] = f[i]
  BY <1>1, <1>2
<1>5. h[n + 1] \in Nat /\ \A i \in DOMAIN f : f[i] \in Nat
  <2>1. \A i \in 1..n : channels[i].channel \in Units
    BY <1>1, Kinds DEF Entries
  <2>2. new.channel \in Units
    BY Kinds DEF Entries
  <2> QED BY <1>1, <1>4, <2>1, <2>2, CostNat
<1>6. IsFiniteSet(DOMAIN f)
  BY <1>1, <1>4, FS_Interval
<1> HIDE DEF f, h
<1> QED BY <1>3, <1>4, <1>5, <1>6, TotalGrows, TotalNat

\* What is known is a natural number.
LEMMA KnownNat ==
  ASSUME IInv, Budgeted
  PROVE  KnownCost \in Nat
<1> DEFINE f == [i \in DOMAIN channels |-> CostOf(channels[i].channel, channels[i].status)]
<1>1. /\ channels \in Seq(Entries) /\ Len(channels) \in Nat /\ DOMAIN channels = 1..Len(channels)
      /\ \A i \in 1..Len(channels) : channels[i] \in Entries
  BY LenProperties, ElementOfSeq DEF IInv, TypeOK, Entries
<1>2. \A i \in 1..Len(channels) : channels[i].channel \in Units
  BY <1>1, Kinds DEF Entries
<1>3. \A i \in 1..Len(channels) : CostOf(channels[i].channel, channels[i].status) \in Nat
  BY <1>2, CostNat DEF Budgeted
<1>4. DOMAIN f = 1..Len(channels) /\ \A i \in DOMAIN f : f[i] \in Nat
  BY <1>1, <1>3
<1>5. KnownCost = Total(f)
  BY DEF KnownCost
<1> HIDE DEF f
<1>6. IsFiniteSet(DOMAIN f)
  BY <1>1, <1>4, FS_Interval
<1> QED BY <1>4, <1>5, <1>6, TotalNat

\* The books of the channel in the gate: what is carried is in, and what ended
\* and is not recorded is what the channel itself settled with.
LEMMA GateBooks ==
  ASSUME IInv, ReportInv, pc \in InGate, cur # Synth
  PROVE  /\ CarriedIn = plan.carried /\ cur \in Channels /\ depth > 0 /\ cur \in todo
         /\ Outcome(cur) \notin Recorded
         /\ ChannelRuns = Recorded \cup (IF st[cur] \in Statuses THEN {Outcome(cur)} ELSE {})
<1>1. cur \in todo /\ cur \in Channels /\ depth \in Nat /\ depth # 0 /\ todo \subseteq Channels
  BY DEF IInv, TypeOK, Phase, Fresh, InGate
<1>2. CarriedIn = plan.carried
  BY <1>1 DEF ReportInv, CarryBook, InGate
<1>3. \A c \in todo : c # cur => st[c] = "idle"
  BY DEF IInv, Fresh
<1>4. Pending = IF st[cur] \in Statuses THEN {Outcome(cur)} ELSE {}
  BY <1>1, <1>3, Kinds DEF Pending
<1>5. ASSUME NEW i \in {j \in 1..Len(channels) : channels[j].depth > 0}, Entry(channels[i]) = Outcome(cur)
      PROVE  FALSE
  <2>1. channels[i].channel = cur /\ channels[i].depth = depth
    BY <1>5 DEF Entry, Outcome
  <2>2. plan.rank[cur] = level
    BY <1>1 DEF IInv, Fresh, InGate
  <2>3. plan.rank[cur] < level \/ cur < cur
    BY <1>1, <2>1 DEF ReportInv, Ahead, InGate
  <2> QED BY <1>1, <2>2, <2>3 DEF Channels, IInv, TypeOK
<1>6. Outcome(cur) \notin Recorded
  BY <1>5 DEF Recorded
<1>7. ChannelRuns = Recorded \cup Pending
  BY DEF ReportInv, ChannelBook, ChannelRuns
<1> QED BY <1>1, <1>2, <1>4, <1>6, <1>7

\* What the carried results cost is a natural number.
LEMMA CarriedNat ==
  ASSUME IInv, ReportInv, Budgeted
  PROVE  CarriedCost \in Nat
<1> DEFINE f == [c \in plan.carried |-> budget.price[c]]
<1>1. IsFiniteSet(DOMAIN f) /\ \A c \in DOMAIN f : f[c] \in Nat
  BY BooksFinite, Kinds DEF Budgeted, BudgetType
<1> HIDE DEF f
<1>2. Total(f) \in Nat
  BY <1>1, TotalNat
<1> QED BY <1>2 DEF f, CarriedCost

\* What is known at the gate, and what was spent.
LEMMA KnownAtGate ==
  ASSUME IInv, ReportInv, Budgeted, Balance, pc \in InGate, cur # Synth
  PROVE  Outlay = KnownCost + (IF st[cur] \in Statuses THEN CostOf(cur, st[cur]) ELSE 0)
<1>1. /\ CarriedIn = plan.carried /\ cur \in Channels
      /\ Outcome(cur) \notin Recorded
      /\ ChannelRuns = Recorded \cup (IF st[cur] \in Statuses THEN {Outcome(cur)} ELSE {})
  BY GateBooks
<1>2. IsFiniteSet(Recorded) /\ (\A e \in Recorded : e.unit \in Units) /\ budget \in BudgetType
  BY BooksFinite DEF ChannelRuns, Budgeted
<1>3. CarriedSum = CarriedCost
  BY <1>1 DEF CarriedSum, CarriedCost
<1>4. CarriedCost \in Nat
  BY CarriedNat
<1>5. CASE st[cur] \in Statuses
  <2>1. Outcome(cur).unit \in Units /\ Outcome(cur).unit = cur /\ Outcome(cur).status = st[cur]
    BY <1>1, Kinds DEF Outcome
  <2>2. Spent(ChannelRuns) = CostOf(cur, st[cur]) + Spent(Recorded) /\ Spent(Recorded) \in Nat
    BY <1>1, <1>2, <1>5, <2>1, SpentGrows
  <2>3. CostOf(cur, st[cur]) \in Nat
    BY <1>1, <1>2, CostNat, Kinds
  <2> QED BY <1>3, <1>4, <1>5, <2>2, <2>3 DEF Balance, Outlay
<1>6. CASE st[cur] \notin Statuses
  <2>1. ChannelRuns = Recorded
    BY <1>1, <1>6
  <2>2. Spent(Recorded) \in Nat
    BY <1>2, SpentNat
  <2> QED BY <1>3, <1>4, <1>6, <2>1, <2>2 DEF Balance, Outlay
<1> QED BY <1>5, <1>6

\* The books stay balanced: a result is recorded with what it cost, and so is a
\* carried one.
LEMMA BalanceStep ==
  ASSUME IInv, ReportInv, BudgetInv, [BudgetNext]_<<vars, budget>>
  PROVE  Balance'
<1>1. budget' = budget /\ plan' = plan /\ budget \in BudgetType /\ Balance
  BY BudgetSteps DEF BudgetInv, Budgeted
<1>2. CASE channels' = channels
  <2>1. Recorded' = Recorded /\ CarriedIn' = CarriedIn
    BY <1>2 DEF Recorded, CarriedIn, Entry
  <2>2. Spent(Recorded)' = Spent(Recorded)
    BY <1>1, <2>1, SumsNext
  <2>3. CarriedSum' = CarriedSum
    BY <1>1, <2>1, SumsNext DEF CarriedSum
  <2>4. KnownCost' = KnownCost
    BY <1>1, <1>2, SumsNext DEF KnownCost
  <2> QED BY <1>1, <2>2, <2>3, <2>4 DEF Balance
<1>3. /\ IsFiniteSet(Recorded) /\ IsFiniteSet(CarriedIn) /\ CarriedIn \subseteq Channels
      /\ \A e \in Recorded : e.unit \in Units
  BY BooksFinite DEF ChannelRuns
<1>4. Spent(Recorded) \in Nat
  BY <1>1, <1>3, SpentNat
<1> DEFINE f == [c \in CarriedIn |-> budget.price[c]]
<1>5. IsFiniteSet(DOMAIN f) /\ CarriedSum = Total(f) /\ \A c \in DOMAIN f : f[c] \in Nat
  BY <1>1, <1>3, Kinds DEF CarriedSum, BudgetType
<1>6. Total(f) \in Nat
  <2> HIDE DEF f
  <2> QED BY <1>5, TotalNat
<1>7. CASE Carry
  <2>1. PICK c \in First(todo) : Completed(c, 0, "ok") /\ todo' = todo \ {c}
    BY <1>7 DEF Carry
  <2> DEFINE new == [channel |-> c, depth |-> 0, status |-> "ok"]
             h == [d \in CarriedIn \cup {c} |-> budget.price[d]]
  <2>2. c \in todo /\ c \in Channels /\ pc = "carry"
    BY <1>7, <2>1 DEF First, Carry, IInv, TypeOK
  <2>3. new \in Entries /\ channels' = Append(channels, new) /\ ~(new.depth > 0)
    BY <2>1, <2>2, Kinds DEF Entries, Completed
  <2>4. c \notin CarriedIn
    BY <2>2 DEF ReportInv, CarryBook
  <2>5. Recorded' = Recorded /\ CarriedIn' = CarriedIn \cup {c}
    <3>1. /\ Recorded' = Recorded \cup (IF new.depth > 0 THEN {Entry(new)} ELSE {})
          /\ CarriedIn' = CarriedIn \cup
              {d \in Channels : new = [channel |-> d, depth |-> 0, status |-> "ok"]}
      BY <2>3, RecordedGrows DEF IInv
    <3>2. {d \in Channels : new = [channel |-> d, depth |-> 0, status |-> "ok"]} = {c}
      BY <2>2
    <3> QED BY <2>3, <3>1, <3>2
  <2>6. Spent(Recorded)' = Spent(Recorded) /\ CarriedSum' = Total(h)
    BY <1>1, <2>5, SumsNext
  <2>7. Total(h) = budget.price[c] + Total(f)
    <3>1. /\ DOMAIN h = DOMAIN f \cup {c} /\ h[c] = budget.price[c] /\ h[c] \in Nat
          /\ \A d \in DOMAIN f : h[d] = f[d]
          /\ c \notin DOMAIN f
      BY <1>1, <2>2, <2>4, Kinds DEF BudgetType
    <3> HIDE DEF f, h
    <3> QED BY <1>5, <3>1, TotalGrows
  <2>8. KnownCost' = budget.price[c] + KnownCost /\ KnownCost \in Nat
    <3>1. CostOf(c, "ok") = budget.price[c]
      BY DEF CostOf
    <3>2. new.channel = c /\ new.status = "ok"
      OBVIOUS
    <3> HIDE DEF new
    <3> QED BY <1>1, <2>3, <3>1, <3>2, KnownGrows
  <2>9. budget.price[c] \in Nat
    BY <1>1, <2>2, Kinds DEF BudgetType
  <2> HIDE DEF f, h
  <2> QED BY <1>1, <1>4, <1>5, <1>6, <2>6, <2>7, <2>8, <2>9 DEF Balance
<1>8. CASE RecordChannel /\ channels' # channels
  <2>1. pc = "record" /\ cur \in Channels /\ st[cur] # "null" /\ Completed(cur, depth, st[cur])
    BY <1>8 DEF RecordChannel
  <2>2. cur # Synth /\ pc \in InGate /\ st[cur] \in Statuses
    BY <2>1, Kinds DEF InGate, IInv, Phase, Settled
  <2>3. depth > 0 /\ depth \in Nat /\ Outcome(cur) \notin Recorded
    BY <2>2, GateBooks DEF IInv, TypeOK
  <2> DEFINE new == [channel |-> cur, depth |-> depth, status |-> st[cur]]
  <2>4. /\ new \in Entries /\ channels' = Append(channels, new) /\ new.depth > 0
        /\ Entry(new) = Outcome(cur) /\ new.channel = cur /\ new.status = st[cur]
        /\ \A d \in Channels : new # [channel |-> d, depth |-> 0, status |-> "ok"]
    BY <2>1, <2>2, <2>3 DEF Entries, Completed, Entry, Outcome
  <2> HIDE DEF new
  <2>5. Recorded' = Recorded \cup {Outcome(cur)} /\ CarriedIn' = CarriedIn
    <3>1. /\ Recorded' = Recorded \cup (IF new.depth > 0 THEN {Entry(new)} ELSE {})
          /\ CarriedIn' = CarriedIn \cup
              {d \in Channels : new = [channel |-> d, depth |-> 0, status |-> "ok"]}
      BY <2>4, RecordedGrows DEF IInv
    <3> QED BY <2>4, <3>1
  <2>6. Spent(Recorded)' = Spent(Recorded \cup {Outcome(cur)}) /\ CarriedSum' = CarriedSum
    BY <1>1, <2>5, SumsNext DEF CarriedSum
  <2>7. Spent(Recorded \cup {Outcome(cur)}) = CostOf(cur, st[cur]) + Spent(Recorded)
    <3>1. Outcome(cur).unit = cur /\ Outcome(cur).status = st[cur] /\ cur \in Units
      BY <2>1, Kinds DEF Outcome
    <3> QED BY <1>1, <1>3, <2>3, <3>1, SpentGrows
  <2>8. KnownCost' = CostOf(cur, st[cur]) + KnownCost /\ KnownCost \in Nat
    BY <1>1, <2>4, KnownGrows
  <2>9. CostOf(cur, st[cur]) \in Nat
    BY <1>1, <2>1, CostNat, Kinds
  <2> QED BY <1>1, <1>4, <1>5, <1>6, <2>6, <2>7, <2>8, <2>9 DEF Balance
<1> QED BY <1>2, <1>7, <1>8, BudgetSteps

\* While nothing ends, what was spent stays what it is.
LEMMA OutlayStays ==
  ASSUME budget' = budget, plan' = plan, ChannelRuns' = ChannelRuns
  PROVE  /\ Outlay' = Outlay
         /\ \A e : (Spent(ChannelRuns \ {e}) + CarriedCost)' = Spent(ChannelRuns \ {e}) + CarriedCost
  BY SumsNext DEF Outlay

\* Plans have the one policy.
LEMMA BudgetHooks ==
  ASSUME BudgetInv
  PROVE  /\ plan.before = 1 /\ plan.after = 1 /\ budget \in BudgetType
         /\ budget.perRun \in Nat \cup {NULL} /\ budget.perChannel \in Nat \cup {NULL}
  BY OnePolicy DEF BudgetInv, Budgeted, BudgetType

\* A unit comes to run by the policy's leave: what is known is within the ceiling.
LEMMA RunsByLeave ==
  ASSUME BudgetInv, [BudgetNext]_<<vars, budget>>, pc' = "run"
  PROVE  /\ cur' = cur /\ ended' = ended
         /\ pc = "run" \/ (pc = "before" /\ ~Reached(KnownCost))
<1>1. plan.before = 1
  BY BudgetHooks
<1>2. CASE Proceed /\ ~Reached(KnownCost)
  BY <1>2 DEF Proceed, progress
<1>3. CASE Ungated \/ Abort \/ (\E v \in {"continue", "halt"} : AfterHook(v)) \/ Over \/ UNCHANGED vars
  BY <1>1, <1>3 DEF Ungated, Over, vars, StartDepth, Carry, EnterLevel, EndLevels, Decide, Finish,
               PluginThrows, EnterGate, SettleGated, ThrowGated, RecordChannel, RecordSynthesis,
               ExternalAbort, Abort, AfterHook, progress
<1> QED BY <1>2, <1>3 DEF BudgetNext

\* The policy lets a channel start only while what is known is within the ceiling,
\* and what is known is all there is.
LEMMA AffordableStep ==
  ASSUME IInv, ReportInv, BudgetInv, [BudgetNext]_<<vars, budget>>
  PROVE  Affordable'
<1> SUFFICES ASSUME pc' = "run", cur' # Synth, budget.perRun # NULL PROVE Outlay' < budget.perRun
  BY BudgetSteps DEF Affordable
<1>1. budget' = budget /\ plan' = plan /\ cur' = cur /\ ended' = ended
  BY BudgetSteps, RunsByLeave
<1>2. Outlay' = Outlay
  BY <1>1, OutlayStays DEF ChannelRuns
<1>3. CASE pc = "run"
  BY <1>1, <1>2, <1>3 DEF BudgetInv, Affordable
<1>4. CASE pc = "before" /\ ~Reached(KnownCost)
  <2>1. cur # Synth /\ pc \in InGate /\ st[cur] \notin Statuses
    BY <1>1, <1>4, Kinds DEF InGate, IInv, Fresh
  <2>2. Outlay = KnownCost + 0
    BY <2>1, KnownAtGate DEF BudgetInv
  <2>3. KnownCost \in Nat
    BY KnownNat DEF BudgetInv
  <2>4. KnownCost < budget.perRun
    BY <1>4, <2>3, BudgetHooks DEF Reached
  <2> QED BY <1>2, <2>2, <2>3, <2>4
<1> QED BY <1>3, <1>4, RunsByLeave

\* A unit that settles has not ended at this depth before.
LEMMA NewEnding ==
  ASSUME IInv, ReportInv, NEW s \in Statuses, SettleGated(s)
  PROVE  LET new == [unit |-> cur, depth |-> depth, status |-> s]
         IN /\ new \notin ended /\ ended' = ended \cup {new} /\ \A e \in ended : e.depth <= depth
            /\ cur \in Units /\ depth \in Nat /\ pc = "run" /\ ~halted
            /\ cur # Synth => ChannelRuns' = ChannelRuns \cup {new}
            /\ cur = Synth => ChannelRuns' = ChannelRuns
<1> DEFINE new == [unit |-> cur, depth |-> depth, status |-> s]
<1>1. pc = "run" /\ st[cur] = "running" /\ cur \in Units /\ ~halted /\ depth \in Nat
  BY DEF SettleGated, IInv, Phase, TypeOK
<1>2. ended' = ended \cup {new}
  BY DEF SettleGated
<1>3. \A e \in ended : e.depth <= depth /\ (e.depth = depth => st[e.unit] = e.status)
  BY DEF ReportInv, Ended
<1>4. new \notin ended
  BY <1>1, <1>3, Kinds
<1>5. /\ cur # Synth => ChannelRuns' = ChannelRuns \cup {new}
      /\ cur = Synth => ChannelRuns' = ChannelRuns
  BY <1>2 DEF ChannelRuns
<1> QED BY <1>1, <1>2, <1>3, <1>4, <1>5

\* The others were within the ceiling when the last channel to end was started.
LEMMA OvershootStep ==
  ASSUME IInv, ReportInv, BudgetInv, [BudgetNext]_<<vars, budget>>
  PROVE  OvershootByOne'
<1>1. budget' = budget /\ plan' = plan /\ OvershootByOne /\ Affordable
  BY BudgetSteps DEF BudgetInv
<1>2. CASE ChannelRuns' = ChannelRuns
  <2> SUFFICES ASSUME budget.perRun # NULL, ChannelRuns # {}
               PROVE  (\E e \in ChannelRuns : Spent(ChannelRuns \ {e}) + CarriedCost < budget.perRun)'
    BY <1>1, <1>2 DEF OvershootByOne
  <2>1. PICK e \in ChannelRuns : Spent(ChannelRuns \ {e}) + CarriedCost < budget.perRun
    BY <1>1 DEF OvershootByOne
  <2>2. (Spent(ChannelRuns \ {e}) + CarriedCost)' = Spent(ChannelRuns \ {e}) + CarriedCost
    BY <1>1, <1>2, OutlayStays
  <2> QED BY <1>1, <1>2, <2>1, <2>2
<1>3. ASSUME NEW s \in Statuses, SettleGated(s), cur # Synth
      PROVE  OvershootByOne'
  <2>1. PICK new : new = [unit |-> cur, depth |-> depth, status |-> s]
    OBVIOUS
  <2>2. new \notin ended /\ ChannelRuns' = ChannelRuns \cup {new} /\ pc = "run"
    BY <1>3, <2>1, NewEnding
  <2>3. (ChannelRuns \cup {new}) \ {new} = ChannelRuns
    BY <2>2 DEF ChannelRuns
  <2>4. Spent(ChannelRuns \ {new})' = Spent(ChannelRuns) /\ CarriedCost' = CarriedCost
    BY <1>1, <2>2, <2>3, SumsNext
  <2>5. budget.perRun # NULL => Spent(ChannelRuns) + CarriedCost < budget.perRun
    BY <1>1, <1>3, <2>2 DEF Affordable, Outlay
  <2>6. budget.perRun # NULL => (Spent(ChannelRuns \ {new}) + CarriedCost < budget.perRun)'
    BY <1>1, <2>4, <2>5
  <2>7. new \in ChannelRuns'
    BY <2>2
  <2> QED BY <1>1, <2>6, <2>7 DEF OvershootByOne
<1>4. ended' = ended => ChannelRuns' = ChannelRuns
  BY DEF ChannelRuns
<1> QED BY <1>2, <1>3, <1>4, NewEnding, BudgetSteps

\* Behind the hook of a policy comes the next, or the record; the verdict is drawn
\* on what is known and what the unit itself cost.
LEMMA AfterSteps ==
  ASSUME [BudgetNext]_<<vars, budget>>, pc = "after"
  PROVE  \/ halted'
         \/ ~TooMuch
         \/ pc' = pc /\ cur' = cur /\ depth' = depth
<1>1. CASE Ungated \/ Abort \/ Proceed \/ Over \/ UNCHANGED vars
  BY <1>1 DEF Ungated, Over, Quiet, vars, StartDepth, Carry, EnterLevel, EndLevels, Decide, Finish,
              PluginThrows, EnterGate, SettleGated, ThrowGated, RecordChannel, RecordSynthesis,
              ExternalAbort, Abort, Proceed, progress
<1>2. CASE AfterHook("halt")
  BY <1>2 DEF AfterHook
<1> QED BY <1>1, <1>2 DEF BudgetNext

\* While a unit has only just settled the hooks have its costs still to see.
LEMMA SettledGated ==
  ASSUME BudgetInv, NEW s \in Statuses, SettleGated(s)
  PROVE  pc' = "after" /\ cur' = cur /\ depth' = depth
  BY BudgetHooks DEF SettleGated, progress

\* At the ceiling the hook of the last channel halts the run.
LEMMA RunCeilingStep ==
  ASSUME IInv, ReportInv, BudgetInv, [BudgetNext]_<<vars, budget>>
  PROVE  RunCeiling'
<1>1. budget' = budget /\ plan' = plan /\ RunCeiling /\ (halted => halted')
  BY BudgetSteps DEF BudgetInv
<1> SUFFICES ASSUME budget.perRun # NULL, ChannelRuns' # {}, ~(Outlay' < budget.perRun)
             PROVE  halted' \/ (pc' = "after" /\ cur' # Synth)
  BY <1>1 DEF RunCeiling
<1>2. CASE ChannelRuns' = ChannelRuns /\ ended' = ended
  <2>1. Outlay' = Outlay
    BY <1>1, <1>2, OutlayStays
  <2>2. halted \/ (pc = "after" /\ cur # Synth)
    BY <1>1, <1>2, <2>1 DEF RunCeiling
  <2>3. CASE pc = "after" /\ cur # Synth
    <3>1. Outlay = KnownCost + CostOf(cur, st[cur])
      <4>1. pc \in InGate /\ st[cur] \in Statuses
        BY <2>3 DEF InGate, IInv, Phase
      <4> QED BY <2>3, <4>1, KnownAtGate DEF BudgetInv
    <3>2. Outlay \in Nat
      <4>1. KnownCost \in Nat /\ cur \in Units
        BY <2>3, KnownNat DEF BudgetInv, IInv, TypeOK, Phase, InGate
      <4>2. CostOf(cur, st[cur]) \in Nat
        BY <4>1, BudgetHooks, CostNat
      <4> QED BY <3>1, <4>1, <4>2
    <3>3. Outlay >= budget.perRun
      BY <2>1, <3>2, BudgetHooks
    <3>4. TooMuch
      BY <3>1, <3>3 DEF TooMuch, Reached
    <3> QED BY <2>3, <3>4, AfterSteps
  <2> QED BY <1>1, <2>2, <2>3
<1>3. ASSUME NEW s \in Statuses, SettleGated(s)
      PROVE  halted' \/ (pc' = "after" /\ cur' # Synth)
  <2>1. CASE cur = Synth
    <3>1. pc = "run" /\ ~halted /\ ChannelRuns' = ChannelRuns
      BY <1>3, <2>1, NewEnding
    <3>2. Outlay' = Outlay
      BY <1>1, <3>1, OutlayStays
    <3> QED BY <1>1, <3>1, <3>2 DEF RunCeiling
  <2> QED BY <1>3, <2>1, SettledGated
<1>4. ended' = ended => ChannelRuns' = ChannelRuns
  BY DEF ChannelRuns
<1> QED BY <1>2, <1>3, <1>4, BudgetSteps

\* A unit that cost too much is the last: its own hook halts the run.
LEMMA ChannelCeilingStep ==
  ASSUME IInv, ReportInv, BudgetInv, [BudgetNext]_<<vars, budget>>
  PROVE  ChannelCeiling'
<1>1. budget' = budget /\ ChannelCeiling /\ (halted => halted')
  BY BudgetSteps DEF BudgetInv
<1>2. \A e : TooDear(e)' <=> TooDear(e)
  BY <1>1 DEF TooDear, CostOf
<1>3. CASE ended' = ended
  <2> SUFFICES ASSUME NEW e \in ended, TooDear(e)
               PROVE  halted' \/ (pc' = "after" /\ e.unit = cur' /\ e.depth = depth')
    BY <1>1, <1>2, <1>3 DEF ChannelCeiling
  <2>1. halted \/ (pc = "after" /\ e.unit = cur /\ e.depth = depth)
    BY <1>1 DEF ChannelCeiling
  <2>2. CASE pc = "after" /\ e.unit = cur /\ e.depth = depth
    <3>1. st[cur] = e.status
      BY <2>2 DEF ReportInv, Ended
    <3>2. TooMuch
      BY <2>2, <3>1 DEF TooMuch, TooDear
    <3> QED BY <2>2, <3>2, AfterSteps
  <2> QED BY <1>1, <2>1, <2>2
<1>4. ASSUME NEW s \in Statuses, SettleGated(s)
      PROVE  ChannelCeiling'
  <2>1. PICK new : new = [unit |-> cur, depth |-> depth, status |-> s]
    OBVIOUS
  <2>2. /\ ended' = ended \cup {new} /\ (\A e \in ended : e.depth <= depth) /\ depth \in Nat
        /\ pc = "run" /\ ~halted
    BY <1>4, <2>1, NewEnding
  <2>3. new.unit = cur /\ new.depth = depth
    BY <2>1
  <2>4. pc' = "after" /\ cur' = cur /\ depth' = depth
    BY <1>4, SettledGated
  <2>5. \A e \in ended : ~TooDear(e)
    BY <1>1, <2>2 DEF ChannelCeiling
  <2> SUFFICES ASSUME NEW e \in ended', TooDear(e)
               PROVE  /\ pc' = "after" /\ e.unit = cur' /\ e.depth = depth'
                      /\ \A f \in ended' : f.depth <= e.depth
    BY <1>2 DEF ChannelCeiling
  <2>6. e = new
    BY <2>2, <2>5
  <2> QED BY <2>2, <2>3, <2>4, <2>6
<1> QED BY <1>3, <1>4, BudgetSteps

-----------------------------------------------------------------------------
(***************************************************************************)
(* The theorems.                                                           *)
(***************************************************************************)

\* A run starts with empty books.
LEMMA BudgetStarts == BudgetInit => BudgetInv
<1> SUFFICES ASSUME BudgetInit PROVE BudgetInv
  OBVIOUS
<1>1. channels = <<>> /\ ended = {} /\ pc = "depth"
  BY DEF BudgetInit, Init
<1>2. Budgeted
  BY BudgetsAssumption DEF BudgetInit, Init, Budgeted
<1>3. Recorded = {} /\ CarriedIn = {} /\ ChannelRuns = {}
  BY <1>1 DEF Recorded, CarriedIn, ChannelRuns
<1>4. KnownCost = 0
  <2>1. DOMAIN channels = {}
    BY <1>1
  <2> DEFINE f == [i \in DOMAIN channels |-> CostOf(channels[i].channel, channels[i].status)]
  <2>2. DOMAIN f = {} /\ KnownCost = Total(f)
    BY <2>1 DEF KnownCost
  <2> HIDE DEF f
  <2> QED BY <2>2, TotalEmpty
<1>5. Spent(Recorded) = 0
  <2> DEFINE f == [e \in Recorded |-> CostOf(e.unit, e.status)]
  <2>1. DOMAIN f = {} /\ Spent(Recorded) = Total(f)
    BY <1>3 DEF Spent
  <2> HIDE DEF f
  <2> QED BY <2>1, TotalEmpty
<1>6. CarriedSum = 0
  <2> DEFINE f == [c \in CarriedIn |-> budget.price[c]]
  <2>1. DOMAIN f = {} /\ CarriedSum = Total(f)
    BY <1>3 DEF CarriedSum
  <2> HIDE DEF f
  <2> QED BY <2>1, TotalEmpty
<1>7. Balance
  BY <1>4, <1>5, <1>6 DEF Balance
<1> QED BY <1>1, <1>2, <1>3, <1>7
       DEF BudgetInv, Affordable, OvershootByOne, RunCeiling, ChannelCeiling

\* A run under the policy is a run of PipelineExecutor.
LEMMA BudgetRuns == BudgetSpec => Spec
<1>1. BudgetInit => Init
  BY DEF BudgetInit
<1>2. [BudgetNext]_<<vars, budget>> => [Next]_vars
  BY BudgetSteps
<1> QED BY <1>1, <1>2, PTL DEF BudgetSpec, Spec

\* CostBudgetPolicy.sumCost: the policy's books are the run's, so no channel starts
\* at the ceiling and whatever reaches one halts the run.
THEOREM BooksOfCosts == BudgetSpec => []BudgetInv
<1>1. IInv /\ ReportInv /\ BudgetInv /\ [BudgetNext]_<<vars, budget>> => BudgetInv'
  <2> SUFFICES ASSUME IInv, ReportInv, BudgetInv, [BudgetNext]_<<vars, budget>> PROVE BudgetInv'
    OBVIOUS
  <2>1. Budgeted'
    BY BudgetSteps DEF BudgetInv, Budgeted
  <2> QED BY <2>1, BalanceStep, AffordableStep, OvershootStep, RunCeilingStep, ChannelCeilingStep
         DEF BudgetInv
<1>2. BudgetSpec => []IInv /\ []ReportInv
  BY BudgetRuns, InductiveInvariant, BooksBalance, PTL
<1> QED BY <1>1, <1>2, BudgetStarts, PTL DEF BudgetSpec

\* CostBudgetPolicy: the channels of a run cost more than the ceiling by one
\* channel at most, whatever the depths, the carried results and the failures.
THEOREM OvershootBounded == BudgetSpec => []OvershootByOne
<1>1. BudgetInv => OvershootByOne
  BY DEF BudgetInv
<1> QED BY <1>1, BooksOfCosts, PTL

\* CostBudgetPolicy: a run that has reached a ceiling was halted for it, and the
\* unit that cost too much was its last.
THEOREM CeilingIsNoticed == BudgetSpec => []HaltedAtCeiling
<1>1. IInv /\ ReportInv /\ BudgetInv => HaltedAtCeiling
  <2> SUFFICES ASSUME IInv, ReportInv, BudgetInv, pc = "returned" PROVE HaltedAtCeiling
    BY DEF HaltedAtCeiling
  <2>1. ASSUME budget.perRun # NULL, ChannelRuns # {},
               Spent(ChannelRuns) + CarriedCost >= budget.perRun
        PROVE  halted
    <3>1. Spent(ChannelRuns) \in Nat
      <4>1. IsFiniteSet(ChannelRuns) /\ \A e \in ChannelRuns : e.unit \in Units
        BY BooksFinite DEF ChannelRuns
      <4> QED BY <4>1, BudgetHooks, SpentNat
    <3>2. CarriedCost \in Nat /\ budget.perRun \in Nat
      BY <2>1, CarriedNat, BudgetHooks DEF BudgetInv
    <3>3. ~(Outlay < budget.perRun)
      BY <2>1, <3>1, <3>2 DEF Outlay
    <3> QED BY <2>1, <3>3 DEF BudgetInv, RunCeiling
  <2>2. ASSUME NEW e \in ended, budget.perChannel # NULL,
               CostOf(e.unit, e.status) > budget.perChannel
        PROVE  halted /\ \A f \in ended : f.depth <= e.depth
    BY <2>2 DEF BudgetInv, ChannelCeiling, TooDear
  <2> QED BY <2>1, <2>2 DEF HaltedAtCeiling
<1>2. BudgetSpec => []IInv /\ []ReportInv
  BY BudgetRuns, InductiveInvariant, BooksBalance, PTL
<1> QED BY <1>1, <1>2, BooksOfCosts, PTL
=============================================================================
