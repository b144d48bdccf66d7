--------------------------- MODULE ChannelExecutor ---------------------------
(***************************************************************************)
(* One channel of a run: executeChannel of core/src/executor.              *)
(*                                                                         *)
(* A transient-retry loop wraps a call-and-repair loop.  A provider call   *)
(* that throws is retried after a backoff; an answer that does not         *)
(* validate is followed by repair prompts; the answer the loop ends with   *)
(* is written to the raw store and becomes the ChannelResult.  One call of *)
(* executeChannel is one behaviour.                                        *)
(*                                                                         *)
(* Names follow the source: base is the ChannelResult being filled in,     *)
(* attempts is metadata.attempts.  calls and raw are what the              *)
(* outside world sees: the provider calls made and the blob under this     *)
(* channel's key in the result store (the number of the call it came from).*)
(* How long a backoff lasts is left out.                                   *)
(***************************************************************************)
EXTENDS Integers, Sequences, FiniteSets

CONSTANTS
  Configs,   \* effective retry / repair settings a channel may run under
  NULL       \* an absent value

Transients   == {"provider_error", "timeout"}      \* what a retry answers
Repairables  == {"schema_error", "invalid_json"}   \* what a repair answers
Outcomes     == {"ok", "invalid_json", "schema_error", "refused"}
Statuses     == Outcomes \cup {"timeout", "error"}

\* A config is what runOne resolved (channel over pipeline default) and
\* executeChannel completed with its own defaults.
ConfigType == [retryAttempts : Nat, retryOn  : SUBSET Transients,
               maxRepairs    : Nat, repairOn : SUBSET Repairables]

ASSUME ConfigsAssumption == Configs \subseteq ConfigType
ASSUME NullAssumption    == NULL \notin Statuses \cup Transients \cup Int

VARIABLES
  cfg,              \* the settings of this channel
  schema,           \* its output schema: none, one that compiles, a broken one
  pc,               \* where executeChannel is
  retryIndex,       \* the transient-retry loop's counter
  repairs,          \* repair prompts issued since the last (re)try began
  last,             \* the latest answer of this runWithRepair, or NULL
  attempts,         \* metadata.attempts
  base,             \* the ChannelResult
  calls,            \* provider calls made: what they were for and what came back
  raw               \* result store: the call whose raw output is kept, 0 for none

vars == <<cfg, schema, pc, retryIndex, repairs, last, attempts, base, calls, raw>>

-----------------------------------------------------------------------------
(***************************************************************************)
(* Data.                                                                   *)
(***************************************************************************)

\* An answer: whether the provider flagged a refusal, and what parsing it gave.
Answers == [refused : BOOLEAN, parse : {"valid", "invalid_json", "schema_error"}]

\* What parseAndValidate can make of an answer: without a schema whatever parses
\* is valid; a schema that does not compile makes it throw once the JSON parses.
Parses(s) == CASE s = "none"     -> {"valid", "invalid_json"}
               [] s = "compiles" -> {"valid", "invalid_json", "schema_error"}
               [] s = "broken"   -> {"invalid_json"}

\* A refusal wins over whatever its text parses to.
OutcomeToStatus(a) == IF a.refused THEN "refused"
                      ELSE IF a.parse = "valid" THEN "ok" ELSE a.parse

\* Fault: the repair budget is compared with <= and one prompt too many is sent.
WantsRepair_OneTooMany(a, n) ==
  a.parse # "valid" /\ ~a.refused /\ a.parse \in cfg.repairOn /\ n <= cfg.maxRepairs

\* Fault: any unparsable answer is repaired, whatever repairOn lists.
WantsRepair_AnyInvalid(a, n) ==
  a.parse # "valid" /\ ~a.refused /\ n < cfg.maxRepairs

\* The while condition of runWithRepair and its break, for an answer a after
\* n repairs.
WantsRepair(a, n) ==
  /\ a.parse # "valid"
  /\ ~a.refused
  /\ a.parse \in cfg.repairOn
  /\ n < cfg.maxRepairs

\* What a provider call at pc is for.
CallKind == IF pc = "repair" THEN "repair" ELSE IF retryIndex = 0 THEN "initial" ELSE "retry"

FailureStatus(cond) == IF cond = "timeout" THEN "timeout" ELSE "error"

Attempted(kind, status) == attempts' = Append(attempts, [kind |-> kind, status |-> status])

Called(kind, reply) == calls' = Append(calls, [kind |-> kind, reply |-> reply])

\* Fault: the result starts without a status.
EmptyBase_NoStatus == [status |-> NULL, schemaValid |-> FALSE, rawOutputRef |-> FALSE,
                       usage |-> 0, repairAttempted |-> FALSE]

EmptyBase == [status |-> "ok", schemaValid |-> FALSE, rawOutputRef |-> FALSE,
              usage |-> 0, repairAttempted |-> FALSE]

-----------------------------------------------------------------------------
(***************************************************************************)
(* Actions.                                                                *)
(***************************************************************************)

Init ==
  /\ cfg \in Configs
  /\ schema \in {"none", "compiles", "broken"}
  /\ pc = "call"
  /\ retryIndex = 0 /\ repairs = 0 /\ last = NULL
  /\ attempts = <<>> /\ base = EmptyBase
  /\ calls = <<>> /\ raw = 0

\* Fault: the last retry is never taken.
Catch_OneTooFew(cond, b) ==
  /\ Attempted("retry", FailureStatus(cond))
  /\ IF cond \in cfg.retryOn /\ retryIndex + 1 < cfg.retryAttempts
       THEN pc' = "sleep" /\ base' = b
       ELSE pc' = "done"  /\ base' = [b EXCEPT !.status = FailureStatus(cond)]

\* The catch block: log the attempt, then either go round the retry loop again
\* or give up and report the error.
Catch(cond, b) ==
  /\ Attempted(IF retryIndex = 0 THEN "initial" ELSE "retry", FailureStatus(cond))
  /\ \/ /\ cond \in cfg.retryOn
        /\ retryIndex < cfg.retryAttempts
        /\ pc' = "sleep"
        /\ base' = b
     \/ /\ cond \notin cfg.retryOn \/ retryIndex >= cfg.retryAttempts
        /\ pc' = "done"
        /\ base' = [b EXCEPT !.status = FailureStatus(cond)]

\* The provider answers and the answer is parsed; runWithRepair logs it and
\* either issues a repair prompt or returns.
CallAnswered(a) ==
  /\ pc \in {"call", "repair"}
  /\ a.parse \in Parses(schema)
  /\ Called(CallKind, OutcomeToStatus(a))
  /\ Attempted(CallKind, OutcomeToStatus(a))
  /\ last' = a
  /\ IF WantsRepair(a, repairs)
       THEN pc' = "repair" /\ repairs' = repairs + 1
       ELSE pc' = "save"   /\ UNCHANGED repairs
  /\ UNCHANGED <<cfg, schema, retryIndex, base, raw>>

\* The adapter throws: nothing came back.
CallThrows(cond) ==
  /\ pc \in {"call", "repair"}
  /\ Called(CallKind, cond)
  /\ Catch(cond, base)
  /\ UNCHANGED <<cfg, schema, retryIndex, repairs, last, raw>>

\* The answer arrives but compiling the channel's schema throws: the retry loop
\* sees a provider error.
ValidatorThrows ==
  /\ pc \in {"call", "repair"}
  /\ schema = "broken"
  /\ Called(CallKind, "unchecked")
  /\ Catch("provider_error", base)
  /\ UNCHANGED <<cfg, schema, retryIndex, repairs, last, raw>>

\* Fault: the timer of the last backoff is never armed.
Sleep_Unarmed ==
  /\ pc = "sleep" /\ retryIndex + 1 < cfg.retryAttempts
  /\ retryIndex' = retryIndex + 1
  /\ pc' = "call" /\ repairs' = 0 /\ last' = NULL
  /\ UNCHANGED <<cfg, schema, attempts, base, calls, raw>>

\* The wait before the next try.
Sleep ==
  /\ pc = "sleep"
  /\ retryIndex' = retryIndex + 1
  /\ pc' = "call" /\ repairs' = 0 /\ last' = NULL
  /\ UNCHANGED <<cfg, schema, attempts, base, calls, raw>>

\* base once runWithRepair has returned and before its answer is persisted.
RepairsNoted == [base EXCEPT !.repairAttempted = @ \/ repairs > 0]

\* Fault: what is persisted is the answer the repairs started from.
SaveRaw_First ==
  /\ pc = "save"
  /\ raw' = Len(calls) - repairs
  /\ base' = [RepairsNoted EXCEPT !.status = OutcomeToStatus(last),
                !.schemaValid = (OutcomeToStatus(last) = "ok"), !.rawOutputRef = TRUE, !.usage = 1]
  /\ pc' = "done"
  /\ UNCHANGED <<cfg, schema, retryIndex, repairs, last, attempts, calls>>

\* Fault: a refusal whose text parses counts as schema valid.
SaveRaw_RefusedValid ==
  /\ pc = "save"
  /\ raw' = Len(calls)
  /\ base' = [RepairsNoted EXCEPT !.status = OutcomeToStatus(last),
                !.schemaValid = (last.parse = "valid"), !.rawOutputRef = TRUE, !.usage = 1]
  /\ pc' = "done"
  /\ UNCHANGED <<cfg, schema, retryIndex, repairs, last, attempts, calls>>

\* The answer is persisted and becomes the result.
SaveRaw ==
  /\ pc = "save"
  /\ raw' = Len(calls)
  /\ LET status == OutcomeToStatus(last) IN
       base' = [RepairsNoted EXCEPT !.status = status, !.schemaValid = (status = "ok"),
                                    !.rawOutputRef = TRUE, !.usage = 1]
  /\ pc' = "done"
  /\ UNCHANGED <<cfg, schema, retryIndex, repairs, last, attempts, calls>>

\* The store throws: the same catch block as a failed provider call.
SaveThrows(cond) ==
  /\ pc = "save"
  /\ Catch(cond, RepairsNoted)
  /\ UNCHANGED <<cfg, schema, retryIndex, repairs, last, calls, raw>>

Returned == pc = "done" /\ UNCHANGED vars

Next ==
  \/ \E a \in Answers : CallAnswered(a)
  \/ \E cond \in Transients : CallThrows(cond)
  \/ ValidatorThrows
  \/ Sleep
  \/ SaveRaw
  \/ \E cond \in Transients : SaveThrows(cond)
  \/ Returned

Spec == Init /\ [][Next]_vars

\* Timers fire, the store answers, and a provider call settles one way or the
\* other (the adapters bound it with their timeout).
FairSpec == Spec /\ WF_vars(Next)

-----------------------------------------------------------------------------
(***************************************************************************)
(* Properties.                                                             *)
(***************************************************************************)

CallReplies == Outcomes \cup Transients \cup {"unchecked"}
Kinds       == {"initial", "retry", "repair"}

BaseType == [status : Statuses, schemaValid : BOOLEAN, rawOutputRef : BOOLEAN,
             usage : {0, 1}, repairAttempted : BOOLEAN]

\* The type invariant: every variable of executeChannel has its type.
TypeOK ==
  /\ cfg \in Configs
  /\ schema \in {"none", "compiles", "broken"}
  /\ pc \in {"call", "repair", "save", "sleep", "done"}
  /\ retryIndex \in Nat /\ repairs \in Nat
  /\ last \in Answers \cup {NULL} /\ (pc = "save" => last \in Answers)
  /\ attempts \in Seq([kind : Kinds, status : Statuses])
  /\ base \in BaseType
  /\ calls \in Seq([kind : Kinds, reply : CallReplies])
  /\ raw \in Nat

\* The provider calls of n tries, each followed by at most m repair prompts;
\* those of a whole channel.
CallsIn(n, m) == n * (m + 1)
Budget        == CallsIn(cfg.retryAttempts + 1, cfg.maxRepairs)

\* However failures, invalid answers and store errors interleave, a channel
\* never makes more provider calls than its retry and repair settings allow.
CallBudget == Len(calls) <= Budget

\* A repair prompt is only ever sent straight after an answer of a kind listed
\* in repairOn: never after a valid answer, a refusal or a failed call.
RepairOnlyAfterRepairable ==
  \A i \in 1..Len(calls) :
    calls[i].kind = "repair" => i > 1 /\ calls[i - 1].reply \in cfg.repairOn

\* The raw output and the status of a settled channel belong together: what the
\* store keeps under its key is the answer of its last call, and the reported
\* status is what that answer was judged to be.
ResultIsLastAnswer ==
  pc = "done" /\ base.rawOutputRef =>
    /\ raw = Len(calls)
    /\ base.status = calls[Len(calls)].reply

\* A channel reports a failure only when the settings leave it nothing to try:
\* an error or timeout that is not retried or not any more, an invalid answer
\* that is not repaired or not any more.
GivesUpOnlyWhenSpent ==
  pc = "done" =>
    /\ base.status = "timeout" => "timeout" \notin cfg.retryOn \/ retryIndex = cfg.retryAttempts
    /\ base.status = "error" => "provider_error" \notin cfg.retryOn \/ retryIndex = cfg.retryAttempts
    /\ base.status \in Repairables => base.status \notin cfg.repairOn \/ repairs = cfg.maxRepairs

\* The inductive invariant behind CallBudget and the others: at each point of
\* executeChannel, how many calls this try and the earlier ones can have made,
\* and what the answer in hand is.
Earlier == CallsIn(retryIndex, cfg.maxRepairs)

CallsAccounted ==
  /\ retryIndex <= cfg.retryAttempts /\ repairs <= cfg.maxRepairs
  /\ pc = "call"   => repairs = 0 /\ Len(calls) <= Earlier
  /\ pc = "repair" => repairs > 0 /\ Len(calls) <= Earlier + repairs
  /\ Len(calls) <= Earlier + cfg.maxRepairs + 1
  /\ pc = "sleep"  => retryIndex < cfg.retryAttempts

AnswerInHand ==
  /\ pc = "repair" => Len(calls) > 0 /\ calls[Len(calls)].reply \in cfg.repairOn
  /\ pc = "save" =>
       /\ Len(calls) > 0 /\ calls[Len(calls)].reply = OutcomeToStatus(last)
       /\ ~WantsRepair(last, repairs)
  /\ pc # "done" => raw = 0 /\ base.rawOutputRef = FALSE /\ base.schemaValid = FALSE
  /\ pc = "done" =>
       /\ Len(calls) > 0
       /\ base.schemaValid <=> base.status = "ok"
       /\ base.rawOutputRef <=> base.status \in Outcomes

IInv == TypeOK /\ CallsAccounted /\ AnswerInHand /\ RepairOnlyAfterRepairable
               /\ ResultIsLastAnswer /\ GivesUpOnlyWhenSpent

\* executeChannel settles: no sequence of failures, invalid answers and store
\* errors keeps it calling for ever.
Settles == <>(pc = "done")

\* The behaviour promised to PipelineExecutor (see ChannelContract).
Settled == IF pc = "done"
             THEN [status |-> base.status, schemaValid |-> base.schemaValid,
                   rawOutputRef |-> base.rawOutputRef]
             ELSE NULL

Contract == INSTANCE ChannelContract WITH
  budget <- Budget, spent <- Len(calls), result <- Settled

\* Every run of executeChannel is one the contract allows, step by step.
RefinesContract == Contract!Spec

=============================================================================
