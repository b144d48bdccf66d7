--------------------------- MODULE ChannelContract ---------------------------
(***************************************************************************)
(* What PipelineExecutor relies on when it awaits executeChannel: the      *)
(* channel spends a bounded number of provider calls, then settles exactly *)
(* once on a well-formed ChannelResult, and the raw output the result      *)
(* refers to is that of the last call it made.  How the calls are divided  *)
(* between retries and repairs is left open.                               *)
(***************************************************************************)
EXTENDS Integers

CONSTANT NULL

Answered == {"ok", "invalid_json", "schema_error", "refused"}
Failed   == {"timeout", "error"}

\* Only an answered channel has a raw output; only an ok one is schema valid.
Result(status) == [status |-> status, schemaValid |-> status = "ok",
                   rawOutputRef |-> status \in Answered]

VARIABLES
  budget,   \* provider calls the channel's settings allow
  spent,    \* provider calls made
  raw,      \* the call whose raw output is in the store, 0 for none
  result    \* NULL until the promise of executeChannel settles

vars == <<budget, spent, raw, result>>

Init == budget \in Nat \ {0} /\ spent = 0 /\ raw = 0 /\ result = NULL

Spend == spent < budget /\ spent' = spent + 1

\* A provider call the channel goes on from.
CallProvider == result = NULL /\ Spend /\ UNCHANGED <<budget, raw, result>>

\* The last answer is persisted and reported.
SettleAnswered(status) ==
  /\ result = NULL /\ spent > 0
  /\ raw' = spent /\ result' = Result(status)
  /\ UNCHANGED <<budget, spent>>

\* The channel gives up, on a call that failed or on a store that did.
SettleFailed(status) ==
  /\ result = NULL
  /\ Spend \/ (spent > 0 /\ UNCHANGED spent)
  /\ result' = Result(status)
  /\ UNCHANGED <<budget, raw>>

Next ==
  \/ CallProvider
  \/ \E status \in Answered : SettleAnswered(status)
  \/ \E status \in Failed : SettleFailed(status)

Safe == Init /\ [][Next]_vars

Spec == Safe /\ WF_vars(Next)
=============================================================================
