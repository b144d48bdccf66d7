------------------------------- MODULE Adapters -------------------------------
(***************************************************************************)
(* Provider adapters: a call is sent, sent again after a pause when the    *)
(* provider answers 429, and settles.  The OpenAI-compatible adapter runs  *)
(* one timer from the first request to the end, pauses included, and heeds *)
(* the caller's signal; the Anthropic adapter has neither.                 *)
(***************************************************************************)
EXTENDS Integers, Sequences, SequencesExt

CONSTANTS
  Invocations, \* adapter calls
  Kinds,       \* "openai", "anthropic", "delegated", "mock"
  Models,      \* model names as sequences of their segments
  Pricing,     \* price per known model name
  MaxRetries

ASSUME AdapterAssumption ==
  MaxRetries \in Nat /\ \A m \in DOMAIN Pricing : Pricing[m] \in Nat

VARIABLES
  apc,      \* per call: "idle", "sent", "pause", "settled"
  kind,     \* per call: its adapter
  attempt,  \* per call: 429s paused for
  timer,    \* per call: "none", "armed", "fired"
  aborted,  \* per call: the caller's signal
  result,   \* per call: what it returned or threw
  requests  \* history: requests sent per call

adapterVars == <<apc, kind, attempt, timer, aborted, result, requests>>

Unknown == -1  \* null, for a token count, a price or a cost
Nothing == [raw |-> "none", refused |-> FALSE, cost |-> Unknown]
Thrown(e) == [Nothing EXCEPT !.raw = e]

AdapterInit ==
  /\ apc = [c \in Invocations |-> "idle"]
  /\ kind \in [Invocations -> Kinds]
  /\ attempt = [c \in Invocations |-> 0]
  /\ timer = [c \in Invocations |-> "none"] /\ aborted = [c \in Invocations |-> FALSE]
  /\ result = [c \in Invocations |-> Nothing]
  /\ requests = [c \in Invocations |-> 0]

----------------------------------------------------------------------------
\* The price of a dated snapshot is that of the longest known name it begins with.
PriceForModel(model) ==
  LET known == {m \in DOMAIN Pricing : IsPrefix(m, model)}
  IN IF known = {} THEN Unknown
     ELSE Pricing[CHOOSE m \in known : \A n \in known : Len(n) <= Len(m)]

\* A cost needs a price and both token counts.
ComputeCost(model, input, output) ==
  IF PriceForModel(model) = Unknown \/ input = Unknown \/ output = Unknown THEN Unknown
  ELSE PriceForModel(model) * (input + output)

\* Content blocks: the first tool use, if structured output was asked for, else the text.
ExtractRawOutput(blocks, structured) ==
  IF structured /\ "tool_use" \in blocks THEN "json" ELSE IF "text" \in blocks THEN "text" ELSE "empty"

AnthropicResults ==
  {[raw |-> ExtractRawOutput(blocks, structured), refused |-> refused,
    cost |-> ComputeCost(model, input, output)] :
     blocks \in SUBSET {"tool_use", "text"}, structured, refused \in BOOLEAN,
     model \in Models, input, output \in {Unknown, 1}}

\* The first choice's content or nothing; its refusal or a content filter; no cost.
OpenAIResults == [raw : {"text", "empty"}, refused : BOOLEAN, cost : {Unknown}]

\* The mock answers by its mode, and at no cost.
MockResults ==
  {[raw |-> "text", refused |-> r, cost |-> 0] : r \in BOOLEAN} \cup {[raw |-> "json", refused |-> FALSE, cost |-> 0]}

DelegatedResults == {[raw |-> "text", refused |-> FALSE, cost |-> Unknown]}

End(c, r) ==
  /\ apc' = [apc EXCEPT ![c] = "settled"]
  /\ result' = [result EXCEPT ![c] = r]
  /\ timer' = [timer EXCEPT ![c] = "none"]

Local(c) == kind[c] \in {"delegated", "mock"}
Stopped(c) == kind[c] = "openai" /\ (timer[c] = "fired" \/ aborted[c])

----------------------------------------------------------------------------
\* fetch with the composed signal: refused at once when it has fired.
Fetch(c) ==
  IF Stopped(c)
  THEN End(c, Thrown("aborted")) /\ UNCHANGED requests
  ELSE /\ apc' = [apc EXCEPT ![c] = "sent"]
       /\ requests' = [requests EXCEPT ![c] = @ + 1]
       /\ UNCHANGED <<result, timer>>

\* execute begins: without a key it throws, else the timer is armed.
Execute(c) ==
  /\ apc[c] = "idle" /\ kind[c] = "openai"
  /\ \/ End(c, Thrown("missing_key")) /\ UNCHANGED requests
     \/ IF aborted[c] THEN Fetch(c)
        ELSE /\ timer' = [timer EXCEPT ![c] = "armed"]
             /\ apc' = [apc EXCEPT ![c] = "sent"]
             /\ requests' = [requests EXCEPT ![c] = @ + 1] /\ result' = result
  /\ UNCHANGED <<kind, attempt, aborted>>

BuildClient(c) ==
  /\ apc[c] = "idle" /\ kind[c] = "anthropic"
  /\ \/ End(c, Thrown("missing_key")) /\ UNCHANGED requests
     \/ Fetch(c)
  /\ UNCHANGED <<kind, attempt, aborted>>

\* The mock is there at once, the delegated agent's resolver may throw.
Resolve(c) ==
  /\ apc[c] = "idle" /\ Local(c)
  /\ \/ kind[c] = "mock" /\ \E r \in MockResults : End(c, r)
     \/ kind[c] = "delegated" /\ \E r \in DelegatedResults \cup {Thrown("error")} : End(c, r)
  /\ UNCHANGED <<kind, attempt, aborted, requests>>

\* 429: a pause, or an error like the others when the retries are spent.
Backoff(c) ==
  /\ apc[c] = "sent"
  /\ IF attempt[c] < MaxRetries
     THEN apc' = [apc EXCEPT ![c] = "pause"] /\ UNCHANGED <<result, timer>>
     ELSE End(c, Thrown("error"))
  /\ UNCHANGED <<kind, attempt, aborted, requests>>

\* Fault: the next request is sent without the signal.
WakeUp_NoSignal(c) ==
  /\ apc[c] = "pause"
  /\ attempt' = [attempt EXCEPT ![c] = @ + 1]
  /\ apc' = [apc EXCEPT ![c] = "sent"]
  /\ requests' = [requests EXCEPT ![c] = @ + 1]
  /\ UNCHANGED <<kind, aborted, result, timer>>

\* The pause is over; nothing cuts it short.
WakeUp(c) ==
  /\ apc[c] = "pause"
  /\ attempt' = [attempt EXCEPT ![c] = @ + 1]
  /\ Fetch(c)
  /\ UNCHANGED <<kind, aborted>>

Respond(c) ==
  /\ apc[c] = "sent"
  /\ \E r \in {Thrown("error")} \cup IF kind[c] = "openai" THEN OpenAIResults ELSE AnthropicResults :
       End(c, r)
  /\ UNCHANGED <<kind, attempt, aborted, requests>>

\* The timer fires or the caller aborts: a request under way is broken off, a
\* pause goes on, with the timer as it is then.
Stop(c, ticking) ==
  IF kind[c] = "openai" /\ apc[c] = "sent"
  THEN End(c, Thrown("aborted"))
  ELSE timer' = [timer EXCEPT ![c] = ticking] /\ UNCHANGED <<apc, result>>

TimerFires(c) ==
  /\ timer[c] = "armed"
  /\ Stop(c, "fired")
  /\ UNCHANGED <<kind, attempt, aborted, requests>>

CallerAborts(c) ==
  /\ apc[c] # "settled" /\ ~aborted[c]
  /\ aborted' = [aborted EXCEPT ![c] = TRUE]
  /\ Stop(c, timer[c])
  /\ UNCHANGED <<kind, attempt, requests>>

AdapterNext ==
  \E c \in Invocations : \/ Execute(c) \/ BuildClient(c) \/ Resolve(c) \/ Backoff(c) \/ WakeUp(c)
                   \/ Respond(c) \/ TimerFires(c) \/ CallerAborts(c)

AdapterSpec == AdapterInit /\ [][AdapterNext]_adapterVars

----------------------------------------------------------------------------
\* A call is sent at most once more than it may pause.  After its time is up or
\* its caller has given up, during a pause or a request, an OpenAI-compatible
\* call sends nothing more and returns no answer; and a call that is over leaves
\* no timer behind that would fire into another.
StopsForGood ==
  [][\A c \in Invocations :
       /\ requests'[c] <= MaxRetries + 1
       /\ Stopped(c) /\ apc[c] # "settled" =>
            requests'[c] = requests[c] /\ result'[c].raw \notin {"text", "json", "empty"}
       /\ apc'[c] = "settled" => timer'[c] = "none"]_adapterVars
=============================================================================
