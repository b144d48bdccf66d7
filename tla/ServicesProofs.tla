----------------------------- MODULE ServicesProofs -----------------------------
(***************************************************************************)
(* The services around a run proved for every number of channels, requests *)
(* and transports: callbacks, access tokens, MCP sessions, adapters; and   *)
(* for every list of providers: the selection of a model.                  *)
(***************************************************************************)
EXTENDS Callbacks, TokenKeys, McpSessions, Adapters, Surfaces, ModelSelector, SumTheorems,
        SequenceTheorems, FiniteSetTheorems, TLAPS

\* What a callback request and the nonces are in every state.
CallbackTypes ==
  /\ restarts \in Nat
  /\ accepts \in [Callback -> Nat]
  /\ minted \in [Delegated -> 0..MaxDispatch]
  /\ cpc \in [Deliveries -> {"idle", "verify", "accepted", "rejected", "lost"}]
  /\ body \in [Deliveries -> Callback \cup {NoCallback}]
  /\ \A d \in Deliveries : cpc[d] = "verify" => body[d] \in Callback

\* A callback was accepted once for each restart at most, and once more only
\* while its nonce is remembered.
NonceSpent ==
  \A x \in Callback : accepts[x] <= restarts + (IF x \in seen THEN 1 ELSE 0)

CallbackInv == CallbackTypes /\ NonceSpent

\* The actions that leave the callbacks' verdicts and nonces alone.
LEMMA PutsKeep ==
  ASSUME CallbackInv, NEW c \in Delegated,
         Dispatch(c) \/ PutRead(c) \/ PutOpen(c) \/ PutWrite(c)
  PROVE  CallbackInv'
<1>1. minted' \in [Delegated -> 0..MaxDispatch]
  BY CallbackAssumption DEF CallbackInv, CallbackTypes, Dispatch, PutRead, PutOpen, PutWrite
<1>2. UNCHANGED <<restarts, accepts, seen, cpc, body>>
  BY DEF Dispatch, PutRead, PutOpen, PutWrite
<1> QED BY <1>1, <1>2 DEF CallbackInv, CallbackTypes, NonceSpent

\* A good callback is counted only when its nonce was not there, and leaves it there.
LEMMA VerifyKeeps ==
  ASSUME CallbackInv, NEW d \in Deliveries, Verify(d)
  PROVE  CallbackInv'
<1> USE DEF CallbackInv, CallbackTypes
<1>1. body[d] \in Callback /\ restarts' = restarts /\ minted' = minted
  BY DEF Verify
<1>2. /\ cpc' \in [Deliveries -> {"idle", "verify", "accepted", "rejected", "lost"}]
      /\ \A e \in Deliveries : cpc'[e] = "verify" => cpc[e] = "verify" /\ e # d
  BY DEF Verify
<1>3. /\ body' \in [Deliveries -> Callback \cup {NoCallback}]
      /\ \A e \in Deliveries : e # d => body'[e] = body[e]
  BY DEF Verify, Settle
<1>4. CASE UNCHANGED <<seen, accepts>>
  BY <1>1, <1>2, <1>3, <1>4 DEF NonceSpent
<1>5. CASE /\ seen' = seen \cup {body[d]}
           /\ accepts' = [accepts EXCEPT ![body[d]] = IF body[d] \in seen THEN @ ELSE @ + 1]
  <2>1. accepts' \in [Callback -> Nat]
    BY <1>1, <1>5
  <2>2. ASSUME NEW x \in Callback
        PROVE  accepts'[x] <= restarts + (IF x \in seen' THEN 1 ELSE 0)
    BY <1>1, <1>5 DEF NonceSpent
  <2> QED BY <1>1, <1>2, <1>3, <2>1, <2>2 DEF NonceSpent
<1> QED BY <1>4, <1>5 DEF Verify, MarkNonceSeen

\* A callback is accepted at most once, and once more for each restart.
THEOREM CallbacksOnce == CallbackSpec => []AcceptedOnce
<1>1. CallbackInit => CallbackInv
  BY CallbackAssumption DEF CallbackInit, CallbackInv, CallbackTypes, NonceSpent, Empty
<1>2. CallbackInv /\ [CallbackNext]_cbVars => CallbackInv'
  <2> SUFFICES ASSUME CallbackInv, [CallbackNext]_cbVars PROVE CallbackInv'
    OBVIOUS
  <2>1. ASSUME NEW c \in Delegated, Dispatch(c) \/ PutRead(c) \/ PutOpen(c) \/ PutWrite(c)
        PROVE  CallbackInv'
    BY <2>1, PutsKeep
  <2>2. ASSUME NEW d \in Deliveries, Arrive(d) PROVE CallbackInv'
    BY <2>2 DEF Arrive, CallbackInv, CallbackTypes, NonceSpent
  <2>3. ASSUME NEW d \in Deliveries, Verify(d) PROVE CallbackInv'
    BY <2>3, VerifyKeeps
  <2>4. CASE Expire
    BY <2>4 DEF Expire, CallbackInv, CallbackTypes, NonceSpent
  <2>5. CASE Restart
    <3>1. NonceSpent'
      BY <2>5 DEF Restart, CallbackInv, CallbackTypes, NonceSpent
    <3> QED BY <2>5, <3>1 DEF Restart, CallbackInv, CallbackTypes
  <2>6. CASE UNCHANGED cbVars
    BY <2>6 DEF cbVars, CallbackInv, CallbackTypes, NonceSpent
  <2> QED BY <2>1, <2>2, <2>3, <2>4, <2>5, <2>6 DEF CallbackNext
<1>3. CallbackInv => AcceptedOnce
  BY DEF CallbackInv, CallbackTypes, NonceSpent, AcceptedOnce
<1> QED BY <1>1, <1>2, <1>3, PTL DEF CallbackSpec

-----------------------------------------------------------------------------
\* Where a request is tells whether the provider was asked on its behalf, and
\* what a request looks up is what some request was answered.
KeyCacheInv ==
  /\ rpc \in [Requests -> {"idle", "static", "invalid", "valid", "unknown_key", "sent", "answered", "refreshed"}]
  /\ kid \in [Requests -> Kids]
  /\ asked \in [Requests -> {"no", "failed", "answered"}]
  /\ answer \in [Requests -> SUBSET Kids] /\ published \in SUBSET Kids
  /\ \A r \in Requests :
       /\ rpc[r] \in {"idle", "sent"} => asked[r] = "no"
       /\ rpc[r] \in {"answered", "refreshed"} => asked[r] = "answered"
       /\ rpc[r] = "refreshed" => \E q \in Requests : asked[q] = "answered" /\ keys = answer[q]
  /\ UnknownOnlyIfAsked

\* A request that was answered keeps its answer: only a request under way gets one.
LEMMA AnswersStay ==
  ASSUME KeyCacheInv, NEW r \in Requests, Answered(r), NEW q \in Requests, asked[q] = "answered"
  PROVE  asked'[q] = "answered" /\ answer'[q] = answer[q] /\ q # r
BY DEF KeyCacheInv, Answered

\* A key is called unknown only after the provider was asked for it.
THEOREM KeysAskedFor == KeysSpec => []UnknownOnlyIfAsked
<1>1. KeysInit => KeyCacheInv
  BY TokenKeysAssumption DEF KeysInit, KeyCacheInv, UnknownOnlyIfAsked
<1>2. KeyCacheInv /\ [KeysNext]_keyCacheVars => KeyCacheInv'
  <2> SUFFICES ASSUME KeyCacheInv, [KeysNext]_keyCacheVars PROVE KeyCacheInv'
    OBVIOUS
  <2>1. CASE Tick \/ Rotate \/ UNCHANGED keyCacheVars
    BY <2>1 DEF Tick, Rotate, keyCacheVars, KeyCacheInv, UnknownOnlyIfAsked
  <2>2. ASSUME NEW r \in Requests, StaticToken(r) \/ Malformed(r) PROVE KeyCacheInv'
    BY <2>2 DEF StaticToken, Malformed, KeyCacheInv, UnknownOnlyIfAsked
  <2>3. ASSUME NEW r \in Requests, GetKey(r) PROVE KeyCacheInv'
    <3>1. PICK k \in Kids, v \in Claims :
            /\ kid' = [kid EXCEPT ![r] = k]
            /\ rpc' = [rpc EXCEPT ![r] = IF MustRefresh(k) THEN "sent" ELSE v]
      BY <2>3 DEF GetKey, MustRefresh
    <3>2. UNCHANGED <<published, keys, answer, asked>> /\ rpc[r] = "idle" /\ v \in {"valid", "invalid"}
      BY <2>3 DEF GetKey, Claims
    <3> QED BY <3>1, <3>2 DEF KeyCacheInv, UnknownOnlyIfAsked
  <2>4. ASSUME NEW r \in Requests, Answered(r) PROVE KeyCacheInv'
    <3>1. /\ rpc' \in [Requests -> {"idle", "static", "invalid", "valid", "unknown_key",
                                    "sent", "answered", "refreshed"}]
          /\ asked' \in [Requests -> {"no", "failed", "answered"}]
          /\ kid' = kid /\ keys' = keys /\ published' = published
          /\ \A q \in Requests : q # r => rpc'[q] = rpc[q] /\ asked'[q] = asked[q] /\ answer'[q] = answer[q]
          /\ rpc'[r] \in {"answered", "unknown_key"}
          /\ rpc'[r] = "answered" => asked'[r] = "answered"
          /\ rpc'[r] = "unknown_key" => asked'[r] = "failed"
      BY <2>4 DEF Answered, KeyCacheInv
    <3>2. answer' \in [Requests -> SUBSET Kids]
      BY <2>4 DEF Answered, KeyCacheInv
    <3>3. ASSUME NEW q \in Requests, rpc'[q] = "refreshed"
          PROVE  \E p \in Requests : asked'[p] = "answered" /\ keys' = answer'[p]
      BY <2>4, <3>1, <3>3, AnswersStay DEF KeyCacheInv
    <3>4. UnknownOnlyIfAsked'
      BY <2>4, <3>1, AnswersStay DEF KeyCacheInv, UnknownOnlyIfAsked
    <3> QED BY <3>1, <3>2, <3>3, <3>4 DEF KeyCacheInv
  <2>5. ASSUME NEW r \in Requests, Refresh(r) PROVE KeyCacheInv'
    BY <2>5 DEF Refresh, KeyCacheInv, UnknownOnlyIfAsked
  <2>6. ASSUME NEW r \in Requests, Lookup(r) PROVE KeyCacheInv'
    BY <2>6 DEF Lookup, Claims, KeyCacheInv, UnknownOnlyIfAsked
  <2> QED BY <2>1, <2>2, <2>3, <2>4, <2>5, <2>6 DEF KeysNext
<1>3. KeyCacheInv => UnknownOnlyIfAsked
  BY DEF KeyCacheInv
<1> QED BY <1>1, <1>2, <1>3, PTL DEF KeysSpec

-----------------------------------------------------------------------------
\* A sequence without its i-th element.
LEMMA RemoveAtFacts ==
  ASSUME NEW S, NEW s \in Seq(S), NEW i \in 1..Len(s)
  PROVE  /\ RemoveAt(s, i) \in Seq(S)
         /\ Len(RemoveAt(s, i)) = Len(s) - 1
         /\ \A j \in 1..(Len(s) - 1) : RemoveAt(s, i)[j] = IF j < i THEN s[j] ELSE s[j + 1]
<1> DEFINE before == SubSeq(s, 1, i - 1)
           after == SubSeq(s, i + 1, Len(s))
<1>1. Len(s) \in Nat /\ i \in Nat /\ \A j \in 1..Len(s) : s[j] \in S
  OBVIOUS
<1>2. /\ before \in Seq(S) /\ Len(before) = i - 1
      /\ \A j \in 1..(i - 1) : before[j] = s[j]
  BY <1>1, SubSeqProperties
<1>3. /\ after \in Seq(S) /\ Len(after) = Len(s) - i
      /\ \A j \in 1..(Len(s) - i) : after[j] = s[j + i]
  <2>1. \A j \in (i + 1)..Len(s) : s[j] \in S
    BY <1>1
  <2>2. /\ after \in Seq(S) /\ Len(after) = (IF i + 1 <= Len(s) THEN Len(s) - (i + 1) + 1 ELSE 0)
        /\ \A j \in 1..(Len(s) - (i + 1) + 1) : after[j] = s[i + 1 + j - 1]
    BY <1>1, <2>1, SubSeqProperties
  <2> QED BY <1>1, <2>2
<1>4. RemoveAt(s, i) = before \o after
  BY DEF RemoveAt
<1> HIDE DEF before, after
<1>5. /\ before \o after \in Seq(S)
      /\ Len(before \o after) = Len(before) + Len(after)
      /\ \A j \in 1..(Len(before) + Len(after)) :
            (before \o after)[j] = IF j <= Len(before) THEN before[j] ELSE after[j - Len(before)]
  BY <1>2, <1>3, ConcatProperties
<1> QED BY <1>1, <1>2, <1>3, <1>4, <1>5

\* The map is a sequence of transports and agrees with where each of them is.
SessionsInv ==
  /\ sessions \in Seq(Transports)
  /\ tpc \in [Transports -> {"none", "connecting", "open", "refused", "closed"}]
  /\ NoOrphan

\* A transport that closes while it is open is taken out of the map, and no other is.
LEMMA OnCloseKeeps ==
  ASSUME SessionsInv, NEW t \in Transports, tpc[t] = "open", OnClose(t)
  PROVE  SessionsInv'
<1> DEFINE i == CHOOSE j \in 1..Len(sessions) : sessions[j] = t
<1>1. Contains(sessions, t)
  BY DEF SessionsInv, NoOrphan
<1>2. i \in 1..Len(sessions) /\ sessions[i] = t /\ sessions' = RemoveAt(sessions, i)
  BY <1>1 DEF Contains, OnClose, Without
<1> HIDE DEF i
<1>3. sessions \in Seq(Transports) /\ Len(sessions) \in Nat
  BY DEF SessionsInv
<1>4. /\ sessions' \in Seq(Transports) /\ Len(sessions') = Len(sessions) - 1
      /\ \A j \in 1..(Len(sessions) - 1) : sessions'[j] = IF j < i THEN sessions[j] ELSE sessions[j + 1]
  BY <1>2, <1>3, RemoveAtFacts
<1>5. /\ DOMAIN sessions = 1..Len(sessions) /\ DOMAIN sessions' = 1..(Len(sessions) - 1)
  BY <1>3, <1>4
<1>6. \A j, k \in 1..Len(sessions) : sessions[j] = sessions[k] => j = k
  BY <1>5 DEF SessionsInv, NoOrphan, IsInjective
<1>7. IsInjective(sessions')
  <2>1. SUFFICES ASSUME NEW j \in 1..(Len(sessions) - 1), NEW k \in 1..(Len(sessions) - 1),
                        sessions'[j] = sessions'[k]
                 PROVE  j = k
    BY <1>5 DEF IsInjective
  <2> DEFINE old(n) == IF n < i THEN n ELSE n + 1
  <2>2. sessions[old(j)] = sessions[old(k)] /\ old(j) \in 1..Len(sessions) /\ old(k) \in 1..Len(sessions)
    BY <1>2, <1>3, <1>4, <2>1
  <2>3. old(j) = old(k)
    BY <1>6, <2>2
  <2> QED BY <1>2, <1>3, <2>3
<1>8. ASSUME NEW u \in Transports
      PROVE  Contains(sessions', u) <=> Contains(sessions, u) /\ u # t
  <2>1. ASSUME NEW j \in 1..(Len(sessions) - 1), sessions'[j] = u
        PROVE  Contains(sessions, u) /\ u # t
    <3> DEFINE k == IF j < i THEN j ELSE j + 1
    <3>1. k \in 1..Len(sessions) /\ k # i /\ sessions[k] = u
      BY <1>2, <1>3, <1>4, <2>1
    <3>2. u # t
      BY <1>2, <1>6, <3>1
    <3> QED BY <3>1, <3>2 DEF Contains
  <2>2. ASSUME NEW k \in 1..Len(sessions), sessions[k] = u, u # t
        PROVE  Contains(sessions', u)
    <3>1. k # i
      BY <1>2, <2>2
    <3>2. \E j \in 1..(Len(sessions) - 1) : sessions'[j] = u
      <4>1. CASE k < i
        BY <1>2, <1>3, <1>4, <2>2, <4>1
      <4>2. CASE k > i
        <5>1. k - 1 \in 1..(Len(sessions) - 1) /\ ~(k - 1 < i) /\ (k - 1) + 1 = k
          BY <1>2, <1>3, <4>2
        <5> QED BY <1>4, <2>2, <5>1
      <4> QED BY <1>2, <1>3, <3>1, <4>1, <4>2
    <3> QED BY <1>4, <3>2 DEF Contains
  <2> QED BY <1>4, <2>1, <2>2 DEF Contains
<1> QED BY <1>4, <1>7, <1>8 DEF SessionsInv, NoOrphan, OnClose

\* A transport that gets its id is new in the map.
LEMMA OpenKeeps ==
  ASSUME SessionsInv, NEW t \in Transports, tpc[t] = "connecting",
         tpc' = [tpc EXCEPT ![t] = "open"], sessions' = Append(sessions, t)
  PROVE  SessionsInv'
<1>1. sessions \in Seq(Transports) /\ Len(sessions) \in Nat /\ ~Contains(sessions, t)
  BY DEF SessionsInv, NoOrphan
<1>2. /\ sessions' \in Seq(Transports) /\ Len(sessions') = Len(sessions) + 1
      /\ \A i \in 1..Len(sessions) : sessions'[i] = sessions[i]
      /\ sessions'[Len(sessions) + 1] = t
  BY <1>1, AppendProperties
<1>3. DOMAIN sessions = 1..Len(sessions) /\ DOMAIN sessions' = 1..(Len(sessions) + 1)
  BY <1>1, <1>2
<1>4. IsInjective(sessions')
  BY <1>1, <1>2, <1>3 DEF SessionsInv, NoOrphan, IsInjective, Contains
<1>5. \A u \in Transports : Contains(sessions', u) <=> Contains(sessions, u) \/ u = t
  BY <1>1, <1>2 DEF Contains
<1> QED BY <1>2, <1>4, <1>5 DEF SessionsInv, NoOrphan

\* The shutdown reaches every open transport through the map.
THEOREM SessionsReached == McpSpec => []NoOrphan
<1>1. McpInit => SessionsInv
  BY DEF McpInit, SessionsInv, NoOrphan, Contains, IsInjective
<1>2. SessionsInv /\ [McpNext]_mcpVars => SessionsInv'
  <2> SUFFICES ASSUME SessionsInv, [McpNext]_mcpVars PROVE SessionsInv'
    OBVIOUS
  <2>1. ASSUME NEW t \in Transports, Initialize(t) PROVE SessionsInv'
    BY <2>1 DEF Initialize, SessionsInv, NoOrphan
  <2>2. ASSUME NEW t \in Transports, Initialized(t) PROVE SessionsInv'
    <3>1. CASE tpc' = [tpc EXCEPT ![t] = "refused"] /\ sessions' = sessions
      BY <2>2, <3>1 DEF Initialized, SessionsInv, NoOrphan
    <3> QED BY <2>2, <3>1, OpenKeeps DEF Initialized
  <2>3. ASSUME NEW t \in Transports, Delete(t) PROVE SessionsInv'
    BY <2>3, OnCloseKeeps DEF Delete
  <2>4. CASE CloseNext
    <3>1. Head(sessions) \in Transports /\ Contains(sessions, Head(sessions))
      BY <2>4 DEF CloseNext, SessionsInv, Contains
    <3>2. tpc[Head(sessions)] = "open"
      BY <3>1 DEF SessionsInv, NoOrphan
    <3> QED BY <2>4, <3>1, <3>2, OnCloseKeeps DEF CloseNext
  <2>5. CASE CloseAll \/ CloseOver \/ UNCHANGED mcpVars
    BY <2>5 DEF CloseAll, CloseOver, mcpVars, SessionsInv, NoOrphan
  <2> QED BY <2>1, <2>2, <2>3, <2>4, <2>5 DEF McpNext
<1>3. SessionsInv => NoOrphan
  BY DEF SessionsInv
<1> QED BY <1>1, <1>2, <1>3, PTL DEF McpSpec

-----------------------------------------------------------------------------
\* A call has sent one request more than it has paused for, has no result
\* before it is over and no timer after it; under way, it has not been stopped.
CallInv ==
  /\ apc \in [Invocations -> {"idle", "sent", "pause", "settled"}]
  /\ attempt \in [Invocations -> Nat] /\ requests \in [Invocations -> Nat]
  /\ timer \in [Invocations -> {"none", "armed", "fired"}]
  /\ aborted \in [Invocations -> BOOLEAN]
  /\ DOMAIN result = Invocations
  /\ \A c \in Invocations :
       /\ attempt[c] <= MaxRetries /\ requests[c] <= attempt[c] + 1
       /\ apc[c] = "pause" => attempt[c] < MaxRetries
       /\ apc[c] = "idle" => requests[c] = 0 /\ timer[c] = "none"
       /\ apc[c] = "settled" => timer[c] = "none"
       /\ apc[c] = "sent" => ~Stopped(c)
       /\ apc[c] # "settled" => result[c] = Nothing

\* What one step may do to a call, whatever the step.
CallStep(c) ==
  Stopped(c) /\ apc[c] # "settled" =>
    requests'[c] = requests[c] /\ result'[c].raw \notin {"text", "json", "empty"}

\* An error is no answer.
LEMMA ThrownRaw ==
  \A e : Thrown(e).raw = e
BY DEF Thrown, Nothing

\* A call that ends, by an answer or an error, with its requests as they were.
LEMMA EndKeeps ==
  ASSUME CallInv, NEW c \in Invocations, NEW r, End(c, r), apc[c] # "settled",
         UNCHANGED <<kind, requests>>,
         aborted' \in [Invocations -> BOOLEAN], \A d \in Invocations \ {c} : aborted'[d] = aborted[d],
         attempt' \in [Invocations -> Nat], \A d \in Invocations \ {c} : attempt'[d] = attempt[d],
         attempt'[c] >= attempt[c], attempt'[c] <= MaxRetries,
         Stopped(c) => r.raw \notin {"text", "json", "empty"}
  PROVE  CallInv' /\ \A d \in Invocations : CallStep(d)
<1>1. /\ apc' \in [Invocations -> {"idle", "sent", "pause", "settled"}]
      /\ timer' \in [Invocations -> {"none", "armed", "fired"}]
      /\ DOMAIN result' = Invocations
      /\ apc'[c] = "settled" /\ timer'[c] = "none" /\ result'[c] = r
      /\ \A d \in Invocations \ {c} : apc'[d] = apc[d] /\ timer'[d] = timer[d] /\ result'[d] = result[d]
  BY DEF CallInv, End
<1>2. requests[c] <= attempt'[c] + 1
  BY DEF CallInv
<1>3. CallInv'
  BY <1>1, <1>2 DEF CallInv, Stopped
<1>4. Nothing.raw = "none"
  BY DEF Nothing
<1>5. ASSUME NEW d \in Invocations PROVE CallStep(d)
  BY <1>1, <1>4 DEF CallStep, CallInv
<1> QED BY <1>3, <1>5

\* A call that is not stopped sends a request.
LEMMA SendKeeps ==
  ASSUME CallInv, NEW c \in Invocations, apc[c] \in {"idle", "pause"},
         apc' = [apc EXCEPT ![c] = "sent"], requests' = [requests EXCEPT ![c] = @ + 1],
         UNCHANGED <<kind, result, aborted>>, ~Stopped(c), ~Stopped(c)',
         timer' \in [Invocations -> {"none", "armed", "fired"}],
         \A d \in Invocations \ {c} : timer'[d] = timer[d],
         attempt' \in [Invocations -> Nat], \A d \in Invocations \ {c} : attempt'[d] = attempt[d],
         attempt'[c] <= MaxRetries, requests[c] <= attempt'[c]
  PROVE  CallInv' /\ \A d \in Invocations : CallStep(d)
<1>0. apc \in [Invocations -> {"idle", "sent", "pause", "settled"}] /\ requests \in [Invocations -> Nat]
  BY DEF CallInv
<1>1. /\ apc' \in [Invocations -> {"idle", "sent", "pause", "settled"}] /\ apc'[c] = "sent"
      /\ \A d \in Invocations \ {c} : apc'[d] = apc[d]
  BY <1>0
<1>2. /\ requests' \in [Invocations -> Nat] /\ requests'[c] <= attempt'[c] + 1
      /\ \A d \in Invocations \ {c} : requests'[d] = requests[d]
  BY <1>0
<1>3. CallInv'
  BY <1>1, <1>2 DEF CallInv, Stopped
<1>4. Nothing.raw = "none"
  BY DEF Nothing
<1> QED BY <1>1, <1>3, <1>4 DEF CallInv, CallStep

\* fetch: refused when the signal has fired, sent otherwise.
LEMMA FetchKeeps ==
  ASSUME CallInv, NEW c \in Invocations, apc[c] \in {"idle", "pause"}, Fetch(c),
         UNCHANGED <<kind, aborted>>,
         attempt' \in [Invocations -> Nat], \A d \in Invocations \ {c} : attempt'[d] = attempt[d],
         attempt'[c] >= attempt[c], attempt'[c] <= MaxRetries, requests[c] <= attempt'[c]
  PROVE  CallInv' /\ \A d \in Invocations : CallStep(d)
<1>1. CASE Stopped(c)
  <2>1. End(c, Thrown("aborted")) /\ UNCHANGED requests /\ Thrown("aborted").raw = "aborted"
    BY <1>1, ThrownRaw DEF Fetch
  <2>2. aborted' \in [Invocations -> BOOLEAN] /\ aborted' = aborted
    BY DEF CallInv
  <2> QED BY <2>1, <2>2, EndKeeps
<1>2. CASE ~Stopped(c)
  <2>1. ~Stopped(c)'
    BY <1>2 DEF Stopped, Fetch
  <2>2. timer' \in [Invocations -> {"none", "armed", "fired"}] /\ timer' = timer
    BY <1>2 DEF Fetch, CallInv
  <2> QED BY <1>2, <2>1, <2>2, SendKeeps DEF Fetch
<1> QED BY <1>1, <1>2

\* One step keeps the invariant and does nothing to a call that was stopped.
LEMMA CallSteps ==
  ASSUME CallInv, NEW c \in Invocations,
         \/ Execute(c) \/ BuildClient(c) \/ Resolve(c) \/ Backoff(c) \/ WakeUp(c)
         \/ Respond(c) \/ TimerFires(c) \/ CallerAborts(c)
  PROVE  CallInv' /\ \A d \in Invocations : CallStep(d)
<1> DEFINE Fine == CallInv' /\ \A d \in Invocations : CallStep(d)
<1>1. /\ attempt \in [Invocations -> Nat] /\ aborted \in [Invocations -> BOOLEAN]
      /\ attempt[c] <= MaxRetries /\ attempt[c] \in Nat /\ MaxRetries \in Nat
      /\ apc[c] = "idle" => requests[c] <= attempt[c]
  BY AdapterAssumption DEF CallInv
<1>2. ASSUME NEW r, End(c, r), apc[c] # "settled", UNCHANGED <<kind, attempt, aborted, requests>>,
             Stopped(c) => r.raw \notin {"text", "json", "empty"}
      PROVE  Fine
  BY <1>1, <1>2, EndKeeps
<1>3. ASSUME NEW e \in {"error", "missing_key", "aborted"}, End(c, Thrown(e)), apc[c] # "settled",
             UNCHANGED <<kind, attempt, aborted, requests>>
      PROVE  Fine
  BY <1>2, <1>3, ThrownRaw
<1>4. CASE Execute(c)
  <2>1. CASE Fetch(c)
    BY <1>1, <1>4, <2>1, FetchKeeps DEF Execute
  <2>2. CASE End(c, Thrown("missing_key")) /\ UNCHANGED requests
    BY <1>3, <1>4, <2>2 DEF Execute
  <2>3. CASE /\ ~aborted[c]
             /\ timer' = [timer EXCEPT ![c] = "armed"]
             /\ apc' = [apc EXCEPT ![c] = "sent"]
             /\ requests' = [requests EXCEPT ![c] = @ + 1] /\ result' = result
    <3>1. /\ timer' \in [Invocations -> {"none", "armed", "fired"}] /\ timer'[c] = "armed"
          /\ \A d \in Invocations \ {c} : timer'[d] = timer[d]
          /\ timer[c] = "none"
      BY <1>4, <2>3 DEF CallInv, Execute
    <3>2. ~Stopped(c) /\ ~Stopped(c)'
      BY <1>4, <2>3, <3>1 DEF Stopped, Execute
    <3> QED BY <1>1, <1>4, <2>3, <3>1, <3>2, SendKeeps DEF Execute
  <2> QED BY <1>4, <2>1, <2>2, <2>3 DEF Execute
<1>5. CASE BuildClient(c)
  <2>1. CASE Fetch(c)
    BY <1>1, <1>5, <2>1, FetchKeeps DEF BuildClient
  <2> QED BY <1>3, <1>5, <2>1 DEF BuildClient
<1>6. CASE Resolve(c)
  <2>1. ~Stopped(c) /\ apc[c] # "settled"
    BY <1>6 DEF Resolve, Stopped
  <2> QED BY <1>2, <1>6, <2>1 DEF Resolve
<1>7. CASE Backoff(c)
  <2>1. CASE attempt[c] < MaxRetries
    <3>1. apc' = [apc EXCEPT ![c] = "pause"] /\ UNCHANGED <<kind, attempt, aborted, requests, result, timer>>
      BY <1>7, <2>1 DEF Backoff
    <3>2. Nothing.raw = "none"
      BY DEF Nothing
    <3>3. apc' \in [Invocations -> {"idle", "sent", "pause", "settled"}] /\ apc'[c] = "pause"
          /\ apc[c] = "sent" /\ \A d \in Invocations \ {c} : apc'[d] = apc[d]
      BY <1>7, <3>1 DEF CallInv, Backoff
    <3>4. CallInv'
      BY <2>1, <3>1, <3>3 DEF CallInv, Stopped
    <3> QED BY <3>1, <3>2, <3>4 DEF CallInv, CallStep
  <2> QED BY <1>3, <1>7, <2>1 DEF Backoff
<1>8. CASE WakeUp(c)
  <2>1. /\ attempt' \in [Invocations -> Nat] /\ \A d \in Invocations \ {c} : attempt'[d] = attempt[d]
        /\ attempt'[c] = attempt[c] + 1 /\ attempt[c] < MaxRetries /\ requests[c] <= attempt[c] + 1
        /\ requests[c] \in Nat
    BY <1>1, <1>8 DEF WakeUp, CallInv
  <2>2. attempt'[c] >= attempt[c] /\ attempt'[c] <= MaxRetries /\ requests[c] <= attempt'[c]
    BY <1>1, <2>1
  <2> QED BY <1>8, <2>1, <2>2, FetchKeeps DEF WakeUp
<1>9. CASE Respond(c)
  <2>1. ~Stopped(c) /\ apc[c] # "settled"
    BY <1>9 DEF Respond, CallInv
  <2> QED BY <1>2, <1>9, <2>1 DEF Respond
<1>10. CASE TimerFires(c)
  <2>1. apc[c] # "settled"
    BY <1>10 DEF TimerFires, CallInv
  <2>2. CASE kind[c] = "openai" /\ apc[c] = "sent"
    BY <1>3, <1>10, <2>1, <2>2 DEF TimerFires, Stop
  <2>3. CASE ~(kind[c] = "openai" /\ apc[c] = "sent")
    <3>1. timer' = [timer EXCEPT ![c] = "fired"] /\ UNCHANGED <<apc, result, kind, attempt, aborted, requests>>
      BY <1>10, <2>3 DEF TimerFires, Stop
    <3>2. Nothing.raw = "none" /\ apc[c] # "idle"
      BY <1>10 DEF Nothing, TimerFires, CallInv
    <3> QED BY <2>1, <2>3, <3>1, <3>2 DEF CallInv, CallStep, Stopped
  <2> QED BY <2>2, <2>3
<1>11. CASE CallerAborts(c)
  <2>1. apc[c] # "settled" /\ UNCHANGED <<kind, attempt, requests>>
        /\ aborted' \in [Invocations -> BOOLEAN] /\ \A d \in Invocations \ {c} : aborted'[d] = aborted[d]
    BY <1>1, <1>11 DEF CallerAborts
  <2>2. CASE kind[c] = "openai" /\ apc[c] = "sent"
    <3>1. End(c, Thrown("aborted")) /\ Thrown("aborted").raw = "aborted"
      BY <1>11, <2>2, ThrownRaw DEF CallerAborts, Stop
    <3> QED BY <1>1, <2>1, <3>1, EndKeeps
  <2>3. CASE ~(kind[c] = "openai" /\ apc[c] = "sent")
    <3>1. timer' = timer /\ UNCHANGED <<apc, result>>
      BY <1>11, <2>3 DEF CallerAborts, Stop, CallInv
    <3>2. Nothing.raw = "none"
      BY DEF Nothing
    <3> QED BY <2>1, <2>3, <3>1, <3>2 DEF CallInv, CallStep, Stopped
  <2> QED BY <2>2, <2>3
<1> QED BY <1>4, <1>5, <1>6, <1>7, <1>8, <1>9, <1>10, <1>11

\* No call sends more than it may, none that is stopped sends or answers again,
\* and none leaves a timer behind.
THEOREM CallsStop == AdapterSpec => StopsForGood
<1>1. AdapterInit => CallInv
  BY AdapterAssumption DEF AdapterInit, CallInv, Nothing
<1>2. CallInv /\ [AdapterNext]_adapterVars => CallInv'
  <2>1. ASSUME CallInv, UNCHANGED adapterVars PROVE CallInv'
    BY <2>1 DEF adapterVars, CallInv, Stopped
  <2> QED BY <2>1, CallSteps DEF AdapterNext
<1>3. CallInv /\ CallInv' /\ [AdapterNext]_adapterVars =>
        [\A c \in Invocations :
           /\ requests'[c] <= MaxRetries + 1
           /\ Stopped(c) /\ apc[c] # "settled" =>
                requests'[c] = requests[c] /\ result'[c].raw \notin {"text", "json", "empty"}
           /\ apc'[c] = "settled" => timer'[c] = "none"]_adapterVars
  <2>1. ASSUME CallInv, CallInv', AdapterNext, NEW c \in Invocations
        PROVE  /\ requests'[c] <= MaxRetries + 1
               /\ apc'[c] = "settled" => timer'[c] = "none"
    BY <2>1, AdapterAssumption DEF CallInv
  <2>2. ASSUME CallInv, AdapterNext, NEW c \in Invocations
        PROVE  CallStep(c)
    BY <2>2, CallSteps DEF AdapterNext
  <2> QED BY <2>1, <2>2 DEF CallStep
<1> QED BY <1>1, <1>2, <1>3, PTL DEF AdapterSpec, StopsForGood

-----------------------------------------------------------------------------
(***************************************************************************)
(* The combined server proved for every set of clients, tokens and         *)
(* pipelines and every configuration: who is turned away, and that what    *)
(* was answered and what was run agree.                                    *)
(***************************************************************************)

SurfaceTypes ==
  /\ spc \in [Clients -> {"idle", "verifying", "handling", "starting", "running", "done"}]
  /\ entitled \in [Clients -> {"yes", "jwt", "no"}]
  /\ DOMAIN cred = Clients /\ DOMAIN reply = Clients
  /\ \A x \in stored : x.by \in Clients

\* Where a request is tells what its caller holds: only an answer ends it, a
\* caller without a credential gets no further than the verifier, and nobody
\* whom the static token lets in waits there.
Admitted ==
  \A q \in Clients :
    /\ spc[q] # "done" => reply[q] = NoReply /\ \A x \in stored : x.by # q
    /\ entitled[q] = "no" => spc[q] \in {"idle", "verifying", "done"}
    /\ spc[q] = "verifying" => entitled[q] # "yes" /\ (entitled[q] = "no" => cred[q] # "jwt")

SurfaceInv == SurfaceTypes /\ Admitted /\ Gated /\ RunsAccounted

\* The answer a handler may give: it names no run, turns nobody away and is no
\* card, or the card says what the server does.
Plainly(a) ==
  /\ a.run = 0 /\ a.kind # "unauthorized" /\ a.kind # "task"
  /\ a.kind = "card" => ("secured" \in a.said <=> Enforced)

\* Answers made of a word alone.
LEMMA SaysFields ==
  \A k : Says(k).kind = k /\ Says(k).run = 0
BY DEF Says, NoReply

\* Whatever a request asks for, its handler runs a pipeline or gives one of
\* these answers.
LEMMA RouteAnswers ==
  ASSUME NEW r
  PROVE  Route(r) \in {"execute", "ok", "run_not_found", "bad_request", "pipeline_not_found", "unknown_tool",
                       "no_session", "invalid_request", "unsupported_method", "invalid_params"}
<1>1. RestRoute(r) \in {"execute", "ok", "run_not_found", "bad_request", "pipeline_not_found"}
  BY DEF RestRoute, RunsRoute, RunRoute, ExportRoute, SpecRoute, ValidateRoute, RerunRoute
<1>2. McpHandle(r) \in {"no_session", "execute", "ok", "run_not_found", "pipeline_not_found", "unknown_tool"}
  BY DEF McpHandle, CallTool
<1>3. Send(r) \in {"invalid_request", "unsupported_method", "invalid_params", "pipeline_not_found", "execute"}
  BY DEF Send
<1> QED BY <1>1, <1>2, <1>3 DEF Route

\* The cards, for a pipeline there is and for one there is not.
LEMMA CardAnswers ==
  /\ \A r : Plainly(CardRoute(r))
  /\ Plainly(IndexCard)
<1>1. AgentCard.kind = "card" /\ AgentCard.run = 0 /\ AgentCard.said = (IF Enforced THEN {"secured"} ELSE {})
  BY DEF AgentCard, Says, NoReply
<1>2. Plainly(AgentCard)
  BY <1>1 DEF Plainly
<1>3. Plainly(Says("pipeline_not_found")) /\ Plainly(Says("index"))
  BY SaysFields DEF Plainly
<1> QED BY <1>2, <1>3 DEF CardRoute, IndexCard

-----------------------------------------------------------------------------
\* A request that is answered without a run, when its answer suits its caller.
LEMMA AnswerKeeps ==
  ASSUME SurfaceInv, NEW q \in Clients, NEW a, Answer(q, a), spc[q] # "done",
         UNCHANGED <<config, stored>>, DOMAIN cred' = Clients,
         entitled' \in [Clients -> {"yes", "jwt", "no"}],
         \A p \in Clients \ {q} : entitled'[p] = entitled[p] /\ cred'[p] = cred[p],
         entitled'[q] = "no" => a.kind = "unauthorized",
         Plainly(a) \/ (a = Says("unauthorized") /\ entitled'[q] # "yes")
  PROVE  SurfaceInv'
<1>1. /\ spc' \in [Clients -> {"idle", "verifying", "handling", "starting", "running", "done"}]
      /\ DOMAIN reply' = Clients /\ spc'[q] = "done" /\ reply'[q] = a
      /\ \A p \in Clients \ {q} : spc'[p] = spc[p] /\ reply'[p] = reply[p]
  BY DEF SurfaceInv, SurfaceTypes, Answer
<1>2. a.run = 0 /\ a.kind # "task" /\ (a.kind = "unauthorized" => entitled'[q] # "yes")
      /\ (a.kind = "card" => ("secured" \in a.said <=> Enforced))
  BY SaysFields DEF Plainly
<1>3. \A x \in stored : x.by # q
  BY DEF SurfaceInv, Admitted
<1>4. SurfaceTypes'
  BY <1>1 DEF SurfaceInv, SurfaceTypes
<1>5. Admitted'
  BY <1>1 DEF SurfaceInv, Admitted
<1>6. Gated'
  BY <1>1, <1>2, <1>3 DEF SurfaceInv, Gated, Enforced, Enabled
<1>7. RunsAccounted'
  <2>1. \A x \in stored' : reply'[x.by] = reply[x.by]
    BY <1>1, <1>3 DEF SurfaceInv, SurfaceTypes
  <2>2. \A p \in Clients : reply'[p].run # 0 => reply'[p] = reply[p]
    BY <1>1, <1>2
  <2> QED BY <2>1, <2>2 DEF SurfaceInv, RunsAccounted
<1> QED BY <1>4, <1>5, <1>6, <1>7 DEF SurfaceInv

\* A request that goes on to another place.
LEMMA MoveKeeps ==
  ASSUME SurfaceInv, NEW q \in Clients, NEW place \in {"verifying", "handling", "starting", "running"},
         spc' = [spc EXCEPT ![q] = place], spc[q] # "done",
         UNCHANGED <<config, stored, reply>>, DOMAIN cred' = Clients,
         entitled' \in [Clients -> {"yes", "jwt", "no"}],
         \A p \in Clients \ {q} : entitled'[p] = entitled[p] /\ cred'[p] = cred[p],
         entitled'[q] = "no" => place = "verifying",
         place = "verifying" => entitled'[q] # "yes" /\ (entitled'[q] = "no" => cred'[q] # "jwt")
  PROVE  SurfaceInv'
<1>1. /\ spc' \in [Clients -> {"idle", "verifying", "handling", "starting", "running", "done"}]
      /\ spc'[q] = place /\ \A p \in Clients \ {q} : spc'[p] = spc[p]
  BY DEF SurfaceInv, SurfaceTypes
<1>2. reply[q] = NoReply /\ \A x \in stored : x.by # q
  BY DEF SurfaceInv, Admitted
<1>3. SurfaceTypes' /\ RunsAccounted'
  BY <1>1 DEF SurfaceInv, SurfaceTypes, RunsAccounted
<1>4. Admitted'
  BY <1>1, <1>2 DEF SurfaceInv, Admitted
<1>5. Gated'
  <2>1. NoReply.kind = "none"
    BY DEF NoReply
  <2> QED BY <1>2, <2>1 DEF SurfaceInv, Gated
<1> QED BY <1>3, <1>4, <1>5 DEF SurfaceInv

-----------------------------------------------------------------------------
\* A request arrives: its caller's credential decides where it goes.
LEMMA AdmitKeeps ==
  ASSUME SurfaceInv, NEW q \in Clients, Admit(q)
  PROVE  SurfaceInv'
<1>c. PICK r \in Calls, header \in Credentials, meta \in Credentials :
        LET c == Presented(r, header, meta)
        IN  entitled' = [entitled EXCEPT ![q] = Entitlement(r, c)] /\ Authorize(q, r, c)
  BY DEF Admit
<1> DEFINE c == Presented(r, header, meta)
<1>1. entitled' = [entitled EXCEPT ![q] = Entitlement(r, c)] /\ Authorize(q, r, c)
  BY <1>c
<1> HIDE DEF c
<1> DEFINE open == ~Enforced \/ Public(r)
           holds == open \/ c \in config.tokens
           verdict == IF holds THEN "yes" ELSE IF config.oidc /\ c = "jwt" THEN "jwt" ELSE "no"
<1>2. entitled' = [entitled EXCEPT ![q] = verdict]
  BY <1>1 DEF Entitlement
<1>3. /\ entitled' \in [Clients -> {"yes", "jwt", "no"}] /\ entitled'[q] = verdict
      /\ \A p \in Clients \ {q} : entitled'[p] = entitled[p]
  BY <1>2 DEF SurfaceInv, SurfaceTypes
<1>4. StaticOk(c) <=> c \in config.tokens
  BY DEF StaticOk, TokenVerify, Enabled
<1>5. UNCHANGED <<config, stored>> /\ spc[q] = "idle"
  BY DEF Admit
<1>6. DOMAIN cred = Clients
  BY DEF SurfaceInv, SurfaceTypes
<1>7. CASE ~holds /\ ~config.oidc
  <2>1. Answer(q, Says("unauthorized")) /\ cred' = cred
    BY <1>1, <1>4, <1>7 DEF Authorize
  <2>2. entitled'[q] = "no"
    BY <1>3, <1>7
  <2>3. Says("unauthorized").kind = "unauthorized"
    BY SaysFields
  <2> HIDE DEF open, holds, verdict
  <2> QED BY <1>3, <1>5, <1>6, <2>1, <2>2, <2>3, AnswerKeeps
<1>8. CASE holds
  <2>1. spc' = [spc EXCEPT ![q] = "handling"] /\ cred' = cred /\ reply' = reply
    BY <1>1, <1>4, <1>8 DEF Authorize
  <2>2. entitled'[q] = "yes"
    BY <1>3, <1>8
  <2> HIDE DEF open, holds, verdict
  <2> QED BY <1>3, <1>5, <1>6, <2>1, <2>2, MoveKeeps
<1>9. CASE ~holds /\ config.oidc
  <2>1. spc' = [spc EXCEPT ![q] = "verifying"] /\ cred' = [cred EXCEPT ![q] = c] /\ reply' = reply
    BY <1>1, <1>4, <1>9 DEF Authorize
  <2>2. entitled'[q] # "yes" /\ (entitled'[q] = "no" => c # "jwt")
    BY <1>3, <1>9
  <2>3. DOMAIN cred' = Clients /\ cred'[q] = c /\ \A p \in Clients \ {q} : cred'[p] = cred[p]
    BY <1>6, <2>1
  <2> HIDE DEF open, holds, verdict
  <2> QED BY <1>3, <1>5, <2>1, <2>2, <2>3, MoveKeeps
<1> QED BY <1>7, <1>8, <1>9

\* The verifier lets a good access token pass and turns every other away.
LEMMA VerifiedKeeps ==
  ASSUME SurfaceInv, NEW q \in Clients, Verified(q)
  PROVE  SurfaceInv'
<1>1. /\ entitled' = entitled /\ entitled \in [Clients -> {"yes", "jwt", "no"}]
      /\ entitled[q] # "yes" /\ (entitled[q] = "no" => cred[q] # "jwt")
      /\ UNCHANGED <<config, stored>> /\ spc[q] = "verifying"
      /\ DOMAIN cred' = Clients /\ \A p \in Clients \ {q} : cred'[p] = cred[p]
  BY DEF SurfaceInv, SurfaceTypes, Admitted, Verified
<1>2. CASE cred[q] = "jwt" /\ spc' = [spc EXCEPT ![q] = "handling"] /\ reply' = reply
  BY <1>1, <1>2, MoveKeeps
<1>3. CASE Answer(q, Says("unauthorized"))
  BY <1>1, <1>3, SaysFields, AnswerKeeps
<1> QED BY <1>2, <1>3 DEF Verified

\* Past the authorization, a request is answered or goes on to run a pipeline.
LEMMA HandleKeeps ==
  ASSUME SurfaceInv, NEW q \in Clients, Handle(q) \/ Start(q)
  PROVE  SurfaceInv'
<1>1. /\ entitled' = entitled /\ entitled \in [Clients -> {"yes", "jwt", "no"}] /\ entitled[q] # "no"
      /\ cred' = cred /\ DOMAIN cred = Clients
      /\ UNCHANGED <<config, stored>> /\ spc[q] \in {"handling", "starting"}
  BY DEF SurfaceInv, SurfaceTypes, Admitted, Handle, Start
<1>2. ASSUME NEW a, Answer(q, a), Plainly(a) PROVE SurfaceInv'
  BY <1>1, <1>2, AnswerKeeps
<1>3. ASSUME NEW place \in {"starting", "running"}, spc' = [spc EXCEPT ![q] = place], reply' = reply
      PROVE  SurfaceInv'
  BY <1>1, <1>3, MoveKeeps
<1>4. CASE Handle(q)
  <2>1. \/ Answer(q, CardRoute(req[q]))
        \/ Answer(q, IndexCard)
        \/ spc' = [spc EXCEPT ![q] = "starting"] /\ reply' = reply
        \/ Answer(q, Says(Route(req[q]))) 
    BY <1>4 DEF Handle
  <2>2. Plainly(Says(Route(req[q])))
    BY RouteAnswers, SaysFields DEF Plainly
  <2> QED BY <1>2, <1>3, <2>1, <2>2, CardAnswers
<1>5. CASE Start(q)
  <2>1. ASSUME NEW e \in Refusals(req[q]), Answer(q, Says(e)) PROVE SurfaceInv'
    <3>1. e \in {"run_not_found", "error", "hash_mismatch"}
      BY DEF Refusals
    <3>2. Plainly(Says(e))
      BY <3>1, SaysFields DEF Plainly
    <3> QED BY <1>2, <2>1, <3>2
  <2> QED BY <1>3, <1>5, <2>1 DEF Start
<1> QED BY <1>4, <1>5

\* A run that ends is stored together with the answer that is made of it.
LEMMA FinishKeeps ==
  ASSUME SurfaceInv, NEW q \in Clients, Finish(q)
  PROVE  SurfaceInv'
<1>1. PICK status \in {"completed", "partial", "failed"}, synthesis \in {"none", "null", "parsed"},
           found \in {FALSE, req[q].channel = "declared"}, p \in Target(req[q]) :
        LET x == [id |-> Cardinality(stored) + 1, pipeline |-> p, status |-> status,
                  synthesis |-> synthesis, by |-> q, store |-> StoreOf(req[q].surface)]
        IN stored' = stored \cup {x} /\ Answer(q, RunReply(req[q], x, found))
  BY DEF Finish
<1> DEFINE x == [id |-> Cardinality(stored) + 1, pipeline |-> p, status |-> status,
                 synthesis |-> synthesis, by |-> q, store |-> StoreOf(req[q].surface)]
           a == RunReply(req[q], x, found)
<1>2. x.by = q /\ x.status = status /\ x.synthesis = synthesis
  OBVIOUS
<1>3. stored' = stored \cup {x} /\ Answer(q, a)
  BY <1>1
<1>4. /\ a.kind \in {"task", "ok", "channel_not_found"}
      /\ a.run = x.id \/ a.kind = "channel_not_found"
      /\ a.kind = "task" => a.said = RunResultToTask(x)
  BY SaysFields DEF RunReply, RerunReply, Says, NoReply
<1>5. /\ "completed" \in RunResultToTask(x) <=> status = "completed"
      /\ "artifact" \in RunResultToTask(x) <=> synthesis # "none"
      /\ "null_data" \in RunResultToTask(x) <=> synthesis = "null"
  BY <1>1, <1>2 DEF RunResultToTask, Artifacts
<1> HIDE DEF x, a
<1>6. /\ UNCHANGED <<config, entitled, cred>> /\ spc[q] = "running" /\ entitled[q] # "no"
      /\ \A y \in stored : y.by \in Clients /\ y.by # q
  BY DEF SurfaceInv, SurfaceTypes, Admitted, Finish
<1>7. /\ spc' \in [Clients -> {"idle", "verifying", "handling", "starting", "running", "done"}]
      /\ DOMAIN reply' = Clients /\ spc'[q] = "done" /\ reply'[q] = a
      /\ \A o \in Clients \ {q} : spc'[o] = spc[o] /\ reply'[o] = reply[o]
  BY <1>3 DEF SurfaceInv, SurfaceTypes, Answer
<1>8. SurfaceTypes'
  BY <1>2, <1>3, <1>6, <1>7 DEF SurfaceInv, SurfaceTypes
<1>9. Admitted'
  BY <1>2, <1>3, <1>6, <1>7 DEF SurfaceInv, Admitted
<1>10. Gated'
  BY <1>2, <1>3, <1>4, <1>6, <1>7 DEF SurfaceInv, Gated
<1>11. RunsAccounted'
  <2>1. \A y \in stored : reply'[y.by] = reply[y.by]
    BY <1>6, <1>7
  <2>2. \A y, z \in stored' : y.by = z.by => y = z
    BY <1>2, <1>3, <1>6 DEF SurfaceInv, RunsAccounted
  <2>3. \A y \in stored' : reply'[y.by].run = y.id \/ reply'[y.by].kind = "channel_not_found"
    BY <1>2, <1>3, <1>4, <1>7, <2>1 DEF SurfaceInv, RunsAccounted
  <2>4. \A o \in Clients : reply'[o].run # 0 => \E y \in stored' : y.by = o
    BY <1>2, <1>3, <1>7 DEF SurfaceInv, RunsAccounted
  <2>5. \A y \in stored' : reply'[y.by].kind = "task" =>
          /\ "completed" \in reply'[y.by].said <=> y.status = "completed"
          /\ "artifact" \in reply'[y.by].said <=> y.synthesis # "none"
          /\ "null_data" \in reply'[y.by].said <=> y.synthesis = "null"
    BY <1>2, <1>3, <1>4, <1>5, <1>7, <2>1 DEF SurfaceInv, RunsAccounted
  <2> QED BY <2>2, <2>3, <2>4, <2>5 DEF RunsAccounted
<1> QED BY <1>8, <1>9, <1>10, <1>11 DEF SurfaceInv

-----------------------------------------------------------------------------
\* What holds of the server in every reachable state.
THEOREM SurfaceInvariant == SurfaceSpec => []SurfaceInv
<1>1. SurfaceInit => SurfaceInv
  <2> SUFFICES ASSUME SurfaceInit PROVE SurfaceInv
    OBVIOUS
  <2>1. NoReply.kind = "none" /\ NoReply.run = 0
    BY DEF NoReply
  <2>2. SurfaceTypes /\ Admitted
    BY DEF SurfaceInit, SurfaceTypes, Admitted
  <2>3. Gated /\ RunsAccounted
    BY <2>1 DEF SurfaceInit, Gated, RunsAccounted
  <2> QED BY <2>2, <2>3 DEF SurfaceInv
<1>2. SurfaceInv /\ [SurfaceNext]_surfaceVars => SurfaceInv'
  <2> SUFFICES ASSUME SurfaceInv, [SurfaceNext]_surfaceVars PROVE SurfaceInv'
    OBVIOUS
  <2>1. ASSUME UNCHANGED <<config, stored, spc, cred, reply, entitled>> PROVE SurfaceInv'
    BY <2>1 DEF SurfaceInv, SurfaceTypes, Admitted, Gated, RunsAccounted
  <2>2. CASE Edit \/ UNCHANGED surfaceVars
    BY <2>1, <2>2 DEF Edit, surfaceVars
  <2>3. ASSUME NEW q \in Clients, Admit(q) \/ Verified(q) \/ Handle(q) \/ Start(q) \/ Finish(q)
        PROVE  SurfaceInv'
    BY <2>3, AdmitKeeps, VerifiedKeeps, HandleKeeps, FinishKeeps
  <2> QED BY <2>2, <2>3 DEF SurfaceNext
<1> QED BY <1>1, <1>2, PTL DEF SurfaceSpec

\* Whoever holds no configured credential is turned away on every surface.
THEOREM CallersGated == SurfaceSpec => []Gated
<1>1. SurfaceInv => Gated
  BY DEF SurfaceInv
<1> QED BY <1>1, SurfaceInvariant, PTL

\* Every run that was made is the one its reply names.
THEOREM RepliesNameRuns == SurfaceSpec => []RunsAccounted
<1>1. SurfaceInv => RunsAccounted
  BY DEF SurfaceInv
<1> QED BY <1>1, SurfaceInvariant, PTL

-----------------------------------------------------------------------------
(***************************************************************************)
(* Fractions.                                                              *)
(***************************************************************************)

Fractions == Int \X (Nat \ {0})

\* The parts of a fraction.
LEMMA Parts ==
  ASSUME NEW x \in Fractions
  PROVE  x[1] \in Int /\ x[2] \in Nat /\ x[2] > 0
BY DEF Fractions

\* A factor that is positive may be cancelled.
LEMMA Cancels ==
  ASSUME NEW a \in Int, NEW b \in Int, NEW c \in Nat, c > 0
  PROVE  (a * c <= b * c <=> a <= b) /\ (c * a <= c * b <=> a <= b)
<1>1. a <= b => a * c <= b * c
  OBVIOUS
<1>2. a > b => a * c > b * c
  OBVIOUS
<1>3. a * c \in Int /\ b * c \in Int /\ c * a = a * c /\ c * b = b * c
  OBVIOUS
<1> DEFINE m == a * c
           n == b * c
<1> HIDE DEF m, n
<1>4. m \in Int /\ n \in Int /\ (a <= b => m <= n) /\ (a > b => m > n)
  BY <1>1, <1>2, <1>3 DEF m, n
<1>5. m <= n <=> a <= b
  BY <1>4
<1> QED BY <1>3, <1>5 DEF m, n

\* A product does not depend on the order of its factors.
LEMMA Reorder ==
  ASSUME NEW a \in Int, NEW b \in Int, NEW c \in Int
  PROVE  /\ (a * b) * c \in Int /\ (a * b) * c = (a * c) * b /\ (a * b) * c = a * (b * c)
         /\ a * b = b * a /\ a * b \in Int
OBVIOUS

\* Fractions are ordered totally.
LEMMA LeqOrders ==
  /\ \A x, y \in Fractions : Leq(x, y) \/ Leq(y, x)
  /\ \A x, y, z \in Fractions : Leq(x, y) /\ Leq(y, z) => Leq(x, z)
<1>1. ASSUME NEW x \in Fractions, NEW y \in Fractions PROVE Leq(x, y) \/ Leq(y, x)
  <2> DEFINE m == x[1] * y[2]
             n == y[1] * x[2]
  <2>1. m \in Int /\ n \in Int
    BY Parts
  <2> HIDE DEF m, n
  <2>2. m <= n \/ n <= m
    BY <2>1
  <2> QED BY <2>2 DEF m, n, Leq
<1>2. ASSUME NEW x \in Fractions, NEW y \in Fractions, NEW z \in Fractions, Leq(x, y), Leq(y, z)
      PROVE  Leq(x, z)
  <2> DEFINE a == x[1]
             b == x[2]
             c == y[1]
             d == y[2]
             e == z[1]
             f == z[2]
  <2>1. /\ a \in Int /\ c \in Int /\ e \in Int /\ b \in Nat /\ d \in Nat /\ f \in Nat
        /\ b > 0 /\ d > 0 /\ f > 0
    BY Parts
  <2>2. a * d <= c * b /\ c * f <= e * d
    BY <1>2 DEF Leq
  <2> HIDE DEF a, b, c, d, e, f
  <2> DEFINE m == (a * d) * f
             n == (c * b) * f
             o == (e * d) * b
  <2>3. m <= n
    BY <2>1, <2>2, Cancels, Reorder
  <2>4. (c * f) * b <= o
    BY <2>1, <2>2, Cancels, Reorder
  <2>5. n = (c * f) * b
    BY <2>1, Reorder
  <2>6. m \in Int /\ n \in Int /\ o \in Int
    BY <2>1
  <2>7. m <= o
    <3> HIDE DEF m, n, o
    <3>1. n <= o
      BY <2>4, <2>5
    <3> QED BY <2>3, <2>6, <3>1
  <2>8. m = (a * f) * d /\ o = (e * b) * d
    BY <2>1, Reorder
  <2>9. a * f <= e * b
    <3> DEFINE u == a * f
               v == e * b
    <3>1. u \in Int /\ v \in Int /\ u * d <= v * d
      BY <2>1, <2>7, <2>8
    <3> HIDE DEF u, v
    <3>2. u <= v
      BY <2>1, <3>1, Cancels
    <3> QED BY <3>2 DEF u, v
  <2> QED BY <2>9 DEF Leq, a, b, e, f
<1> QED BY <1>1, <1>2

\* Both orders go together.
LEMMA LessOrders ==
  /\ \A x, y, z \in Fractions : Less(x, y) /\ Leq(y, z) => Less(x, z)
  /\ \A x, y, z \in Fractions : Leq(x, y) /\ Less(y, z) => Less(x, z)
  /\ \A x, y \in Fractions : Less(x, y) => Leq(x, y)
BY LeqOrders DEF Less

\* What is weighed by a positive weight keeps its order.
LEMMA TimesKeeps ==
  ASSUME NEW k \in Nat \ {0}, NEW x \in Fractions, NEW y \in Fractions
  PROVE  /\ Times(k, x) \in Fractions
         /\ Leq(Times(k, x), Times(k, y)) <=> Leq(x, y)
         /\ Less(Times(k, x), Times(k, y)) <=> Less(x, y)
<1>1. Times(k, x) \in Fractions
  BY DEF Times, Fractions
<1>2. ASSUME NEW u \in Fractions, NEW v \in Fractions
      PROVE  Leq(Times(k, u), Times(k, v)) <=> Leq(u, v)
  <2> DEFINE a == u[1]
             b == u[2]
             c == v[1]
             d == v[2]
             m == a * d
             n == c * b
  <2>1. a \in Int /\ c \in Int /\ b \in Nat /\ d \in Nat
    BY Parts
  <2>2. Leq(Times(k, u), Times(k, v)) <=> (k * a) * d <= (k * c) * b
    BY DEF Leq, Times
  <2>3. Leq(u, v) <=> m <= n
    BY DEF Leq
  <2> HIDE DEF a, b, c, d
  <2>4. (k * a) * d = k * m /\ (k * c) * b = k * n /\ m \in Int /\ n \in Int
    BY <2>1
  <2> HIDE DEF m, n
  <2>5. k * m <= k * n <=> m <= n
    BY <2>4, Cancels
  <2> QED BY <2>2, <2>3, <2>4, <2>5
<1> QED BY <1>1, <1>2 DEF Less

\* With any weight what is not less weighs no less; if it has no weight it need
\* not even be that.
LEMMA Weighed ==
  ASSUME NEW k \in Nat, NEW x \in Fractions, NEW y \in Fractions
  PROVE  /\ Times(k, x) \in Fractions
         /\ (k > 0 => Leq(x, y)) => Leq(Times(k, x), Times(k, y))
         /\ k > 0 /\ Less(x, y) => Less(Times(k, x), Times(k, y))
<1>1. CASE k > 0
  BY <1>1, TimesKeeps
<1>2. CASE k = 0
  <2> DEFINE a == x[1]
             b == x[2]
             c == y[1]
             d == y[2]
  <2>1. a \in Int /\ c \in Int /\ b \in Nat /\ d \in Nat /\ b > 0
    BY Parts
  <2>2. Times(k, x) = <<k * a, b>> /\ Times(k, y) = <<k * c, d>>
    BY DEF Times
  <2> HIDE DEF a, b, c, d
  <2>3. k * a = 0 /\ k * c = 0 /\ 0 * d <= 0 * b
    BY <1>2, <2>1
  <2>4. Times(k, x) \in Fractions
    BY <2>1, <2>2, <2>3 DEF Fractions
  <2>5. Leq(Times(k, x), Times(k, y))
    BY <2>2, <2>3 DEF Leq
  <2> QED BY <1>2, <2>4, <2>5
<1> QED BY <1>1, <1>2

\* A sum of two fractions grows with each of them.
LEMMA PlusGrows ==
  ASSUME NEW x \in Fractions, NEW y \in Fractions, NEW z \in Fractions
  PROVE  /\ Plus(x, z) \in Fractions
         /\ Leq(Plus(x, z), Plus(y, z)) <=> Leq(x, y)
         /\ Leq(Plus(z, x), Plus(z, y)) <=> Leq(x, y)
<1> DEFINE a == x[1]
           b == x[2]
           c == y[1]
           d == y[2]
           e == z[1]
           f == z[2]
<1>1. /\ a \in Int /\ c \in Int /\ e \in Int /\ b \in Nat /\ d \in Nat /\ f \in Nat
      /\ b > 0 /\ d > 0 /\ f > 0
  BY Parts
<1>2. /\ Plus(x, z) = <<a * f + e * b, b * f>> /\ Plus(y, z) = <<c * f + e * d, d * f>>
      /\ Plus(z, x) = <<e * b + a * f, f * b>> /\ Plus(z, y) = <<e * d + c * f, f * d>>
      /\ Leq(x, y) <=> a * d <= c * b
  BY DEF Plus, Leq
<1> HIDE DEF a, b, c, d, e, f
<1> DEFINE bf == b * f
           df == d * f
           p == a * f + e * b
           q == c * f + e * d
<1>3. bf \in Nat /\ bf > 0 /\ p \in Int /\ q \in Int /\ df \in Nat
  BY <1>1
<1>4. /\ e * b + a * f = p /\ e * d + c * f = q /\ f * b = bf /\ f * d = df
  BY <1>1
<1>5. p * df <= q * bf <=> a * d <= c * b
  <2> DEFINE ff == f * f
             r == ((e * b) * d) * f
             m == a * d
             n == c * b
  <2>1. ff \in Nat /\ ff > 0 /\ r \in Int /\ m \in Int /\ n \in Int
    BY <1>1
  <2>2. p * df = m * ff + r
    BY <1>1
  <2>3. q * bf = n * ff + r
    BY <1>1
  <2> HIDE DEF ff, r, m, n, p, q, df, bf
  <2>4. m * ff <= n * ff <=> m <= n
    BY <2>1, Cancels
  <2> DEFINE i == m * ff
             j == n * ff
  <2>5. i \in Int /\ j \in Int
    BY <2>1
  <2> HIDE DEF i, j
  <2>6. i + r <= j + r <=> i <= j
    BY <2>1, <2>5
  <2> QED BY <2>2, <2>3, <2>4, <2>6 DEF i, j, m, n
<1> HIDE DEF p, q, bf, df
<1>6. /\ Leq(Plus(x, z), Plus(y, z)) <=> p * df <= q * bf
      /\ Leq(Plus(z, x), Plus(z, y)) <=> p * df <= q * bf
  BY <1>2, <1>4 DEF Leq, p, q, bf, df
<1>7. Plus(x, z) \in Fractions
  BY <1>2, <1>3 DEF Fractions, p, bf
<1> QED BY <1>2, <1>5, <1>6, <1>7

\* A sum is no less when neither part is, and more when a part is.
LEMMA PlusOrders ==
  ASSUME NEW x \in Fractions, NEW y \in Fractions, NEW u \in Fractions, NEW v \in Fractions,
         Leq(x, y), Leq(u, v)
  PROVE  /\ Plus(x, u) \in Fractions /\ Plus(y, v) \in Fractions
         /\ Leq(Plus(x, u), Plus(y, v))
         /\ Less(x, y) \/ Less(u, v) => Less(Plus(x, u), Plus(y, v))
<1>1. Plus(x, u) \in Fractions /\ Plus(y, u) \in Fractions /\ Plus(y, v) \in Fractions
  BY PlusGrows
<1>2. Leq(Plus(x, u), Plus(y, u)) /\ Leq(Plus(y, u), Plus(y, v))
  BY PlusGrows
<1>3. Less(x, y) => Less(Plus(x, u), Plus(y, u))
  BY PlusGrows DEF Less
<1>4. Less(u, v) => Less(Plus(y, u), Plus(y, v))
  BY PlusGrows DEF Less
<1> DEFINE i == Plus(x, u)
           j == Plus(y, u)
           k == Plus(y, v)
<1> HIDE DEF i, j, k
<1>5. i \in Fractions /\ j \in Fractions /\ k \in Fractions /\ Leq(i, j) /\ Leq(j, k)
  BY <1>1, <1>2 DEF i, j, k
<1>6. Leq(i, k)
  BY <1>5, LeqOrders
<1>7. Less(i, j) \/ Less(j, k) => Less(i, k)
  BY <1>5, LessOrders
<1> QED BY <1>1, <1>3, <1>4, <1>6, <1>7 DEF i, j, k

\* The smaller a share of the worst, the more it counts; a share of the worst
\* counts for no less than nothing.
LEMMA InvertedTurns ==
  ASSUME NEW w \in Fractions, NEW x \in Fractions, NEW y \in Fractions,
         x[1] \in Nat, y[1] \in Nat, w[1] \in Nat, Leq(x, w), Leq(y, w)
  PROVE  /\ Inverted(x, w) \in Fractions
         /\ Leq(x, y) => Leq(Inverted(y, w), Inverted(x, w))
         /\ Less(x, y) => Less(Inverted(y, w), Inverted(x, w))
         /\ Leq(<<0, 1>>, Inverted(x, w))
<1> DEFINE a == x[1]
           b == x[2]
           c == y[1]
           d == y[2]
           e == w[1]
           f == w[2]
<1>1. /\ a \in Nat /\ c \in Nat /\ e \in Nat /\ b \in Nat /\ d \in Nat /\ f \in Nat
      /\ b > 0 /\ d > 0 /\ f > 0
  BY Parts
<1>2. a * f <= e * b /\ c * f <= e * d /\ (Leq(x, y) <=> a * d <= c * b) /\ (Leq(y, x) <=> c * b <= a * d)
  BY DEF Leq
<1>3. CASE e = 0
  <2>1. Inverted(x, w) = <<1, 1>> /\ Inverted(y, w) = <<1, 1>>
    BY <1>3 DEF Inverted
  <2>2. a = 0 /\ c = 0
    <3> HIDE DEF a, b, c, d, e, f
    <3>1. e * b = 0 /\ e * d = 0
      BY <1>1, <1>3
    <3>2. a * f <= 0 * f /\ c * f <= 0 * f
      BY <1>1, <1>2, <3>1
    <3>3. a <= 0 /\ c <= 0
      BY <1>1, <3>2, Cancels
    <3> QED BY <1>1, <3>3
  <2>3. Leq(y, x)
    <3>1. c * b = 0 /\ a * d = 0
      <4> HIDE DEF a, b, c, d
      <4> QED BY <1>1, <2>2
    <3> QED BY <1>2, <3>1
  <2> QED BY <2>1, <2>3 DEF Leq, Less, Fractions
<1>4. CASE e # 0
  <2>1. Inverted(x, w) = <<b * e - a * f, b * e>> /\ Inverted(y, w) = <<d * e - c * f, d * e>>
    BY <1>4 DEF Inverted
  <2> HIDE DEF a, b, c, d, e, f
  <2> DEFINE be == b * e
             de == d * e
             p == b * e - a * f
             q == d * e - c * f
  <2>2. be \in Nat /\ be > 0 /\ p \in Int /\ q \in Int /\ de \in Nat /\ 0 <= p
    BY <1>1, <1>2, <1>4
  <2>3. (q * be <= p * de <=> a * d <= c * b) /\ (p * de <= q * be <=> c * b <= a * d)
    <3> DEFINE ef == e * f
               r == (b * d) * (e * e)
               m == a * d
               n == c * b
    <3>1. ef \in Nat /\ ef > 0 /\ r \in Int /\ m \in Int /\ n \in Int
      BY <1>1, <1>4
    <3>2. q * be = r - n * ef
      BY <1>1
    <3>3. p * de = r - m * ef
      BY <1>1
    <3> HIDE DEF ef, r, m, n, p, q, de, be
    <3>4. (m * ef <= n * ef <=> m <= n) /\ (n * ef <= m * ef <=> n <= m)
      BY <3>1, Cancels
    <3> DEFINE i == m * ef
               j == n * ef
    <3>5. i \in Int /\ j \in Int
      BY <3>1
    <3> HIDE DEF i, j
    <3>6. (r - j <= r - i <=> i <= j) /\ (r - i <= r - j <=> j <= i)
      BY <3>1, <3>5
    <3> QED BY <3>2, <3>3, <3>4, <3>6 DEF i, j, m, n
  <2> HIDE DEF be, de, p, q
  <2>5. Inverted(x, w) = <<p, be>> /\ Inverted(y, w) = <<q, de>>
    BY <2>1 DEF p, q, be, de
  <2>6. /\ Leq(Inverted(y, w), Inverted(x, w)) <=> Leq(x, y)
        /\ Leq(Inverted(x, w), Inverted(y, w)) <=> Leq(y, x)
    BY <1>2, <2>3, <2>5 DEF Leq
  <2>7. Inverted(x, w) \in Fractions
    BY <2>2, <2>5 DEF Fractions
  <2>8. Leq(<<0, 1>>, Inverted(x, w))
    <3>1. 0 * be <= p * 1
      BY <2>2
    <3> QED BY <2>5, <3>1 DEF Leq
  <2> QED BY <2>6, <2>7, <2>8 DEF Less
<1> QED BY <1>3, <1>4

-----------------------------------------------------------------------------
(***************************************************************************)
(* Places, from any scores.                                                *)
(***************************************************************************)

\* Providers are numbered, finitely many, and each has a score.
Scored ==
  /\ IsFiniteSet(DOMAIN aggs) /\ DOMAIN aggs = 1..Cardinality(DOMAIN aggs)
  /\ \A p \in DOMAIN aggs : Score(p) \in Fractions

\* Who is ahead of whom is a strict total order.
LEMMA AheadOrders ==
  ASSUME Scored
  PROVE  /\ \A p \in DOMAIN aggs : ~Ahead(p, p)
         /\ \A p, q \in DOMAIN aggs : p = q \/ Ahead(p, q) \/ Ahead(q, p)
         /\ \A p, q, r \in DOMAIN aggs : Ahead(p, q) /\ Ahead(q, r) => Ahead(p, r)
<1> DEFINE D == DOMAIN aggs
<1>1. D \subseteq Int /\ \A p \in D : Score(p) \in Fractions
  <2>1. DOMAIN aggs = 1..Cardinality(DOMAIN aggs)
    BY DEF Scored
  <2>2. Cardinality(DOMAIN aggs) \in Nat
    BY FS_CardinalityType DEF Scored
  <2> DEFINE n == Cardinality(DOMAIN aggs)
  <2> HIDE DEF n
  <2>3. 1..n \subseteq Int
    BY <2>2 DEF n
  <2> QED BY <2>1, <2>3 DEF Scored, n
<1> HIDE DEF D
<1>2. ASSUME NEW p \in D PROVE ~Ahead(p, p)
  BY <1>1, LeqOrders DEF Ahead, Less
<1>3. ASSUME NEW p \in D, NEW q \in D PROVE p = q \/ Ahead(p, q) \/ Ahead(q, p)
  BY <1>1, LeqOrders DEF Ahead, Less
<1>4. ASSUME NEW p \in D, NEW q \in D, NEW r \in D, Ahead(p, q), Ahead(q, r) PROVE Ahead(p, r)
  <2> DEFINE x == Score(p)
             y == Score(q)
             z == Score(r)
  <2>1. x \in Fractions /\ y \in Fractions /\ z \in Fractions
    BY <1>1
  <2>2. /\ Less(y, x) \/ (p < q /\ Leq(y, x))
        /\ Less(z, y) \/ (q < r /\ Leq(z, y))
    BY <1>4 DEF Ahead
  <2> HIDE DEF x, y, z
  <2>3. p < q /\ q < r => p < r
    BY <1>1
  <2>4. Less(z, x) \/ (p < r /\ Leq(z, x))
    BY <2>1, <2>2, <2>3, LeqOrders, LessOrders
  <2> QED BY <2>4 DEF Ahead, x, z
<1> QED BY <1>2, <1>3, <1>4 DEF D

\* The places of a list are the numbers up to its length, each given once, in
\* the order of the scores.
LEMMA PlacesOrder ==
  ASSUME Scored
  PROVE  /\ \A p \in DOMAIN aggs : Place(p) \in DOMAIN aggs
         /\ \A p, q \in DOMAIN aggs : p # q => Place(p) # Place(q)
         /\ \A p, q \in DOMAIN aggs : Place(p) < Place(q) => Ahead(p, q) /\ ~Ahead(q, p)
<1> DEFINE D == DOMAIN aggs
           before(p) == {q \in D : Ahead(q, p)}
           N == Cardinality(D)
<1>1. IsFiniteSet(D) /\ N \in Nat /\ D = 1..N
  BY FS_CardinalityType DEF Scored
<1>2. \A p \in D : Place(p) = 1 + Cardinality(before(p))
  BY DEF Place
<1>3. ASSUME NEW p \in D, NEW S, S \subseteq D \ {p}
      PROVE  IsFiniteSet(S) /\ Cardinality(S) \in Nat /\ Cardinality(S) <= N - 1
  <2> HIDE DEF D
  <2>1. IsFiniteSet(D \ {p}) /\ Cardinality(D \ {p}) = N - 1
    BY <1>1, FS_RemoveElement
  <2>2. IsFiniteSet(S) /\ Cardinality(S) <= Cardinality(D \ {p})
    BY <1>3, <2>1, FS_Subset
  <2> QED BY <2>1, <2>2, FS_CardinalityType
<1>4. \A p \in D : before(p) \subseteq D \ {p}
  BY AheadOrders
<1>5. ASSUME NEW p \in D PROVE Place(p) \in D
  <2> DEFINE n == Cardinality(before(p))
  <2>1. n \in Nat /\ n <= N - 1
    BY <1>3, <1>4
  <2>2. Place(p) = 1 + n
    BY <1>2
  <2> HIDE DEF n, D, N
  <2> QED BY <1>1, <2>1, <2>2
<1>6. ASSUME NEW p \in D, NEW q \in D, Ahead(p, q) PROVE Place(p) < Place(q)
  <2> DEFINE A == before(p)
             B == before(q)
  <2>1. A \subseteq B \ {p} /\ p \in B
    BY <1>6, AheadOrders
  <2>2. Place(p) = 1 + Cardinality(A) /\ Place(q) = 1 + Cardinality(B)
    BY <1>2
  <2>3. IsFiniteSet(B)
    BY <1>3, <1>4
  <2> HIDE DEF A, B
  <2>4. IsFiniteSet(B \ {p}) /\ Cardinality(B \ {p}) < Cardinality(B)
    BY <2>1, <2>3, Smaller
  <2>5. IsFiniteSet(A) /\ Cardinality(A) <= Cardinality(B \ {p})
    BY <2>1, <2>4, FS_Subset
  <2>6. Cardinality(A) \in Nat /\ Cardinality(B \ {p}) \in Nat /\ Cardinality(B) \in Nat
    BY <2>3, <2>4, <2>5, FS_CardinalityType
  <2> QED BY <2>2, <2>4, <2>5, <2>6
<1>7. \A p \in D : Place(p) \in Int
  <2> HIDE DEF N, D, before
  <2> QED BY <1>1, <1>5
<1>8. ASSUME NEW p \in D, NEW q \in D, Place(p) < Place(q) PROVE Ahead(p, q) /\ ~Ahead(q, p)
  <2>1. ~(Place(q) < Place(p)) /\ Place(p) # Place(q)
    BY <1>7, <1>8
  <2>2. ~Ahead(q, p)
    BY <1>6, <2>1
  <2>3. p = q \/ Ahead(p, q)
    BY <2>2, AheadOrders
  <2> QED BY <2>1, <2>2, <2>3
<1>9. ASSUME NEW p \in D, NEW q \in D, p # q PROVE Place(p) # Place(q)
  <2>1. Ahead(p, q) \/ Ahead(q, p)
    BY <1>9, AheadOrders
  <2>2. Place(p) < Place(q) \/ Place(q) < Place(p)
    BY <1>6, <2>1
  <2> QED BY <1>7, <2>2
<1> QED BY <1>5, <1>8, <1>9

-----------------------------------------------------------------------------
(***************************************************************************)
(* The aggregates are those of what the runs answered.                     *)
(***************************************************************************)

Logs == Seq({<<>>} \cup {<<r>> : r \in RunOutcomes})

ValidRuns == {r \in RunOutcomes : r.valid}
CostedRuns == {r \in RunOutcomes : SumCost(r) # Unreported}

Conforming == [r \in RunOutcomes |-> Conformance(r)]
PartCount == [r \in RunOutcomes |-> Len(r.channels)]
CostSum == [r \in RunOutcomes |-> IF SumCost(r) = Unreported THEN 0 ELSE SumCost(r)]
LatencySum == [r \in RunOutcomes |-> SumLatency(r)]

\* The runs that answered something of C, and what they sum up to by v.
Chosen(C, l) == {n \in CameBack(l) : l[n][1] \in C}
SumIn(v, C, l) == Total([n \in Chosen(C, l) |-> v[l[n][1]]])

\* What is summed up of a run is a natural number.
LEMMA RunNumbers ==
  ASSUME NEW r \in RunOutcomes
  PROVE  /\ Conforming[r] \in Nat /\ PartCount[r] \in Nat /\ CostSum[r] \in Nat /\ LatencySum[r] \in Nat
         /\ SumCost(r) \in Nat \cup {Unreported}
<1>1. r.channels \in Seq([valid : BOOLEAN, cost : Nat \cup {Unreported}, latency : Nat])
  BY OutcomesAssumption
<1>2. /\ Len(r.channels) \in Nat /\ DOMAIN r.channels = 1..Len(r.channels)
      /\ \A c \in DOMAIN r.channels : /\ r.channels[c].latency \in Nat
                                      /\ r.channels[c].cost \in Nat \cup {Unreported}
  <2> DEFINE R == [valid : BOOLEAN, cost : Nat \cup {Unreported}, latency : Nat]
             s == r.channels
  <2>1. s \in Seq(R)
    BY <1>1
  <2>2. \A x \in R : x.latency \in Nat /\ x.cost \in Nat \cup {Unreported}
    OBVIOUS
  <2> HIDE DEF R, s
  <2>3. Len(s) \in Nat /\ DOMAIN s = 1..Len(s) /\ \A c \in DOMAIN s : s[c] \in R
    BY <2>1
  <2> QED BY <2>2, <2>3 DEF s
<1>3. IsFiniteSet(DOMAIN r.channels)
  BY <1>2, FS_Interval
<1>4. Conformance(r) \in Nat
  BY <1>3, FS_Subset, FS_CardinalityType DEF Conformance
<1>5. SumLatency(r) \in Nat
  <2> DEFINE f == [c \in DOMAIN r.channels |-> r.channels[c].latency]
  <2>1. IsFiniteSet(DOMAIN f) /\ \A c \in DOMAIN f : f[c] \in Nat
    BY <1>2, <1>3
  <2> HIDE DEF f
  <2>2. Total(f) \in Nat
    BY <2>1, TotalNat
  <2> QED BY <2>2 DEF SumLatency, f
<1>6. SumCost(r) \in Nat \cup {Unreported}
  <2> DEFINE f == [c \in CostedParts(r) |-> r.channels[c].cost]
  <2>1. IsFiniteSet(CostedParts(r))
    BY <1>3, FS_Subset DEF CostedParts
  <2>2. IsFiniteSet(DOMAIN f) /\ \A c \in DOMAIN f : f[c] \in Nat
    BY <1>2, <2>1 DEF CostedParts
  <2> HIDE DEF f
  <2>3. Total(f) \in Nat
    BY <2>2, TotalNat
  <2> QED BY <2>3 DEF SumCost, f
<1> QED BY <1>2, <1>4, <1>5, <1>6 DEF Conforming, PartCount, CostSum, LatencySum

\* What is chosen from a log is finite and sums up to a natural number.
LEMMA ChosenTypes ==
  ASSUME NEW l \in Logs, NEW C, NEW v, \A r \in RunOutcomes : v[r] \in Nat
  PROVE  /\ Chosen(C, l) \subseteq DOMAIN l /\ IsFiniteSet(Chosen(C, l))
         /\ Cardinality(Chosen(C, l)) \in Nat /\ Cardinality(Chosen(C, l)) <= Len(l)
         /\ \A n \in Chosen(C, l) : l[n] = <<l[n][1]>> /\ l[n][1] \in RunOutcomes
         /\ SumIn(v, C, l) \in Nat
<1> DEFINE f == [n \in Chosen(C, l) |-> v[l[n][1]]]
<1>1. Chosen(C, l) \subseteq DOMAIN l /\ DOMAIN l = 1..Len(l) /\ Len(l) \in Nat
  BY DEF Chosen, CameBack, Logs
<1>2. IsFiniteSet(DOMAIN l) /\ Cardinality(DOMAIN l) = Len(l)
  BY <1>1, FS_Interval
<1>3. IsFiniteSet(Chosen(C, l)) /\ Cardinality(Chosen(C, l)) <= Len(l)
  BY <1>1, <1>2, FS_Subset
<1>4. \A n \in Chosen(C, l) : l[n] = <<l[n][1]>> /\ l[n][1] \in RunOutcomes
  <2> SUFFICES ASSUME NEW n \in Chosen(C, l) PROVE l[n] = <<l[n][1]>> /\ l[n][1] \in RunOutcomes
    OBVIOUS
  <2>1. l[n] \in {<<>>} \cup {<<r>> : r \in RunOutcomes} /\ l[n] # <<>>
    BY DEF Chosen, CameBack, Logs
  <2>2. PICK r \in RunOutcomes : l[n] = <<r>>
    BY <2>1
  <2> QED BY <2>2
<1>5. DOMAIN f = Chosen(C, l) /\ \A n \in DOMAIN f : f[n] \in Nat
  BY <1>4
<1> HIDE DEF f
<1>6. Total(f) \in Nat
  BY <1>3, <1>5, TotalNat
<1> QED BY <1>1, <1>3, <1>4, <1>6, FS_CardinalityType DEF SumIn, f

\* A run that answers counts once if it is of those that are counted, a run that
\* throws does not count.
LEMMA LogGrows ==
  ASSUME NEW l \in Logs, NEW C, NEW v, \A r \in RunOutcomes : v[r] \in Nat
  PROVE  /\ \A r \in RunOutcomes :
              /\ Cardinality(Chosen(C, Append(l, <<r>>))) = Cardinality(Chosen(C, l)) + IF r \in C THEN 1 ELSE 0
              /\ SumIn(v, C, Append(l, <<r>>)) = SumIn(v, C, l) + IF r \in C THEN v[r] ELSE 0
         /\ Chosen(C, Append(l, <<>>)) = Chosen(C, l)
         /\ SumIn(v, C, Append(l, <<>>)) = SumIn(v, C, l)
<1> DEFINE A == Chosen(C, l)
           k == Len(l) + 1
           f == [n \in A |-> v[l[n][1]]]
<1>1. DOMAIN l = 1..Len(l) /\ Len(l) \in Nat
  BY DEF Logs
<1>2. A \subseteq DOMAIN l /\ IsFiniteSet(A) /\ (\A n \in A : v[l[n][1]] \in Nat) /\ SumIn(v, C, l) \in Nat
      /\ Cardinality(A) \in Nat
  BY ChosenTypes
<1>3. DOMAIN f = A /\ (\A n \in A : f[n] = v[l[n][1]] /\ f[n] \in Nat) /\ Total(f) = SumIn(v, C, l) /\ k \notin A
  BY <1>1, <1>2 DEF SumIn
<1>4. ASSUME NEW m, m = Append(l, <<>>) PROVE Chosen(C, m) = A /\ SumIn(v, C, m) = SumIn(v, C, l)
  <2>1. DOMAIN m = DOMAIN l \cup {k} /\ m[k] = <<>> /\ \A n \in DOMAIN l : m[n] = l[n]
    BY <1>1, <1>4 DEF Logs
  <2>2. Chosen(C, m) = A
    BY <2>1 DEF Chosen, CameBack
  <2>3. [n \in Chosen(C, m) |-> v[m[n][1]]] = [n \in A |-> v[l[n][1]]]
    BY <1>2, <2>1, <2>2
  <2> QED BY <2>2, <2>3 DEF SumIn
<1>5. ASSUME NEW r \in RunOutcomes, NEW m, m = Append(l, <<r>>)
      PROVE  /\ Cardinality(Chosen(C, m)) = Cardinality(A) + IF r \in C THEN 1 ELSE 0
             /\ SumIn(v, C, m) = SumIn(v, C, l) + IF r \in C THEN v[r] ELSE 0
  <2>1. DOMAIN m = DOMAIN l \cup {k} /\ m[k] = <<r>> /\ \A n \in DOMAIN l : m[n] = l[n]
    BY <1>1, <1>5 DEF Logs
  <2>2. m[k][1] = r /\ m[k] # <<>>
    BY <2>1
  <2>3. CASE r \notin C
    <3>1. Chosen(C, m) = A
      BY <2>1, <2>2, <2>3 DEF Chosen, CameBack
    <3>2. [n \in Chosen(C, m) |-> v[m[n][1]]] = [n \in A |-> v[l[n][1]]]
      BY <1>2, <2>1, <3>1
    <3>3. SumIn(v, C, m) = SumIn(v, C, l)
      BY <3>2 DEF SumIn
    <3> QED BY <1>2, <2>3, <3>1, <3>3
  <2>4. CASE r \in C
    <3>1. Chosen(C, m) = A \cup {k}
      BY <2>1, <2>2, <2>4 DEF Chosen, CameBack
    <3> DEFINE h == [n \in Chosen(C, m) |-> v[m[n][1]]]
    <3>2. DOMAIN h = A \cup {k} /\ h[k] = v[r] /\ h[k] \in Nat /\ \A n \in A : h[n] = f[n]
      BY <1>2, <1>3, <2>1, <2>2, <3>1
    <3>3. Total(h) = SumIn(v, C, m)
      BY DEF SumIn
    <3> HIDE DEF h, f, A, k
    <3>4. Total(h) = h[k] + Total(f)
      BY <1>2, <1>3, <3>2, TotalGrows
    <3>5. Cardinality(A \cup {k}) = Cardinality(A) + 1
      BY <1>2, <1>3, FS_AddElement
    <3> QED BY <1>2, <1>3, <2>4, <3>1, <3>2, <3>3, <3>4, <3>5
  <2> QED BY <2>3, <2>4
<1> QED BY <1>4, <1>5

\* What the ranking is compared with, by what was chosen from the log.
LEMMA LogNumbers ==
  ASSUME NEW l \in Logs
  PROVE  /\ CameBack(l) = Chosen(RunOutcomes, l)
         /\ Passes(l) = Cardinality(Chosen(ValidRuns, l))
         /\ Share(l) = Over(SumIn(Conforming, RunOutcomes, l), SumIn(PartCount, RunOutcomes, l))
         /\ MeanCost(l) = Over(SumIn(CostSum, CostedRuns, l), Cardinality(Chosen(CostedRuns, l)))
         /\ MeanLatency(l) = Over(SumIn(LatencySum, RunOutcomes, l), Cardinality(Chosen(RunOutcomes, l)))
<1>1. \A n \in CameBack(l) : l[n][1] \in RunOutcomes
  <2> SUFFICES ASSUME NEW n \in CameBack(l) PROVE l[n][1] \in RunOutcomes
    OBVIOUS
  <2>1. l[n] \in {<<>>} \cup {<<r>> : r \in RunOutcomes} /\ l[n] # <<>>
    BY DEF CameBack, Logs
  <2>2. PICK r \in RunOutcomes : l[n] = <<r>>
    BY <2>1
  <2> QED BY <2>2
<1>2. CameBack(l) = Chosen(RunOutcomes, l)
  BY <1>1 DEF Chosen
<1>3. {n \in CameBack(l) : l[n][1].valid} = Chosen(ValidRuns, l)
  BY <1>1 DEF Chosen, ValidRuns
<1>4. Costed(l) = Chosen(CostedRuns, l)
  BY <1>1 DEF Chosen, CostedRuns, Costed
<1>5. [n \in CameBack(l) |-> Conformance(l[n][1])] = [n \in Chosen(RunOutcomes, l) |-> Conforming[l[n][1]]]
  BY <1>1, <1>2 DEF Conforming
<1>6. [n \in CameBack(l) |-> Len(l[n][1].channels)] = [n \in Chosen(RunOutcomes, l) |-> PartCount[l[n][1]]]
  BY <1>1, <1>2 DEF PartCount
<1>7. [n \in CameBack(l) |-> SumLatency(l[n][1])] = [n \in Chosen(RunOutcomes, l) |-> LatencySum[l[n][1]]]
  BY <1>1, <1>2 DEF LatencySum
<1>8. [n \in Costed(l) |-> SumCost(l[n][1])] = [n \in Chosen(CostedRuns, l) |-> CostSum[l[n][1]]]
  BY <1>1, <1>4 DEF CostSum, Costed
<1>9. Share(l) = Over(SumIn(Conforming, RunOutcomes, l), SumIn(PartCount, RunOutcomes, l))
  BY <1>5, <1>6 DEF Share, SumIn
<1>10. MeanCost(l) = Over(SumIn(CostSum, CostedRuns, l), Cardinality(Chosen(CostedRuns, l)))
  BY <1>4, <1>8 DEF MeanCost, SumIn
<1>11. MeanLatency(l) = Over(SumIn(LatencySum, RunOutcomes, l), Cardinality(Chosen(RunOutcomes, l)))
  BY <1>2, <1>7 DEF MeanLatency, SumIn
<1> QED BY <1>2, <1>3, <1>9, <1>10, <1>11 DEF Passes

AggFields == {"runs", "validationPasses", "conformingChannels", "totalChannels",
              "costSum", "costSamples", "latencySum", "errors"}
Aggs == [AggFields -> Nat]

\* An aggregate with another number in it is one.
LEMMA AggUpdated ==
  ASSUME NEW a \in Aggs, NEW f \in AggFields, NEW n \in Nat
  PROVE  [a EXCEPT ![f] = n] \in Aggs
BY DEF Aggs

\* An aggregate says of the runs of a log what they answered.
Summed(a, l) ==
  /\ a \in Aggs /\ l \in Logs
  /\ a.runs = Len(l) /\ a.runs - a.errors = Cardinality(Chosen(RunOutcomes, l))
  /\ a.validationPasses = Cardinality(Chosen(ValidRuns, l))
  /\ a.conformingChannels = SumIn(Conforming, RunOutcomes, l)
  /\ a.totalChannels = SumIn(PartCount, RunOutcomes, l)
  /\ a.costSum = SumIn(CostSum, CostedRuns, l)
  /\ a.costSamples = Cardinality(Chosen(CostedRuns, l))
  /\ a.latencySum = SumIn(LatencySum, RunOutcomes, l)

\* Nothing is summed up of no run.
LEMMA NewAggSums == Summed(NewAgg, <<>>)
<1>1. <<>> \in Logs
  BY DEF Logs
<1>2. \A C : Chosen(C, <<>>) = {}
  BY DEF Chosen, CameBack
<1>3. \A v, C : SumIn(v, C, <<>>) = 0
  BY <1>2, TotalEmpty DEF SumIn
<1>4. Cardinality({}) = 0
  BY FS_EmptySet
<1>5. Len(<<>>) = 0
  OBVIOUS
<1> DEFINE a == NewAgg
<1>6. /\ a \in Aggs /\ a.runs = 0 /\ a.errors = 0 /\ a.validationPasses = 0
      /\ a.conformingChannels = 0 /\ a.totalChannels = 0
      /\ a.costSum = 0 /\ a.costSamples = 0 /\ a.latencySum = 0
  BY DEF NewAgg, Aggs, AggFields
<1> HIDE DEF a
<1>7. a.runs - a.errors = 0
  BY <1>6
<1>8. Summed(a, <<>>)
  BY <1>1, <1>2, <1>3, <1>4, <1>5, <1>6, <1>7 DEF Summed
<1> QED BY <1>8 DEF a

\* The value functions are natural.
LEMMA Natural ==
  \A r \in RunOutcomes : Conforming[r] \in Nat /\ PartCount[r] \in Nat /\ CostSum[r] \in Nat /\ LatencySum[r] \in Nat
BY RunNumbers

\* A run that throws is one more run and one more error.
LEMMA ThrowSums ==
  ASSUME NEW a, NEW l, Summed(a, l)
  PROVE  Summed([a EXCEPT !.runs = @ + 1, !.errors = @ + 1], Append(l, <<>>))
<1> DEFINE b == [a EXCEPT !.runs = @ + 1, !.errors = @ + 1]
           m == Append(l, <<>>)
<1>1. a \in Aggs /\ l \in Logs
  BY DEF Summed
<1>2. m \in Logs /\ Len(m) = Len(l) + 1
  BY <1>1 DEF Logs
<1>3. ASSUME NEW v, NEW C, \A r \in RunOutcomes : v[r] \in Nat
      PROVE  SumIn(v, C, m) = SumIn(v, C, l) /\ Chosen(C, m) = Chosen(C, l)
  BY <1>1, <1>3, LogGrows
<1>4. /\ SumIn(Conforming, RunOutcomes, m) = SumIn(Conforming, RunOutcomes, l)
      /\ SumIn(PartCount, RunOutcomes, m) = SumIn(PartCount, RunOutcomes, l)
      /\ SumIn(CostSum, CostedRuns, m) = SumIn(CostSum, CostedRuns, l)
      /\ SumIn(LatencySum, RunOutcomes, m) = SumIn(LatencySum, RunOutcomes, l)
  BY <1>3, Natural
<1>5. \A C : Chosen(C, m) = Chosen(C, l)
  BY <1>3, Natural
<1>6. a.runs + 1 \in Nat /\ a.errors + 1 \in Nat
  BY <1>1 DEF Aggs, AggFields
<1>7. b \in Aggs
  <2> DEFINE c == [a EXCEPT !["runs"] = a.runs + 1]
  <2>1. c \in Aggs /\ b = [c EXCEPT !["errors"] = a.errors + 1]
    BY <1>1, <1>6, AggUpdated DEF AggFields
  <2> HIDE DEF c, b
  <2> QED BY <1>6, <2>1, AggUpdated DEF AggFields
<1>8. b.runs = a.runs + 1 /\ b.errors = a.errors + 1
  BY <1>1 DEF Aggs, AggFields
<1>9. /\ b.validationPasses = a.validationPasses /\ b.conformingChannels = a.conformingChannels
      /\ b.totalChannels = a.totalChannels /\ b.costSum = a.costSum
      /\ b.costSamples = a.costSamples /\ b.latencySum = a.latencySum
  BY <1>1 DEF Aggs, AggFields
<1>10. b.runs - b.errors = a.runs - a.errors
  BY <1>1, <1>8 DEF Aggs, AggFields
<1> HIDE DEF b, m
<1>11. Summed(b, m)
  BY <1>2, <1>7, <1>10, <1>4, <1>5, <1>8, <1>9 DEF Summed
<1> QED BY <1>11 DEF b, m

\* A run that answers is one more run, summed up as what it is.
LEMMA WithRunSums ==
  ASSUME NEW a, NEW l, Summed(a, l), NEW r \in RunOutcomes
  PROVE  Summed(WithRun(a, r), Append(l, <<r>>))
<1> DEFINE b == WithRun(a, r)
           m == Append(l, <<r>>)
           valid == IF r.valid THEN 1 ELSE 0
           costs == IF SumCost(r) = Unreported THEN 0 ELSE 1
           cost == IF SumCost(r) = Unreported THEN 0 ELSE SumCost(r)
           conform == Conformance(r)
           parts == Len(r.channels)
           latency == SumLatency(r)
<1>1. a \in Aggs /\ l \in Logs
  BY DEF Summed
<1>2. m \in Logs /\ Len(m) = Len(l) + 1
  BY <1>1 DEF Logs
<1>3. /\ cost \in Nat /\ conform \in Nat /\ parts \in Nat /\ latency \in Nat /\ valid \in Nat /\ costs \in Nat
      /\ CostSum[r] = cost /\ Conforming[r] = conform /\ PartCount[r] = parts /\ LatencySum[r] = latency
  BY RunNumbers DEF CostSum, Conforming, PartCount, LatencySum
<1>4. /\ r \in ValidRuns <=> r.valid
      /\ r \in CostedRuns <=> SumCost(r) # Unreported
  BY DEF ValidRuns, CostedRuns
<1>5. \A C : Cardinality(Chosen(C, m)) = Cardinality(Chosen(C, l)) + IF r \in C THEN 1 ELSE 0
  BY <1>1, Natural, LogGrows
<1>6. /\ SumIn(Conforming, RunOutcomes, m) = SumIn(Conforming, RunOutcomes, l) + conform
      /\ SumIn(PartCount, RunOutcomes, m) = SumIn(PartCount, RunOutcomes, l) + parts
      /\ SumIn(LatencySum, RunOutcomes, m) = SumIn(LatencySum, RunOutcomes, l) + latency
  BY <1>1, <1>3, Natural, LogGrows
<1>7. SumIn(CostSum, CostedRuns, m) = SumIn(CostSum, CostedRuns, l) + IF r \in CostedRuns THEN CostSum[r] ELSE 0
  BY <1>1, Natural, LogGrows
<1>8. SumIn(CostSum, CostedRuns, m) = SumIn(CostSum, CostedRuns, l) + cost
  BY <1>3, <1>4, <1>7
<1>9. /\ Cardinality(Chosen(RunOutcomes, m)) = Cardinality(Chosen(RunOutcomes, l)) + 1
      /\ Cardinality(Chosen(ValidRuns, m)) = Cardinality(Chosen(ValidRuns, l)) + valid
      /\ Cardinality(Chosen(CostedRuns, m)) = Cardinality(Chosen(CostedRuns, l)) + costs
  BY <1>4, <1>5
<1>10. b = [a EXCEPT !.runs = @ + 1, !.validationPasses = @ + valid,
              !.conformingChannels = @ + conform, !.totalChannels = @ + parts,
              !.costSum = @ + cost, !.costSamples = @ + costs, !.latencySum = @ + latency]
  BY DEF WithRun
<1> HIDE DEF b, valid, costs, cost, conform, parts, latency, m
<1> DEFINE c == [a EXCEPT !.runs = @ + 1]
<1>11. /\ c \in Aggs /\ c.runs = a.runs + 1 /\ c.errors = a.errors
       /\ c.validationPasses = a.validationPasses /\ c.conformingChannels = a.conformingChannels
       /\ c.totalChannels = a.totalChannels /\ c.costSum = a.costSum
       /\ c.costSamples = a.costSamples /\ c.latencySum = a.latencySum
  BY <1>1 DEF Aggs, AggFields
<1>12. b = [c EXCEPT !.validationPasses = @ + valid,
              !.conformingChannels = @ + conform, !.totalChannels = @ + parts,
              !.costSum = @ + cost, !.costSamples = @ + costs, !.latencySum = @ + latency]
  BY <1>1, <1>10 DEF Aggs, AggFields
<1> HIDE DEF c
<1>13. b \in Aggs
  <2>1. /\ c.validationPasses + valid \in Nat /\ c.conformingChannels + conform \in Nat
        /\ c.totalChannels + parts \in Nat /\ c.costSum + cost \in Nat
        /\ c.costSamples + costs \in Nat /\ c.latencySum + latency \in Nat
    BY <1>3, <1>11 DEF Aggs, AggFields
  <2>2. DOMAIN b = AggFields /\ b = [f \in AggFields |-> b[f]]
    BY <1>11, <1>12 DEF Aggs
  <2>3. \A f \in AggFields : b[f] \in Nat
    BY <1>11, <1>12, <2>1 DEF Aggs, AggFields
  <2> QED BY <2>2, <2>3 DEF Aggs
<1>14. /\ b.runs = c.runs /\ b.errors = c.errors
       /\ b.validationPasses = c.validationPasses + valid
  BY <1>11, <1>12 DEF Aggs, AggFields
<1>15. /\ b.conformingChannels = c.conformingChannels + conform
       /\ b.totalChannels = c.totalChannels + parts /\ b.costSum = c.costSum + cost
  BY <1>11, <1>12 DEF Aggs, AggFields
<1>16. b.costSamples = c.costSamples + costs /\ b.latencySum = c.latencySum + latency
  BY <1>11, <1>12 DEF Aggs, AggFields
<1>17. /\ b \in Aggs /\ b.runs = a.runs + 1 /\ b.errors = a.errors
       /\ b.validationPasses = a.validationPasses + valid
       /\ b.conformingChannels = a.conformingChannels + conform
       /\ b.totalChannels = a.totalChannels + parts /\ b.costSum = a.costSum + cost
       /\ b.costSamples = a.costSamples + costs /\ b.latencySum = a.latencySum + latency
  BY <1>11, <1>13, <1>14, <1>15, <1>16
<1>18. b.runs - b.errors = (a.runs - a.errors) + 1
  BY <1>1, <1>17 DEF Aggs, AggFields
<1>19. Summed(b, m)
  BY <1>2, <1>6, <1>8, <1>9, <1>17, <1>18 DEF Summed
<1> QED BY <1>19 DEF b, m

\* The loops of select so far: every provider reached has its log, the earlier
\* ones have run as often as they shall.
Book ==
  /\ providers \in ProviderLists /\ runsOption \in RunsOption
  /\ weights \in [Respects -> Nat]
  /\ aggs \in Seq(Aggs) /\ log \in Seq(Logs)
  /\ Len(log) = Len(aggs) /\ Len(aggs) <= Len(providers)
  /\ \A p \in 1..Len(aggs) :
       /\ Summed(aggs[p], log[p]) /\ aggs[p].runs <= Runs
       /\ p < Len(aggs) => aggs[p].runs = Runs

\* A provider runs a number of times.
LEMMA RunsNat ==
  ASSUME Book
  PROVE  Runs \in Nat
BY OptionsAssumption DEF Book, Runs

\* No provider has been reached at first.
LEMMA SelectInitBook == SelectInit => Book
<1> SUFFICES ASSUME SelectInit PROVE Book
  OBVIOUS
<1>1. aggs = <<>> /\ log = <<>> /\ providers \in ProviderLists /\ runsOption \in RunsOption
  BY DEF SelectInit
<1>5. weights \in [Respects -> Nat]
  <2>1. PICK given \in WeightOptions : weights = MergedWeights(given)
    BY DEF SelectInit
  <2>2. \A f \in DOMAIN given : given[f] \in Nat
    BY WeightsAssumption
  <2>3. \A f \in Respects : DefaultWeights[f] \in Nat
    BY DEF Respects, DefaultWeights
  <2> QED BY <2>1, <2>2, <2>3 DEF MergedWeights
<1>2. Len(providers) \in Nat
  BY <1>1, OptionsAssumption
<1>3. aggs \in Seq(Aggs) /\ log \in Seq(Logs) /\ Len(log) = 0 /\ Len(aggs) = 0
  BY <1>1
<1>4. 1..0 = {}
  OBVIOUS
<1> QED BY <1>1, <1>2, <1>3, <1>4, <1>5 DEF Book

\* The next provider starts with no run.
LEMMA NextProviderBook ==
  ASSUME Book, NextProvider
  PROVE  Book'
<1> DEFINE n == Len(aggs)
           m == Len(providers)
           R == Runs
           A == Append(aggs, NewAgg)
           L == Append(log, <<>>)
<1>1. /\ aggs' = A /\ log' = L /\ providers' = providers /\ runsOption' = runsOption /\ weights' = weights
      /\ n < m /\ RoundsOver
  BY DEF NextProvider, options
<1>2. /\ aggs \in Seq(Aggs) /\ log \in Seq(Logs) /\ Len(log) = n /\ providers \in ProviderLists
      /\ runsOption \in RunsOption /\ weights \in [Respects -> Nat]
      /\ \A p \in 1..n : Summed(aggs[p], log[p]) /\ aggs[p].runs <= R /\ (p < n => aggs[p].runs = R)
  BY DEF Book
<1>3. n \in Nat /\ R \in Nat /\ m \in Nat
  BY <1>2, RunsNat, OptionsAssumption
<1>4. n > 0 => aggs[n].runs = R
  BY <1>1, <1>2 DEF RoundsOver
<1>5. R' = R
  BY <1>1 DEF Runs
<1>6. NewAgg \in Aggs /\ <<>> \in Logs /\ NewAgg.runs = 0
  BY NewAggSums DEF Summed, NewAgg
<1>7. /\ A \in Seq(Aggs) /\ L \in Seq(Logs) /\ Len(A) = n + 1 /\ Len(L) = n + 1
      /\ A[n + 1] = NewAgg /\ L[n + 1] = <<>>
      /\ \A p \in 1..n : A[p] = aggs[p] /\ L[p] = log[p]
  <2> HIDE DEF NewAgg
  <2> QED BY <1>2, <1>6
<1> HIDE DEF n, m, R, A, L
<1>8. ASSUME NEW p \in 1..(n + 1)
      PROVE  Summed(A[p], L[p]) /\ A[p].runs <= R /\ (p < n + 1 => A[p].runs = R)
  <2>1. CASE p = n + 1
    BY <1>3, <1>6, <1>7, <2>1, NewAggSums
  <2>2. CASE p # n + 1
    <3>1. p \in 1..n /\ (p < n \/ p = n)
      BY <1>3, <2>2
    <3>2. A[p] = aggs[p] /\ L[p] = log[p] /\ aggs[p].runs = R
      BY <1>2, <1>3, <1>4, <1>7, <3>1
    <3> QED BY <1>2, <1>3, <3>1, <3>2
  <2> QED BY <2>1, <2>2
<1>9. n + 1 <= m
  BY <1>1, <1>3
<1>10. Len(providers') = m /\ Len(aggs') = n + 1 /\ Len(log') = n + 1
  BY <1>1, <1>7 DEF m
<1>11. Runs' = R
  BY <1>5 DEF R
<1> QED BY <1>1, <1>2, <1>7, <1>8, <1>9, <1>10, <1>11 DEF Book

\* A run is booked for the provider reached last, which has not run often enough.
LEMMA RoundBook ==
  ASSUME Book, ~RoundsOver, NEW a, NEW t,
         \A b, l : Summed(b, l) /\ b = aggs[Len(aggs)] /\ l = log[Len(log)]
                     => Summed(a, Append(l, t)) /\ a.runs = b.runs + 1,
         aggs' = [aggs EXCEPT ![Len(aggs)] = a],
         log' = [log EXCEPT ![Len(log)] = Append(log[Len(log)], t)],
         UNCHANGED <<providers, runsOption, weights>>
  PROVE  Book'
<1> DEFINE n == Len(aggs)
           m == Len(providers)
           R == Runs
           l == Append(log[n], t)
           A == [aggs EXCEPT ![n] = a]
           L == [log EXCEPT ![n] = l]
<1>2. /\ aggs \in Seq(Aggs) /\ log \in Seq(Logs) /\ Len(log) = n /\ providers \in ProviderLists
      /\ runsOption \in RunsOption /\ n <= m /\ weights \in [Respects -> Nat]
      /\ \A p \in 1..n : Summed(aggs[p], log[p]) /\ aggs[p].runs <= R /\ (p < n => aggs[p].runs = R)
  BY DEF Book
<1>3. n \in Nat /\ R \in Nat /\ m \in Nat
  BY <1>2, RunsNat, OptionsAssumption
<1>4. n > 0 /\ n \in 1..n /\ aggs[n].runs # R
  BY <1>2, <1>3 DEF RoundsOver
<1>5. Summed(aggs[n], log[n]) /\ aggs[n].runs \in Nat /\ aggs[n].runs <= R
  BY <1>2, <1>4 DEF Summed, Aggs, AggFields
<1>6. Summed(a, l) /\ a.runs = aggs[n].runs + 1
  BY <1>2, <1>5
<1>7. a.runs <= R
  BY <1>3, <1>4, <1>5, <1>6
<1>8. a \in Aggs /\ l \in Logs
  BY <1>6 DEF Summed
<1>9. aggs' = A /\ log' = L /\ providers' = providers /\ runsOption' = runsOption /\ weights' = weights
  BY <1>2
<1> HIDE DEF l
<1>10. /\ A \in Seq(Aggs) /\ L \in Seq(Logs) /\ Len(A) = n /\ Len(L) = n
       /\ A[n] = a /\ L[n] = l
       /\ \A p \in 1..n : p # n => A[p] = aggs[p] /\ L[p] = log[p]
  BY <1>2, <1>3, <1>4, <1>8
<1> HIDE DEF n, m, R, A, L
<1>11. ASSUME NEW p \in 1..n
       PROVE  Summed(A[p], L[p]) /\ A[p].runs <= R /\ (p < n => A[p].runs = R)
  <2>1. CASE p = n
    BY <1>3, <1>6, <1>7, <1>10, <2>1
  <2>2. CASE p # n
    BY <1>2, <1>10, <2>2
  <2> QED BY <2>1, <2>2
<1>12. Len(providers') = m /\ Len(aggs') = n /\ Len(log') = n
  BY <1>9, <1>10 DEF m
<1>13. Runs' = R
  BY <1>9 DEF R, Runs
<1> QED BY <1>2, <1>9, <1>10, <1>11, <1>12, <1>13 DEF Book

\* A run that answers, and one that throws.
LEMMA RunsBook ==
  ASSUME Book, RunOnce \/ RunThrows
  PROVE  Book'
<1> DEFINE n == Len(aggs)
<1>1. aggs \in Seq(Aggs) /\ log \in Seq(Logs) /\ Len(log) = n
  BY DEF Book
<1>2. \A b \in Aggs : /\ [b EXCEPT !.runs = @ + 1, !.errors = @ + 1].runs = b.runs + 1
                      /\ \A r : WithRun(b, r).runs = b.runs + 1
  BY DEF Aggs, AggFields, WithRun
<1>3. ~RoundsOver /\ UNCHANGED <<providers, runsOption, weights>> /\ aggs # <<>>
  BY DEF RunOnce, RunThrows, RoundsOver, options
<1>4. n \in DOMAIN aggs
  BY <1>1, <1>3
<1>5. CASE RunOnce
  <2>1. PICK r \in RunOutcomes :
          /\ aggs' = [aggs EXCEPT ![n] = WithRun(aggs[n], r)]
          /\ log' = [log EXCEPT ![Len(log)] = Append(@, <<r>>)]
    BY <1>5 DEF RunOnce, Logged
  <2> DEFINE a == WithRun(aggs[n], r)
  <2>2. aggs' = [aggs EXCEPT ![n] = a] /\ log' = [log EXCEPT ![Len(log)] = Append(log[Len(log)], <<r>>)]
    BY <1>4, <2>1
  <2>3. ASSUME NEW b, NEW l, Summed(b, l), b = aggs[n], l = log[Len(log)]
        PROVE  Summed(a, Append(l, <<r>>)) /\ a.runs = b.runs + 1
    BY <1>2, <2>3, WithRunSums DEF Summed
  <2> HIDE DEF a
  <2> QED BY <1>3, <2>2, <2>3, RoundBook
<1>6. CASE RunThrows
  <2>1. /\ aggs' = [aggs EXCEPT ![n].runs = @ + 1, ![n].errors = @ + 1]
        /\ log' = [log EXCEPT ![Len(log)] = Append(@, <<>>)]
    BY <1>6 DEF RunThrows, Logged
  <2> DEFINE a == [aggs[n] EXCEPT !.runs = @ + 1, !.errors = @ + 1]
  <2>2. aggs' = [aggs EXCEPT ![n] = a] /\ log' = [log EXCEPT ![Len(log)] = Append(log[Len(log)], <<>>)]
    <3>1. [aggs EXCEPT ![n].runs = @ + 1, ![n].errors = @ + 1] = [aggs EXCEPT ![n] = a]
      BY <1>1, <1>4 DEF Aggs, AggFields
    <3> QED BY <2>1, <3>1
  <2>3. ASSUME NEW b, NEW l, Summed(b, l), b = aggs[n], l = log[Len(log)]
        PROVE  Summed(a, Append(l, <<>>)) /\ a.runs = b.runs + 1
    <3>1. b \in Aggs /\ a = [b EXCEPT !.runs = @ + 1, !.errors = @ + 1]
      BY <2>3 DEF Summed
    <3> HIDE DEF a
    <3>2. a.runs = b.runs + 1
      BY <1>2, <3>1
    <3> QED BY <2>3, <3>1, <3>2, ThrowSums
  <2> HIDE DEF a
  <2> QED BY <1>3, <2>2, <2>3, RoundBook
<1> QED BY <1>5, <1>6

\* The aggregates of every provider are those of its log.
THEOREM AggsAreOfRuns == SelectSpec => []Book
<1>1. ASSUME Book, [SelectNext]_selectVars PROVE Book'
  <2>1. CASE UNCHANGED selectVars
    <3>1. /\ aggs' = aggs /\ log' = log /\ providers' = providers /\ runsOption' = runsOption
          /\ weights' = weights
      BY <2>1 DEF selectVars, options
    <3>2. Runs' = Runs
      BY <3>1 DEF Runs
    <3> QED BY <1>1, <3>1, <3>2 DEF Book
  <2> QED BY <1>1, <2>1, NextProviderBook, RunsBook DEF SelectNext
<1> QED BY <1>1, SelectInitBook, PTL DEF SelectSpec

-----------------------------------------------------------------------------
(***************************************************************************)
(* Scores.                                                                 *)
(***************************************************************************)

\* A share of natural numbers is a fraction.
LEMMA OverTypes ==
  ASSUME NEW n \in Nat, NEW d \in Nat
  PROVE  Over(n, d) \in Fractions /\ Over(n, d)[1] \in Nat
BY DEF Over, Fractions

\* Of shares of one whole the larger numerator is the larger share.
LEMMA OverOrders ==
  ASSUME NEW d \in Nat, NEW m \in 0..d, NEW n \in 0..d
  PROVE  Leq(Over(m, d), Over(n, d)) <=> m <= n
<1>1. CASE d = 0
  <2>1. m = 0 /\ n = 0
    BY <1>1
  <2> QED BY <1>1, <2>1 DEF Over, Leq
<1>2. CASE d # 0
  <2>1. Over(m, d) = <<m, d>> /\ Over(n, d) = <<n, d>> /\ d > 0 /\ m \in Int /\ n \in Int
    BY <1>2 DEF Over
  <2> QED BY <2>1, Cancels DEF Leq
<1> QED BY <1>1, <1>2

\* What a score is made of.
Sum4(v, c, k, l) == Plus(Plus(v, c), Plus(k, l))

\* A score is no less when no part is, and more when a part is.
LEMMA SumsOrder ==
  ASSUME NEW v \in Fractions, NEW c \in Fractions, NEW k \in Fractions, NEW l \in Fractions,
         NEW w \in Fractions, NEW d \in Fractions, NEW m \in Fractions, NEW n \in Fractions,
         Leq(v, w), Leq(c, d), Leq(k, m), Leq(l, n)
  PROVE  /\ Sum4(v, c, k, l) \in Fractions /\ Sum4(w, d, m, n) \in Fractions
         /\ Leq(Sum4(v, c, k, l), Sum4(w, d, m, n))
         /\ Less(v, w) \/ Less(c, d) \/ Less(k, m) \/ Less(l, n)
              => Less(Sum4(v, c, k, l), Sum4(w, d, m, n))
<1>1. /\ Plus(v, c) \in Fractions /\ Plus(w, d) \in Fractions /\ Leq(Plus(v, c), Plus(w, d))
      /\ Less(v, w) \/ Less(c, d) => Less(Plus(v, c), Plus(w, d))
  BY PlusOrders
<1>2. /\ Plus(k, l) \in Fractions /\ Plus(m, n) \in Fractions /\ Leq(Plus(k, l), Plus(m, n))
      /\ Less(k, m) \/ Less(l, n) => Less(Plus(k, l), Plus(m, n))
  BY PlusOrders
<1> DEFINE x == Plus(v, c)
           y == Plus(w, d)
           s == Plus(k, l)
           t == Plus(m, n)
<1> HIDE DEF x, y, s, t
<1>3. x \in Fractions /\ y \in Fractions /\ s \in Fractions /\ t \in Fractions /\ Leq(x, y) /\ Leq(s, t)
  BY <1>1, <1>2 DEF x, y, s, t
<1>4. /\ Plus(x, s) \in Fractions /\ Plus(y, t) \in Fractions /\ Leq(Plus(x, s), Plus(y, t))
      /\ Less(x, y) \/ Less(s, t) => Less(Plus(x, s), Plus(y, t))
  BY <1>3, PlusOrders
<1> QED BY <1>1, <1>2, <1>4 DEF Sum4, x, y, s, t

\* The worst of the providers in a respect.
Worst(f) == Biggest({<<0, 1>>} \cup {StatsOf(aggs[q])[f] : q \in DOMAIN aggs})

\* A finite set of fractions has a biggest.
LEMMA BiggestIs ==
  ASSUME NEW S, S \subseteq Fractions, IsFiniteSet(S), S # {}
  PROVE  Biggest(S) \in S /\ \A y \in S : Leq(y, Biggest(S))
<1> DEFINE R == {p \in S \X S : Leq(p[1], p[2])}
<1>1. \A x, y \in S : <<x, y>> \in R <=> Leq(x, y)
  OBVIOUS
<1> HIDE DEF R
<1>2. /\ \A x, y \in S : <<x, y>> \in R \/ <<y, x>> \in R
      /\ \A x, y, z \in S : <<x, y>> \in R /\ <<y, z>> \in R => <<x, z>> \in R
  BY <1>1, LeqOrders
<1>3. \E m \in S : \A x \in S : <<x, m>> \in R
  BY <1>2, GreatestExists
<1>4. \E m \in S : \A x \in S : Leq(x, m)
  BY <1>1, <1>3
<1> QED BY <1>4 DEF Biggest

\* When all have run, providers are summed up as their logs say.
LEMMA StatsOfLogs ==
  ASSUME Book, Finished, NEW p \in DOMAIN aggs
  PROVE  /\ StatsOf(aggs[p]).validation = Over(Passes(log[p]), Runs)
         /\ StatsOf(aggs[p]).conformance = Share(log[p])
         /\ StatsOf(aggs[p])["cost"] = MeanCost(log[p])
         /\ StatsOf(aggs[p])["latency"] = MeanLatency(log[p])
         /\ log[p] \in Logs /\ Passes(log[p]) \in 0..Runs
         /\ Share(log[p]) \in Fractions /\ Share(log[p])[1] \in Nat
         /\ MeanCost(log[p]) \in Fractions /\ MeanCost(log[p])[1] \in Nat
         /\ MeanLatency(log[p]) \in Fractions /\ MeanLatency(log[p])[1] \in Nat
<1> DEFINE a == aggs[p]
           l == log[p]
<1>1. /\ Len(aggs) \in Nat /\ p \in 1..Len(aggs) /\ Summed(a, l) /\ (p < Len(aggs) => a.runs = Runs)
      /\ Runs \in Nat
  BY RunsNat DEF Book
<1>2. p = Len(aggs) => a.runs = Runs
  BY <1>1 DEF Finished, RoundsOver
<1>3. a.runs = Runs
  BY <1>1, <1>2
<1> HIDE DEF a, l
<1>4. l \in Logs /\ Len(l) = Runs
  BY <1>1, <1>3 DEF Summed
<1>5. /\ Cardinality(Chosen(ValidRuns, l)) \in Nat /\ Cardinality(Chosen(ValidRuns, l)) <= Runs
      /\ Cardinality(Chosen(CostedRuns, l)) \in Nat /\ Cardinality(Chosen(RunOutcomes, l)) \in Nat
  BY <1>4, Natural, ChosenTypes
<1>6. /\ SumIn(Conforming, RunOutcomes, l) \in Nat /\ SumIn(PartCount, RunOutcomes, l) \in Nat
      /\ SumIn(CostSum, CostedRuns, l) \in Nat /\ SumIn(LatencySum, RunOutcomes, l) \in Nat
  BY <1>4, Natural, ChosenTypes
<1>7. /\ Passes(l) = Cardinality(Chosen(ValidRuns, l))
      /\ Share(l) = Over(SumIn(Conforming, RunOutcomes, l), SumIn(PartCount, RunOutcomes, l))
      /\ MeanCost(l) = Over(SumIn(CostSum, CostedRuns, l), Cardinality(Chosen(CostedRuns, l)))
      /\ MeanLatency(l) = Over(SumIn(LatencySum, RunOutcomes, l), Cardinality(Chosen(RunOutcomes, l)))
  BY <1>4, LogNumbers
<1>8. /\ Share(l) \in Fractions /\ Share(l)[1] \in Nat /\ MeanCost(l) \in Fractions /\ MeanCost(l)[1] \in Nat
      /\ MeanLatency(l) \in Fractions /\ MeanLatency(l)[1] \in Nat
  BY <1>5, <1>6, <1>7, OverTypes
<1>9. Passes(l) \in 0..Runs
  BY <1>1, <1>5, <1>7
<1>10. /\ StatsOf(a).validation = Over(a.validationPasses, a.runs)
       /\ StatsOf(a).conformance = Over(a.conformingChannels, a.totalChannels)
       /\ StatsOf(a)["cost"] = Over(a.costSum, a.costSamples)
       /\ StatsOf(a)["latency"] = Over(a.latencySum, a.runs - a.errors)
  BY DEF StatsOf
<1>11. /\ a.runs = Runs /\ a.runs - a.errors = Cardinality(Chosen(RunOutcomes, l))
       /\ a.validationPasses = Cardinality(Chosen(ValidRuns, l))
       /\ a.conformingChannels = SumIn(Conforming, RunOutcomes, l)
       /\ a.totalChannels = SumIn(PartCount, RunOutcomes, l)
       /\ a.costSum = SumIn(CostSum, CostedRuns, l)
       /\ a.costSamples = Cardinality(Chosen(CostedRuns, l))
       /\ a.latencySum = SumIn(LatencySum, RunOutcomes, l)
  BY <1>1, <1>3 DEF Summed
<1>12. /\ StatsOf(a).validation = Over(Passes(l), Runs) /\ StatsOf(a).conformance = Share(l)
       /\ StatsOf(a)["cost"] = MeanCost(l) /\ StatsOf(a)["latency"] = MeanLatency(l)
  BY <1>7, <1>10, <1>11
<1> QED BY <1>4, <1>8, <1>9, <1>12 DEF a, l

\* No provider is worse than the worst.
LEMMA WorstIs ==
  ASSUME Book, Finished, NEW f \in {"cost", "latency"}
  PROVE  /\ Worst(f) \in Fractions /\ Worst(f)[1] \in Nat
         /\ \A q \in DOMAIN aggs : Leq(StatsOf(aggs[q])[f], Worst(f))
<1> DEFINE k == [q \in DOMAIN aggs |-> StatsOf(aggs[q])[f]]
           K == {k[q] : q \in DOMAIN aggs}
           S == {<<0, 1>>} \cup K
<1>1. \A q \in DOMAIN aggs : k[q] = StatsOf(aggs[q])[f] /\ k[q] \in Fractions /\ k[q][1] \in Nat
  BY StatsOfLogs
<1>2. IsFiniteSet(DOMAIN aggs)
  <2>1. DOMAIN aggs = 1..Len(aggs) /\ Len(aggs) \in Nat
    BY DEF Book
  <2> QED BY <2>1, FS_Interval
<1>3. <<0, 1>> \in Fractions /\ <<0, 1>>[1] \in Nat
  BY DEF Fractions
<1>4. Worst(f) = Biggest(S)
  BY <1>1 DEF Worst
<1> HIDE DEF k
<1>5. IsFiniteSet(K)
  BY <1>2, ValuesFinite
<1>6. S \subseteq Fractions /\ \A x \in S : x[1] \in Nat
  BY <1>1, <1>3
<1>7. IsFiniteSet(S) /\ S # {}
  <2> DEFINE z == <<0, 1>>
  <2>1. S = K \cup {z}
    OBVIOUS
  <2> HIDE DEF K, S, z
  <2> QED BY <1>5, <2>1, FS_AddElement
<1>8. \A q \in DOMAIN aggs : k[q] \in S
  OBVIOUS
<1> HIDE DEF S
<1>9. Biggest(S) \in S /\ \A y \in S : Leq(y, Biggest(S))
  BY <1>6, <1>7, BiggestIs
<1> QED BY <1>1, <1>4, <1>6, <1>8, <1>9

\* What a provider's score is made of.
CostPart(p) == Times(weights.cost, Inverted(MeanCost(log[p]), Worst("cost")))
LatencyPart(p) == Times(weights.latency, Inverted(MeanLatency(log[p]), Worst("latency")))
ValidPart(p) == Times(weights.validation, Over(Passes(log[p]), Runs))
SharePart(p) == Times(weights.conformance, Share(log[p]))

\* The score, from the log.
LEMMA ScoreIs ==
  ASSUME Book, Finished, NEW p \in DOMAIN aggs
  PROVE  Score(p) = Sum4(ValidPart(p), SharePart(p), CostPart(p), LatencyPart(p))
<1> DEFINE stats == [q \in DOMAIN aggs |-> StatsOf(aggs[q])]
           worst(f) == Biggest({<<0, 1>>} \cup {stats[q][f] : q \in DOMAIN aggs})
<1>1. stats[p] = StatsOf(aggs[p]) /\ \A q \in DOMAIN aggs : stats[q] = StatsOf(aggs[q])
  OBVIOUS
<1>2. \A f : {stats[q][f] : q \in DOMAIN aggs} = {StatsOf(aggs[q])[f] : q \in DOMAIN aggs}
  BY <1>1
<1>3. worst("cost") = Worst("cost") /\ worst("latency") = Worst("latency")
  BY <1>2 DEF Worst
<1>4. Score(p) = Plus(Plus(Times(weights.validation, stats[p].validation),
                           Times(weights.conformance, stats[p].conformance)),
                      Plus(Times(weights.cost, Inverted(stats[p]["cost"], worst("cost"))),
                           Times(weights.latency, Inverted(stats[p]["latency"], worst("latency")))))
  BY DEF Score
<1> HIDE DEF stats, worst
<1> QED BY <1>1, <1>3, <1>4, StatsOfLogs DEF Sum4, CostPart, LatencyPart, ValidPart, SharePart

\* The parts of scores go by the log, the better in a respect the more.
LEMMA PartsOrder ==
  ASSUME Book, Finished, NEW p \in DOMAIN aggs, NEW q \in DOMAIN aggs
  PROVE  /\ ValidPart(p) \in Fractions /\ SharePart(p) \in Fractions
         /\ CostPart(p) \in Fractions /\ LatencyPart(p) \in Fractions
         /\ (weights.validation > 0 => Passes(log[p]) <= Passes(log[q])) => Leq(ValidPart(p), ValidPart(q))
         /\ weights.validation > 0 /\ ~(Passes(log[q]) <= Passes(log[p])) => Less(ValidPart(p), ValidPart(q))
         /\ (weights.conformance > 0 => Leq(Share(log[p]), Share(log[q]))) => Leq(SharePart(p), SharePart(q))
         /\ weights.conformance > 0 /\ Less(Share(log[p]), Share(log[q])) => Less(SharePart(p), SharePart(q))
         /\ (weights.cost > 0 => Leq(MeanCost(log[q]), MeanCost(log[p]))) => Leq(CostPart(p), CostPart(q))
         /\ weights.cost > 0 /\ Less(MeanCost(log[q]), MeanCost(log[p])) => Less(CostPart(p), CostPart(q))
         /\ (weights.latency > 0 => Leq(MeanLatency(log[q]), MeanLatency(log[p]))) =>
              Leq(LatencyPart(p), LatencyPart(q))
         /\ weights.latency > 0 /\ Less(MeanLatency(log[q]), MeanLatency(log[p])) =>
              Less(LatencyPart(p), LatencyPart(q))
<1>1. /\ weights.validation \in Nat /\ weights.conformance \in Nat
      /\ weights.cost \in Nat /\ weights.latency \in Nat
  BY DEF Book, Respects
<1>2. Runs \in Nat
  BY RunsNat
<1>3. /\ Passes(log[p]) \in 0..Runs /\ Share(log[p]) \in Fractions
      /\ Passes(log[q]) \in 0..Runs /\ Share(log[q]) \in Fractions
  BY StatsOfLogs
<1>4. /\ Over(Passes(log[p]), Runs) \in Fractions /\ Over(Passes(log[q]), Runs) \in Fractions
      /\ Leq(Over(Passes(log[p]), Runs), Over(Passes(log[q]), Runs)) <=> Passes(log[p]) <= Passes(log[q])
  BY <1>2, <1>3, OverTypes, OverOrders
<1>5. /\ ValidPart(p) \in Fractions
      /\ (weights.validation > 0 => Passes(log[p]) <= Passes(log[q])) => Leq(ValidPart(p), ValidPart(q))
      /\ weights.validation > 0 /\ ~(Passes(log[q]) <= Passes(log[p])) => Less(ValidPart(p), ValidPart(q))
  <2> DEFINE x == Over(Passes(log[p]), Runs)
             y == Over(Passes(log[q]), Runs)
  <2>1. /\ x \in Fractions /\ y \in Fractions
        /\ Leq(x, y) <=> Passes(log[p]) <= Passes(log[q])
        /\ Less(x, y) <=> ~(Passes(log[q]) <= Passes(log[p]))
    <3>1. /\ x \in Fractions /\ y \in Fractions
          /\ Leq(x, y) <=> Passes(log[p]) <= Passes(log[q])
      BY <1>4
    <3>2. Leq(y, x) <=> Passes(log[q]) <= Passes(log[p])
      BY <1>2, <1>3, OverOrders
    <3> QED BY <3>1, <3>2 DEF Less
  <2> HIDE DEF x, y
  <2>2. /\ Times(weights.validation, x) \in Fractions
        /\ (weights.validation > 0 => Leq(x, y)) => Leq(Times(weights.validation, x), Times(weights.validation, y))
        /\ weights.validation > 0 /\ Less(x, y) => Less(Times(weights.validation, x), Times(weights.validation, y))
    BY <1>1, <2>1, Weighed
  <2> QED BY <2>1, <2>2 DEF ValidPart, x, y
<1>6. /\ SharePart(p) \in Fractions
      /\ (weights.conformance > 0 => Leq(Share(log[p]), Share(log[q]))) => Leq(SharePart(p), SharePart(q))
      /\ weights.conformance > 0 /\ Less(Share(log[p]), Share(log[q])) => Less(SharePart(p), SharePart(q))
  BY <1>1, <1>3, Weighed DEF SharePart
<1>7. ASSUME NEW k \in Nat, NEW w \in Fractions, NEW x \in Fractions, NEW y \in Fractions,
             x[1] \in Nat, y[1] \in Nat, w[1] \in Nat, Leq(x, w), Leq(y, w)
      PROVE  /\ Times(k, Inverted(x, w)) \in Fractions
             /\ (k > 0 => Leq(y, x)) => Leq(Times(k, Inverted(x, w)), Times(k, Inverted(y, w)))
             /\ k > 0 /\ Less(y, x) => Less(Times(k, Inverted(x, w)), Times(k, Inverted(y, w)))
  <2> DEFINE i == Inverted(x, w)
             j == Inverted(y, w)
  <2>1. i \in Fractions /\ j \in Fractions /\ (Leq(y, x) => Leq(i, j)) /\ (Less(y, x) => Less(i, j))
    BY <1>7, InvertedTurns
  <2> HIDE DEF i, j
  <2>2. /\ Times(k, i) \in Fractions /\ ((k > 0 => Leq(i, j)) => Leq(Times(k, i), Times(k, j)))
        /\ (k > 0 /\ Less(i, j) => Less(Times(k, i), Times(k, j)))
    BY <1>7, <2>1, Weighed
  <2> QED BY <2>1, <2>2 DEF i, j
<1>8. \A r \in DOMAIN aggs :
        /\ MeanCost(log[r]) \in Fractions /\ MeanCost(log[r])[1] \in Nat
        /\ Leq(MeanCost(log[r]), Worst("cost"))
        /\ MeanLatency(log[r]) \in Fractions /\ MeanLatency(log[r])[1] \in Nat
        /\ Leq(MeanLatency(log[r]), Worst("latency"))
  BY StatsOfLogs, WorstIs
<1>9. /\ Worst("cost") \in Fractions /\ Worst("cost")[1] \in Nat
      /\ Worst("latency") \in Fractions /\ Worst("latency")[1] \in Nat
  BY WorstIs
<1>10. /\ CostPart(p) \in Fractions
       /\ (weights.cost > 0 => Leq(MeanCost(log[q]), MeanCost(log[p]))) => Leq(CostPart(p), CostPart(q))
       /\ weights.cost > 0 /\ Less(MeanCost(log[q]), MeanCost(log[p])) => Less(CostPart(p), CostPart(q))
  BY <1>1, <1>7, <1>8, <1>9 DEF CostPart
<1>11. /\ LatencyPart(p) \in Fractions
       /\ (weights.latency > 0 => Leq(MeanLatency(log[q]), MeanLatency(log[p]))) =>
            Leq(LatencyPart(p), LatencyPart(q))
       /\ weights.latency > 0 /\ Less(MeanLatency(log[q]), MeanLatency(log[p])) =>
            Less(LatencyPart(p), LatencyPart(q))
  BY <1>1, <1>7, <1>8, <1>9 DEF LatencyPart
<1> QED BY <1>5, <1>6, <1>10, <1>11

\* Who did worse in some respect and better in none has the lower score.
LEMMA DominatedIsBehind ==
  ASSUME Book, Finished, NEW p \in DOMAIN aggs, NEW q \in DOMAIN aggs,
         Dominates(log[q], log[p]), ~Dominates(log[p], log[q])
  PROVE  Less(Score(p), Score(q))
<1>1. /\ weights.validation > 0 => Passes(log[p]) <= Passes(log[q])
      /\ weights.conformance > 0 => Leq(Share(log[p]), Share(log[q]))
      /\ weights.cost > 0 => Leq(MeanCost(log[q]), MeanCost(log[p]))
      /\ weights.latency > 0 => Leq(MeanLatency(log[q]), MeanLatency(log[p]))
  BY DEF Dominates
<1>2. \/ weights.validation > 0 /\ ~(Passes(log[q]) <= Passes(log[p]))
      \/ weights.conformance > 0 /\ Less(Share(log[p]), Share(log[q]))
      \/ weights.cost > 0 /\ Less(MeanCost(log[q]), MeanCost(log[p]))
      \/ weights.latency > 0 /\ Less(MeanLatency(log[q]), MeanLatency(log[p]))
  BY DEF Dominates, Less
<1>3. /\ ValidPart(p) \in Fractions /\ SharePart(p) \in Fractions
      /\ CostPart(p) \in Fractions /\ LatencyPart(p) \in Fractions
      /\ ValidPart(q) \in Fractions /\ SharePart(q) \in Fractions
      /\ CostPart(q) \in Fractions /\ LatencyPart(q) \in Fractions
  BY PartsOrder
<1>4. /\ Leq(ValidPart(p), ValidPart(q)) /\ Leq(SharePart(p), SharePart(q))
      /\ Leq(CostPart(p), CostPart(q)) /\ Leq(LatencyPart(p), LatencyPart(q))
  BY <1>1, PartsOrder
<1>5. \/ Less(ValidPart(p), ValidPart(q)) \/ Less(SharePart(p), SharePart(q))
      \/ Less(CostPart(p), CostPart(q)) \/ Less(LatencyPart(p), LatencyPart(q))
  <2>1. CASE weights.validation > 0 /\ ~(Passes(log[q]) <= Passes(log[p]))
    BY <2>1, PartsOrder
  <2>2. CASE weights.conformance > 0 /\ Less(Share(log[p]), Share(log[q]))
    BY <2>2, PartsOrder
  <2>3. CASE weights.cost > 0 /\ Less(MeanCost(log[q]), MeanCost(log[p]))
    BY <2>3, PartsOrder
  <2>4. CASE weights.latency > 0 /\ Less(MeanLatency(log[q]), MeanLatency(log[p]))
    BY <2>4, PartsOrder
  <2> QED BY <1>2, <2>1, <2>2, <2>3, <2>4
<1>6. Less(Sum4(ValidPart(p), SharePart(p), CostPart(p), LatencyPart(p)),
           Sum4(ValidPart(q), SharePart(q), CostPart(q), LatencyPart(q)))
  BY <1>3, <1>4, <1>5, SumsOrder
<1> QED BY <1>6, ScoreIs

\* Weighing keeps what is not negative so, and nothing nothing; what is not at
\* all as bad as the worst counts for no more than the weight.
LEMMA TimesBounds ==
  ASSUME NEW k \in Nat
  PROVE  /\ \A x \in Fractions : Leq(<<0, 1>>, x) => Leq(<<0, 1>>, Times(k, x))
         /\ \A d \in Nat \ {0} : Leq(Times(k, <<0, d>>), <<0, 1>>) /\ Leq(<<k, 1>>, Times(k, <<d, d>>))
         /\ \A w \in Fractions : w[1] \in Nat => Leq(Times(k, Inverted(<<0, 1>>, w)), <<k, 1>>)
<1>1. ASSUME NEW x \in Fractions, Leq(<<0, 1>>, x) PROVE Leq(<<0, 1>>, Times(k, x))
  <2> DEFINE a == x[1]
             b == x[2]
  <2>1. a \in Int /\ b \in Nat
    BY Parts
  <2>2. 0 * b <= a * 1
    BY <1>1 DEF Leq
  <2>3. Times(k, x) = <<k * a, b>>
    BY DEF Times
  <2> HIDE DEF a, b
  <2>4. 0 <= a
    BY <2>1, <2>2
  <2>5. 0 * b <= (k * a) * 1
    BY <2>1, <2>4
  <2> QED BY <2>3, <2>5 DEF Leq
<1>2. ASSUME NEW d \in Nat \ {0}
      PROVE  Leq(Times(k, <<0, d>>), <<0, 1>>) /\ Leq(<<k, 1>>, Times(k, <<d, d>>))
  <2>1. Times(k, <<0, d>>) = <<k * 0, d>> /\ Times(k, <<d, d>>) = <<k * d, d>>
    BY DEF Times
  <2>2. (k * 0) * 1 <= 0 * d /\ k * d <= (k * d) * 1
    OBVIOUS
  <2> QED BY <2>1, <2>2 DEF Leq
<1>3. ASSUME NEW w \in Fractions, w[1] \in Nat PROVE Leq(Times(k, Inverted(<<0, 1>>, w)), <<k, 1>>)
  <2> DEFINE e == w[1]
             f == w[2]
  <2>1. e \in Nat /\ f \in Nat
    BY <1>3, Parts
  <2>2. Inverted(<<0, 1>>, w) = IF e = 0 THEN <<1, 1>> ELSE <<1 * e - 0 * f, 1 * e>>
    BY DEF Inverted
  <2> HIDE DEF e, f
  <2>3. CASE e = 0
    <3>1. Times(k, Inverted(<<0, 1>>, w)) = <<k * 1, 1>>
      BY <2>2, <2>3 DEF Times
    <3>2. (k * 1) * 1 <= k * 1
      OBVIOUS
    <3> QED BY <3>1, <3>2 DEF Leq
  <2>4. CASE e # 0
    <3>1. Times(k, Inverted(<<0, 1>>, w)) = <<k * (1 * e - 0 * f), 1 * e>>
      BY <2>2, <2>4 DEF Times
    <3>2. (k * (1 * e - 0 * f)) * 1 <= k * (1 * e)
      BY <2>1
    <3> QED BY <3>1, <3>2 DEF Leq
  <2> QED BY <2>3, <2>4
<1> QED BY <1>1, <1>2, <1>3

\* A provider that only threw is summed up as nothing.
LEMMA NothingCameBack ==
  ASSUME NEW l, CameBack(l) = {}
  PROVE  Passes(l) = 0 /\ Share(l) = <<0, 1>> /\ MeanCost(l) = <<0, 1>> /\ MeanLatency(l) = <<0, 1>>
<1>1. Costed(l) = {} /\ {n \in CameBack(l) : l[n][1].valid} = {}
  BY DEF Costed
<1>2. Cardinality({}) = 0
  BY FS_EmptySet
<1>3. Passes(l) = 0
  BY <1>1, <1>2 DEF Passes
<1>4. \A n : Over(n, 0) = <<0, 1>>
  BY DEF Over
<1>5. MeanCost(l) = <<0, 1>>
  BY <1>1, <1>2, <1>4 DEF MeanCost
<1>6. MeanLatency(l) = <<0, 1>>
  BY <1>2, <1>4 DEF MeanLatency
<1>7. Share(l) = <<0, 1>>
  <2> DEFINE f == [n \in CameBack(l) |-> Len(l[n][1].channels)]
  <2>1. DOMAIN f = {}
    OBVIOUS
  <2>2. Share(l) = Over(Total([n \in CameBack(l) |-> Conformance(l[n][1])]), Total(f))
    BY DEF Share
  <2> HIDE DEF f
  <2>3. Total(f) = 0
    BY <2>1, TotalEmpty
  <2> QED BY <1>4, <2>2, <2>3
<1> QED BY <1>3, <1>5, <1>6, <1>7

\* A provider whose runs all passed has no lower score than one whose runs all
\* threw if validation weighs as much as cost and latency together, and a higher
\* one if it weighs more.
LEMMA ThrownIsBehind ==
  ASSUME Book, Finished, NEW p \in DOMAIN aggs, NEW q \in DOMAIN aggs,
         Passes(log[q]) = Runs, Runs > 0, CameBack(log[p]) = {},
         weights.validation >= weights.cost + weights.latency
  PROVE  /\ Leq(Score(p), Score(q))
         /\ weights.validation > weights.cost + weights.latency => Less(Score(p), Score(q))
<1> DEFINE v == weights.validation
           c == weights.conformance
           k == weights.cost
           l == weights.latency
           zero == <<0, 1>>
<1>1. v \in Nat /\ c \in Nat /\ k \in Nat /\ l \in Nat /\ v >= k + l
  BY DEF Book, Respects
<1>2. Runs \in Nat \ {0}
  BY RunsNat
<1>3. zero \in Fractions /\ <<v, 1>> \in Fractions /\ <<k, 1>> \in Fractions /\ <<l, 1>> \in Fractions
  BY <1>1 DEF Fractions
<1>4. /\ ValidPart(p) \in Fractions /\ SharePart(p) \in Fractions
      /\ CostPart(p) \in Fractions /\ LatencyPart(p) \in Fractions
      /\ ValidPart(q) \in Fractions /\ SharePart(q) \in Fractions
      /\ CostPart(q) \in Fractions /\ LatencyPart(q) \in Fractions
  BY PartsOrder
<1>5. /\ Passes(log[p]) = 0 /\ Share(log[p]) = zero
      /\ MeanCost(log[p]) = zero /\ MeanLatency(log[p]) = zero
  BY NothingCameBack
<1>6. Worst("cost") \in Fractions /\ Worst("cost")[1] \in Nat
      /\ Worst("latency") \in Fractions /\ Worst("latency")[1] \in Nat
  BY WorstIs
<1>7. Over(0, Runs) = <<0, Runs>> /\ Over(Runs, Runs) = <<Runs, Runs>>
  BY <1>2 DEF Over
<1>8. Leq(ValidPart(p), zero) /\ Leq(<<v, 1>>, ValidPart(q))
  <2>1. Leq(Times(v, <<0, Runs>>), zero) /\ Leq(<<v, 1>>, Times(v, <<Runs, Runs>>))
    BY <1>1, <1>2, TimesBounds
  <2> QED BY <1>5, <1>7, <2>1 DEF ValidPart
<1>9. Leq(SharePart(p), zero)
  <2>1. 1 \in Nat \ {0}
    OBVIOUS
  <2>2. Leq(Times(c, <<0, 1>>), <<0, 1>>)
    BY <1>1, <2>1, TimesBounds
  <2> QED BY <1>5, <2>2 DEF SharePart
<1>10. Leq(CostPart(p), <<k, 1>>) /\ Leq(LatencyPart(p), <<l, 1>>)
  BY <1>1, <1>5, <1>6, TimesBounds DEF CostPart, LatencyPart
<1>11. Leq(zero, SharePart(q))
  <2> DEFINE x == Share(log[q])
  <2>1. x \in Fractions /\ x[1] \in Nat /\ x[2] \in Nat
    BY StatsOfLogs, Parts
  <2>2. Leq(zero, x)
    <3> HIDE DEF x
    <3>1. 0 * x[2] <= x[1] * 1
      BY <2>1
    <3> QED BY <3>1 DEF Leq
  <2> HIDE DEF x
  <2>3. Leq(zero, Times(c, x))
    BY <1>1, <2>1, <2>2, TimesBounds
  <2> QED BY <2>3 DEF x, SharePart
<1>12. ASSUME NEW w \in Fractions, NEW x \in Fractions, NEW n \in Nat,
              x[1] \in Nat, w[1] \in Nat, Leq(x, w)
       PROVE  Leq(zero, Times(n, Inverted(x, w)))
  <2> DEFINE i == Inverted(x, w)
  <2>1. i \in Fractions /\ Leq(zero, i)
    BY <1>12, InvertedTurns
  <2> HIDE DEF i
  <2>2. Leq(zero, Times(n, i))
    BY <2>1, TimesBounds
  <2> QED BY <2>2 DEF i
<1>13. Leq(zero, CostPart(q)) /\ Leq(zero, LatencyPart(q))
  <2>1. /\ MeanCost(log[q]) \in Fractions /\ MeanCost(log[q])[1] \in Nat
        /\ Leq(MeanCost(log[q]), Worst("cost"))
        /\ MeanLatency(log[q]) \in Fractions /\ MeanLatency(log[q])[1] \in Nat
        /\ Leq(MeanLatency(log[q]), Worst("latency"))
    BY StatsOfLogs, WorstIs
  <2> QED BY <1>1, <1>6, <1>12, <2>1 DEF CostPart, LatencyPart
<1> DEFINE most == Sum4(zero, zero, <<k, 1>>, <<l, 1>>)
           least == Sum4(<<v, 1>>, zero, zero, zero)
<1>14. Leq(most, least) /\ (v > k + l => Less(most, least))
  <2> HIDE DEF v, k, l
  <2>1. Plus(zero, zero) = <<0, 1>> /\ Plus(<<k, 1>>, <<l, 1>>) = <<k + l, 1>> /\ Plus(<<v, 1>>, zero) = <<v, 1>>
    BY <1>1 DEF Plus
  <2>2. Plus(<<0, 1>>, <<k + l, 1>>) = <<k + l, 1>> /\ Plus(<<v, 1>>, <<0, 1>>) = <<v, 1>>
    BY <1>1 DEF Plus
  <2>3. most = <<k + l, 1>> /\ least = <<v, 1>>
    BY <2>1, <2>2 DEF Sum4
  <2>4. (k + l) * 1 <= v * 1 /\ (v > k + l => ~(v * 1 <= (k + l) * 1))
    BY <1>1
  <2> QED BY <2>3, <2>4 DEF Less, Leq
<1>15. /\ Score(p) \in Fractions /\ most \in Fractions /\ least \in Fractions /\ Score(q) \in Fractions
       /\ Leq(Score(p), most) /\ Leq(least, Score(q))
  <2> HIDE DEF zero, v, k, l, c
  <2>1. /\ Sum4(ValidPart(p), SharePart(p), CostPart(p), LatencyPart(p)) \in Fractions /\ most \in Fractions
        /\ Leq(Sum4(ValidPart(p), SharePart(p), CostPart(p), LatencyPart(p)), most)
    BY <1>3, <1>4, <1>8, <1>9, <1>10, SumsOrder
  <2>2. /\ Sum4(ValidPart(q), SharePart(q), CostPart(q), LatencyPart(q)) \in Fractions /\ least \in Fractions
        /\ Leq(least, Sum4(ValidPart(q), SharePart(q), CostPart(q), LatencyPart(q)))
    BY <1>3, <1>4, <1>8, <1>11, <1>13, SumsOrder
  <2> HIDE DEF most, least
  <2> QED BY <2>1, <2>2, ScoreIs
<1> HIDE DEF most, least
<1> DEFINE s == Score(p)
           t == Score(q)
<1> HIDE DEF s, t
<1>16. /\ s \in Fractions /\ most \in Fractions /\ least \in Fractions /\ t \in Fractions
       /\ Leq(s, most) /\ Leq(most, least) /\ (v > k + l => Less(most, least)) /\ Leq(least, t)
  BY <1>14, <1>15 DEF s, t
<1>17. Leq(s, least) /\ (v > k + l => Less(s, least))
  BY <1>16, LeqOrders, LessOrders
<1>18. Leq(s, t) /\ (v > k + l => Less(s, t))
  BY <1>16, <1>17, LeqOrders, LessOrders
<1> QED BY <1>18 DEF s, t

\* `ModelSelector.select` ranks soundly, whatever weights are given: each provider
\* of the list has a place of its own; none is before one that did better in some
\* respect that has a weight and worse in none; and one whose runs all threw, which
\* is cheap and fast, is before one whose runs all passed only when validation
\* weighs less than cost and latency, or as much and it is named first.
THEOREM RankingIsSound == SelectSpec => []RankingSound
<1>1. ASSUME Book PROVE RankingSound
  <2> SUFFICES ASSUME Finished, NEW p \in DOMAIN aggs, NEW q \in DOMAIN aggs
               PROVE  /\ Place(p) \in DOMAIN aggs /\ (p # q => Place(p) # Place(q))
                      /\ Place(p) < Place(q) =>
                           /\ Dominates(log[q], log[p]) => Dominates(log[p], log[q])
                           /\ CameBack(log[p]) = {} /\ Passes(log[q]) = Runs /\ Runs > 0 =>
                                \/ weights.validation < weights.cost + weights.latency
                                \/ weights.validation = weights.cost + weights.latency /\ p < q
    BY DEF RankingSound
  <2>1. Scored
    <3>1. DOMAIN aggs = 1..Len(aggs) /\ Len(aggs) \in Nat
      BY <1>1 DEF Book
    <3>2. IsFiniteSet(DOMAIN aggs) /\ Cardinality(DOMAIN aggs) = Len(aggs)
      <4> DEFINE n == Len(aggs)
      <4>1. n - 1 + 1 = n /\ n \in Nat /\ 1 \in Int
        BY <3>1
      <4> HIDE DEF n
      <4>2. IsFiniteSet(1..n) /\ Cardinality(1..n) = n
        BY <4>1, FS_Interval
      <4> QED BY <3>1, <4>2 DEF n
    <3>3. \A r \in DOMAIN aggs : Score(r) \in Fractions
      <4> SUFFICES ASSUME NEW r \in DOMAIN aggs PROVE Score(r) \in Fractions
        OBVIOUS
      <4>1. /\ ValidPart(r) \in Fractions /\ SharePart(r) \in Fractions
            /\ CostPart(r) \in Fractions /\ LatencyPart(r) \in Fractions
        BY <1>1, PartsOrder
      <4>2. \A x \in Fractions : Leq(x, x)
        BY LeqOrders
      <4>3. Sum4(ValidPart(r), SharePart(r), CostPart(r), LatencyPart(r)) \in Fractions
        BY <4>1, <4>2, SumsOrder
      <4> QED BY <1>1, <4>3, ScoreIs
    <3> QED BY <3>1, <3>2, <3>3 DEF Scored
  <2>2. Place(p) \in DOMAIN aggs /\ (p # q => Place(p) # Place(q))
    BY <2>1, PlacesOrder
  <2>3. Place(p) < Place(q) => ~Less(Score(p), Score(q))
    BY <2>1, PlacesOrder DEF Ahead
  <2>4. Place(p) < Place(q) => (Dominates(log[q], log[p]) => Dominates(log[p], log[q]))
    BY <1>1, <2>3, DominatedIsBehind
  <2>5. ASSUME Place(p) < Place(q), CameBack(log[p]) = {}, Passes(log[q]) = Runs, Runs > 0,
               ~(weights.validation < weights.cost + weights.latency)
        PROVE  weights.validation = weights.cost + weights.latency /\ p < q
    <3> DEFINE v == weights.validation
               k == weights.cost
               l == weights.latency
    <3>1. v \in Nat /\ k \in Nat /\ l \in Nat
      BY <1>1 DEF Book, Respects
    <3>2. v >= k + l
      BY <2>5, <3>1
    <3>3. Leq(Score(p), Score(q)) /\ (v > k + l => Less(Score(p), Score(q)))
      BY <1>1, <2>5, <3>2, ThrownIsBehind
    <3>4. ~Less(Score(q), Score(p))
      BY <3>3 DEF Less
    <3>5. Ahead(p, q)
      BY <2>1, <2>5, PlacesOrder
    <3>6. p < q
      BY <3>4, <3>5 DEF Ahead
    <3>7. ~(v > k + l)
      BY <2>3, <2>5, <3>3
    <3> HIDE DEF v, k, l
    <3>8. v = k + l
      BY <3>1, <3>2, <3>7
    <3> QED BY <3>6, <3>8 DEF v, k, l
  <2> QED BY <2>2, <2>4, <2>5
<1> QED BY <1>1, AggsAreOfRuns, PTL
=============================================================================
