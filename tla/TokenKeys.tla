------------------------------- MODULE TokenKeys -------------------------------
(***************************************************************************)
(* Authorization of requests by access tokens: the key a token names comes *)
(* from a cache of the identity provider's keys, fetched again when it is  *)
(* empty, too old or lacks that key.  Requests refresh concurrently, the   *)
(* provider rotates its keys, answers come late, out of order or not.      *)
(***************************************************************************)
EXTENDS Naturals

CONSTANTS
  Kids,      \* key ids
  Requests,
  Ttl, MaxTime

ASSUME TokenKeysAssumption == Kids # {} /\ Ttl \in Nat /\ MaxTime \in Nat

VARIABLES
  published,  \* what the provider publishes
  keys,       \* the cache
  lastFetch,  \* when it was filled; 0 is long ago
  now,
  rpc,        \* per request: where it is, or its verdict
  kid,        \* per request: the key its token names and is signed with
  answer,     \* per request: the keys its own fetch returned
  asked       \* per request: "no", "failed" or "answered", its own fetch

keyCacheVars == <<published, keys, lastFetch, now, rpc, kid, answer, asked>>

KeysInit ==
  /\ published \in SUBSET Kids
  /\ keys = {} /\ lastFetch = 0 /\ now = Ttl + 1
  /\ rpc = [r \in Requests |-> "idle"]
  /\ kid = [r \in Requests |-> CHOOSE k \in Kids : TRUE]
  /\ answer = [r \in Requests |-> {}]
  /\ asked = [r \in Requests |-> "no"]

Tick ==
  /\ now < MaxTime /\ now' = now + 1
  /\ UNCHANGED <<published, keys, lastFetch, rpc, kid, answer, asked>>

Rotate ==
  /\ published' \in SUBSET Kids /\ published' # published
  /\ UNCHANGED <<keys, lastFetch, now, rpc, kid, answer, asked>>

\* Fault: the cache is only fetched again when it is too old.
MustRefresh_WhenStale(k) == keys = {} \/ now - lastFetch > Ttl

MustRefresh(k) == keys = {} \/ now - lastFetch > Ttl \/ k \notin keys

\* The rest of verify, once the key is there: signature, issuer, audience, time.
Claims == {"valid", "invalid"}

\* A static token is accepted without the provider; one that is no JWT, of
\* another algorithm or without a kid is rejected without it.
StaticToken(r) ==
  /\ rpc[r] = "idle"
  /\ rpc' = [rpc EXCEPT ![r] = "static"]
  /\ UNCHANGED <<published, keys, lastFetch, now, kid, answer, asked>>

Malformed(r) ==
  /\ rpc[r] = "idle"
  /\ rpc' = [rpc EXCEPT ![r] = "invalid"]
  /\ UNCHANGED <<published, keys, lastFetch, now, kid, answer, asked>>

GetKey(r) ==
  /\ rpc[r] = "idle"
  /\ \E k \in Kids :
       /\ kid' = [kid EXCEPT ![r] = k]
       /\ \E v \in Claims :
            rpc' = [rpc EXCEPT ![r] = IF MustRefresh(k) THEN "sent"
                                     ELSE IF k \in keys THEN v ELSE "unknown_key"]
  /\ UNCHANGED <<published, keys, lastFetch, now, answer, asked>>

\* The provider answers with what it publishes then, or the fetch fails.
Answered(r) ==
  /\ rpc[r] = "sent"
  /\ \/ /\ rpc' = [rpc EXCEPT ![r] = "answered"]
        /\ answer' = [answer EXCEPT ![r] = published]
        /\ asked' = [asked EXCEPT ![r] = "answered"]
     \/ /\ rpc' = [rpc EXCEPT ![r] = "unknown_key"]
        /\ asked' = [asked EXCEPT ![r] = "failed"] /\ answer' = answer
  /\ UNCHANGED <<published, keys, lastFetch, now, kid>>

\* refresh: the last answer to arrive is the cache, whichever was sent last.
Refresh(r) ==
  /\ rpc[r] = "answered"
  /\ keys' = answer[r] /\ lastFetch' = now
  /\ rpc' = [rpc EXCEPT ![r] = "refreshed"]
  /\ UNCHANGED <<published, now, kid, answer, asked>>

\* A turn later the key is looked up in the cache there is by then.
Lookup(r) ==
  /\ rpc[r] = "refreshed"
  /\ \E v \in Claims : rpc' = [rpc EXCEPT ![r] = IF kid[r] \in keys THEN v ELSE "unknown_key"]
  /\ UNCHANGED <<published, keys, lastFetch, now, kid, answer, asked>>

KeysNext ==
  \/ Tick \/ Rotate
  \/ \E r \in Requests : StaticToken(r) \/ Malformed(r) \/ GetKey(r) \/ Answered(r) \/ Refresh(r) \/ Lookup(r)

KeysSpec == KeysInit /\ [][KeysNext]_keyCacheVars

----------------------------------------------------------------------------
\* A token's key is called unknown only when the provider was asked on that
\* token's behalf and did not answer or did not name it, or when the answer to
\* another request took the place of its own before it was read: a new key
\* works at once, without waiting for the cache to age.
UnknownOnlyIfAsked ==
  \A r \in Requests :
    rpc[r] = "unknown_key" =>
      \/ asked[r] = "failed"
      \/ /\ asked[r] = "answered"
         /\ \E q \in Requests : asked[q] = "answered" /\ kid[r] \notin answer[q]
=============================================================================
