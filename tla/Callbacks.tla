------------------------------- MODULE Callbacks -------------------------------
(***************************************************************************)
(* Delegated channels: each dispatch mints a secret and puts it into the   *)
(* run's secrets file by reading the file, adding its own and writing the  *)
(* file in place; the callback route reads the secret back, verifies the   *)
(* signature and consumes the nonce, which only memory remembers.  Puts    *)
(* run concurrently, callbacks come late, twice and across a restart.      *)
(***************************************************************************)
EXTENDS Naturals, FiniteSets

CONSTANTS
  Delegated,    \* delegated channels of one run
  MaxDispatch,  \* dispatches of a channel, one per depth
  Deliveries,   \* callback requests that may arrive
  MaxRestarts

ASSUME CallbackAssumption ==
  MaxDispatch \in Nat \ {0} /\ MaxRestarts \in Nat

VARIABLES
  secrets,   \* the secrets file: whether it is torn, and the secret per channel, 0 if none
  minted,    \* per channel: the secret of its last dispatch, numbered by it
  ppc, all,  \* per channel: where its put is, and the secrets it read
  seen,      \* nonces in memory; a callback's nonce is its channel and secret
  late,      \* callbacks whose timestamp is out of the window
  cpc,       \* per request: "idle", "verify", "accepted", "rejected", "lost"
  body,      \* per request: the callback it carries
  held,      \* per request: the secret it read
  accepts,   \* history: how often each callback was accepted
  restarts

cbVars == <<secrets, minted, ppc, all, seen, late, cpc, body, held, accepts, restarts>>

Callback == Delegated \X (1..MaxDispatch)
NoCallback == <<"none", 0>>
Empty == [c \in Delegated |-> 0]

CallbackInit ==
  /\ secrets = [torn |-> FALSE, of |-> Empty]
  /\ minted = Empty
  /\ ppc = [c \in Delegated |-> "idle"] /\ all = [c \in Delegated |-> Empty]
  /\ seen = {} /\ late = {}
  /\ cpc = [d \in Deliveries |-> "idle"]
  /\ body = [d \in Deliveries |-> NoCallback]
  /\ held = [d \in Deliveries |-> 0]
  /\ accepts = [x \in Callback |-> 0] /\ restarts = 0

\* readAll: no file, half a file: no secrets.
ReadAll == IF secrets.torn THEN Empty ELSE secrets.of

\* A channel is dispatched; the next depth begins when all puts have ended.
Dispatch(c) ==
  /\ ppc[c] = "idle" /\ minted[c] < MaxDispatch
  /\ \A e \in Delegated : minted[e] > minted[c] \/ (minted[e] = minted[c] /\ ppc[e] = "idle")
  /\ minted' = [minted EXCEPT ![c] = @ + 1]
  /\ ppc' = [ppc EXCEPT ![c] = "read"]
  /\ UNCHANGED <<secrets, all, seen, late, cpc, body, held, accepts, restarts>>

PutRead(c) ==
  /\ ppc[c] = "read"
  /\ all' = [all EXCEPT ![c] = [ReadAll EXCEPT ![c] = minted[c]]]
  /\ ppc' = [ppc EXCEPT ![c] = "open"]
  /\ UNCHANGED <<secrets, minted, seen, late, cpc, body, held, accepts, restarts>>

PutOpen(c) ==
  /\ ppc[c] = "open"
  /\ secrets' = [secrets EXCEPT !.torn = TRUE]
  /\ ppc' = [ppc EXCEPT ![c] = "write"]
  /\ UNCHANGED <<minted, all, seen, late, cpc, body, held, accepts, restarts>>

PutWrite(c) ==
  /\ ppc[c] = "write"
  /\ secrets' = [torn |-> FALSE, of |-> all[c]]
  /\ ppc' = [ppc EXCEPT ![c] = "idle"] /\ all' = [all EXCEPT ![c] = Empty]
  /\ UNCHANGED <<minted, seen, late, cpc, body, held, accepts, restarts>>

----------------------------------------------------------------------------
\* The agent answers a dispatch, once or more often.
Arrive(d) ==
  /\ cpc[d] = "idle"
  /\ \E x \in Callback :
       /\ x[2] <= minted[x[1]]
       /\ IF ReadAll[x[1]] = 0
          THEN cpc' = [cpc EXCEPT ![d] = "rejected"] /\ UNCHANGED <<body, held>>
          ELSE /\ cpc' = [cpc EXCEPT ![d] = "verify"]
               /\ body' = [body EXCEPT ![d] = x]
               /\ held' = [held EXCEPT ![d] = ReadAll[x[1]]]
  /\ UNCHANGED <<secrets, minted, ppc, all, seen, late, accepts, restarts>>

\* The window of what was sent so far ends.
Expire ==
  /\ late' = {x \in Callback : x[2] <= minted[x[1]]}
  /\ UNCHANGED <<secrets, minted, ppc, all, seen, cpc, body, held, accepts, restarts>>

\* Fault: the nonce is looked up and not recorded.
MarkNonceSeen_NotRecorded(x) == seen' = seen

\* markNonceSeen: looked up and recorded in one turn.
MarkNonceSeen(x) == seen' = seen \cup {x}

Settle(d) == /\ body' = [body EXCEPT ![d] = NoCallback]
             /\ held' = [held EXCEPT ![d] = 0]

\* verifyCallback: signed with the secret that was read, and in time.
VerifyCallback(x, secret) == secret = x[2] /\ x \notin late

\* The nonce is consumed when the callback itself is good.
Verify(d) ==
  LET x == body[d]
  IN /\ cpc[d] = "verify"
     /\ IF ~VerifyCallback(x, held[d])
        THEN cpc' = [cpc EXCEPT ![d] = "rejected"] /\ UNCHANGED <<seen, accepts>>
        ELSE /\ MarkNonceSeen(x)
             /\ cpc' = [cpc EXCEPT ![d] = IF x \in seen THEN "rejected" ELSE "accepted"]
             /\ accepts' = [accepts EXCEPT ![x] = IF x \in seen THEN @ ELSE @ + 1]
     /\ UNCHANGED <<secrets, minted, ppc, all, late, restarts>>
     /\ Settle(d)

\* The server starts anew: its requests are lost and its memory of nonces.
Restart ==
  /\ restarts < MaxRestarts
  /\ restarts' = restarts + 1
  /\ seen' = {}
  /\ cpc' = [d \in Deliveries |-> IF cpc[d] = "verify" THEN "lost" ELSE cpc[d]]
  /\ UNCHANGED <<secrets, minted, ppc, all, late, body, held, accepts>>

CallbackNext ==
  \/ \E c \in Delegated : Dispatch(c) \/ PutRead(c) \/ PutOpen(c) \/ PutWrite(c)
  \/ \E d \in Deliveries : Arrive(d) \/ Verify(d)
  \/ Expire \/ Restart

CallbackSpec == CallbackInit /\ [][CallbackNext]_cbVars

----------------------------------------------------------------------------
\* A callback is accepted at most once, however often it is delivered and at
\* the same time, and once more only for each restart in between.
AcceptedOnce == \A x \in Callback : accepts[x] <= 1 + restarts

\* ChannelExecutor.ts: the secret of a dispatch is persisted so that the agent's
\* callback can be verified: when all puts have returned every dispatched
\* channel has the secret of its last dispatch in the file.
SecretKept ==
  (\A c \in Delegated : ppc[c] = "idle") => \A c \in Delegated : ReadAll[c] = minted[c]
=============================================================================
