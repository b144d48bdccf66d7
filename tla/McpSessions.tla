------------------------------ MODULE McpSessions ------------------------------
(***************************************************************************)
(* Sessions of the MCP server over HTTP: an initialize request makes a     *)
(* transport that enters the map when the SDK gives it an id, a DELETE or  *)
(* the shutdown closes it and its onclose removes it.  The shutdown closes *)
(* one transport after the other, awaiting each, while requests go on.     *)
(***************************************************************************)
EXTENDS Sequences, SequencesExt

CONSTANTS Transports  \* at most as many initialize requests

VARIABLES
  sessions,  \* the map, in insertion order
  tpc,       \* per transport: "none", "connecting", "open", "refused", "closed"
  shutdown   \* "no", "closing", "over"

mcpVars == <<sessions, tpc, shutdown>>

McpInit ==
  /\ sessions = <<>>
  /\ tpc = [t \in Transports |-> "none"]
  /\ shutdown = "no"

\* An initialize without a known session, awaiting server.connect.
Initialize(t) ==
  /\ tpc[t] = "none"
  /\ tpc' = [tpc EXCEPT ![t] = "connecting"]
  /\ UNCHANGED <<sessions, shutdown>>

\* The SDK answers it: with a session id, or refuses and never gives one.
Initialized(t) ==
  /\ tpc[t] = "connecting"
  /\ \/ tpc' = [tpc EXCEPT ![t] = "open"] /\ sessions' = Append(sessions, t)
     \/ tpc' = [tpc EXCEPT ![t] = "refused"] /\ sessions' = sessions
  /\ UNCHANGED shutdown

\* Fault: a transport that closes is left in the map.
OnClose_Kept(t) == tpc' = [tpc EXCEPT ![t] = "closed"] /\ sessions' = sessions

\* Map.delete: the entry with that key, when there is one.
Without(t) ==
  IF Contains(sessions, t)
  THEN RemoveAt(sessions, CHOOSE i \in 1..Len(sessions) : sessions[i] = t) ELSE sessions

OnClose(t) ==
  /\ tpc' = [tpc EXCEPT ![t] = "closed"]
  /\ sessions' = Without(t)

\* DELETE of a known session.
Delete(t) ==
  /\ tpc[t] = "open"
  /\ OnClose(t)
  /\ UNCHANGED shutdown

CloseAll ==
  /\ shutdown = "no"
  /\ shutdown' = "closing"
  /\ UNCHANGED <<sessions, tpc>>

\* Fault: the map is cleared in the loop and not after it.
CloseNext_ClearsFirst ==
  /\ shutdown = "closing" /\ sessions # <<>>
  /\ tpc' = [tpc EXCEPT ![Head(sessions)] = "closed"]
  /\ sessions' = <<>>
  /\ UNCHANGED shutdown

\* The loop's iterator is live: what it has closed is out of the map, and what
\* is added meanwhile is closed in its turn.
CloseNext ==
  /\ shutdown = "closing" /\ sessions # <<>>
  /\ OnClose(Head(sessions))
  /\ UNCHANGED shutdown

CloseOver ==
  /\ shutdown = "closing" /\ sessions = <<>>
  /\ shutdown' = "over"
  /\ UNCHANGED <<sessions, tpc>>

McpNext ==
  \/ \E t \in Transports : Initialize(t) \/ Initialized(t) \/ Delete(t)
  \/ CloseAll \/ CloseNext \/ CloseOver

McpSpec == McpInit /\ [][McpNext]_mcpVars

----------------------------------------------------------------------------
\* The map holds the open transports, each once, and no other: whoever shuts
\* the server down reaches all of them, those too that were initialized while
\* it was waiting for another to close.
NoOrphan ==
  /\ \A t \in Transports : tpc[t] = "open" <=> Contains(sessions, t)
  /\ IsInjective(sessions)
=============================================================================
