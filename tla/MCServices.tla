------------------------------ MODULE MCServices ------------------------------
(***************************************************************************)
(* Callbacks of two channels, dispatched twice, delivered three times with *)
(* one restart; or three token requests with two keys; or four MCP         *)
(* sessions; or two requests to the combined server; or an adapter's call. *)
(* They share nothing: a behaviour is of one of them.                      *)
(***************************************************************************)
EXTENDS Callbacks, TokenKeys, McpSessions, Surfaces, Adapters

CONSTANTS a, b, x1, x2, x3, x4

VARIABLE part

vars == <<part, cbVars, keyCacheVars, mcpVars, surfaceVars, adapterVars>>

MCDelegated == {a, b}
MCDeliveries == {x1, x2, x3}
MCKids == {"k1", "k2"}
MCRequests == {x1, x2, x3}
MCTransports == {x1, x2, x3, x4}
MCClients == {a, b}
MCTokens == {"token"}
MCPipelines == {"pipeline"}
MCInvocations == {x4}
MCModels == {<<"haiku", "4", "2025">>, <<"haiku", "4">>, <<"haiku">>, <<"opus">>}
MCPricing == <<"haiku">> :> 2 @@ <<"haiku", "4">> :> 3
MCKinds == {"openai", "anthropic", "delegated", "mock"}

Init ==
  /\ part \in {"callbacks", "tokens", "sessions", "surfaces", "adapters"}
  /\ CallbackInit /\ KeysInit /\ McpInit /\ SurfaceInit /\ AdapterInit
  /\ part # "tokens" => published = {}
  /\ part # "adapters" => kind = [c \in Invocations |-> "mock"]
  /\ part # "surfaces" =>
       config = [tokens |-> {}, oidc |-> FALSE, driver |-> "filesystem"] /\ registry = {}

Next ==
  /\ part' = part
  /\ \/ /\ part = "callbacks" /\ CallbackNext
        /\ UNCHANGED <<keyCacheVars, mcpVars, surfaceVars, adapterVars>>
     \/ /\ part = "tokens" /\ KeysNext
        /\ UNCHANGED <<cbVars, mcpVars, surfaceVars, adapterVars>>
     \/ /\ part = "sessions" /\ McpNext
        /\ UNCHANGED <<cbVars, keyCacheVars, surfaceVars, adapterVars>>
     \/ /\ part = "surfaces" /\ SurfaceNext
        /\ UNCHANGED <<cbVars, keyCacheVars, mcpVars, adapterVars>>
     \/ /\ part = "adapters" /\ AdapterNext
        /\ UNCHANGED <<cbVars, keyCacheVars, mcpVars, surfaceVars>>

Symmetry == Permutations({a, b}) \cup Permutations({x1, x2, x3})

Spec == Init /\ [][Next]_vars
=============================================================================
