------------------------------- MODULE Surfaces -------------------------------
(***************************************************************************)
(* The combined server: REST routes, the A2A endpoint and the MCP tools    *)
(* over one executor.  A request passes its surface's authorization, is    *)
(* answered from the registry and the stores, or runs a pipeline and is    *)
(* answered from the stored run.  Requests overlap, and the registry's     *)
(* directory is edited while they wait.                                    *)
(***************************************************************************)
EXTENDS Naturals, FiniteSets

CONSTANTS
  Clients,    \* each makes one request
  Tokens,     \* static bearer tokens somebody may hold
  Pipelines,
  MaxRuns     \* runs that are stored

ASSUME SurfacesAssumption == MaxRuns \in Nat

VARIABLES
  config,    \* the environment: static tokens, whether there is an issuer, the store driver
  registry,  \* pipelines in the registry's directory
  stored,    \* the runs stored, and the client whose request made each
  spc,       \* per client: "idle", "verifying", "handling", "starting", "running", "done"
  req,       \* per client: the request in work
  cred,      \* per client: the credential that waits for the verifier
  reply,     \* per client: what it was answered
  entitled,  \* history: "yes" needs no credential or holds a static token, "jwt", "no"
  known      \* history: an earlier reply had named the run it asks for

surfaceVars == <<config, registry, stored, spc, req, cred, reply, entitled, known>>

\* Credentials: a static token, a good access token, neither.
Credentials == Tokens \cup {"jwt", "none"}

Plain == [surface |-> "rest", op |-> "health", pipeline |-> "none", run |-> 0,
          channel |-> "none", body |-> "good", parts |-> {}]

Call(s, o) == [Plain EXCEPT !.surface = s, !.op = o]

\* The requests of the three surfaces; the eight tools are on two of them.
Calls ==
  {Plain, Call("mcp", "list_tools"), Call("mcp", "unknown_tool"), Call("a2a", "index_card"),
   [Call("mcp", "list_tools") EXCEPT !.body = "no_session"],
   [Call("rest", "run_pipeline") EXCEPT !.body = "bad"]}
  \cup {Call(s, o) : s \in {"rest", "mcp"}, o \in {"list_runs", "list_pipelines"}}
  \cup {[Call(s, o) EXCEPT !.pipeline = p] :
          s \in {"rest", "mcp"}, o \in {"run_pipeline", "validate_pipeline", "get_pipeline_spec"}, p \in Pipelines}
  \cup {[Call(s, o) EXCEPT !.run = i] :
          s \in {"rest", "mcp"}, o \in {"resume", "get_run_result", "export_run_bundle"}, i \in 1..MaxRuns}
  \cup {[Call(s, "rerun_channel") EXCEPT !.run = i, !.channel = c] :
          s \in {"rest", "mcp"}, c \in {"none", "declared", "unknown"}, i \in 1..MaxRuns}
  \cup {[Call("a2a", "card") EXCEPT !.pipeline = p] : p \in Pipelines}
  \cup {[Call("a2a", "send") EXCEPT !.pipeline = p, !.body = b, !.parts = m] :
          b \in {"good", "no_rpc", "stream"}, m \in {{}, {"file"}, {"text", "file"}, {"data"}}, p \in Pipelines}

NoReply == [kind |-> "none", run |-> 0, said |-> {}]
Says(kind) == [NoReply EXCEPT !.kind = kind]

SurfaceInit ==
  /\ config \in [tokens : SUBSET Tokens, oidc : BOOLEAN, driver : {"filesystem", "sqlite"}]
  /\ registry \in SUBSET Pipelines
  /\ stored = {}
  /\ spc = [q \in Clients |-> "idle"]
  /\ req = [q \in Clients |-> Plain]
  /\ cred = [q \in Clients |-> "none"]
  /\ reply = [q \in Clients |-> NoReply]
  /\ entitled = [q \in Clients |-> "no"] /\ known = [q \in Clients |-> FALSE]

----------------------------------------------------------------------------
\* createKernel of the REST server picks the store by the environment, that of
\* the MCP handler in the same process does not.
SelectStore == config.driver
McpStore == "filesystem"
StoreOf(surface) == IF surface = "mcp" THEN McpStore ELSE SelectStore

\* The prior run a request names, in the store of its surface.
Prior(r) == {x \in stored : x.id = r.run /\ x.store = StoreOf(r.surface)}

----------------------------------------------------------------------------
\* Authorization.
Enabled == config.tokens # {}
Enforced == Enabled \/ config.oidc

\* TokenAuth.verify: everything is valid when no token is configured.
TokenVerify(c) == ~Enabled \/ c \in config.tokens

\* Fault: the hook asks the token verifier also when no token is configured.
StaticOk_Unasked(c) == TokenVerify(c)

StaticOk(c) == Enabled /\ TokenVerify(c)

\* PUBLIC_PATHS and the A2A cards; /mcp gates its tool calls itself, not the
\* tool list and not the session lookup.
Public(r) == r.op \in {"health", "index_card", "card", "list_tools"}

\* The token of a request: the header's, and a tool call's _meta only without one.
Presented(r, header, meta) == IF r.surface = "mcp" /\ header = "none" THEN meta ELSE header

Answer(q, a) ==
  /\ reply' = [reply EXCEPT ![q] = a]
  /\ spc' = [spc EXCEPT ![q] = "done"]
  /\ req' = [req EXCEPT ![q] = Plain]

\* What a credential is worth for a request: anything will do for an open one.
Entitlement(r, c) ==
  IF ~Enforced \/ Public(r) \/ c \in config.tokens THEN "yes"
  ELSE IF config.oidc /\ c = "jwt" THEN "jwt" ELSE "no"

\* The onRequest hook: the static token is checked at once, the access token later.
Authorize(q, r, c) ==
  LET open == ~Enforced \/ Public(r)
  IN IF ~open /\ ~StaticOk(c) /\ ~config.oidc
     THEN Answer(q, Says("unauthorized")) /\ cred' = cred
     ELSE /\ req' = [req EXCEPT ![q] = r]
          /\ reply' = reply
          /\ IF open \/ StaticOk(c)
             THEN spc' = [spc EXCEPT ![q] = "handling"] /\ cred' = cred
             ELSE spc' = [spc EXCEPT ![q] = "verifying"] /\ cred' = [cred EXCEPT ![q] = c]

\* A request arrives.
Admit(q) ==
  /\ spc[q] = "idle"
  /\ \E r \in Calls, header, meta \in Credentials :
       LET c == Presented(r, header, meta)
       IN /\ r.surface # "mcp" => meta = "none"
          /\ entitled' = [entitled EXCEPT ![q] = Entitlement(r, c)]
          /\ known' = [known EXCEPT ![q] = r.run # 0 /\ \E o \in Clients : reply[o].run = r.run]
          /\ Authorize(q, r, c)
  /\ UNCHANGED <<config, registry, stored>>

\* JwtVerifier.verify is awaited; a good token fails with the issuer's keys
\* out of reach.
Verified(q) ==
  /\ spc[q] = "verifying"
  /\ \/ /\ cred[q] = "jwt"
        /\ spc' = [spc EXCEPT ![q] = "handling"] /\ UNCHANGED <<req, reply>>
     \/ Answer(q, Says("unauthorized"))
  /\ cred' = [cred EXCEPT ![q] = "none"]
  /\ UNCHANGED <<config, registry, stored, entitled, known>>

----------------------------------------------------------------------------
\* The REST routes: an answer, or "execute" when a pipeline is to be run.
RunsRoute(r) == IF r.body = "bad" THEN "bad_request" ELSE "execute"

RunRoute(r) == IF Prior(r) = {} THEN "run_not_found" ELSE "ok"

ExportRoute(r) == RunRoute(r)

SpecRoute(r) == IF r.pipeline \in registry THEN "ok" ELSE "pipeline_not_found"

ValidateRoute(r) == SpecRoute(r)

RerunRoute(r) ==
  IF Prior(r) = {} THEN "run_not_found" ELSE IF r.channel = "none" THEN "bad_request" ELSE "execute"

RestRoute(r) ==
  CASE r.op = "run_pipeline" -> RunsRoute(r)
    [] r.op = "resume" -> "execute"
    [] r.op = "get_run_result" -> RunRoute(r)
    [] r.op = "export_run_bundle" -> ExportRoute(r)
    [] r.op = "get_pipeline_spec" -> SpecRoute(r)
    [] r.op = "validate_pipeline" -> ValidateRoute(r)
    [] r.op = "rerun_channel" -> RerunRoute(r)
    [] OTHER -> "ok"

\* callTool: what it throws becomes a result marked as an error.
CallTool(r) ==
  CASE r.op \in {"run_pipeline", "resume"} -> "execute"
    [] r.op \in {"get_run_result", "export_run_bundle"} /\ Prior(r) = {} -> "run_not_found"
    [] r.op \in {"validate_pipeline", "get_pipeline_spec"} /\ r.pipeline \notin registry -> "pipeline_not_found"
    [] r.op = "rerun_channel" -> IF Prior(r) = {} THEN "run_not_found" ELSE "execute"
    [] r.op = "unknown_tool" -> "unknown_tool"
    [] OTHER -> "ok"

McpHandle(r) == IF r.body = "no_session" THEN "no_session" ELSE CallTool(r)

\* The text and data parts of a message are the input.
InputFromMessage(parts) == parts \ {"file"}

Send(r) ==
  IF r.body = "no_rpc" THEN "invalid_request"
  ELSE IF r.body = "stream" THEN "unsupported_method"
  ELSE IF InputFromMessage(r.parts) = {} THEN "invalid_params"
  ELSE IF r.pipeline \notin registry THEN "pipeline_not_found" ELSE "execute"

\* A card declares bearer authorization when the server enforces it.
AgentCard == [Says("card") EXCEPT !.said = IF Enforced THEN {"secured"} ELSE {}]

CardRoute(r) == IF r.pipeline \in registry THEN AgentCard ELSE Says("pipeline_not_found")

\* The index card names the pipelines' cards and declares nothing.
IndexCard == Says("index")

Route(r) ==
  CASE r.surface = "mcp" -> McpHandle(r)
    [] r.surface = "a2a" -> Send(r)
    [] OTHER -> RestRoute(r)

Handle(q) ==
  LET r == req[q]
  IN /\ spc[q] = "handling"
     /\ CASE r.op = "card" -> Answer(q, CardRoute(r))
          [] r.op = "index_card" -> Answer(q, IndexCard)
          [] r.op \notin {"card", "index_card"} /\ Route(r) = "execute" ->
               spc' = [spc EXCEPT ![q] = "starting"] /\ UNCHANGED <<req, reply>>
          [] OTHER -> Answer(q, Says(Route(r)))
     /\ UNCHANGED <<config, registry, stored, cred, entitled, known>>

----------------------------------------------------------------------------
\* The pipeline that is run: that of the prior run, or the one asked for.
Target(r) == IF r.run = 0 THEN {r.pipeline} ELSE {x.pipeline : x \in Prior(r)}

\* resume and run resolve the pipeline, whatever a route found before; both
\* refuse what does not load, and resume a definition that changed.
Refusals(r) ==
  IF r.op = "resume" /\ Prior(r) = {} THEN {"run_not_found"}
  ELSE {"error"} \cup IF r.op = "resume" THEN {"hash_mismatch"} ELSE {}

Start(q) ==
  /\ spc[q] = "starting"
  /\ \/ /\ Target(req[q]) # {} /\ Target(req[q]) \subseteq registry
        /\ spc' = [spc EXCEPT ![q] = "running"] /\ UNCHANGED <<req, reply>>
     \/ \E e \in Refusals(req[q]) : Answer(q, Says(e))
  /\ UNCHANGED <<config, registry, stored, cred, entitled, known>>

\* A synthesis without an output has a null one, which is defined: it is an
\* artifact too, whose data is null.
Artifacts(x) ==
  CASE x.synthesis = "none" -> {}
    [] x.synthesis = "parsed" -> {"artifact"}
    [] x.synthesis = "null" -> {"artifact", "null_data"}

\* Fault: every task is completed.
RunResultToTask_Completed(x) == {"completed"} \cup Artifacts(x)

\* A task is completed when the run is; it carries a synthesis in either case.
RunResultToTask(x) ==
  (IF x.status = "completed" THEN {"completed"} ELSE {}) \cup Artifacts(x)

\* Fault: the reply names the run that was given and not the fresh one.
RerunReply_Prior(r, x, found) ==
  IF found THEN [Says("ok") EXCEPT !.run = r.run] ELSE Says("channel_not_found")

\* The fresh run and the channel looked for in its results, or nothing of it.
RerunReply(r, x, found) ==
  IF found THEN [Says("ok") EXCEPT !.run = x.id] ELSE Says("channel_not_found")

RunReply(r, x, found) ==
  CASE r.surface = "a2a" -> [Says("task") EXCEPT !.run = x.id, !.said = RunResultToTask(x)]
    [] r.op = "rerun_channel" -> RerunReply(r, x, found)
    [] OTHER -> [Says("ok") EXCEPT !.run = x.id]

\* The run ends, is stored, and the reply is made of it.  A declared channel is
\* missing from its results when the run stopped before it.
Finish(q) ==
  /\ spc[q] = "running" /\ Cardinality(stored) < MaxRuns
  /\ \E status \in {"completed", "partial", "failed"}, synthesis \in {"none", "null", "parsed"},
        found \in {FALSE, req[q].channel = "declared"}, p \in Target(req[q]) :
       LET x == [id |-> Cardinality(stored) + 1, pipeline |-> p, status |-> status,
                 synthesis |-> synthesis, by |-> q, store |-> StoreOf(req[q].surface)]
       IN stored' = stored \cup {x} /\ Answer(q, RunReply(req[q], x, found))
  /\ UNCHANGED <<config, registry, cred, entitled, known>>

\* An author adds and removes pipelines.
Edit ==
  /\ registry' \in SUBSET Pipelines /\ registry' # registry
  /\ UNCHANGED <<config, stored, spc, req, cred, reply, entitled, known>>

SurfaceNext ==
  \/ \E q \in Clients : Admit(q) \/ Verified(q) \/ Handle(q) \/ Start(q) \/ Finish(q)
  \/ Edit

SurfaceSpec == SurfaceInit /\ [][SurfaceNext]_surfaceVars

----------------------------------------------------------------------------
\* On every surface and in every configuration a caller who holds none of the
\* credentials that are configured is told so and learns and starts nothing; a
\* configured static token is never turned away, an access token only while the
\* verifier waits for keys it cannot get; and a card of a server that turns
\* callers away says that it does.
Gated ==
  \A q \in Clients :
    /\ entitled[q] = "no" => reply[q].kind \in {"none", "unauthorized"} /\ \A x \in stored : x.by # q
    /\ entitled[q] = "yes" => reply[q].kind # "unauthorized"
    /\ reply[q].kind = "card" =>
         ("secured" \in reply[q].said <=> config.tokens # {} \/ config.oidc)

\* What was run and what was answered agree: a request makes one run at most, a
\* run that was made is the one its reply names, unless it is a rerun whose
\* channel is not in it, a refusal made none, and a task is completed when its
\* stored run is and carries an artifact when that has a synthesis, one of null
\* data when the synthesis failed.
RunsAccounted ==
  /\ \A x, y \in stored : x.by = y.by => x = y
  /\ \A x \in stored : reply[x.by].run = x.id \/ reply[x.by].kind = "channel_not_found"
  /\ \A q \in Clients : reply[q].run # 0 => \E x \in stored : x.by = q
  /\ \A x \in stored : reply[x.by].kind = "task" =>
       /\ "completed" \in reply[x.by].said <=> x.status = "completed"
       /\ "artifact" \in reply[x.by].said <=> x.synthesis # "none"
       /\ "null_data" \in reply[x.by].said <=> x.synthesis = "null"

\* combined.ts: both client paths work against one run store.  A run that a
\* reply has named is found by whoever asks for it afterwards.
OneRunStore == \A q \in Clients : known[q] => reply[q].kind # "run_not_found"
=============================================================================
