--------------------------- MODULE RunLineageProofs ---------------------------
(***************************************************************************)
(* Theorems about runs, resumes and replays of a definition that changes,  *)
(* for pipelines of any size and chains of runs of any length.             *)
(***************************************************************************)
EXTENDS RunLineage, SequenceTheorems, TLAPS

-----------------------------------------------------------------------------
(***************************************************************************)
(* The invariants.                                                         *)
(***************************************************************************)

Kinds == {"prompt", "schema"}
Reading == {"resolve", "carry", "level", "save", "mark", "diff"}

\* The texts of a unit: a prompt, and a schema if it has an outputSchema.
Texts(u) == {m \in Made : m.prompt # 0 /\ (m.schema # 0 <=> u \in Schemas)}

\* A definition that is all there, and a record of one that may have gaps.
Complete == {d \in Source : /\ d.pipeline # 0
                            /\ \A u \in Units : [prompt |-> d.prompt[u], schema |-> d.schema[u]] \in Texts(u)}
Sources == {d \in Source : \A u \in Units : d.schema[u] # 0 => u \in Schemas}
Results == {x \in Result : x.made \in Texts(x.unit)}
Runs == [source : Sources, results : SUBSET Results, commit : Versions \cup {0},
         dirty : BOOLEAN, resumedFrom : Nat, replayedFrom : Nat]

LineageTypes ==
  /\ setup \in Setups
  /\ files \in Complete /\ source \in Sources /\ results \in SUBSET Results
  /\ store \in Seq(Runs)
  /\ pc \in {"idle", "prepare", "check", "files"} \cup Reading
  /\ op \in [kind : {"none", "run", "resume", "replay"}, prior : Nat, limit : Nat]
  /\ todo \subseteq Kinds \X Units
  /\ depth \in Nat /\ commit \in Versions \cup {0}
  /\ stage \in [Units -> {"idle", "carried", "skipped", "prompted", "ok", "error"}]
  /\ made \in [Units -> Made]
  /\ differs \in BOOLEAN /\ dirty \in BOOLEAN

\* The operation goes with where it is, and comes from a run that is stored.
Placed ==
  /\ pc # "idle" /\ op.kind \in {"resume", "replay"} => op.prior \in 1..Len(store)
  /\ pc \in {"check", "files"} => op.kind \in {"resume", "replay"}
  /\ pc \in {"idle", "prepare", "check", "files", "resolve"} => source = Blank
  /\ pc \in Reading \ {"resolve"} => source.pipeline # 0
  /\ pc \in {"mark", "diff"} => op.kind = "replay" /\ op.prior < Len(store)
  /\ pc = "carry" => \A f \in todo : f[1] = "schema" => f[2] \in Schemas
  /\ \A r \in DOMAIN store : store[r].resumedFrom + store[r].replayedFrom < r

\* What was read while nothing changed is what is there.
Current(src) ==
  /\ src.pipeline \in {0, files.pipeline}
  /\ \A f \in Kinds \X Units : src[f[1]][f[2]] \in {0, files[f[1]][f[2]]}

Unchanged ==
  pc # "idle" /\ ~dirty =>
    /\ Current(source)
    /\ Git /\ pc # "prepare" => files = Uniform(commit)

\* What the run it comes from recorded has been compared with what is there.
Compared ==
  op.kind \in {"resume", "replay"} /\ ~dirty =>
    LET prior == store[op.prior].source
    IN /\ pc = "files" /\ ~differs =>
            /\ prior.pipeline = files.pipeline
            /\ \A f \in Recorded(prior) \ todo : prior[f[1]][f[2]] = files[f[1]][f[2]]
       /\ pc \in Reading => prior.pipeline = files.pipeline /\ Current(prior)

\* Neither the definition nor the results carried over are from before a change.
Clean == ~dirty /\ (op.kind = "resume" => ~store[op.prior].dirty)

Vouched(x, src) == x.made = [prompt |-> src.prompt[x.unit], schema |-> src.schema[x.unit]]

\* The files of a carried result are recorded again, or are still to be.
Stamped ==
  pc = "carry" /\ ~dirty =>
    \A u \in CarriedUnits :
      /\ <<"prompt", u>> \in todo \/ source.prompt[u] = files.prompt[u]
      /\ u \in Schemas => <<"schema", u>> \in todo \/ source.schema[u] = files.schema[u]

\* A unit has the texts it has read, and results are what units made of them.
Working ==
  pc = "level" =>
    \A u \in Units :
      /\ stage[u] = "idle" => made[u] = Nothing
      /\ stage[u] = "prompted" =>
           /\ u \in Schemas /\ made[u].prompt # 0 /\ made[u].schema = 0
           /\ ~dirty => made[u].prompt = source.prompt[u]
      /\ stage[u] \in {"ok", "error"} =>
           /\ made[u] \in Texts(u)
           /\ ~dirty => made[u].prompt = source.prompt[u] /\ made[u].schema = source.schema[u]

Produced ==
  /\ pc \in {"idle", "prepare", "check", "files", "resolve", "carry"} =>
       results = {} /\ \A u \in Units : made[u] = Nothing
  /\ pc \in Reading /\ Clean => \A x \in results : Vouched(x, source)

\* Two records agree where both have one.
Akin(a, b) ==
  /\ a.pipeline = b.pipeline
  /\ \A f \in Kinds \X Units : a[f[1]][f[2]] # 0 /\ b[f[1]][f[2]] # 0 => a[f[1]][f[2]] = b[f[1]][f[2]]

\* A replay that is saved and not marked yet.
Unmarked ==
  pc = "mark" =>
    LET saved == store[Len(store)]
    IN saved.resumedFrom = 0 /\ (~saved.dirty => Akin(saved.source, store[op.prior].source))

LineageInv ==
  /\ LineageTypes /\ Placed /\ Unchanged /\ Compared /\ Stamped /\ Working /\ Produced /\ Unmarked
  /\ HashesVouch /\ SameDefinition

-----------------------------------------------------------------------------
(***************************************************************************)
(* The instance is fixed; what a definition is.                            *)
(***************************************************************************)

\* No step changes the instance.
LEMMA SetupFixed == [Next]_vars => setup' = setup
  BY DEF Next, vars, EditFile, OtherCheckout, Changed, Run, Resume, Rerun, Replay, Begin, Prepare,
         Fails, End, Forget, CheckPipeline, CheckFile, Refuse, Accept, ResolvePipeline, RecordHash,
         SpliceCarried, Skip, LoadPrompt, LoadSchema, Read, EndDepth, Save, Mark, Diff, inRun

\* What depends on the instance alone stays.
LEMMA Fixed ==
  ASSUME setup' = setup
  PROVE  /\ Units' = Units /\ Schemas' = Schemas /\ (Git <=> Git') /\ Synth' = Synth /\ Width' = Width
         /\ Source' = Source /\ Sources' = Sources /\ Complete' = Complete
         /\ Results' = Results /\ Runs' = Runs
         /\ Blank' = Blank /\ Unread' = Unread
         /\ \A v : Uniform(v)' = Uniform(v)
         /\ \A u : Texts(u)' = Texts(u)
<1>1. Units' = Units /\ Schemas' = Schemas /\ (Git <=> Git') /\ Synth' = Synth /\ Width' = Width
  BY DEF Units, Schemas, Git, Synth, Width
<1>2. \A u : Texts(u)' = Texts(u)
  BY <1>1 DEF Texts
<1>3. Source' = Source /\ Blank' = Blank /\ Unread' = Unread /\ \A v : Uniform(v)' = Uniform(v)
  BY <1>1 DEF Source, Blank, Unread, Uniform
<1>4. Sources' = Sources /\ Complete' = Complete
  BY <1>1, <1>2, <1>3 DEF Sources, Complete
<1>5. Result' = Result
  BY <1>1 DEF Result
<1>6. Results' = Results
  BY <1>2, <1>5 DEF Results
<1>7. Runs' = Runs
  BY <1>4, <1>6 DEF Runs
<1> QED BY <1>1, <1>2, <1>3, <1>4, <1>6, <1>7

\* The units of an instance, and its versions.
LEMMA Instance ==
  ASSUME setup \in Setups
  PROVE  /\ Width \in Nat \ {0} /\ Synth = Width + 1 /\ Units = 1..(Width + 1)
         /\ 1..Width \subseteq Units /\ Schemas \subseteq Units
         /\ Versions \subseteq Nat \ {0} /\ 0 \notin Versions
  BY LineageAssumption DEF Width, Synth, Units, Schemas

\* A definition of one version.
LEMMA UniformComplete ==
  ASSUME setup \in Setups, NEW v \in Versions
  PROVE  Uniform(v) \in Complete /\ Uniform(v).pipeline = v
         /\ \A u \in Units : Uniform(v).prompt[u] = v
<1>1. Schemas \subseteq Units /\ v # 0
  BY Instance
<1>2. Uniform(v) \in Source
  BY <1>1 DEF Uniform, Source
<1>3. \A u \in Units : [prompt |-> Uniform(v).prompt[u], schema |-> Uniform(v).schema[u]] \in Texts(u)
  BY <1>1 DEF Uniform, Texts, Made
<1> QED BY <1>1, <1>2, <1>3 DEF Complete, Uniform

\* The files of a definition, and those a record has hashes of.
LEMMA CompleteFiles ==
  ASSUME NEW d \in Complete
  PROVE  /\ d \in Sources /\ d.pipeline \in Versions
         /\ \A u \in Units : /\ d.prompt[u] \in Versions
                             /\ u \in Schemas => d.schema[u] \in Versions
                             /\ u \notin Schemas => d.schema[u] = 0
<1>1. d \in Source /\ d.pipeline # 0
  BY DEF Complete
<1>2. \A u \in Units : d.prompt[u] # 0 /\ (d.schema[u] # 0 <=> u \in Schemas)
  BY DEF Complete, Texts
<1> QED BY <1>1, <1>2 DEF Source, Sources

\* A file of a record, under its kind.
LEMMA FileKinds ==
  ASSUME NEW d \in Source, NEW f \in Kinds \X Units
  PROVE  /\ f[1] \in Kinds /\ f[2] \in Units
         /\ f[1] = "prompt" => d[f[1]][f[2]] = d.prompt[f[2]]
         /\ f[1] = "schema" => d[f[1]][f[2]] = d.schema[f[2]]
         /\ d[f[1]][f[2]] \in Versions \cup {0}
  BY DEF Kinds, Source

\* A record with the hash of one file of the definition.
WithHash(s, d, f) == [s EXCEPT ![f[1]][f[2]] = d[f[1]][f[2]]]

\* One hash is recorded: the others are what they were.
LEMMA OneRecorded ==
  ASSUME NEW s \in Sources, NEW d \in Complete,
         NEW f \in Kinds \X Units, f[1] = "schema" => f[2] \in Schemas,
         NEW t, t = WithHash(s, d, f)
  PROVE  /\ t \in Sources /\ t.pipeline = s.pipeline
         /\ \A g \in Kinds \X Units : t[g[1]][g[2]] = IF g = f THEN d[f[1]][f[2]] ELSE s[g[1]][g[2]]
         /\ \A u \in Units : t.prompt[u] = (IF f = <<"prompt", u>> THEN d.prompt[u] ELSE s.prompt[u])
         /\ \A u \in Units : t.schema[u] = (IF f = <<"schema", u>> THEN d.schema[u] ELSE s.schema[u])
<1>1. s \in Source /\ d \in Source /\ d \in Sources
  BY CompleteFiles DEF Sources
<1>2. PICK k \in Kinds, w \in Units : f = <<k, w>>
  OBVIOUS
<1>3. CASE k = "prompt"
  <2>1. t = [s EXCEPT !.prompt = [s.prompt EXCEPT ![w] = d.prompt[w]]]
    BY <1>1, <1>2, <1>3 DEF Source, WithHash
  <2>2. /\ t \in Source /\ t.pipeline = s.pipeline /\ t.schema = s.schema
        /\ \A u \in Units : t.prompt[u] = (IF u = w THEN d.prompt[u] ELSE s.prompt[u])
    BY <1>1, <2>1 DEF Source
  <2>3. t \in Sources
    BY <2>2 DEF Sources
  <2>4. ASSUME NEW g \in Kinds \X Units
        PROVE  t[g[1]][g[2]] = IF g = f THEN d[f[1]][f[2]] ELSE s[g[1]][g[2]]
    <3>1. PICK j \in Kinds, v \in Units : g = <<j, v>>
      OBVIOUS
    <3> QED BY <1>1, <1>2, <1>3, <2>2, <3>1, FileKinds DEF Kinds
  <2>5. \A u \in Units : t.prompt[u] = (IF f = <<"prompt", u>> THEN d.prompt[u] ELSE s.prompt[u])
    BY <1>2, <1>3, <2>2
  <2>6. \A u \in Units : t.schema[u] = (IF f = <<"schema", u>> THEN d.schema[u] ELSE s.schema[u])
    BY <1>2, <1>3, <2>2
  <2> QED BY <2>2, <2>3, <2>4, <2>5, <2>6
<1>4. CASE k = "schema"
  <2>1. t = [s EXCEPT !.schema = [s.schema EXCEPT ![w] = d.schema[w]]]
    BY <1>1, <1>2, <1>4 DEF Source, WithHash
  <2>2. /\ t \in Source /\ t.pipeline = s.pipeline /\ t.prompt = s.prompt
        /\ \A u \in Units : t.schema[u] = (IF u = w THEN d.schema[u] ELSE s.schema[u])
    BY <1>1, <2>1 DEF Source
  <2>3. t \in Sources
    BY <1>2, <1>4, <2>2 DEF Sources
  <2>4. ASSUME NEW g \in Kinds \X Units
        PROVE  t[g[1]][g[2]] = IF g = f THEN d[f[1]][f[2]] ELSE s[g[1]][g[2]]
    <3>1. PICK j \in Kinds, v \in Units : g = <<j, v>>
      OBVIOUS
    <3> QED BY <1>1, <1>2, <1>4, <2>2, <3>1, FileKinds DEF Kinds
  <2>5. \A u \in Units : t.prompt[u] = (IF f = <<"prompt", u>> THEN d.prompt[u] ELSE s.prompt[u])
    BY <1>2, <1>4, <2>2
  <2>6. \A u \in Units : t.schema[u] = (IF f = <<"schema", u>> THEN d.schema[u] ELSE s.schema[u])
    BY <1>2, <1>4, <2>2
  <2> QED BY <2>2, <2>3, <2>4, <2>5, <2>6
<1> QED BY <1>2, <1>3, <1>4 DEF Kinds

\* The run an operation comes from is one of the stored ones.
LEMMA PriorRun ==
  ASSUME LineageTypes, Placed, pc # "idle", op.kind \in {"resume", "replay"}
  PROVE  /\ op.prior \in DOMAIN store /\ store[op.prior] \in Runs
         /\ store[op.prior].source \in Sources /\ store[op.prior].results \subseteq Results
         /\ store[op.prior].dirty \in BOOLEAN
<1>1. op.prior \in DOMAIN store /\ store[op.prior] \in Runs
  BY LenProperties, ElementOfSeq DEF LineageTypes, Placed
<1> QED BY <1>1 DEF Runs

\* What is carried is the results of that run that were ok, with their texts.
LEMMA CarriedResults ==
  ASSUME LineageTypes, Placed, pc # "idle"
  PROVE  /\ Carried \subseteq Results /\ CarriedUnits \subseteq 1..Width
         /\ \A r \in Carried : /\ op.kind = "resume" /\ r.unit \in CarriedUnits
                               /\ \E x \in store[op.prior].results : x.unit = r.unit /\ x.made = r.made
         /\ \A u \in CarriedUnits : op.kind = "resume" /\ \E x \in store[op.prior].results : x.unit = u
<1>1. CASE op.kind # "resume"
  BY <1>1 DEF Carried, CarriedUnits
<1>2. CASE op.kind = "resume"
  <2>1. store[op.prior].results \subseteq Results
    BY <1>2, PriorRun
  <2>2. \A r \in Carried : \E x \in store[op.prior].results : r = [x EXCEPT !.depth = 0]
    BY <1>2 DEF Carried
  <2>3. ASSUME NEW x \in store[op.prior].results
        PROVE  LET r == [x EXCEPT !.depth = 0]
               IN r \in Results /\ r.unit = x.unit /\ r.made = x.made /\ r.unit \in 1..Width
    BY <2>1, <2>3 DEF Results, Result
  <2>4. ASSUME NEW r \in Carried
        PROVE  /\ r \in Results /\ r.unit \in 1..Width
               /\ \E x \in store[op.prior].results : x.unit = r.unit /\ x.made = r.made
    BY <2>2, <2>3
  <2>5. ASSUME NEW u \in CarriedUnits
        PROVE  u \in 1..Width /\ \E x \in store[op.prior].results : x.unit = u
    BY <2>4 DEF CarriedUnits
  <2>6. \A r \in Carried : r.unit \in CarriedUnits
    BY DEF CarriedUnits
  <2> QED BY <1>2, <2>4, <2>5, <2>6
<1> QED BY <1>1, <1>2

-----------------------------------------------------------------------------
(***************************************************************************)
(* Types.                                                                  *)
(***************************************************************************)

\* Somebody changes the definition: another one that is all there.
LEMMA ChangedTypes ==
  ASSUME LineageTypes, EditFile \/ OtherCheckout
  PROVE  LineageTypes'
<1>1. setup' = setup /\ Changed
  BY DEF EditFile, OtherCheckout, Changed
<1>2. files' \in Complete
  <2>1. ASSUME NEW v \in Versions, files' = [files EXCEPT !.pipeline = v]
        PROVE  files' \in Complete
    BY <2>1, Instance DEF LineageTypes, Complete, Source
  <2>2. ASSUME NEW v \in Versions, NEW u \in Units, files' = [files EXCEPT !.prompt[u] = v]
        PROVE  files' \in Complete
    <3>1. files \in Source /\ v # 0
      BY Instance DEF LineageTypes, Complete
    <3>2. /\ files' \in Source /\ files'.pipeline = files.pipeline /\ files'.schema = files.schema
          /\ \A w \in Units : files'.prompt[w] = IF w = u THEN v ELSE files.prompt[w]
      BY <2>2, <3>1 DEF Source
    <3> QED BY <3>1, <3>2 DEF LineageTypes, Complete, Texts, Made, Source
  <2>3. ASSUME NEW v \in Versions, NEW u \in Schemas, files' = [files EXCEPT !.schema[u] = v]
        PROVE  files' \in Complete
    <3>1. files \in Source /\ v # 0 /\ u \in Units
      BY Instance DEF LineageTypes, Complete
    <3>2. /\ files' \in Source /\ files'.pipeline = files.pipeline /\ files'.prompt = files.prompt
          /\ \A w \in Units : files'.schema[w] = IF w = u THEN v ELSE files.schema[w]
      BY <2>3, <3>1 DEF Source
    <3> QED BY <3>1, <3>2 DEF LineageTypes, Complete, Texts, Made, Source
  <2>4. ASSUME NEW v \in Versions, files' = Uniform(v) PROVE files' \in Complete
    BY <2>4, UniformComplete DEF LineageTypes
  <2> QED BY <2>1, <2>2, <2>3, <2>4 DEF EditFile, OtherCheckout
<1>3. UNCHANGED <<store, pc, op, todo, differs, commit, source, results, depth, stage, made>>
  BY <1>1 DEF Changed, inRun
<1>4. dirty' \in BOOLEAN
  BY <1>1 DEF Changed, LineageTypes
<1> QED BY <1>1, <1>2, <1>3, <1>4, Fixed DEF LineageTypes

\* An operation that ends forgets what it held.
LEMMA ForgetTypes ==
  ASSUME LineageTypes, Forget
  PROVE  /\ setup' = setup /\ source' \in Sources /\ results' \subseteq Results
         /\ op' \in [kind : {"none", "run", "resume", "replay"}, prior : Nat, limit : Nat]
         /\ todo' \subseteq Kinds \X Units /\ depth' \in Nat /\ commit' \in Versions \cup {0}
         /\ stage' \in [Units -> {"idle", "carried", "skipped", "prompted", "ok", "error"}]
         /\ made' \in [Units -> Made] /\ differs' \in BOOLEAN
         /\ source' = Blank /\ results' = {}
  BY DEF LineageTypes, Forget, Blank, Unread, Nothing, NoOp, Sources, Source, Made

\* An operation that ends leaves the stored runs as they are.
LEMMA EndTypes ==
  ASSUME LineageTypes, NEW how, End(how)
  PROVE  LineageTypes'
<1>1. Forget /\ UNCHANGED <<files, store, dirty>> /\ pc' = "idle"
  BY DEF End
<1> QED BY <1>1, ForgetTypes, Fixed DEF LineageTypes

\* What an operation does before its run.
LEMMA CheckTypes ==
  ASSUME LineageTypes, Placed,
         Run \/ Resume \/ Rerun \/ Replay \/ Prepare \/ CheckPipeline \/ CheckFile \/ Accept
  PROVE  LineageTypes'
<1>1. ASSUME NEW k \in {"run", "resume", "replay"}, NEW r \in Nat, NEW d \in Nat, Begin(k, r, d)
      PROVE  LineageTypes'
  <2>1. UNCHANGED <<setup, files, store, todo, differs, commit, source, results, depth, stage, made>>
    BY <1>1 DEF Begin, inRun
  <2>2. /\ op' \in [kind : {"none", "run", "resume", "replay"}, prior : Nat, limit : Nat]
        /\ dirty' \in BOOLEAN /\ pc' \in {"prepare", "check"} \cup Reading
    BY <1>1 DEF Begin, Reading
  <2> QED BY <2>1, <2>2, Fixed DEF LineageTypes
<1>2. CASE Prepare
  <2>1. PICK v \in Versions : files' = Uniform(v) /\ commit' = v
    BY <1>2 DEF Prepare
  <2>2. UNCHANGED <<setup, store, op, todo, differs, dirty, source, results, depth, stage, made>>
    BY <1>2 DEF Prepare, inRun
  <2>3. pc' \in {"check"} \cup Reading
    BY <1>2 DEF Prepare, Reading
  <2> QED BY <2>1, <2>2, <2>3, UniformComplete, Fixed DEF LineageTypes
<1>3. CASE CheckPipeline
  <2>1. UNCHANGED <<setup, files, store, op, commit, dirty, source, results, depth, stage, made>>
    BY <1>3 DEF CheckPipeline, inRun
  <2>2. todo' \subseteq Kinds \X Units /\ differs' \in BOOLEAN /\ pc' = "files"
    BY <1>3 DEF CheckPipeline, Recorded, Kinds
  <2> QED BY <2>1, <2>2, Fixed DEF LineageTypes
<1>4. CASE CheckFile
  <2>1. UNCHANGED <<setup, files, store, pc, op, commit, dirty, source, results, depth, stage, made>>
    BY <1>4 DEF CheckFile, inRun
  <2>2. todo' \subseteq Kinds \X Units /\ differs' \in BOOLEAN
    BY <1>4 DEF CheckFile, LineageTypes
  <2> QED BY <2>1, <2>2, Fixed DEF LineageTypes
<1>5. CASE Accept
  <2>1. UNCHANGED <<setup, files, store, op, todo, differs, commit, dirty, source, results, depth, stage, made>>
    BY <1>5 DEF Accept, inRun
  <2>2. pc' \in Reading
    BY <1>5 DEF Accept, Reading
  <2> QED BY <2>1, <2>2, Fixed DEF LineageTypes
<1>6. /\ \A s \in Setups : s.specDepth \in Nat /\ s.depths \subseteq Nat
      /\ setup \in Setups /\ DOMAIN store \subseteq Nat
  BY LineageAssumption, LenProperties DEF LineageTypes
<1>7. CASE Run
  BY <1>1, <1>6, <1>7 DEF Run
<1>8. CASE Resume
  BY <1>1, <1>6, <1>8 DEF Resume
<1>9. CASE Rerun
  BY <1>1, <1>6, <1>9 DEF Rerun
<1>10. CASE Replay
  BY <1>1, <1>6, <1>10 DEF Replay
<1> QED BY <1>2, <1>3, <1>4, <1>5, <1>7, <1>8, <1>9, <1>10

\* A unit reads one of its files.
LEMMA ReadTypes ==
  ASSUME LineageTypes, NEW u \in Units, NEW k \in Kinds, k = "schema" => u \in Schemas, Read(u, k)
  PROVE  /\ source' \in Sources /\ source'.pipeline = source.pipeline
         /\ \A g \in Kinds \X Units : source'[g[1]][g[2]] = IF g = <<k, u>> THEN files[k][u] ELSE source[g[1]][g[2]]
         /\ \A w \in Units : source'.prompt[w] = (IF k = "prompt" /\ w = u THEN files.prompt[u] ELSE source.prompt[w])
         /\ \A w \in Units : source'.schema[w] = (IF k = "schema" /\ w = u THEN files.schema[u] ELSE source.schema[w])
         /\ made' \in [Units -> Made]
         /\ \A w \in Units : w # u => made'[w] = made[w]
         /\ k = "prompt" => made'[u] = [prompt |-> files.prompt[u], schema |-> made[u].schema]
         /\ k = "schema" => made'[u] = [prompt |-> made[u].prompt, schema |-> files.schema[u]]
<1>1. source \in Sources /\ files \in Complete
  BY DEF LineageTypes
<1>2. PICK f \in Kinds \X Units : f = <<k, u>>
  OBVIOUS
<1>3. source' = WithHash(source, files, f) /\ (f[1] = "schema" => f[2] \in Schemas)
  BY <1>2 DEF Read, WithHash
<1>4. /\ source' \in Sources /\ source'.pipeline = source.pipeline
      /\ \A g \in Kinds \X Units : source'[g[1]][g[2]] = IF g = <<k, u>> THEN files[k][u] ELSE source[g[1]][g[2]]
      /\ \A w \in Units : source'.prompt[w] = (IF k = "prompt" /\ w = u THEN files.prompt[u] ELSE source.prompt[w])
      /\ \A w \in Units : source'.schema[w] = (IF k = "schema" /\ w = u THEN files.schema[u] ELSE source.schema[w])
  <2>1. /\ source' \in Sources /\ source'.pipeline = source.pipeline
        /\ \A g \in Kinds \X Units : source'[g[1]][g[2]] = IF g = f THEN files[f[1]][f[2]] ELSE source[g[1]][g[2]]
        /\ \A w \in Units : source'.prompt[w] = (IF f = <<"prompt", w>> THEN files.prompt[w] ELSE source.prompt[w])
        /\ \A w \in Units : source'.schema[w] = (IF f = <<"schema", w>> THEN files.schema[w] ELSE source.schema[w])
    BY <1>1, <1>3, OneRecorded
  <2> QED BY <1>2, <2>1
<1>5. files.prompt[u] \in Versions /\ (u \in Schemas => files.schema[u] \in Versions)
  BY <1>1, CompleteFiles
<1>6. made' = [made EXCEPT ![u][k] = files[k][u]] /\ made \in [Units -> Made] /\ made[u] \in Made
  BY DEF Read, LineageTypes
<1>7. /\ made' = [made EXCEPT ![u] = made'[u]]
      /\ made'[u] = [made[u] EXCEPT ![k] = files[k][u]]
  BY <1>6
<1>8. CASE k = "prompt"
  <2>1. made'[u] = [prompt |-> files.prompt[u], schema |-> made[u].schema]
    BY <1>6, <1>7, <1>8 DEF Made
  <2>2. made'[u] \in Made
    BY <1>5, <1>6, <2>1 DEF Made
  <2> QED BY <1>4, <1>6, <1>7, <1>8, <2>1, <2>2
<1>9. CASE k = "schema"
  <2>1. made'[u] = [prompt |-> made[u].prompt, schema |-> files.schema[u]]
    BY <1>6, <1>7, <1>9 DEF Made
  <2>2. made'[u] \in Made
    BY <1>5, <1>6, <1>9, <2>1 DEF Made
  <2> QED BY <1>4, <1>6, <1>7, <1>9, <2>1, <2>2
<1> QED BY <1>8, <1>9 DEF Kinds

\* What a unit does inside a level.
LEMMA UnitTypes ==
  ASSUME LineageTypes, NEW u \in Units, Skip(u) \/ LoadPrompt(u) \/ LoadSchema(u), Working
  PROVE  LineageTypes'
<1>1. stage' \in [Units -> {"idle", "carried", "skipped", "prompted", "ok", "error"}]
  BY DEF LineageTypes, Skip, LoadPrompt, LoadSchema
<1>2. UNCHANGED <<setup, files, store, pc, op, todo, differs, results, depth, commit, dirty>>
  BY DEF Skip, LoadPrompt, LoadSchema, Read
<1>3. source' \in Sources /\ made' \in [Units -> Made]
  <2>1. CASE Skip(u)
    BY <2>1 DEF Skip, LineageTypes
  <2>2. CASE LoadPrompt(u)
    BY <2>2, ReadTypes DEF LoadPrompt, Kinds
  <2>3. CASE LoadSchema(u)
    <3>1. u \in Schemas
      BY <2>3 DEF LoadSchema, Working
    <3> QED BY <2>3, <3>1, ReadTypes DEF LoadSchema, Kinds
  <2> QED BY <2>1, <2>2, <2>3
<1> QED BY <1>1, <1>2, <1>3, Fixed DEF LineageTypes

\* The first steps of run(), and the end of a depth.
LEMMA LevelTypes ==
  ASSUME LineageTypes, Placed, Working, ResolvePipeline \/ RecordHash \/ SpliceCarried \/ EndDepth
  PROVE  LineageTypes'
<1>1. CASE ResolvePipeline
  <2>1. UNCHANGED <<setup, files, store, op, differs, results, stage, made, commit, dirty>>
    BY <1>1 DEF ResolvePipeline
  <2>2. pc' \in Reading /\ depth' \in Nat
    BY <1>1 DEF ResolvePipeline, Reading
  <2>3. CarriedUnits \subseteq Units
    BY <1>1, CarriedResults, Instance DEF ResolvePipeline, LineageTypes
  <2>4. todo' \subseteq Kinds \X Units
    BY <1>1, <2>3 DEF ResolvePipeline, Kinds
  <2>5. source' \in Sources
    <3>1. source \in Source /\ files.pipeline \in Versions
      BY CompleteFiles DEF LineageTypes, Sources
    <3>2. source' = [source EXCEPT !.pipeline = files.pipeline]
      BY <1>1 DEF ResolvePipeline, ResolvedPipeline
    <3>3. source' \in Source /\ source'.schema = source.schema
      BY <3>1, <3>2 DEF Source
    <3> QED BY <3>3 DEF Sources, LineageTypes
  <2> QED BY <2>1, <2>2, <2>4, <2>5, Fixed DEF LineageTypes
<1>2. CASE RecordHash
  <2>1. UNCHANGED <<setup, files, store, pc, op, differs, results, depth, stage, made, commit, dirty>>
    BY <1>2 DEF RecordHash
  <2>2. PICK f \in todo : source' = WithHash(source, files, f) /\ todo' = todo \ {f}
    BY <1>2 DEF RecordHash, WithHash
  <2>3. todo' \subseteq Kinds \X Units
    BY <2>2 DEF LineageTypes
  <2>4. f \in Kinds \X Units /\ (f[1] = "schema" => f[2] \in Schemas)
    BY <1>2, <2>2 DEF LineageTypes, Placed, RecordHash
  <2>5. source' \in Sources
    BY <2>2, <2>4, OneRecorded DEF LineageTypes
  <2> QED BY <2>1, <2>3, <2>5, Fixed DEF LineageTypes
<1>3. CASE SpliceCarried
  <2>1. UNCHANGED <<setup, files, store, op, todo, differs, source, depth, made, commit, dirty>>
    BY <1>3 DEF SpliceCarried
  <2>2. pc' \in Reading /\ stage' \in [Units -> {"idle", "carried", "skipped", "prompted", "ok", "error"}]
    BY <1>3 DEF SpliceCarried, Reading
  <2>3. results' \subseteq Results
    BY <1>3, CarriedResults DEF SpliceCarried
  <2> QED BY <2>1, <2>2, <2>3, Fixed DEF LineageTypes
<1>4. CASE EndDepth
  <2>1. UNCHANGED <<setup, files, store, op, todo, differs, source, commit, dirty>>
    BY <1>4 DEF EndDepth
  <2>2. pc' \in Reading /\ depth' \in Nat /\ made' \in [Units -> Made]
        /\ stage' \in [Units -> {"idle", "carried", "skipped", "prompted", "ok", "error"}]
    <3>1. Nothing \in Made
      BY DEF Nothing, Made
    <3> QED BY <1>4, <3>1 DEF EndDepth, Reading, LineageTypes
  <2>3. results' \subseteq Results
    <3>1. ASSUME NEW u \in 1..Width, stage[u] \in {"ok", "error"}
          PROVE  [unit |-> u, depth |-> depth, status |-> stage[u], made |-> made[u]] \in Results
      <4>1. u \in Units /\ pc = "level"
        BY <1>4, Instance DEF LineageTypes, EndDepth
      <4>2. made[u] \in Texts(u) /\ made[u] \in Made
        BY <3>1, <4>1 DEF Working, LineageTypes
      <4> QED BY <3>1, <4>2 DEF Results, Result, LineageTypes
    <3> QED BY <1>4, <3>1 DEF EndDepth, LineageTypes
  <2> QED BY <2>1, <2>2, <2>3, Fixed DEF LineageTypes
<1> QED BY <1>1, <1>2, <1>3, <1>4

\* The run as Save appends it.
SavedRun ==
  [source |-> source, results |-> results, commit |-> commit,
   dirty |-> dirty \/ (op.kind = "resume" /\ store[op.prior].dirty),
   resumedFrom |-> IF op.kind = "resume" THEN op.prior ELSE 0,
   replayedFrom |-> 0]

\* A saved run is one more run, the earlier ones stay.
LEMMA SaveRuns ==
  ASSUME LineageTypes, Placed, Save
  PROVE  /\ SavedRun \in Runs /\ store' \in Seq(Runs) /\ Len(store') = Len(store) + 1
         /\ DOMAIN store' = DOMAIN store \cup {Len(store')}
         /\ \A r \in DOMAIN store : store'[r] = store[r]
         /\ store'[Len(store')] = SavedRun
<1>1. SavedRun \in Runs
  <2>1. op.prior \in Nat
    BY DEF LineageTypes
  <2>2. (dirty \/ (op.kind = "resume" /\ store[op.prior].dirty)) \in BOOLEAN
    BY PriorRun DEF LineageTypes, Save
  <2> QED BY <2>1, <2>2 DEF SavedRun, Runs, LineageTypes
<1>2. store \in Seq(Runs) /\ store' = Append(store, SavedRun)
  BY DEF LineageTypes, Save, SavedRun
<1> HIDE DEF SavedRun
<1>3. store' \in Seq(Runs) /\ Len(store') = Len(store) + 1 /\ Len(store) \in Nat
      /\ DOMAIN store' = 1..(Len(store) + 1) /\ DOMAIN store = 1..Len(store)
      /\ (\A r \in 1..Len(store) : store'[r] = store[r]) /\ store'[Len(store) + 1] = SavedRun
  BY <1>1, <1>2
<1> QED BY <1>1, <1>3

\* A replay is marked: the last run, in that one field.
LEMMA MarkRuns ==
  ASSUME LineageTypes, Placed, Mark
  PROVE  /\ store' \in Seq(Runs) /\ Len(store') = Len(store) /\ Len(store) \in DOMAIN store
         /\ DOMAIN store' = DOMAIN store
         /\ \A r \in DOMAIN store : r # Len(store) => store'[r] = store[r]
         /\ \A r \in DOMAIN store : /\ store'[r].source = store[r].source
                                    /\ store'[r].results = store[r].results
                                    /\ store'[r].commit = store[r].commit
                                    /\ store'[r].dirty = store[r].dirty
                                    /\ store'[r].resumedFrom = store[r].resumedFrom
         /\ store'[Len(store)].replayedFrom = op.prior
<1>1. /\ store \in Seq(Runs) /\ Len(store) \in Nat /\ DOMAIN store = 1..Len(store)
      /\ op.prior \in 1..Len(store) /\ op.prior < Len(store) /\ op.prior \in Nat
  BY LenProperties DEF LineageTypes, Placed, Mark
<1>2. Len(store) \in DOMAIN store
  BY <1>1
<1>3. store[Len(store)] \in Runs
  BY <1>1, <1>2, ElementOfSeq
<1> DEFINE marked == [store[Len(store)] EXCEPT !.replayedFrom = op.prior]
<1>4. store' = [store EXCEPT ![Len(store)] = marked]
  BY DEF Mark
<1>5. /\ marked \in Runs /\ marked.source = store[Len(store)].source
      /\ marked.results = store[Len(store)].results /\ marked.commit = store[Len(store)].commit
      /\ marked.dirty = store[Len(store)].dirty /\ marked.resumedFrom = store[Len(store)].resumedFrom
      /\ marked.replayedFrom = op.prior
  BY <1>1, <1>3 DEF Runs
<1> HIDE DEF marked
<1>6. store' \in Seq(Runs) /\ Len(store') = Len(store) /\ DOMAIN store' = DOMAIN store
      /\ (\A r \in DOMAIN store : r # Len(store) => store'[r] = store[r])
      /\ store'[Len(store)] = marked
  BY <1>1, <1>2, <1>4, <1>5, ExceptSeq
<1> QED BY <1>2, <1>5, <1>6

\* What happens to the stored runs.
LEMMA StoreTypes ==
  ASSUME LineageTypes, Placed, Save \/ Mark
  PROVE  LineageTypes'
<1>1. CASE Save
  <2>1. UNCHANGED <<files, dirty>> /\ store' \in Seq(Runs) /\ pc' \in {"idle", "mark"}
    BY <1>1, SaveRuns DEF Save
  <2>2. Forget \/ UNCHANGED <<setup, op, todo, differs, commit, source, results, depth, stage, made>>
    BY <1>1 DEF Save, inRun
  <2> QED BY <2>1, <2>2, ForgetTypes, Fixed DEF LineageTypes, Reading
<1>2. CASE Mark
  <2>1. UNCHANGED <<setup, files, op, todo, differs, commit, dirty, source, results, depth, stage, made>>
    BY <1>2 DEF Mark, inRun
  <2>2. store' \in Seq(Runs) /\ pc' \in Reading
    BY <1>2, MarkRuns DEF Mark, Reading
  <2> QED BY <2>1, <2>2, Fixed DEF LineageTypes
<1> QED BY <1>1, <1>2

-----------------------------------------------------------------------------
(***************************************************************************)
(* Every step keeps the invariant.                                         *)
(***************************************************************************)

\* Runs that are stored already stay what they are.
LEMMA StoredStay ==
  ASSUME LineageInv, setup' = setup, store' = store, outcome' = "pipeline_mismatch" => dirty'
  PROVE  HashesVouch' /\ SameDefinition'
<1>1. HashesVouch'
  BY Fixed DEF LineageInv, HashesVouch
<1>2. SameDefinition'
  BY Fixed DEF LineageInv, SameDefinition
<1> QED BY <1>1, <1>2

\* A change of the definition under an operation is remembered in dirty.
LEMMA ChangedInv ==
  ASSUME LineageInv, EditFile \/ OtherCheckout
  PROVE  LineageInv'
<1>1. LineageTypes'
  BY ChangedTypes DEF LineageInv
<1>2. /\ UNCHANGED <<setup, store, pc, op, todo, differs, commit, outcome, source, results, depth, stage, made>>
      /\ dirty' = (dirty \/ pc # "idle") /\ dirty \in BOOLEAN
  BY DEF EditFile, OtherCheckout, Changed, inRun, LineageInv, LineageTypes
<1>3. Placed'
  BY <1>2, Fixed DEF LineageInv, Placed
<1>4. Unchanged'
  BY <1>2 DEF Unchanged
<1>5. Compared'
  BY <1>2 DEF Compared, Reading
<1>6. Stamped'
  BY <1>2 DEF Stamped
<1>7. Working'
  BY <1>2, Fixed DEF LineageInv, Working
<1>8. Produced'
  BY <1>2, Fixed DEF LineageInv, Produced, Clean, Reading
<1>9. Unmarked'
  <2>1. pc = "mark" => \A a, b : Akin(a, b)' <=> Akin(a, b)
    BY <1>2, Fixed DEF Akin
  <2> QED BY <1>2, <2>1 DEF LineageInv, Unmarked, Akin, Kinds, Units, Synth, Width
<1>10. HashesVouch' /\ SameDefinition'
  BY <1>2, StoredStay DEF LineageInv, SameDefinition
<1> QED BY <1>1, <1>3, <1>4, <1>5, <1>6, <1>7, <1>8, <1>9, <1>10 DEF LineageInv

\* An operation that ends leaves nothing behind but the stored runs.
LEMMA EndInv ==
  ASSUME LineageInv, NEW how, End(how), how = "pipeline_mismatch" => dirty
  PROVE  LineageInv'
<1>1. LineageTypes'
  BY EndTypes DEF LineageInv
<1>2. /\ pc' = "idle" /\ op' = NoOp /\ UNCHANGED <<setup, store, dirty>> /\ outcome' = how
      /\ source' = Blank /\ results' = {} /\ made' = [u \in Units |-> Nothing]
  BY DEF End, Forget
<1>3. Placed'
  BY <1>2, Fixed DEF LineageInv, Placed, Reading
<1>4. Unchanged' /\ Compared' /\ Stamped' /\ Working' /\ Unmarked'
  BY <1>2 DEF Unchanged, Compared, Stamped, Working, Unmarked, Reading
<1>5. Produced'
  BY <1>2, Fixed DEF Produced, Reading
<1>6. HashesVouch' /\ SameDefinition'
  BY <1>2, StoredStay
<1> QED BY <1>1, <1>3, <1>4, <1>5, <1>6 DEF LineageInv

\* An operation begins with nothing read.
LEMMA BeginInv ==
  ASSUME LineageInv, Run \/ Resume \/ Rerun \/ Replay
  PROVE  LineageInv'
<1>1. LineageTypes'
  BY CheckTypes DEF LineageInv
<1>2. PICK k \in {"run", "resume", "replay"}, r \in Nat, d \in Nat :
        Begin(k, r, d) /\ (k # "run" => r \in DOMAIN store)
  <2>1. /\ \A s \in Setups : s.specDepth \in Nat /\ s.depths \subseteq Nat
        /\ setup \in Setups /\ DOMAIN store \subseteq Nat
    BY LineageAssumption, LenProperties DEF LineageInv, LineageTypes
  <2> QED BY <2>1 DEF Run, Resume, Rerun, Replay
<1>3. /\ UNCHANGED <<setup, files, store, todo, differs, commit, source, results, depth, stage, made>>
      /\ pc = "idle" /\ op' = [kind |-> k, prior |-> r, limit |-> d] /\ outcome' = "none" /\ dirty' = FALSE
      /\ pc' = IF Git THEN "prepare" ELSE IF k \in {"resume", "replay"} THEN "check" ELSE "resolve"
  BY <1>2 DEF Begin, inRun
<1>4. source = Blank /\ results = {} /\ \A u \in Units : made[u] = Nothing
  BY <1>3 DEF LineageInv, Placed, Produced
<1>5. Placed'
  <2>1. k # "run" => r \in 1..Len(store)
    BY <1>2, LenProperties DEF LineageInv, LineageTypes
  <2> QED BY <1>3, <1>4, <2>1, Fixed DEF LineageInv, Placed, Reading
<1>6. Unchanged'
  <2>1. Blank.pipeline = 0 /\ \A f \in Kinds \X Units : Blank[f[1]][f[2]] = 0
    BY DEF Blank, Unread, Kinds
  <2>2. Current(source)'
    BY <1>3, <1>4, <2>1, Fixed DEF Current
  <2> QED BY <1>3, <2>2, Fixed DEF Unchanged
<1>7. Compared'
  <2>1. /\ files.pipeline \in Versions \cup {0}
        /\ pc' \in Reading => pc' = "resolve" /\ k = "run"
        /\ pc' # "files"
    BY <1>2, <1>3, CompleteFiles DEF LineageInv, LineageTypes, Reading
  <2> QED BY <1>3, <2>1 DEF Compared
<1>8. Stamped' /\ Working' /\ Unmarked'
  BY <1>3 DEF Stamped, Working, Unmarked
<1>9. Produced'
  BY <1>3, <1>4, Fixed DEF Produced
<1>10. HashesVouch' /\ SameDefinition'
  BY <1>3, StoredStay
<1> QED BY <1>1, <1>5, <1>6, <1>7, <1>8, <1>9, <1>10 DEF LineageInv

\* The registry is prepared: the whole definition is that of the commit.
LEMMA PrepareInv ==
  ASSUME LineageInv, Prepare
  PROVE  LineageInv'
<1>1. LineageTypes'
  BY CheckTypes DEF LineageInv
<1>2. PICK v \in Versions : files' = Uniform(v) /\ commit' = v
  BY DEF Prepare
<1>3. /\ UNCHANGED <<setup, store, op, todo, differs, dirty, outcome, source, results, depth, stage, made>>
      /\ pc = "prepare"
      /\ pc' = IF op.kind \in {"resume", "replay"} THEN "check" ELSE "resolve"
  BY DEF Prepare, inRun
<1>4. source = Blank
  BY <1>3 DEF LineageInv, Placed
<1>5. Placed'
  BY <1>3, Fixed DEF LineageInv, Placed, Reading
<1>6. Unchanged'
  <2>1. Blank.pipeline = 0 /\ \A f \in Kinds \X Units : Blank[f[1]][f[2]] = 0
    BY DEF Blank, Unread, Kinds
  <2>2. Current(source)'
    BY <1>3, <1>4, <2>1, Fixed DEF Current
  <2>3. (files = Uniform(commit))'
    BY <1>2, <1>3, Fixed
  <2> QED BY <2>2, <2>3 DEF Unchanged
<1>7. Compared'
  BY <1>3 DEF Compared, Reading
<1>8. Stamped' /\ Working' /\ Unmarked'
  BY <1>3 DEF Stamped, Working, Unmarked
<1>9. Produced'
  BY <1>3, Fixed DEF LineageInv, Produced
<1>10. HashesVouch' /\ SameDefinition'
  BY <1>3, StoredStay DEF LineageInv, SameDefinition
<1> QED BY <1>1, <1>5, <1>6, <1>7, <1>8, <1>9, <1>10 DEF LineageInv

\* The files that have been compared and did not differ are those of the
\* run that is resumed or replayed.
LEMMA CheckInv ==
  ASSUME LineageInv, CheckPipeline \/ CheckFile \/ Accept
  PROVE  LineageInv'
<1> DEFINE prior == store[op.prior].source
<1>1. LineageTypes'
  BY CheckTypes DEF LineageInv
<1>2. /\ UNCHANGED <<setup, files, store, op, commit, dirty, outcome, source, results, depth, stage, made>>
      /\ pc \in {"check", "files"} /\ pc' \in {"files", "resolve"}
  BY DEF CheckPipeline, CheckFile, Accept, inRun
<1>3. op.kind \in {"resume", "replay"} /\ prior \in Sources /\ prior \in Source /\ prior' = prior
  BY <1>2, PriorRun DEF LineageInv, Placed, Sources
<1>4. source = Blank /\ results = {} /\ \A u \in Units : made[u] = Nothing
  BY <1>2 DEF LineageInv, Placed, Produced
<1>5. Placed'
  BY <1>2, <1>3, Fixed DEF LineageInv, Placed, Reading
<1>6. Unchanged'
  BY <1>2, Fixed DEF LineageInv, Unchanged, Current
<1>7. Compared'
  <2>1. Recorded(prior)' = Recorded(prior) /\ Recorded(prior) \subseteq Kinds \X Units
    BY <1>2, <1>3, Fixed DEF Recorded, Kinds
  <2>2. CASE CheckPipeline
    <3>1. pc' = "files" /\ todo' = Recorded(prior) /\ (~differs' => files.pipeline = prior.pipeline)
      BY <2>2 DEF CheckPipeline, ResolvedPipeline
    <3> QED BY <1>2, <1>3, <2>1, <3>1 DEF Compared, Reading
  <2>3. CASE CheckFile
    <3>1. PICK f \in todo : /\ differs' = (differs \/ files[f[1]][f[2]] # prior[f[1]][f[2]])
                            /\ todo' = todo \ {f}
      BY <2>3 DEF CheckFile
    <3>2. pc = "files" /\ pc' = "files"
      BY <2>3 DEF CheckFile
    <3>3. ASSUME ~dirty, ~differs'
          PROVE  /\ prior.pipeline = files.pipeline
                 /\ \A g \in Recorded(prior) \ todo' : prior[g[1]][g[2]] = files[g[1]][g[2]]
      <4>1. /\ prior.pipeline = files.pipeline
            /\ \A g \in Recorded(prior) \ todo : prior[g[1]][g[2]] = files[g[1]][g[2]]
        BY <1>3, <3>1, <3>2, <3>3 DEF LineageInv, Compared
      <4>2. files[f[1]][f[2]] = prior[f[1]][f[2]]
        BY <3>1, <3>3
      <4> QED BY <3>1, <4>1, <4>2
    <3> QED BY <1>2, <1>3, <2>1, <3>2, <3>3 DEF Compared, Reading
  <2>4. CASE Accept
    <3>1. pc = "files" /\ pc' = "resolve" /\ todo = {} /\ ~differs
      BY <2>4 DEF Accept
    <3>2. ASSUME ~dirty
          PROVE  prior.pipeline = files.pipeline /\ Current(prior)
      <4>1. /\ prior.pipeline = files.pipeline
            /\ \A g \in Recorded(prior) : prior[g[1]][g[2]] = files[g[1]][g[2]]
        BY <1>3, <3>1, <3>2 DEF LineageInv, Compared
      <4>2. \A g \in Kinds \X Units : prior[g[1]][g[2]] # 0 => g \in Recorded(prior)
        BY DEF Kinds, Recorded
      <4> QED BY <4>1, <4>2 DEF Current
    <3>3. (prior.pipeline = files.pipeline)' <=> prior.pipeline = files.pipeline
      BY <1>2, <1>3
    <3>4. Current(prior)' <=> Current(prior)
      BY <1>2, <1>3, Fixed DEF Current
    <3> QED BY <1>2, <3>1, <3>2, <3>3, <3>4 DEF Compared
  <2> QED BY <2>2, <2>3, <2>4
<1>8. Stamped' /\ Working' /\ Unmarked'
  BY <1>2 DEF Stamped, Working, Unmarked
<1>9. Produced'
  BY <1>2, <1>4, Fixed DEF Produced
<1>10. HashesVouch' /\ SameDefinition'
  BY <1>2, StoredStay DEF LineageInv, SameDefinition
<1> QED BY <1>1, <1>5, <1>6, <1>7, <1>8, <1>9, <1>10 DEF LineageInv

\* The prior run was compared: that stays while nothing of it changes.
LEMMA ComparedStays ==
  ASSUME LineageInv, UNCHANGED <<setup, files, store, op, dirty>>, pc \in Reading, pc' \in Reading
  PROVE  Compared'
<1>1. op.kind \in {"resume", "replay"} => (Current(store[op.prior].source)' <=> Current(store[op.prior].source))
  BY Fixed DEF Current
<1> QED BY <1>1 DEF LineageInv, Compared, Reading

\* The run begins: the pipeline is recorded, the files of what is carried are to be.
LEMMA ResolveInv ==
  ASSUME LineageInv, ResolvePipeline
  PROVE  LineageInv'
<1>1. LineageTypes'
  BY LevelTypes DEF LineageInv
<1>2. /\ UNCHANGED <<setup, files, store, op, differs, results, stage, made, commit, dirty, outcome>>
      /\ pc = "resolve" /\ pc' = "carry"
      /\ source' = [source EXCEPT !.pipeline = files.pipeline]
      /\ todo' = {f \in {"prompt", "schema"} \X CarriedUnits : f[1] = "schema" => f[2] \in Schemas}
  BY DEF ResolvePipeline, ResolvedPipeline
<1>3. source = Blank /\ results = {} /\ \A u \in Units : made[u] = Nothing
  BY <1>2 DEF LineageInv, Placed, Produced
<1>4. files.pipeline \in Versions /\ files.pipeline # 0
  BY CompleteFiles, Instance DEF LineageInv, LineageTypes
<1>5. source'.pipeline = files.pipeline /\ \A f \in Kinds \X Units : source'[f[1]][f[2]] = 0
  BY <1>2, <1>3 DEF Blank, Unread, Kinds
<1>6. Placed'
  BY <1>2, <1>4, <1>5, Fixed DEF LineageInv, Placed, Reading
<1>7. Unchanged'
  <2>1. Current(source)'
    BY <1>2, <1>5, Fixed DEF Current
  <2> QED BY <1>2, <2>1, Fixed DEF LineageInv, Unchanged
<1>8. Compared'
  BY <1>2, ComparedStays DEF Reading
<1>9. Stamped'
  <2>1. CarriedUnits' = CarriedUnits
    BY <1>2 DEF CarriedUnits, Carried
  <2> QED BY <1>2, <2>1, Fixed DEF Stamped
<1>10. Working' /\ Unmarked'
  BY <1>2 DEF Working, Unmarked
<1>11. Produced'
  BY <1>2, <1>3, Fixed DEF Produced
<1>12. HashesVouch' /\ SameDefinition'
  BY <1>2, StoredStay DEF LineageInv, SameDefinition
<1> QED BY <1>1, <1>6, <1>7, <1>8, <1>9, <1>10, <1>11, <1>12 DEF LineageInv

\* The hash of one file of what is carried is recorded.
LEMMA RecordInv ==
  ASSUME LineageInv, RecordHash
  PROVE  LineageInv'
<1>1. LineageTypes'
  BY LevelTypes DEF LineageInv
<1>2. /\ UNCHANGED <<setup, files, store, pc, op, differs, results, depth, stage, made, commit, dirty, outcome>>
      /\ pc = "carry"
  BY DEF RecordHash
<1>3. PICK f \in todo : source' = WithHash(source, files, f) /\ todo' = todo \ {f}
  BY DEF RecordHash, WithHash
<1>4. f \in Kinds \X Units /\ (f[1] = "schema" => f[2] \in Schemas)
  BY <1>2, <1>3 DEF LineageInv, LineageTypes, Placed
<1>5. /\ source'.pipeline = source.pipeline
      /\ \A g \in Kinds \X Units : source'[g[1]][g[2]] = IF g = f THEN files[f[1]][f[2]] ELSE source[g[1]][g[2]]
      /\ \A u \in Units : source'.prompt[u] = (IF f = <<"prompt", u>> THEN files.prompt[u] ELSE source.prompt[u])
      /\ \A u \in Units : source'.schema[u] = (IF f = <<"schema", u>> THEN files.schema[u] ELSE source.schema[u])
  BY <1>3, <1>4, OneRecorded DEF LineageInv, LineageTypes
<1>6. Placed'
  BY <1>2, <1>3, <1>5, Fixed DEF LineageInv, Placed, Reading
<1>7. Unchanged'
  <2>1. Current(source) => Current(source)'
    BY <1>2, <1>5, Fixed DEF Current
  <2> QED BY <1>2, <2>1, Fixed DEF LineageInv, Unchanged
<1>8. Compared'
  BY <1>2, ComparedStays DEF Reading
<1>9. Stamped'
  <2>1. CarriedUnits' = CarriedUnits /\ CarriedUnits \subseteq Units
    <3>1. CarriedUnits' = CarriedUnits
      BY <1>2 DEF CarriedUnits, Carried
    <3> QED BY <1>2, <3>1, CarriedResults, Instance DEF LineageInv, LineageTypes
  <2>2. ASSUME ~dirty, NEW u \in CarriedUnits
        PROVE  /\ <<"prompt", u>> \in todo' \/ source'.prompt[u] = files.prompt[u]
               /\ u \in Schemas => <<"schema", u>> \in todo' \/ source'.schema[u] = files.schema[u]
    <3>1. /\ <<"prompt", u>> \in todo \/ source.prompt[u] = files.prompt[u]
          /\ u \in Schemas => <<"schema", u>> \in todo \/ source.schema[u] = files.schema[u]
      BY <1>2, <2>2 DEF LineageInv, Stamped
    <3>2. u \in Units
      BY <2>1
    <3> QED BY <1>3, <1>5, <3>1, <3>2
  <2> QED BY <1>2, <2>1, <2>2, Fixed DEF Stamped
<1>10. Working' /\ Unmarked'
  BY <1>2 DEF Working, Unmarked
<1>11. Produced'
  BY <1>2, Fixed DEF LineageInv, Produced
<1>12. HashesVouch' /\ SameDefinition'
  BY <1>2, StoredStay DEF LineageInv, SameDefinition
<1> QED BY <1>1, <1>6, <1>7, <1>8, <1>9, <1>10, <1>11, <1>12 DEF LineageInv

\* What is carried over was made of the texts whose hashes are recorded now.
LEMMA SpliceInv ==
  ASSUME LineageInv, SpliceCarried
  PROVE  LineageInv'
<1>1. LineageTypes'
  BY LevelTypes DEF LineageInv
<1>2. /\ UNCHANGED <<setup, files, store, op, todo, differs, source, depth, made, commit, dirty, outcome>>
      /\ pc = "carry" /\ pc' = "level" /\ todo = {} /\ results' = Carried
      /\ stage' = [u \in Units |-> IF u \in CarriedUnits THEN "carried" ELSE "idle"]
  BY DEF SpliceCarried
<1>3. Placed'
  BY <1>2, Fixed DEF LineageInv, Placed, Reading
<1>4. Unchanged'
  BY <1>2, Fixed DEF LineageInv, Unchanged, Current
<1>5. Compared'
  BY <1>2, ComparedStays DEF Reading
<1>6. Stamped' /\ Unmarked'
  BY <1>2 DEF Stamped, Unmarked
<1>7. Working'
  <2>1. \A u \in Units : made[u] = Nothing /\ stage'[u] \in {"carried", "idle"}
    BY <1>2 DEF LineageInv, Produced
  <2> QED BY <1>2, <2>1, Fixed DEF Working
<1>8. Produced'
  <2>1. ASSUME Clean, NEW r \in Carried
        PROVE  Vouched(r, source)
    <3> DEFINE prior == store[op.prior].source
    <3>1. op.kind = "resume" /\ r.unit \in CarriedUnits /\ r.unit \in Units
      BY <1>2, CarriedResults, Instance DEF LineageInv, LineageTypes
    <3>2. PICK x \in store[op.prior].results : x.unit = r.unit /\ x.made = r.made
      BY <1>2, CarriedResults DEF LineageInv
    <3>3. /\ op.prior \in DOMAIN store /\ prior \in Source
          /\ x \in Results /\ ~store[op.prior].dirty /\ ~dirty
      BY <1>2, <2>1, <3>1, PriorRun DEF LineageInv, Clean, Sources
    <3>4. x.made = [prompt |-> prior.prompt[r.unit], schema |-> prior.schema[r.unit]]
      BY <3>2, <3>3 DEF LineageInv, HashesVouch
    <3>5. x.made.prompt # 0 /\ (x.made.schema # 0 <=> r.unit \in Schemas)
      BY <3>2, <3>3 DEF Results, Texts
    <3>6. Current(prior)
      BY <1>2, <3>1, <3>3 DEF LineageInv, Compared, Reading
    <3>7. /\ prior.prompt[r.unit] \in {0, files.prompt[r.unit]}
          /\ prior.schema[r.unit] \in {0, files.schema[r.unit]}
      <4>1. <<"prompt", r.unit>> \in Kinds \X Units /\ <<"schema", r.unit>> \in Kinds \X Units
        BY <3>1 DEF Kinds
      <4> QED BY <3>6, <4>1 DEF Current
    <3>8. /\ source.prompt[r.unit] = files.prompt[r.unit]
          /\ r.unit \in Schemas => source.schema[r.unit] = files.schema[r.unit]
      BY <1>2, <3>1, <3>3 DEF LineageInv, Stamped
    <3>9. r.unit \notin Schemas => source.schema[r.unit] = 0
      BY <3>1 DEF LineageInv, LineageTypes, Sources
    <3>10. /\ prior.prompt[r.unit] = source.prompt[r.unit]
           /\ prior.schema[r.unit] = source.schema[r.unit]
      BY <3>4, <3>5, <3>7, <3>8, <3>9
    <3> QED BY <3>2, <3>4, <3>10 DEF Vouched
  <2>2. Clean' <=> Clean
    BY <1>2 DEF Clean
  <2> QED BY <1>2, <2>1, <2>2, Fixed DEF Produced, Vouched
<1>9. HashesVouch' /\ SameDefinition'
  BY <1>2, StoredStay DEF LineageInv, SameDefinition
<1> QED BY <1>1, <1>3, <1>4, <1>5, <1>6, <1>7, <1>8, <1>9 DEF LineageInv

\* A unit reads a file: what it read is what is recorded, and what other
\* units and earlier depths read of it, if nothing changed.
LEMMA UnitInv ==
  ASSUME LineageInv, NEW u \in Units, Skip(u) \/ LoadPrompt(u) \/ LoadSchema(u)
  PROVE  LineageInv'
<1>0. LineageTypes
  BY DEF LineageInv
<1>1. LineageTypes'
  BY UnitTypes DEF LineageInv
<1>2. /\ UNCHANGED <<setup, files, store, pc, op, todo, differs, results, depth, commit, dirty, outcome>>
      /\ pc = "level"
  BY DEF Skip, LoadPrompt, LoadSchema, Read
<1>3. HashesVouch' /\ SameDefinition'
  BY <1>2, StoredStay DEF LineageInv, SameDefinition
<1>4. Compared' /\ Stamped' /\ Unmarked'
  BY <1>2, ComparedStays DEF Reading, Stamped, Unmarked
<1>5. stage \in [Units -> {"idle", "carried", "skipped", "prompted", "ok", "error"}]
  BY DEF LineageInv, LineageTypes
<1>6. CASE Skip(u)
  <2>1. source' = source /\ made' = made /\ stage' = [stage EXCEPT ![u] = "skipped"]
    BY <1>6 DEF Skip
  <2>2. Placed' /\ Unchanged'
    BY <1>2, <2>1, Fixed DEF LineageInv, Placed, Unchanged, Current, Reading
  <2>3. Working'
    BY <1>2, <1>5, <2>1, Fixed DEF LineageInv, Working
  <2>4. Produced'
    BY <1>2, <2>1, Fixed DEF LineageInv, Produced, Clean, Vouched
  <2> QED BY <1>1, <1>3, <1>4, <2>2, <2>3, <2>4 DEF LineageInv
<1>7. ASSUME NEW k \in Kinds, k = "schema" => u \in Schemas, Read(u, k)
      PROVE  /\ Placed' /\ Unchanged' /\ Produced'
             /\ \A w \in Units : source'.prompt[w] = (IF k = "prompt" /\ w = u THEN files.prompt[u] ELSE source.prompt[w])
             /\ \A w \in Units : source'.schema[w] = (IF k = "schema" /\ w = u THEN files.schema[u] ELSE source.schema[w])
  <2>1. /\ source'.pipeline = source.pipeline
        /\ \A g \in Kinds \X Units : source'[g[1]][g[2]] = IF g = <<k, u>> THEN files[k][u] ELSE source[g[1]][g[2]]
        /\ \A w \in Units : source'.prompt[w] = (IF k = "prompt" /\ w = u THEN files.prompt[u] ELSE source.prompt[w])
        /\ \A w \in Units : source'.schema[w] = (IF k = "schema" /\ w = u THEN files.schema[u] ELSE source.schema[w])
    <3>1. PICK f \in Kinds \X Units : f = <<k, u>>
      OBVIOUS
    <3>2. source' = WithHash(source, files, f) /\ (f[1] = "schema" => f[2] \in Schemas)
      BY <1>7, <3>1 DEF Read, WithHash
    <3>3. source \in Sources /\ files \in Complete
      BY <1>0 DEF LineageTypes
    <3>4. /\ source'.pipeline = source.pipeline
          /\ \A g \in Kinds \X Units : source'[g[1]][g[2]] = IF g = f THEN files[f[1]][f[2]] ELSE source[g[1]][g[2]]
          /\ \A w \in Units : source'.prompt[w] = (IF f = <<"prompt", w>> THEN files.prompt[w] ELSE source.prompt[w])
          /\ \A w \in Units : source'.schema[w] = (IF f = <<"schema", w>> THEN files.schema[w] ELSE source.schema[w])
      BY <3>2, <3>3, OneRecorded
    <3> QED BY <3>1, <3>4
  <2>2. Placed'
    BY <1>2, <2>1, Fixed DEF LineageInv, Placed, Reading
  <2>3. Unchanged'
    <3>1. Current(source) => Current(source)'
      BY <1>2, <2>1, Fixed DEF Current
    <3> QED BY <1>2, <3>1, Fixed DEF LineageInv, Unchanged
  <2>4. ASSUME ~dirty, NEW w \in Units
        PROVE  /\ source.prompt[w] # 0 => source'.prompt[w] = source.prompt[w]
               /\ source.schema[w] # 0 => source'.schema[w] = source.schema[w]
    <3>1. Current(source)
      BY <1>2, <2>4 DEF LineageInv, Unchanged
    <3>2. <<"prompt", w>> \in Kinds \X Units /\ <<"schema", w>> \in Kinds \X Units
      BY DEF Kinds
    <3>3. source.prompt[w] \in {0, files.prompt[w]} /\ source.schema[w] \in {0, files.schema[w]}
      BY <3>1, <3>2 DEF Current
    <3> QED BY <2>1, <3>3
  <2>5. Produced'
    <3>1. ASSUME Clean, NEW x \in results
          PROVE  Vouched(x, source')
      <4>1. x \in Results /\ x.unit \in Units
        BY Instance DEF LineageInv, LineageTypes, Results, Result
      <4>2. Vouched(x, source) /\ ~dirty
        BY <1>2, <3>1 DEF LineageInv, Produced, Reading, Clean
      <4>3. source.prompt[x.unit] # 0 /\ (x.unit \in Schemas <=> source.schema[x.unit] # 0)
        BY <4>1, <4>2 DEF Vouched, Results, Texts
      <4>4. source'.prompt[x.unit] = source.prompt[x.unit]
        BY <2>4, <4>1, <4>2, <4>3
      <4>5. source'.schema[x.unit] = source.schema[x.unit]
        <5>1. CASE x.unit \in Schemas
          BY <2>4, <4>1, <4>2, <4>3, <5>1
        <5>2. CASE x.unit \notin Schemas
          BY <1>7, <2>1, <4>1, <5>2
        <5> QED BY <5>1, <5>2
      <4> QED BY <4>2, <4>4, <4>5 DEF Vouched
    <3>2. Clean' <=> Clean
      BY <1>2 DEF Clean
    <3> QED BY <1>2, <3>1, <3>2, Fixed DEF Produced, Vouched
  <2> QED BY <2>1, <2>2, <2>3, <2>5
<1>8. files.prompt[u] \in Versions /\ files.prompt[u] # 0
      /\ (u \in Schemas => files.schema[u] \in Versions /\ files.schema[u] # 0)
  BY CompleteFiles, Instance DEF LineageInv, LineageTypes
<1>9. CASE LoadPrompt(u)
  <2>1. Read(u, "prompt") /\ stage[u] = "idle" /\ "prompt" \in Kinds
    BY <1>9 DEF LoadPrompt, Ready, Kinds
  <2>2. PICK s \in (IF u \in Schemas THEN {"prompted"} ELSE {"ok", "error"}) :
          stage' = [stage EXCEPT ![u] = s]
    BY <1>9 DEF LoadPrompt
  <2>3. /\ \A w \in Units : w # u => made'[w] = made[w] /\ stage'[w] = stage[w]
                                     /\ source'.prompt[w] = source.prompt[w]
        /\ made'[u] = [prompt |-> files.prompt[u], schema |-> made[u].schema]
        /\ source'.prompt[u] = files.prompt[u] /\ stage'[u] = s
        /\ \A w \in Units : source'.schema[w] = source.schema[w]
        /\ made' \in [Units -> Made]
    <3>1. /\ \A w \in Units : source'.prompt[w] = (IF w = u THEN files.prompt[u] ELSE source.prompt[w])
          /\ \A w \in Units : source'.schema[w] = source.schema[w]
      BY <1>7, <2>1
    <3>2. /\ made' \in [Units -> Made]
          /\ \A w \in Units : w # u => made'[w] = made[w]
      BY <1>0, <2>1, ReadTypes
    <3>3. made'[u] = [prompt |-> files.prompt[u], schema |-> made[u].schema]
      BY <1>0, <2>1, ReadTypes
    <3> QED BY <1>5, <2>2, <3>1, <3>2, <3>3
  <2>4. made[u] = Nothing
    BY <1>2, <2>1 DEF LineageInv, Working
  <2>5. made'[u] = [prompt |-> files.prompt[u], schema |-> 0]
    BY <2>3, <2>4 DEF Nothing
  <2>6. u \notin Schemas => source.schema[u] = 0
    BY DEF LineageInv, LineageTypes, Sources
  <2>7. Working'
    <3>1. ASSUME NEW w \in Units
          PROVE  /\ stage'[w] = "idle" => made'[w] = Nothing
                 /\ stage'[w] = "prompted" =>
                      /\ w \in Schemas /\ made'[w].prompt # 0 /\ made'[w].schema = 0
                      /\ ~dirty => made'[w].prompt = source'.prompt[w]
                 /\ stage'[w] \in {"ok", "error"} =>
                      /\ made'[w] \in Texts(w)
                      /\ ~dirty => made'[w].prompt = source'.prompt[w] /\ made'[w].schema = source'.schema[w]
      <4>1. CASE w # u
        BY <1>2, <2>3, <4>1 DEF LineageInv, Working
      <4>2. CASE w = u
        <5>1. s \in {"ok", "error"} => made'[u] \in Texts(u)
          BY <1>8, <2>2, <2>3, <2>5 DEF Texts
        <5> QED BY <1>8, <2>2, <2>3, <2>5, <2>6, <4>2, <5>1
      <4> QED BY <4>1, <4>2
    <3> QED BY <1>2, <3>1, Fixed DEF Working
  <2> QED BY <1>1, <1>3, <1>4, <1>7, <2>1, <2>7 DEF LineageInv
<1>10. CASE LoadSchema(u)
  <2>1. Read(u, "schema") /\ stage[u] = "prompted" /\ "schema" \in Kinds
    BY <1>10 DEF LoadSchema, Kinds
  <2>2. PICK s \in {"ok", "error"} : stage' = [stage EXCEPT ![u] = s]
    BY <1>10 DEF LoadSchema
  <2>3. u \in Schemas /\ made[u].prompt # 0 /\ (~dirty => made[u].prompt = source.prompt[u])
    BY <1>2, <2>1 DEF LineageInv, Working
  <2>4. /\ \A w \in Units : w # u => made'[w] = made[w] /\ stage'[w] = stage[w]
                                     /\ source'.schema[w] = source.schema[w]
        /\ made'[u] = [prompt |-> made[u].prompt, schema |-> files.schema[u]]
        /\ source'.schema[u] = files.schema[u] /\ stage'[u] = s
        /\ \A w \in Units : source'.prompt[w] = source.prompt[w]
        /\ made' \in [Units -> Made]
    <3>1. /\ \A w \in Units : source'.schema[w] = (IF w = u THEN files.schema[u] ELSE source.schema[w])
          /\ \A w \in Units : source'.prompt[w] = source.prompt[w]
      BY <1>7, <2>1, <2>3
    <3>2. /\ made' \in [Units -> Made]
          /\ \A w \in Units : w # u => made'[w] = made[w]
      BY <1>0, <2>1, <2>3, ReadTypes
    <3>3. made'[u] = [prompt |-> made[u].prompt, schema |-> files.schema[u]]
      BY <1>0, <2>1, <2>3, ReadTypes
    <3> QED BY <1>5, <2>2, <3>1, <3>2, <3>3
  <2>5. Working'
    <3>1. ASSUME NEW w \in Units
          PROVE  /\ stage'[w] = "idle" => made'[w] = Nothing
                 /\ stage'[w] = "prompted" =>
                      /\ w \in Schemas /\ made'[w].prompt # 0 /\ made'[w].schema = 0
                      /\ ~dirty => made'[w].prompt = source'.prompt[w]
                 /\ stage'[w] \in {"ok", "error"} =>
                      /\ made'[w] \in Texts(w)
                      /\ ~dirty => made'[w].prompt = source'.prompt[w] /\ made'[w].schema = source'.schema[w]
      <4>1. CASE w # u
        BY <1>2, <2>4, <4>1 DEF LineageInv, Working
      <4>2. CASE w = u
        <5>1. made'[u] \in Texts(u)
          BY <1>8, <2>3, <2>4 DEF Texts
        <5> QED BY <2>2, <2>3, <2>4, <4>2, <5>1
      <4> QED BY <4>1, <4>2
    <3> QED BY <1>2, <3>1, Fixed DEF Working
  <2> QED BY <1>1, <1>3, <1>4, <1>7, <2>1, <2>3, <2>5 DEF LineageInv
<1> QED BY <1>6, <1>9, <1>10

\* A depth is over: what it made joins the results.
LEMMA EndDepthInv ==
  ASSUME LineageInv, EndDepth
  PROVE  LineageInv'
<1>1. LineageTypes'
  BY LevelTypes DEF LineageInv
<1>2. /\ UNCHANGED <<setup, files, store, op, todo, differs, source, commit, dirty, outcome>>
      /\ pc = "level" /\ pc' \in {"level", "save"}
      /\ pc' = "level" => /\ stage' = [u \in Units |-> "idle"]
                          /\ made' = [u \in Units |-> Nothing]
  BY DEF EndDepth
<1>3. Placed'
  BY <1>2, Fixed DEF LineageInv, Placed, Reading
<1>4. Unchanged'
  BY <1>2, Fixed DEF LineageInv, Unchanged, Current
<1>5. Compared'
  BY <1>2, ComparedStays DEF Reading
<1>6. Stamped' /\ Unmarked'
  BY <1>2 DEF Stamped, Unmarked
<1>7. Working'
  BY <1>2, Fixed DEF Working
<1>8. Produced'
  <2>1. ASSUME Clean, NEW x \in results'
        PROVE  Vouched(x, source)
    <3>1. CASE x \in results
      BY <1>2, <2>1, <3>1 DEF LineageInv, Produced, Reading
    <3>2. CASE x \notin results
      <4>1. PICK u \in 1..Width : /\ stage[u] \in {"ok", "error"}
                                  /\ x = [unit |-> u, depth |-> depth, status |-> stage[u], made |-> made[u]]
        BY <3>2 DEF EndDepth
      <4>2. u \in Units
        BY Instance DEF LineageInv, LineageTypes
      <4>3. made[u].prompt = source.prompt[u] /\ made[u].schema = source.schema[u]
        BY <1>2, <2>1, <4>1, <4>2 DEF LineageInv, Working, Clean
      <4>4. made[u] \in Made
        BY <4>2 DEF LineageInv, LineageTypes
      <4>5. made[u] = [prompt |-> source.prompt[u], schema |-> source.schema[u]]
        BY <4>3, <4>4 DEF Made
      <4> QED BY <4>1, <4>5 DEF Vouched
    <3> QED BY <3>1, <3>2
  <2>2. Clean' <=> Clean
    BY <1>2 DEF Clean
  <2> QED BY <1>2, <2>1, <2>2, Fixed DEF Produced, Vouched
<1>9. HashesVouch' /\ SameDefinition'
  BY <1>2, StoredStay DEF LineageInv, SameDefinition
<1> QED BY <1>1, <1>3, <1>4, <1>5, <1>6, <1>7, <1>8, <1>9 DEF LineageInv

\* The run a stored one comes from is stored too, before it.
LEMMA Links ==
  ASSUME LineageTypes, Placed, NEW r \in DOMAIN store
  PROVE  /\ store[r].resumedFrom \in Nat /\ store[r].replayedFrom \in Nat
         /\ LET from == store[r].resumedFrom + store[r].replayedFrom
            IN from # 0 => from \in DOMAIN store /\ from < r
<1>1. store[r] \in Runs /\ DOMAIN store = 1..Len(store) /\ Len(store) \in Nat
  BY ElementOfSeq, LenProperties DEF LineageTypes
<1>2. store[r].resumedFrom \in Nat /\ store[r].replayedFrom \in Nat
  BY <1>1 DEF Runs
<1>3. store[r].resumedFrom + store[r].replayedFrom < r
  BY DEF Placed
<1> QED BY <1>1, <1>2, <1>3

\* Two records that agree, file by file.
LEMMA AkinTexts ==
  ASSUME NEW a, NEW b, Akin(a, b)
  PROVE  /\ a.pipeline = b.pipeline
         /\ \A u \in Units : /\ a.prompt[u] # 0 /\ b.prompt[u] # 0 => a.prompt[u] = b.prompt[u]
                             /\ a.schema[u] # 0 /\ b.schema[u] # 0 => a.schema[u] = b.schema[u]
<1>1. \A u \in Units : <<"prompt", u>> \in Kinds \X Units /\ <<"schema", u>> \in Kinds \X Units
  BY DEF Kinds
<1> QED BY <1>1 DEF Akin

\* What the run being saved recorded agrees with the run it comes from, and
\* vouches for its results.
LEMMA SavedSound ==
  ASSUME LineageInv, pc = "save"
  PROVE  /\ op.kind \in {"resume", "replay"} /\ ~dirty => Akin(source, store[op.prior].source)
         /\ ~SavedRun.dirty =>
              /\ ~dirty /\ Clean
              /\ \A x \in results : Vouched(x, source)
              /\ Git => \A u \in Units : source.prompt[u] \in {0, commit}
<1>1. ASSUME ~dirty PROVE Current(source) /\ source.pipeline = files.pipeline
  BY <1>1 DEF LineageInv, Unchanged, Placed, Reading, Current
<1>2. ASSUME op.kind \in {"resume", "replay"}, ~dirty
      PROVE  Akin(source, store[op.prior].source)
  <2>1. store[op.prior].source.pipeline = files.pipeline /\ Current(store[op.prior].source)
    BY <1>2 DEF LineageInv, Compared, Reading
  <2> QED BY <1>1, <1>2, <2>1 DEF Akin, Current
<1>3. ASSUME ~SavedRun.dirty
      PROVE  /\ ~dirty /\ Clean
             /\ \A x \in results : Vouched(x, source)
             /\ Git => \A u \in Units : source.prompt[u] \in {0, commit}
  <2>1. ~dirty /\ Clean
    BY <1>3 DEF SavedRun, Clean
  <2>2. \A x \in results : Vouched(x, source)
    BY <2>1 DEF LineageInv, Produced, Reading
  <2>3. ASSUME Git, NEW u \in Units
        PROVE  source.prompt[u] \in {0, commit}
    <3>1. files = Uniform(commit)
      BY <2>1, <2>3 DEF LineageInv, Unchanged
    <3>2. <<"prompt", u>> \in Kinds \X Units
      BY DEF Kinds
    <3>3. source.prompt[u] \in {0, files.prompt[u]}
      BY <1>1, <2>1, <3>2 DEF Current
    <3> QED BY <3>1, <3>3 DEF Uniform
  <2> QED BY <2>1, <2>2, <2>3
<1> QED BY <1>2, <1>3

\* A run is saved.
LEMMA SaveInv ==
  ASSUME LineageInv, Save
  PROVE  LineageInv'
<1>1. LineageTypes'
  BY StoreTypes DEF LineageInv
<1>2. /\ UNCHANGED <<setup, files, dirty>> /\ pc = "save" /\ setup' = setup
      /\ IF op.kind = "replay"
         THEN pc' = "mark" /\ UNCHANGED <<op, todo, differs, commit, outcome, source, results, depth, stage, made>>
         ELSE pc' = "idle" /\ outcome' = "ok" /\ Forget
  BY DEF Save, inRun, Forget
<1>3. /\ SavedRun \in Runs /\ store' \in Seq(Runs) /\ Len(store') = Len(store) + 1
      /\ DOMAIN store' = DOMAIN store \cup {Len(store')}
      /\ \A r \in DOMAIN store : store'[r] = store[r]
      /\ store'[Len(store')] = SavedRun
  BY SaveRuns DEF LineageInv
<1>4. Len(store) \in Nat /\ DOMAIN store = 1..Len(store)
  BY LenProperties DEF LineageInv, LineageTypes
<1>5. op.kind \in {"resume", "replay"} =>
        op.prior \in DOMAIN store /\ op.prior \in 1..Len(store) /\ store'[op.prior] = store[op.prior]
  BY <1>2, <1>3, <1>4 DEF LineageInv, Placed
<1>6. /\ op.kind \in {"resume", "replay"} /\ ~dirty => Akin(source, store[op.prior].source)
      /\ ~SavedRun.dirty =>
           /\ ~dirty
           /\ \A x \in results : Vouched(x, source)
           /\ Git => \A u \in Units : source.prompt[u] \in {0, commit}
  BY <1>2, SavedSound DEF LineageInv
<1>7. /\ SavedRun.source = source /\ SavedRun.results = results /\ SavedRun.commit = commit
      /\ SavedRun.resumedFrom = (IF op.kind = "resume" THEN op.prior ELSE 0) /\ SavedRun.replayedFrom = 0
      /\ dirty => SavedRun.dirty
      /\ op.kind = "replay" => SavedRun.dirty = dirty
  BY DEF SavedRun, LineageInv, LineageTypes
<1>8. SavedRun.resumedFrom + SavedRun.replayedFrom = IF op.kind = "resume" THEN op.prior ELSE 0
  BY <1>7 DEF LineageInv, LineageTypes
<1>9. Placed'
  <2>1. \A r \in DOMAIN store' : store'[r].resumedFrom + store'[r].replayedFrom < r
    BY <1>3, <1>4, <1>5, <1>8 DEF LineageInv, Placed
  <2>2. op.kind = "replay" => op.prior \in 1..Len(store') /\ op.prior < Len(store')
    BY <1>3, <1>4, <1>5
  <2>3. op.kind = "replay" => source.pipeline # 0
    BY <1>2 DEF LineageInv, Placed, Reading
  <2>4. op.kind # "replay" => source' = Blank /\ pc' = "idle"
    BY <1>2 DEF Forget
  <2>5. CASE op.kind = "replay"
    BY <1>2, <2>1, <2>2, <2>3, <2>5, Fixed DEF Placed, Reading
  <2>6. CASE op.kind # "replay"
    BY <1>2, <2>1, <2>4, <2>6, Fixed DEF Placed, Reading
  <2> QED BY <2>5, <2>6
<1>10. Unchanged'
  BY <1>2, Fixed DEF LineageInv, Unchanged, Current
<1>11. Compared'
  <2>1. CASE op.kind = "replay"
    <3>1. Current(store[op.prior].source)' <=> Current(store[op.prior].source)
      BY <1>2, <1>5, <2>1, Fixed DEF Current
    <3> QED BY <1>2, <1>5, <2>1, <3>1 DEF LineageInv, Compared, Reading
  <2>2. CASE op.kind # "replay"
    BY <1>2, <2>2 DEF Compared, Reading
  <2> QED BY <2>1, <2>2
<1>12. Stamped' /\ Working'
  BY <1>2 DEF Stamped, Working
<1>13. Produced'
  <2>1. CASE op.kind = "replay"
    <3>1. Clean' => Clean
      BY <1>2, <2>1 DEF Clean
    <3> QED BY <1>2, <2>1, <3>1, Fixed DEF LineageInv, Produced, Vouched, Reading
  <2>2. CASE op.kind # "replay"
    <3>1. results' = {} /\ made' = [u \in Units |-> Nothing] /\ pc' = "idle"
      BY <1>2, <2>2 DEF Forget
    <3> QED BY <1>2, <3>1, Fixed DEF Produced, Reading
  <2> QED BY <2>1, <2>2
<1>14. Unmarked'
  <2>1. CASE op.kind = "replay"
    <3>1. Akin(store[Len(store)].source, store[op.prior].source)'
             <=> Akin(source, store[op.prior].source)
      BY <1>2, <1>3, <1>5, <1>7, <2>1, Fixed DEF Akin
    <3> QED BY <1>2, <1>3, <1>6, <1>7, <2>1, <3>1 DEF Unmarked
  <2>2. CASE op.kind # "replay"
    BY <1>2, <2>2 DEF Unmarked
  <2> QED BY <2>1, <2>2
<1>15. HashesVouch'
  <2>1. ASSUME NEW r \in DOMAIN store', ~store'[r].dirty
        PROVE  /\ \A x \in store'[r].results :
                    x.made = [prompt |-> store'[r].source.prompt[x.unit], schema |-> store'[r].source.schema[x.unit]]
               /\ Git => \A u \in Units : store'[r].source.prompt[u] \in {0, store'[r].commit}
    <3>1. CASE r \in DOMAIN store
      BY <1>3, <2>1, <3>1 DEF LineageInv, HashesVouch
    <3>2. CASE r = Len(store')
      BY <1>3, <1>6, <1>7, <2>1, <3>2 DEF Vouched
    <3> QED BY <1>3, <3>1, <3>2
  <2> QED BY <1>2, <2>1, Fixed DEF HashesVouch
<1>16. SameDefinition'
  <2>1. ASSUME NEW r \in DOMAIN store', NEW from, from = store'[r].resumedFrom + store'[r].replayedFrom,
               from # 0, ~store'[r].dirty
        PROVE  /\ store'[r].source.pipeline = store'[from].source.pipeline
               /\ \A u \in Units :
                    /\ store'[r].source.prompt[u] # 0 /\ store'[from].source.prompt[u] # 0
                         => store'[r].source.prompt[u] = store'[from].source.prompt[u]
                    /\ store'[r].source.schema[u] # 0 /\ store'[from].source.schema[u] # 0
                         => store'[r].source.schema[u] = store'[from].source.schema[u]
    <3>1. CASE r \in DOMAIN store
      <4>1. from \in DOMAIN store
        BY <1>3, <2>1, <3>1, Links DEF LineageInv
      <4> QED BY <1>3, <2>1, <3>1, <4>1 DEF LineageInv, SameDefinition
    <3>2. CASE r = Len(store')
      <4>1. op.kind = "resume" /\ from = op.prior /\ ~dirty
        BY <1>3, <1>7, <1>8, <2>1, <3>2
      <4>2. Akin(source, store[op.prior].source)
        BY <1>6, <4>1
      <4>3. store'[r].source = source /\ store'[from].source = store[op.prior].source
        BY <1>3, <1>5, <1>7, <3>2, <4>1
      <4> QED BY <4>2, <4>3, AkinTexts
    <3> QED BY <1>3, <3>1, <3>2
  <2>2. outcome' = "pipeline_mismatch" => dirty'
    BY <1>2 DEF LineageInv, SameDefinition
  <2> QED BY <1>2, <2>1, <2>2, Fixed DEF SameDefinition
<1> QED BY <1>1, <1>9, <1>10, <1>11, <1>12, <1>13, <1>14, <1>15, <1>16 DEF LineageInv

\* A replay is marked with the run it replays.
LEMMA MarkInv ==
  ASSUME LineageInv, Mark
  PROVE  LineageInv'
<1>1. LineageTypes'
  BY StoreTypes DEF LineageInv
<1>2. /\ UNCHANGED <<setup, files, op, todo, differs, commit, dirty, outcome, source, results, depth, stage, made>>
      /\ pc = "mark" /\ pc' = "diff"
  BY DEF Mark, inRun
<1>3. /\ Len(store') = Len(store) /\ Len(store) \in DOMAIN store /\ DOMAIN store' = DOMAIN store
      /\ \A r \in DOMAIN store : r # Len(store) => store'[r] = store[r]
      /\ \A r \in DOMAIN store : /\ store'[r].source = store[r].source
                                 /\ store'[r].results = store[r].results
                                 /\ store'[r].commit = store[r].commit
                                 /\ store'[r].dirty = store[r].dirty
                                 /\ store'[r].resumedFrom = store[r].resumedFrom
      /\ store'[Len(store)].replayedFrom = op.prior
  BY <1>2, MarkRuns DEF LineageInv
<1>4. /\ op.kind = "replay" /\ op.prior < Len(store) /\ op.prior \in DOMAIN store /\ op.prior \in Nat
      /\ store[Len(store)].resumedFrom = 0
      /\ ~store[Len(store)].dirty => Akin(store[Len(store)].source, store[op.prior].source)
  BY <1>2, PriorRun DEF LineageInv, LineageTypes, Placed, Unmarked
<1>5. store'[Len(store)].resumedFrom + store'[Len(store)].replayedFrom = op.prior
  BY <1>3, <1>4
<1>6. Placed'
  <2>1. \A r \in DOMAIN store' : store'[r].resumedFrom + store'[r].replayedFrom < r
    BY <1>3, <1>4, <1>5 DEF LineageInv, Placed
  <2> QED BY <1>2, <1>3, <2>1, Fixed DEF LineageInv, Placed, Reading
<1>7. Unchanged'
  BY <1>2, Fixed DEF LineageInv, Unchanged, Current
<1>8. Compared'
  <2>1. Current(store[op.prior].source)' <=> Current(store[op.prior].source)
    BY <1>2, <1>3, <1>4, Fixed DEF Current
  <2> QED BY <1>2, <1>3, <1>4, <2>1 DEF LineageInv, Compared, Reading
<1>9. Stamped' /\ Working' /\ Unmarked'
  BY <1>2 DEF Stamped, Working, Unmarked
<1>10. Produced'
  BY <1>2, <1>4, Fixed DEF LineageInv, Produced, Vouched, Clean, Reading
<1>11. HashesVouch'
  BY <1>2, <1>3, Fixed DEF LineageInv, HashesVouch
<1>12. SameDefinition'
  <2>1. ASSUME NEW r \in DOMAIN store', NEW from, from = store'[r].resumedFrom + store'[r].replayedFrom,
               from # 0, ~store'[r].dirty
        PROVE  /\ store'[r].source.pipeline = store'[from].source.pipeline
               /\ \A u \in Units :
                    /\ store'[r].source.prompt[u] # 0 /\ store'[from].source.prompt[u] # 0
                         => store'[r].source.prompt[u] = store'[from].source.prompt[u]
                    /\ store'[r].source.schema[u] # 0 /\ store'[from].source.schema[u] # 0
                         => store'[r].source.schema[u] = store'[from].source.schema[u]
    <3>1. CASE r # Len(store)
      <4>1. from = store[r].resumedFrom + store[r].replayedFrom /\ r \in DOMAIN store /\ ~store[r].dirty
        BY <1>3, <2>1, <3>1
      <4>2. from \in DOMAIN store
        BY <2>1, <4>1, Links DEF LineageInv
      <4>3. store'[r].source = store[r].source /\ store'[from].source = store[from].source
        BY <1>3, <4>1, <4>2
      <4> QED BY <2>1, <4>1, <4>3 DEF LineageInv, SameDefinition
    <3>2. CASE r = Len(store)
      <4>1. from = op.prior
        BY <1>5, <2>1, <3>2
      <4>2. Akin(store[Len(store)].source, store[op.prior].source)
        BY <1>3, <1>4, <2>1, <3>2
      <4>3. store'[r].source = store[r].source /\ store'[from].source = store[from].source
        BY <1>3, <1>4, <3>2, <4>1
      <4> QED BY <3>2, <4>1, <4>2, <4>3, AkinTexts
    <3> QED BY <3>1, <3>2
  <2>2. outcome' = "pipeline_mismatch" => dirty'
    BY <1>2 DEF LineageInv, SameDefinition
  <2> QED BY <1>2, <2>1, <2>2, Fixed DEF SameDefinition
<1> QED BY <1>1, <1>6, <1>7, <1>8, <1>9, <1>10, <1>11, <1>12 DEF LineageInv

\* A replay is refused by the differ only if the definition changed while it ran.
LEMMA DiffInv ==
  ASSUME LineageInv, Diff
  PROVE  LineageInv'
<1>1. pc = "diff" /\ op.kind = "replay"
  BY DEF Diff, LineageInv, Placed
<1>2. ~dirty => source.pipeline = Baseline
  BY <1>1 DEF LineageInv, Placed, Unchanged, Current, Compared, Baseline, Reading
<1>3. PICK how : End(how) /\ (how = "pipeline_mismatch" => source.pipeline # Baseline)
  BY DEF Diff
<1>4. how = "pipeline_mismatch" => dirty
  BY <1>2, <1>3
<1> QED BY <1>3, <1>4, EndInv

\* Nothing has been stored or read at the start.
LEMMA LineageInit == Init => LineageInv
<1> SUFFICES ASSUME Init PROVE LineageInv
  OBVIOUS
<1>1. PICK v \in Versions : files = Uniform(v)
  BY DEF Init
<1>2. /\ setup \in Setups /\ store = <<>> /\ pc = "idle" /\ op = NoOp /\ todo = {}
      /\ differs = FALSE /\ source = Blank /\ results = {} /\ depth = 0
      /\ stage = [u \in Units |-> "idle"] /\ made = [u \in Units |-> Nothing]
      /\ commit = 0 /\ dirty = FALSE /\ outcome = "none"
  BY DEF Init
<1>3. LineageTypes
  <2>1. Blank \in Sources /\ Nothing \in Made /\ NoOp \in [kind : {"none", "run", "resume", "replay"}, prior : Nat, limit : Nat]
    BY DEF Blank, Unread, Nothing, NoOp, Sources, Source, Made
  <2>2. files \in Complete
    BY <1>1, <1>2, UniformComplete
  <2>3. store \in Seq(Runs)
    BY <1>2
  <2> QED BY <1>2, <2>1, <2>2, <2>3 DEF LineageTypes
<1>4. DOMAIN store = {}
  BY <1>2
<1>5. Placed /\ Unchanged /\ Compared /\ Stamped /\ Working /\ Produced /\ Unmarked
  BY <1>2, <1>4 DEF Placed, Unchanged, Compared, Stamped, Working, Produced, Unmarked, Reading
<1>6. HashesVouch /\ SameDefinition
  BY <1>2, <1>4 DEF HashesVouch, SameDefinition
<1> QED BY <1>3, <1>5, <1>6 DEF LineageInv

\* Every step keeps the invariant.
LEMMA LineageStep ==
  ASSUME LineageInv, [Next]_vars
  PROVE  LineageInv'
<1>1. CASE UNCHANGED vars
  <2>1. /\ UNCHANGED <<setup, files, store, pc, op, todo, differs, source, results, depth, stage, made,
                       commit, dirty, outcome>>
    BY <1>1 DEF vars
  <2>2. CarriedUnits' = CarriedUnits
    BY <2>1 DEF CarriedUnits, Carried
  <2>3. LineageTypes' /\ Placed' /\ Unchanged' /\ Stamped' /\ Working' /\ Produced'
    BY <2>1, <2>2, Fixed DEF LineageInv, LineageTypes, Placed, Unchanged, Current, Stamped, Working,
                            Produced, Clean, Vouched
  <2>4. Compared'
    <3>1. Current(store[op.prior].source)' <=> Current(store[op.prior].source)
      BY <2>1, Fixed DEF Current
    <3>2. Recorded(store[op.prior].source)' = Recorded(store[op.prior].source)
      BY <2>1, Fixed DEF Recorded
    <3> QED BY <2>1, <3>1, <3>2 DEF LineageInv, Compared
  <2>5. Unmarked'
    <3>1. Akin(store[Len(store)].source, store[op.prior].source)'
            <=> Akin(store[Len(store)].source, store[op.prior].source)
      BY <2>1, Fixed DEF Akin
    <3> QED BY <2>1, <3>1 DEF LineageInv, Unmarked
  <2>6. HashesVouch' /\ SameDefinition'
    BY <2>1, StoredStay DEF LineageInv, SameDefinition
  <2> QED BY <2>3, <2>4, <2>5, <2>6 DEF LineageInv
<1>2. CASE Next
  <2>1. CASE EditFile \/ OtherCheckout
    BY <2>1, ChangedInv
  <2>2. CASE Run \/ Resume \/ Rerun \/ Replay
    BY <2>2, BeginInv
  <2>3. CASE Prepare
    BY <2>3, PrepareInv
  <2>4. CASE Fails \/ Refuse
    <3>1. PICK how \in {"failed", "hash_mismatch"} : End(how)
      BY <2>4 DEF Fails, Refuse
    <3> QED BY <3>1, EndInv
  <2>5. CASE CheckPipeline \/ CheckFile \/ Accept
    BY <2>5, CheckInv
  <2>6. CASE ResolvePipeline
    BY <2>6, ResolveInv
  <2>7. CASE RecordHash
    BY <2>7, RecordInv
  <2>8. CASE SpliceCarried
    BY <2>8, SpliceInv
  <2>9. CASE \E u \in Units : Skip(u) \/ LoadPrompt(u) \/ LoadSchema(u)
    BY <2>9, UnitInv
  <2>10. CASE EndDepth
    BY <2>10, EndDepthInv
  <2>11. CASE Save
    BY <2>11, SaveInv
  <2>12. CASE Mark
    BY <2>12, MarkInv
  <2>13. CASE Diff
    BY <2>13, DiffInv
  <2> QED BY <1>2, <2>1, <2>2, <2>3, <2>4, <2>5, <2>6, <2>7, <2>8, <2>9, <2>10, <2>11, <2>12, <2>13 DEF Next
<1> QED BY <1>1, <1>2

\* The invariant holds of every chain of runs, resumes and replays.
THEOREM LineageInvariant == Spec => []LineageInv
<1>1. Init => LineageInv
  BY LineageInit
<1>2. LineageInv /\ [Next]_vars => LineageInv'
  BY LineageStep
<1> QED BY <1>1, <1>2, PTL DEF Spec

\* The hashes a stored run records are those of the texts that produced its
\* results, the carried ones and every depth included, unless a change of the
\* definition under it or under a run it carries from is the reason they are not.
THEOREM HashesAreOfTexts == Spec => []HashesVouch
<1>1. LineageInv => HashesVouch
  BY DEF LineageInv
<1> QED BY <1>1, LineageInvariant, PTL

\* A resumed or replayed run belongs to the definition of the run it comes
\* from, and the differ refuses a replay only after a change during it.
THEOREM DefinitionStays == Spec => []SameDefinition
<1>1. LineageInv => SameDefinition
  BY DEF LineageInv
<1> QED BY <1>1, LineageInvariant, PTL

\* What the type invariant says besides: an operation that comes from no run
\* names none.
Rest ==
  /\ changes \in Nat /\ outcome \in {"none", "ok", "failed", "hash_mismatch", "pipeline_mismatch"}
  /\ op.kind \in {"none", "run"} => op.prior = 0
  /\ pc = "idle" => op = NoOp

\* Every step keeps that.
LEMMA RestStep ==
  ASSUME LineageInv, Rest, [Next]_vars
  PROVE  Rest'
<1>1. CASE EditFile \/ OtherCheckout
  BY <1>1 DEF EditFile, OtherCheckout, Changed, Rest
<1>2. CASE Run \/ Resume \/ Rerun \/ Replay
  <2>1. PICK k \in {"run", "resume", "replay"} : \E r, d : Begin(k, r, d) /\ (k = "run" => r = 0)
    BY <1>2 DEF Run, Resume, Rerun, Replay
  <2> QED BY <2>1 DEF Begin, Rest
<1>3. ASSUME NEW how \in {"ok", "failed", "hash_mismatch", "pipeline_mismatch"}, End(how)
      PROVE  Rest'
  BY <1>3 DEF End, Forget, Rest, NoOp
<1>4. CASE Fails \/ Refuse \/ Diff
  BY <1>3, <1>4 DEF Fails, Refuse, Diff
<1>5. CASE Save
  BY <1>5 DEF Save, Forget, Rest, NoOp
<1>6. CASE UNCHANGED vars \/ Prepare \/ CheckPipeline \/ CheckFile \/ Accept \/ ResolvePipeline
           \/ RecordHash \/ SpliceCarried \/ EndDepth \/ Mark
           \/ \E u \in Units : Skip(u) \/ LoadPrompt(u) \/ LoadSchema(u)
  <2>1. UNCHANGED <<changes, op, outcome>> /\ (pc' = "idle" => pc = "idle")
    BY <1>6 DEF vars, Prepare, CheckPipeline, CheckFile, Accept, ResolvePipeline, RecordHash,
               SpliceCarried, EndDepth, Mark, Skip, LoadPrompt, LoadSchema, Read
  <2> QED BY <2>1 DEF Rest
<1> QED BY <1>1, <1>2, <1>4, <1>5, <1>6 DEF Next

\* The type invariant: links to other runs lead backwards.
THEOREM LineageTypeCorrect == Spec => []TypeOK
<1>1. Init => Rest
  BY DEF Init, Rest, NoOp
<1>2. LineageInv /\ Rest /\ [Next]_vars => Rest'
  BY RestStep
<1>3. LineageInv /\ Rest => TypeOK
  <2> SUFFICES ASSUME LineageInv, Rest PROVE TypeOK
    OBVIOUS
  <2>1. /\ files \in Source /\ source \in Source /\ results \in SUBSET Result
        /\ stage \in [Units -> {"idle", "carried", "skipped", "prompted", "ok", "error"}]
        /\ made \in [Units -> Made] /\ commit \in Versions \cup {0}
        /\ differs \in BOOLEAN /\ dirty \in BOOLEAN /\ depth \in Nat
        /\ pc \in {"idle", "prepare", "check", "files", "resolve", "carry", "level", "save", "mark", "diff"}
        /\ op.kind \in {"none", "run", "resume", "replay"} /\ op.prior \in Nat /\ op.limit \in Nat
    BY DEF LineageInv, LineageTypes, Complete, Sources, Results, Reading
  <2>2. Runs \subseteq StoredRun
    <3>1. Sources \subseteq Source /\ Results \subseteq Result
      BY DEF Sources, Results
    <3> QED BY <3>1 DEF Runs, StoredRun
  <2>3. store \in Seq(Runs) /\ Len(store) \in Nat
    BY LenProperties DEF LineageInv, LineageTypes
  <2>4. store \in Seq(StoredRun)
    BY <2>2, <2>3
  <2>5. op.prior \in 0..Len(store)
    BY <2>1, <2>3 DEF LineageInv, Placed, Rest, NoOp
  <2>6. ASSUME NEW r \in DOMAIN store
        PROVE  store[r].resumedFrom < r /\ store[r].replayedFrom < r
    <3>1. store[r].resumedFrom \in Nat /\ store[r].replayedFrom \in Nat /\ r \in Nat
      BY <2>3, Links DEF LineageInv
    <3>2. store[r].resumedFrom + store[r].replayedFrom < r
      BY DEF LineageInv, Placed
    <3> QED BY <3>1, <3>2
  <2> QED BY <2>1, <2>4, <2>5, <2>6 DEF TypeOK, Rest
<1> QED BY <1>1, <1>2, <1>3, LineageInvariant, PTL DEF Spec
=============================================================================
