------------------------------- MODULE SpecCache -------------------------------
(***************************************************************************)
(* Resolution of one external pipeline reference by several processes that *)
(* share a cache directory: the entry that is there, or the spec the host  *)
(* serves, parsed and then written to the cache in place: two writes that  *)
(* overlap may leave part of each.  The host serves its current spec       *)
(* whatever version is asked for.                                          *)
(***************************************************************************)
EXTENDS Naturals, FiniteSets

CONSTANTS
  Resolvers,  \* resolutions, each of a process of its own
  Specs       \* texts the host serves over time, 0 an invalid one, 1 the first

ASSUME SpecCacheAssumption == IsFiniteSet(Specs) /\ {0, 1} \subseteq Specs

VARIABLES
  hosted,  \* what the host serves now
  entry,   \* the cache file: "none", "whole" and the spec it holds, or "half": part
           \* of one text or parts of several, which fails its hash
  rpc,     \* per resolution: where it is, or how it ended
  spec,    \* per resolution: the spec it holds
  beside,  \* per resolution: the specs others had the file open with while it had
  due      \* per resolution, history: the entry there was when it began, if settled

cacheVars == <<hosted, entry, rpc, spec, beside, due>>

NoEntry == [is |-> "none", spec |-> 0]
Half == [is |-> "half", spec |-> 0]
Hold(v) == [is |-> "whole", spec |-> v]
Writers == {r \in Resolvers : rpc[r] = "write"}
Mixed(r) == beside[r] \ {spec[r]} # {}
Settled == \A r \in Resolvers : rpc[r] \notin {"fetch", "parse", "open", "write"}

CacheInit ==
  /\ hosted = 1 /\ entry = NoEntry
  /\ rpc = [r \in Resolvers |-> "idle"]
  /\ spec = [r \in Resolvers |-> 0]
  /\ beside = [r \in Resolvers |-> {}]
  /\ due = [r \in Resolvers |-> NoEntry]

\* The host's operator replaces the pipeline.
Publish == \E v \in Specs : v # hosted /\ hosted' = v /\ UNCHANGED <<entry, rpc, spec, beside, due>>

\* An untrusted host is refused before anything is read.
Untrusted(r) ==
  /\ rpc[r] = "idle"
  /\ rpc' = [rpc EXCEPT ![r] = "untrusted_host"]
  /\ UNCHANGED <<hosted, entry, spec, beside, due>>

\* Fault: the cache is written but never read.
ReadCache_Never(r) ==
  /\ rpc[r] = "idle"
  /\ due' = [due EXCEPT ![r] = IF Settled THEN entry ELSE @]
  /\ rpc' = [rpc EXCEPT ![r] = "fetch"]
  /\ UNCHANGED <<hosted, entry, spec, beside>>

\* readCache: an entry that is no JSON or fails its hash is an error, for good.
ReadCache(r) ==
  /\ rpc[r] = "idle"
  /\ due' = [due EXCEPT ![r] = IF Settled THEN entry ELSE @]
  /\ CASE entry = NoEntry -> rpc' = [rpc EXCEPT ![r] = "fetch"] /\ spec' = spec
       [] entry = Half -> rpc' = [rpc EXCEPT ![r] = "cache_corrupt"] /\ spec' = spec
       [] OTHER -> rpc' = [rpc EXCEPT ![r] = "resolved"] /\ spec' = [spec EXCEPT ![r] = entry.spec]
  /\ UNCHANGED <<hosted, entry, beside>>

FetchSpec(r) ==
  /\ rpc[r] = "fetch"
  /\ \/ rpc' = [rpc EXCEPT ![r] = "fetch_failed"] /\ spec' = spec
     \/ rpc' = [rpc EXCEPT ![r] = "parse"] /\ spec' = [spec EXCEPT ![r] = hosted]
  /\ UNCHANGED <<hosted, entry, beside, due>>

ParsePipeline(r) ==
  /\ rpc[r] = "parse"
  /\ rpc' = [rpc EXCEPT ![r] = IF spec[r] = 0 THEN "invalid_spec" ELSE "open"]
  /\ UNCHANGED <<hosted, entry, spec, beside, due>>

\* writeCache, in place: the file is truncated, under whoever is writing it.
OpenCache(r) ==
  /\ rpc[r] = "open"
  /\ entry' = Half /\ rpc' = [rpc EXCEPT ![r] = "write"]
  /\ beside' = [q \in Resolvers |->
                  IF q = r THEN {spec[w] : w \in Writers}
                  ELSE IF q \in Writers THEN beside[q] \cup {spec[r]} ELSE beside[q]]
  /\ UNCHANGED <<hosted, spec, due>>

\* A text of its own is left, but for what another one left in or behind it, or
\* a writer that still has the file open took away.
WriteCache(r) ==
  /\ rpc[r] = "write"
  /\ \/ entry' = Hold(spec[r])
     \/ (Mixed(r) \/ Writers # {r}) /\ entry' = Half
  /\ rpc' = [rpc EXCEPT ![r] = "resolved"]
  /\ UNCHANGED <<hosted, spec, beside, due>>

CacheCrash(r) ==
  /\ rpc[r] \in {"open", "write"}
  /\ rpc' = [rpc EXCEPT ![r] = "dead"]
  /\ UNCHANGED <<hosted, entry, spec, beside, due>>

CacheNext ==
  \/ Publish
  \/ \E r \in Resolvers : \/ Untrusted(r) \/ ReadCache(r) \/ FetchSpec(r) \/ ParsePipeline(r)
                          \/ OpenCache(r) \/ WriteCache(r) \/ CacheCrash(r)

CacheSpec == CacheInit /\ [][CacheNext]_cacheVars

----------------------------------------------------------------------------
CacheTypeOK ==
  /\ hosted \in Specs
  /\ entry \in [is : {"none", "half", "whole"}, spec : Specs]
  /\ spec \in [Resolvers -> Specs] /\ beside \in [Resolvers -> SUBSET Specs]
  /\ rpc \in [Resolvers -> {"idle", "untrusted_host", "fetch", "fetch_failed", "parse", "invalid_spec",
                            "cache_corrupt", "open", "write", "resolved", "dead"}]

\* A reference stays what it was first resolved to.  If a resolution begins when
\* there is an entry and nobody is between a miss and the end of its write, the
\* entry is that one from then on, whatever the host serves: it ends with the
\* spec of the entry, or with cache_corrupt if the entry is damaged, as do all
\* after it.  An entry holds a spec that parsed; it is damaged only while it is
\* written, after a crash, or when two writes of different texts overlapped.
SpecPinned ==
  /\ \A r \in Resolvers :
       due[r] # NoEntry =>
         /\ entry = due[r]
         /\ rpc[r] = "resolved" => entry = Hold(spec[r])
         /\ rpc[r] # "resolved" => entry = Half /\ rpc[r] = "cache_corrupt"
  /\ entry.is = "whole" => entry.spec # 0
  /\ entry = Half => \E r \in Resolvers : rpc[r] \in {"write", "dead"} \/ Mixed(r)
=============================================================================
