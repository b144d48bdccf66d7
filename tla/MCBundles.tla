------------------------------- MODULE MCBundles -------------------------------
(***************************************************************************)
(* A run of two channels that share a raw key, over two depths: with every *)
(* kind of start (the second channel the synthesis or not, the first       *)
(* carried along or not) and both stores, saved and exported by its own    *)
(* process; or a fresh one with a synthesis in the filesystem store,       *)
(* exported by its own process and by another; or three overlapping        *)
(* fetches of two foreign bundles of two files, two processes of the       *)
(* remote; or three resolutions of one foreign spec that changes.  The     *)
(* parts share nothing: a behaviour is of one of them.                     *)
(***************************************************************************)
EXTENDS RunBundles, Federation, SpecCache, TLC

CONSTANTS f1, f2, f3

VARIABLE part

vars == <<part, bundleVars, fedVars, cacheVars>>

MCRawKeys == {"k1", "k2"}
MCKeyOf == [u \in 1..2 |-> "k1"]
MCSynths == {0, 2}
MCCarried == {<<>>, <<1>>}
MCBackends == {"filesystem", "sqlite"}
MCExporters == {"own", "other"}

MCRuns == {"r1", "r2"}
MCFetchers == {f1, f2, f3}
MCFiles == 1..2
MCPeers == {"server", "cli"}
MCResolvers == {f1, f2, f3}
MCSpecs == 0..2

Init ==
  /\ part \in {"store", "bundles", "federation", "specs"}
  /\ BundleInit /\ FedInit /\ CacheInit
  /\ part # "store" => backend = "filesystem" /\ synth = 2 /\ results = <<>>

Next ==
  /\ part' = part
  /\ \/ part = "store" /\ BundleNext /\ epc'["other"] = "idle" /\ UNCHANGED <<fedVars, cacheVars>>
     \/ part = "bundles" /\ BundleNext /\ UNCHANGED <<fedVars, cacheVars>>
     \/ part = "federation" /\ FedNext /\ UNCHANGED <<bundleVars, cacheVars>>
     \/ part = "specs" /\ CacheNext /\ UNCHANGED <<bundleVars, fedVars>>

Spec == Init /\ [][Next]_vars

Symmetry == Permutations(MCFetchers)
=============================================================================
