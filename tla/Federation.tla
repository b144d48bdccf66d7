------------------------------ MODULE Federation ------------------------------
(***************************************************************************)
(* Federation between two instances.  Processes of the remote instance     *)
(* create its key on first use and its server signs a run's bundle for     *)
(* each request.  Fetches of the local instance check what they get        *)
(* against the pinned key and store it, file by file and in place, with    *)
(* provenance.json last.  Fetches overlap and may crash.                   *)
(***************************************************************************)
EXTENDS Naturals, FiniteSets

CONSTANTS
  Runs,      \* runs of the remote: one stands for the reference of its bundle
  Fetchers,  \* fetches at the local instance
  Files,     \* files of a bundle in the order they are stored: 1..n
  Peers      \* processes of the remote instance, the server among them

ASSUME FederationAssumption ==
  /\ "server" \in Peers
  /\ IsFiniteSet(Files) /\ Files # {} /\ Files = 1..Cardinality(Files)

VARIABLES
  private, public,  \* the remote's key files: whose key, or NoKey
  peer,             \* per process: "start", "private", "public", "ready", "dead"
  pinned,           \* key in the local allowlist, exported by the remote's operator
  fpc,              \* per fetch: where it is, or how it ended
  want,             \* per fetch: the reference and the instance asked for
  got,              \* per fetch: the response it stores
  at,               \* per fetch: index of the file it stores next
  dir,              \* per reference and file: Missing, Cropped or whose file it is
  provenance        \* per reference: Missing, Cropped or Whole

fedVars == <<private, public, peer, pinned, fpc, want, got, at, dir, provenance>>
keyVars == <<private, public, peer>>
foreignVars == <<dir, provenance>>

NoKey == "none"
Missing == "missing"
Cropped == "cropped"
Whole == "whole"
None == [run |-> Missing, whole |-> FALSE, signed |-> FALSE, by |-> NoKey, key |-> NoKey]

\* Ends of a fetch: FederationError codes, alreadyPresent and success.
Rejected == {"untrusted_instance", "fetch_failed", "no_signature", "signature_invalid", "key_mismatch"}
Storing == {"open", "write"}

FedInit ==
  /\ private = NoKey /\ public = NoKey
  /\ peer = [p \in Peers |-> "start"]
  /\ pinned = NoKey
  /\ fpc = [f \in Fetchers |-> "idle"]
  /\ want = [f \in Fetchers |-> [ref |-> CHOOSE r \in Runs : TRUE, listed |-> TRUE]]
  /\ got = [f \in Fetchers |-> None]
  /\ at = [f \in Fetchers |-> 1]
  /\ dir = [r \in Runs |-> [p \in Files |-> Missing]]
  /\ provenance = [r \in Runs |-> Missing]

----------------------------------------------------------------------------
\* Fault: the key is generated whether or not there is one.
Ensure_Always(p) ==
  /\ peer[p] = "start"
  /\ peer' = [peer EXCEPT ![p] = "private"]
  /\ UNCHANGED <<private, public, pinned, fpc, want, got, at, foreignVars>>

\* ensure: an existing private key ends it, its absence starts the generation.
Ensure(p) ==
  /\ peer[p] = "start"
  /\ peer' = [peer EXCEPT ![p] = IF private # NoKey THEN "ready" ELSE "private"]
  /\ UNCHANGED <<private, public, pinned, fpc, want, got, at, foreignVars>>

WritePrivate(p) ==
  /\ peer[p] = "private"
  /\ private' = p /\ peer' = [peer EXCEPT ![p] = "public"]
  /\ UNCHANGED <<public, pinned, fpc, want, got, at, foreignVars>>

WritePublic(p) ==
  /\ peer[p] = "public"
  /\ public' = p /\ peer' = [peer EXCEPT ![p] = "ready"]
  /\ UNCHANGED <<private, pinned, fpc, want, got, at, foreignVars>>

\* A process that dies; started again it looks for the key again.
PeerCrash(p) ==
  /\ peer[p] \in {"private", "public", "ready"}
  /\ peer' = [peer EXCEPT ![p] = "dead"]
  /\ UNCHANGED <<private, public, pinned, fpc, want, got, at, foreignVars>>

PeerRestart(p) ==
  /\ peer[p] = "dead"
  /\ peer' = [peer EXCEPT ![p] = "start"]
  /\ UNCHANGED <<private, public, pinned, fpc, want, got, at, foreignVars>>

\* export-key at the remote, and the operator's entry in the trust file here,
\* which the processes that fetch read when they start.
Pin ==
  /\ pinned = NoKey /\ public # NoKey
  /\ \E p \in Peers : peer[p] = "ready"
  /\ pinned' = public
  /\ UNCHANGED <<keyVars, fpc, want, got, at, foreignVars>>

----------------------------------------------------------------------------
\* TrustStore: an instance is found by its name or its address, if it is listed.
Trusted(listed) == listed /\ pinned # NoKey

\* getProvenance: half a file is none.
HasProvenance(r) == provenance[r] = Whole

Request(f, r, listed) ==
  /\ fpc[f] = "idle"
  /\ want' = [want EXCEPT ![f] = [ref |-> r, listed |-> listed]]
  /\ fpc' = [fpc EXCEPT ![f] =
       CASE ~Trusted(listed) -> "untrusted_instance"
         [] Trusted(listed) /\ HasProvenance(r) -> "present"
         [] OTHER -> "fetch"]
  /\ UNCHANGED <<keyVars, pinned, got, at, foreignVars>>

\* The remote's server exports and signs the run with the key files there are,
\* each request in a directory of its own.
Served(r) == [run |-> r, whole |-> TRUE, signed |-> TRUE, by |-> private, key |-> public]

\* What else may come back: another bundle, a damaged or an unsigned one.
Responses(r) ==
  {[Served(r) EXCEPT !.run = s] : s \in Runs}
    \cup {[Served(r) EXCEPT !.whole = FALSE], [Served(r) EXCEPT !.signed = FALSE]}

\* 404, a server that is down or has no key, or no answer at all.
FetchFails(f) ==
  /\ fpc[f] = "fetch"
  /\ fpc' = [fpc EXCEPT ![f] = "fetch_failed"]
  /\ UNCHANGED <<keyVars, pinned, want, got, at, foreignVars>>

\* verifyBundle with the allowlisted key: the content's hash, the key, the signature.
VerifyBundle(b) ==
  IF ~b.whole THEN "signature_invalid"
  ELSE IF b.key # pinned THEN "key_mismatch"
  ELSE IF b.by # b.key THEN "signature_invalid" ELSE "valid"

\* Fault: the reference of the bundle is not compared with the one asked for.
FetchVerdict_AnyRef(b, r) ==
  IF ~b.signed THEN "no_signature" ELSE IF VerifyBundle(b) # "valid" THEN VerifyBundle(b) ELSE "open"

FetchVerdict(b, r) ==
  IF ~b.signed THEN "no_signature"
  ELSE IF VerifyBundle(b) # "valid" THEN VerifyBundle(b)
  ELSE IF b.run # r THEN "signature_invalid" ELSE "open"

Receive(f) ==
  /\ fpc[f] = "fetch"
  /\ peer["server"] = "ready" /\ public # NoKey
  /\ \E b \in Responses(want[f].ref) :
       /\ fpc' = [fpc EXCEPT ![f] = FetchVerdict(b, want[f].ref)]
       /\ got' = [got EXCEPT ![f] = IF fpc'[f] = "open" THEN b ELSE @]
  /\ UNCHANGED <<keyVars, pinned, want, at, foreignVars>>

----------------------------------------------------------------------------
LastFile == Cardinality(Files) + 1

\* Fault: provenance.json is written before the files.
FileAt_ProvenanceFirst(f) == IF at[f] = 1 THEN LastFile ELSE at[f] - 1

\* save: the bundle's files in turn, then provenance.json.
FileAt(f) == at[f]

Put(f, what) ==
  LET r == want[f].ref
  IN IF FileAt(f) = LastFile
     THEN provenance' = [provenance EXCEPT ![r] = what] /\ dir' = dir
     ELSE /\ dir' = [dir EXCEPT ![r][FileAt(f)] = IF what = Whole THEN got[f].run ELSE what]
          /\ provenance' = provenance

\* writeFile truncates what is there, then writes.
Open(f) ==
  /\ fpc[f] = "open"
  /\ Put(f, Cropped)
  /\ fpc' = [fpc EXCEPT ![f] = "write"]
  /\ UNCHANGED <<keyVars, pinned, want, got, at>>

Write(f) ==
  /\ fpc[f] = "write"
  /\ Put(f, Whole)
  /\ IF at[f] = LastFile
     THEN fpc' = [fpc EXCEPT ![f] = "stored"] /\ at' = at
     ELSE fpc' = [fpc EXCEPT ![f] = "open"] /\ at' = [at EXCEPT ![f] = @ + 1]
  /\ UNCHANGED <<keyVars, pinned, want, got>>

\* The fetch's process dies while it stores.
FetchCrash(f) ==
  /\ fpc[f] \in Storing
  /\ fpc' = [fpc EXCEPT ![f] = IF fpc[f] = "write" THEN "cut" ELSE "dead"]
  /\ UNCHANGED <<keyVars, pinned, want, got, at, foreignVars>>

FedNext ==
  \/ \E p \in Peers : \/ Ensure(p) \/ WritePrivate(p) \/ WritePublic(p)
                      \/ PeerCrash(p) \/ PeerRestart(p)
  \/ Pin
  \/ \E f \in Fetchers : \/ \E r \in Runs, listed \in BOOLEAN : Request(f, r, listed)
                         \/ FetchFails(f) \/ Receive(f)
                         \/ Open(f) \/ Write(f) \/ FetchCrash(f)

FedSpec == FedInit /\ [][FedNext]_fedVars

----------------------------------------------------------------------------
\* list: a directory is a run there is, with or without its provenance.
Listed == {r \in Runs : provenance[r] # Missing \/ \E p \in Files : dir[r][p] # Missing}

\* GET /federated/runs leaves out those without a readable provenance.
Shown == {r \in Listed : HasProvenance(r)}

\* verify-bundle of a stored run: every file of the directory, provenance.json
\* with them, against the signed hash.
VerifyDir(r) ==
  IF (\A p \in Files : dir[r][p] = r) /\ provenance[r] = Missing
  THEN "valid" ELSE "hash_mismatch"

FedTypeOK ==
  /\ {private, public, pinned} \subseteq Peers \cup {NoKey}
  /\ peer \in [Peers -> {"start", "private", "public", "ready", "dead"}]
  /\ fpc \in [Fetchers -> {"idle", "fetch", "present", "stored", "cut", "dead"} \cup Storing \cup Rejected]
  /\ at \in [Fetchers -> 1..LastFile]
  /\ dir \in [Runs -> [Files -> Runs \cup {Missing, Cropped}]]
  /\ provenance \in [Runs -> {Missing, Cropped, Whole}]

\* A stored run that the server shows is complete and is the run its reference
\* names, byte for byte, except for the one file that an overlapping fetch of
\* the same reference is rewriting or was rewriting when it died; and a fetch of
\* it was stored in full whose bundle the pinned key had vouched for.
ProvenanceVouches ==
  \A r \in Shown :
    /\ \A p \in Files :
         \/ dir[r][p] = r
         \/ \E f \in Fetchers : want[f].ref = r /\ at[f] = p /\ fpc[f] \in {"write", "cut"}
    /\ \E f \in Fetchers : fpc[f] = "stored" /\ want[f].ref = r /\ got[f].by = pinned

KeySettled == private # NoKey /\ \A p \in Peers : peer[p] \notin {"private", "public"}

\* A private key that is there while nobody is generating one is the instance's
\* for good: no process, started again or anew, generates another, so what was
\* signed and the allowlists that pin it stay valid.
KeyStays == [][KeySettled => KeySettled' /\ UNCHANGED <<private, public>>]_fedVars

\* docs/federation.md: a stored foreign run re-checks with verify-bundle.
ForeignVerifies ==
  \A r \in Shown :
    (\A f \in Fetchers : want[f].ref = r => fpc[f] \notin {"write", "cut"})
      => VerifyDir(r) = "valid"
=============================================================================
