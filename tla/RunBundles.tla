------------------------------ MODULE RunBundles ------------------------------
(***************************************************************************)
(* Exports of the run of ResultStore into its bundle directory: by the     *)
(* process that ran it (run --export) and by others (export-run, the REST  *)
(* route), redacted or not, signed or not, over one another, with crashes. *)
(* A file is named by what it holds; its content is which answer it shows  *)
(* and whether that was redacted.                                          *)
(***************************************************************************)
EXTENDS ResultStore

CONSTANTS
  Exporters,  \* exports that may happen
  Own         \* the one of the process that ran the run

ASSUME BundleAssumption == Own \in Exporters

VARIABLES
  epc,     \* per export: "idle", "write", "sign", "done", "dead"
  option,  \* per export: redacted, keypair
  next,    \* per export: index of the file it writes next
  mine,    \* per export: contents, the map it signs
  bundle,  \* the directory
  signature  \* signature.json: "none", "torn" or "signed", and the contents it signs

exportVars == <<epc, option, next, mine, bundle, signature>>
bundleVars == <<storeVars, exportVars>>

Empty == [p \in {} |-> NoAnswer]
Unsigned == [kind |-> "none", of |-> Empty]
Plain(a) == [answer |-> a, text |-> "plain"]
Cut == [answer |-> NoAnswer, text |-> "torn"]

\* A file is created, or overwritten.
WithFile(files, path, content) ==
  [p \in DOMAIN files \cup {path} |-> IF p = path THEN content ELSE files[p]]

\* The files in the order they are written: head (manifest to decisions), per
\* result its channel file with its validation, and its raw text, final.md.
\* Results of one channel share their files.
FileList ==
  LET n == Len(Reported)
  IN [k \in 1..(2 * n + 2) |->
        IF k = 1 THEN <<"head", 0, 0>>
        ELSE IF k = 2 * n + 2 THEN <<"final", 0, 0>>
        ELSE LET i == k \div 2
             IN <<IF k = 2 * i THEN "channel" ELSE "raw", Reported[i].unit, i>>]

Path(f) == <<f[1], f[2]>>
AllPaths == LET list == FileList IN {Path(list[i]) : i \in DOMAIN list}

Content(f, redact) ==
  CASE f[1] = "channel" -> Plain([unit |-> f[2], depth |-> Reported[f[3]].depth])
    [] f[1] = "raw" -> LET raw == RawOf(Reported[f[3]])
                       IN [answer |-> raw,
                           text |-> IF redact /\ raw # NoAnswer THEN "redacted" ELSE "plain"]
    [] OTHER -> Plain(NoAnswer)

BundleInit ==
  /\ StoreInit
  /\ epc = [e \in Exporters |-> "idle"]
  /\ option = [e \in Exporters |-> [redacted |-> FALSE, keypair |-> FALSE]]
  /\ next = [e \in Exporters |-> 1]
  /\ mine = [e \in Exporters |-> Empty]
  /\ bundle = Empty /\ signature = Unsigned

\* The run's own export works on the result in memory, the others on getRun.
StartExport(e) ==
  /\ epc[e] = "idle"
  /\ IF e = Own THEN wpc = "saved" ELSE GetRun # Absent
  /\ \E r \in BOOLEAN, k \in BOOLEAN :
       option' = [option EXCEPT ![e] = IF e = Own THEN @ ELSE [redacted |-> r, keypair |-> k]]
  /\ epc' = [epc EXCEPT ![e] = "write"]
  /\ UNCHANGED <<storeVars, next, mine, bundle, signature>>

WriteFile(e) ==
  /\ epc[e] = "write" /\ next[e] <= Len(FileList)
  /\ LET f == FileList[next[e]]
         content == Content(f, option[e].redacted)
     IN /\ bundle' = WithFile(bundle, Path(f), content)
        /\ mine' = [mine EXCEPT ![e] = WithFile(@, Path(f), content)]
  /\ next' = [next EXCEPT ![e] = @ + 1]
  /\ UNCHANGED <<storeVars, epc, option, signature>>

Written(e) ==
  /\ epc[e] = "write" /\ next[e] > Len(FileList)
  /\ epc' = [epc EXCEPT ![e] = IF option[e].keypair THEN "sign" ELSE "done"]
  /\ UNCHANGED <<storeVars, option, next, mine, bundle, signature>>

\* signBundle signs the contents this export wrote, not the directory.
Sign(e) ==
  /\ epc[e] = "sign"
  /\ signature' = [kind |-> "signed", of |-> mine[e]]
  /\ epc' = [epc EXCEPT ![e] = "done"]
  /\ UNCHANGED <<storeVars, option, next, mine, bundle>>

\* The process that ran the run notes the bundle's path and saves again.
SaveAgain ==
  /\ wpc = "saved" /\ epc[Own] = "done"
  /\ wpc' = "again"
  /\ UNCHANGED <<settings, doc, saved, raws, answers, report, depth, done, exportVars>>

\* A crash may leave the file that was being written, or the signature, torn.
ExportCrash(e) ==
  /\ epc[e] \in {"write", "sign"}
  /\ epc' = [epc EXCEPT ![e] = "dead"]
  /\ \/ UNCHANGED <<bundle, signature>>
     \/ /\ epc[e] = "write" /\ next[e] <= Len(FileList)
        /\ bundle' = WithFile(bundle, Path(FileList[next[e]]), Cut)
        /\ signature' = signature
     \/ epc[e] = "sign" /\ signature' = [Unsigned EXCEPT !.kind = "torn"] /\ bundle' = bundle
  /\ UNCHANGED <<storeVars, option, next, mine>>

BundleNext ==
  \/ StoreNext /\ UNCHANGED exportVars
  \/ SaveAgain
  \/ \E e \in Exporters : StartExport(e) \/ WriteFile(e) \/ Written(e) \/ Sign(e) \/ ExportCrash(e)

BundleSpec == BundleInit /\ [][BundleNext]_bundleVars

----------------------------------------------------------------------------
\* Fault: the hash leaves the raw texts out.
BundleHash_NoRaw(files) == [p \in {q \in DOMAIN files : q[1] # "raw"} |-> files[p]]

\* bundleHash: every file but the signature and the reference file.
BundleHash(files) == files

\* verifyBundleDir: the hash of all files there are against the signed hash.
Verdict ==
  IF signature.kind = "none" THEN "no_signature"
  ELSE IF signature.kind = "torn" THEN "malformed"
  ELSE IF BundleHash(bundle) = BundleHash(signature.of) THEN "valid"
  ELSE "hash_mismatch"

BundleTypeOK ==
  /\ StoreTypeOK
  /\ epc \in [Exporters -> {"idle", "write", "sign", "done", "dead"}]
  /\ next \in [Exporters -> Nat]

\* A directory that verifies is a complete bundle of one kind: every file of
\* the run is there, whole, and the raw texts are all redacted or none is,
\* whatever exports were made into it, at the same time, one after the other or
\* cut short.  And a signed export that nobody else interferes with verifies,
\* also when results of several depths go to the same files.
VerifiedIsWhole ==
  /\ Verdict = "valid" =>
       /\ AllPaths \subseteq DOMAIN bundle
       /\ \A p \in DOMAIN bundle : bundle[p] # Cut
       /\ \A p, q \in DOMAIN bundle :
            bundle[p].text = "redacted" /\ q[1] = "raw" /\ bundle[q].answer # NoAnswer
              => bundle[q].text = "redacted"
  /\ \A e \in Exporters :
       /\ epc[e] = "done" /\ option[e].keypair
       /\ \A f \in Exporters \ {e} : epc[f] = "idle"
       => Verdict = "valid"
=============================================================================
