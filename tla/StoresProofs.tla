----------------------------- MODULE StoresProofs -----------------------------
(***************************************************************************)
(* Theorems about what a run leaves behind: its document and raw texts in  *)
(* a result store, the bundles exported from it, and what stored runs add  *)
(* up to and differ in.                                                    *)
(***************************************************************************)
EXTENDS RunBundles, Federation, SpecCache, RunDiff, SumTheorems, SequenceTheorems,
        FiniteSetTheorems, TLAPS

-----------------------------------------------------------------------------
(***************************************************************************)
(* The store.                                                              *)
(***************************************************************************)

\* What the document is, by where the process is that writes it.
DocBook ==
  /\ backend \in {"filesystem", "sqlite"}
  /\ wpc \in {"run", "save", "write", "saved", "again", "rewrite", "over", "dead", "dying"}
  /\ wpc \in {"run", "save"} => doc = Absent /\ saved = Absent
  /\ wpc = "write" => doc = Torn /\ saved = Absent /\ backend = "filesystem"
  /\ wpc \in {"saved", "again"} => doc = First /\ saved = First
  /\ wpc = "rewrite" => doc = Torn /\ saved = First /\ backend = "filesystem"
  /\ wpc = "over" => doc = Second /\ saved = Second
  /\ wpc = "dead" => doc = saved /\ doc \in {Absent, First}
  /\ wpc = "dying" => doc = Torn /\ backend = "filesystem"

\* The answers given under a key, and which its text must be: one of the newest.
Rivals(k) == {a \in answers : KeyOf[a.unit] = k}

HoldsNewest(k) ==
  IF Rivals(k) = {} THEN raws[k] = NoAnswer
  ELSE raws[k] \in Rivals(k) /\ \A a \in Rivals(k) : a.depth <= raws[k].depth

\* A result of this run with a reference is of an answer.
Answered(r) == r.ref /\ r.depth > 0 => [unit |-> r.unit, depth |-> r.depth] \in answers

\* Every key holds its newest answer, at any time, and every result has its own.
RawBook ==
  /\ raws \in [RawKeys -> [unit : Nat, depth : Nat]]
  /\ answers \subseteq [unit : Channels, depth : Nat \ {0}]
  /\ results \in Seq(Results) /\ synthesis \in Results \cup {NoResult}
  /\ done \in [Channels -> Running] /\ depth \in Nat \ {0}
  /\ \A a \in answers : a.depth <= depth
  /\ \A k \in RawKeys : HoldsNewest(k)
  /\ \A i \in DOMAIN results : Answered(results[i])
  /\ Answered(synthesis)
  /\ \A u \in Channels : done[u] = "ok" => [unit |-> u, depth |-> depth] \in answers

StoreInv == DocBook /\ RawBook

\* The empty run.
LEMMA StoreStarts ==
  ASSUME StoreInit
  PROVE  StoreInv
<1>1. DocBook
  BY StoreAssumption DEF StoreInit, DocBook, Absent
<1>2. PICK c \in Carried :
        /\ results = [i \in DOMAIN c |-> [unit |-> c[i], depth |-> 0, ref |-> TRUE]]
        /\ done = [u \in Channels |-> IF u \in {c[i] : i \in DOMAIN c} THEN "null" ELSE "none"]
  BY DEF StoreInit
<1>3. c \in Seq(Channels)
  BY StoreAssumption DEF Channels
<1>4. PICK n \in Nat : c \in [1..n -> Channels]
  BY <1>3
<1>5. DOMAIN c = 1..n /\ \A i \in 1..n : c[i] \in Channels
  BY <1>4
<1>6. results \in [1..n -> Results]
  BY <1>2, <1>5 DEF Results
<1>7. results \in Seq(Results)
  BY <1>6
<1>8. \A i \in DOMAIN results : results[i].depth = 0
  BY <1>2
<1>9. done \in [Channels -> Running] /\ \A u \in Channels : done[u] # "ok"
  BY <1>2 DEF Running
<1>10. /\ raws = [k \in RawKeys |-> NoAnswer] /\ answers = {} /\ synthesis = NoResult /\ depth = 1
  BY DEF StoreInit
<1>11. \A k : Rivals(k) = {}
  BY <1>10 DEF Rivals
<1>12. (\A k \in RawKeys : HoldsNewest(k)) /\ Answered(synthesis) /\ \A i \in DOMAIN results : Answered(results[i])
  <2>1. \A k \in RawKeys : HoldsNewest(k)
    BY <1>10, <1>11 DEF HoldsNewest
  <2>2. Answered(synthesis)
    BY <1>10 DEF Answered, NoResult
  <2>3. \A i \in DOMAIN results : Answered(results[i])
    BY <1>8 DEF Answered
  <2> QED BY <2>1, <2>2, <2>3
<1>13. raws \in [RawKeys -> [unit : Nat, depth : Nat]]
  BY <1>10 DEF NoAnswer
<1> QED BY <1>1, <1>7, <1>9, <1>10, <1>12, <1>13 DEF StoreInv, RawBook

\* Everything but an answer leaves texts and answers alone; what is left to see is
\* that the results it adds are of answers.
LEMMA RawsRest ==
  ASSUME RawBook, UNCHANGED <<raws, answers>>,
         results' \in Seq(Results), \A i \in DOMAIN results' : Answered(results'[i]),
         synthesis' \in Results \cup {NoResult}, Answered(synthesis'),
         done' \in [Channels -> Running], depth' \in Nat, depth <= depth',
         \A u \in Channels : done'[u] = "ok" => done[u] = "ok" /\ depth' = depth
  PROVE  RawBook'
<1>1. /\ \A k \in RawKeys : HoldsNewest(k)'
      /\ \A i \in DOMAIN results' : Answered(results[i])'
      /\ Answered(synthesis)'
  BY DEF RawBook, HoldsNewest, Rivals, Answered
<1>2. depth \in Nat \ {0} /\ answers \subseteq [unit : Channels, depth : Nat \ {0}]
  BY DEF RawBook
<1>3. depth' \in Nat \ {0} /\ \A a \in answers' : a.depth <= depth'
  <2> SUFFICES ASSUME NEW a \in answers PROVE depth' \in Nat \ {0} /\ a.depth <= depth'
    BY <1>2
  <2>1. a.depth \in Nat /\ a.depth <= depth
    BY <1>2 DEF RawBook
  <2> QED BY <1>2, <2>1
<1>4. \A u \in Channels : done'[u] = "ok" => [unit |-> u, depth |-> depth'] \in answers'
  BY DEF RawBook
<1> QED BY <1>1, <1>2, <1>3, <1>4 DEF RawBook, Channels, Results

\* A channel answers: its text replaces what its key held.
LEMMA AnswerKeeps ==
  ASSUME StoreInv, NEW u \in Channels, Answer(u)
  PROVE  StoreInv'
<1> DEFINE text == [unit |-> u, depth |-> depth]
<1>1. /\ wpc = "run" /\ done' = [done EXCEPT ![u] = "ok"]
      /\ raws' = [raws EXCEPT ![KeyOf[u]] = text] /\ answers' = answers \cup {text}
      /\ UNCHANGED <<backend, doc, saved, results, synthesis, depth, wpc>>
  BY DEF Answer, SaveRawOutput, MayRun, settings, report
<1>2. DocBook'
  BY <1>1 DEF StoreInv, DocBook
<1>3. /\ raws \in [RawKeys -> [unit : Nat, depth : Nat]] /\ done \in [Channels -> Running]
      /\ answers \subseteq [unit : Channels, depth : Nat \ {0}] /\ depth \in Nat \ {0}
  BY DEF StoreInv, RawBook
<1>4. /\ text \in [unit : Nat, depth : Nat] /\ text \in [unit : Channels, depth : Nat \ {0}]
      /\ text.unit = u /\ text.depth = depth /\ KeyOf[u] \in RawKeys
  BY <1>3, StoreAssumption DEF Channels
<1> HIDE DEF text
<1>5. /\ raws' \in [RawKeys -> [unit : Nat, depth : Nat]] /\ raws'[KeyOf[u]] = text
      /\ \A k \in RawKeys \ {KeyOf[u]} : raws'[k] = raws[k]
      /\ done' \in [Channels -> Running]
      /\ \A v \in Channels \ {u} : done'[v] = done[v]
  BY <1>1, <1>3, <1>4 DEF Running
<1>6. answers' \subseteq [unit : Channels, depth : Nat \ {0}] /\ \A a \in answers' : a.depth <= depth
  BY <1>1, <1>3, <1>4 DEF StoreInv, RawBook
<1>7. ASSUME NEW k \in RawKeys PROVE HoldsNewest(k)'
  <2>1. CASE k = KeyOf[u]
    <3>1. text \in Rivals(k)'
      BY <1>1, <1>4, <2>1 DEF Rivals
    <3>2. \A a \in Rivals(k)' : a.depth <= text.depth
      BY <1>4, <1>6 DEF Rivals
    <3> QED BY <1>5, <2>1, <3>1, <3>2 DEF HoldsNewest
  <2>2. CASE k # KeyOf[u]
    <3>1. Rivals(k)' = Rivals(k)
      BY <1>1, <1>4, <2>2 DEF Rivals
    <3> QED BY <1>5, <2>2, <3>1 DEF HoldsNewest, StoreInv, RawBook
  <2> QED BY <2>1, <2>2
<1>8. \A i \in DOMAIN results' : Answered(results[i])'
  BY <1>1 DEF StoreInv, RawBook, Answered
<1>9. Answered(synthesis)'
  BY <1>1 DEF StoreInv, RawBook, Answered
<1>10. \A v \in Channels : done'[v] = "ok" => [unit |-> v, depth |-> depth'] \in answers'
  <2> SUFFICES ASSUME NEW v \in Channels, done'[v] = "ok"
               PROVE  [unit |-> v, depth |-> depth] \in answers'
    BY <1>1
  <2> QED BY <1>1, <1>5 DEF StoreInv, RawBook, text
<1>11. RawBook'
  BY <1>1, <1>3, <1>5, <1>6, <1>7, <1>8, <1>9, <1>10 DEF StoreInv, RawBook, Channels, Results
<1> QED BY <1>2, <1>11 DEF StoreInv

\* A channel fails, or is kept from running, and leaves no text.
LEMMA ErrorKeeps ==
  ASSUME StoreInv, NEW u \in Channels, Error(u) \/ NotRun(u)
  PROVE  StoreInv'
<1>1. PICK end \in {"error", "null"} :
        /\ done' = [done EXCEPT ![u] = end]
        /\ UNCHANGED <<backend, doc, saved, raws, answers, results, synthesis, depth, wpc>>
  BY DEF Error, NotRun, settings, report
<1>2. DocBook'
  BY <1>1 DEF StoreInv, DocBook
<1>3. done \in [Channels -> Running] /\ depth \in Nat /\ RawBook
  BY DEF StoreInv, RawBook
<1>4. /\ done' \in [Channels -> Running] /\ done'[u] # "ok"
      /\ \A v \in Channels \ {u} : done'[v] = done[v]
  BY <1>1, <1>3 DEF Running
<1>5. RawBook'
  BY <1>1, <1>3, <1>4, RawsRest DEF RawBook
<1> QED BY <1>2, <1>5 DEF StoreInv

\* A result is added to the report, or takes the place of an earlier synthesis.
LEMMA RecordKeeps ==
  ASSUME StoreInv, NEW u \in Channels, Record(u)
  PROVE  StoreInv'
<1> DEFINE new == [unit |-> u, depth |-> depth, ref |-> done[u] = "ok"]
<1>1. /\ \/ synthesis' = new /\ results' = results
         \/ results' = Append(results, new) /\ synthesis' = synthesis
      /\ done' = [done EXCEPT ![u] = "recorded"]
      /\ UNCHANGED <<backend, doc, saved, raws, answers, depth, wpc>>
  BY DEF Record, settings
<1>2. DocBook'
  BY <1>1 DEF StoreInv, DocBook
<1>3. /\ done \in [Channels -> Running] /\ depth \in Nat /\ RawBook
      /\ results \in Seq(Results) /\ synthesis \in Results \cup {NoResult}
      /\ (\A i \in DOMAIN results : Answered(results[i])) /\ Answered(synthesis)
  BY DEF StoreInv, RawBook
<1>4. new \in Results /\ Answered(new)
  BY <1>3 DEF Results, Answered, RawBook
<1> HIDE DEF new
<1>5. /\ done' \in [Channels -> Running] /\ done'[u] # "ok"
      /\ \A v \in Channels \ {u} : done'[v] = done[v]
  BY <1>1, <1>3 DEF Running
<1>6. synthesis' \in Results \cup {NoResult} /\ Answered(synthesis')
  BY <1>1, <1>3, <1>4
<1>7. results' \in Seq(Results) /\ \A i \in DOMAIN results' : Answered(results'[i])
  <2>1. CASE results' = Append(results, new)
    <3>1. /\ results' \in Seq(Results) /\ DOMAIN results = 1..Len(results)
          /\ DOMAIN results' = 1..(Len(results) + 1) /\ Len(results) \in Nat
          /\ results'[Len(results) + 1] = new
          /\ \A i \in 1..Len(results) : results'[i] = results[i]
      BY <1>3, <1>4, <2>1, AppendProperties, LenProperties
    <3>2. \A i \in 1..(Len(results) + 1) : i \in 1..Len(results) \/ i = Len(results) + 1
      BY <3>1
    <3> QED BY <1>3, <1>4, <3>1, <3>2
  <2> QED BY <1>1, <1>3, <2>1
<1>8. RawBook'
  BY <1>1, <1>3, <1>5, <1>6, <1>7, RawsRest
<1> QED BY <1>2, <1>8 DEF StoreInv

\* The next depth begins with nothing answered in it.
LEMMA EndDepthKeeps ==
  ASSUME StoreInv, EndDepth
  PROVE  StoreInv'
<1>1. /\ wpc = "run" /\ wpc' \in {"run", "save"}
      /\ \A u \in Channels : done[u] # "ok"
      /\ \/ depth' = depth + 1 /\ done' = [u \in Channels |-> "none"]
         \/ depth' = depth /\ done' = done
      /\ UNCHANGED <<backend, doc, saved, raws, answers, results, synthesis>>
  BY DEF EndDepth, settings, report
<1>2. DocBook'
  BY <1>1 DEF StoreInv, DocBook
<1>3. done \in [Channels -> Running] /\ depth \in Nat /\ RawBook
  BY DEF StoreInv, RawBook
<1>4. /\ done' \in [Channels -> Running] /\ depth' \in Nat /\ depth <= depth'
      /\ \A u \in Channels : done'[u] # "ok"
  BY <1>1, <1>3 DEF Running
<1>5. RawBook'
  BY <1>1, <1>3, <1>4, RawsRest DEF RawBook
<1> QED BY <1>2, <1>5 DEF StoreInv

\* Writing, a second save and a crash touch the document only.
LEMMA WritesKeep ==
  ASSUME StoreInv, Truncate \/ WriteRun \/ Transaction \/ StoreCrash \/ SaveAgain
  PROVE  StoreInv'
<1>1. UNCHANGED <<backend, raws, answers, results, synthesis, depth, done>>
  BY DEF Truncate, WriteRun, Transaction, StoreCrash, SaveAgain, settings, report
<1>2. DocBook'
  BY <1>1 DEF StoreInv, DocBook, Truncate, WriteRun, Transaction, StoreCrash, SaveAgain, Saving, Version,
         Absent, Torn, First, Second
<1>3. done \in [Channels -> Running] /\ depth \in Nat /\ RawBook
  BY DEF StoreInv, RawBook
<1>4. RawBook'
  BY <1>1, <1>3, RawsRest DEF RawBook
<1> QED BY <1>2, <1>4 DEF StoreInv

-----------------------------------------------------------------------------
(***************************************************************************)
(* The exports.                                                            *)
(***************************************************************************)

\* Files of one kind of export: whole, and redacted throughout or not at all.
Alike(files, redact) ==
  \A p \in DOMAIN files :
    /\ files[p].text \in {"plain", "redacted"}
    /\ files[p].text = "redacted" => redact
    /\ redact /\ p[1] = "raw" /\ files[p].answer # NoAnswer => files[p].text = "redacted"

\* What an export holds in memory: the files it has written so far, all of them
\* once it signs.  It began when the run's results were final.
MemoryBook ==
  /\ DOMAIN epc = Exporters /\ epc = [e \in Exporters |-> epc[e]]
  /\ option \in [Exporters -> [redacted : BOOLEAN, keypair : BOOLEAN]]
  /\ next \in [Exporters -> Nat]
  /\ DOMAIN mine = Exporters /\ mine = [e \in Exporters |-> mine[e]]
  /\ \A e \in Exporters :
       /\ IF epc[e] = "idle" THEN mine[e] = Empty /\ next[e] = 1 ELSE wpc # "run"
       /\ Alike(mine[e], option[e].redacted)
       /\ \A i \in 1..(next[e] - 1) : i \in DOMAIN FileList => Path(FileList[i]) \in DOMAIN mine[e]
       /\ epc[e] = "sign" => AllPaths \subseteq DOMAIN mine[e]

\* What is signed is a whole export.
SignedBook ==
  /\ signature.kind \in {"none", "torn", "signed"}
  /\ signature.kind = "signed" =>
       /\ wpc # "run" /\ AllPaths \subseteq DOMAIN signature.of
       /\ \E r \in BOOLEAN : Alike(signature.of, r)

\* An export that is alone and lives finds in the directory what it wrote.
AloneBook ==
  \A e \in Exporters :
    epc[e] # "dead" /\ (\A f \in Exporters \ {e} : epc[f] = "idle") =>
      /\ bundle = mine[e]
      /\ epc[e] = "done" /\ option[e].keypair => signature = [kind |-> "signed", of |-> mine[e]]

BundleInv == StoreInv /\ MemoryBook /\ SignedBook /\ AloneBook

\* The results a reader goes through: those of the report.
LEMMA ReportedTyped ==
  ASSUME RawBook
  PROVE  /\ Reported \in Seq(Results)
         /\ \A i \in DOMAIN Reported : Reported[i] \in Results /\ Answered(Reported[i])
<1>1. results \in Seq(Results) /\ \A i \in DOMAIN results : results[i] \in Results /\ Answered(results[i])
  BY ElementOfSeq DEF RawBook
<1>2. CASE synthesis = NoResult
  BY <1>1, <1>2 DEF Reported
<1>3. CASE synthesis # NoResult
  <2>1. synthesis \in Results /\ Answered(synthesis) /\ Reported = Append(results, synthesis)
    BY <1>3 DEF Reported, RawBook
  <2>2. /\ Reported \in Seq(Results) /\ DOMAIN results = 1..Len(results) /\ Len(results) \in Nat
        /\ DOMAIN Reported = 1..(Len(results) + 1) /\ Reported[Len(results) + 1] = synthesis
        /\ \A i \in 1..Len(results) : Reported[i] = results[i]
    BY <1>1, <2>1, AppendProperties, LenProperties
  <2>3. \A i \in 1..(Len(results) + 1) : i \in 1..Len(results) \/ i = Len(results) + 1
    BY <2>2
  <2> QED BY <1>1, <2>1, <2>2, <2>3
<1> QED BY <1>2, <1>3

\* The list of files has an end.
LEMMA ListEnds ==
  ASSUME RawBook
  PROVE  /\ Len(FileList) \in Nat /\ DOMAIN FileList = 1..Len(FileList)
         /\ AllPaths = {Path(FileList[i]) : i \in 1..Len(FileList)}
<1> DEFINE n == Len(Reported)
           m == 2 * n + 2
           list == FileList
           Entries == {list[k] : k \in 1..m}
<1>1. n \in Nat /\ m \in Nat
  <2>1. Reported \in Seq(Results)
    BY ReportedTyped
  <2> HIDE DEF n
  <2>2. n \in Nat
    BY <2>1 DEF n
  <2> QED BY <2>2
<1>2. list = [k \in 1..m |-> list[k]]
  BY DEF FileList
<1> HIDE DEF list, m
<1>3. list \in [1..m -> Entries]
  BY <1>2
<1>4. list \in Seq(Entries) /\ Len(list) = m
  BY <1>1, <1>3
<1>5. Len(FileList) \in Nat /\ DOMAIN FileList = 1..Len(FileList)
  BY <1>1, <1>3, <1>4 DEF list
<1> QED BY <1>5 DEF AllPaths

\* What an export writes into a file.
LEMMA ContentAlike ==
  ASSUME NEW f, NEW redact \in BOOLEAN
  PROVE  /\ Content(f, redact).text \in {"plain", "redacted"}
         /\ Content(f, redact).text = "redacted" => redact
         /\ redact /\ f[1] = "raw" /\ Content(f, redact).answer # NoAnswer =>
              Content(f, redact).text = "redacted"
<1>1. CASE f[1] = "channel"
  BY <1>1 DEF Content, Plain
<1>2. CASE f[1] = "raw"
  BY <1>2 DEF Content, Plain, RawOf
<1>3. CASE f[1] \notin {"channel", "raw"}
  BY <1>3 DEF Content, Plain
<1> QED BY <1>1, <1>2, <1>3

\* Once no channel runs, the results and with them the list of files are final.
LEMMA ResultsFinal ==
  ASSUME BundleInv, StoreNext \/ SaveAgain
  PROVE  wpc # "run" => wpc' # "run" /\ Reported' = Reported
BY DEF StoreNext, SaveAgain, Answer, Error, NotRun, MayRun, Record, EndDepth, Truncate, WriteRun,
       Transaction, StoreCrash, Saving, report, Reported

\* The run's own steps leave the exports alone.
LEMMA StoreStepKeeps ==
  ASSUME BundleInv, StoreNext \/ SaveAgain, UNCHANGED exportVars
  PROVE  BundleInv'
<1>1. StoreInv'
  BY AnswerKeeps, ErrorKeeps, RecordKeeps, EndDepthKeeps, WritesKeep DEF BundleInv, StoreNext
<1>2. UNCHANGED <<epc, option, next, mine, bundle, signature>>
  BY DEF exportVars
<1>3. wpc # "run" => wpc' # "run" /\ FileList' = FileList /\ AllPaths' = AllPaths
  BY ResultsFinal DEF FileList, AllPaths, Path
<1>4. MemoryBook'
  <2> SUFFICES ASSUME NEW e \in Exporters
               PROVE  /\ IF epc[e] = "idle" THEN mine[e] = Empty /\ next[e] = 1 ELSE wpc' # "run"
                      /\ Alike(mine[e], option[e].redacted)
                      /\ \A i \in 1..(next[e] - 1) :
                           i \in DOMAIN FileList' => Path(FileList'[i]) \in DOMAIN mine[e]
                      /\ epc[e] = "sign" => AllPaths' \subseteq DOMAIN mine[e]
    BY <1>2 DEF BundleInv, MemoryBook, Alike, Path, NoAnswer, Empty
  <2>1. CASE epc[e] = "idle"
    BY <2>1 DEF BundleInv, MemoryBook
  <2>2. CASE epc[e] # "idle"
    BY <1>3, <2>2 DEF BundleInv, MemoryBook
  <2> QED BY <2>1, <2>2
<1>5. SignedBook'
  BY <1>2, <1>3 DEF BundleInv, SignedBook, Alike, NoAnswer
<1>6. AloneBook'
  BY <1>2 DEF BundleInv, AloneBook
<1> QED BY <1>1, <1>4, <1>5, <1>6 DEF BundleInv

\* While the run's own state rests, so do its invariant and the list of files.
LEMMA RunRests ==
  ASSUME StoreInv, UNCHANGED storeVars
  PROVE  /\ StoreInv' /\ UNCHANGED <<doc, raws, Reported, wpc>>
         /\ FileList' = FileList /\ AllPaths' = AllPaths
<1>1. UNCHANGED <<backend, doc, saved, raws, answers, results, synthesis, depth, done, wpc>>
  BY DEF storeVars, settings, report
<1>2. DocBook'
  BY <1>1 DEF StoreInv, DocBook
<1>3. RawBook'
  BY <1>1, RawsRest DEF StoreInv, RawBook
<1>4. FileList' = FileList /\ UNCHANGED Reported
  BY <1>1 DEF FileList, Reported
<1>5. AllPaths' = AllPaths
  BY <1>4 DEF AllPaths, Path
<1> QED BY <1>1, <1>2, <1>3, <1>4, <1>5 DEF StoreInv

\* An export begins when there is a result that will not change.
LEMMA StartExportKeeps ==
  ASSUME BundleInv, NEW e \in Exporters, StartExport(e)
  PROVE  BundleInv'
<1>1. /\ epc[e] = "idle" /\ epc' = [epc EXCEPT ![e] = "write"]
      /\ UNCHANGED <<storeVars, next, mine, bundle, signature>>
  BY DEF StartExport
<1>2. PICK v \in [redacted : BOOLEAN, keypair : BOOLEAN] : option' = [option EXCEPT ![e] = v]
  BY DEF StartExport, BundleInv, MemoryBook
<1>3. /\ StoreInv' /\ UNCHANGED <<doc, raws, Reported, wpc>> /\ FileList' = FileList /\ AllPaths' = AllPaths
  BY <1>1, RunRests DEF BundleInv
<1>4. wpc # "run"
  BY DEF StartExport, GetRun, BundleInv, StoreInv, DocBook, Absent, Torn
<1>5. /\ DOMAIN epc' = Exporters /\ epc'[e] = "write"
      /\ \A f \in Exporters \ {e} : epc'[f] = epc[f]
      /\ epc' = [f \in Exporters |-> epc'[f]]
      /\ option' \in [Exporters -> [redacted : BOOLEAN, keypair : BOOLEAN]]
      /\ \A f \in Exporters \ {e} : option'[f] = option[f]
  BY <1>1, <1>2 DEF BundleInv, MemoryBook
<1>6. mine[e] = Empty /\ next[e] = 1
  BY <1>1 DEF BundleInv, MemoryBook
<1>7. MemoryBook'
  <2> SUFFICES ASSUME NEW f \in Exporters
               PROVE  /\ IF epc'[f] = "idle" THEN mine[f] = Empty /\ next[f] = 1 ELSE wpc # "run"
                      /\ Alike(mine[f], option'[f].redacted)
                      /\ \A i \in 1..(next[f] - 1) :
                           i \in DOMAIN FileList => Path(FileList[i]) \in DOMAIN mine[f]
                      /\ epc'[f] = "sign" => AllPaths \subseteq DOMAIN mine[f]
    BY <1>1, <1>3, <1>5 DEF BundleInv, MemoryBook, Alike, Path, NoAnswer, Empty
  <2>1. CASE f = e
    <3>1. Alike(mine[f], option'[f].redacted)
      BY <1>6, <2>1 DEF Alike, Empty
    <3> QED BY <1>4, <1>5, <1>6, <2>1, <3>1
  <2>2. CASE f # e
    BY <1>5, <2>2 DEF BundleInv, MemoryBook
  <2> QED BY <2>1, <2>2
<1>8. SignedBook'
  BY <1>1, <1>3 DEF BundleInv, SignedBook, Alike, NoAnswer
<1>9. AloneBook'
  <2> SUFFICES ASSUME NEW f \in Exporters, epc'[f] # "dead",
                      \A g \in Exporters \ {f} : epc'[g] = "idle"
               PROVE  bundle = mine[f] /\ epc'[f] # "done"
    BY <1>1 DEF AloneBook
  <2>1. f = e
    BY <1>5
  <2> QED BY <1>1, <1>5, <2>1 DEF BundleInv, AloneBook
<1> QED BY <1>3, <1>7, <1>8, <1>9 DEF BundleInv

\* One file goes into the directory and, with the same content, into memory.
LEMMA WriteFileKeeps ==
  ASSUME BundleInv, NEW e \in Exporters, WriteFile(e)
  PROVE  BundleInv'
<1> DEFINE f == FileList[next[e]]
           text == Content(f, option[e].redacted)
<1>1. /\ epc[e] = "write" /\ next[e] <= Len(FileList)
      /\ bundle' = WithFile(bundle, Path(f), text) /\ mine' = [mine EXCEPT ![e] = WithFile(@, Path(f), text)]
      /\ next' = [next EXCEPT ![e] = @ + 1]
      /\ UNCHANGED <<storeVars, epc, option, signature>>
  BY DEF WriteFile
<1>2. /\ StoreInv' /\ UNCHANGED <<doc, raws, Reported, wpc>> /\ FileList' = FileList /\ AllPaths' = AllPaths
  BY <1>1, RunRests DEF BundleInv
<1>3. /\ next' \in [Exporters -> Nat] /\ next'[e] = next[e] + 1 /\ next[e] \in Nat
      /\ DOMAIN mine' = Exporters /\ mine' = [g \in Exporters |-> mine'[g]]
      /\ mine'[e] = WithFile(mine[e], Path(f), text)
      /\ \A g \in Exporters \ {e} : mine'[g] = mine[g] /\ next'[g] = next[g]
  <2> HIDE DEF text, f
  <2> QED BY <1>1 DEF BundleInv, MemoryBook
<1>4. /\ DOMAIN mine'[e] = {Path(f)} \cup DOMAIN mine[e]
      /\ \A p \in DOMAIN mine'[e] : mine'[e][p] = IF p = Path(f) THEN text ELSE mine[e][p]
  <2> HIDE DEF text, f
  <2> QED BY <1>3 DEF WithFile
<1>5. option[e].redacted \in BOOLEAN
  BY DEF BundleInv, MemoryBook
<1>6. Alike(mine'[e], option[e].redacted)
  <2>1. Alike(mine[e], option[e].redacted)
    BY DEF BundleInv, MemoryBook
  <2>2. /\ text.text \in {"plain", "redacted"}
        /\ text.text = "redacted" => option[e].redacted
        /\ option[e].redacted /\ f[1] = "raw" /\ text.answer # NoAnswer => text.text = "redacted"
    BY <1>5, ContentAlike
  <2>3. Path(f)[1] = f[1]
    BY DEF Path
  <2> HIDE DEF text, f
  <2> QED BY <1>4, <2>1, <2>2, <2>3 DEF Alike
<1> HIDE DEF text
<1>7. MemoryBook'
  <2> SUFFICES ASSUME NEW g \in Exporters
               PROVE  /\ IF epc[g] = "idle" THEN mine'[g] = Empty /\ next'[g] = 1 ELSE wpc # "run"
                      /\ Alike(mine'[g], option[g].redacted)
                      /\ \A i \in 1..(next'[g] - 1) :
                           i \in DOMAIN FileList => Path(FileList[i]) \in DOMAIN mine'[g]
                      /\ epc[g] = "sign" => AllPaths \subseteq DOMAIN mine'[g]
    <3>1. UNCHANGED <<epc, option>>
      BY <1>1
    <3>2. /\ DOMAIN epc = Exporters /\ epc = [g \in Exporters |-> epc[g]]
          /\ option \in [Exporters -> [redacted : BOOLEAN, keypair : BOOLEAN]]
      BY DEF BundleInv, MemoryBook
    <3> QED BY <1>2, <1>3, <3>1, <3>2 DEF MemoryBook, Alike, Path, NoAnswer, Empty
  <2>1. CASE g = e
    <3>1. \A i \in 1..(next'[e] - 1) : i \in 1..(next[e] - 1) \/ i = next[e]
      BY <1>3
    <3>2. \A i \in 1..(next[e] - 1) : i \in DOMAIN FileList => Path(FileList[i]) \in DOMAIN mine[e]
      BY DEF BundleInv, MemoryBook
    <3>3. \A i \in 1..(next'[e] - 1) : i \in DOMAIN FileList => Path(FileList[i]) \in DOMAIN mine'[e]
      BY <1>4, <3>1, <3>2
    <3>4. wpc # "run"
      BY <1>1 DEF BundleInv, MemoryBook
    <3> QED BY <1>1, <1>6, <2>1, <3>3, <3>4
  <2>2. CASE g # e
    BY <1>3, <2>2 DEF BundleInv, MemoryBook
  <2> QED BY <2>1, <2>2
<1>8. SignedBook'
  BY <1>1, <1>2 DEF BundleInv, SignedBook, Alike, NoAnswer
<1>9. AloneBook'
  <2> SUFFICES ASSUME NEW g \in Exporters, epc[g] # "dead",
                      \A h \in Exporters \ {g} : epc[h] = "idle"
               PROVE  bundle' = mine'[g] /\ epc[g] # "done"
    BY <1>1 DEF AloneBook
  <2>1. g = e
    BY <1>1
  <2>2. bundle = mine[e]
    BY <1>1, <2>1 DEF BundleInv, AloneBook
  <2> QED BY <1>1, <1>3, <2>1, <2>2
<1> QED BY <1>2, <1>7, <1>8, <1>9 DEF BundleInv

\* All files are written.
LEMMA WrittenKeeps ==
  ASSUME BundleInv, NEW e \in Exporters, Written(e)
  PROVE  BundleInv'
<1>1. /\ epc[e] = "write" /\ next[e] > Len(FileList)
      /\ epc' = [epc EXCEPT ![e] = IF option[e].keypair THEN "sign" ELSE "done"]
      /\ UNCHANGED <<storeVars, option, next, mine, bundle, signature>>
  BY DEF Written
<1>2. /\ StoreInv' /\ UNCHANGED <<doc, raws, Reported, wpc>> /\ FileList' = FileList /\ AllPaths' = AllPaths
  BY <1>1, RunRests DEF BundleInv
<1>3. /\ DOMAIN epc' = Exporters /\ epc' = [f \in Exporters |-> epc'[f]]
      /\ epc'[e] = IF option[e].keypair THEN "sign" ELSE "done"
      /\ \A f \in Exporters \ {e} : epc'[f] = epc[f]
  BY <1>1 DEF BundleInv, MemoryBook
<1>4. AllPaths \subseteq DOMAIN mine[e] /\ wpc # "run"
  <2>1. \A i \in 1..(next[e] - 1) : i \in DOMAIN FileList => Path(FileList[i]) \in DOMAIN mine[e]
    BY DEF BundleInv, MemoryBook
  <2>2. /\ Len(FileList) \in Nat /\ DOMAIN FileList = 1..Len(FileList) /\ next[e] \in Nat
        /\ AllPaths = {Path(FileList[i]) : i \in 1..Len(FileList)}
    BY ListEnds DEF BundleInv, StoreInv, MemoryBook
  <2>3. \A i \in 1..Len(FileList) : i \in 1..(next[e] - 1)
    BY <1>1, <2>2
  <2> QED BY <1>1, <2>1, <2>2, <2>3 DEF BundleInv, MemoryBook
<1>5. MemoryBook'
  <2> SUFFICES ASSUME NEW g \in Exporters
               PROVE  /\ IF epc'[g] = "idle" THEN mine[g] = Empty /\ next[g] = 1 ELSE wpc # "run"
                      /\ Alike(mine[g], option[g].redacted)
                      /\ \A i \in 1..(next[g] - 1) :
                           i \in DOMAIN FileList => Path(FileList[i]) \in DOMAIN mine[g]
                      /\ epc'[g] = "sign" => AllPaths \subseteq DOMAIN mine[g]
    BY <1>1, <1>2, <1>3 DEF BundleInv, MemoryBook, Alike, Path, NoAnswer, Empty
  <2>1. CASE g = e
    BY <1>3, <1>4, <2>1 DEF BundleInv, MemoryBook
  <2>2. CASE g # e
    BY <1>3, <2>2 DEF BundleInv, MemoryBook
  <2> QED BY <2>1, <2>2
<1>6. SignedBook'
  BY <1>1, <1>2 DEF BundleInv, SignedBook, Alike, NoAnswer
<1>7. AloneBook'
  <2> SUFFICES ASSUME NEW g \in Exporters, epc'[g] # "dead",
                      \A h \in Exporters \ {g} : epc'[h] = "idle"
               PROVE  bundle = mine[g] /\ ~(epc'[g] = "done" /\ option[g].keypair)
    BY <1>1 DEF AloneBook
  <2>1. g = e
    BY <1>3
  <2>2. bundle = mine[e]
    BY <1>1, <1>3, <2>1 DEF BundleInv, AloneBook
  <2> QED BY <1>3, <2>1, <2>2
<1> QED BY <1>2, <1>5, <1>6, <1>7 DEF BundleInv

\* What is signed is what this export wrote.
LEMMA SignKeeps ==
  ASSUME BundleInv, NEW e \in Exporters, Sign(e)
  PROVE  BundleInv'
<1>1. /\ epc[e] = "sign" /\ epc' = [epc EXCEPT ![e] = "done"]
      /\ signature' = [kind |-> "signed", of |-> mine[e]]
      /\ UNCHANGED <<storeVars, option, next, mine, bundle>>
  BY DEF Sign
<1>2. /\ StoreInv' /\ UNCHANGED <<doc, raws, Reported, wpc>> /\ FileList' = FileList /\ AllPaths' = AllPaths
  BY <1>1, RunRests DEF BundleInv
<1>3. /\ DOMAIN epc' = Exporters /\ epc' = [f \in Exporters |-> epc'[f]] /\ epc'[e] = "done"
      /\ \A f \in Exporters \ {e} : epc'[f] = epc[f]
  BY <1>1 DEF BundleInv, MemoryBook
<1>4. /\ AllPaths \subseteq DOMAIN mine[e] /\ wpc # "run"
      /\ Alike(mine[e], option[e].redacted) /\ option[e].redacted \in BOOLEAN
  BY <1>1 DEF BundleInv, MemoryBook
<1>5. MemoryBook'
  BY <1>1, <1>2, <1>3, <1>4 DEF BundleInv, MemoryBook, Alike, Path, NoAnswer, Empty
<1>6. SignedBook'
  <2>1. Alike(signature'.of, option[e].redacted)
    BY <1>1, <1>4
  <2> QED BY <1>1, <1>2, <1>4, <2>1 DEF SignedBook, Alike, NoAnswer
<1>7. AloneBook'
  <2> SUFFICES ASSUME NEW g \in Exporters, epc'[g] # "dead",
                      \A h \in Exporters \ {g} : epc'[h] = "idle"
               PROVE  bundle = mine[g] /\ signature' = [kind |-> "signed", of |-> mine[g]]
    BY <1>1 DEF AloneBook
  <2>1. g = e
    BY <1>3
  <2> QED BY <1>1, <1>3, <2>1 DEF BundleInv, AloneBook
<1> QED BY <1>2, <1>5, <1>6, <1>7 DEF BundleInv

\* A dead export vouches for nothing.
LEMMA ExportCrashKeeps ==
  ASSUME BundleInv, NEW e \in Exporters, ExportCrash(e)
  PROVE  BundleInv'
<1>1. /\ epc[e] \in {"write", "sign"} /\ epc' = [epc EXCEPT ![e] = "dead"]
      /\ signature' = signature \/ signature' = [Unsigned EXCEPT !.kind = "torn"]
      /\ UNCHANGED <<storeVars, option, next, mine>>
  BY DEF ExportCrash
<1>2. /\ StoreInv' /\ UNCHANGED <<doc, raws, Reported, wpc>> /\ FileList' = FileList /\ AllPaths' = AllPaths
  BY <1>1, RunRests DEF BundleInv
<1>3. /\ DOMAIN epc' = Exporters /\ epc' = [f \in Exporters |-> epc'[f]] /\ epc'[e] = "dead"
      /\ \A f \in Exporters \ {e} : epc'[f] = epc[f]
  BY <1>1 DEF BundleInv, MemoryBook
<1>4. MemoryBook'
  BY <1>1, <1>2, <1>3 DEF BundleInv, MemoryBook, Alike, Path, NoAnswer, Empty
<1>5. SignedBook'
  BY <1>1, <1>2 DEF BundleInv, SignedBook, Alike, NoAnswer, Unsigned
<1>6. AloneBook'
  <2>1. ASSUME NEW g \in Exporters, epc'[g] # "dead" PROVE ~\A h \in Exporters \ {g} : epc'[h] = "idle"
    BY <1>3, <2>1
  <2> QED BY <2>1 DEF AloneBook
<1> QED BY <1>2, <1>4, <1>5, <1>6 DEF BundleInv

\* The invariant of a run, its store and its exports.
THEOREM BundlesInvariant == BundleSpec => []BundleInv
<1>1. BundleInit => BundleInv
  <2> SUFFICES ASSUME BundleInit PROVE BundleInv
    OBVIOUS
  <2>1. StoreInv
    BY StoreStarts DEF BundleInit
  <2>3. MemoryBook
    <3>1. \A e \in Exporters : epc[e] = "idle" /\ mine[e] = Empty /\ next[e] = 1
      BY DEF BundleInit
    <3>2. \A r : Alike(Empty, r)
      BY DEF Alike, Empty
    <3>3. /\ DOMAIN epc = Exporters /\ epc = [e \in Exporters |-> epc[e]]
          /\ option \in [Exporters -> [redacted : BOOLEAN, keypair : BOOLEAN]]
          /\ next \in [Exporters -> Nat]
          /\ DOMAIN mine = Exporters /\ mine = [e \in Exporters |-> mine[e]]
      BY DEF BundleInit
    <3> QED BY <3>1, <3>2, <3>3 DEF MemoryBook
  <2>4. SignedBook /\ AloneBook
    BY DEF BundleInit, SignedBook, AloneBook, Unsigned
  <2> QED BY <2>1, <2>3, <2>4 DEF BundleInv
<1>2. BundleInv /\ [BundleNext]_bundleVars => BundleInv'
  <2> SUFFICES ASSUME BundleInv, [BundleNext]_bundleVars PROVE BundleInv'
    OBVIOUS
  <2>1. CASE StoreNext /\ UNCHANGED exportVars
    BY <2>1, StoreStepKeeps
  <2>2. CASE SaveAgain
    <3>1. UNCHANGED exportVars
      BY <2>2 DEF SaveAgain, exportVars
    <3> QED BY <2>2, <3>1, StoreStepKeeps
  <2>3. CASE \E e \in Exporters : StartExport(e) \/ WriteFile(e) \/ Written(e) \/ Sign(e) \/ ExportCrash(e)
    BY <2>3, StartExportKeeps, WriteFileKeeps, WrittenKeeps, SignKeeps, ExportCrashKeeps
  <2>4. CASE UNCHANGED bundleVars
    <3>1. UNCHANGED storeVars /\ UNCHANGED <<epc, option, next, mine, bundle, signature>>
      BY <2>4 DEF bundleVars, exportVars
    <3>2. StoreInv' /\ UNCHANGED <<doc, raws, Reported, wpc>> /\ FileList' = FileList /\ AllPaths' = AllPaths
      BY <3>1, RunRests DEF BundleInv
    <3>3. MemoryBook'
      BY <3>1, <3>2 DEF BundleInv, MemoryBook, Alike, Path, NoAnswer, Empty
    <3>4. SignedBook' /\ AloneBook'
      BY <3>1, <3>2 DEF BundleInv, SignedBook, AloneBook, Alike, NoAnswer
    <3> QED BY <3>2, <3>3, <3>4 DEF BundleInv
  <2> QED BY <2>1, <2>2, <2>3, <2>4 DEF BundleNext
<1> QED BY <1>1, <1>2, PTL DEF BundleSpec

\* A reader of the store gets the version saved last, except while the filesystem
\* store overwrites it, and behind each reference the newest answer under its key.
THEOREM ReadersSeeNewest == BundleSpec => []ReadsNewest
<1>1. BundleInv => ReadsNewest
  <2> SUFFICES ASSUME BundleInv PROVE ReadsNewest
    OBVIOUS
  <2>1. \/ GetRun = saved
        \/ backend = "filesystem" /\ GetRun = Absent /\ wpc \in {"rewrite", "dying"}
    BY DEF BundleInv, StoreInv, DocBook, GetRun, Absent, Torn, First, Second
  <2>2. ASSUME NEW i \in DOMAIN Reported, Reported[i].ref
        PROVE  LET result == Reported[i]
                   rivals == {a \in answers : KeyOf[a.unit] = KeyOf[result.unit]}
               IN /\ result.depth > 0 => [unit |-> result.unit, depth |-> result.depth] \in rivals
                  /\ IF rivals = {} THEN RawOf(result) = NoAnswer
                     ELSE /\ RawOf(result) \in rivals
                          /\ \A a \in rivals : a.depth <= RawOf(result).depth
    <3> DEFINE key == KeyOf[Reported[i].unit]
    <3>1. Reported[i] \in Results /\ Answered(Reported[i])
      BY ReportedTyped DEF BundleInv, StoreInv
    <3>2. key \in RawKeys
      BY <3>1, StoreAssumption DEF Channels, Results
    <3>3. HoldsNewest(key) /\ RawOf(Reported[i]) = raws[key]
      BY <2>2, <3>2 DEF RawOf, BundleInv, StoreInv, RawBook
    <3>4. Rivals(key) = {a \in answers : KeyOf[a.unit] = KeyOf[Reported[i].unit]}
      BY DEF Rivals
    <3>5. Reported[i].depth > 0 =>
            [unit |-> Reported[i].unit, depth |-> Reported[i].depth] \in Rivals(key)
      BY <2>2, <3>1 DEF Answered, Rivals
    <3> QED BY <3>3, <3>4, <3>5 DEF HoldsNewest
  <2> QED BY <2>1, <2>2 DEF ReadsNewest
<1> QED BY <1>1, BundlesInvariant, PTL

\* A directory that verifies is a whole bundle of one kind, and a signed export
\* that was alone verifies.
THEOREM VerifiedBundlesAreWhole == BundleSpec => []VerifiedIsWhole
<1>1. BundleInv => VerifiedIsWhole
  <2> SUFFICES ASSUME BundleInv PROVE VerifiedIsWhole
    OBVIOUS
  <2>1. Verdict = "valid" <=> signature.kind = "signed" /\ bundle = signature.of
    <3>1. CASE signature.kind = "none"
      BY <3>1 DEF Verdict
    <3>2. CASE signature.kind = "torn"
      BY <3>2 DEF Verdict
    <3>3. CASE signature.kind = "signed"
      BY <3>3 DEF Verdict, BundleHash
    <3> QED BY <3>1, <3>2, <3>3 DEF BundleInv, SignedBook
  <2>2. ASSUME Verdict = "valid"
        PROVE  /\ AllPaths \subseteq DOMAIN bundle
               /\ \A p \in DOMAIN bundle : bundle[p] # Cut
               /\ \A p, q \in DOMAIN bundle :
                    bundle[p].text = "redacted" /\ q[1] = "raw" /\ bundle[q].answer # NoAnswer
                      => bundle[q].text = "redacted"
    <3>1. PICK r \in BOOLEAN : Alike(bundle, r)
      BY <2>1, <2>2 DEF BundleInv, SignedBook
    <3>2. Cut.text = "torn"
      BY DEF Cut
    <3> QED BY <2>1, <2>2, <3>1, <3>2 DEF BundleInv, SignedBook, Alike
  <2>3. ASSUME NEW e \in Exporters, epc[e] = "done", option[e].keypair,
               \A f \in Exporters \ {e} : epc[f] = "idle"
        PROVE  Verdict = "valid"
    BY <2>1, <2>3 DEF BundleInv, AloneBook
  <2> QED BY <2>2, <2>3 DEF VerifiedIsWhole
<1> QED BY <1>1, BundlesInvariant, PTL

-----------------------------------------------------------------------------
(***************************************************************************)
(* What leaves an instance and what comes in, proved for every number of   *)
(* processes, fetches, runs and files: the instance's key, a foreign run   *)
(* that is stored, a reference that is resolved.                           *)
(***************************************************************************)

\* The number of files of a bundle.
LEMMA FilesCounted ==
  /\ LastFile \in Nat /\ LastFile >= 1
  /\ Files = 1..(LastFile - 1)
<1>1. Cardinality(Files) \in Nat
  BY FederationAssumption, FS_CardinalityType
<1> QED BY <1>1, FederationAssumption DEF LastFile

-----------------------------------------------------------------------------
\* A key that is there while nobody generates one stays: one step.
LEMMA KeyStep ==
  ASSUME peer \in [Peers -> {"start", "private", "public", "ready", "dead"}],
         KeySettled, [FedNext]_fedVars
  PROVE  KeySettled' /\ UNCHANGED <<private, public>>
<1>1. ASSUME NEW p \in Peers, Ensure(p) \/ PeerCrash(p) \/ PeerRestart(p)
      PROVE  KeySettled' /\ UNCHANGED <<private, public>>
  BY <1>1 DEF KeySettled, Ensure, PeerCrash, PeerRestart
<1>2. ASSUME NEW p \in Peers, WritePrivate(p) \/ WritePublic(p) PROVE FALSE
  BY <1>2 DEF KeySettled, WritePrivate, WritePublic
<1>3. ASSUME UNCHANGED keyVars PROVE KeySettled' /\ UNCHANGED <<private, public>>
  BY <1>3 DEF KeySettled, keyVars
<1>4. CASE Pin \/ UNCHANGED fedVars
  BY <1>3, <1>4 DEF Pin, fedVars, keyVars
<1>5. ASSUME NEW f \in Fetchers, NEW r \in Runs, NEW listed \in BOOLEAN, Request(f, r, listed)
      PROVE  UNCHANGED keyVars
  BY <1>5 DEF Request
<1>6. ASSUME NEW f \in Fetchers, FetchFails(f) \/ Receive(f) \/ Open(f) \/ Write(f) \/ FetchCrash(f)
      PROVE  UNCHANGED keyVars
  BY <1>6 DEF FetchFails, Receive, Open, Write, FetchCrash
<1> QED BY <1>1, <1>2, <1>3, <1>4, <1>5, <1>6 DEF FedNext

\* The instance's key is for good once no generation is under way.
THEOREM KeyIsForGood == FedSpec => KeyStays
<1> DEFINE PeersTyped == peer \in [Peers -> {"start", "private", "public", "ready", "dead"}]
<1>1. FedInit => PeersTyped
  BY DEF FedInit
<1>2. PeersTyped /\ [FedNext]_fedVars => PeersTyped'
  <2> SUFFICES ASSUME PeersTyped, [FedNext]_fedVars PROVE PeersTyped'
    OBVIOUS
  <2>1. ASSUME NEW p \in Peers,
               Ensure(p) \/ WritePrivate(p) \/ WritePublic(p) \/ PeerCrash(p) \/ PeerRestart(p)
        PROVE  PeersTyped'
    BY <2>1 DEF Ensure, WritePrivate, WritePublic, PeerCrash, PeerRestart
  <2>2. CASE UNCHANGED peer
    BY <2>2
  <2> QED BY <2>1, <2>2 DEF FedNext, Pin, Request, FetchFails, Receive, Open, Write, FetchCrash, keyVars, fedVars
<1>3. PeersTyped /\ [FedNext]_fedVars =>
        [KeySettled => KeySettled' /\ UNCHANGED <<private, public>>]_fedVars
  BY KeyStep
<1> QED BY <1>1, <1>2, <1>3, PTL DEF FedSpec, KeyStays

-----------------------------------------------------------------------------
\* A fetch whose bundle was accepted.
Accepted(f) == fpc[f] \in {"open", "write", "stored", "cut", "dead"}

\* A file of a stored run is the run's own, or the one that a fetch of it holds open.
Sound(r, p) ==
  \/ dir[r][p] = r
  \/ \E f \in Fetchers : want[f].ref = r /\ at[f] = p /\ fpc[f] \in {"write", "cut"}

FetchTypes ==
  /\ fpc \in [Fetchers -> {"idle", "fetch", "present", "stored", "cut", "dead"} \cup Storing \cup Rejected]
  /\ at \in [Fetchers -> 1..LastFile]
  /\ DOMAIN want = Fetchers /\ DOMAIN got = Fetchers
  /\ dir \in [Runs -> [Files -> Runs \cup {Missing, Cropped}]]
  /\ provenance \in [Runs -> {Missing, Cropped, Whole}]

\* A fetch goes on with the pinned key alone, stores the run it asked for, has
\* stored what comes before the file it is at, and is over at the last; and a
\* run with its provenance was stored by a fetch that is over.
Vouching ==
  /\ \A f \in Fetchers :
       /\ fpc[f] \notin {"idle", "untrusted_instance"} => pinned # NoKey /\ want[f].ref \in Runs
       /\ fpc[f] \in {"idle", "fetch"} => at[f] = 1
       /\ fpc[f] = "stored" => at[f] = LastFile
       /\ Accepted(f) => /\ got[f].run = want[f].ref /\ got[f].by = pinned
                         /\ \A p \in Files : p < at[f] => Sound(want[f].ref, p)
  /\ \A r \in Runs : provenance[r] = Whole => \E f \in Fetchers : fpc[f] = "stored" /\ want[f].ref = r

FedInv == FetchTypes /\ Vouching

\* What the server accepts is the run it asked for, signed with the pinned key.
LEMMA VerdictOpen ==
  ASSUME NEW b, NEW r, FetchVerdict(b, r) = "open"
  PROVE  b.run = r /\ b.by = pinned
<1>1. b.signed /\ VerifyBundle(b) = "valid" /\ b.run = r
  BY DEF FetchVerdict, VerifyBundle
<1> QED BY <1>1 DEF VerifyBundle

\* Whatever the server sends gets one of these verdicts.
LEMMA VerdictTyped ==
  ASSUME NEW b, NEW r
  PROVE  FetchVerdict(b, r) \in {"no_signature", "signature_invalid", "key_mismatch", "open"}
BY DEF FetchVerdict, VerifyBundle

\* A fetch that goes on without touching a file.
LEMMA FetchMoves ==
  ASSUME FedInv, NEW f \in Fetchers, NEW place \in {"fetch", "present", "cut", "dead"} \cup {"open"} \cup Rejected,
         fpc' = [fpc EXCEPT ![f] = place],
         UNCHANGED <<pinned, at, dir, provenance>>,
         DOMAIN want' = Fetchers /\ DOMAIN got' = Fetchers,
         \A g \in Fetchers \ {f} : want'[g] = want[g] /\ got'[g] = got[g],
         fpc[f] \notin {"stored", "cut"}, place = "cut" <=> fpc[f] = "write",
         fpc[f] # "idle" => want'[f] = want[f],
         fpc[f] \in Storing => got'[f] = got[f],
         place # "untrusted_instance" => pinned # NoKey /\ want'[f].ref \in Runs,
         place = "fetch" => fpc[f] = "idle",
         place \in {"open", "dead"} => fpc[f] \in {"fetch", "open"},
         place = "open" => fpc[f] = "fetch" /\ got'[f].run = want[f].ref /\ got'[f].by = pinned,
         place = "dead" => fpc[f] = "open"
  PROVE  FedInv'
<1>1. /\ fpc' \in [Fetchers -> {"idle", "fetch", "present", "stored", "cut", "dead"} \cup Storing \cup Rejected]
      /\ fpc'[f] = place /\ \A g \in Fetchers \ {f} : fpc'[g] = fpc[g]
  BY DEF FedInv, FetchTypes, Storing
<1>2. FetchTypes'
  BY <1>1 DEF FedInv, FetchTypes
<1>3. fpc[f] \in {"write", "cut"} => fpc[f] = "write" /\ place = "cut"
  OBVIOUS
<1>4. ASSUME NEW r, NEW p, Sound(r, p) PROVE Sound(r, p)'
  BY <1>1, <1>3, <1>4 DEF Sound
<1>5. Accepted(f)' => /\ got'[f].run = want'[f].ref /\ got'[f].by = pinned'
                      /\ \A p \in Files : p < at'[f] => Sound(want[f].ref, p)
  <2>1. CASE place = "open"
    BY <1>1, <2>1, FilesCounted DEF FedInv, Vouching, Storing
  <2>2. CASE place \in {"cut", "dead"}
    BY <1>1, <2>2 DEF FedInv, Vouching, Accepted, Storing
  <2> QED BY <1>1, <2>1, <2>2 DEF Accepted, Rejected
<1>6. ASSUME NEW g \in Fetchers, Accepted(g)'
      PROVE  /\ got'[g].run = want'[g].ref /\ got'[g].by = pinned'
             /\ \A p \in Files : p < at'[g] => Sound(want[g].ref, p)'
  <2>1. CASE g = f
    <3>1. want'[f] = want[f]
      BY <1>1, <1>6, <2>1 DEF Accepted, Rejected
    <3> QED BY <1>4, <1>5, <1>6, <2>1, <3>1
  <2>2. CASE g # f
    BY <1>1, <1>4, <1>6, <2>2 DEF FedInv, Vouching, Accepted
  <2> QED BY <2>1, <2>2
<1>7. \A r \in Runs : provenance'[r] = Whole => \E g \in Fetchers : fpc'[g] = "stored" /\ want'[g].ref = r
  BY <1>1 DEF FedInv, Vouching
<1>8. ASSUME NEW g \in Fetchers
      PROVE  /\ fpc'[g] \notin {"idle", "untrusted_instance"} => pinned' # NoKey /\ want'[g].ref \in Runs
             /\ fpc'[g] \in {"idle", "fetch"} => at'[g] = 1
             /\ fpc'[g] = "stored" => at'[g] = LastFile
  <2>1. CASE g = f
    BY <1>1, <2>1 DEF FedInv, Vouching, Rejected
  <2>2. CASE g # f
    BY <1>1, <2>2 DEF FedInv, Vouching
  <2> QED BY <2>1, <2>2
<1>9. Vouching'
  BY <1>6, <1>7, <1>8 DEF Vouching
<1> QED BY <1>2, <1>9 DEF FedInv

\* The steps of the remote's processes and the operator's entry.
LEMMA PeersKeep ==
  ASSUME FedInv, UNCHANGED <<fpc, want, got, at, dir, provenance>>,
         pinned' = pinned \/ (pinned = NoKey /\ pinned' # NoKey)
  PROVE  FedInv'
<1>1. ASSUME NEW f \in Fetchers, Accepted(f) PROVE pinned' = pinned
  BY <1>1 DEF FedInv, Vouching, Accepted
<1>2. FetchTypes'
  BY DEF FedInv, FetchTypes
<1>3. Vouching'
  BY <1>1 DEF FedInv, Vouching, Accepted, Sound
<1> QED BY <1>2, <1>3 DEF FedInv

\* A fetch begins: with the pinned key, unless the run is there.
LEMMA RequestKeeps ==
  ASSUME FedInv, NEW f \in Fetchers, NEW r \in Runs, NEW listed \in BOOLEAN, Request(f, r, listed)
  PROVE  FedInv'
<1>1. PICK place \in {"untrusted_instance", "present", "fetch"} :
        /\ fpc' = [fpc EXCEPT ![f] = place]
        /\ place # "untrusted_instance" => pinned # NoKey
  BY DEF Request, Trusted
<1>2. /\ fpc[f] = "idle" /\ UNCHANGED <<pinned, got, at, dir, provenance>>
      /\ DOMAIN want' = Fetchers /\ DOMAIN got' = Fetchers /\ want'[f].ref = r
      /\ \A g \in Fetchers \ {f} : want'[g] = want[g]
  BY DEF Request, foreignVars, FedInv, FetchTypes
<1> QED BY <1>1, <1>2, FetchMoves DEF Rejected, Storing

\* What came back is stored when it is the run asked for under the pinned key.
LEMMA ReceiveKeeps ==
  ASSUME FedInv, NEW f \in Fetchers, Receive(f)
  PROVE  FedInv'
<1>1. PICK b \in Responses(want[f].ref) :
        /\ fpc' = [fpc EXCEPT ![f] = FetchVerdict(b, want[f].ref)]
        /\ got' = [got EXCEPT ![f] = IF fpc'[f] = "open" THEN b ELSE @]
  BY DEF Receive
<1>2. /\ fpc[f] = "fetch" /\ UNCHANGED <<pinned, want, at, dir, provenance>>
      /\ DOMAIN want = Fetchers /\ DOMAIN got = Fetchers /\ f \in DOMAIN fpc
      /\ pinned # NoKey /\ want[f].ref \in Runs
  BY DEF Receive, foreignVars, FedInv, FetchTypes, Vouching
<1> DEFINE place == FetchVerdict(b, want[f].ref)
<1>3. place \in {"no_signature", "signature_invalid", "key_mismatch", "open"}
  BY VerdictTyped
<1>4. DOMAIN got' = Fetchers /\ \A g \in Fetchers \ {f} : got'[g] = got[g]
  BY <1>1, <1>2
<1>5. place = "open" => got'[f].run = want[f].ref /\ got'[f].by = pinned
  BY <1>1, <1>2, VerdictOpen
<1> HIDE DEF place
<1>6. fpc' = [fpc EXCEPT ![f] = place]
  BY <1>1 DEF place
<1>7. place \in {"fetch", "present", "cut", "dead"} \cup {"open"} \cup Rejected
  BY <1>3 DEF Rejected
<1> QED BY <1>2, <1>3, <1>4, <1>5, <1>6, <1>7, FetchMoves DEF Storing

\* A fetch that fails, and one whose process dies.
LEMMA FetchEndsKeep ==
  ASSUME FedInv, NEW f \in Fetchers, FetchFails(f) \/ FetchCrash(f)
  PROVE  FedInv'
<1>1. /\ UNCHANGED <<pinned, want, got, at, dir, provenance>>
      /\ DOMAIN want' = Fetchers /\ DOMAIN got' = Fetchers
      /\ pinned # NoKey /\ want[f].ref \in Runs
  BY DEF FetchFails, FetchCrash, foreignVars, FedInv, FetchTypes, Vouching, Storing
<1>2. PICK place \in {"fetch_failed", "cut", "dead"} :
        /\ fpc' = [fpc EXCEPT ![f] = place]
        /\ place = "cut" <=> fpc[f] = "write"
        /\ place = "dead" => fpc[f] = "open"
        /\ fpc[f] \notin {"idle", "stored", "cut"}
  BY DEF FetchFails, FetchCrash, Storing
<1> QED BY <1>1, <1>2, FetchMoves DEF Rejected

\* The next file of the run is truncated, by a fetch that from then on holds it.
LEMMA OpenKeeps ==
  ASSUME FedInv, NEW f \in Fetchers, Open(f)
  PROVE  FedInv'
<1> DEFINE r == want[f].ref
           i == at[f]
<1>1. /\ fpc[f] = "open" /\ UNCHANGED <<pinned, want, got, at>> /\ r \in Runs /\ i \in 1..LastFile
      /\ fpc' = [fpc EXCEPT ![f] = "write"]
  BY DEF Open, FedInv, FetchTypes, Vouching
<1>2. /\ fpc' \in [Fetchers -> {"idle", "fetch", "present", "stored", "cut", "dead"} \cup Storing \cup Rejected]
      /\ fpc'[f] = "write" /\ \A g \in Fetchers \ {f} : fpc'[g] = fpc[g]
  BY <1>1 DEF FedInv, FetchTypes, Storing
<1>3. /\ dir' \in [Runs -> [Files -> Runs \cup {Missing, Cropped}]]
      /\ provenance' \in [Runs -> {Missing, Cropped, Whole}]
      /\ \A s \in Runs, p \in Files : s # r \/ p # i => dir'[s][p] = dir[s][p]
      /\ \A s \in Runs : provenance'[s] = Whole => provenance[s] = Whole
  <2>1. CASE i = LastFile
    <3>1. provenance' = [provenance EXCEPT ![r] = Cropped] /\ dir' = dir
      BY <2>1 DEF Open, Put, FileAt
    <3>2. Cropped # Whole
      BY DEF Cropped, Whole
    <3> QED BY <1>1, <3>1, <3>2 DEF FedInv, FetchTypes
  <2>2. CASE i # LastFile
    <3>1. dir' = [dir EXCEPT ![r][i] = Cropped] /\ provenance' = provenance
      BY <2>2 DEF Open, Put, FileAt, Cropped, Whole
    <3>2. i \in Files
      BY <1>1, <2>2, FilesCounted
    <3> QED BY <1>1, <3>1, <3>2 DEF FedInv, FetchTypes
  <2> QED BY <2>1, <2>2
<1>4. ASSUME NEW s \in Runs, NEW p \in Files, Sound(s, p) PROVE Sound(s, p)'
  BY <1>1, <1>2, <1>3, <1>4 DEF Sound
<1>5. FetchTypes'
  BY <1>1, <1>2, <1>3 DEF FedInv, FetchTypes
<1>6. ASSUME NEW g \in Fetchers, Accepted(g)'
      PROVE  /\ got'[g].run = want'[g].ref /\ got'[g].by = pinned'
             /\ \A p \in Files : p < at'[g] => Sound(want[g].ref, p)'
  <2>1. Accepted(g)
    BY <1>1, <1>2, <1>6 DEF Accepted
  <2>2. want[g].ref \in Runs
    BY <2>1 DEF FedInv, Vouching, Accepted
  <2>3. ASSUME NEW p \in Files, p < at[g] PROVE Sound(want[g].ref, p)'
    BY <1>1, <1>4, <2>1, <2>2, <2>3 DEF FedInv, Vouching, Sound
  <2> QED BY <1>1, <2>1, <2>3 DEF FedInv, Vouching
<1>7. ASSUME NEW g \in Fetchers
      PROVE  /\ fpc'[g] \notin {"idle", "untrusted_instance"} => pinned' # NoKey /\ want'[g].ref \in Runs
             /\ fpc'[g] \in {"idle", "fetch"} => at'[g] = 1
             /\ fpc'[g] = "stored" => at'[g] = LastFile
  BY <1>1, <1>2 DEF FedInv, Vouching
<1>8. \A s \in Runs : provenance'[s] = Whole => \E g \in Fetchers : fpc'[g] = "stored" /\ want'[g].ref = s
  BY <1>1, <1>2, <1>3 DEF FedInv, Vouching
<1> QED BY <1>5, <1>6, <1>7, <1>8 DEF FedInv, Vouching

\* The file that was truncated gets its content, the last one is the provenance.
LEMMA WriteKeeps ==
  ASSUME FedInv, NEW f \in Fetchers, Write(f)
  PROVE  FedInv'
<1> DEFINE r == want[f].ref
           i == at[f]
<1>1. /\ fpc[f] = "write" /\ UNCHANGED <<pinned, want, got>> /\ r \in Runs /\ i \in 1..LastFile
      /\ got[f].run = r /\ got[f].by = pinned /\ pinned # NoKey
      /\ \A p \in Files : p < i => Sound(r, p)
      /\ LastFile \in Nat
  BY FilesCounted DEF Write, FedInv, FetchTypes, Vouching, Accepted
<1>2. /\ fpc' \in [Fetchers -> {"idle", "fetch", "present", "stored", "cut", "dead"} \cup Storing \cup Rejected]
      /\ at' \in [Fetchers -> 1..LastFile]
      /\ \A g \in Fetchers \ {f} : fpc'[g] = fpc[g] /\ at'[g] = at[g]
      /\ i = LastFile => fpc'[f] = "stored" /\ at'[f] = i
      /\ i # LastFile => fpc'[f] = "open" /\ at'[f] = i + 1
  <2>1. CASE i = LastFile
    BY <1>1, <2>1 DEF Write, FedInv, FetchTypes, Storing
  <2>2. CASE i # LastFile
    <3>1. i + 1 \in 1..LastFile
      BY <1>1, <2>2
    <3>2. fpc' = [fpc EXCEPT ![f] = "open"] /\ at' = [at EXCEPT ![f] = i + 1]
      BY <2>2 DEF Write
    <3> HIDE DEF i
    <3> QED BY <2>2, <3>1, <3>2 DEF FedInv, FetchTypes, Storing
  <2> QED BY <2>1, <2>2
<1>3. /\ dir' \in [Runs -> [Files -> Runs \cup {Missing, Cropped}]]
      /\ provenance' \in [Runs -> {Missing, Cropped, Whole}]
      /\ \A s \in Runs, p \in Files : s # r \/ p # i => dir'[s][p] = dir[s][p]
      /\ i \in Files => dir'[r][i] = r
      /\ \A s \in Runs : provenance'[s] = Whole => provenance[s] = Whole \/ (s = r /\ i = LastFile)
  <2>1. CASE i = LastFile
    <3>1. provenance' = [provenance EXCEPT ![r] = Whole] /\ dir' = dir
      BY <2>1 DEF Write, Put, FileAt
    <3>2. i \notin Files
      BY <2>1, FilesCounted
    <3> QED BY <1>1, <2>1, <3>1, <3>2 DEF FedInv, FetchTypes
  <2>2. CASE i # LastFile
    <3>1. dir' = [dir EXCEPT ![r][i] = r] /\ provenance' = provenance
      BY <1>1, <2>2 DEF Write, Put, FileAt
    <3>2. i \in Files
      BY <1>1, <2>2, FilesCounted
    <3> QED BY <1>1, <3>1, <3>2 DEF FedInv, FetchTypes
  <2> QED BY <2>1, <2>2
<1>4. ASSUME NEW s \in Runs, NEW p \in Files, Sound(s, p) PROVE Sound(s, p)'
  <2>1. CASE dir[s][p] = s
    BY <1>1, <1>3, <2>1 DEF Sound
  <2>2. ASSUME NEW g \in Fetchers, want[g].ref = s, at[g] = p, fpc[g] \in {"write", "cut"}
        PROVE  Sound(s, p)'
    <3>1. CASE g = f
      BY <1>3, <2>2, <3>1 DEF Sound
    <3>2. CASE g # f
      BY <1>1, <1>2, <2>2, <3>2 DEF Sound
    <3> QED BY <3>1, <3>2
  <2> QED BY <1>4, <2>1, <2>2 DEF Sound
<1>5. FetchTypes'
  BY <1>1, <1>2, <1>3 DEF FedInv, FetchTypes
<1>6. ASSUME NEW p \in Files, p < at'[f] PROVE Sound(r, p)'
  <2>1. CASE p = i
    BY <1>1, <1>3, <2>1 DEF Sound
  <2>2. CASE p # i
    <3>1. p < i
      BY <1>1, <1>2, <1>6, <2>2, FilesCounted
    <3>2. Sound(r, p)
      BY <1>1, <3>1
    <3>3. \A t \in Runs : Sound(t, p) => (t = r => Sound(r, p)')
      BY <1>1, <1>4 DEF Sound
    <3> QED BY <1>1, <3>2, <3>3
  <2> QED BY <2>1, <2>2
<1>7. ASSUME NEW g \in Fetchers, Accepted(g)'
      PROVE  /\ got'[g].run = want'[g].ref /\ got'[g].by = pinned'
             /\ \A p \in Files : p < at'[g] => Sound(want[g].ref, p)'
  <2>1. CASE g = f
    BY <1>1, <1>6, <2>1 DEF Sound
  <2>2. CASE g # f
    <3>1. Accepted(g) /\ want[g].ref \in Runs
      BY <1>2, <1>7, <2>2 DEF FedInv, Vouching, Accepted
    <3>2. ASSUME NEW p \in Files, p < at'[g] PROVE Sound(want[g].ref, p)'
      <4>1. Sound(want[g].ref, p)
        BY <1>2, <2>2, <3>1, <3>2 DEF FedInv, Vouching
      <4> DEFINE s == want[g].ref
      <4>2. s \in Runs /\ Sound(s, p)
        BY <3>1, <4>1
      <4>3. \A t \in Runs : Sound(t, p) => (t = s => Sound(want[g].ref, p)')
        BY <1>1, <1>4 DEF Sound
      <4> QED BY <4>2, <4>3
    <3> QED BY <1>1, <3>1, <3>2 DEF FedInv, Vouching
  <2> QED BY <2>1, <2>2
<1>8. ASSUME NEW g \in Fetchers
      PROVE  /\ fpc'[g] \notin {"idle", "untrusted_instance"} => pinned' # NoKey /\ want'[g].ref \in Runs
             /\ fpc'[g] \in {"idle", "fetch"} => at'[g] = 1
             /\ fpc'[g] = "stored" => at'[g] = LastFile
  <2>1. CASE g = f
    BY <1>1, <1>2, <2>1
  <2>2. CASE g # f
    BY <1>1, <1>2, <2>2 DEF FedInv, Vouching
  <2> QED BY <2>1, <2>2
<1>9. ASSUME NEW s \in Runs, provenance'[s] = Whole
      PROVE  \E g \in Fetchers : fpc'[g] = "stored" /\ want'[g].ref = s
  <2>1. CASE provenance[s] = Whole
    BY <1>1, <1>2, <2>1 DEF FedInv, Vouching
  <2>2. CASE s = r /\ i = LastFile
    BY <1>1, <1>2, <2>2
  <2> QED BY <1>3, <1>9, <2>1, <2>2
<1> QED BY <1>5, <1>7, <1>8, <1>9 DEF FedInv, Vouching

\* A stored foreign run that is shown is whole and vouched for by the pinned key.
THEOREM ForeignRunsVouched == FedSpec => []ProvenanceVouches
<1>1. FedInit => FedInv
  <2> SUFFICES ASSUME FedInit PROVE FedInv
    OBVIOUS
  <2>1. FetchTypes
    BY FilesCounted DEF FedInit, FetchTypes
  <2>2. Vouching
    BY DEF FedInit, Vouching, Accepted, Missing, Whole
  <2> QED BY <2>1, <2>2 DEF FedInv
<1>2. FedInv /\ [FedNext]_fedVars => FedInv'
  <2> SUFFICES ASSUME FedInv, [FedNext]_fedVars PROVE FedInv'
    OBVIOUS
  <2>1. ASSUME NEW p \in Peers,
               Ensure(p) \/ WritePrivate(p) \/ WritePublic(p) \/ PeerCrash(p) \/ PeerRestart(p)
        PROVE  FedInv'
    BY <2>1, PeersKeep DEF Ensure, WritePrivate, WritePublic, PeerCrash, PeerRestart, foreignVars
  <2>2. CASE Pin \/ UNCHANGED fedVars
    BY <2>2, PeersKeep DEF Pin, fedVars, foreignVars
  <2>3. ASSUME NEW f \in Fetchers, NEW r \in Runs, NEW listed \in BOOLEAN, Request(f, r, listed)
        PROVE  FedInv'
    BY <2>3, RequestKeeps
  <2>4. ASSUME NEW f \in Fetchers, FetchFails(f) \/ Receive(f) \/ Open(f) \/ Write(f) \/ FetchCrash(f)
        PROVE  FedInv'
    BY <2>4, FetchEndsKeep, ReceiveKeeps, OpenKeeps, WriteKeeps
  <2> QED BY <2>1, <2>2, <2>3, <2>4 DEF FedNext
<1>3. FedInv => ProvenanceVouches
  <2> SUFFICES ASSUME FedInv, NEW r \in Shown PROVE
        /\ \A p \in Files : Sound(r, p)
        /\ \E f \in Fetchers : fpc[f] = "stored" /\ want[f].ref = r /\ got[f].by = pinned
    BY DEF ProvenanceVouches, Sound
  <2>1. r \in Runs /\ provenance[r] = Whole
    BY DEF Shown, Listed, HasProvenance
  <2>2. PICK f \in Fetchers : fpc[f] = "stored" /\ want[f].ref = r
    BY <2>1 DEF FedInv, Vouching
  <2>3. at[f] = LastFile /\ got[f].by = pinned /\ \A p \in Files : p < at[f] => Sound(r, p)
    BY <2>2 DEF FedInv, Vouching, Accepted
  <2>4. \A p \in Files : p < LastFile
    BY FilesCounted
  <2> QED BY <2>2, <2>3, <2>4
<1> QED BY <1>1, <1>2, <1>3, PTL DEF FedSpec

-----------------------------------------------------------------------------
\* Between a miss and the end of its write no resolution has found an entry, once
\* one has nobody is there; a resolution that did not open the file met nobody.
ResolveInv ==
  /\ CacheTypeOK /\ SpecPinned
  /\ entry \in {NoEntry, Half} \cup {Hold(v) : v \in Specs \ {0}}
  /\ DOMAIN due = Resolvers
  /\ \A r \in Resolvers :
       /\ due[r] # NoEntry => Settled
       /\ rpc[r] \in {"open", "write"} => spec[r] # 0
       /\ rpc[r] \notin {"write", "resolved", "dead"} => beside[r] = {}

\* A reading finds no entry, a damaged one or a spec.
LEMMA ReadKeeps ==
  ASSUME ResolveInv, NEW r \in Resolvers, ReadCache(r)
  PROVE  ResolveInv'
<1>1. /\ rpc[r] = "idle" /\ UNCHANGED <<hosted, entry, beside>> /\ due[r] = NoEntry
      /\ DOMAIN due' = Resolvers /\ due'[r] = IF Settled THEN entry ELSE NoEntry
      /\ \A q \in Resolvers \ {r} : due'[q] = due[q]
  BY DEF ReadCache, ResolveInv, SpecPinned
<1>2. NoEntry # Half /\ (\A v : Hold(v) \notin {NoEntry, Half} /\ Hold(v).spec = v)
  BY DEF NoEntry, Half, Hold
<1>3. \/ entry = NoEntry /\ rpc' = [rpc EXCEPT ![r] = "fetch"] /\ spec' = spec
      \/ entry = Half /\ rpc' = [rpc EXCEPT ![r] = "cache_corrupt"] /\ spec' = spec
      \/ \E v \in Specs \ {0} : /\ entry = Hold(v)
                               /\ rpc' = [rpc EXCEPT ![r] = "resolved"] /\ spec' = [spec EXCEPT ![r] = v]
  <2>1. CASE entry = NoEntry
    BY <2>1 DEF ReadCache
  <2>2. CASE entry = Half
    BY <1>2, <2>2 DEF ReadCache
  <2>3. CASE \E v \in Specs \ {0} : entry = Hold(v)
    BY <1>2, <2>3 DEF ReadCache
  <2> QED BY <2>1, <2>2, <2>3 DEF ResolveInv
<1>4. /\ rpc'[r] \in {"fetch", "cache_corrupt", "resolved"} /\ spec'[r] \in Specs
      /\ entry = NoEntry <=> rpc'[r] = "fetch"
      /\ entry = Half <=> rpc'[r] = "cache_corrupt"
      /\ rpc'[r] = "resolved" => entry = Hold(spec'[r])
      /\ \A q \in Resolvers \ {r} : rpc'[q] = rpc[q] /\ spec'[q] = spec[q]
  BY <1>2, <1>3 DEF ResolveInv, CacheTypeOK
<1>5. CacheTypeOK'
  BY <1>1, <1>3 DEF ResolveInv, CacheTypeOK
<1>6. beside[r] = {} /\ \A q \in Resolvers \ {r} : Mixed(q)' = Mixed(q)
  BY <1>1, <1>4 DEF ResolveInv, Mixed
<1>7. entry # NoEntry /\ Settled => Settled'
  BY <1>4 DEF Settled
<1>8. ASSUME NEW q \in Resolvers
      PROVE  /\ due'[q] # NoEntry =>
                  /\ entry = due'[q] /\ Settled'
                  /\ rpc'[q] = "resolved" => entry = Hold(spec'[q])
                  /\ rpc'[q] # "resolved" => entry = Half /\ rpc'[q] = "cache_corrupt"
             /\ rpc'[q] \in {"open", "write"} => spec'[q] # 0
             /\ rpc'[q] \notin {"write", "resolved", "dead"} => beside[q] = {}
  <2>1. CASE q = r
    BY <1>1, <1>4, <1>6, <1>7, <2>1
  <2>2. CASE q # r
    <3>1. due[q] # NoEntry => entry = due[q] /\ Settled
      BY DEF ResolveInv, SpecPinned
    <3> QED BY <1>1, <1>4, <1>7, <2>2, <3>1 DEF ResolveInv, SpecPinned
  <2> QED BY <2>1, <2>2
<1>9. entry = Half => \E q \in Resolvers : rpc'[q] \in {"write", "dead"} \/ Mixed(q)'
  <2> SUFFICES ASSUME entry = Half PROVE \E q \in Resolvers : rpc'[q] \in {"write", "dead"} \/ Mixed(q)'
    OBVIOUS
  <2>1. PICK q \in Resolvers : rpc[q] \in {"write", "dead"} \/ Mixed(q)
    BY DEF ResolveInv, SpecPinned
  <2>2. q # r
    BY <1>1, <1>6, <2>1 DEF Mixed
  <2> QED BY <1>4, <1>6, <2>1, <2>2
<1>10. SpecPinned'
  BY <1>1, <1>8, <1>9 DEF ResolveInv, SpecPinned, NoEntry, Half, Hold
<1> QED BY <1>1, <1>5, <1>8, <1>10 DEF ResolveInv, NoEntry, Half, Hold

\* Only when no resolution has found an entry does one get past a miss.
LEMMA NobodyFound ==
  ASSUME ResolveInv, NEW r \in Resolvers, rpc[r] \in {"fetch", "parse", "open", "write"}
  PROVE  \A q \in Resolvers : due[q] = NoEntry
BY DEF ResolveInv, Settled

\* A text is fetched and parsed by a resolution that has not touched the file.
LEMMA TextKeeps ==
  ASSUME ResolveInv, NEW r \in Resolvers, Untrusted(r) \/ FetchSpec(r) \/ ParsePipeline(r)
  PROVE  ResolveInv'
<1>1. /\ rpc[r] \in {"idle", "fetch", "parse"} /\ UNCHANGED <<hosted, entry, beside, due>>
      /\ rpc'[r] \in {"untrusted_host", "fetch_failed", "parse", "invalid_spec", "open"}
      /\ rpc'[r] = "open" => spec'[r] # 0
      /\ rpc' = [rpc EXCEPT ![r] = rpc'[r]]
      /\ \A q \in Resolvers \ {r} : rpc'[q] = rpc[q] /\ spec'[q] = spec[q]
      /\ spec' \in [Resolvers -> Specs]
      /\ rpc[r] = "idle" => rpc'[r] = "untrusted_host"
  BY DEF Untrusted, FetchSpec, ParsePipeline, ResolveInv, CacheTypeOK
<1>2. CacheTypeOK'
  BY <1>1 DEF ResolveInv, CacheTypeOK
<1>3. beside[r] = {} /\ \A q \in Resolvers \ {r} : Mixed(q)' = Mixed(q)
  BY <1>1 DEF ResolveInv, Mixed
<1>4. Settled => Settled'
  BY <1>1 DEF Settled
<1>5. due[r] = NoEntry
  BY <1>1 DEF ResolveInv, SpecPinned
<1>6. \A q \in Resolvers :
        /\ due[q] # NoEntry => Settled'
        /\ rpc'[q] \in {"open", "write"} => spec'[q] # 0
        /\ rpc'[q] \notin {"write", "resolved", "dead"} => beside[q] = {}
  BY <1>1, <1>3, <1>4 DEF ResolveInv
<1>7. entry = Half => \E q \in Resolvers : rpc'[q] \in {"write", "dead"} \/ Mixed(q)'
  <2> SUFFICES ASSUME entry = Half PROVE \E q \in Resolvers : rpc'[q] \in {"write", "dead"} \/ Mixed(q)'
    OBVIOUS
  <2>1. PICK q \in Resolvers : rpc[q] \in {"write", "dead"} \/ Mixed(q)
    BY DEF ResolveInv, SpecPinned
  <2>2. q # r
    BY <1>1, <1>3, <2>1 DEF Mixed
  <2> QED BY <1>1, <1>3, <2>1, <2>2
<1>8. SpecPinned'
  BY <1>1, <1>5, <1>7 DEF ResolveInv, SpecPinned, NoEntry, Half, Hold
<1> QED BY <1>1, <1>2, <1>6, <1>8 DEF ResolveInv, NoEntry, Half, Hold

\* The file is opened, under whoever is writing it.
LEMMA OpenCacheKeeps ==
  ASSUME ResolveInv, NEW r \in Resolvers, OpenCache(r)
  PROVE  ResolveInv'
<1>1. /\ rpc[r] = "open" /\ entry' = Half /\ UNCHANGED <<hosted, spec, due>>
      /\ rpc'[r] = "write" /\ \A q \in Resolvers \ {r} : rpc'[q] = rpc[q]
      /\ \A q \in Resolvers \ {r} : rpc[q] # "write" => beside'[q] = beside[q]
  BY DEF OpenCache, ResolveInv, CacheTypeOK, Writers
<1>2. \A q \in Resolvers : due[q] = NoEntry
  BY <1>1, NobodyFound
<1>3. CacheTypeOK'
  <2>1. spec \in [Resolvers -> Specs] /\ beside \in [Resolvers -> SUBSET Specs]
    BY DEF ResolveInv, CacheTypeOK
  <2>2. \A q \in Resolvers :
          (IF q = r THEN {spec[w] : w \in Writers}
           ELSE IF q \in Writers THEN beside[q] \cup {spec[r]} ELSE beside[q]) \in SUBSET Specs
    BY <2>1 DEF Writers
  <2>3. beside' \in [Resolvers -> SUBSET Specs]
    BY <2>2 DEF OpenCache
  <2> QED BY <1>1, <2>3, SpecCacheAssumption DEF OpenCache, ResolveInv, CacheTypeOK, Half
<1>4. \A q \in Resolvers :
        /\ rpc'[q] \in {"open", "write"} => spec[q] # 0
        /\ rpc'[q] \notin {"write", "resolved", "dead"} => beside'[q] = {}
  BY <1>1 DEF ResolveInv
<1>5. SpecPinned'
  BY <1>1, <1>2 DEF SpecPinned, Half, NoEntry
<1> QED BY <1>1, <1>2, <1>3, <1>4, <1>5 DEF ResolveInv, NoEntry, Half, Hold

\* A write ends: with its own text, or damaged by another that was there too.
LEMMA WriteCacheKeeps ==
  ASSUME ResolveInv, NEW r \in Resolvers, WriteCache(r)
  PROVE  ResolveInv'
<1>1. /\ rpc[r] = "write" /\ UNCHANGED <<hosted, spec, beside, due>>
      /\ rpc'[r] = "resolved" /\ (\A q \in Resolvers \ {r} : rpc'[q] = rpc[q])
      /\ rpc' = [rpc EXCEPT ![r] = "resolved"]
      /\ entry' = Hold(spec[r]) \/ (entry' = Half /\ (Mixed(r) \/ Writers # {r}))
  BY DEF WriteCache, ResolveInv, CacheTypeOK
<1>2. \A q \in Resolvers : due[q] = NoEntry
  BY <1>1, NobodyFound
<1>3. spec[r] \in Specs \ {0}
  BY <1>1 DEF ResolveInv, CacheTypeOK
<1>4. CacheTypeOK'
  BY <1>1, <1>3, SpecCacheAssumption DEF ResolveInv, CacheTypeOK, Hold, Half
<1>5. entry' = Half => \E q \in Resolvers : rpc'[q] \in {"write", "dead"} \/ Mixed(q)'
  <2> SUFFICES ASSUME entry' = Half PROVE \E q \in Resolvers : rpc'[q] \in {"write", "dead"} \/ Mixed(q)'
    OBVIOUS
  <2>1. CASE Mixed(r)
    BY <1>1, <2>1 DEF Mixed
  <2>2. CASE Writers # {r}
    <3>1. PICK q \in Writers : q # r
      BY <1>1, <2>2 DEF Writers
    <3> QED BY <1>1, <3>1 DEF Writers
  <2>3. Hold(spec[r]) # Half
    BY DEF Hold, Half
  <2> QED BY <1>1, <2>1, <2>2, <2>3
<1>6. SpecPinned'
  <2>1. entry'.is = "whole" => entry'.spec # 0
    BY <1>1, <1>3 DEF Hold, Half
  <2> QED BY <1>1, <1>2, <1>5, <2>1 DEF SpecPinned, NoEntry, Half
<1>7. \A q \in Resolvers :
        /\ rpc'[q] \in {"open", "write"} => spec[q] # 0
        /\ rpc'[q] \notin {"write", "resolved", "dead"} => beside[q] = {}
  BY <1>1 DEF ResolveInv
<1>8. entry' \in {NoEntry, Half} \cup {Hold(v) : v \in Specs \ {0}}
  BY <1>1, <1>3
<1> QED BY <1>1, <1>2, <1>4, <1>6, <1>7, <1>8 DEF ResolveInv, NoEntry, Half, Hold

\* A resolution dies on the way to the file or in it.
LEMMA CacheCrashKeeps ==
  ASSUME ResolveInv, NEW r \in Resolvers, CacheCrash(r)
  PROVE  ResolveInv'
<1>1. /\ rpc[r] \in {"open", "write"} /\ UNCHANGED <<hosted, entry, spec, beside, due>>
      /\ rpc'[r] = "dead" /\ (\A q \in Resolvers \ {r} : rpc'[q] = rpc[q])
      /\ rpc' = [rpc EXCEPT ![r] = "dead"]
  BY DEF CacheCrash, ResolveInv, CacheTypeOK
<1>2. \A q \in Resolvers : due[q] = NoEntry
  BY <1>1, NobodyFound
<1>3. CacheTypeOK'
  BY <1>1 DEF ResolveInv, CacheTypeOK
<1>4. SpecPinned'
  BY <1>1, <1>2 DEF ResolveInv, SpecPinned, NoEntry, Half
<1>5. \A q \in Resolvers :
        /\ rpc'[q] \in {"open", "write"} => spec[q] # 0
        /\ rpc'[q] \notin {"write", "resolved", "dead"} => beside[q] = {}
  BY <1>1 DEF ResolveInv
<1> QED BY <1>1, <1>2, <1>3, <1>4, <1>5 DEF ResolveInv, NoEntry, Half, Hold

\* A reference stays what it was first resolved to, be that damaged.
THEOREM ReferencesPinned == CacheSpec => []SpecPinned
<1>1. CacheInit => ResolveInv
  <2> SUFFICES ASSUME CacheInit PROVE ResolveInv
    OBVIOUS
  <2>1. CacheTypeOK
    BY SpecCacheAssumption DEF CacheInit, CacheTypeOK, NoEntry
  <2>2. SpecPinned
    BY DEF CacheInit, SpecPinned, NoEntry, Half
  <2> QED BY <2>1, <2>2 DEF CacheInit, ResolveInv
<1>2. ResolveInv /\ [CacheNext]_cacheVars => ResolveInv'
  <2> SUFFICES ASSUME ResolveInv, [CacheNext]_cacheVars PROVE ResolveInv'
    OBVIOUS
  <2>1. CASE Publish \/ UNCHANGED cacheVars
    <3>1. UNCHANGED <<entry, rpc, spec, beside, due>> /\ hosted' \in Specs
      BY <2>1 DEF Publish, cacheVars, ResolveInv, CacheTypeOK
    <3>2. CacheTypeOK'
      BY <3>1 DEF ResolveInv, CacheTypeOK
    <3>3. SpecPinned'
      BY <3>1 DEF ResolveInv, SpecPinned, Mixed, NoEntry, Half, Hold
    <3> QED BY <3>1, <3>2, <3>3 DEF ResolveInv, Settled, NoEntry, Half, Hold
  <2>2. CASE \E r \in Resolvers : Untrusted(r) \/ FetchSpec(r) \/ ParsePipeline(r)
    BY <2>2, TextKeeps
  <2>3. CASE \E r \in Resolvers : ReadCache(r)
    BY <2>3, ReadKeeps
  <2>4. CASE \E r \in Resolvers : OpenCache(r)
    BY <2>4, OpenCacheKeeps
  <2>5. CASE \E r \in Resolvers : WriteCache(r)
    BY <2>5, WriteCacheKeeps
  <2>6. CASE \E r \in Resolvers : CacheCrash(r)
    BY <2>6, CacheCrashKeeps
  <2> QED BY <2>1, <2>2, <2>3, <2>4, <2>5, <2>6 DEF CacheNext
<1>3. ResolveInv => SpecPinned
  BY DEF ResolveInv
<1> QED BY <1>1, <1>2, <1>3, PTL DEF CacheSpec

-----------------------------------------------------------------------------
(***************************************************************************)
(* The aggregates over stored runs.                                        *)
(***************************************************************************)

\* Classes that share nothing count their elements together.
LEMMA CountByClass ==
  ASSUME NEW S, IsFiniteSet(S), NEW T, IsFiniteSet(T), NEW k, \A x \in S : k[x] \in T
  PROVE  Cardinality(S) = Total([t \in T |-> Cardinality({x \in S : k[x] = t})])
<1> DEFINE one == [x \in S |-> 1]
<1>1. \A x \in S : one[x] \in Nat
  OBVIOUS
<1>2. \A s \in SUBSET S : Part(one, s) = Cardinality(s)
  <2> SUFFICES ASSUME NEW s \in SUBSET S PROVE Part(one, s) = Cardinality(s)
    OBVIOUS
  <2>1. IsFiniteSet(s)
    BY FS_Subset
  <2>2. [x \in s |-> one[x]] = [x \in s |-> 1]
    OBVIOUS
  <2> QED BY <2>1, <2>2, TotalOnes DEF Part
<1> HIDE DEF one
<1>3. Part(one, S) = Total([t \in T |-> Part(one, {x \in S : k[x] = t})])
  BY <1>1, TotalByClass
<1>4. [t \in T |-> Part(one, {x \in S : k[x] = t})] = [t \in T |-> Cardinality({x \in S : k[x] = t})]
  BY <1>2
<1> QED BY <1>2, <1>3, <1>4

\* The stored runs are runs.
Stored == corpus \in Seq(RunSet)

\* Nothing but runs is ever stored.
THEOREM RunsAreStored == CorpusSpec => []Stored
<1>1. CorpusInit => Stored
  BY DEF CorpusInit, Stored
<1>2. Stored /\ [SaveRun]_corpus => Stored'
  BY DEF Stored, SaveRun
<1> QED BY <1>1, <1>2, PTL DEF CorpusSpec

\* What a run costs is a natural number.
LEMMA RunCostNat ==
  ASSUME NEW r \in RunSet
  PROVE  /\ IsFiniteSet(DOMAIN r.results) /\ IsFiniteSet(CostedResults(r)) /\ RunCost(r) \in Nat
         /\ \A i \in CostedResults(r) : r.results[i].cost \in Nat
<1>1. Len(r.results) \in Nat /\ DOMAIN r.results = 1..Len(r.results)
  BY RunsAssumption
<1>2. IsFiniteSet(DOMAIN r.results)
  BY <1>1, FS_Interval
<1>3. IsFiniteSet(CostedResults(r))
  BY <1>2, FS_Subset DEF CostedResults
<1>4. \A i \in CostedResults(r) : r.results[i].cost \in Nat
  BY RunsAssumption DEF CostedResults
<1> DEFINE f == [i \in CostedResults(r) |-> r.results[i].cost]
<1>5. DOMAIN f = CostedResults(r) /\ \A i \in DOMAIN f : f[i] \in Nat
  BY <1>4
<1>6. Total(f) \in Nat
  <2> HIDE DEF f
  <2> QED BY <1>3, <1>5, TotalNat
<1> QED BY <1>2, <1>3, <1>4, <1>6 DEF RunCost

Costs == [i \in DOMAIN corpus |-> RunCost(corpus[i])]

\* The indices of stored runs are finitely many, and each has a cost.
LEMMA StoredRuns ==
  ASSUME Stored
  PROVE  /\ IsFiniteSet(DOMAIN corpus) /\ \A i \in DOMAIN corpus : corpus[i] \in RunSet
         /\ \A i \in DOMAIN corpus : Costs[i] \in Nat
         /\ \A s \in SUBSET DOMAIN corpus : IsFiniteSet(s) /\ CostOf(s) = Part(Costs, s)
<1>1. DOMAIN corpus = 1..Len(corpus) /\ Len(corpus) \in Nat /\ \A i \in DOMAIN corpus : corpus[i] \in RunSet
  BY DEF Stored
<1>2. IsFiniteSet(DOMAIN corpus)
  BY <1>1, FS_Interval
<1>3. \A i \in DOMAIN corpus : Costs[i] \in Nat
  BY <1>1, RunCostNat DEF Costs
<1>4. ASSUME NEW s \in SUBSET DOMAIN corpus
      PROVE  IsFiniteSet(s) /\ CostOf(s) = Part(Costs, s)
  <2>1. [i \in s |-> RunCost(corpus[i])] = [i \in s |-> Costs[i]]
    BY DEF Costs
  <2> QED BY <1>2, <2>1, FS_Subset DEF CostOf, Part
<1> QED BY <1>1, <1>2, <1>3, <1>4

\* Costs add up by class.
LEMMA CostByClass ==
  ASSUME Stored, NEW s \in SUBSET DOMAIN corpus, NEW T, IsFiniteSet(T), NEW k, \A i \in s : k[i] \in T
  PROVE  CostOf(s) = Total([t \in T |-> CostOf({i \in s : k[i] = t})])
<1>1. IsFiniteSet(s) /\ \A i \in s : Costs[i] \in Nat
  BY StoredRuns
<1>2. Part(Costs, s) = Total([t \in T |-> Part(Costs, {i \in s : k[i] = t})])
  BY <1>1, TotalByClass
<1>3. \A t \in T : CostOf({i \in s : k[i] = t}) = Part(Costs, {i \in s : k[i] = t})
  <2>1. \A t \in T : {i \in s : k[i] = t} \in SUBSET DOMAIN corpus
    OBVIOUS
  <2> QED BY <2>1, StoredRuns
<1>4. CostOf(s) = Part(Costs, s)
  BY StoredRuns
<1> QED BY <1>2, <1>3, <1>4

\* Without a filter every run of the window counts.
LEMMA Unfiltered ==
  ASSUME Stored, NEW w
  PROVE  /\ Ids(w) \in SUBSET DOMAIN corpus /\ Ids({}) = DOMAIN corpus
         /\ CostStats({}, w) = [totalRuns |-> Cardinality(Ids(w)), totalCost |-> CostOf(Ids(w)),
                                buckets |-> [d \in {corpus[i].day : i \in Ids(w)} |-> Bucket(Ids(w), d)]]
         /\ CostStats({}, w).totalRuns = Cardinality(Ids(w)) /\ CostStats({}, w).totalCost = CostOf(Ids(w))
<1>1. {i \in Ids(w) : Wanted({}, corpus[i].pipeline)} = Ids(w)
  BY DEF Wanted
<1>2. CostStats({}, w) = [totalRuns |-> Cardinality(Ids(w)), totalCost |-> CostOf(Ids(w)),
                          buckets |-> [d \in {corpus[i].day : i \in Ids(w)} |-> Bucket(Ids(w), d)]]
  BY <1>1 DEF CostStats
<1>3. CostStats({}, w).totalRuns = Cardinality(Ids(w)) /\ CostStats({}, w).totalCost = CostOf(Ids(w))
  BY <1>2
<1> QED BY <1>2, <1>3 DEF Ids, InRange

\* The days add up to the total, in runs and in cost.
LEMMA DaysAddUp ==
  ASSUME Stored, NEW w
  PROVE  LET c == CostStats({}, w)
         IN /\ c.totalRuns = Total([d \in DOMAIN c.buckets |-> c.buckets[d].runs])
            /\ c.totalCost = Total([d \in DOMAIN c.buckets |-> c.buckets[d].cost])
<1> DEFINE s == Ids(w)
           D == {corpus[i].day : i \in s}
           k == [i \in s |-> corpus[i].day]
           c == CostStats({}, w)
<1>1. s \in SUBSET DOMAIN corpus /\ IsFiniteSet(s)
  BY Unfiltered, StoredRuns
<1>3. D = {k[i] : i \in s} /\ \A i \in s : k[i] \in D
  OBVIOUS
<1>2. IsFiniteSet(D)
  <2> HIDE DEF D, k
  <2> QED BY <1>1, <1>3, ValuesFinite
<1>4. /\ c.totalRuns = Cardinality(s) /\ c.totalCost = CostOf(s) /\ DOMAIN c.buckets = D
      /\ \A d \in D : c.buckets[d] = Bucket(s, d)
  <2>1. c = [totalRuns |-> Cardinality(s), totalCost |-> CostOf(s), buckets |-> [d \in D |-> Bucket(s, d)]]
    BY Unfiltered
  <2> HIDE DEF c, s, D, k
  <2> QED BY <2>1
<1>5. \A d \in D : /\ Bucket(s, d).runs = Cardinality({i \in s : k[i] = d})
                   /\ Bucket(s, d).cost = CostOf({i \in s : k[i] = d})
  <2>1. \A d \in D : {i \in s : corpus[i].day = d} = {i \in s : k[i] = d}
    OBVIOUS
  <2> HIDE DEF D, k, s
  <2> QED BY <2>1 DEF Bucket
<1> HIDE DEF s, D, k, c
<1>6. Cardinality(s) = Total([d \in D |-> Cardinality({i \in s : k[i] = d})])
  BY <1>1, <1>2, <1>3, CountByClass
<1>7. CostOf(s) = Total([d \in D |-> CostOf({i \in s : k[i] = d})])
  BY <1>1, <1>2, <1>3, CostByClass
<1>8. /\ [d \in DOMAIN c.buckets |-> c.buckets[d].runs] = [d \in D |-> Cardinality({i \in s : k[i] = d})]
      /\ [d \in DOMAIN c.buckets |-> c.buckets[d].cost] = [d \in D |-> CostOf({i \in s : k[i] = d})]
  BY <1>4, <1>5
<1>9. /\ c.totalRuns = Total([d \in DOMAIN c.buckets |-> c.buckets[d].runs])
      /\ c.totalCost = Total([d \in DOMAIN c.buckets |-> c.buckets[d].cost])
  BY <1>4, <1>6, <1>7, <1>8
<1> QED BY <1>9 DEF c

\* Costs of the pipelines and runs of the pipelines add up to the total.
LEMMA PipelinesAddUp ==
  ASSUME Stored, NEW w
  PROVE  LET c == CostStats({}, w)
             f == FailureStats(w)
         IN /\ c.totalCost = Total([p \in {corpus[i].pipeline : i \in DOMAIN corpus} |-> CostStats({p}, w).totalCost])
            /\ c.totalRuns = Total([p \in DOMAIN f.byPipeline |-> f.byPipeline[p].total])
<1> DEFINE s == Ids(w)
           P == {corpus[i].pipeline : i \in DOMAIN corpus}
           Q == {corpus[i].pipeline : i \in s}
           k == [i \in DOMAIN corpus |-> corpus[i].pipeline]
           c == CostStats({}, w)
           f == FailureStats(w)
<1>1. s \in SUBSET DOMAIN corpus /\ IsFiniteSet(s) /\ IsFiniteSet(DOMAIN corpus)
  BY Unfiltered, StoredRuns
<1>2. /\ P = {k[i] : i \in DOMAIN corpus} /\ Q = {k[i] : i \in s}
      /\ \A i \in DOMAIN corpus : k[i] \in P
      /\ \A i \in s : k[i] \in Q
  BY <1>1
<1>3. c.totalRuns = Cardinality(s) /\ c.totalCost = CostOf(s)
  BY Unfiltered
<1>4. \A p \in P : CostStats({p}, w).totalCost = CostOf({i \in s : k[i] = p})
  <2> SUFFICES ASSUME NEW p \in P PROVE CostStats({p}, w).totalCost = CostOf({i \in s : k[i] = p})
    OBVIOUS
  <2>1. {i \in Ids(w) : Wanted({p}, corpus[i].pipeline)} = {i \in s : k[i] = p}
    BY <1>1 DEF Wanted
  <2> HIDE DEF s, P, Q, k, c, f
  <2> QED BY <2>1 DEF CostStats
<1>5. DOMAIN f.byPipeline = Q /\ \A p \in Q : f.byPipeline[p].total = Cardinality({i \in s : k[i] = p})
  <2> DEFINE B == [p \in Q |-> LET all == {i \in s : corpus[i].pipeline = p}
                               IN [total |-> Cardinality(all),
                                   invalid |-> Cardinality({i \in all : ~corpus[i].valid})]]
  <2>1. f.byPipeline = B
    BY DEF FailureStats
  <2>2. \A p \in Q : {i \in s : corpus[i].pipeline = p} = {i \in s : k[i] = p}
    BY <1>1
  <2>3. DOMAIN B = Q /\ \A p \in Q : B[p].total = Cardinality({i \in s : corpus[i].pipeline = p})
    OBVIOUS
  <2> HIDE DEF B, s, P, Q, k, c, f
  <2> QED BY <2>1, <2>2, <2>3
<1> HIDE DEF s, P, Q, k, c, f
<1>6. IsFiniteSet(P) /\ IsFiniteSet(Q)
  BY <1>1, <1>2, ValuesFinite
<1>7. CostOf(s) = Total([p \in P |-> CostOf({i \in s : k[i] = p})])
  BY <1>1, <1>2, <1>6, CostByClass
<1>8. Cardinality(s) = Total([p \in Q |-> Cardinality({i \in s : k[i] = p})])
  BY <1>1, <1>2, <1>6, CountByClass
<1>9. /\ [p \in P |-> CostStats({p}, w).totalCost] = [p \in P |-> CostOf({i \in s : k[i] = p})]
      /\ [p \in DOMAIN f.byPipeline |-> f.byPipeline[p].total] = [p \in Q |-> Cardinality({i \in s : k[i] = p})]
  BY <1>4, <1>5
<1>10. /\ c.totalCost = Total([p \in P |-> CostStats({p}, w).totalCost])
       /\ c.totalRuns = Total([p \in DOMAIN f.byPipeline |-> f.byPipeline[p].total])
  BY <1>3, <1>7, <1>8, <1>9
<1> QED BY <1>10 DEF c, f, P

\* The results of a window are finitely many, each with a latency.
LEMMA FiniteSamples ==
  ASSUME Stored, NEW w
  PROVE  IsFiniteSet(Samples(w)) /\ \A s \in Samples(w) : ResultAt(s).latency \in Nat
<1> DEFINE k == [i \in Ids(w) |-> {i} \X DOMAIN corpus[i].results]
<1>1. IsFiniteSet(Ids(w)) /\ \A i \in Ids(w) : corpus[i] \in RunSet
  BY Unfiltered, StoredRuns
<1>2. Samples(w) = UNION {k[i] : i \in Ids(w)}
  BY DEF Samples
<1>3. \A i \in Ids(w) : IsFiniteSet(k[i])
  BY <1>1, RunCostNat, FS_Singleton, FS_Product
<1>4. \A s \in Samples(w) : ResultAt(s).latency \in Nat
  <2> SUFFICES ASSUME NEW i \in Ids(w), NEW j \in DOMAIN corpus[i].results
               PROVE  ResultAt(<<i, j>>).latency \in Nat
    BY DEF Samples
  <2> QED BY <1>1, RunsAssumption DEF ResultAt
<1> HIDE DEF k
<1>5. IsFiniteSet({k[i] : i \in Ids(w)})
  BY <1>1, ValuesFinite
<1>6. IsFiniteSet(UNION {k[i] : i \in Ids(w)})
  BY <1>3, <1>5, FS_UNION
<1> QED BY <1>2, <1>4, <1>6

\* The samples of the providers add up to all results, and what a provider's
\* results took in all lies between as many of its minimum and of its maximum.
LEMMA ProvidersAddUp ==
  ASSUME Stored, NEW w
  PROVE  LET l == LatencyStats({}, w)
         IN /\ Cardinality(Samples(w)) = Total([p \in DOMAIN l |-> l[p].samples])
            /\ \A p \in DOMAIN l : /\ l[p].min * l[p].samples <= l[p].total
                                   /\ l[p].total <= l[p].max * l[p].samples
<1> DEFINE S == Samples(w)
           k == [s \in S |-> ResultAt(s).provider]
           N == {ResultAt(s).provider : s \in S}
           l == LatencyStats({}, w)
           lat(p) == [s \in SamplesOf(p, w) |-> ResultAt(s).latency]
           vals(p) == {lat(p)[s] : s \in DOMAIN lat(p)}
<1>1. IsFiniteSet(S) /\ \A s \in S : ResultAt(s).latency \in Nat
  BY FiniteSamples
<1>2. N = {k[s] : s \in S} /\ \A s \in S : k[s] \in N
  OBVIOUS
<1>3. DOMAIN l = N
  <2>1. {t \in Samples(w) : Wanted({}, ResultAt(t).provider)} = S
    BY DEF Wanted
  <2> QED BY <2>1 DEF LatencyStats
<1>4. \A p \in N : l[p] = [samples |-> Cardinality(DOMAIN lat(p)), total |-> Total(lat(p)),
                           min |-> Min(vals(p)), max |-> Max({0} \cup vals(p))]
  BY <1>3 DEF LatencyStats
<1>5. \A p \in N : SamplesOf(p, w) = {s \in S : k[s] = p} /\ SamplesOf(p, w) # {}
  BY DEF SamplesOf
<1>6. Cardinality(S) = Total([p \in DOMAIN l |-> l[p].samples])
  <2>1. \A p \in N : l[p].samples = Cardinality({s \in S : k[s] = p})
    <3>1. \A p \in N : DOMAIN lat(p) = SamplesOf(p, w)
      OBVIOUS
    <3>2. ASSUME NEW p \in N PROVE l[p].samples = Cardinality(DOMAIN lat(p))
      <4> DEFINE r == [samples |-> Cardinality(DOMAIN lat(p)), total |-> Total(lat(p)),
                       min |-> Min(vals(p)), max |-> Max({0} \cup vals(p))]
      <4>1. r.samples = Cardinality(DOMAIN lat(p))
        OBVIOUS
      <4>2. l[p] = r
        BY <1>4
      <4> HIDE DEF r, l, lat, vals
      <4> QED BY <4>1, <4>2
    <3> HIDE DEF S, k, N, l, lat, vals
    <3> QED BY <1>5, <3>1, <3>2
  <2> HIDE DEF S, k, N, l
  <2>2. IsFiniteSet(N)
    BY <1>1, <1>2, ValuesFinite
  <2>3. Cardinality(S) = Total([p \in N |-> Cardinality({s \in S : k[s] = p})])
    BY <1>1, <1>2, <2>2, CountByClass
  <2>4. [p \in DOMAIN l |-> l[p].samples] = [p \in N |-> Cardinality({s \in S : k[s] = p})]
    BY <1>3, <2>1
  <2> QED BY <2>3, <2>4
<1>7. ASSUME NEW p \in N
      PROVE  l[p].min * l[p].samples <= l[p].total /\ l[p].total <= l[p].max * l[p].samples
  <2> DEFINE f == lat(p)
             V == vals(p)
             A == SamplesOf(p, w)
  <2>1. DOMAIN f = A /\ f = [s \in A |-> f[s]] /\ V = {f[s] : s \in A}
    OBVIOUS
  <2>2. A \in SUBSET S /\ A # {}
    BY <1>5
  <2>3. \A s \in A : f[s] \in Nat
    BY <1>1, <2>2
  <2> HIDE DEF S, k, N, l, lat, vals, f, V, A
  <2>4. IsFiniteSet(A)
    BY <1>1, <2>2, FS_Subset
  <2>5. IsFiniteSet(V) /\ V # {} /\ V \subseteq Nat
    BY <2>1, <2>2, <2>3, <2>4, ValuesFinite
  <2> DEFINE Z == {0} \cup V
             lo == Min(V)
             hi == Max(Z)
  <2>6. IsFiniteSet(Z) /\ Z # {} /\ Z \subseteq Nat /\ Z \subseteq Int /\ V \subseteq Int
    <3>1. IsFiniteSet({0})
      BY FS_Singleton
    <3>2. IsFiniteSet({0} \cup V)
      BY <2>5, <3>1, FS_Union
    <3>3. Z = {0} \cup V
      OBVIOUS
    <3> HIDE DEF Z
    <3> QED BY <2>5, <3>2, <3>3
  <2>7. lo \in V /\ \A x \in V : lo <= x
    BY <2>5, <2>6, Extremes
  <2>8. hi \in Z /\ \A x \in V : x <= hi
    <3>1. V \subseteq Z
      OBVIOUS
    <3> HIDE DEF Z
    <3> QED BY <2>6, <3>1, Extremes
  <2>9. l[p].min = lo /\ l[p].max = hi /\ l[p].samples = Cardinality(A) /\ l[p].total = Part(f, A)
    <3>1. l[p] = [samples |-> Cardinality(DOMAIN f), total |-> Total(f), min |-> lo, max |-> hi]
      BY <1>4 DEF f, V
    <3>2. Part(f, A) = Total(f)
      BY <2>1 DEF Part
    <3> HIDE DEF lo, hi, Z
    <3> QED BY <2>1, <3>1, <3>2
  <2> HIDE DEF lo, hi, Z
  <2>10. lo \in Nat /\ hi \in Nat
    BY <2>5, <2>6, <2>7, <2>8
  <2>11. \A s \in A : f[s] \in Nat /\ lo <= f[s] /\ f[s] <= hi
    BY <2>1, <2>3, <2>7, <2>8
  <2>12. lo * Cardinality(A) <= Part(f, A) /\ Part(f, A) <= hi * Cardinality(A)
    BY <2>4, <2>10, <2>11, TotalBetween
  <2> QED BY <2>9, <2>12
<1> HIDE DEF lat, vals
<1> QED BY <1>3, <1>6, <1>7

\* The aggregates count every run and every result of the window once.
THEOREM AggregatesAddUp == CorpusSpec => []StatsAddUp
<1>1. ASSUME Stored PROVE StatsAddUp
  <2> SUFFICES ASSUME NEW w
               PROVE  LET cost(p) == StatsCommand("sqlite", "cost", {p}, w).stats
                          c == StatsRoute("sqlite", "cost", {}, w).stats
                          l == StatsRoute("sqlite", "latency", {}, w).stats
                          f == StatsRoute("sqlite", "failures", {}, w).stats
                          pipelines == {corpus[i].pipeline : i \in DOMAIN corpus}
                      IN /\ c.totalRuns = Total([d \in DOMAIN c.buckets |-> c.buckets[d].runs])
                         /\ c.totalCost = Total([d \in DOMAIN c.buckets |-> c.buckets[d].cost])
                         /\ c.totalCost = Total([p \in pipelines |-> cost(p).totalCost])
                         /\ c.totalRuns = Total([p \in DOMAIN f.byPipeline |-> f.byPipeline[p].total])
                         /\ Cardinality(Samples(w)) = Total([p \in DOMAIN l |-> l[p].samples])
                         /\ \A p \in DOMAIN l : /\ l[p].min * l[p].samples <= l[p].total
                                                /\ l[p].total <= l[p].max * l[p].samples
                         /\ c.totalCost <= CostStats({}, {}).totalCost
    BY DEF StatsAddUp
  <2>1. /\ StatsRoute("sqlite", "cost", {}, w).stats = CostStats({}, w)
        /\ StatsRoute("sqlite", "latency", {}, w).stats = LatencyStats({}, w)
        /\ StatsRoute("sqlite", "failures", {}, w).stats = FailureStats(w)
        /\ \A p : StatsCommand("sqlite", "cost", {p}, w).stats = CostStats({p}, w)
    BY DEF StatsRoute, StatsCommand, Stats
  <2>2. CostStats({}, w).totalCost <= CostStats({}, {}).totalCost
    <3>1. /\ CostStats({}, w).totalCost = CostOf(Ids(w))
          /\ CostStats({}, {}).totalCost = CostOf(DOMAIN corpus) /\ Ids(w) \in SUBSET DOMAIN corpus
      BY <1>1, Unfiltered
    <3>2. CostOf(Ids(w)) = Part(Costs, Ids(w)) /\ CostOf(DOMAIN corpus) = Part(Costs, DOMAIN corpus)
      BY <1>1, <3>1, StoredRuns
    <3>3. Part(Costs, Ids(w)) <= Part(Costs, DOMAIN corpus)
      BY <1>1, <3>1, StoredRuns, TotalOfPart
    <3> QED BY <3>1, <3>2, <3>3
  <2> QED BY <1>1, <2>1, <2>2, DaysAddUp, PipelinesAddUp, ProvidersAddUp
<1> QED BY <1>1, RunsAreStored, PTL

-----------------------------------------------------------------------------
(***************************************************************************)
(* The diff of two stored runs.                                            *)
(***************************************************************************)

\* The result that stays in the map is the newest one of its channel.
LEMMA LastIsNewest ==
  ASSUME NEW r \in RunSet, NEW c \in ChannelIds(r)
  PROVE  /\ LastOf(r, c) \in DOMAIN r.results /\ r.results[LastOf(r, c)].channel = c
         /\ LastOf(r, c) = Max({k \in DOMAIN r.results : r.results[k].channel = c})
<1> DEFINE S == {k \in DOMAIN r.results : r.results[k].channel = c}
           Last(i) == i \in S /\ \A j \in DOMAIN r.results : j > i => r.results[j].channel # c
<1>1. IsFiniteSet(DOMAIN r.results) /\ DOMAIN r.results \subseteq Int
  BY RunCostNat, RunsAssumption
<1>2. S # {} /\ S \subseteq DOMAIN r.results /\ S \subseteq Int
  BY <1>1 DEF ChannelIds
<1>3. IsFiniteSet(S)
  BY <1>1, <1>2, FS_Subset
<1> DEFINE m == Max(S)
<1>4. m \in S /\ \A x \in S : x <= m
  <2> HIDE DEF S
  <2> QED BY <1>2, <1>3, Extremes
<1> HIDE DEF m
<1>5. Last(m)
  <2>1. \A j \in DOMAIN r.results : j > m => j \notin S
    BY <1>1, <1>2, <1>4
  <2> QED BY <1>4, <2>1
<1>6. LastOf(r, c) = CHOOSE i \in DOMAIN r.results : Last(i)
  BY DEF LastOf
<1>7. Last(LastOf(r, c))
  <2> HIDE DEF Last
  <2>1. m \in DOMAIN r.results
    BY <1>2, <1>4
  <2> QED BY <1>5, <1>6, <2>1
<1> DEFINE n == LastOf(r, c)
<1>8. n = m
  <2>1. n \in S /\ n <= m /\ ~(m > n)
    BY <1>4, <1>7
  <2> HIDE DEF n, S
  <2> QED BY <1>2, <1>4, <2>1
<1> QED BY <1>7, <1>8 DEF m

\* No field of two results differs exactly when what counts of them is equal.
LEMMA NothingDiffers ==
  ASSUME NEW a \in RunSet, NEW b \in RunSet, NEW c \in ChannelIds(a) \cap ChannelIds(b)
  PROVE  DiffChannel(ChannelMap(a)[c], ChannelMap(b)[c]) = {} <=> Newest(a, c) = Newest(b, c)
<1> DEFINE F == {"status", "schemaValid", "provider", "model"}
           x == a.results[LastOf(a, c)]
           y == b.results[LastOf(b, c)]
<1>1. LastOf(a, c) \in DOMAIN a.results /\ LastOf(b, c) \in DOMAIN b.results
  BY LastIsNewest
<1>2. ChannelMap(a)[c] = x /\ ChannelMap(b)[c] = y
  BY DEF ChannelMap
<1>3. OutputChanges(x.output, y.output) = {} <=> x.output = y.output
  BY <1>1, OutputChangesAssumption
<1>4. Newest(a, c) = [f \in F \cup {"output"} |-> x[f]] /\ Newest(b, c) = [f \in F \cup {"output"} |-> y[f]]
  BY LastIsNewest DEF Newest
<1> HIDE DEF x, y
<1>5. Newest(a, c) = Newest(b, c) <=> \A f \in F \cup {"output"} : x[f] = y[f]
  <2>1. ASSUME Newest(a, c) = Newest(b, c), NEW f \in F \cup {"output"} PROVE x[f] = y[f]
    <3>1. Newest(a, c)[f] = x[f] /\ Newest(b, c)[f] = y[f]
      BY <1>4
    <3> QED BY <2>1, <3>1
  <2>2. ASSUME \A f \in F \cup {"output"} : x[f] = y[f] PROVE Newest(a, c) = Newest(b, c)
    BY <1>4, <2>2
  <2> QED BY <2>1, <2>2
<1>6. DiffChannel(x, y) = {} <=> \A f \in F \cup {"output"} : x[f] = y[f]
  <2>1. DiffChannel(x, y) = {} <=> (\A f \in F : x[f] = y[f]) /\ OutputChanges(x.output, y.output) = {}
    BY DEF DiffChannel
  <2>2. (\A f \in F \cup {"output"} : x[f] = y[f]) <=> (\A f \in F : x[f] = y[f]) /\ x.output = y.output
    OBVIOUS
  <2> QED BY <1>3, <2>1, <2>2
<1> QED BY <1>2, <1>5, <1>6

\* When two runs count as identical.
Same(a, b) ==
  /\ a.pipeline = b.pipeline /\ a.status = b.status /\ a.valid = b.valid
  /\ ChannelIds(a) = ChannelIds(b)
  /\ \A c \in ChannelIds(a) : Newest(a, c) = Newest(b, c)

\* What the diff says of two runs.
LEMMA IdenticalIsSame ==
  ASSUME NEW a \in RunSet, NEW b \in RunSet
  PROVE  /\ TryDiff(a, b).identical \in BOOLEAN
         /\ TryDiff(a, b).identical <=> Same(a, b)
         /\ TryDiff(a, b).onlyA = IF a.pipeline = b.pipeline THEN ChannelIds(a) \ ChannelIds(b) ELSE {}
         /\ TryDiff(a, b).onlyB = IF a.pipeline = b.pipeline THEN ChannelIds(b) \ ChannelIds(a) ELSE {}
<1>1. CASE a.pipeline # b.pipeline
  BY <1>1 DEF TryDiff, Same
<1>2. CASE a.pipeline = b.pipeline
  <2> DEFINE A == ChannelIds(a)
             B == ChannelIds(b)
             D(c) == DiffChannel(ChannelMap(a)[c], ChannelMap(b)[c])
             fields == [c \in A \cap B |-> D(c)]
             same == /\ Outcome(a, b) = {} /\ (A \ B) \cup (B \ A) = {}
                     /\ \A c \in A \cap B : fields[c] = {}
  <2>1. DOMAIN ChannelMap(a) = A /\ DOMAIN ChannelMap(b) = B
    BY DEF ChannelMap
  <2>2. TryDiff(a, b) = [comparable |-> TRUE, onlyA |-> A \ B, onlyB |-> B \ A, fields |-> fields,
                         run |-> Outcome(a, b), total |-> Delta(TotalCost(a), TotalCost(b)),
                         identical |-> same]
    BY <1>2, <2>1, Zenon DEF TryDiff, Diff
  <2>3. Outcome(a, b) = {} <=> a.status = b.status /\ a.valid = b.valid
    BY DEF Outcome
  <2>4. (A \ B) \cup (B \ A) = {} <=> A = B
    OBVIOUS
  <2>5. \A c \in A \cap B : fields[c] = {} <=> Newest(a, c) = Newest(b, c)
    BY NothingDiffers
  <2>6. same <=> Same(a, b)
    <3> HIDE DEF A, B, fields
    <3> QED BY <1>2, <2>3, <2>4, <2>5 DEF Same, A, B
  <2>7. same \in BOOLEAN
    OBVIOUS
  <2> HIDE DEF same, fields
  <2>8. TryDiff(a, b).identical = same /\ TryDiff(a, b).onlyA = A \ B /\ TryDiff(a, b).onlyB = B \ A
    BY <2>2
  <2> QED BY <1>2, <2>6, <2>7, <2>8
<1> QED BY <1>1, <1>2

\* The results in the map are some of those that the statistics count, and all of
\* them when no channel ran twice.
LEMMA TotalWithinRunCost ==
  ASSUME NEW r \in RunSet
  PROVE  /\ TotalCost(r) <= RunCost(r)
         /\ Cardinality(ChannelIds(r)) = Len(r.results) => TotalCost(r) \in {Null, RunCost(r)}
<1> DEFINE T == CostedResults(r)
           f == [i \in T |-> r.results[i].cost]
           S == CostedChannels(r)
           h == [c \in S |-> LastOf(r, c)]
           g == [k \in DOMAIN r.results |-> r.results[k].channel]
<1>1. IsFiniteSet(T) /\ RunCost(r) \in Nat /\ RunCost(r) = Part(f, T) /\ \A i \in T : f[i] \in Nat
  BY RunCostNat DEF RunCost, Part
<1>2. T = {i \in DOMAIN r.results : r.results[i].cost # Null}
  BY DEF CostedResults
<1>3. IsFiniteSet(ChannelIds(r)) /\ ChannelIds(r) = {g[k] : k \in DOMAIN r.results}
  <2>1. ChannelIds(r) = {g[k] : k \in DOMAIN r.results}
    BY DEF ChannelIds
  <2> HIDE DEF g
  <2> QED BY <2>1, RunCostNat, ValuesFinite
<1>4. IsFiniteSet(S)
  BY <1>3, FS_Subset DEF CostedChannels
<1>5. \A c \in S : /\ c \in ChannelIds(r) /\ h[c] \in T /\ g[h[c]] = c
                   /\ f[h[c]] = ChannelMap(r)[c].cost
  BY <1>2, LastIsNewest DEF CostedChannels, ChannelMap
<1>6. CASE S = {}
  BY <1>1, <1>6 DEF TotalCost, Null
<1>7. CASE S # {}
  <2>1. TotalCost(r) = Total([c \in S |-> f[h[c]]])
    <3>1. [c \in S |-> ChannelMap(r)[c].cost] = [c \in S |-> f[h[c]]]
      BY <1>5
    <3> HIDE DEF f, h, S, g, T
    <3> QED BY <1>7, <3>1 DEF TotalCost, S
  <2> DEFINE U == {h[c] : c \in S}
  <2>2. U \in SUBSET T
    BY <1>5
  <2>3. Cardinality(ChannelIds(r)) = Len(r.results) => U = T
    <3> SUFFICES ASSUME Cardinality(ChannelIds(r)) = Len(r.results), NEW i \in T PROVE i \in U
      BY <2>2
    <3>1. Cardinality(DOMAIN r.results) = Len(r.results) /\ IsFiniteSet(DOMAIN r.results)
      <4> DEFINE n == Len(r.results)
      <4>1. n \in Nat /\ DOMAIN r.results = 1..n
        BY RunsAssumption
      <4> HIDE DEF n
      <4>2. IsFiniteSet(1..n) /\ Cardinality(1..n) = n
        BY <4>1, FS_Interval
      <4> QED BY <4>1, <4>2 DEF n
    <3>2. g \in Surjection(DOMAIN r.results, ChannelIds(r))
      BY <1>3 DEF Surjection
    <3>3. g \in Injection(DOMAIN r.results, ChannelIds(r))
      <4> HIDE DEF g
      <4> QED BY <3>1, <3>2, FS_SurjSameCardinalityImpliesInj
    <3> DEFINE c == g[i]
    <3>4. c \in ChannelIds(r) /\ i \in DOMAIN r.results
      BY <1>2, <1>3
    <3>5. LastOf(r, c) \in DOMAIN r.results /\ g[LastOf(r, c)] = c
      BY <3>4, LastIsNewest
    <3>6. LastOf(r, c) = i
      <4> DEFINE n == LastOf(r, c)
      <4>1. \A x, y \in DOMAIN r.results : g[x] = g[y] => x = y
        <5> HIDE DEF g
        <5> QED BY <3>3 DEF Injection, IsInjective
      <4>2. n \in DOMAIN r.results /\ g[n] = g[i]
        BY <3>5
      <4> HIDE DEF g, n
      <4> QED BY <3>4, <4>1, <4>2 DEF n
    <3>7. c \in S
      <4>1. ChannelMap(r)[c] = r.results[i]
        BY <3>4, <3>6 DEF ChannelMap
      <4> QED BY <1>2, <3>4, <4>1 DEF CostedChannels
    <3> QED BY <3>6, <3>7
  <2> HIDE DEF f, h, S, T, g, U
  <2>4. TotalCost(r) = Part(f, U)
    <3>1. \A c, d \in S : h[c] = h[d] => c = d
      BY <1>5
    <3> QED BY <1>1, <1>4, <1>5, <2>1, <3>1, TotalMoved DEF U
  <2>5. Part(f, U) <= Part(f, T)
    BY <1>1, <2>2, TotalOfPart
  <2> QED BY <1>1, <2>3, <2>4, <2>5
<1> QED BY <1>6, <1>7

\* Two runs count as identical when their pipelines, outcomes and newest results
\* agree, in either order, and no total exceeds what the statistics count.
THEOREM DiffsAreSound == CorpusSpec => []DiffSound
<1>1. ASSUME Stored PROVE DiffSound
  <2> SUFFICES ASSUME NEW i \in DOMAIN corpus, NEW j \in DOMAIN corpus,
                      NEW a, a = corpus[i], NEW b, b = corpus[j]
               PROVE  /\ DiffCommand(i, j) = (IF DiffRoute(i, j).code = 200
                                             THEN [exit |-> 0, diff |-> DiffRoute(i, j).diff] ELSE [exit |-> 1])
                      /\ TryDiff(a, b).identical <=> Same(a, b)
                      /\ TryDiff(a, b).identical = TryDiff(b, a).identical
                      /\ TryDiff(a, b).onlyA = TryDiff(b, a).onlyB
                      /\ TotalCost(a) <= RunCost(a)
                      /\ Cardinality(ChannelIds(a)) = Len(a.results) => TotalCost(a) \in {Null, RunCost(a)}
    BY DEF DiffSound, Same
  <2>1. a \in RunSet /\ b \in RunSet
    BY <1>1, StoredRuns
  <2>2. DiffCommand(i, j) = (IF DiffRoute(i, j).code = 200
                            THEN [exit |-> 0, diff |-> DiffRoute(i, j).diff] ELSE [exit |-> 1])
    <3>1. {i, j} \subseteq DOMAIN corpus
      OBVIOUS
    <3>2. CASE corpus[i].pipeline # corpus[j].pipeline
      BY <3>1, <3>2 DEF DiffCommand, DiffRoute
    <3>3. CASE corpus[i].pipeline = corpus[j].pipeline
      <4>1. DiffRoute(i, j) = [code |-> 200, diff |-> Diff(corpus[i], corpus[j])]
        BY <3>1, <3>3 DEF DiffRoute
      <4>2. DiffCommand(i, j) = [exit |-> 0, diff |-> Diff(corpus[i], corpus[j])]
        BY <3>1, <3>3 DEF DiffCommand
      <4>3. DiffRoute(i, j).code = 200 /\ DiffRoute(i, j).diff = Diff(corpus[i], corpus[j])
        BY <4>1
      <4> QED BY <4>2, <4>3
    <3> QED BY <3>2, <3>3
  <2>3. Same(a, b) <=> Same(b, a)
    BY DEF Same
  <2>4. TryDiff(a, b).identical <=> Same(a, b)
    BY <2>1, IdenticalIsSame
  <2>5. TryDiff(a, b).identical = TryDiff(b, a).identical
    <3> DEFINE x == TryDiff(a, b).identical
               y == TryDiff(b, a).identical
    <3>1. x \in BOOLEAN /\ y \in BOOLEAN /\ (y <=> Same(b, a))
      BY <2>1, IdenticalIsSame
    <3>2. x <=> y
      BY <2>3, <2>4, <3>1
    <3> HIDE DEF x, y
    <3>3. x = y
      BY <3>1, <3>2
    <3> QED BY <3>3 DEF x, y
  <2>6. TryDiff(a, b).onlyA = TryDiff(b, a).onlyB
    <3>1. TryDiff(a, b).onlyA = IF a.pipeline = b.pipeline THEN ChannelIds(a) \ ChannelIds(b) ELSE {}
      BY <2>1, IdenticalIsSame
    <3>2. TryDiff(b, a).onlyB = IF b.pipeline = a.pipeline THEN ChannelIds(a) \ ChannelIds(b) ELSE {}
      BY <2>1, IdenticalIsSame
    <3> QED BY <3>1, <3>2
  <2>7. /\ TotalCost(a) <= RunCost(a)
        /\ Cardinality(ChannelIds(a)) = Len(a.results) => TotalCost(a) \in {Null, RunCost(a)}
    BY <2>1, TotalWithinRunCost
  <2> QED BY <2>2, <2>4, <2>5, <2>6, <2>7
<1> QED BY <1>1, RunsAreStored, PTL
=============================================================================
