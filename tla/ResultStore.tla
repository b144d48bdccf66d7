------------------------------ MODULE ResultStore ------------------------------
(***************************************************************************)
(* What a run leaves in a result store: one raw text per channel and       *)
(* provider, written while it executes, and its RunResult, saved at the    *)
(* end and, after an export or a replay, a second time.  The RunResult has *)
(* the results of the channels at every depth and those a resumed run      *)
(* carries along, but of the syntheses only the last.  The filesystem      *)
(* store writes run.json in place, the sqlite store in a transaction.  The *)
(* process may crash anywhere; other processes read at any time.  The      *)
(* projected sqlite tables are left out: nothing reads them back.          *)
(***************************************************************************)
EXTENDS Naturals, Sequences

CONSTANTS
  Width,     \* channels 1..Width in plan order, the synthesis among them
  RawKeys,   \* sanitized channel keys
  KeyOf,     \* channelKey of each channel, sanitized: two may share one
  Synths,    \* which of them may be the synthesis, 0 if there may be none
  Carried,   \* what a resumed run may carry along: sequences of channels
  MaxDepth,
  Backends   \* "filesystem", "sqlite"

ASSUME StoreAssumption ==
  /\ Width \in Nat /\ MaxDepth \in Nat \ {0}
  /\ KeyOf \in [1..Width -> RawKeys]
  /\ Synths \subseteq 0..Width /\ Carried \subseteq Seq(1..Width)
  /\ Backends \subseteq {"filesystem", "sqlite"}

VARIABLES
  backend, synth,  \* never change
  doc,      \* run.json or the row of the run
  saved,    \* history: the last version whose saveRun has returned
  raws,     \* raw text by key: which answer it is
  answers,  \* history: the answers given in this run
  results,  \* RunResult.channels; depth 0 marks a carried one
  synthesis,    \* RunResult.synthesis
  depth, done,  \* the depth; how each channel ended at it
  wpc       \* where its process is

settings == <<backend, synth>>
report == <<results, synthesis>>
storeVars == <<settings, doc, saved, raws, answers, report, depth, done, wpc>>

Channels == 1..Width
NoAnswer == [unit |-> 0, depth |-> 0]
Running == {"none", "null", "ok", "error", "recorded"}
Absent == "absent"
Torn == "torn"
First == "first"
Second == "second"
NoResult == [unit |-> 0, depth |-> 0, ref |-> FALSE]

\* Carried results are spliced in as they are, with the references they had in
\* the run they come from; at depth 1 their channels are not executed.
StoreInit ==
  /\ backend \in Backends /\ synth \in Synths
  /\ doc = Absent /\ saved = Absent
  /\ raws = [k \in RawKeys |-> NoAnswer] /\ answers = {}
  /\ \E c \in Carried :
       LET brought == {c[i] : i \in DOMAIN c}
       IN /\ synth \notin brought
          /\ results = [i \in DOMAIN c |-> [unit |-> c[i], depth |-> 0, ref |-> TRUE]]
          /\ done = [u \in Channels |-> IF u \in brought THEN "null" ELSE "none"]
  /\ synthesis = NoResult /\ depth = 1
  /\ wpc = "run"

\* getRun: an unreadable or half-written document is no run.
GetRun == IF doc = Torn THEN Absent ELSE doc

\* The results a reader of the run goes through, the synthesis last.
Reported == IF synthesis = NoResult THEN results ELSE Append(results, synthesis)

\* getRawOutput of a result: looked up among the texts of this run.
RawOf(r) == IF r.ref THEN raws[KeyOf[r.unit]] ELSE NoAnswer

\* Fault: a key that is already taken keeps its first text.
SaveRawOutput_FirstWins(u) ==
  raws' = [raws EXCEPT ![KeyOf[u]] = IF @ = NoAnswer THEN [unit |-> u, depth |-> depth] ELSE @]

\* saveRawOutput: overwrites what the key holds.
SaveRawOutput(u) == raws' = [raws EXCEPT ![KeyOf[u]] = [unit |-> u, depth |-> depth]]

\* The synthesis runs when all channels of the depth are through.
MayRun(u) ==
  wpc = "run" /\ done[u] = "none" /\ (u = synth => \A v \in Channels \ {u} : done[v] # "none")

\* A channel settles, with a reference if its raw text was saved.
Answer(u) ==
  /\ MayRun(u)
  /\ SaveRawOutput(u)
  /\ answers' = answers \cup {[unit |-> u, depth |-> depth]}
  /\ done' = [done EXCEPT ![u] = "ok"]
  /\ UNCHANGED <<settings, doc, saved, report, depth, wpc>>

Error(u) ==
  /\ MayRun(u)
  /\ done' = [done EXCEPT ![u] = "error"]
  /\ UNCHANGED <<settings, doc, saved, raws, answers, report, depth, wpc>>

\* A policy, a halt or an abort keeps it from running.
NotRun(u) ==
  /\ MayRun(u)
  /\ done' = [done EXCEPT ![u] = "null"]
  /\ UNCHANGED <<settings, doc, saved, raws, answers, report, depth, wpc>>

\* recordCompleted, in plan order, when no channel is out; a synthesis replaces
\* that of the depth before.
Record(u) ==
  /\ wpc = "run" /\ \A v \in Channels : done[v] # "none"
  /\ done[u] \in {"ok", "error"} /\ \A v \in 1..(u - 1) : done[v] \notin {"ok", "error"}
  /\ LET new == [unit |-> u, depth |-> depth, ref |-> done[u] = "ok"]
     IN IF u = synth THEN synthesis' = new /\ results' = results
        ELSE results' = Append(results, new) /\ synthesis' = synthesis
  /\ done' = [done EXCEPT ![u] = "recorded"]
  /\ UNCHANGED <<settings, doc, saved, raws, answers, depth, wpc>>

\* Everything is recorded: another depth, or the end.
EndDepth ==
  /\ wpc = "run" /\ \A u \in Channels : done[u] \in {"null", "recorded"}
  /\ \/ /\ depth < MaxDepth
        /\ depth' = depth + 1 /\ done' = [u \in Channels |-> "none"] /\ wpc' = wpc
     \/ wpc' = "save" /\ UNCHANGED <<depth, done>>
  /\ UNCHANGED <<settings, doc, saved, raws, answers, report>>

----------------------------------------------------------------------------
Saving == wpc \in {"save", "again"}
Version == IF wpc \in {"save", "write"} THEN First ELSE Second

\* writeFile truncates, then writes.
Truncate ==
  /\ backend = "filesystem" /\ Saving
  /\ doc' = Torn
  /\ wpc' = IF wpc = "save" THEN "write" ELSE "rewrite"
  /\ UNCHANGED <<settings, saved, raws, answers, report, depth, done>>

WriteRun ==
  /\ wpc \in {"write", "rewrite"}
  /\ doc' = Version /\ saved' = Version
  /\ wpc' = IF wpc = "write" THEN "saved" ELSE "over"
  /\ UNCHANGED <<settings, raws, answers, report, depth, done>>

\* Fault: the row is replaced by a delete and an insert outside a transaction.
Transaction_Split ==
  /\ backend = "sqlite" /\ Saving
  /\ doc' = Torn
  /\ wpc' = IF wpc = "save" THEN "write" ELSE "rewrite"
  /\ UNCHANGED <<settings, saved, raws, answers, report, depth, done>>

Transaction ==
  /\ backend = "sqlite" /\ Saving
  /\ doc' = Version /\ saved' = Version
  /\ wpc' = IF wpc = "save" THEN "saved" ELSE "over"
  /\ UNCHANGED <<settings, raws, answers, report, depth, done>>

StoreCrash ==
  /\ wpc \notin {"over", "dead", "dying"}
  /\ wpc' = IF wpc \in {"write", "rewrite"} THEN "dying" ELSE "dead"
  /\ UNCHANGED <<settings, doc, saved, raws, answers, report, depth, done>>

StoreNext ==
  \/ \E u \in Channels : Answer(u) \/ Error(u) \/ NotRun(u) \/ Record(u)
  \/ EndDepth \/ Truncate \/ WriteRun \/ Transaction \/ StoreCrash

----------------------------------------------------------------------------
Results == [unit : Channels, depth : Nat, ref : BOOLEAN]

StoreTypeOK ==
  /\ backend \in Backends /\ synth \in Synths /\ doc \in {Absent, Torn, First, Second}
  /\ saved \in {Absent, First, Second}
  /\ raws \in [RawKeys -> [unit : 0..Width, depth : 0..MaxDepth]]
  /\ answers \subseteq [unit : Channels, depth : 1..MaxDepth]
  /\ results \in Seq(Results) /\ synthesis \in Results \cup {NoResult}
  /\ depth \in 1..MaxDepth /\ done \in [Channels -> Running]
  /\ wpc \in {"run", "save", "write", "saved", "again", "rewrite", "over", "dead", "dying"}

\* A reader gets what was written last.  Of the run it gets the version that was
\* saved last; it gets none although one was saved only while, in the filesystem
\* store, a second save is under way or was cut short by a crash, with sqlite
\* never.  And the reference of a result leads to the newest answer given in this
\* run under its key, which may be one that is no longer in the report: of another
\* channel that shares the key, or of a later depth whose synthesis failed or was
\* replaced.  A result of this run never leads to nothing, a carried one does
\* unless something was written under its key again.
ReadsNewest ==
  /\ \/ GetRun = saved
     \/ backend = "filesystem" /\ GetRun = Absent /\ wpc \in {"rewrite", "dying"}
  /\ \A i \in DOMAIN Reported :
       LET result == Reported[i]
           rivals == {a \in answers : KeyOf[a.unit] = KeyOf[result.unit]}
       IN result.ref =>
            /\ result.depth > 0 => [unit |-> result.unit, depth |-> result.depth] \in rivals
            /\ IF rivals = {} THEN RawOf(result) = NoAnswer
               ELSE /\ RawOf(result) \in rivals
                    /\ \A a \in rivals : a.depth <= RawOf(result).depth
=============================================================================
