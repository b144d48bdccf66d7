------------------------------ MODULE OutputDiff ------------------------------
(***************************************************************************)
(* diffParsed: the key-level diff of two outputs.                          *)
(***************************************************************************)
EXTENDS Naturals, Sequences, SequencesExt

CONSTANT Values  \* outputs that are compared

VARIABLES left, right  \* two outputs

outputVars == <<left, right>>

OutputInit == left \in Values /\ right \in Values

----------------------------------------------------------------------------
(* Outputs: a kind with a leaf's value, an object's function from its keys,*)
(* or an array's sequence.                                                 *)
Leaf(v) == <<"leaf", v>>
Object(f) == <<"object", f>>
Array(s) == <<"array", s>>
Kind(v) == v[1]
Keys(v) == IF Kind(v) = "leaf" THEN {} ELSE DOMAIN v[2]
SameContainer(a, b) == Kind(a) = Kind(b) /\ Kind(a) # "leaf"

\* One step of a path, and the change at a path.
Step(v, k) == <<Kind(v), k>>
Change(p, kind, a, b) == <<p, kind, a, b>>

\* Fault: arrays are walked up to the end of the shorter one.
Union_Shorter(a, b) == IF Kind(a) = "array" THEN Keys(a) \cap Keys(b) ELSE Keys(a) \cup Keys(b)

\* The keys of two containers of a kind that are walked.
Union(a, b) == Keys(a) \cup Keys(b)

RECURSIVE Walk(_, _, _)
Walk(a, b, p) ==
  IF SameContainer(a, b)
  THEN UNION {LET q == Append(p, Step(a, k))
              IN CASE k \notin Keys(b) -> {Change(q, "removed", a[2][k], Leaf("undefined"))}
                   [] k \notin Keys(a) -> {Change(q, "added", Leaf("undefined"), b[2][k])}
                   [] OTHER -> Walk(a[2][k], b[2][k], q) : k \in Union(a, b)}
  ELSE IF a = b THEN {} ELSE {Change(p, "changed", a, b)}

DiffParsed(a, b) == Walk(a, b, <<>>)

----------------------------------------------------------------------------
RECURSIVE Paths(_)
Paths(v) == {<<>>} \cup UNION {{<<Step(v, k)>> \o p : p \in Paths(v[2][k])} : k \in Keys(v)}
At(v, p) == FoldLeft(LAMBDA x, k : x[2][k[2]], v, p)

\* The changes of two outputs by their definition: a place is reported when
\* everything above it is the same kind of container in both, and it is in one
\* of them only, or in both, differs and is not walked into.
Changes(a, b) ==
  {Change(p,
          IF p \notin Paths(b) THEN "removed" ELSE IF p \notin Paths(a) THEN "added" ELSE "changed",
          IF p \in Paths(a) THEN At(a, p) ELSE Leaf("undefined"),
          IF p \in Paths(b) THEN At(b, p) ELSE Leaf("undefined")) :
     p \in {q \in Paths(a) \cup Paths(b) :
              /\ \A n \in 0..(Len(q) - 1) :
                   LET u == SubSeq(q, 1, n)
                   IN {u} \subseteq Paths(a) \cap Paths(b) /\ SameContainer(At(a, u), At(b, u))
              /\ q \in Paths(a) \cap Paths(b) => At(a, q) # At(b, q) /\ ~SameContainer(At(a, q), At(b, q))}}

\* The key-level diff reports each place where two outputs differ, once, as
\* high up as they differ, and nothing when they are equal.
DiffExplains ==
  /\ DiffParsed(left, right) = Changes(left, right)
  /\ DiffParsed(left, right) = {} <=> left = right
=============================================================================
