-------------------------- MODULE SemanticVersion --------------------------
(***************************************************************************)
(* SemanticVersion of update.py as data: a core of three numbers, written  *)
(* as numeric identifiers, and the pre-release identifiers.  Build         *)
(* metadata is dropped, as the comparison drops it; text identifiers are   *)
(* numbered in the order of their strings.                                 *)
(***************************************************************************)
EXTENDS Naturals, Sequences

Identifiers == [number : BOOLEAN, value : Nat]
Versions ==
  [core : [1 .. 3 -> [number : {TRUE}, value : Nat]], pre : Seq(Identifiers)]

Identifier(isNumber, value) == [number |-> isNumber, value |-> value]
Version(major, minor, patch, prerelease) ==
  [core |-> <<Identifier(TRUE, major), Identifier(TRUE, minor), Identifier(TRUE, patch)>>,
   pre |-> prerelease]

IsPrerelease(v) == v.pre # <<>>

\* Numbers are compared as numbers and come before text.
IdentifierPrecedes(a, b) ==
  IF a.number = b.number THEN a.value < b.value ELSE a.number

\* The first difference decides; a proper prefix comes first.
LexPrecedes(s, t) ==
  \E i \in 1 .. Len(t) :
    /\ i <= Len(s) + 1
    /\ \A j \in 1 .. (i - 1) : s[j] = t[j]
    /\ i <= Len(s) => IdentifierPrecedes(s[i], t[i])

\* Mutant: a release is compared like an empty list of identifiers.
PrecedesIgnoringRelease(l, r) ==
  \/ LexPrecedes(l.core, r.core)
  \/ l.core = r.core /\ LexPrecedes(l.pre, r.pre)

\* __lt__: the core first; a pre-release comes before its release.
Precedes(l, r) ==
  \/ LexPrecedes(l.core, r.core)
  \/ /\ l.core = r.core
     /\ IsPrerelease(l)
     /\ IsPrerelease(r) => LexPrecedes(l.pre, r.pre)

\* max(releases, key = version)
Newest(versions) ==
  CHOOSE v \in versions : \A w \in versions : ~Precedes(v, w)

-----------------------------------------------------------------------------
(* Reference order.  A version is read place by place: the three numbers,  *)
(* then its identifiers and the end of the list, or the mark of a release. *)
(* At the first place where two versions differ, an end comes before a     *)
(* number, a number before text, text before the mark of a release, and    *)
(* what is of one kind goes by value.                                      *)

Kind(v, i) ==
  CASE i <= 3                       -> 1
    [] i \in 4 .. (Len(v.pre) + 3)  -> IF v.pre[i - 3].number THEN 1 ELSE 2
    [] OTHER                        -> IF IsPrerelease(v) THEN 0 ELSE 3

Value(v, i) ==
  CASE i <= 3                       -> v.core[i].value
    [] i \in 4 .. (Len(v.pre) + 3)  -> v.pre[i - 3].value
    [] OTHER                        -> 0

Earlier(l, r) ==
  \E i \in 1 .. (Len(l.pre) + 4) :
    /\ \A j \in 1 .. (i - 1) : Kind(l, j) = Kind(r, j) /\ Value(l, j) = Value(r, j)
    /\ \/ Kind(l, i) < Kind(r, i)
       \/ Kind(l, i) = Kind(r, i) /\ Value(l, i) < Value(r, i)
=============================================================================
