--------------------------- MODULE MCUpdateChecker ---------------------------
(***************************************************************************)
(* Model-checking instance of UpdateChecker.                               *)
(***************************************************************************)
EXTENDS UpdateChecker, TLC

Text(n) == Identifier(FALSE, n)
Number(n) == Identifier(TRUE, n)

\* Versions in the order of the SemVer specification, oldest first; the
\* second list is that of tests/test_update.py:122-131, its words numbered
\* alpha, beta, rc.
Ladder ==
  <<Version(1, 0, 0, <<Number(9)>>),
    Version(1, 0, 0, <<Text(1)>>),
    Version(1, 0, 0, <<Text(1), Number(2)>>),
    Version(1, 0, 0, <<>>),
    Version(1, 0, 10, <<>>)>>

Tested ==
  <<Version(1, 0, 0, <<Text(1)>>),
    Version(1, 0, 0, <<Text(1), Number(1)>>),
    Version(1, 0, 0, <<Text(1), Text(2)>>),
    Version(1, 0, 0, <<Text(2)>>),
    Version(1, 0, 0, <<Text(2), Number(2)>>),
    Version(1, 0, 0, <<Text(2), Number(11)>>),
    Version(1, 0, 0, <<Text(3), Number(1)>>),
    Version(1, 0, 0, <<>>)>>

\* The reference order puts them in this order.
ASSUME ReferenceOrder ==
  \A list \in {Ladder, Tested} :
    \A i, j \in DOMAIN list : i < j <=> Earlier(list[i], list[j])

MCCurrent == Ladder[3]

Raw(i, draft, flag, assets, verified) ==
  [version |-> Ladder[i], draft |-> draft, flag |-> flag, assets |-> assets,
   verified |-> verified]
Good(i) == Raw(i, FALSE, IsPrerelease(Ladder[i]), 1, TRUE)

Single(raw) == [shape |-> "object", releases |-> {raw}]
Listing(raws) == [shape |-> "list", releases |-> raws]

MCPublications ==
  {[shape |-> "missing", releases |-> {}],
   Single(Good(4)), Single(Raw(2, FALSE, FALSE, 1, TRUE)),
   Listing({Good(1), Good(3), Good(5), Raw(5, TRUE, FALSE, 1, TRUE),
            Raw(4, FALSE, FALSE, 2, TRUE)})}

Symmetry == Permutations(Threads)
=============================================================================
