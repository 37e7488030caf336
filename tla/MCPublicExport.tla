--------------------------- MODULE MCPublicExport ---------------------------
(***************************************************************************)
(* A model-checking instance of PublicExport.  The FCA first publishes one *)
(* of many sets of files: every short file of named disclosures, every     *)
(* short history of ANSP states, and the ways two files may name the       *)
(* issuers of three shares.  Then it publishes one of three full sets.     *)
(* Requests and exporters run on the full sets only, between which states  *)
(* end, an ISIN leaves the list of shares or comes back with another date, *)
(* and an issuer has two current states.                                   *)
(***************************************************************************)
EXTENDS PublicExport, TLC

CONSTANTS x, y, z, m, n, h1, h2, e1, e2

MCIsins == {x, y, z}
MCNames == {m, n}
MCDates == 1 .. 4

Empty == [d \in Datasets |-> <<>>]
Files(rows, len) == BoundedSeq(rows, len)

Disclosure(isin, name, holder, bp, date) ==
  [isin |-> isin, name |-> name, holder |-> holder, bp |-> bp, date |-> date]
Current(isin, bp, pos) == [isin |-> isin, name |-> m, bp |-> bp, pos |-> pos]
Historic(isin, bp, pos, became) ==
  [isin |-> isin, name |-> m, bp |-> bp, pos |-> pos, became |-> became]
Share(isin, name, added) == [isin |-> isin, name |-> name, added |-> added]

\* Two shares of an issuer, two holders; Threshold is 2.
Disclosures(holders, bps) ==
  {Disclosure(i, m, h, bp, d) : i \in {x, y}, h \in holders, bp \in bps, d \in 1 .. 2}
LegacyWorlds ==
  {[Empty EXCEPT !.legacy = f] :
     f \in Files(Disclosures({h1, h2}, 1 .. 3), 2) \union Files(Disclosures({h1}, {1, 2}), 3)}

\* InitialPosition is 2 and FirstPublished is 3.
AnspWorlds ==
  {[rsl |-> <<Share(x, m, added)>>, current |-> c, historic |-> f, legacy |-> <<>>] :
     added \in {None, 4},
     c \in {<<>>, <<Current(y, 3, 1)>>, <<Current(y, 4, 3), Current(x, 3, 3)>>},
     f \in Files({Historic(i, bp, pos, became) :
                    i \in {x, y}, bp \in {1, 2}, pos \in {1, 3}, became \in 2 .. 4}, 2)}

\* Three shares and two names over two files.
NamedShares == {Share(i, a, None) : i \in MCIsins, a \in MCNames}
IdentityWorlds ==
  {[Empty EXCEPT !.rsl = f, !.legacy = g] :
     f \in Files(NamedShares, 2),
     g \in Files({Disclosure(i, a, h1, 2, 1) : i \in MCIsins, a \in MCNames}, 2)}

\* A state of x ends in the second; y, with a state of its own, has taken its
\* place on the list of shares.  In the third x is on it anew since 4.
MCRevisions ==
  {[rsl |-> <<Share(x, m, None)>>, current |-> <<Current(x, 2, 3)>>,
    historic |-> <<Historic(x, 1, 1, 3)>>, legacy |-> <<Disclosure(x, m, h1, 2, 1)>>],
   [rsl |-> <<Share(y, m, None)>>, current |-> <<Current(x, 3, 4), Current(y, 1, 3)>>,
    historic |-> <<Historic(x, 1, 1, 3), Historic(x, 2, 3, 4)>>,
    legacy |-> <<Disclosure(x, m, h1, 2, 1)>>],
   [rsl |-> <<Share(x, n, 4)>>, current |-> <<Current(x, 3, 4)>>,
    historic |-> <<Historic(x, 2, 1, 4)>>,
    legacy |-> <<Disclosure(z, n, h1, 2, 1), Disclosure(x, n, h1, 3, 2)>>]}

MCFirstFiles == LegacyWorlds \union AnspWorlds \union IdentityWorlds \union MCRevisions

\* The action constraint: requests and exports run one kind at a time, and
\* only while nothing but full sets has been imported.
FullSets == \A s \in imported : \E w \in MCRevisions : s.file = w[s.dataset]
NoReader == \A r \in Readers : reader'[r].pc = "idle"
NoExporter == \A e \in Exporters : exporter'[e].pc = "idle"
OneKindOnFullSets ==
  /\ NoReader \/ NoExporter
  /\ FullSets \/ (NoReader /\ NoExporter)

Symmetry == Permutations({e1, e2})
=============================================================================
