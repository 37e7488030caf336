--------------------------- MODULE PublishedData ---------------------------
(***************************************************************************)
(* What a data directory promises its readers: nothing is published at     *)
(* first.  Then a sync collects one importable file per dataset, and what  *)
(* is published is replaced by all that this sync has collected, in one    *)
(* step, or not at all: the datasets of two syncs are never mixed, and     *)
(* an abandoned sync changes nothing.                                      *)
(***************************************************************************)
CONSTANTS Datasets,   \* the datasets readers query
          Importable, \* the payloads the importers accept
          None        \* nothing collected, or nothing published yet

VARIABLES candidate,  \* what the sync that is going on has collected
          published   \* what readers are given

Empty == [d \in Datasets |-> None]

Init == candidate = Empty /\ published = None

\* A file of a dataset that has none yet.
Collect(d, x) ==
  /\ candidate[d] = None
  /\ candidate' = [candidate EXCEPT ![d] = x]
  /\ UNCHANGED published

\* The whole of what was collected replaces the whole of what was published.
Publish ==
  /\ \A d \in Datasets : candidate[d] # None
  /\ published' = candidate
  /\ candidate' = Empty

Abandon == candidate' = Empty /\ UNCHANGED published

Next == \/ \E d \in Datasets, x \in Importable : Collect(d, x)
        \/ Publish
        \/ Abandon

Spec == Init /\ [][Next]_<<candidate, published>>
=============================================================================
