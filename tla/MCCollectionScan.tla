--------------------------- MODULE MCCollectionScan ---------------------------
(***************************************************************************)
(* CollectionScan with one predicate of each kind, over three documents.   *)
(***************************************************************************)
EXTENDS CollectionScan

Pred(claim, sql, match) == [claim |-> claim, sql |-> sql, match |-> match]

AllPredicates == {Pred("Exact", {1, 2}, {1, 2}),
                  Pred("Inexact", {2}, {2, 3}),
                  Pred("Unsupported", {1, 2}, Ids)}

\* Every _id an ObjectId; or strings among them, which sort first.
ObjectIds == [i \in Ids |-> 7]
StringsFirst == [i \in Ids |-> IF i <= 2 THEN 2 ELSE 7]
===============================================================================
