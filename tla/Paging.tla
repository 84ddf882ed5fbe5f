------------------------------- MODULE Paging -------------------------------
(***************************************************************************)
(* The pages of the three listings: SCAN of keys (Store.Scan), the list of *)
(* a collection (QueryDocs) and the query of a collection by index         *)
(* (queryDocsByIndex), in internal/store/sqlstore and d1store. Names are   *)
(* numbers, in the order of ORDER BY. The cursor is the last name of a     *)
(* page; Origin stands for "0" of SCAN and for "" of the documents, which  *)
(* begin a listing and end it.                                             *)
(***************************************************************************)
EXTENDS Naturals, Sequences, FiniteSets, FiniteSetsExt

CONSTANTS
    Names,          \* keys, or ids of documents
    Zero,           \* the key that is spelled "0", if it is one of Names
    Count           \* COUNT, or limit

ASSUME PagingAssumption ==
    /\ Names \subseteq Nat \ {0} /\ IsFiniteSet(Names)
    /\ Count \in Nat \ {0}

Origin == 0

(* SELECT ... WHERE name > cursor ORDER BY name ASC LIMIT n. Mutant: >=. *)
FirstFrom(set, cursor, n) ==
    LET after == {x \in set : x >= cursor}
    IN  {x \in after : Cardinality({y \in after : y < x}) < n}

FirstAfter(set, cursor, n) ==
    LET after == {x \in set : x > cursor}
    IN  {x \in after : Cardinality({y \in after : y < x}) < n}

(* The rows of one answer, and the cursor it gives. *)
Answer(rows, next) == [rows |-> rows, next |-> next]

(* Scan: a full page may have another after it. Mutant: the cursor is the  *)
(* name after the last.                                                    *)
ScanPagePast(visible, cursor) ==
    LET rows == FirstAfter(visible, cursor, Count)
    IN  Answer(rows, IF Cardinality(rows) < Count THEN Origin ELSE Max(rows) + 1)

ScanPage(visible, cursor) ==
    LET rows == FirstAfter(visible, cursor, Count)
        last == Max(rows)
    IN  Answer(rows, IF Cardinality(rows) < Count \/ last = Zero THEN Origin ELSE last)

(* docQueryResult: of limit + 1 rows the last only tells that there is more. *)
DocQueryResult(rows) ==
    LET shown == FirstAfter(rows, Origin, Count)
    IN  Answer(shown, IF Cardinality(rows) > Count THEN Max(shown) ELSE Origin)

(* Mutant: the row too many moves the cursor. *)
ListPageSkips(visible, cursor) ==
    LET rows == FirstAfter(visible, cursor, Count + 1)
    IN  Answer(FirstAfter(rows, Origin, Count),
               IF Cardinality(rows) > Count THEN Max(rows) ELSE Origin)

ListPage(visible, cursor) == DocQueryResult(FirstAfter(visible, cursor, Count + 1))

(* queryDocsByIndex: index rows first, then those whose document is there, *)
(* live and, with a search, a match.                                       *)
IndexPage(indexed, cursor) == FirstAfter(indexed, cursor, Count + 1)
FindPage(ids, visible) == DocQueryResult(ids \cap visible)
=============================================================================
