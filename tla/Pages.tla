------------------------------- MODULE Pages -------------------------------
(***************************************************************************)
(* Pages of an ordered list: what a store cuts out of its sorted records,  *)
(* how many pages a view counts, and where the pagination links of a page  *)
(* lead (links.rs).  Records are numbered in the order of the list.        *)
(***************************************************************************)
EXTENDS Integers, FiniteSets

None == -1                        \* a link that is null

Least(a, b)    == IF a <= b THEN a ELSE b
Greatest(a, b) == IF a >= b THEN a ELSE b

Rank(records, x) == Cardinality({y \in records : y < x})

(* Mutant: a page takes one record too many. *)
PageInclusive(records, offset, limit) ==
    {x \in records : offset <= Rank(records, x) /\ Rank(records, x) <= offset + limit}

Page(records, offset, limit) ==
    {x \in records : offset <= Rank(records, x) /\ Rank(records, x) < offset + limit}

Ceiling(total, limit)    == (total + limit - 1) \div limit

(* Mutant: a total that fills its pages counts one more. *)
TotalPagesFloor(total, limit) == total \div limit + 1

TotalPages(total, limit) == Greatest(1, Ceiling(total, limit))

(* The links of the page at offset; max is the greatest offset a request   *)
(* can name (u32::MAX in the code).                                        *)
LastRequestable(limit, max) == (max \div limit) * limit

(* Mutant: the last page of a total that fills its pages is the empty one after it. *)
LastOffsetFloor(limit, total, max) ==
    Least((total \div limit) * limit, LastRequestable(limit, max))

LastOffset(limit, total, max) ==
    IF total = 0 THEN 0
    ELSE Least(((total - 1) \div limit) * limit, LastRequestable(limit, max))

PrevOffset(offset, limit, total, max) ==
    IF offset = 0 THEN None
    ELSE IF offset >= total THEN LastOffset(limit, total, max)
    ELSE Greatest(0, offset - limit)
NextOffset(offset, limit, total, max) ==
    IF offset + limit >= total \/ offset + limit > LastRequestable(limit, max) THEN None
    ELSE offset + limit
=============================================================================
