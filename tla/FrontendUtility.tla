--------------------------- MODULE FrontendUtility ---------------------------
(***************************************************************************)
(* The pure helpers of the frontend: the ranges and groups of utility.ts,  *)
(* the page counts of the pages with a pager, and which links a pager      *)
(* offers (PageSelector.svelte).                                           *)
(***************************************************************************)
EXTENDS Integers, Sequences, SequencesExt

\* Mutant of PagesFor: rounded down.
PagesForFull(count, size) == count \div size

(* Math.ceil(count / size). *)
PagesFor(count, size) == (count + size - 1) \div size

RangeTo(startIndex, endIndex) == startIndex..(endIndex - 1)

-----------------------------------------------------------------------------
(* Groups of boards by category: a group per category, in the order of      *)
(* their first boards, as xs.reduce builds them.                            *)

\* Mutant of AddToGroup: only the last group is looked at.
AddToLastGroup(groups, x, key) ==
  IF groups # <<>> /\ Last(groups).key = key
    THEN [groups EXCEPT ![Len(groups)].values = Append(@, x)]
    ELSE Append(groups, [key |-> key, values |-> <<x>>])

AddToGroup(groups, x, key) ==
  LET found == {i \in DOMAIN groups : groups[i].key = key}
  IN  IF found # {}
        THEN [i \in DOMAIN groups |-> IF i \in found
                THEN [groups[i] EXCEPT !.values = Append(@, x)] ELSE groups[i]]
        ELSE Append(groups, [key |-> key, values |-> <<x>>])

GroupByArray(xs) ==
  FoldLeft(LAMBDA groups, x : AddToGroup(groups, x, x.category), <<>>, xs)

(* IndexPage.svelte's own way: the distinct categories, then a filter each. *)
AddCategory(seen, x) ==
  IF Contains(seen, x.category) THEN seen ELSE Append(seen, x.category)

UniqueCategories(boards) == FoldLeft(AddCategory, <<>>, boards)

Keep(kept, x, category) == IF x.category = category THEN Append(kept, x) ELSE kept

OfCategory(boards, category) ==
  FoldLeft(LAMBDA kept, x : Keep(kept, x, category), <<>>, boards)

IndexGroups(boards) ==
  [i \in DOMAIN UniqueCategories(boards) |->
     [key |-> UniqueCategories(boards)[i],
      values |-> OfCategory(boards, UniqueCategories(boards)[i])]]

-----------------------------------------------------------------------------
(* PageSelector: goToPageHandler dispatches the pages from 0 to maxPage. *)
DispatchedPages(maxPage) == 0..maxPage

(* The links one can click: Previous and Next unless they are disabled, the *)
(* first page, the page with its neighbours, and the last page.             *)
OfferedPages(currentPage, maxPage) ==
  {page \in DispatchedPages(maxPage) :
     \/ page = currentPage - 1 /\ currentPage > 1
     \/ page = 1 /\ currentPage > 2
     \/ page \in RangeTo(currentPage - 1, currentPage + 2) /\ page >= 1
     \/ page = maxPage /\ currentPage < maxPage - 1
     \/ page = currentPage + 1 /\ currentPage < maxPage}

(* Those a keyboard reaches too: a disabled link still has its handler.     *)
FocusablePages(currentPage, maxPage) ==
  OfferedPages(currentPage, maxPage)
    \union (DispatchedPages(maxPage) \intersect {currentPage - 1, currentPage + 1})

=============================================================================
