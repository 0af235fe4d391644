------------------------------- MODULE Catalog --------------------------------
(***************************************************************************)
(* The storefront catalog: the Convex queries of vibeshop/convex/          *)
(* products.ts as operators over the products table, the category page     *)
(* (app/category/[id]/page.tsx) with its pagination, and the home page's  *)
(* category slides (components/SlideByCategory.tsx fed by                 *)
(* getCategoryAndProductCount in app/page.tsx).                           *)
(*                                                                         *)
(* The table changes under the page (products are written from the Convex *)
(* dashboard).  The Convex React client shows every query of the page at  *)
(* one snapshot of the table, `seen`, and moves it forward as a whole; a  *)
(* useQuery whose arguments change returns undefined until its first      *)
(* result arrives.  A product is its id; its category and base price are  *)
(* fixed, and ids are never reused.                                       *)
(***************************************************************************)
EXTENDS Naturals, Sequences, SequencesExt, FiniteSets

CONSTANTS
    Products,          \* product ids
    CategoryOf,        \* product id -> category id
    PriceOf,           \* product id -> base price in the table
    Categories,
    Viewed,            \* the category whose page is open
    InitialTable,      \* the table, in creation order, when the page opens
    PRODUCTS_PER_PAGE, MARGIN, BIG_MARGIN, PRICE_ABOVE,   \* convex/constants.ts
    NotLoaded

VARIABLES
    table,        \* the products table in _creationTime order
    seen,         \* the snapshot the client's queries show, or NotLoaded
    currentPage,  \* useState(1) of CategoryPage
    pageLoaded    \* the paginated query has a result for currentPage

vars == <<table, seen, currentPage, pageLoaded>>

\* The margin every product query applies to the stored price.
WithMargin(id) ==
    IF PriceOf[id] > PRICE_ABOVE THEN PriceOf[id] + BIG_MARGIN
                                 ELSE PriceOf[id] + MARGIN

\* .withIndex("by_category", q => q.eq("category", c)): index order is
\* creation order within the category.
ByCategory(t, c) == SelectSeq(t, LAMBDA id : CategoryOf[id] = c)

Priced(s) == [i \in 1..Len(s) |-> [id |-> s[i], price |-> WithMargin(s[i])]]

CeilDiv(a, b) == (a + b - 1) \div b

\* Array.prototype.slice(start, end) for 0 <= start.
Slice(s, start, end) ==
    IF start >= Len(s) THEN << >>
    ELSE SubSeq(s, start + 1, IF end < Len(s) THEN end ELSE Len(s))

\* A variant that collects the whole category whatever the limit.
getProductsByCategoryIgnoreLimit(t, c, limit) == Priced(ByCategory(t, c))

\* getProductsByCategory (products.ts 22-69): take(limit) or collect().
getProductsByCategory(t, c, limit) ==
    LET all == ByCategory(t, c) IN
    Priced(IF limit > 0 THEN Slice(all, 0, limit) ELSE all)

\* getProductCountByCategory (products.ts 119-141).
getProductCountByCategoryFloor(t, c) ==
    [totalProducts |-> Len(ByCategory(t, c)),
     totalPages |-> Len(ByCategory(t, c)) \div PRODUCTS_PER_PAGE]

getProductCountByCategory(t, c) ==
    [totalProducts |-> Len(ByCategory(t, c)),
     totalPages |-> CeilDiv(Len(ByCategory(t, c)), PRODUCTS_PER_PAGE)]

\* getProductsByCategoryPaginated (products.ts 143-183).
getProductsByCategoryPaginatedFromPage(t, c, page) ==
    LET skip == page * PRODUCTS_PER_PAGE IN
    Priced(Slice(ByCategory(t, c), skip, skip + PRODUCTS_PER_PAGE))

getProductsByCategoryPaginated(t, c, page) ==
    LET skip == (page - 1) * PRODUCTS_PER_PAGE IN
    Priced(Slice(ByCategory(t, c), skip, skip + PRODUCTS_PER_PAGE))

\* getCategoryAndProductCount (products.ts 241-264), read by getCount in
\* app/page.tsx (0 for a category it does not list).
getCategoryAndProductCount(t) == [c \in Categories |-> Len(ByCategory(t, c))]

\* productLimit of SlideByCategory (line 22).
CONSTANT SlideLimit

VARIABLE created   \* ids ever inserted: Convex never reuses an id

allVars == <<table, seen, currentPage, pageLoaded, created>>

\* What the category page renders from the snapshot (lines 21-60).
count == getProductCountByCategory(seen, Viewed)
shown == getProductsByCategoryPaginated(seen, Viewed, currentPage)
startItem == (currentPage - 1) * PRODUCTS_PER_PAGE + 1
endItem == IF currentPage * PRODUCTS_PER_PAGE < count.totalProducts
           THEN currentPage * PRODUCTS_PER_PAGE ELSE count.totalProducts

\* `if (!paginatedProducts || !category || !productCount)` (line 39).
PageLoaded == seen # NotLoaded /\ pageLoaded

\* SlideByCategory for category c, given totalProdCount from the home page.
SlideProducts(c) == getProductsByCategory(seen, c, SlideLimit)
SlideTotal(c) == getCategoryAndProductCount(seen)[c]
\* `if (!products || !category || !totalProducts)` (line 78).
SlideSkeleton(c) == seen = NotLoaded \/ SlideTotal(c) = 0
\* The "Voir plus de N produits" card (lines 141-155).
SlideMore(c) == IF SlideTotal(c) > SlideLimit THEN SlideTotal(c) - SlideLimit ELSE 0

Init ==
    /\ table = InitialTable
    /\ created = Range(InitialTable)
    /\ seen = NotLoaded
    /\ currentPage = 1
    /\ pageLoaded = FALSE

\* A product is added to the table.
InsertProduct(id) ==
    /\ id \notin created
    /\ table' = Append(table, id)
    /\ created' = created \cup {id}
    /\ UNCHANGED <<seen, currentPage, pageLoaded>>

\* A product is removed from the table.
DeleteProduct(id) ==
    /\ id \in Range(table)
    /\ table' = SelectSeq(table, LAMBDA x : x # id)
    /\ UNCHANGED <<seen, currentPage, pageLoaded, created>>

\* The client's subscriptions deliver results at the table's current
\* state, the paginated one for the current page included.
QueryUpdate ==
    /\ seen # table \/ ~pageLoaded
    /\ seen' = table
    /\ pageLoaded' = TRUE
    /\ UNCHANGED <<table, currentPage, created>>

\* A variant of "<-" without its check.
PrevPageUnchecked ==
    /\ PageLoaded
    /\ currentPage' = currentPage - 1
    /\ pageLoaded' = FALSE
    /\ UNCHANGED <<table, seen, created>>

\* "<-" (lines 145-160): disabled on page 1, checks currentPage > 1.
PrevPage ==
    /\ PageLoaded
    /\ currentPage > 1
    /\ currentPage' = currentPage - 1
    /\ pageLoaded' = FALSE
    /\ UNCHANGED <<table, seen, created>>

\* "->" (lines 181-196): disabled when currentPage === totalPages, checks
\* currentPage < totalPages.
NextPage ==
    /\ PageLoaded
    /\ currentPage < count.totalPages
    /\ currentPage' = currentPage + 1
    /\ pageLoaded' = FALSE
    /\ UNCHANGED <<table, seen, created>>

\* A numbered button 1..totalPages (lines 162-179).
GoToPage(i) ==
    /\ PageLoaded
    /\ i \in 1..count.totalPages
    /\ i # currentPage
    /\ currentPage' = i
    /\ pageLoaded' = FALSE
    /\ UNCHANGED <<table, seen, created>>

Next ==
    \/ \E id \in Products : InsertProduct(id) \/ DeleteProduct(id)
    \/ QueryUpdate
    \/ PrevPage \/ NextPage
    \/ \E i \in 1..Len(InitialTable) + Cardinality(Products) : GoToPage(i)

Spec == Init /\ [][Next]_allVars /\ WF_allVars(QueryUpdate)
-----------------------------------------------------------------------------
TypeOK ==
    /\ table \in Seq(Products) /\ IsInjective(table)
    /\ seen = NotLoaded \/ (seen \in Seq(Products) /\ IsInjective(seen))
    /\ currentPage \in Nat \ {0}
    /\ pageLoaded \in BOOLEAN
    /\ created \subseteq Products

(* The pages 1..totalPages of getProductsByCategoryPaginated, read in    *)
(* order, list every product of the category exactly once and in index   *)
(* order, and none of them is empty: the page count of                  *)
(* getProductCountByCategory and the slice bounds of the paginated query *)
(* agree for every table the catalog goes through.                      *)
PagesPartitionCategory ==
    \A c \in Categories :
      LET n == getProductCountByCategory(table, c).totalPages
          pages == [p \in 1..n |-> getProductsByCategoryPaginated(table, c, p)]
      IN /\ FlattenSeq(pages) = Priced(ByCategory(table, c))
         /\ \A p \in 1..n : pages[p] # << >>

(* A home-page slide accounts for every product of its category: the     *)
(* cards of getProductsByCategory(limit 8) plus the "Voir plus de N"     *)
(* count, computed from getCategoryAndProductCount, make the category's  *)
(* total.                                                                 *)
SlideAccountsForAll ==
    \A c \in Categories :
      ~SlideSkeleton(c) => Len(SlideProducts(c)) + SlideMore(c) = SlideTotal(c)

(* On a category with products, the page's "Page p sur t" and            *)
(* "start-end sur n produits" describe the products it lists: p is one of *)
(* the t pages and start..end are the positions of the listed products,  *)
(* also after products were removed while the page was open.             *)
PageLabelMatchesList ==
    PageLoaded /\ count.totalProducts > 0 =>
      /\ currentPage \in 1..count.totalPages
      /\ endItem - startItem + 1 = Len(shown)

(* Once its queries have answered, every home-page slide shows its        *)
(* category instead of the loading skeleton.                              *)
SlideShownWhenLoaded ==
    seen # NotLoaded => \A c \in Categories : ~SlideSkeleton(c)
=============================================================================
