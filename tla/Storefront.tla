------------------------------ MODULE Storefront ------------------------------
(***************************************************************************)
(* The storefront as the shopper moves through it: the layout's Header    *)
(* (components/Header.tsx) with its category SidePanel                    *)
(* (components/SidePanel.tsx) and search form (components/SearchBar.tsx),  *)
(* mounted once for every page, composed with the pages it links: the    *)
(* home page (app/page.tsx), the category list (app/category/page.tsx),   *)
(* both over getCategoryAndProductCount, the search page                  *)
(* (app/search/page.tsx, components/SearchContent.tsx over the            *)
(* searchProducts query) and the category page of Catalog.                *)
(*                                                                         *)
(* All pages read the products table through the one Convex client of the *)
(* layout, so their queries share Catalog's snapshot `seen`; the          *)
(* categories table does not change and arrives with the first snapshot. *)
(* A product name is a sequence of characters of a small alphabet; a      *)
(* search query is one of a few such sequences, << >> being "".          *)
(***************************************************************************)
EXTENDS Catalog

CONSTANTS
    NameOf,     \* product id -> its name, a sequence of characters
    LowerOf,    \* character -> String.prototype.toLowerCase of it
    Queries     \* search queries the shopper types, << >> among them

VARIABLES
    location,       \* the page shown: "home", "list", "category" (Viewed),
                    \* "search", or "other" (a product page, another category)
    countsLoaded,   \* useQuery(getCategoryAndProductCount) of home or list
    q,              \* searchParams.get('q') || '' of the search page
    searchLoaded,   \* useQuery(searchProducts, {searchQuery: q}) has a result
    isPanelOpen,    \* Header's isPanelOpen
    panelSynced,    \* SidePanel's categories state holds the query's data
    showMobileSearch \* Header's showMobileSearch

sfVars == <<location, countsLoaded, q, searchLoaded, isPanelOpen,
            panelSynced, showMobileSearch>>

vars2 == <<allVars, sfVars>>

\* String.prototype.toLowerCase, character by character.
ToLowerCase(s) == [i \in DOMAIN s |-> LowerOf[s[i]]]

\* String.prototype.includes: t occurs in s as a contiguous part.
includes(s, t) == t \in SubSeqs(s)

\* A variant that lowers the names but not the query.
searchProductsQueryAsIs(t, query) ==
    Priced(SelectSeq(t, LAMBDA id : includes(ToLowerCase(NameOf[id]), query)))

\* searchProducts (products.ts 268-302): the products, in table order,
\* whose lowered name includes the lowered query, with the margin.
searchProducts(t, query) ==
    Priced(SelectSeq(t, LAMBDA id :
        includes(ToLowerCase(NameOf[id]), ToLowerCase(query))))

\* useQuery(api.products.getAllCategories) of SidePanel: the categories
\* arrive with the first snapshot.
data == seen # NotLoaded

(* The shopper opens the site at "/" or at a category page linked from  *)
(* outside; nothing has been fetched yet.                                *)
SFInit ==
    /\ Init
    /\ location \in {"home", "category"}
    /\ countsLoaded = FALSE
    /\ q = << >> /\ searchLoaded = FALSE
    /\ isPanelOpen = FALSE /\ panelSynced = FALSE
    /\ showMobileSearch = FALSE

(* The products table changes; the pages keep the snapshot they show. *)
TableChange ==
    /\ \E id \in Products : InsertProduct(id) \/ DeleteProduct(id)
    /\ UNCHANGED sfVars

(* The Convex client delivers every mounted query at the table's state: *)
(* the category page's (Catalog's QueryUpdate), the side panel's, and   *)
(* the search page's or the home or list page's, which may be the only *)
(* one still waiting.                                                    *)
Deliver ==
    /\ \/ QueryUpdate
       \/ /\ \/ location = "search" /\ ~searchLoaded
             \/ location \in {"home", "list"} /\ ~countsLoaded
          /\ seen' = table /\ pageLoaded' = TRUE
          /\ UNCHANGED <<table, currentPage, created>>
    /\ searchLoaded' = TRUE /\ countsLoaded' = TRUE
    /\ UNCHANGED <<location, q, isPanelOpen, panelSynced, showMobileSearch>>

(* The pagination buttons of the category page, while it is shown. *)
CategoryPageStep ==
    /\ location = "category"
    /\ \/ PrevPage \/ NextPage
       \/ \E i \in 1..Len(InitialTable) + Cardinality(Products) : GoToPage(i)
    /\ UNCHANGED sfVars

(* SidePanel's useEffect(() => { if (data) setCategories(data) }, [data]), *)
(* run after the render that first sees the data.                          *)
SyncCategories ==
    /\ data /\ ~panelSynced
    /\ panelSynced' = TRUE
    /\ UNCHANGED <<allVars, location, countsLoaded, q, searchLoaded,
                   isPanelOpen, showMobileSearch>>

(* The menu button (togglePanel); the open panel covers it. *)
OpenPanel ==
    /\ ~isPanelOpen
    /\ isPanelOpen' = TRUE
    /\ UNCHANGED <<allVars, location, countsLoaded, q, searchLoaded,
                   panelSynced, showMobileSearch>>

(* The panel's X button: onClose, which is togglePanel. *)
ClosePanel ==
    /\ isPanelOpen
    /\ isPanelOpen' = FALSE
    /\ UNCHANGED <<allVars, location, countsLoaded, q, searchLoaded,
                   panelSynced, showMobileSearch>>

(* Next's client navigation to /category/c.  The same URL keeps the      *)
(* mounted page and its currentPage; another category page mounts anew.  *)
OpenCategory(c) ==
    IF c = Viewed
    THEN /\ location' = "category"
         /\ IF location = "category"
            THEN UNCHANGED <<currentPage, pageLoaded>>
            ELSE currentPage' = 1 /\ pageLoaded' = FALSE
    ELSE /\ location' = "other"
         /\ UNCHANGED <<currentPage, pageLoaded>>

(* Navigation to "/" or "/category": the page's getCategoryAndProductCount *)
(* keeps its result only when that page stays mounted.                     *)
OpenCounts(l) ==
    /\ location' = l
    /\ countsLoaded' = (location = l /\ countsLoaded)

(* A category link of the panel: onClose toggles the panel shut and the  *)
(* Link navigates to /category/c.  The list is shown only once `data` is *)
(* there and the categories state is not empty.                          *)
ClickCategory(c) ==
    /\ isPanelOpen /\ data /\ panelSynced
    /\ isPanelOpen' = FALSE
    /\ OpenCategory(c)
    /\ UNCHANGED <<table, seen, created, countsLoaded, q, searchLoaded,
                   panelSynced, showMobileSearch>>

(* The header's logo, <Link href="/">; the open panel lies over it. *)
GoHome ==
    /\ ~isPanelOpen
    /\ OpenCounts("home")
    /\ UNCHANGED <<allVars, q, searchLoaded, isPanelOpen, panelSynced,
                   showMobileSearch>>

(* Home (lines 57-63, 65-199): a loader until getCategoryAndProductCount *)
(* answers, then the category tiles, the banners and the slides' "Voir   *)
(* plus" cards, each a Link to /category/c.  The tiles' ids are the      *)
(* constants of categoryIds; here any category.                          *)
HomeLink(c) ==
    /\ location = "home" /\ countsLoaded
    /\ OpenCategory(c)
    /\ UNCHANGED <<table, seen, created, countsLoaded, q, searchLoaded,
                   isPanelOpen, panelSynced, showMobileSearch>>

(* The "all categories" tile of home, <Link href="/category">. *)
OpenList ==
    /\ location = "home" /\ countsLoaded
    /\ OpenCounts("list")
    /\ UNCHANGED <<allVars, q, searchLoaded, isPanelOpen, panelSynced,
                   showMobileSearch>>

(* The category list (app/category/page.tsx): "Loading..." until         *)
(* getCategoryAndProductCount answers, then a Link to /category/c for    *)
(* every category.                                                        *)
ListLink(c) ==
    /\ location = "list" /\ countsLoaded
    /\ OpenCategory(c)
    /\ UNCHANGED <<table, seen, created, countsLoaded, q, searchLoaded,
                   isPanelOpen, panelSynced, showMobileSearch>>

(* The header's search toggle (mobile): shows or hides the SearchBar. *)
ToggleMobileSearch ==
    /\ showMobileSearch' = ~showMobileSearch
    /\ UNCHANGED <<allVars, location, countsLoaded, q, searchLoaded,
                   isPanelOpen, panelSynced>>

(* A search form is submitted: the header's SearchBar (when shown) or the *)
(* search page's own form.  Both are <Form action='/search'> with input  *)
(* "q", a client navigation to /search?q=x.  The search page keeps its   *)
(* useQuery result only when the query is the one it already shows.      *)
SubmitSearch(x) ==
    /\ showMobileSearch \/ location = "search"
    /\ location' = "search"
    /\ q' = x
    /\ searchLoaded' = (location = "search" /\ x = q /\ searchLoaded)
    /\ UNCHANGED <<allVars, countsLoaded, isPanelOpen, panelSynced,
                   showMobileSearch>>

(* A product card of a home slide, of the category page or of the search *)
(* results, or "Acheter" of one: the shopper leaves for a product page.  *)
LeavePage ==
    /\ location \in {"home", "category", "search"}
    /\ location' = "other"
    /\ UNCHANGED <<allVars, countsLoaded, q, searchLoaded, isPanelOpen,
                   panelSynced, showMobileSearch>>

SFNext ==
    \/ TableChange \/ Deliver \/ CategoryPageStep
    \/ SyncCategories \/ OpenPanel \/ ClosePanel
    \/ \E c \in Categories : ClickCategory(c) \/ HomeLink(c) \/ ListLink(c)
    \/ GoHome \/ OpenList
    \/ ToggleMobileSearch
    \/ \E x \in Queries : SubmitSearch(x)
    \/ LeavePage

(* The properties checked of the storefront are invariants: no fairness. *)
SFSpec == SFInit /\ [][SFNext]_vars2
-----------------------------------------------------------------------------
\* What the search page lists: the query's result once it has one and the
\* query is not empty (SearchContent lines 55-117).
SearchShown == location = "search" /\ q # << >> /\ searchLoaded /\ data

\* The case-insensitive occurrence of query in name, position by position.
MatchesAt(name, query, i) ==
    \A k \in 1..Len(query) : LowerOf[name[i + k]] = LowerOf[query[k]]
RefMatches(name, query) ==
    \E i \in 0..(Len(name) - Len(query)) : MatchesAt(name, query, i)

(* The search page lists exactly the products of the shown snapshot whose *)
(* name contains the query ignoring case, in table order and each at its *)
(* price with the margin, for every query and every table the shopper    *)
(* meets; "Aucun résultat trouvé" only when there is no such product.     *)
SearchResultsMatchReference ==
    SearchShown =>
        LET ref == SelectSeq(seen, LAMBDA id : RefMatches(NameOf[id], q))
        IN  searchProducts(seen, q) = Priced(ref)

=============================================================================
