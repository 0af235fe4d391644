------------------------------ MODULE MCCatalog -------------------------------
(* Two categories; three products of the viewed category, so that it     *)
(* spans two pages of two and overflows a two-card slide, and one of the  *)
(* other, which can become empty.  Prices on both sides of PRICE_ABOVE.   *)
EXTENDS Catalog

CONSTANTS a1, a2, a3, b1, catA, catB

MCProducts == {a1, a2, a3, b1}
MCCategoryOf == (a1 :> catA) @@ (a2 :> catA) @@ (a3 :> catA) @@ (b1 :> catB)
MCPriceOf == (a1 :> 900) @@ (a2 :> 4000) @@ (a3 :> 1000) @@ (b1 :> 2500)
MCCategories == {catA, catB}
MCInitialTable == <<a1, b1, a2>>
=============================================================================
