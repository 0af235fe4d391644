------------------------------ MODULE MCStorefront -----------------------------
(* The catalog of MCCatalog with names over the letters a, A, b, B: "Ab", *)
(* "b", "aa" in the viewed category and "BA" in the other.  The queries   *)
(* are "", "a", "B" (a capital matching small letters) and "ab" (an       *)
(* occurrence in "Ab" but not in "BA").                                    *)
EXTENDS Storefront, MCCatalog

MCNameOf == (a1 :> <<"A", "b">>) @@ (a2 :> <<"b">>) @@ (a3 :> <<"a", "a">>)
            @@ (b1 :> <<"B", "A">>)
MCLowerOf == ("a" :> "a") @@ ("A" :> "a") @@ ("b" :> "b") @@ ("B" :> "b")
MCQueries == {<< >>, <<"a">>, <<"B">>, <<"a", "b">>}
=============================================================================
