------------------------------ MODULE MCCheckout ------------------------------
(* Two wilayas with different home and office tariffs, so that a price   *)
(* carried over from the other wilaya or type shows; three-digit phones. *)
EXTENDS Checkout

CONSTANTS w1, w2, bureau1, bureau2


MCWilayas == {w1, w2}
MCHomePrice == [w \in MCWilayas |-> IF w = w1 THEN 600 ELSE 800]
MCOfficePrice == [w \in MCWilayas |-> IF w = w1 THEN 400 ELSE 500]
MCOfficeAddress == [w \in MCWilayas |-> IF w = w1 THEN bureau1 ELSE bureau2]
MCNames == {"", " ", "Amel"}
MCAddresses == {"", " ", "rue 1"}
MCBlank == {"", " "}
MCDigits == {"0", "5"}
MCNonDigits == {"-"}
MCCodes == {"", "ramadan", "NOEL"}
MCUpper == [c \in MCCodes |-> CASE c = "ramadan" -> "RAMADAN"
                                [] OTHER -> c]
=============================================================================
