------------------------------- MODULE Checkout -------------------------------
(***************************************************************************)
(* The storefront's order form (CheckoutPage of                            *)
(* vibeshop/app/checkout/[id]/page.tsx) and the createOrder mutation of    *)
(* vibeshop/convex/products.ts that stores the order.                      *)
(*                                                                         *)
(* totalPrice and canOrder are useState values kept up to date by         *)
(* useEffect.  Every change of their inputs comes from a click or a        *)
(* keystroke, discrete events after which React runs the effects before   *)
(* the next event, so here they are the operators TotalPrice and canOrder *)
(* of the current state.  The product (getProductById, price with margin) *)
(* is loaded: before that the page shows only a loader.                   *)
(*                                                                         *)
(* Data abstraction: a phone number has PhoneLen digits instead of 10,    *)
(* over a two-digit alphabet; names and addresses are drawn from small    *)
(* sets of strings with their blank ones marked; the coupon field from a *)
(* set of codes with their upper-case forms; the order remarks, the       *)
(* delivery delay and the phone error message are display only.          *)
(***************************************************************************)
EXTENDS Naturals, Sequences, SequencesExt

CONSTANTS
    UnitPrice,        \* product.price as getProductById returns it
    PROMO_DISCOUNT,   \* convex/constants.ts
    Wilayas,          \* wilaya codes of livrison.json
    HomePrice,        \* parseInt(price.split(" ")[0]) per wilaya
    OfficePrice,      \* parseInt(delivery_office_price.split(" ")[2])
    OfficeAddress,    \* address per wilaya
    Names,            \* values typed as the full name
    Addresses,        \* values typed as the exact address
    Blank,            \* the values among them whose trim() is empty
    Digits,           \* digits a phone number may contain, "0" among them
    NonDigits,        \* other characters one may type in the phone field
    PhoneLen,         \* /^0\d{PhoneLen-1}$/ (10 in the code)
    Codes,            \* values typed as coupon code
    Upper,            \* Upper[c] = c.toUpperCase()
    NaN,              \* parseInt of a string without digits
    MaxQuantity,      \* bound on the quantity "+" button
    MaxOrders         \* bound on orders stored from this page

ASSUME "0" \in Digits /\ "" \in Names /\ "" \in Addresses /\ "" \in Codes

VARIABLES
    quantity, fullName, phoneNumber, selectedWilaya, selectedDeliveryType,
    deliveryPrice, deliveryAddress, exactAddress,
    couponCode, couponApplied, couponDiscount,
    isLoading, orderCreated, isLoadingOrder,
    call,             \* the createOrder call in flight, or NoCall
    orders,           \* the orders table, in insertion order
    productLoaded     \* getProductById has answered: the form is rendered

vars == <<quantity, fullName, phoneNumber, selectedWilaya, selectedDeliveryType,
          deliveryPrice, deliveryAddress, exactAddress, couponCode,
          couponApplied, couponDiscount, isLoading, orderCreated,
          isLoadingOrder, call, orders, productLoaded>>

form == <<quantity, fullName, phoneNumber, selectedWilaya, selectedDeliveryType,
          deliveryPrice, deliveryAddress, exactAddress, couponCode,
          couponApplied, couponDiscount>>

NoCall == [phase |-> "none"]
DeliveryTypes == {"home", "office"}

\* parseInt of a string of digits: base 10, leading zeros vanish.
RECURSIVE DigitsValue(_)
DigitsValue(s) ==
    IF s = << >> THEN 0
    ELSE DigitsValue(Front(s)) * 10 + (CHOOSE d \in 0..9 : ToString(d) = Last(s))
parseInt(s) == IF s = << >> THEN NaN ELSE DigitsValue(s)

\* A variant of the regex without its leading "0": /^\d{PhoneLen}$/.
PhoneValidAnyFirst(s) == Len(s) = PhoneLen

\* /^0\d{PhoneLen-1}$/.test(phone)
PhoneValid(s) == Len(s) = PhoneLen /\ s[1] = "0"

\* The effect that sets canOrder (lines 56-72).
canOrder ==
    /\ fullName \notin Blank
    /\ PhoneValid(phoneNumber)
    /\ selectedWilaya # ""
    /\ selectedDeliveryType # ""
    /\ selectedDeliveryType = "office" \/ exactAddress \notin Blank

\* The effect that sets totalPrice (lines 48-54).
TotalPrice == UnitPrice * quantity + deliveryPrice - couponDiscount

\* The arguments createOrder gets, as the mutation stores them.
OrderOf(f) ==
    [quantity |-> f[1], full_name |-> f[2], phone_number |-> parseInt(f[3]),
     selected_wilaya |-> f[4], selected_delivery_type |-> f[5],
     delivery_address |-> f[7], exact_address |-> f[8],
     total_price |-> UnitPrice * f[1] + f[6] - f[11]]

Init ==
    /\ quantity = 1 /\ fullName = "" /\ phoneNumber = << >>
    /\ selectedWilaya = "" /\ selectedDeliveryType = ""
    /\ deliveryPrice = 0 /\ deliveryAddress = "" /\ exactAddress = ""
    /\ couponCode = "" /\ couponApplied = FALSE /\ couponDiscount = 0
    /\ isLoading = FALSE /\ orderCreated = FALSE /\ isLoadingOrder = FALSE
    /\ call = NoCall /\ orders = << >>
    /\ productLoaded = FALSE

\* UNCHANGED vs, and the product query, which no handler changes.
Unchanged(vs) == UNCHANGED <<vs, productLoaded>>
Submission == <<isLoading, orderCreated, isLoadingOrder, call, orders>>

(* useQuery(getProductById) answers (lines 42-44): until then the page  *)
(* renders only its loader (lines 174-196) and no handler can run.        *)
ProductLoad ==
    /\ ~productLoaded
    /\ productLoaded' = TRUE
    /\ UNCHANGED <<form, isLoading, orderCreated, isLoadingOrder, call, orders>>

(* Quantity buttons (lines 198-204): "-" only above 1.                    *)
IncreaseQuantity ==
    /\ productLoaded
    /\ quantity < MaxQuantity
    /\ quantity' = quantity + 1
    /\ UNCHANGED <<fullName, phoneNumber, selectedWilaya, selectedDeliveryType,
                   deliveryPrice, deliveryAddress, exactAddress, couponCode,
                   couponApplied, couponDiscount>> /\ Unchanged(Submission)

\* A variant of "-" without its guard.
DecreaseQuantityUnguarded ==
    /\ productLoaded
    /\ quantity' = quantity - 1
    /\ UNCHANGED <<fullName, phoneNumber, selectedWilaya, selectedDeliveryType,
                   deliveryPrice, deliveryAddress, exactAddress, couponCode,
                   couponApplied, couponDiscount>> /\ Unchanged(Submission)

DecreaseQuantity ==
    /\ productLoaded
    /\ quantity > 1
    /\ quantity' = quantity - 1
    /\ UNCHANGED <<fullName, phoneNumber, selectedWilaya, selectedDeliveryType,
                   deliveryPrice, deliveryAddress, exactAddress, couponCode,
                   couponApplied, couponDiscount>> /\ Unchanged(Submission)

SetFullName(n) ==
    /\ productLoaded
    /\ fullName' = n
    /\ UNCHANGED <<quantity, phoneNumber, selectedWilaya, selectedDeliveryType,
                   deliveryPrice, deliveryAddress, exactAddress, couponCode,
                   couponApplied, couponDiscount>> /\ Unchanged(Submission)

(* handlePhoneNumberChange (lines 106-115): keep the digits of the input   *)
(* (maxLength 10, here PhoneLen).                                          *)
handlePhoneNumberChange(raw) ==
    /\ productLoaded
    /\ phoneNumber' = SelectSeq(raw, LAMBDA ch : ch \in Digits)
    /\ UNCHANGED <<quantity, fullName, selectedWilaya, selectedDeliveryType,
                   deliveryPrice, deliveryAddress, exactAddress, couponCode,
                   couponApplied, couponDiscount>> /\ Unchanged(Submission)

(* A variant that keeps the delivery choice of the previous wilaya.       *)
handleWilayaChangeKeepType(w) ==
    /\ productLoaded
    /\ selectedWilaya' = w
    /\ UNCHANGED <<quantity, fullName, phoneNumber, exactAddress, couponCode,
                   couponApplied, couponDiscount, selectedDeliveryType,
                   deliveryPrice, deliveryAddress>> /\ Unchanged(Submission)

(* handleWilayaChange (lines 81-87): a new wilaya clears the delivery      *)
(* choice, its price and its address; the exact address is kept.          *)
handleWilayaChange(w) ==
    /\ productLoaded
    /\ selectedWilaya' = w
    /\ selectedDeliveryType' = ""
    /\ deliveryPrice' = 0
    /\ deliveryAddress' = ""
    /\ UNCHANGED <<quantity, fullName, phoneNumber, exactAddress, couponCode,
                   couponApplied, couponDiscount>> /\ Unchanged(Submission)

(* handleDeliveryTypeChange (lines 89-104): the radio group is shown once *)
(* a wilaya is chosen; the price is that wilaya's home or office tariff;  *)
(* office delivery takes the office address; either clears the exact    *)
(* address typed so far.                                                  *)
handleDeliveryTypeChange(t) ==
    /\ productLoaded
    /\ selectedWilaya # ""
    /\ selectedDeliveryType' = t
    /\ deliveryPrice' = IF t = "home" THEN HomePrice[selectedWilaya]
                                      ELSE OfficePrice[selectedWilaya]
    /\ deliveryAddress' = IF t = "office" THEN OfficeAddress[selectedWilaya]
                                          ELSE ""
    /\ exactAddress' = ""
    /\ UNCHANGED <<quantity, fullName, phoneNumber, selectedWilaya, couponCode,
                   couponApplied, couponDiscount>> /\ Unchanged(Submission)

(* The exact-address input is rendered for home delivery only.           *)
SetExactAddress(a) ==
    /\ productLoaded
    /\ selectedDeliveryType = "home"
    /\ exactAddress' = a
    /\ UNCHANGED <<quantity, fullName, phoneNumber, selectedWilaya,
                   selectedDeliveryType, deliveryPrice, deliveryAddress,
                   couponCode, couponApplied, couponDiscount>>
    /\ Unchanged(Submission)

(* The coupon input is disabled once a coupon is applied.                *)
SetCouponCode(c) ==
    /\ productLoaded
    /\ ~couponApplied
    /\ couponCode' = c
    /\ UNCHANGED <<quantity, fullName, phoneNumber, selectedWilaya,
                   selectedDeliveryType, deliveryPrice, deliveryAddress,
                   exactAddress, couponApplied, couponDiscount>>
    /\ Unchanged(Submission)

(* handleApplyCoupon (lines 161-166): only RAMADAN, once; the button is    *)
(* shown while no coupon is applied.                                       *)
handleApplyCoupon ==
    /\ productLoaded
    /\ ~couponApplied
    /\ IF Upper[couponCode] = "RAMADAN"
         THEN /\ couponApplied' = TRUE /\ couponDiscount' = PROMO_DISCOUNT
         ELSE UNCHANGED <<couponApplied, couponDiscount>>
    /\ UNCHANGED <<quantity, fullName, phoneNumber, selectedWilaya,
                   selectedDeliveryType, deliveryPrice, deliveryAddress,
                   exactAddress, couponCode>> /\ Unchanged(Submission)

(* handleRemoveCoupon (lines 168-172).                                    *)
handleRemoveCoupon ==
    /\ productLoaded
    /\ couponApplied
    /\ couponCode' = "" /\ couponApplied' = FALSE /\ couponDiscount' = 0
    /\ UNCHANGED <<quantity, fullName, phoneNumber, selectedWilaya,
                   selectedDeliveryType, deliveryPrice, deliveryAddress,
                   exactAddress>> /\ Unchanged(Submission)

(* handleOrderCreation up to its await (lines 117-149), reached from the  *)
(* button disabled={!canOrder || isLoading} (line 449): the arguments are *)
(* the form as it is at the click.  MaxOrders bounds the model only.      *)
handleOrderCreation ==
    /\ productLoaded
    /\ canOrder /\ ~isLoading
    /\ Len(orders) + (IF call = NoCall THEN 0 ELSE 1) < MaxOrders
    /\ isLoading' = TRUE
    /\ call' = [phase |-> "sent", args |-> OrderOf(form)]
    /\ UNCHANGED <<orderCreated, isLoadingOrder, orders>> /\ Unchanged(form)

(* The createOrder mutation (products.ts 214-235) commits the insert as  *)
(* one transaction; the Convex client delivers it once.                   *)
createOrder ==
    /\ call # NoCall /\ call.phase = "sent"
    /\ orders' = Append(orders, call.args)
    /\ call' = [call EXCEPT !.phase = "done"]
    /\ UNCHANGED <<isLoading, orderCreated, isLoadingOrder>> /\ Unchanged(form)

(* The mutation throws: the transaction is rolled back.                   *)
createOrderThrows ==
    /\ call # NoCall /\ call.phase = "sent"
    /\ call' = [call EXCEPT !.phase = "failed"]
    /\ UNCHANGED <<isLoading, orderCreated, isLoadingOrder, orders>>
    /\ Unchanged(form)

(* A variant of the continuation whose setIsLoading(false) is not in a    *)
(* finally block but after setTimeout in the try block.                   *)
handleOrderCreationResumeNoFinally ==
    /\ call # NoCall /\ call.phase \in {"done", "failed"}
    /\ IF call.phase = "done"
         THEN /\ orderCreated' = TRUE /\ isLoadingOrder' = TRUE
              /\ isLoading' = FALSE
         ELSE UNCHANGED <<orderCreated, isLoadingOrder, isLoading>>
    /\ call' = NoCall
    /\ UNCHANGED orders /\ Unchanged(form)

(* handleOrderCreation after its await (lines 150-158): on success the    *)
(* confirmation and a 5 s loading overlay, on error a log line; finally   *)
(* the button is enabled again.                                           *)
handleOrderCreationResume ==
    /\ call # NoCall /\ call.phase \in {"done", "failed"}
    /\ IF call.phase = "done"
         THEN orderCreated' = TRUE /\ isLoadingOrder' = TRUE
         ELSE UNCHANGED <<orderCreated, isLoadingOrder>>
    /\ isLoading' = FALSE
    /\ call' = NoCall
    /\ UNCHANGED orders /\ Unchanged(form)

(* setTimeout(() => setIsLoadingOrder(false), 5000) (line 152).           *)
LoadingTimeout ==
    /\ isLoadingOrder
    /\ isLoadingOrder' = FALSE
    /\ UNCHANGED <<isLoading, orderCreated, call, orders>> /\ Unchanged(form)

Next ==
    \/ ProductLoad
    \/ IncreaseQuantity \/ DecreaseQuantity
    \/ \E n \in Names : SetFullName(n)
    \/ \E raw \in BoundedSeq(Digits \cup NonDigits, PhoneLen) :
          handlePhoneNumberChange(raw)
    \/ \E w \in Wilayas : handleWilayaChange(w)
    \/ \E t \in DeliveryTypes : handleDeliveryTypeChange(t)
    \/ \E a \in Addresses : SetExactAddress(a)
    \/ \E c \in Codes : SetCouponCode(c)
    \/ handleApplyCoupon \/ handleRemoveCoupon
    \/ handleOrderCreation
    \/ createOrder \/ createOrderThrows
    \/ handleOrderCreationResume
    \/ LoadingTimeout

(* The Convex client delivers the product, the backend answers every     *)
(* mutation, the client resumes the awaiting handler, and the browser    *)
(* fires the timer.                                                       *)
Fairness ==
    /\ WF_vars(ProductLoad)
    /\ WF_vars(createOrder \/ createOrderThrows)
    /\ WF_vars(handleOrderCreationResume)
    /\ WF_vars(LoadingTimeout)

Spec == Init /\ [][Next]_vars /\ Fairness
-----------------------------------------------------------------------------
Orders == [quantity: 1..MaxQuantity, full_name: Names,
           phone_number: Nat \cup {NaN}, selected_wilaya: Wilayas \cup {""},
           selected_delivery_type: DeliveryTypes \cup {""},
           delivery_address: {""} \cup {OfficeAddress[w] : w \in Wilayas},
           exact_address: Addresses, total_price: Int]

TypeOK ==
    /\ quantity \in 1..MaxQuantity /\ fullName \in Names
    /\ phoneNumber \in BoundedSeq(Digits, PhoneLen)
    /\ selectedWilaya \in Wilayas \cup {""}
    /\ selectedDeliveryType \in DeliveryTypes \cup {""}
    /\ exactAddress \in Addresses /\ couponCode \in Codes
    /\ couponApplied \in BOOLEAN /\ couponDiscount \in {0, PROMO_DISCOUNT}
    /\ {isLoading, orderCreated, isLoadingOrder} \subseteq BOOLEAN
    /\ call = NoCall \/ (call.phase \in {"sent", "done", "failed"}
                         /\ call.args \in Orders)
    /\ orders \in Seq(Orders)
    /\ productLoaded \in BOOLEAN

Tariff(w, t) == IF t = "home" THEN HomePrice[w] ELSE OfficePrice[w]

(* Every stored order is priced and addressed by the wilaya and delivery *)
(* type it names: product price times quantity plus that wilaya's tariff *)
(* for that type, less at most the coupon; office orders carry the       *)
(* office's address and no home address, home orders a non-blank one.    *)
(* handleWilayaChange and handleDeliveryTypeChange must keep the price   *)
(* and addresses in step over any sequence of edits.                     *)
OrderDeliveryConsistent ==
    \A i \in 1..Len(orders) :
      LET o == orders[i] IN
      /\ o.selected_wilaya \in Wilayas
      /\ o.total_price - UnitPrice * o.quantity
           - Tariff(o.selected_wilaya, o.selected_delivery_type)
           \in {0, -PROMO_DISCOUNT}
      /\ o.selected_delivery_type = "office" =>
           /\ o.delivery_address = OfficeAddress[o.selected_wilaya]
           /\ o.exact_address = ""
      /\ o.selected_delivery_type = "home" =>
           /\ o.delivery_address = "" /\ o.exact_address \notin Blank

(* The phone_number a stored order carries is parseInt of a valid phone: *)
(* written back with PhoneLen digits it starts with the dropped "0", so  *)
(* the shop can call the customer.  The phone field's digit filter, the  *)
(* regex behind canOrder and parseInt must agree on that.                *)
OrderPhoneCallable ==
    \A i \in 1..Len(orders) :
      LET n == orders[i].phone_number IN
      n # NaN /\ n < 10 ^ (PhoneLen - 1)

(* Once the order button is clicked, the page eventually leaves its     *)
(* loading state, whether the mutation succeeds or throws.               *)
OrderClickSettles == isLoading ~> ~isLoading

\* The confirmation card (lines 465-528): shown once the order is created
\* and the 5 s loader is over, it reads the page's state as it is now.  The
\* delivery line says "À domicile" for "home" and "Au bureau" otherwise.
ConfirmationShown == orderCreated /\ ~isLoadingOrder
Confirmation ==
    [full_name |-> fullName, phone |-> phoneNumber, quantity |-> quantity,
     total_price |-> TotalPrice,
     home |-> selectedDeliveryType = "home",
     address |-> CASE selectedDeliveryType = "home"   -> exactAddress
                   [] selectedDeliveryType = "office" -> deliveryAddress
                   [] OTHER                           -> ""]

(* The confirmation card describes the order that was stored: the same   *)
(* name, phone, quantity, total, delivery type and address.  It reads the *)
(* form, which stays editable while createOrder is in flight.             *)
ConfirmationShowsOrder ==
    (ConfirmationShown /\ orders # << >>) =>
      LET o == Last(orders) IN
      /\ Confirmation.full_name = o.full_name
      /\ parseInt(Confirmation.phone) = o.phone_number
      /\ Confirmation.quantity = o.quantity
      /\ Confirmation.total_price = o.total_price
      /\ Confirmation.home = (o.selected_delivery_type = "home")
      /\ Confirmation.address = IF o.selected_delivery_type = "home"
                                THEN o.exact_address ELSE o.delivery_address
=============================================================================
