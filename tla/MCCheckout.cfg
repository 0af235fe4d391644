CONSTANTS
    w1 = w1
    w2 = w2
    bureau1 = bureau1
    bureau2 = bureau2
    NaN = NaN
    UnitPrice = 2500
    PROMO_DISCOUNT = 500
    PhoneLen = 2
    MaxQuantity = 2
    MaxOrders = 1
    Wilayas <- MCWilayas
    HomePrice <- MCHomePrice
    OfficePrice <- MCOfficePrice
    OfficeAddress <- MCOfficeAddress
    Names <- MCNames
    Addresses <- MCAddresses
    Blank <- MCBlank
    Digits <- MCDigits
    NonDigits <- MCNonDigits
    Codes <- MCCodes
    Upper <- MCUpper
SPECIFICATION Spec
INVARIANT TypeOK
INVARIANT OrderDeliveryConsistent
INVARIANT OrderPhoneCallable
PROPERTY OrderClickSettles
