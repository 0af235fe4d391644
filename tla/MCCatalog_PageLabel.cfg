CONSTANTS
    a1 = a1
    a2 = a2
    a3 = a3
    b1 = b1
    catA = catA
    catB = catB
    NotLoaded = NotLoaded
    PRODUCTS_PER_PAGE = 2
    MARGIN = 500
    BIG_MARGIN = 1500
    PRICE_ABOVE = 1000
    SlideLimit = 2
    Viewed = catA
    Products <- MCProducts
    CategoryOf <- MCCategoryOf
    PriceOf <- MCPriceOf
    Categories <- MCCategories
    InitialTable <- MCInitialTable
SPECIFICATION Spec



CHECK_DEADLOCK FALSE
INVARIANT PageLabelMatchesList
