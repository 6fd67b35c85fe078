SPECIFICATION StockSpec
CONSTANTS
    Orders = {o1, o2}
    Items = {"bar", "kit"}
    Routing <- MCRouting
    Plans <- MCPlans
    Ordered <- MCOrdered
    Receipts <- MCReceipts
    Corrections <- MCCorrections
    Blockable = {o1}
CHECK_DEADLOCK FALSE
INVARIANTS HeldIsBacked ReportIsLedger VoidPlanReplannable
