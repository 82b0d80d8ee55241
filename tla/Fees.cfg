SPECIFICATION Spec
CONSTANTS
    Filings = {f1, f2}
    Calls = {c1, c2}
    Documents = {d1}
    Keys = {k1, k2}
    Receipts = {x1}
    NoKey = NoKey
    NoReceipt = NoReceipt
    Totals = {0, 2}
    DemoFee = 2
    DemoMode = TRUE
    MaxFeeVersion = 2
    MaxPaymentVersion = 2
SYMMETRY Interchangeable
INVARIANTS
    NoOverpayment
    InformedPayments
    ReceiptCreditedOnce
