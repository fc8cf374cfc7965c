SPECIFICATION SharedSpec
CONSTANTS
    p1 = p1
    p2 = p2
    c1 = c1
    c2 = c2
    jan = jan
    feb = feb
    Process = {p1, p2}
    Checkout = {c1}
    CheckoutOf <- OneCheckout
    Path = {jan, feb}
    Text <- Texts
    Bytes <- Sizes
    Exports <- TwoMonths
    Handled = {}
    Tag = {}
    NoTag = NoTag
    Requests <- AnyRequest
    Nothing = Nothing
    MaxPending = 128
    MaxCommits = 2
INVARIANTS
    PublishedIsVerified
