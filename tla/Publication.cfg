SPECIFICATION OwnSpec
CONSTANTS
    p1 = p1
    p2 = p2
    c1 = c1
    c2 = c2
    jan = jan
    feb = feb
    Process = {p1, p2}
    Checkout = {c1, c2}
    CheckoutOf <- OwnCheckout
    Path = {jan, feb}
    Text <- Texts
    Bytes <- Sizes
    Exports <- OneOrTwo
    Handled = {c1}
    Tag = {t1}
    NoTag = NoTag
    Requests <- AnyRequest
    Nothing = Nothing
    MaxPending = 2
    MaxCommits = 3
INVARIANTS
    TypeOK
    PublishedIsWhole
    PublishesItsExport
PROPERTIES
    UnownedSurvives
    ImplementsLog
