\* Two requests in one tab, one in another, a login after the first.
CONSTANTS
    tab1 = tab1
    tab2 = tab2
    q1 = q1
    q2 = q2
    q3 = q3
    Tabs = {tab1, tab2}
    Requests = {q1, q2, q3}
    TabOf <- TwoInFirstTab
    MaxTokens = 5
    MaxLogins = 1
    NoRequest = NoRequest
SPECIFICATION FairSpec
CONSTRAINT OneEnding
INVARIANTS
    TheftHasCause
    LogoutEndsSession
    RefreshIsTransparent
PROPERTIES
    ImplementsSession
    RequestsSettle
CHECK_DEADLOCK FALSE
