CONSTANTS
    phone = phone
    browser = browser
    app = app
    tab1 = tab1
    Clients <- TwoDevices
    Jar <- JarOf
    Phones = {phone}
    Requests = {1, 2}
    MaxTokens = 3
SPECIFICATION Spec
INVARIANTS AlarmIsExplained
PROPERTIES OnlyALoginTakesOver DeactivatedLogsOut
CHECK_DEADLOCK FALSE
