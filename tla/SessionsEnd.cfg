SPECIFICATION Spec
CONSTANTS
    tab1 = tab1
    tab2 = tab2
    app = app
    Users = {nusrat}
    Jars <- TwoJars
    Tabs <- ThreeTabs
    JarOf <- JarOfTab
    MaxTokens = 3
    Nobody = Nobody
SYMMETRY AnyTab
INVARIANTS
    SessionsEnd
