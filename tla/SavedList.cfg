\* Two tabs, two accounts, and forms without images.
SPECIFICATION Spec
CONSTANTS
    t1 = t1
    t2 = t2
    a1 = a1
    a2 = a2
    x1 = x1
    x2 = x2
    r1 = r1
    r2 = r2
    NoText = NoText
    NoRun = NoRun
    Nobody = Nobody
    Tabs = {t1, t2}
    Accounts = {a1, a2}
    Texts = {x1, x2}
    Runs = {}
    MaxSaved = 3
SYMMETRY Symmetry
PROPERTY DeletesWhatIsShown
