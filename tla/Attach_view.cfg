\* A view command that neither stops nor ends early.
SPECIFICATION FairSpec
CONSTANTS
    MaxEscape = 4
    MaxWithheld = 5
    Scripts <- MCNoKeys
    Codes = {0}
    MaxChunks <- MCOne
    MaxDetaches <- MCNone
    MayFlood <- MCNoFlood
    MayCrash = FALSE
    MayQuit = FALSE
PROPERTY ViewWhole
