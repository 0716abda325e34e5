\* A terminal, a session that ends or crashes at any time, a view command that
\* may stop, stall or end, and a detach ordered by somebody else.
SPECIFICATION MCSpec
CONSTANTS
    MaxEscape = 4
    MaxWithheld = 5
    Scripts <- MCScripts
    Codes = {0}
    MaxChunks <- MCChunks
    MaxDetaches <- MCDetaches
    MayFlood <- MCFloods
    MayCrash = TRUE
    MayQuit = TRUE
INVARIANTS AttachTypeOK InputExact ExitWhole ClientTruth
PROPERTIES DetachHeard AttachEnds
