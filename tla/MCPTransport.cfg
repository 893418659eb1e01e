\* Two requests: a late or duplicate reply to the first can meet the second in
\* flight; one unread line is enough for it, as the server may write again once
\* the line is read.  The requests run out, so the system may stop.
CONSTANTS
    MaxIds = 2
    MaxLines = 1
SPECIFICATION FairSpec
CHECK_DEADLOCK FALSE
INVARIANTS
    ReaderSurvivesReplies
    RepliesMatch
    NoLeakByTimeout
PROPERTIES
    ReaderEndReleasesCalls
    WaitingCallsEnd
    StopReturns
