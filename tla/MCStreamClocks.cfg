CONSTANTS
    Second = 4
    Fraction = 9
    HalfEra = 8
    HalfRtp = 8
    Epoch = 15
    Theta <- MCTheta
    Rate = 3
    FirstFrame = 13
    MaxRtt = 4
    Slack = 1
    MaxAge = 5
    FastInterval = 2
    SlowInterval = 3
    FastRequests = 2
    NtpMaxTime = 7
    MaxFlight = 4
    MaxReplies = 2
    Clocks = {1, 2}
    Domains = {0, 1}
    ClockTheta <- MCClockTheta
    MaxDelay = 2
    Corrections = {0, 1}
    MatchTime = 1
    Window = 2
    Fresh = 3
    Smooth = 2
    PtpMaxTime = 4
    MaxSyncs = 2
SPECIFICATION ClocksSpec
INVARIANTS GenuineAccepted DeadlineAccurate DeadlineCorrect
CHECK_DEADLOCK FALSE
