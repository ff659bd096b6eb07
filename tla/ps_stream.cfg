\* Both implementations, every exchange, two streamed prices; the exchange sends anything and hangs up when it likes.
CONSTANTS
    Crates <- MCCrates
    Exchanges <- MCExchanges
    Capacity = 1
    MaxReports = 2
SPECIFICATION FairSpec
INVARIANT TypeOK
INVARIANT StoppedStreamIsVisible
PROPERTY HangupEndsEveryTask
CHECK_DEADLOCK FALSE
