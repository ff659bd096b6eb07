\* The pre-stream report against the stream: is a report ever followed by an older one?
CONSTANTS
    Crates <- MCCrates
    Exchanges <- MCExchanges
    Capacity = 1
    MaxReports = 2
SPECIFICATION Spec
PROPERTY ReportsNeverGoBack
CHECK_DEADLOCK FALSE
