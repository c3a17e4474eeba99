SPECIFICATION FairSpec
CONSTANTS
    Panes <- OnePane
    Runs = {first, second}
    Polls = {poll_a, poll_b}
    NoRun = none
    Rows = 1
    Patient = TRUE
    MaxFailures = 1
INVARIANTS
    TypeOK CleanStart VerdictAtRest MarkedIsWorked
PROPERTIES
    PageCatchesUp
CHECK_DEADLOCK FALSE
