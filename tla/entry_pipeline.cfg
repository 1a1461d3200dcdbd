\* Signals become orders: the filter over two items, the planner over one
SPECIFICATION PipelineSpec
CONSTANTS
    Setups <- MCSetups
    Arbitrated = {2}
    Budget = 1
    BlockOnError = TRUE
    MaxRequests = 2
    Planners = {"native", "sliced", "sliced_alone"}
    Watchers = {w1, w2}
    Quantity = 3
    SliceCounts = {2}
    MaxSlices = 3
    Publishes = TRUE
    OwnPlans <- MCOwnPlans
    MaxLost = 2
    MaxFaults = 1
    MaxRuns = 1
    Threads <- MCThreads
    Models <- MCModels
    DailyLimit <- MCDailyLimit
    MaxCharts = 2
    Scores = {0, 1}
    Threshold = 1
    Escalated = {1}
    SentimentModels <- MCSentimentModels
    VisionModels <- MCVisionModels
    ProModels <- MCProModels
    ProRoute <- MCProRoute
    TwoStep = FALSE
    MaxMishaps = 1
INVARIANTS PipelineTypeOK RevokedWasNotSent RequestRowIsAnswer AnswerTellsFill QuotaKeptUntilLockAges
PROPERTIES Implements OrdersAreAllowed ItemsAreDealtWith
CHECK_DEADLOCK FALSE
