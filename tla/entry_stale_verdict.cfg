\* The kline cache moves on while Gemini looks at the chart
SPECIFICATION PipelineSpec
CONSTANTS
    Setups <- MCFilterOnly
    Arbitrated = {2}
    Budget = 1
    BlockOnError = TRUE
    MaxRequests = 2
    Planners = {"native", "sliced", "sliced_alone"}
    Watchers = {w1, w2}
    Quantity = 3
    SliceCounts = {2}
    MaxSlices = 3
    Publishes = TRUE
    OwnPlans <- MCOwnPlans
    MaxLost = 2
    MaxFaults = 1
    MaxRuns = 1
    Threads <- MCThreads
    Models <- MCModels
    DailyLimit <- MCAmpleLimit
    MaxCharts = 2
    Scores = {0, 1}
    Threshold = 1
    Escalated = {1}
    SentimentModels <- MCSentimentModels
    VisionModels <- MCVisionModels
    ProModels <- MCProModels
    ProRoute <- MCProRoute
    TwoStep = TRUE
    MaxMishaps = 0
PROPERTIES ServedForItsChart
CHECK_DEADLOCK FALSE
