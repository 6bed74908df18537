CONSTANTS
    Threads = {t1}
    Specs <- MCSpecs
    Word = 4
    MaxList = 4
    MAX_NUM_EVENTS = 3
    NUM_WATERMARK_METRICS = 2
    MaxAttach = 2
SPECIFICATION Spec
INVARIANTS SampleFindsMetric CountersAreDescribed EventLimitAccepted FirstAttachThreadsEnd
CHECK_DEADLOCK FALSE
