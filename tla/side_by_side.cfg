SPECIFICATION Spec
CONSTANTS
    Significand = 4194304
    MaxItems = 200
    Request = {r1, r2, r3}
    Cert = {c1}
    Holder = {u1}
    Training = {t1}
    Roster = {none, l1}
    NoRoster = NoRoster
    EmptyRoster = none
    Rates = {0, 1}
    MaxRows = 3
    Filter = {f1, f2}
    NoFilter = NoFilter
    MaxPage = 2
    MaxFetches = 4
    Incident = {i1, i2}
    NoIncident = NoIncident
    MaxClicks = 3
    MaxCopies = 1
    MaxEntries = 6
    MaxPageSize = 2
    DefaultPageSize = 3
INVARIANTS ScoreWithinOne FullScoreMeansCompleted RecordsTypeOK DecidedOnce RateOfLastRecord RosterLostOnlyByOverlap NewestListIsCurrent ShownStageIsPast ReloadShowsAction NoEntrySkipped
PROPERTIES ScoreIsMonotone RateNotUnderstated
CHECK_DEADLOCK FALSE
