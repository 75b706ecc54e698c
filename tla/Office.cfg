CONSTANTS
    k1 = k1
    Rented = {q1}
    WindowDays = 2
    EndDay = 5
    Keepers = {k1, k2}
    Tracks = {t1, t2}
    Facts = {f1}
    Terms = {1, 2}
    MonthDays = 1
    Ahead = 1
    LastDay = 2
    Lot = 1
    MaxSaves = 1
    Tags = {1, 2}
    PageSize = 1
    MaxTokens = 3
    MaxExpiries = 1
    Headers <- MCHeaders
    Cells <- MCCells
    Columns = 2
    Lines = 2
    Handhelds = {h1, h2}
    MaxHandling = 2
    DaySlots = 2
    Outings = {o1, o2}
    Handlers = {h1}
    Timetable <- MCTimetable
    MaxMoves = 2
    LastHour = 2
    Overlap = FALSE
    Tabs = {t1, t2}
    Values = {1, 2}
    MaxTyped = 1
    Dates = {1, 2, 3, 4}
    Pushes = {p1}
    Span = 2
    TracePoints = 2
    Together = FALSE
SPECIFICATION OfficeSpec
INVARIANTS
    KeptInv
    InServiceInv
    FileInv
PROPERTY OfficeSteps
CHECK_DEADLOCK FALSE
