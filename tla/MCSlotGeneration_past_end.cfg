CONSTANTS
    Job = {j1}
    Template = {tp1}
    Row <- OneRow
    Window <- TwoZones
    DayLen <- FourTicks
    Faulty = {}
    NoTemplate = NoTemplate
    NoRow = NoRow
    NoWindow = NoWindow
SPECIFICATION Spec
INVARIANTS WithinTemplateDates
CHECK_DEADLOCK FALSE
