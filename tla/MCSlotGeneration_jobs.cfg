CONSTANTS
    Job = {j1, j2}
    Template = {tp1}
    Row <- ManyRows
    Window <- OneZone
    DayLen <- FourTicks
    Faulty = {j1}
    NoTemplate = NoTemplate
    NoRow = NoRow
    NoWindow = NoWindow
SPECIFICATION FairSpec
INVARIANTS NoOverlapInJob TemplateOfSlotExists GenerationInv JobComplete
PROPERTIES ImplementsPlan JobEnds
CHECK_DEADLOCK FALSE
