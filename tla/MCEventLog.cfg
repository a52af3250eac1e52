SPECIFICATION Spec
CONSTANTS
    null = null
    UI_EVENT_CAP = 2
    Forms <- OneOrTwoClients
    Params <- SomeParams
    Names <- SomeNames
    Gateways <- SomeGateways
    RawForms <- AnyForm
    TickLength = 50
    MaxTime = 150
    MaxCalls = 3
    MaxConcurrency = 2
    MaxFaults = 1
INVARIANTS
    EventsAccounted
    IssuesExplained
    ViewsAgree
    StartAppliesForm
    MarkersSound
    BudgetHonest
CHECK_DEADLOCK FALSE
