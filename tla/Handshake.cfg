\* Every negotiation family; cookies live four ticks.
SPECIFICATION Spec
CONSTANTS
    HashOf <- MCHashOf
    FallbackOf <- MCFallbackOf
    Scenarios <- MCScenarios
    Lifetime = 4
INVARIANTS
    TypeOK
    Agreement
    FailuresExplained
    SomeoneCanMove
    EarlyDataAgrees
    InnerHelloHidden
    ClientAuthenticated
    AmplificationRespected
