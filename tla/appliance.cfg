SPECIFICATION Spec
CONSTANTS
    NoValue = NoValue
    Units <- UnitsMC
    MaxSent = 2
INVARIANTS
    TypeOK
    OffShowsNothing
    RefusalsShown
    ComposedInRange
    ShownIsSent
PROPERTIES
    PartialIsLenient
    EchoShows
    ChoicesSurvive
