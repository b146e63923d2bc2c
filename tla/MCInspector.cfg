SPECIFICATION FairInspectorSpec
CONSTANTS
    helper = helper
    call = call
    early = early
    late = late
    Head = Head
    Main = Main
    Nodes = {helper}
    Edges = {call}
    Occurrences = {early, late}
    Bases = {Head, Main}
    Nothing = Nothing
    GraphAt <- MCGraphAt
    MaxVersion = 2
    MaxRequests = 6
INVARIANTS
    EvidenceIsOfThePresent
    EvidenceNotOlder
PROPERTIES
    EvidenceArrives
CHECK_DEADLOCK FALSE
