SPECIFICATION Spec
CONSTANTS
    NULL = NULL
    StartSize = 2
    Code <- MCCode
    StaticTable <- MCStaticTable
    CommonKeys <- MCCommonKeys
    Fields <- MCFields
    Options <- MCOptions
    PeerOptions <- MCPeerOptions
    TableSizes = {35, 175}
    UpdateSizes = {35}
    Malformed <- MCMalformed
    MaxFields = 1
INVARIANTS
    RoundTrip
    TablesInStep
    RingsAreClean
PROPERTY
    ImplementsHpackList
CHECK_DEADLOCK FALSE
