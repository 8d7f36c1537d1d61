SPECIFICATION Spec
CHECK_DEADLOCK FALSE
CONSTANT Structs <- Layouts
INVARIANTS TypeOK InTheirPlaces RoundTrips SpoilsOnlyItsMember AsGenerated HeadersAgree KeysAreMembers PayloadFits
