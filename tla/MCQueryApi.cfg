\* One client, three rows in two instants, pages of one and two rows.
SPECIFICATION FairSpec
CONSTANTS
    alice = alice
    bob = bob
    r1 = r1
    r2 = r2
    r3 = r3
    Clients <- OneClient
    Ids <- ThreeRows
    Times = {1, 2}
    Sizes <- OneOrDefault
    DefaultPageSize = 2
    Fronts = {"http", "grpc"}
    MaxPage = 4
INVARIANTS PagesCoverTheList TotalIsReachable GracefulStopAnswers
PROPERTY ForcedStopEnds
CHECK_DEADLOCK FALSE
