SPECIFICATION Spec
CONSTANTS
    Servers = {s1, s2}
    Objects = {"table", "column"}
    MIGRATIONS <- MCMigrations
    Required = {"table"}
    MaxCrashes = 1
    BlockIds = {1, 2}
    Failing = {1}
    AllocIds = {1, 2, 3}
    BlockOf <- MCBlockOf
    Table = "table"
    MaxClock = 1
INVARIANTS
    RecordedInOrder
PROPERTIES
    SparesTheRest
    DueIsReleased
CHECK_DEADLOCK FALSE
