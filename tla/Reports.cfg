SPECIFICATION Spec
CONSTANTS
    NULL = NULL
    BlockIds = {1, 2}
    AllocIds = {1, 2, 3}
    Addresses = {1, 2}
    Queries <- MCQueries
    PageSize = 1
    MaxPage = 1
    MaxPages = 3
INVARIANTS
    NeverOverfull
    OneHolder
    NoneMissing
    WasSo
