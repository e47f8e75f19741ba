CONSTANTS
    Id <- Email
    Perm <- Perms
    Client <- OneUser
    MaxFailures = 3
    Overlap = FALSE
    MaxProcs = 3
    MaxRecords = 2
    MaxExits = 1
SPECIFICATION FairSpec
INVARIANTS RegisteredIsPersisted 
PROPERTIES NoSelfRevival OutagesEnd
