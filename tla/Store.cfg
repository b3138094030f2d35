\* The document store and its tables; nothing is written between the read and the rewrite of a migration.
SPECIFICATION MCSpec
CONSTANTS
    f1 = f1
    f2 = f2
    k1 = k1
    k2 = k2
    e1 = e1
    x1 = x1
    x2 = x2
    p1 = p1
    p2 = p2
    Flows = {f1, f2}
    Conn <- ConnEach
    Keys = {k1, k2}
    Entities = {e1}
    EntityOf <- OneEntity
    MaxTime = 1
    Limit = 1
    Never = Never
    NoEntity = NoEntity
    NoRow = NoRow
    Absent = Absent
    Processes = {p1, p2}
    Added <- MetaColumns
    Indexed <- IndexedColumns
    NoTable = NoTable
    Migrators = {p1, p2}
    Names = {"User", "user", "acct"}
    LikeName <- AlikeUsers
    TopVersion = 1
    Registry <- OldAndNew
    MaxLowered = 1
    Serials = {1, 2, 3}
    Renumber <- OneOn
    Rejected = Rejected
    MaxStored = 2
    MaxDocs = 2
    Columns <- ThreeColumns
    Ids = {1, 2}
    Values = {1, 2}
    Declarations <- Versions
    MaxRows = 2
INVARIANTS MigrationIsSound OpenedIsComplete UniqueIsEnforced
PROPERTIES ModifiesTheLive CleanupIsInvisible ImplementsDocMap NothingLost
