SPECIFICATION Spec
CONSTANTS
    f1 = f1
    f2 = f2
    f3 = f3
    left = left
    right = right
    daemon = daemon
    client = client
    neighbour = neighbour
    maintenance = maintenance
    Null = Null
    Files = {f1, f2, f3}
    Identities = {left, right}
    Configured = left
    Maintenance = maintenance
    Servers = {daemon, client, neighbour}
    Daemon = daemon
    Situations <- ManySituations
    MaxRequests = 1
    MaxMoves = 3
    MaxWrites = 1
CHECK_DEADLOCK FALSE
INVARIANTS
    FilesTypeOK
    BackupIsWhole
    AnswersComeFromTheBoundFile
    LockIsHeldInUse
PROPERTIES
    BackupWritesOnlyItsFile
    FailedBackupLeavesNoTrace
    RequestsAreAnswered
