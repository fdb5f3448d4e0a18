SPECIFICATION FairSpec
CONSTANTS
    new = new
    old = old
    ingestion = ingestion
    Appliers = {new, old}
    Writers = {ingestion}
    Clients = {new, old, ingestion}
    Keys <- TheKeys
    MaxValue = 2
    Bodies <- TheBodies
    VersionOf <- TheRows
    Known <- Releases
    HistoryTable = "history"
    DataStatements <- TheData
    Statements <- TheStatements
    BatchSize = 2
    MaxWrites = 2
    MaxTransactions = 1
    MaxFaults = 1
INVARIANTS HistoryIsTrue
PROPERTIES ImplementsSql MigrationsComplete
CHECK_DEADLOCK FALSE
