\* A client that waits for each answer; a simple query may open a transaction and the censor may block the next one.
CONSTANTS
    Stmts <- MCStmts
    Portals <- MCPortals
    Unnamed <- MCUnnamed
    MaxUnits = 2
    MaxInFlight = 1
    UnitKinds = {"Simple"}
    CensorVerdicts = {TRUE, FALSE}
    DecryptVerdicts = {TRUE}
    RowCounts = {1}
    TxnStatuses = {"I", "T"}
    KeyReads = {TRUE}
    ParserVerdicts = {TRUE}
SPECIFICATION Spec
INVARIANT ClientSeesTxnStatus
