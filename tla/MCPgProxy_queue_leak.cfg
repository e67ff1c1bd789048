\* A client that waits for each answer; the censor may block a query, and a unit may execute its statement twice before Sync.
CONSTANTS
    Stmts <- MCStmts
    Portals <- MCPortals
    Unnamed <- MCUnnamed
    MaxUnits = 2
    MaxInFlight = 1
    UnitKinds = {"Simple", "Batch"}
    CensorVerdicts = {TRUE, FALSE}
    DecryptVerdicts = {TRUE}
    RowCounts = {1}
    TxnStatuses = {"I"}
    KeyReads = {TRUE}
    ParserVerdicts = {TRUE}
SPECIFICATION Spec
INVARIANT RowsAttributedToTheirQuery
