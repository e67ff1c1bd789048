\* A client pipelining simple queries and extended blocks; the censor may block a Query or a Parse.
CONSTANTS
    Stmts <- MCStmts
    Portals <- MCPortals
    Unnamed <- MCUnnamed
    MaxUnits = 3
    MaxInFlight = 2
    UnitKinds = {"Simple", "Ext", "Exec"}
    CensorVerdicts = {TRUE, FALSE}
    DecryptVerdicts = {TRUE}
    RowCounts = {1}
    TxnStatuses = {"I"}
    KeyReads = {TRUE}
    ParserVerdicts = {TRUE}
SPECIFICATION Spec
INVARIANT ResponsesInRequestOrder
