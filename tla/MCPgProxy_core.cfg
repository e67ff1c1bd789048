\* Well-behaved pipelining client, censor allows everything, decryption may fail.
CONSTANTS
    Stmts <- MCStmts
    Portals <- MCPortals
    Unnamed <- MCUnnamed
    MaxUnits = 3
    MaxInFlight = 2
    UnitKinds = {"Simple", "Ext", "Exec"}
    CensorVerdicts = {TRUE}
    DecryptVerdicts = {TRUE, FALSE}
    RowCounts = {0, 1}
    TxnStatuses = {"I"}
    KeyReads = {TRUE}
    ParserVerdicts = {TRUE}
SPECIFICATION Spec
INVARIANT TypeOK
INVARIANT RowsAttributedToTheirQuery
INVARIANT ResponsesInRequestOrder
INVARIANT SessionNotTornDown
PROPERTY EveryRequestAnswered
PROPERTY ImplementsPgRelay
