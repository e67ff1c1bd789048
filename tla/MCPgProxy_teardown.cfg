\* Client mistakes and reuse of names: a Bind of a statement never prepared; a named statement closed and prepared again; a named portal bound again in a later transaction.
CONSTANTS
    Stmts <- MCStmts
    Portals <- MCPortalsNamed
    Unnamed <- MCUnnamed
    MaxUnits = 3
    MaxInFlight = 1
    UnitKinds = {"Stray", "Prepare", "Close", "Ext"}
    CensorVerdicts = {TRUE}
    DecryptVerdicts = {TRUE}
    RowCounts = {1}
    TxnStatuses = {"I"}
    KeyReads = {TRUE}
    ParserVerdicts = {TRUE}
SPECIFICATION Spec
INVARIANT SessionNotTornDown
