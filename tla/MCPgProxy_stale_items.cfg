\* A pipelining client: responses are handled after the client reader stored the settings of a later query, or a statement prepared earlier is executed again.
CONSTANTS
    Stmts <- MCStmts
    Portals <- MCPortals
    Unnamed <- MCUnnamed
    MaxUnits = 3
    MaxInFlight = 2
    UnitKinds = {"Simple", "Describe", "Ext", "Exec"}
    CensorVerdicts = {TRUE}
    DecryptVerdicts = {TRUE}
    RowCounts = {1}
    TxnStatuses = {"I"}
    KeyReads = {TRUE}
    ParserVerdicts = {TRUE}
SPECIFICATION Spec
INVARIANT SessionSettingsMatchResponse
