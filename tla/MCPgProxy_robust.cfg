\* Every client unit kind including client mistakes, and censor, decryption,
\* keystore read and SQL parser failures; the client waits for each answer.
CONSTANTS
    Stmts <- MCStmts
    Portals <- MCPortals
    Unnamed <- MCUnnamed
    MaxUnits = 3
    MaxInFlight = 1
    UnitKinds = {"Simple", "Ext", "Exec", "Stray", "Close", "Describe"}
    CensorVerdicts = {TRUE, FALSE}
    DecryptVerdicts = {TRUE, FALSE}
    RowCounts = {1}
    TxnStatuses = {"I"}
    KeyReads = {TRUE, FALSE}
    ParserVerdicts = {TRUE, FALSE}
SPECIFICATION Spec
PROPERTY ClientNeverHangs
VIEW ProtocolView
