\* Every packet kind, up to three columns, settings at least as long as the
\* columns (or nil), every slot kind and every NULL pattern.
CONSTANTS
    MaxCols = 3
    Packets = {"D", "t", "T", "P"}
    ShortSettings = FALSE
SPECIFICATION Spec
INVARIANT TypeOK
INVARIANT ColumnsHandledAsSpecified
CONSTANT Messages <- MCMessages
INVARIANT ErrorPacketAsSpecified
