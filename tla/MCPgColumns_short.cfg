\* DataRows, ParameterDescriptions and Parses with more columns or parameter types than the settings slice has slots.
CONSTANTS
    MaxCols = 2
    Packets = {"D", "t", "P"}
    ShortSettings = TRUE
SPECIFICATION Spec
INVARIANT NoIndexOutOfRange
CONSTANT Messages <- MCMessages
