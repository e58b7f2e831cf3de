SPECIFICATION Spec
CONSTANTS
    Markup = {"<", "&lt;", "</name></member><member><name>"}
    Unquoted <- MCUnquoted
    Numeral <- MCNumeral
    IntWidth = 4
    LongWidth = 5
    PrintF <- MCPrintF
    PrintG <- MCPrintG
    Atof <- MCAtof
    Documents <- MCDocuments
    Extras = {"nil", "value", "name", "param"}
    MaxFaults = 2
CHECK_DEADLOCK FALSE
INVARIANT NoDoubleFree
