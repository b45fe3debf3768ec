SPECIFICATION Spec
CONSTANTS
    Rexes <- MCRexes
    Legacy <- MCLegacy
    Modrms <- MCModrms
    Sibs <- MCSibs
    MaxPrefixes = 2
    End = 2
INVARIANTS DecodesExactly
PROPERTIES ListsAll
