SPECIFICATION PubSpec
CONSTANTS
    Publishers = {n1, n2, r1}
    Replacing = {r1}
    NoFile = NoFile
    Torn = Torn
INVARIANT
    ResidueNamesPublication
CHECK_DEADLOCK FALSE
