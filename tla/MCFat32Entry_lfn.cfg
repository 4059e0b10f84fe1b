\* Long entries for "hé中" and "naïveÿ": to_utf8 stops at the low byte
\* 0xFF of 'ÿ' (U+00FF), so the name is not found under itself.
CONSTANTS
    ShortNames <- MCShortNames
    DotNames <- MCDotNames
    LongNames <- MCLongNamesFF
    Clusters <- MCClusters
    Lengths <- MCLengths
    Ordinals = {65}
    CheckSums = {122}
SPECIFICATION Spec
INVARIANT LongNameRoundTrip
