\* A slot written with short, dot and long entries, lengths updated and
\* entries deleted, in any order.
CONSTANTS
    ShortNames <- MCShortNames
    DotNames <- MCDotNames
    LongNames <- MCLongNames
    Clusters <- MCClusters
    Lengths <- MCLengths
    Ordinals = {65, 1}
    CheckSums = {122}
SPECIFICATION Spec
 
INVARIANT EntryRoundTrip
