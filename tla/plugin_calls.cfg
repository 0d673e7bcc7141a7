SPECIFICATION FairSpec
CONSTANTS
    Threads = {t1, t2}
    Prefixes = {"", "xai", "team"}
    Absent = Absent
    Trim <- MCTrim
    Lower <- MCLower
    Unquoted <- MCUnquoted
    CatalogModels <- MCCatalog
    Blocks <- MCBlocks
    Payloads <- MCPayloads
INVARIANTS TypeOK PrefixCurrent OnlyValidEndpoints FirstListingWins CatalogFillsGaps
PROPERTY EveryOAuthCallReturns
