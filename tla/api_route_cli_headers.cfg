SPECIFICATION Spec
CONSTANTS
    Prefixes = {"", "xai", "team"}
    MaxGrants = 2
    MaxEdits = 2
INVARIANT NoCLIHeadersOnAPI
