SPECIFICATION Spec
CONSTANTS
    Prefixes = {"", "team"}
    MaxGrants = 4
    MaxEdits = 2
INVARIANTS TypeOK FreshBearer StaysRefreshable RouteAgrees 
PROPERTY RefreshKeepsRoute
