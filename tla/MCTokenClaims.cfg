CONSTANTS
    Users = {alice}
    DefaultUser = alice
    Clients = {"spa"}
    Audiences = {"default", "api"}
    Profiles <- MCProfiles
    Installations <- MCInstallations
    Scopes <- MCScopes
    ClaimRequests <- MCClaimRequests
    Extras <- MCExtras
    NoClient = ""
    Gone = Gone
    None = None
    MaxGrants = 1
    MaxIssues = 3
    MaxEdits = 2
SPECIFICATION Spec
INVARIANTS
    TypeOK
    ReleasedWasGranted
    IdTokenSpeaksForTheGrant
    RefreshKeepsContext
    OnlyAccessTokensOpen
CHECK_DEADLOCK FALSE
