CONSTANTS
    Tabs = {t1, t2}
    Users = {alice}
    ClerkUser = clerkUser
    Registered <- MCRegistered
    AuthorizeRequests <- MCAuthorizeRequests
    SamlRequests <- MCSamlRequests
    RelayStates = {"", "r1"}
    DefaultAcs = "https://default/acs"
    Deployments <- MCDeployments
    None = None
SYMMETRY Interchangeable
SPECIFICATION Spec
INVARIANTS
    TypeOK
    RefusedNeverGranted
    ShownIsGranted
    LeftoversNeverGranted
    LoggedOutStaysOut
    OnlySignedIsAnswered
    AnsweredAsAsked
CHECK_DEADLOCK FALSE
