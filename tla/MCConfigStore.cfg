CONSTANTS
    Users = {admin, alice}
    Admin = admin
    NoUser = NoUser
    Clients = {demo}
    DemoClient = demo
    NoDoc = NoDoc
    Placeholder = Placeholder
    FromEnv = FromEnv
    Builtin = Builtin
    Bad = Bad
    WebThreads = {w1, w2}
    Mcp = Mcp
    Profile = Profile
    Deployments <- MCDeployments
    MaxOps = 3
    MaxMcpOps = 2
    MaxFailures = 1
SYMMETRY Interchangeable
SPECIFICATION Spec
INVARIANTS
    TypeOK
    UntouchedKeysSurvive
    
    
PROPERTIES
    SoloOperationIsPrefix
    SoloSuccessAgreesWithBucket
    BlankEditKeepsSecret
