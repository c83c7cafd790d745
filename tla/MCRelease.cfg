SPECIFICATION Spec
CONSTANTS
    login = login
    ships = ships
    viewer = viewer
    admin = admin
    scan = scan
    beat = beat
    id = id
    hp = hp
    header = header
    secrets = secrets
    token = token
    pages = pages
    Roles = {viewer, admin}
    SuperAdmin = admin
    AuthRoutes = {login}
    Logout = login
    Mutating = {login}
    BodyRequired = {login}
    BodyOptional = {}
    Parameters <- TwoRoutes
    Responses <- NeededResponses
    WsEvents = {scan, beat}
    Heartbeat = beat
    SmokeEvents = {scan}
    Payload <- ThePayload
    OptionalFields <- NoOptional
    Env <- TheEnv
    FrontendHeaders = {header}
    IgnorePatterns = {secrets}
    NoAlias = NoAlias
    NoObject = NoObject
    Trees <- SomeTrees
    PreflightArgs <- SomeArgs
    StepChoices <- SomeChoices
    NoManifest = NoManifest
    MaxCommands = 2
    MaxKills = 1
    UsualTrees <- TwoTrees
    Child = Child
    Manual = Manual
    Runners = {Child, Manual}
    Ports = {1, 2}
    Nobody = Nobody
    NoFile = NoFile
    KeepChoices <- TwoKeeps
CHECK_DEADLOCK FALSE
INVARIANTS
    GateMeansContracts
    ManifestTruthful
    DrillProvesRestore
    LeftoversHarmless
    NothingLeft
