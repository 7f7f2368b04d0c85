SPECIFICATION Spec
CONSTANTS
    Half = 131072
    Minute = 4
    Api = {a1}
    Probe = {p1}
    NoFile = NoFile
    MaxFound = 2
    Files <- MCFiles
    Envs <- MCEnvs
INVARIANTS
    TypeOK
    ServingIsConfigured
    LogoutSurvivesRestart
    ResourcesReleased
    CutIsReported
    CountedOnce
PROPERTIES
    ShutdownEnds
    ReadinessConverges
