SPECIFICATION Spec
CONSTANTS
    Services = {s1}
    Handlers = {h1, h2, h3}
    Files = {}
    Dockerfile = Dockerfile
    EnvServices = {}
    Failures = FALSE
    None = None
INVARIANTS
    FlagsHaveRebuild
    RunningIdIsBuild
    CancelledGoesOnIfReset
SYMMETRY Symmetry
