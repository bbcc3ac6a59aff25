SPECIFICATION Spec
CONSTANTS
    Services = {s1, s2}
    Handlers = {h1, h2}
    Files = {}
    Dockerfile = Dockerfile
    EnvServices = {s2}
    Failures = FALSE
    None = None
INVARIANTS
    QuietIsAttached
PROPERTIES
    RebuildTakesDownOwn
SYMMETRY Symmetry
