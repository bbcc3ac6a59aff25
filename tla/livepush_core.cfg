SPECIFICATION Spec
CONSTANTS
    Services = {s1}
    Handlers = {h1, h2}
    Files = {f1}
    Dockerfile = Dockerfile
    EnvServices = {}
    Failures = FALSE
    None = None
INVARIANTS
    LossIsExplained
SYMMETRY Symmetry
