SPECIFICATION FairSpec
CONSTANTS
    Services = {s1}
    Handlers = {h1, h2}
    Files = {}
    Dockerfile = Dockerfile
    EnvServices = {}
    Failures = TRUE
    None = None
INVARIANTS
    ServiceKeepsRunning
PROPERTIES
    RequestsAreServed
    SessionSettles
