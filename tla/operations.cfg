SPECIFICATION Spec
CONSTANTS
    v1 = v1
    v2 = v2
    v3 = v3
    Releases <- Versions
    Installed = v1
    None = None
    MaxScripts = 5
INVARIANTS
    TypeOK
    RunsChecked
    ServicesRunCurrent
    RollbackReady
PROPERTIES
    RollbackUndoes
