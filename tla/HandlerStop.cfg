SPECIFICATION Spec
CONSTANTS
    Persona <- OnePersona
    Scenes <- StopScenes
    Conns = {"c1"}
    TLSClients = {}
    Shy = {}
    Ignored = {}
INVARIANTS StopsCleanly
CHECK_DEADLOCK FALSE
