SPECIFICATION FairSpec
CONSTANTS
    Persona <- OnePersona
    Scenes <- TLSScenes
    Conns = {"c1"}
    TLSClients = {}
    Shy = {"c1"}
    Ignored = {}
PROPERTIES GreetingComesFirst
CHECK_DEADLOCK FALSE
