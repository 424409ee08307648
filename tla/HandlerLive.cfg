SPECIFICATION FairSpec
CONSTANTS
    Persona <- MailPersona
    Scenes <- LoginScenes
    Conns = {"c1", "c2", "c3"}
    TLSClients = {}
    Shy = {"c1", "c2", "c3"}
    Ignored = {}
INVARIANTS ScriptEnds ExchangesRecorded
PROPERTIES ConnectionsEnd GreetingComesFirst
CHECK_DEADLOCK FALSE
