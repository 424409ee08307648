SPECIFICATION AgentSpec
CONSTANTS
    Width = 16
    Second = 8
    Day = 1000
    MB = 16
    Configs <- AgentConfigs
    Stocks <- AgentStocks
    MaxAttempts = 2
    Scenes <- AgentScenes
    Persona <- AgentPersona
    Conns = {"web", "iot", "scrape1", "scrape2", "scrape3"}
    TLSClients = {"web"}
    Shy = {"iot"}
    Ignored = {"scrape1", "scrape2", "scrape3"}
INVARIANTS StreamIntact SensorStands DropsCounted ConfigSane
PROPERTIES StopEnds
CHECK_DEADLOCK FALSE
