CONSTANTS
    Threads = {1, 2}
    MaxSockets = 2
    LocalAddresses = {"any", "lo"}
    Fields <- SomeFields
    Configs <- SomeConfigs
    AsmConfigs <- SomeAsmConfigs
    Zmq = FALSE
    EtConfigs <- SomeEtConfigs
    EnginePort = 3000
    EngineThreads = {1, 2}
    NumEvents = 3
    DataWords = 2
    PrintInterval = 2
    NumFileEvents = 2
    MaxReopens = 1
    MaxReads = 3
    MaxReaders = 2
    Deployments <- AssembleOnly
SPECIFICATION ServicesSpec
PROPERTY CallsReturn
CHECK_DEADLOCK FALSE
