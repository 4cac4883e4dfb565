CONSTANTS
    agent = agent
    panel = panel
    Sdk = {agent}
    CApi = {panel}
    Prompt = {agent}
    MaxSlots = 1
    Beat = 2
    IdentifyTo = 1
    Lag = 1
    Wrap = 3
    Tries <- MCTries
    MaxMsg <- MCMaxMsg
SPECIFICATION Spec
INVARIANTS
    AnnouncedIsConnected
    SdkMessagesIntact
PROPERTIES
    PromptKept
    SlotsAreEarned
    HandedOverIsServed
