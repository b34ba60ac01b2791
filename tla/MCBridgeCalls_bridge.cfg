SPECIFICATION FairSpec
CONSTANTS
    ui = ui
    worker = worker
    p1 = p1
    p2 = p2
    Thread <- MCThread
    JsThread = ui
    Plugin <- MCPlugin
    PluginType <- MCPluginType
    Nobody = Nobody
    NoPlugin = NoPlugin
    MaxOperations = 6
    MaxCalls = 2
    MaxMessages = 2
INVARIANTS BridgeTypeOK AvailabilityAgrees OnePlacePerCall OwnResponse
PROPERTIES RegistrationReturns SendersSettle
CHECK_DEADLOCK FALSE
