SPECIFICATION Spec
CONSTANTS
    MaxEdits = 2
    MaxFails = 1
    Templates = {"a", "b"}
    MaxTemplateEdits = 3
    MaxTemplateFails = 2
    MaxOutbounds = 3
    MaxRules = 2
    MaxTplEdits = 4
    MaxAccounts = 2
    BalTags = {"b1", "b2"}
    Selectors = {"x", "y"}
    MaxBalancers = 2
    MaxBalEdits = 4
    Domains = {"d1", "d2"}
    MaxRows = 2
    MaxDnsEdits = 4
    Lanes = 1
    MaxListEdits = 1
    MaxFormEdits = 2
    MaxInboundEdits = 3
    MaxOpens = 2
    MaxDialogSteps = 3
    MaxServerSteps = 2
    MaxListSteps = 1
    MaxPageSteps = 4
    MaxAsked = 2
    MaxEditSteps = 4
    MaxHydrations = 2
    NClients = 3
    PageRows = 2
    MaxListActs = 2
    MaxPushes = 1
    MaxNodeActs = 2
    MaxWorld = 1
    MaxGroupActs = 2
    ActsPerChange = 1
    Window = 2
    MaxLines = 4
    MaxLogSteps = 5
    Alerts = {"a1"}
    Sensors = {"s1"}
    WatchedClients = {"c1"}
    HISTORY_CAP = 2
    ACTIVE_CAP = 2
    Levels = 2
VIEW Moving
INVARIANTS
    TypeOK
    QuietMeansInSync
    ReferencesResolve
    ScreenFollowsServer
    SavedAsShown
    LinkRoundTrip
    NotifiedOnce
    AnswersLand
PROPERTIES
    RightRow
CHECK_DEADLOCK FALSE
