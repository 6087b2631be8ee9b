CONSTANTS
    None = None
    PageIds = {1, 2, 3, 4}
    max_page_name = 4
    max_page_revision = 4
    page_limit = 2
    AgentPermissions = {"read", "write"}
    Tasks = {1, 2, 3}
    max_ui_selection = 2
    Scenarios <- PageScenarios
    Null = Null
    Coordinates = {"1,1"}
    MAX_WAYPOINTS = 1
    Fences <- MCFences
    Aliases = {"s1", "s2"}
    Expansion <- MCExpansion
    line_limit = 6
    Drafts <- Documents
    KeyIds = {1, 2, 3, 4, 5}
    Nil = Nil
    max_key_revision = 3
    Slots = {1, 2}
    KeyScenarios <- KeyDocuments
SPECIFICATION BrowserSpec
INVARIANTS SelectionIsShown DraftsStayOneSection FramesMatchTheirLinks
PROPERTIES StaleClicksChangeNothing ControlsComeBack DraftsFollowTheirSections ArrangingKeepsWhatIsSaid ExpansionsKeepToTheirLink KeysChangeAsAsked
CHECK_DEADLOCK FALSE
