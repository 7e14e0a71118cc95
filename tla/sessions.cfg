SPECIFICATION SessionSpec
CONSTANTS
    Sessions = {"s1", "s2", "s3"}
    Lanes = {"l1", "l2"}
    About <- MCAbout
    RuleCapacity = 2
    PriorityLimit = 2
    SessionCapacity = 3
    LaneCapacity = 2
    PlanCapacity = 2
    Endpoints = {"e1", "e2"}
    NoEndpoint = "no endpoint"
    Order <- MCOrder
    Running <- MCRunning
    PendingCapacity = 1
    CatalogCapacity = 3
    MaxSources = 2
    FailureLimit = 1
    Rules <- MCRules
    MaxEvents = 3
INVARIANTS
  RouteReachesNamedSession
  OneCapturePerLane
PROPERTIES
  AssignedLaneSurvives
  RoutingSettles
CHECK_DEADLOCK FALSE
