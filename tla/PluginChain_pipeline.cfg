CONSTANTS
    Builds <- MCBuilds
    Routes <- MCRoutes
    Requests <- MCRequests
    Peers <- MCPeers
    Backend <- MCBackend
    MaxCalls = 2
SPECIFICATION Spec
INVARIANTS TypeOK ServesCompleteRegistry
PROPERTIES PipelineRefines  IpRestrictionDecides
CHECK_DEADLOCK FALSE
