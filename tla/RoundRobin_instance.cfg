\* One balancer instance serving at least two periods of every schedule,
\* and the hash and random strategies over positive weights.
CONSTANTS
    Upstreams <- MCUpstreams
    MaxCalls = 22
    RebuildPerRequest = FALSE
SPECIFICATION Spec
INVARIANT FollowsSchedule
\* The call bound ends every behaviour.
CHECK_DEADLOCK FALSE
