INIT TeamInit
NEXT TeamNext
CONSTANTS
    Users = {u1, u2, u3}
    Founder = u1
    MaxInvites = 2
    TeamRequests = {q1}
    MaxPendingInvites = 1
    UserLimit = 3
    MaxTeamFaults = 1
INVARIANT ExactlyOneOwner
CHECK_DEADLOCK FALSE
