INIT BillingInit
NEXT BillingNext
CONSTANTS
    Orders = {o1}
    Serving = {v1}
    MaxBillingFaults = 1
INVARIANT PaidActivated
CHECK_DEADLOCK FALSE
