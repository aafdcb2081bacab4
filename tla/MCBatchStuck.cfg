\* A single task, and requests that cost more than the bucket holds.
CONSTANTS
    Callers = {"kill"}
    Burst = 3
    Costs = {4}
    Retries = 2
    MaxWindow = 4
SPECIFICATION FairRestSpec
PROPERTY RequestsAreSent
