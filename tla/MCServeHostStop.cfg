SPECIFICATION HostSpec
CONSTANTS
    MaxRequests = 4
    MaxWire = 2
    MaxSteps = 3
PROPERTY StopIsObeyed
\* A host that has left does nothing more.
CHECK_DEADLOCK FALSE
