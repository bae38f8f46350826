\* Two proxies at most, two tasks of a kind, three tasks at a time.
CONSTANTS
    MaxProxies = 2
    MaxSame = 2
    MaxTasks = 3
SPECIFICATION Spec
INVARIANTS TypeOK NethvoiceStepIsReady TimezonesAreThere OneSubmission NobodyWaitsInVain IInv
PROPERTIES ConfiguredIsTrue
CHECK_DEADLOCK FALSE
