\* allocate()/free() against the IndexPool contract.
CONSTANTS
    PerPage = 2
    MaxCalls = 5
SPECIFICATION Spec
PROPERTY
    ImplementsIndexPool
