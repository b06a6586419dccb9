\* Two threads; three semaphore_create calls.
CONSTANTS
    Threads = {t1, t2}
    PerPage = 2
    MaxCalls = 3
SPECIFICATION Spec
INVARIANT
    NoStaleStorageRead
