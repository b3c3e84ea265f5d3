\* Three requests, so that two overlap while a third changes the topic back.
SPECIFICATION FairNodeSpec
CONSTANTS
    Requests = {r1, r2, r3}
    Topics = {t1, t2}
    Bootstraps = 2
INVARIANTS
    TopicsAgree
    NodeOutlivesRequests
    NothingLeftOpen
PROPERTIES
    ServiceEnds
