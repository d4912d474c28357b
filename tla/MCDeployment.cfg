SPECIFICATION FairSiteSpec
CONSTANTS
    Procs = {api1, api2}
    Requests = {r1}
    Rise = 1
    Fall = 2
    Retries = 1
    NoServer = NoServer
    MaxDeaths = 2
    MaxSlow = 2
INVARIANT SlowCheckForgiven
PROPERTY ServiceRecovers
