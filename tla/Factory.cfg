SPECIFICATION FairSpec
CONSTANTS
    r1 = r1
    r2 = r2
    Runs = {r1, r2}
    d1 = d1
    Devices = {d1}
    None = None
    Prefix <- MCPrefix
    Orders <- MCOrders
    Versions <- MCVersions
    SignPolls = 1
    FaultKinds = {"db", "lostCommit", "api", "network", "denied", "crash", "client"}
    MaxFaults = 2
INVARIANTS CodeStands RegisteredOnce OwnRequest RequestsCleaned BundleMatches FingerprintKnown
PROPERTIES RegistrationHolds FactoryAnswers
CHECK_DEADLOCK FALSE
