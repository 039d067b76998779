SPECIFICATION FairSpec
CONSTANTS
    a1 = a1
    a2 = a2
    r1 = r1
    c1 = c1
    p1 = p1
    list = list
    Agents = {a1, a2}
    Admins = {}
    HandDialers = {a1}
    Leads = {r1}
    Phones = {p1}
    PhoneOf <- OnePhoneOf
    Batches = {}
    NoBatch = NoBatch
    BatchOf <- OneBatchOf
    Rank <- OneRank
    Dispositions = {"UNQUALIFIED"}
    NoAgent = NoAgent
    NoLead = NoLead
    NoDisp = NoDisp
    MissLimit = 2
    RejectedAt = 0
    AttemptedAt = 0
    PassCap = 0
PROPERTY PoolNeverStalls
PROPERTY IgnoredOfferMovesOn
PROPERTY OffersGoToWorkers
PROPERTY NotBouncedBack
