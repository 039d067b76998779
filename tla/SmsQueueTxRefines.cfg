SPECIFICATION TxSpec
CONSTANTS
    a1 = a1
    a2 = a2
    r1 = r1
    p1 = p1
    s1 = s1
    s2 = s2
    Admins = {}
    HandDialers = {}
    Leads = {r1}
    Phones = {p1}
    PhoneOf <- OnePhoneOf
    Batches = {}
    NoBatch = NoBatch
    BatchOf <- OneBatchOf
    Rank <- OneRank
    Dispositions = {"UNQUALIFIED"}
    NoAgent = NoAgent
    NoLead = NoLead
    NoDisp = NoDisp
    Keep = Keep
    MissLimit = 1
    RejectedAt = 0
    AttemptedAt = 0
    PassCap = 0
    Agents = {a1, a2}
    Sessions = {s1}
    Ops <- AllOps
PROPERTY ImplementsQueue
