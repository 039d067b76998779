SPECIFICATION Spec
CONSTANTS
    a1 = a1
    a2 = a2
    r1 = r1
    c1 = c1
    p1 = p1
    list = list
    Agents = {a1}
    Admins = {}
    HandDialers = {}
    Leads = {r1, c1}
    Phones = {p1}
    PhoneOf <- ListPhoneOf
    Batches = {list}
    NoBatch = NoBatch
    BatchOf <- ListBatchOf
    Rank <- ListRank
    Dispositions = {"UNQUALIFIED", "SALE"}
    NoAgent = NoAgent
    NoLead = NoLead
    NoDisp = NoDisp
    MissLimit = 1
    RejectedAt = 1
    AttemptedAt = 1
    PassCap = 1
INVARIANT TypeOK
INVARIANT HeldLeadHasOwner
INVARIANT SuppressionSticks
PROPERTY NotBouncedBack
PROPERTY ParkedReturnsOnlyByReply
PROPERTY NoRepopOfWorkedNumber
