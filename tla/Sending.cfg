SPECIFICATION Spec
CONSTANTS
    ca = ca
    cb = cb
    p1 = p1
    l1 = l1
    l2 = l2
    d1 = d1
    d2 = d2
    w1 = w1
    w2 = w2
    Campaigns = {ca}
    Phones = {p1}
    Leads = {l1}
    CampaignOf <- OneCampaignOf
    PhoneOf <- OnePhoneOf
    Age <- OneAge
    Drips = {d1, d2}
    Workers = {w1, w2}
    Wave = 1
    QueueBound = 2
    Crashes = TRUE
    Unsure = FALSE
    NoLead = NoLead
    NoCampaign = NoCampaign
SYMMETRY Symmetry
INVARIANT SendingTypeOK
INVARIANT ReleasedIsAccounted
INVARIANT NoClaimLeaks
PROPERTY ImplementsOutreach
