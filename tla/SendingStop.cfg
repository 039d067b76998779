SPECIFICATION Spec
CONSTANTS
    ca = ca
    cb = cb
    p1 = p1
    l1 = l1
    l2 = l2
    d1 = d1
    d2 = d2
    w1 = w1
    w2 = w2
    Campaigns = {ca, cb}
    Phones = {p1}
    Leads = {l1, l2}
    CampaignOf <- PairCampaignOf
    PhoneOf <- PairPhoneOf
    Age <- PairAge
    Drips = {d1}
    Workers = {w1}
    Wave = 1
    QueueBound = 1
    Crashes = FALSE
    Unsure = FALSE
    NoLead = NoLead
    NoCampaign = NoCampaign
PROPERTY StopIsHonoured
