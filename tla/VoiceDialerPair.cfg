SPECIFICATION Spec
CONSTANTS
    a1 = a1
    a2 = a2
    l1 = l1
    l2 = l2
    c1 = c1
    c2 = c2
    h1 = h1
    h2 = h2
    Agents = {a1, a2}
    Leads = {l1}
    Calls = {c1}
    Handlers = {h1, h2}
    NoAgent = NoAgent
    NoLead = NoLead
    NoCall = NoCall
    NoHandler = NoHandler
    MaxTotal = 1
    MaxCallsPerTick = 1
    MachineDetection = FALSE
    ConnectOnAnswer = TRUE
    Overlap = TRUE
    LockExpires = FALSE
    Crashes = FALSE
    Deeds = {}
SYMMETRY Symmetry
INVARIANT OneLeadOneAgent
