SPECIFICATION Spec
CONSTANTS
    a1 = a1
    l1 = l1
    l2 = l2
    x1 = x1
    x2 = x2
    x3 = x3
    r1 = r1
    r2 = r2
    Agents = {a1}
    Slots = {1, 2}
    Keys = {1, 2, 3}
    Leads = {l1, l2}
    Appts = {x1, x2, x3}
    Requests = {r1, r2}
    MaxOptions = 1
    ReadKey <- UtcKey
    NoAgent = NoAgent
    NoSlot = NoSlot
    NoLead = NoLead
    NoAppt = NoAppt
SYMMETRY Symmetry
CONSTRAINT Untouched
INVARIANT NeverDoubleBooked
