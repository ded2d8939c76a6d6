SPECIFICATION FairSpec
CONSTANTS
    People = {p1, p2}
    Old = p0
    Cap = 2
    Values = {a}
    MaxEvents = 2
    p0 = p0
    p1 = p1
    p2 = p2
    a = a
INVARIANTS ProfileKept 
PROPERTIES PromptCurrent
