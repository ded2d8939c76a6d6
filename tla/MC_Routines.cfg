SPECIFICATION FairSpec
CONSTANTS
    Names = {mail, brief}
    Versions = {v1, v2}
    Mail = mail
    MaxEvents = 2
    mail = mail
    brief = brief
    v1 = v1
    v2 = v2
INVARIANTS RunsOnce
PROPERTIES  DueRuns 
