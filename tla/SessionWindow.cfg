\* No call, timer or rival selection starts while another one awaits.
SPECIFICATION FairSpec
CONSTANTS
    Sid = {s1, s2}
    Existing = {s1}
    NoSid = NoSid
    Model = {m1, m2}
    DefaultModel = m1
    NoModel = NoModel
    Text = Text
    Slot = {k1, k2}
    NoSlot = NoSlot
    MaxEvents = 2
    Overlap = FALSE

    
    
PROPERTIES
    FollowedAgain
\* A closed window stops.
CHECK_DEADLOCK FALSE
