CONSTANTS
    n1 = n1
    n2 = n2
    n3 = n3
    roster = roster
    forum = forum
    Node <- ThreeNodes
    Area <- TwoAreas
    Roster = roster
    Carried <- CarryAll
    Known <- Friends
    Writable <- Write1
    MaxSeq = 1
    CountCap = 3
    MaxRanges = 1
    MaxPush = 1
    MaxNet = 2
    MaxCrash = 0
SPECIFICATION Spec
PROPERTIES ImplementsReplicatedLog
