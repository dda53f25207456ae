CONSTANTS
    n1 = n1
    n2 = n2
    n3 = n3
    roster = roster
    forum = forum
    Node <- TwoNodes
    Area <- TwoAreas
    Roster = roster
    Carried <- CarryAll
    Known <- Friends
    Writable <- Write1
    MaxSeq = 2
    CountCap = 3
    MaxRanges = 1
    MaxPush = 1
    MaxNet = 1
    MaxCrash = 0
SPECIFICATION FairSpec
PROPERTIES BurntNumbersAreFree
