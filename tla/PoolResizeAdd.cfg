\* Three nodes, one of them gone but still in the inventory; nothing fails.
CONSTANTS
    Nodes = {1, 2, 3}
    None = 0
    MaxAdd = 1
    MaxFaults = 0
SPECIFICATION FairSpec
PROPERTY
    AddKeepsNodes
