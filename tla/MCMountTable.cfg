SPECIFICATION Spec
CONSTANTS
    MountPoints = {m1, m2}
    MaxTrees = 4
    None = None
SYMMETRY Symmetry
INVARIANTS
    TypeOK
    SharedIdOnlyIfOvertaken
    InstancesExact
    ServicesWhileMounted
    NoTreeLeak
