SPECIFICATION Spec
CONSTANTS
    MountPoints = {m1, m2}
    MaxTrees = 2
    None = None
SYMMETRY Symmetry
INVARIANTS
    StructureOutlivesMounts
