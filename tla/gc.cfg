SPECIFICATION Spec
CONSTANTS
  Objs = {o1, o2, o3, s1}
  Parts = {s1}
  MaxRoots = 1
  MaxRefs = 5
  MaxWeak = 1
SYMMETRY MCSymmetry
INVARIANTS ReachableStays NoDanglingField NoGarbageLeft CountsAreRestored
