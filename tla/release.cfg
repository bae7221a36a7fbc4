SPECIFICATION Spec
CONSTANTS
  Versions = {v0, v1, v2}  First = v0  Checksums = {c0, c1, c2}  FirstSum = c0
  Idle = Idle  None = None  MaxCommits = 5
INVARIANTS PublishedConsistent TagsOnMain
PROPERTY NothingLost
SYMMETRY ReleaseSymmetry
