SPECIFICATION Spec
CONSTANTS
  Versions = {v0, v1}  First = v0  Checksums = {c0, c1}  FirstSum = c0
  Idle = Idle  None = None  MaxCommits = 3
INVARIANT MainPinPublished
