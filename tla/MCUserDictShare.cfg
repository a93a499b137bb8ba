SPECIFICATION FairSpec
CONSTANTS
  User = {ime, sync}
  Edit = {e1, e2}
  Nobody = Nobody
  MaxNow = 3
INVARIANT ShareInv
PROPERTY FlushEnds
