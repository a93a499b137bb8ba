SPECIFICATION Spec
CONSTANTS
  User = {ime, sync}
  Edit = {e1, e2}
  Nobody = Nobody
  MaxNow = 3
INVARIANT NothingLost
