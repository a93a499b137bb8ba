SPECIFICATION Spec
CONSTANTS
  Signature = {s1, s2, s3}
  Value = {v1, v2}
  Size = 4
  Zero = Zero
INVARIANT RingInv
PROPERTY ImplementsFifo
