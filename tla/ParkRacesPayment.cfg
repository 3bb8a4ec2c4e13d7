SPECIFICATION Spec
CONSTANTS
  Requests = {r1, r2}
  Amounts = {2, 3}
  Opening = 4
  Buffer = 1
  Scale = 2
  Rate = 1
  Year = 2
  MaxIndex = 4
  Environments <- Racing
SYMMETRY Symmetry
INVARIANT ReservedCovered
