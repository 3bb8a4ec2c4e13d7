SPECIFICATION Spec
CONSTANTS
  Requests = {r1, r2, r3, r4}
  Amounts = {2, 3}
  Opening = 4
  Buffer = 1
  Scale = 2
  Rate = 1
  Year = 2
  MaxIndex = 4
  Environments <- Tame
SYMMETRY Symmetry
INVARIANTS TypeOK RowsMatchFund PrincipalKept RecallCovers
PROPERTY KeepsPool
