CONSTANTS
  a = a
  b = b
  r = r
  s = s
  zero = zero
  one = one
  Names = {a, b}
  Null = Null
  Details = {zero, one}
  Unset = zero
  Refs = {r, s}
  MaxList = 3
SPECIFICATION Spec
INVARIANTS TypeOK IdenticalMeansSame SameMeansIdentical
