CONSTANTS
  Process = {p, q}
  Row = {r, s}
  NoRow = none
  here = here
  there = there
  Place = {here, there}
  PlaceOf <- MCPlaceOf
  MaxCalls = 3
  MaxMishaps = 0
SPECIFICATION Spec
PROPERTY FuzzyNeverGuesses
CHECK_DEADLOCK FALSE
