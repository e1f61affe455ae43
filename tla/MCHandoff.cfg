CONSTANTS
  Process = {p, q}
  Row = {r, s}
  NoRow = none
  here = here
  there = there
  Place = {here, there}
  PlaceOf <- MCPlaceOf
  MaxCalls = 4
  MaxMishaps = 1
SPECIFICATION Spec
INVARIANTS NoLaunchAfterCancel FragmentsNeverLead ExactNeverMisses
PROPERTIES FuzzyRefusesShownRivals ImplementsHandoffRegister
SYMMETRY Symmetry
CHECK_DEADLOCK FALSE
