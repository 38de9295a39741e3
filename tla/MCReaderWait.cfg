SPECIFICATION Spec
CONSTANTS
  Readers = {r1, r2}
  MaxArrivals = 2
  Slices = 1
  Retries = 2
INVARIANTS NoSecondConnect SwapIsSeen
PROPERTIES AlwaysEnds
