CONSTANTS
  steady = steady
  hasty = hasty
  here = here
  there = there
  home = home
  office = office
  unknown = unknown
  Pages = {steady, hasty, here, there}
  Addresses = {home, office, unknown}
  AddressOf <- MCAddressOf
  MaxRequests = 3
  Window = 6
  PruneWindow = 6
  Second = 2
  Schedule <- MCSchedule
  Budget = 5
  Flaky = {hasty}
  Steady = {steady}
  Pace = 3
  MaxStarting = 2
  MaxNow = 8

SPECIFICATION Spec
SYMMETRY MCSymmetry
ACTION_CONSTRAINT OneAddressAtATime

\* The clock stops at MaxNow.
CHECK_DEADLOCK FALSE

INVARIANTS
  TypeOK
  WindowBound
  ObeyingIsEnough
  SteadyIsNeverLimited
  NeverAnsweredTwice
