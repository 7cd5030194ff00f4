\* A transport error meets the owner of a migration.
SPECIFICATION Spec
CONSTANTS
  Requests = {r1, r2}
  Accounts = {a, b, c}
  Nobody = Nobody
  Faults = {"transport"}
  MaxFaults = 1
CHECK_DEADLOCK FALSE
INVARIANTS ReservationOwned
