SPECIFICATION FairSpec
CONSTANTS
  Slots = 2
  Users = {u1, u2, u3}
  Background = {b1, b2, b3}
  Orchestrators = {u1, b1}
  Cancellable = {u1, u2, b1}
  MaxCancels = 2
INVARIANTS SlotLedger NoUserWaitsForFreeSlot
PROPERTIES PoolSpec ReservationKept UserServed
