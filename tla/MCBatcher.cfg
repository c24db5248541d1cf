SPECIFICATION FairSpec
CONSTANTS
  r1 = r1
  r2 = r2
  r3 = r3
  Request = {r1, r2, r3}
  Rows <- FiveRows
  QueueCap = 4
  MaxRows = 1
  MaxDup = 1
  NoRequest = NoRequest
INVARIANTS TypeOK CommitNeverBlocks ReservationsBalance RowsAccounted
PROPERTIES RowsArrive
CHECK_DEADLOCK FALSE
