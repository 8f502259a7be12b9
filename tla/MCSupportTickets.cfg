SPECIFICATION TicketSpec
CONSTANTS
  Users = {"u1"}
  Agents = {a1}
  Threads = {t1, t2}
  Rejections = {r1}
  OwnerOf <- MyRejections
  Tags = {v2}
  Bodies <- SomeBodies
  Batches <- SomeBatches
  Legacy <- OldTables
  Null = Null
  MaxTickets = 3
  Limit = 1
  Window = 0
  MaxNow = 1
  MaxRequests = 3
INVARIANT StampsAgree NoDuplicateLoop RateBounded
SYMMETRY ThreadSymmetry
CHECK_DEADLOCK FALSE
