SPECIFICATION Spec
CONSTANTS
  Message = {m1, r1, t1}
  Text = {m1}
  Request = {r1}
  BatchSize = 2
  MaxOps = 2
  MaxFaults = 2
INVARIANTS
  ArchiveCurrent
  DeletedStaysDeleted
PROPERTIES
  EventuallyArchived
