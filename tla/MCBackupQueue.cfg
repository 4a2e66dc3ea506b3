\* Three backups, room for two in the queue, two attempts and one fault.
SPECIFICATION Spec
CONSTANTS
  Kinds = {1, 2}
  MAX_ATTEMPTS = 2
  MAX_QUEUED_ARCHIVES = 2
  MaxArchives = 3
  MaxFaults = 1
INVARIANT DiskBounded
PROPERTIES NothingOlderSent LeavesForAReason QueueDrains
CHECK_DEADLOCK FALSE
