SPECIFICATION Spec
CONSTANTS
  AllOptions <- McOptions
  AllListings <- McListings
  Unreadable <- McUnreadable
  ReadsFail = TRUE
  MaxHeld = 6
INVARIANT DuplicatesDetected
CHECK_DEADLOCK FALSE
