SPECIFICATION Spec
CONSTANTS
  AnyInput = FALSE
  Aliases = {}
INVARIANTS TypeOK InsertedAsSent ValidatedIsStored SentValuesStay RoundTrip
CHECK_DEADLOCK FALSE
