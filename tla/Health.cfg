SPECIFICATION Spec
CONSTANTS
  Probes = {p1, p2}
  Names = {"database", "basic"}
  Uses <- McUses
  Readings <- McReadings
  UsesContext = {"database"}
  Liveness <- McLiveness
  Readiness <- McReadiness
  Caching = TRUE
  CacheDuration = 1
  CheckTime = 1
  MaxClock = 2
SYMMETRY McSymmetry
INVARIANTS
  TypeOK
PROPERTIES
  HealthyIsRecent
  UnhealthyHasCause
  ReplacementTakesEffect
