SPECIFICATION Spec
CONSTANTS
  Probes = {p1}
  Names = {"memory", "composite"}
  Uses <- McCompositeUse
  Readings <- McReadings
  UsesContext = {}
  Liveness <- McComposite
  Readiness <- McComposite
  Caching = TRUE
  CacheDuration = 1
  CheckTime = 1
  MaxClock = 2
INVARIANT
  StatusIsNamed
