SPECIFICATION Spec
CONSTANTS
  r1 = r1
  r2 = r2
  c1 = c1
  c2 = c2
  c3 = c3
  k1 = k1
  k2 = k2
  k3 = k3
  s = s
  t = t
  Runners = {r1, r2}
  Calls = {c1, c2}
  RunnerOf <- McPrivateCalls
  Conns = {k1, k2}
  PoolOf <- McPrivatePools
  MaxIdle = 2
  Versions = {1, 2}
  Sums = {s, t}
  FilesOf <- McSameBuild
  AllowDown = {r1}
  Ops = {"up", "down", "status"}
  Faults = {"sql", "commit", "statement", "timeout", "crash"}
  NoConn = NoConn
  MaxCopies = 2
  MaxDepth = 2
INVARIANTS
  TypeOK
  MutualExclusion
  RefusalOnlyLeaks
  RecordSound
  NoGaps
PROPERTIES
  SuccessIsKept
