SPECIFICATION Spec
CONSTANTS
  r1 = r1
  r2 = r2
  c1 = c1
  c2 = c2
  c3 = c3
  k1 = k1
  k2 = k2
  k3 = k3
  s = s
  t = t
  Runners = {r1, r2}
  Calls = {c1, c2, c3}
  RunnerOf <- McSharedCalls
  Conns = {k1, k2, k3}
  PoolOf <- McSharedPools
  MaxIdle = 2
  Versions = {1}
  Sums = {s, t}
  FilesOf <- McTinyBuild
  AllowDown = {r1}
  Ops = {"up", "down", "status"}
  Faults = {}
  NoConn = NoConn
  MaxCopies = 2
  MaxDepth = 3
INVARIANTS
  MutualExclusion
CHECK_DEADLOCK FALSE
