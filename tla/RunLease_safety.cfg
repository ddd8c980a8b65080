\* Two processes over one run; no symmetry, which liveness does not allow.
CONSTANTS
  r1 = r1
  c1 = c1
  c2 = c2
  Runs = {r1}
  Controllers = {c1, c2}
  NoOwner = NoOwner
  TTL = 3
  MaxSilence = 1
  MaxSkew = 1
  Standby = TRUE
  EarlyRestart = TRUE
  RegistryFails = TRUE
  Polled = TRUE
SPECIFICATION FairSpec
INVARIANTS
  SingleWriter
PROPERTIES
  LeaseNotStolen
  KeepsPromise
  Failover
