SPECIFICATION FairSpec
CONSTANTS
  c1 = c1  c2 = c2  c3 = c3  c4 = c4  c5 = c5
  Certs <- Some
  certValidity = 3
  certRenewBefore = 2
  Faults = {"error", "lost", "crash", "secret", "install"}
  Absent = Absent
  Empty = Empty
INVARIANTS TypeOK RoundRepairs ServesUnexpired
PROPERTIES SecretFirst TrustReturns
