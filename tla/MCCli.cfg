SPECIFICATION CliSpec
CONSTANTS
  p1 = p1
  p2 = p2
  q1 = q1
  q2 = q2
  d1 = d1
  d2 = d2
  u1 = u1
  u2 = u2
  s1 = s1
  s2 = s2
  Procs = {p1, p2}
  Envs = {"dev"}
  Credentials <- MCCredentials
  Inputs = {"x"}
  ProofIds = {q1, q2}
  Deployments = {d1, d2}
  Inodes = {1, 2, 3}
  MaxTime = 1
  MaxCommands = 3
  MaxEdits = 1
  None = None
SYMMETRY Symmetry
INVARIANTS
  SecretStaysWithUrl
  RecordedRegistryIsComplete
  StatusFindsRegistered
CHECK_DEADLOCK FALSE
