CONSTANTS
  Daemons = {d1, d2}
  Requests = {r1, r2, r3}
  Workers = 2
  Probes = 1
  MaxCalls = 1
SPECIFICATION Spec
INVARIANTS TypeOK SchemaIsWhole
PROPERTIES EveryRequestEnds
