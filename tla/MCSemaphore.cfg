SPECIFICATION Spec
CONSTANTS
  r1 = r1  r2 = r2  r3 = r3  r4 = r4  r5 = r5
  Callers = {r1, r2, r3, r4, r5}
  Limit = 2
INVARIANT WorkConserving
PROPERTIES FirstComeFirstServed EveryCallerServed ServiceSpec
