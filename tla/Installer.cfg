SPECIFICATION Spec
CONSTANTS
  Run = {r1, r2}
  MaxVersion = 2
INVARIANTS TypeOK LoadsNothingOlder OkMeansInstalled LitterOnlyAfterSignal
