SPECIFICATION Spec
CONSTANTS
  j1 = j1
  j2 = j2
  w1 = w1
  w2 = w2
  import = import
  provider = provider
  None = None
  Jobs = {j1}
  Workers = {w1, w2}
  Types = {import, provider}
  PhasedTypes = {provider}
  MaxAttempts = 2
  MaxFaults = 1
  MaxForgets = 0
  MaxAdmin = 2
SYMMETRY Symmetry
INVARIANTS
  SucceededMeansDispatched
  OneEffectPerWorker
PROPERTIES
  DispatchUnderLease
