SPECIFICATION Spec
CONSTANTS
  s1 = s1
  s2 = s2
  e1 = e1
  e2 = e2
  d1 = d1
  NoRow = NoRow
  NoStep = NoStep
  Steps = {s1, s2}
  Effects = {e1, e2}
  Dispatchers = {d1}
  EffectOf <- ChainEffectOf
  Deps <- ChainDeps
  Capabilities <- OnceOnly
PROPERTIES
  DependenciesFirst
