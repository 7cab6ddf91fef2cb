SPECIFICATION FairSpec
CONSTANTS
  f1 = f1
  f2 = f2
  f3 = f3
  g2 = g2
  g3 = g3
  Runners = {r1, r2}
  Services = {s1}
  Files = {f1, f2, f3, g2, g3}
  Bundles <- ThreeBuilds
  Free = Free
INVARIANTS
  TypeOK
  TableIsTheHistory
  OneBuildsSchema
  BundleIsThere
  RunnersSerialise
PROPERTY EveryRunnerEnds
