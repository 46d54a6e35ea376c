CONSTANTS
  i1 = i1
  i2 = i2
  s1 = s1
  s2 = s2
  g = g
  c = c
  r = r
  Instances = {i1, i2}
  Sources = {s1, s2}
  Outputs = {}
  Globals = {g}
  Changelogs = {c}
  Repartitions = {r}
  Declared <- DeclaredTwo
  Calls <- MCCalls
  MaxPartitions = 2
  MaxFailures = 1
SPECIFICATION FairSpec
INVARIANTS
  EnsuredTopics
  
PROPERTIES
  RetriesSucceed
