SPECIFICATION FairSpec
CONSTANTS
  s1 = s1
  s2 = s2
  u1 = u1
  m1 = m1
  l1 = l1
  l2 = l2
  Senders = {s1, s2}
  Ports = {u1, m1}
  Listeners = {l1, l2}
  Deployments <- AllDeployments
CHECK_DEADLOCK FALSE
INVARIANTS
  CountsExact
  UnicastIsIntact
PROPERTIES
  ListenerResponds
