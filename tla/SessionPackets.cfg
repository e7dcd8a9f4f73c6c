\* Two sessions, three packets for one of them; the server may be stopped at any time
SPECIFICATION FairSpec
CONSTANTS
  s1 = s1
  s2 = s2
  attack = attack
  name = name
  chat = chat
  query = query
  bid = bid
  Sessions <- TwoSessions
  None = None
  Kind <- KindOf
  Requeued = {query, name}
  RequeueLimit = 0
  PassLimit = 1
  Traffic <- TrafficOfFirst
  MayLeave = {s1}
INVARIANTS
  Inv
  InOrder
PROPERTIES
  StopEnds
  Served
