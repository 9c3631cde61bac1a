SPECIFICATION FairSpec
CONSTANTS
  p1 = p1
  p2 = p2
  q1 = q1
  P = P
  Q = Q
  Processes = {P, Q}
  Tgid <- MCTgid
  None = None
  Worker = Worker
  Timer = Timer
  Trigger = Trigger
  Threads = {p1, q1}
  MaxFaults = 2
  Ops = {"pb_open", "cap_open", "prepare", "hw_free", "pb_close", "cap_close"}
INVARIANT FollowsTriggers
PROPERTY StopSilences
