SPECIFICATION Spec
CONSTANTS
  c1 = c1
  c2 = c2
  c3 = c3
  A = A
  B = B
  Conns = {c1, c2}
  Uids = {A, B}
  NoUid = NoUid
  MaxToken = 4
  Requests = {"login", "logout", "kick"}
  MaxBroken = 1
  MaxReads = 4
INVARIANT JoinMemberFinds
CHECK_DEADLOCK FALSE
