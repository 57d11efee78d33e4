SPECIFICATION FairSpec
CONSTANTS
  c1 = c1
  c2 = c2
  c3 = c3
  A = A
  B = B
  Conns = {c1, c2}
  Uids = {A, B}
  NoUid = NoUid
  MaxToken = 3
  Requests = {"login", "badlogin", "extend", "state"}
  MaxBroken = 1
  MaxReads = 3
 
PROPERTIES NewerTokenWins EventuallyAdmitted
CHECK_DEADLOCK FALSE
