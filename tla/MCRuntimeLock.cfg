SPECIFICATION FairLockSpec
CONSTANTS
  p = p
  q = q
  r = r
  Proc = {p, q, r}
  Nobody = Nobody
  Unread = Unread
  MaxUses = 1
INVARIANT LockConsistent
PROPERTY AttemptsEnd
CHECK_DEADLOCK FALSE
