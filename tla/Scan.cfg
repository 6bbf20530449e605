SPECIFICATION FairSpec
CONSTANTS
  p1 = p1  p2 = p2  p3 = p3  a = a  b = b  c = c  d = d  e = e
  Prefix = {p1, p2, p3}
  Pages <- MCPages
  Skip = {b}
  ListWorker = {l1, l2}
  FetchWorker = {f1, f2}
  Pools = {{f1}, {f1, f2}}
  MaxErrs = 1
  None = None
INVARIANTS TypeOK ScannedOnce NoSendOnClosed CleanIsComplete
PROPERTIES QuietAfterReturn WindsDown ImplementsSweep
