CONSTANTS
  c1 = c1  c2 = c2  c3 = c3  p1 = p1  p2 = p2  p3 = p3
  NoConn = NoConn
  Cleaner = Cleaner
  Conns = {c1, c2, c3}
  Pages = {p1}
  Reports = {r1}
  Metrics = {s1}
  MaxQueries = 1
  MaxRows = 0
SPECIFICATION Spec
INVARIANT NoOrphanDisks
