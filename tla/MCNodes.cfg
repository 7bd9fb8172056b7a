CONSTANTS
  k1 = k1  k2 = k2  p1 = p1  p2 = p2  a = a  b = b
  v = v  f = f  r1 = r1  r2 = r2  r3 = r3  h1 = h1  h2 = h2
  None = None
  Key = {k1, k2}
  Passphrase = {p1, p2}
  Record = {a, b}
  MaxCrashes = 3
  Node = {v, f}
  Validator = {v}
  Link <- MCLink
  Process <- MCProcess
  Request = {r1, r2, r3}
  Signed = {r1, r2}
  Poster = {h1, h2}
  RpcCapacity = 1
SPECIFICATION NodeSpec
CHECK_DEADLOCK FALSE
INVARIANTS OneKeyForEver RunningKeyIsSaved 
PROPERTIES RunsAgain PostsAreAnswered
