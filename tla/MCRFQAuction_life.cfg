CONSTANTS
  r1 = r1  r2 = r2  r0 = r0  big = big
  q1 = q1  q2 = q2
  h1 = h1  h2 = h2  h3 = h3  h4 = h4
  None = None
  RFQ = {r1, r2}
  Quote = {q1, q2}
  Handler = {h1, h2, h3}
  RFQTxHash <- MCRFQTxHash
  RFQDurationMs <- MCDuration
  ValidSignature = {q1}
  Int64Sup = 16
  MsPerSecond = 2
  StartTime = 4
  MaxTime = 5
  MaxLength = 16
SPECIFICATION FairSpec
CHECK_DEADLOCK FALSE
PROPERTIES  ProgressUnlessCircularWait
