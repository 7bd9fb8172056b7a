SPECIFICATION Spec
CONSTANTS
  r1 = r1  r2 = r2  r0 = r0  big = big
  q1 = q1  q2 = q2
  h1 = h1  h2 = h2  h3 = h3  h4 = h4
  None = None
  RFQ = {r1}
  Quote = {q1}
  Handler = {h1, h2}
  RFQTxHash <- MCRFQTxHash
  RFQDurationMs <- MCDuration
  ValidSignature = {q1}
  Int64Sup = 16
  MsPerSecond = 2
  StartTime = 4
  MaxTime = 6
  MaxLength = 16
CHECK_DEADLOCK FALSE
INVARIANT CreatedQuotesAreInSnapshot
