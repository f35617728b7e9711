SPECIFICATION ExchangeSpec
CONSTANTS
  i1 = i1
  x = x
  y = y
  u1 = u1
  u2 = u2
  Pieces = {x, y}
  Ids = {i1}
  Tools = {0, 1}
  Usages = {u1, u2}
  Protocols = {"chat", "anthropic"}
  Upstream <- SomeEvents
  MaxEvents = 4
  None = None
  Default = Default
  Requests = {r1, r2}
  Tokens <- Speakers
  Speaks <- Speaking
  Providers <- Speaking
  Bodies <- SomeBodies
  Replies <- SomeReplies
  f = f
  web = web
  a = a
  b = b
  MaxEdits = 2
  Rejected = Rejected
  Image = Image
  Notice = Notice
  Malformed = Malformed
INVARIANTS
  TypeOK
  ClientHasWhatWasSent
  FramesAreNumbered
  UsageIsReported
  NothingIsDropped
  CredentialsMatch
  CountsAgree
PROPERTIES
  ImplementsLifecycle
  EndIsDelivered
CHECK_DEADLOCK FALSE
