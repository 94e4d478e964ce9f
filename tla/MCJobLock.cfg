CONSTANTS
  Handlers = {h1, h2}
  Interval = 3
  OpTimeout = 1
  MaxTokens = 3
SPECIFICATION LockSpec
INVARIANTS OverlapIsBounded OwnedUntilLastFailure
