SPECIFICATION FairSpec
CONSTANTS
  ch1 = ch1
  ch2 = ch2
  b1 = b1
  b2 = b2
  t1 = t1
  t2 = t2
  e1 = e1
  e2 = e2
  NoEntry = NoEntry
  Channels <- OneChannel
  AsyncChannels <- OneChannel
  Batches <- OneBatch
  Ticks <- OneTick
  Entries <- OneEntry
  EntryChannel <- SameChannel
  MaxTries = 2
  MaxPolls = 2
  Quota = 1
  MaxMishaps = 1
  Faults = {"overlap", "review", "refusal", "dbError", "lostAnswer", "pollError", "editRace", "crash"}
INVARIANT PublishedIsLive
PROPERTY DueEntriesSettle
\* Requests are used once and the calendar runs dry, so it comes to rest.
CHECK_DEADLOCK FALSE
