SPECIFICATION FairSpec
CONSTANTS
  WorkerCount = 2
  Capacity = 10
  MoreJobs = 1
  Builds = {TRUE, FALSE}
  Texts <- TwoTexts
  Games <- ThreeGames
INVARIANT Aligned
PROPERTIES ImplementsMailboxes
