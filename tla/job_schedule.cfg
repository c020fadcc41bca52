SPECIFICATION FairSpec
CONSTANTS
  often = often
  nightly = nightly
  late = late
  Order <- ThreeJobs
  Every <- JobEvery
  At <- JobAt
  NoTime = NoTime
  Dur <- JobDur
  Grace = 0
  Day = 4
  MaxJobs = 2
  FollowUps <- JobFollowUps
  Posts <- JobPosts
  ByHand = {nightly}
  MaxCrashes = 1
INVARIANT
  TypeOK
PROPERTIES
  OncePerSlot
  
  
  DueJobRuns
