CONSTANTS
  Profiles <- SomeProfiles
  Faults <- DatabaseFault
  Removable = TRUE
  PreviousClobbered = FALSE
SPECIFICATION FairSpec
INVARIANT TypeOK
INVARIANT RunningAsRead
PROPERTY FollowsFile
PROPERTY LookFollowsFile
PROPERTY ProfileApplied
