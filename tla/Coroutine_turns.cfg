SPECIFICATION FairSpec
CONSTANTS
  Deadline = TRUE
  Swallows = FALSE
  MaxResumes = 5
INVARIANTS TakeTurns NoUseAfterFree
PROPERTIES ImplementsContract ResumeEnds TeardownEnds
