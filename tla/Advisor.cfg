SPECIFICATION FairSpec
CONSTANTS
    Memories = {m1}
    MaxRevision = 1
    Texts = {t1}
    CustomTexts = {u1}
    RootText = root
    ObligationCount = 1
    MaxRounds = 2
    MaxLaunches = 2
    MaxStops = 2
    RetryLimit = 0
CHECK_DEADLOCK FALSE
INVARIANTS
    AssignmentFollowsHuman
    RoundHoldsDrain
    ReportOfOneLaunch
    RepeatsHaveNewEvidence
    ReceiptMatchesBinding
PROPERTIES
    AnsweredRoundCloses
