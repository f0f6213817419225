SPECIFICATION FairSpec
CONSTANTS
    Snapper = {1, 2}
    MaxWorld = 1
INVARIANTS TypeOK CapturesWhole SpoiledOnlyWhenLate
PROPERTIES GoesBackOnlyWhenLate LiveWorldKept ThawedInTheEnd OrphansReaped
CHECK_DEADLOCK FALSE
