SPECIFICATION Spec
CONSTANTS
    Snapper = {1}
    MaxWorld = 1
PROPERTY NeverGoesBack
CHECK_DEADLOCK FALSE
