SPECIFICATION FairSpec
CONSTANT MaxTyped = 2
CHECK_DEADLOCK FALSE
PROPERTY QuitStops
