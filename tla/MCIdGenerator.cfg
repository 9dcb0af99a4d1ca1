SPECIFICATION GenSpec
CONSTANTS
    OptionChoices <- MCOptionChoices
    Ticks <- MCTicks
    MaxIds = 3
CHECK_DEADLOCK FALSE
PROPERTIES
    NextIdDiffers
