CONSTANTS
    Texts <- MCTexts
    Name <- MCName
    ReadMax = 16
    KeyMax = 5
    HasArgument <- MCHasArgument
    Force <- OptionF
    CommandLines <- MCCommandLines
    MaxConfigs = 2
SPECIFICATION OptionsSpec
CHECK_DEADLOCK FALSE
INVARIANT OptionsAreSeparated
