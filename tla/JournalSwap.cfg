\* Two compactions in a row, each with its recoveries interrupted.
SPECIFICATION FairSpec
CONSTANTS
    MaxGenerations = 3
    MaxFaults = 4
INVARIANTS
    GenerationSurvives
PROPERTIES
    SwapIsSwitch
    SwapRecovers
