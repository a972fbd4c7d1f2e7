SPECIFICATION VoiceSpec
CONSTANTS
    MaxJoins = 2
    MaxLinks = 3
CHECK_DEADLOCK FALSE
INVARIANT OnAirByTheRules
