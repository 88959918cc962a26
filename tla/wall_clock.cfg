\* A daily task through the change of the clocks in Berlin and New York.
SPECIFICATION Spec
CONSTANTS
    Zones <- ClockChanges
    LastHour = 120
INVARIANT GapGoesForward
CHECK_DEADLOCK FALSE
