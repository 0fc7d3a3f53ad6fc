\* A schedule that matches every minute and one that matches once, two starts of
\* the process, and one step back of the clock.
SPECIFICATION FairSpec
CONSTANTS
    often = often
    once = once
    Schedules = {often, once}
    Matches <- MCMatches
    LastMinute = 3
    MaxRuns = 2
    MaxBack = 1
    MaxBoots = 2
INVARIANTS VenueKept OneVenue Paced
PROPERTIES ShutdownEnds
CHECK_DEADLOCK FALSE
