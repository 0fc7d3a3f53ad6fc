\* Plans of histories of up to three messages, fires around a leap day, and
\* configurations that vary one part at a time.
SPECIFICATION Spec
CONSTANTS
    Envelope = 1
    Header <- MCHeader
    Bullet <- MCBullet
    ImageCost = 3
    Calendar <- MCCalendar
    MaxSearch = 6
    LegalNames = {"a", "b"}
    MaxSchedules = 2
    MaxTargets = 2
    MaxPaths = 2
    Requests <- MCRequests
    Fires <- MCFires
    Setups <- MCSetups
INVARIANTS PlanSound FiresNext AcceptedIsUsable
CHECK_DEADLOCK FALSE
