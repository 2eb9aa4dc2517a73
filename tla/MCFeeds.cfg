SPECIFICATION FeedsSpec
CONSTANTS
    Subscriptions = {s1}
    Sources = {u1, u2}
    Collections = {c1, c2}
    FeedSchedules = {k1}
    Confirmers = {e1}
    FeedRunners = {r1}
    Empty = Empty
    MaxEdits = 2
    MaxSlots = 2
    MaxCrashes = 1
    Briefs = {b1, b2}
    DayTicks = 2
    MaxClock = 3
    MaxPreferences = 1
    DailyQuota = 1
INVARIANTS
    CollectionsAreSound
PROPERTIES
    EntriesAreCurrent
    ScheduledEnds
    AttemptsAreDue
CHECK_DEADLOCK FALSE
