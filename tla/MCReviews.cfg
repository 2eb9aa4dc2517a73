SPECIFICATION MCSpec
CONSTANTS
    Skills = {s1, s2}
    Plans = {p1}
    Assessments = {a1, a2}
    Authorizations = {m1}
    Workers = {w1}
    ReviewedSkill = s1
    None = None
    MaxRevision = 4
    MaxSkillRevision = 2
    MaxLink = 2
    MaxFaults = 1
    Reviews = {r1}
    Executors = {e1, e2}
    LastRevision = 6
    MaxSource = 1
INVARIANTS
    ScoresAreCurrent
    ScoresAreBacked
    AdviceIsBacked
PROPERTIES
    RevisionsSuffice
CHECK_DEADLOCK FALSE
