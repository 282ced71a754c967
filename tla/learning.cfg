SPECIFICATION LearningSpec
CONSTANTS
    p1 = p1
    p2 = p2
    r1 = r1
    r2 = r2
    k1 = k1
    k2 = k2
    t1 = t1
    None = None
    Runs <- TwoRows
    Approvals <- OneRow
    Workers <- TwoActors
    MaxVersion = 2
    MaxFaults = 1
    Learners <- TwoActors
    PlanCandidates <- OneRow
    MaxPlan = 3
    Students <- TwoActors
    Sets <- TwoRows
    Questions <- TwoQuestions
    Objective <- OneQuestion
    Tries <- OneRow
    SetCandidates <- OneRow
    MaxCourse = 2
    MaxExams = 1
    MaxAttempts = 2
    Snapshots <- TwoRows
    Renderers <- TwoActors
    MaxActive = 2
    MaxClaims = 2
    MaxStarts = 1
    MaxDeliveries = 2
SYMMETRY Symmetry
INVARIANTS
    LearningTypeOK
    SkillRunsKept
    OneActivePlan
    MaterializedOnce
    AssessmentKept
    ReportsHonest
CHECK_DEADLOCK FALSE
