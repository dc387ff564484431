SPECIFICATION MCSpec
CONSTANTS
    Wishes <- MCWishes
    FactSets <- MCFactSets
    Trouble = 2
    Applies = 2
CHECK_DEADLOCK FALSE
INVARIANTS RollbackRestores SuccessRunsReviewed EditsKept
PROPERTIES AuthorityRefined
