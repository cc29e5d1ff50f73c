SPECIFICATION Spec
CONSTANTS
    Requests = {r1, r2, r3}
    Usernames = {"john"}
    Environments = {e1, e2}
    Tokens <- MCTokens
    Inputs <- MCInputs
    Absent = Absent
INVARIANTS TypeOK WritesJudgedAsSeen OrphansComeFromRaces AnswerTellsEffect AnsweredValueStays
PROPERTY InternalErrorsExplained
SYMMETRY Symmetry
