SPECIFICATION Spec
CONSTANTS
    p1 = p1
    p2 = p2
    Places = {p1, p2}
    Combos <- MCCombos
    Answers <- MCAnswers
    TypeCount <- MCTypeCount
    MaxFailures = 2
    MaxInterruptions = 2
    MaxOutages = 3
INVARIANT
    ParseStopsInARow
