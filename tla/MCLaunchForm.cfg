\* Both pages that hold the form, three edits in all.
SPECIFICATION FormSpec
CONSTANTS
    Inputs <- MCInputs
    MaxEdits = 3
    Null = Null
INVARIANTS
    OneTickOwner
    LaunchIsForeseen
