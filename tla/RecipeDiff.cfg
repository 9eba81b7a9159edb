CONSTANTS
    a = a  b = b  c = c  in1 = in1
    NodeName = {a, b, c}
    ConnInput = {in1}
    x1 = x1
    SubNodeName = {x1}
    OldDefinitions <- OldRevisions
    NewDefinitions <- NewRevisions
    ForcedChoices <- ForcedSets
SPECIFICATION Spec
INVARIANT TypeOK
INVARIANT StatusMatchesReference
INVARIANT CopiedNodeHasNoRerunParent
\* Building the diff is a finite computation; its end is a final state.
CHECK_DEADLOCK FALSE
