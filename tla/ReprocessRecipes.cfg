CONSTANTS
    w1 = w1  w2 = w2  root1 = root1  root2 = root2  v1 = v1  v2 = v2
    NoWorker = NoWorker  None = None  Event = Event  RecipeType = RecipeType
    Worker = {w1, w2}
    RootRecipeIds <- TwoRoots
    Revision = {v1, v2}
    NewRev = v2
    OldRev <- RootRevisions
    CanReprocess <- AllReprocessable
    CopiesNodes <- AllReprocessable
SPECIFICATION Spec
PROPERTY ReprocessEventuallyDone
