CONSTANTS
    w1 = w1  w2 = w2  a = a  b = b  NoWorker = NoWorker
    None = None  Recipe1 = Recipe1  Event = Event  RecipeType = RecipeType
    Worker = {w1, w2}
    NodeName = {a, b}
    Requests <- OverlappingRequests
    MAX_NUM = 2
    MaxCrashes = 1
    MaxSubRecipes = 2
SPECIFICATION Spec
PROPERTY MessagesEventuallyDeleted
