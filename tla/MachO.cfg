SPECIFICATION Spec
CONSTANTS
    Names <- MCNames
    PathLen <- MCPathLen
    ImmMax = 2
    MaxOffset = 9000
    MaxDylibs = 5
    MaxOps = 2
    OrdRadix = 4
    LibSystem = "sys"
    Wrapper = "wrapper"
    Images <- MCImages
    Orders <- MCOrders
    FixOrders <- MCFixOrders
    Renames <- MCRenames
    Uses = {}
    MaxEdits = 4
    Opcodes = 50
INVARIANTS SectionsIntact OneOfEach CopyMeansTheSame
PROPERTY ImplementsLinked
CHECK_DEADLOCK FALSE
