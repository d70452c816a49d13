SPECIFICATION Spec
CONSTANTS
    Components <- MCComponents
    Lower <- MCLower
    Within <- MCWithin
    HiddenLists <- MCHiddenLists
    Texts <- MCTexts
    MaxQueries = 2
    MaxVersion = 1
    Limits <- MCLimits
    Payloads <- MCPayloads
    Scalar = Scalar
    NoName = NoName
    NotADict = NotADict
INVARIANTS
    TypeOK
    HiddenPluginsOmitted
    HiddenTextNotShown
    ListingComplete
    ListedCanBeFetched
    ClusterStatusInOrder
