SPECIFICATION Spec
CONSTANTS
    Changes <- ChangeNames
    KindOf <- OneOfEach
    Readers = {"reader"}
    Reconciler = "reconciler"
    Nothing = Nothing
    MaxBegun = 2
    Rendered <- TwoLayouts
    Tabs <- TwoTabs
    Prices <- TwoPrices
    Amounts <- TwoAmounts
    MaxListeners = 4
    MaxScrims = 2
    SectionOrder <- ThreeSections
    Revisions <- TwoRevisions
    MaxEdits = 2
    MinScale = 1
    MaxScale = 2
    Unit = 2
    Pans = {0, 1}
    MaxPosts = 2
    Sheets <- ThreeSheets
    Webs <- AllWebs
INVARIANTS
    EdgeTypeOK
    VersionsIdentify
    ThemeAgrees
    ScrimServesSheet
    HostAgrees
    ArtboardsReachable
    FontsComplete
PROPERTIES
    UntouchedKept
    TruthAtLast
CHECK_DEADLOCK FALSE
