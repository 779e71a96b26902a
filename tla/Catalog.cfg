SPECIFICATION Spec
CONSTANTS
    Replicas = {r1, r2}
    SettingValues = {on, off}
    Default = on
    ModelNames = {n1, n2}
    Seeds = {n1}
    Legacy = n1
    Nobody = Nobody
    Editors = {e1, e2}
    MaxEdits = 2
    MaxFaults = 1
    MaxStops = 1
    p1 = p1
    p2 = p2
    in = in
    out = out
    Priced = {p1, p2}
    SeededRates <- MCSeededRates
    PriceLists <- MCPriceLists
    Dimensions = {in, out}
    Amounts = {1, 2}
    Unreadable = 0
    Unpriced = Unpriced
    Refreshes = {f1, f2}
    MaxRulings = 2
    MaxRefreshes = 3
    Searchers = {u1}
    Services = {ddg, tavily, searxng}
    DuckDuckGo = ddg
    Checked = {tavily}
    NoService = NoService
    ModeEditors = {a1, a2}
    Searches = {q1}
    MaxSettings = 3
    MaxMishaps = 1
    Staff = {s1}
    Teams = {t1, t2}
    VirtualKeys = {k1}
    Sums = {usd}
    Null = Null
    Managers = {m1, m2}
    Readers = {g1}
    MaxOrgChanges = 3
    MaxErrors = 1
    alice = alice
    bob = bob
    red = red
    LogRows <- MCLogRows
    Identities = {alice, bob}
    Units = {red}
    NoUnit = NoUnit
    Unknown = Unknown
    Budgeted = {red}
    Queries <- MCQueries
    Rates = {1}
    Unrated = Unrated
    ToolLimit = 2
    PeriodOf <- MCPeriodOf
    LastDay = 2
    MaxUpheavals = 1
SYMMETRY Symmetry
INVARIANTS
    ReplicasAgree
    PricesSound
    SearchGoesWhereChosen
    EditsAreKept
    FiguresAgree
CHECK_DEADLOCK FALSE
