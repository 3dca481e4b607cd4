SPECIFICATION Spec
CONSTANTS
    Instances = {api}
    Requests = {a1}
    Products = {p1, p2, p3}
    Cycles = {c1, c2}
    Names = {"Grains & Cereals", "Oils"}
    Slugify <- MCTwoSlugify
    Starter <- MCTwoGroups
    ProductNames = {"rice", "palm oil"}
    DemoData = {TRUE}
    NoRow = NoRow
INVARIANTS
    NoBootIsRefused
