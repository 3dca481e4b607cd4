SPECIFICATION Spec
CONSTANTS
    Instances = {old, new}
    Requests = {a1}
    Products = {p1, p2}
    Cycles = {c1, c2, c3}
    Names = {"Grains & Cereals"}
    Slugify <- MCSlugify
    Starter <- MCStarter
    ProductNames = {"rice", "beans"}
    DemoData = {TRUE, FALSE}
    NoRow = NoRow
SYMMETRY MCSymmetry
INVARIANTS
    TypeOK
PROPERTIES
    BootsKeepCycleStatus
    BootStocksTheShop
