\* A banner to be configured and a digital item; two submissions, two waybills
\* at a time, and one step of the panel.
SPECIFICATION ItemsSpec
CONSTANTS
    Items = {banner, package}
    Physical = {banner}
    Configs = {blue, red}
    NoConfig = NoConfig
    NoItem = NoItem
    Submits = {s1, s2}
    Jobs = {j1, j2}
    PanelSets = {"client-action", "shipped", "fulfilled"}
    MaxDocs = 3
    MaxEdits = 1
SYMMETRY Symmetric
INVARIANTS OneWaybill LabelFitsItem DocumentsAreKnown
PROPERTIES PanelDecides
CHECK_DEADLOCK FALSE
