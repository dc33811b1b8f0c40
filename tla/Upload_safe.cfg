\* Two uploads with the same or different files, two /confirm requests and the
\* sweep, with failing calls, restarts and a host who deletes.
SPECIFICATION Spec
CONSTANTS
    album1 = album1
    Uploads = {ph1, ph2}
    Confirmers = {c1, c2}
    Sweep = sweep
    Files = {etag1, etag2}
    EmptyFile = empty
    Kind <- Photos
    Album <- OneAlbum
    HostActs = {"delete"}
    Faults = {"error", "restart"}
    Batch = 2
    NoUpload = NoUpload
SYMMETRY Symmetric
INVARIANTS OnlyCopyHasObject NoOrphanObject
PROPERTY ImplementsReceipt
CHECK_DEADLOCK FALSE
