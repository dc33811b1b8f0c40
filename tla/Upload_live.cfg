\* Two uploads, one of which may be empty, one /confirm request and the fair sweep,
\* with late PUTs and a host who trashes, restores and deletes.
SPECIFICATION FairSpec
CONSTANTS
    album1 = album1
    Uploads = {ph1, ph2}
    Confirmers = {c1}
    Sweep = sweep
    Files = {etag1, empty}
    EmptyFile = empty
    Kind <- Photos
    Album <- OneAlbum
    HostActs = {"trash", "delete"}
    Faults = {"late"}
    Batch = 1
    NoUpload = NoUpload
PROPERTIES LandedIsSettled
CHECK_DEADLOCK FALSE
