\* Two requests for two files against limits of one, with the host at work.
SPECIFICATION Spec
CONSTANTS
    visitor = visitor
    u1 = u1
    Browsers = {guest, visitor}
    Uids = {u1, u2}
    Accounts = {visitor}
    Derived <- DerivedUid
    Requests = {r1, r2}
    Uploads = {f1, f2}
    Albums = {General, party}
    General = General
    NoAlbum = NoAlbum
    NoUid = NoUid
    Settings <- AlbumSettings
    Edited = {party}
    Kinds = {"photo", "voice", "text"}
    MaxSize = 2
    MediaLimit = 1
    StorageLimit = 2
    GuestMediaLimit = 1
    GuestStorageLimit = 1
    GuestCount = 1
    MaxDeeds = 3
SYMMETRY Symmetric
INVARIANTS EventWithinLimit GuestWithinLimit DeletedAlbumIsEmpty
CHECK_DEADLOCK FALSE
