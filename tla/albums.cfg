SPECIFICATION FairSpec
CONSTANTS
    Asset = {a1, a2, a3}
    AlbumLimit = 2
    BatchSize = 2
    MaxAlbums = 5
    Budget = 2
INVARIANTS
    TypeOK
    AddedIsThere
    AlbumsLostToFailures
    UndisturbedIsExact
PROPERTY MembersAreMirrored
