\* One process starts while another already serves.
SPECIFICATION Spec
CONSTANTS
    p1 = p1
    p2 = p2
    Processes = {p1, p2}
    Names = {"user"}
    LikeName <- LikeItself
    TopVersion = 1
    Registry <- FirstVersion
    Ids = {1, 2}
    Renumber <- Keep
    Rejected = Rejected
    MaxRows = 1
    MaxDocs = 1
    NoEntity = NoEntity
PROPERTY NothingLost
