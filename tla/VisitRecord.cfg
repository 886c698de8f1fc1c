CONSTANTS
    Requests = {q1, q2}
    Orders = {o1}
    Fields = {cattle, brand}
    MaxPhotos = 1
    MaxStarted = 4
SYMMETRY Symmetry
SPECIFICATION RecordSpec
INVARIANTS LastSaveShows VerdictStands VetRequestStartsOver PhotosAreStored
CHECK_DEADLOCK FALSE
