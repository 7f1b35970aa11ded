\* A booking of each of two students, two concurrent status changes of one, admins that set any status.
SPECIFICATION Spec
CONSTANTS
    u1 = u1
    u2 = u2
    b1 = b1
    b2 = b2
    m1 = m1
    m2 = m2
    r1 = r1
    p1 = p1
    p2 = p2
    p3 = p3
    NoRoute = NoRoute
    NoTrip = NoTrip
    Users = {u1, u2}
    Places = {p1, p2}
    Routes = {r1}
    Trips <- OneTrip
    Bookers = {b1, b2}
    Markers = {m1, m2}
    OwnerOf <- TwoStudents
    AdminStatuses = {"requested", "arrived", "in_progress", "completed", "cancelled"}
    MaxDailyRides = 1
    AnyCooldown = 1
    RouteCooldown = 1
    DayLength = 2
    SeqCap = 1000
    MaxBillId = 2
    MaxTime = 1
SYMMETRY InterchangeableMarkers
INVARIANTS
    TypeOK
    QuietInsertGetsNumber
    UnracedDailyLimit
PROPERTY
    StudentStepsFollowLifecycle
