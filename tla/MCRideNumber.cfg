\* Numbering after a bill was deleted.
SPECIFICATION Spec
CONSTANTS
    u1 = u1
    u2 = u2
    b1 = b1
    b2 = b2
    m1 = m1
    m2 = m2
    r1 = r1
    p1 = p1
    p2 = p2
    p3 = p3
    NoRoute = NoRoute
    NoTrip = NoTrip
    Users = {u1}
    Places = {p1, p2, p3}
    Routes = {r1}
    Trips <- TripsBothWays
    Bookers = {b1}
    Markers = {}
    OwnerOf <- OneStudent
    AdminStatuses = {"cancelled"}
    MaxDailyRides = 3
    AnyCooldown = 1
    RouteCooldown = 2
    DayLength = 2
    SeqCap = 1000
    MaxBillId = 3
    MaxTime = 3
INVARIANT
    InsertGetsNumber
