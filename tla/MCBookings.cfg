\* Two concurrent bookings of one student, and admins that delete bills, users and routes.
SPECIFICATION Spec
CONSTANTS
    u1 = u1
    u2 = u2
    b1 = b1
    b2 = b2
    m1 = m1
    m2 = m2
    r1 = r1
    p1 = p1
    p2 = p2
    p3 = p3
    NoRoute = NoRoute
    NoTrip = NoTrip
    Users = {u1}
    Places = {p1, p2, p3}
    Routes = {r1}
    Trips <- TripsBothWays
    Bookers = {b1, b2}
    Markers = {}
    OwnerOf <- OneStudent
    AdminStatuses = {}
    MaxDailyRides = 1
    AnyCooldown = 1
    RouteCooldown = 2
    DayLength = 3
    SeqCap = 1000
    MaxBillId = 3
    MaxTime = 3
SYMMETRY Interchangeable
INVARIANTS
    UnracedDailyLimit
    DailyOvershootBound
    UnracedCooldowns
    DayNumbersConsecutive
    ReferencesResolve
