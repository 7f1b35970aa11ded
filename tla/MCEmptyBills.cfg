\* What the page of ride bills says of an empty list.
SPECIFICATION Spec
CONSTANTS
    Ids = {1, 2}
    Searches = {1}
    PageSizes = {1, 10}
    MaxActs = 3
    MaxCalls = 2
    Stops = {1, 2, 3}
    Fares = {0, 5}
    RouteActs = 4
    RouteTables <- FewRoutes
    Emails = {1, 2}
    MyRole = "Admin"
    UserStatuses = {"active", "inactive"}
    UserTables <- FewUsers
    Drivers = {1}
    BillStatuses = {"requested", "completed"}
    Customs = {"detour"}
    Days = {7, 10}
    MonthStart = 8
    YearStart = 5
    BillTables <- FewBills
    Reasons = {"why"}
    StudentTables <- FewStudents
INVARIANT EmptyMeansNoBills
