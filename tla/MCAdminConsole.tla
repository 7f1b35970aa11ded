--------------------------- MODULE MCAdminConsole ---------------------------
(* Small instances of AdminConsole: the tables the admin may find. *)
EXTENDS AdminConsole

Pair(a, b) == [from |-> a, to |-> b, fare |-> 0]
FewRoutes == {<<>>, <<Pair(1, 2)>>, <<Pair(1, 2), Pair(2, 3)>>}

\* A student without his proof of identity, alone or with a SuperAdmin.
Student ==
    [role |-> "Student", status |-> "active", email |-> 1,
     filled |-> {"name", "phone", "profilePicture", "institution", "residence", "disability", "idProofType",
                 "disabilityCertificate"}]
SuperAdmin == [role |-> "SuperAdmin", status |-> "active", email |-> 2, filled |-> {"name", "phone", "profilePicture"}]
FewUsers == {<<Student>>, <<SuperAdmin, Student>>}

Ride(s, d, r, day) == [status |-> s, driver |-> d, reason |-> r, day |-> day]
FewBills == {<<>>, <<Ride("completed", 1, "detour", 7)>>}

Sign(s, a) == [status |-> s, reason |-> "", active |-> a]
\* The second is of an account that was closed, the third of one that was never active.
FewStudents ==
    {<<>>, <<Sign("pending", FALSE)>>, <<Sign("approved", FALSE), Sign("pending", FALSE)>>,
     <<Sign("approved", TRUE), Sign("approved", FALSE)>>}
=============================================================================
