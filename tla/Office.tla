--------------------------------- MODULE Office ---------------------------------
(***************************************************************************)
(* The smaller services behind one desk: attendance, staff, students,      *)
(* inventory, schools, messages, the calendar, reports, and the fares and  *)
(* families of the buses.  They share the sessions and no table, and have  *)
(* one hazard in common: a call decides on rows it has read without a      *)
(* lock, and its UPDATE writes into rows that another call may have        *)
(* changed since.                                                          *)
(***************************************************************************)
EXTENDS Attendance, Staff, Students, Inventory, Tenants, Messages, Calendar,
        Reports, Fares, Families

busRows == <<busTables, moment, fareTables, familyTables>>

\* what each service may be asked
OfficeRequest ==
    MarkRequest \cup FixRequest \cup RollRequest
    \cup HireRequest \cup AmendRequest \cup RetireRequest \cup AskRequest \cup DecideRequest
    \cup DayRequest \cup StaffQuery
    \cup CreateRequest \cup ImportRequest \cup ChangeRequest \cup EraseRequest
    \cup PhotoRequest \cup ListRequest
    \cup AssetRequest \cup EditRequest \cup MoveRequest \cup StockRequest
    \cup FoundRequest \cup EditSchool \cup ToggleRequest \cup ShowRequest
    \cup SmsRequest \cup LogRequest
    \cup ConvertRequest \cup RangeRequest \cup YearRequest
    \cup GenerateRequest \cup ArchiveRequest \cup OpenRequest \cup LiveRequest \cup PostRequest
    \cup ServiceRequest \cup PositionRequest \cup BusQuery
    \cup FareRequest \cup AgreeRequest \cup HeadRequest \cup AssessRequest \cup OfferRequest
    \cup PromoteRequest \cup OptionsQuery
    \cup LinkRequest \cup UnlinkRequest \cup RideRequest \cup CloseRequest
    \cup LeaveRequest \cup DemoteRequest \cup FeedQuery \cup FamiliesQuery

\* The request that made the first agreement was answered before.
ASSUME OfficeMenusAssumption ==
    \A m \in Menus : \A c \in m :
        c \in OfficeRequest /\ (c.op \in BusOps => c.req # FirstAgreement)

officeVars == <<desk, roll, staffTables, studentTables, asset, tenant, messageTables, today,
                reportTables, busRows>>

OfficeTypeOK ==
    /\ DeskTypeOK
    /\ AttendanceTypeOK /\ StaffTypeOK /\ StudentsTypeOK /\ InventoryTypeOK
    /\ TenantsTypeOK /\ MessagesTypeOK /\ CalendarTypeOK /\ ReportsTypeOK
    /\ BusTypeOK /\ FaresTypeOK /\ FamiliesTypeOK

OfficeInit ==
    /\ DeskInit
    /\ AttendanceInit /\ StaffInit /\ StudentsInit /\ InventoryInit
    /\ TenantsInit /\ MessagesInit /\ CalendarInit /\ ReportsInit
    /\ BusInit /\ FaresInit /\ FamiliesInit
    \* the settings and the clock matter only where a call reads them
    /\ (\A c \in menu : c.op # "sms") => enabled = {}

OfficeNext ==
    \/ \E s \in Sessions :
          \/ /\ Receive(s) \/ RollBack(s)
             /\ UNCHANGED <<roll, staffTables, studentTables, asset, tenant, messageTables,
                            today, reportTables, busRows>>
          \/ /\ AttendanceNext(s)
             /\ UNCHANGED <<staffTables, studentTables, asset, tenant, messageTables, today,
                            reportTables, busRows>>
          \/ /\ StaffNext(s)
             /\ UNCHANGED <<roll, studentTables, asset, tenant, messageTables, today,
                            reportTables, busRows>>
          \/ /\ StudentsNext(s)
             /\ UNCHANGED <<roll, staffTables, asset, tenant, messageTables, today,
                            reportTables, busRows>>
          \/ /\ InventoryNext(s)
             /\ UNCHANGED <<roll, staffTables, studentTables, tenant, messageTables, today,
                            reportTables, busRows>>
          \/ /\ TenantsNext(s)
             /\ UNCHANGED <<roll, staffTables, studentTables, asset, messageTables, today,
                            reportTables, busRows>>
          \/ /\ MessagesNext(s)
             /\ UNCHANGED <<roll, staffTables, studentTables, asset, tenant, today,
                            reportTables, busRows>>
          \/ /\ CalendarNext(s)
             /\ UNCHANGED <<roll, staffTables, studentTables, asset, tenant, messageTables,
                            reportTables, busRows>>
          \/ /\ ReportsNext(s)
             /\ UNCHANGED <<roll, staffTables, studentTables, asset, tenant, messageTables,
                            today, busRows>>
          \/ /\ BusNext(s)
             /\ UNCHANGED <<roll, staffTables, studentTables, asset, tenant, messageTables,
                            today, reportTables, fareTables, familyTables>>
          \/ /\ FaresNext(s)
             /\ UNCHANGED <<roll, staffTables, studentTables, asset, tenant, messageTables,
                            today, reportTables, familyTables>>
          \/ /\ FamiliesNext(s)
             /\ UNCHANGED <<roll, staffTables, studentTables, asset, tenant, messageTables,
                            today, reportTables, fareTables>>
    \/ /\ \E c \in menu : c.op = "year"
       /\ Midnight
       /\ UNCHANGED <<desk, roll, staffTables, studentTables, asset, tenant, messageTables,
                      reportTables, busRows>>
    \/ /\ \E c \in menu : c.op = "position"
       /\ MomentPasses
       /\ UNCHANGED <<desk, roll, staffTables, studentTables, asset, tenant, messageTables,
                      today, reportTables, fareTables, familyTables>>

OfficeSpec == OfficeInit /\ [][OfficeNext]_officeVars

-----------------------------------------------------------------------------
\* A flush sets only the columns that differ from the copy the call has
\* loaded.  Where columns of a row mean something together, calls that
\* overlap must still leave the columns of one call: a decided leave and who
\* decided it, the quantity and the value of an asset with a price in whole
\* paisa, the level of a school and its switch.
RowsNotTorn == OneCallDecides /\ ValueFollowsStock /\ LevelFollowsSwitch

\* What the transport office has accepted from its desk, and shows to parents.
RidersServed == CommandsOnce /\ ChargedAsAgreed /\ LinkedOnce /\ JourneysShown

-----------------------------------------------------------------------------
(* The inductive invariant: the services share the sessions, and what each *)
(* keeps about its own tables.                                             *)

IInv ==
    /\ DeskInv
    /\ AttendanceInv /\ StaffInv /\ StudentsInv /\ InventoryInv /\ TenantsInv
    /\ MessagesInv /\ CalendarInv /\ ReportsInv /\ BusInv /\ FaresInv /\ FamiliesInv
=============================================================================
