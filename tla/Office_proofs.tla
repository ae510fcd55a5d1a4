----------------------------- MODULE Office_proofs -----------------------------
(***************************************************************************)
(* Proofs about Office for any sessions, menus and tables: the inductive    *)
(* invariant IInv, service by service, and the safety properties that       *)
(* follow from it.  A service is left alone by the steps of all the others  *)
(* (the lemmas named ...Stays) and keeps its own invariant by its own       *)
(* steps (the lemmas named ...Keeps).                                       *)
(***************************************************************************)
EXTENDS Office, SumLemmas, SequenceTheorems

-----------------------------------------------------------------------------
(* The desk. *)

Same(t) == pc'[t] = pc[t] /\ cmd'[t] = cmd[t] /\ seen'[t] = seen[t]

Others(s) == \A t \in Sessions \ {s} : Same(t)

\* What a step does to the sessions when it serves none of the operations Ops.
Quiet(Ops) ==
    \A t \in Sessions :
        \/ Same(t)
        \/ pc'[t] = "idle"
        \/ pc'[t] = "start" /\ seen'[t] = NoView
        \/ cmd[t].op \notin Ops /\ cmd'[t] = cmd[t]

Went(s, phase, view) ==
    /\ pc'[s] = phase /\ cmd'[s] = cmd[s] /\ seen'[s] = view
    /\ Others(s) /\ DeskInv' /\ menu' = menu

Left(s) ==
    /\ pc'[s] = "idle" /\ cmd'[s] = NoCommand /\ seen'[s] = NoView
    /\ Others(s) /\ DeskInv' /\ menu' = menu

\* A call goes on to another phase of its command.
LEMMA GotoGoes ==
    ASSUME DeskInv, NEW s \in Sessions, NEW phase \in DeskPhases \ {"idle"}, NEW view,
           pc[s] # "idle", Goto(s, phase, view)
    PROVE  Went(s, phase, view)
<1>1. /\ pc \in [Sessions -> DeskPhases] /\ DOMAIN cmd = Sessions /\ DOMAIN seen = Sessions
      /\ cmd[s] \in menu /\ menu \in Menus
  BY DEF DeskInv, DeskTypeOK
<1>2. /\ pc' \in [Sessions -> DeskPhases] /\ DOMAIN cmd' = Sessions /\ DOMAIN seen' = Sessions
      /\ menu' = menu /\ cmd' = cmd
      /\ pc'[s] = phase /\ seen'[s] = view
  BY <1>1 DEF Goto
<1>3. Others(s)
  BY <1>1 DEF Goto, Others, Same
<1>4. DeskInv'
  BY <1>1, <1>2, <1>3 DEF DeskInv, DeskTypeOK, Others, Same
<1>5. QED
  BY <1>2, <1>3, <1>4 DEF Went

\* A call ends.
LEMMA FinishLeaves ==
    ASSUME DeskInv, NEW s \in Sessions, Finish(s)
    PROVE  Left(s)
<1>1. /\ pc \in [Sessions -> DeskPhases] /\ DOMAIN cmd = Sessions /\ DOMAIN seen = Sessions
      /\ menu \in Menus
  BY DEF DeskInv, DeskTypeOK
<1>2. /\ pc' \in [Sessions -> DeskPhases] /\ DOMAIN cmd' = Sessions /\ DOMAIN seen' = Sessions
      /\ menu' = menu
      /\ pc'[s] = "idle" /\ cmd'[s] = NoCommand /\ seen'[s] = NoView
  BY <1>1 DEF Finish, DeskPhases
<1>3. Others(s)
  BY <1>1 DEF Finish, Others, Same
<1>4. DeskInv'
  BY <1>1, <1>2, <1>3 DEF DeskInv, DeskTypeOK, Others, Same
<1>5. QED
  BY <1>2, <1>3, <1>4 DEF Left

\* A call begins, or is rolled back.
LEMMA DeskSteps ==
    ASSUME DeskInv, NEW s \in Sessions, Receive(s) \/ RollBack(s), NEW Ops
    PROVE  DeskInv' /\ menu' = menu /\ Quiet(Ops)
<1>1. /\ pc \in [Sessions -> DeskPhases] /\ DOMAIN cmd = Sessions /\ DOMAIN seen = Sessions
      /\ menu \in Menus
  BY DEF DeskInv, DeskTypeOK
<1>2. CASE Receive(s)
  <2>1. PICK c \in menu : cmd' = [cmd EXCEPT ![s] = c]
    BY <1>2 DEF Receive
  <2>2. /\ pc' \in [Sessions -> DeskPhases] /\ DOMAIN cmd' = Sessions /\ DOMAIN seen' = Sessions
        /\ menu' = menu
        /\ pc'[s] = "start" /\ cmd'[s] = c /\ seen' = seen
    BY <1>1, <1>2, <2>1 DEF Receive, DeskPhases
  <2>3. Others(s)
    BY <1>1, <1>2, <2>1 DEF Receive, Others, Same
  <2>4. seen'[s] = NoView
    BY <1>2, <2>2 DEF Receive, DeskInv, DeskTypeOK
  <2>5. DeskInv'
    BY <1>1, <2>2, <2>3 DEF DeskInv, DeskTypeOK, Others, Same
  <2>6. QED
    BY <2>2, <2>3, <2>4, <2>5 DEF Quiet, Others
<1>3. CASE RollBack(s)
  <2>1. Left(s)
    BY <1>3, FinishLeaves DEF RollBack
  <2>2. QED
    BY <2>1 DEF Left, Quiet, Others
<1>4. QED
  BY <1>2, <1>3

\* A step of a call that serves none of Ops leaves the calls of Ops alone.
LEMMA StepQuiet ==
    ASSUME NEW s \in Sessions, NEW Ops, cmd[s].op \notin Ops,
           Left(s) \/ \E phase, view : Went(s, phase, view)
    PROVE  Quiet(Ops)
  BY DEF Left, Went, Quiet, Others

-----------------------------------------------------------------------------
(* Requests. *)

\* The requests of an operation have the form of that operation.
CommandFits(c) ==
    /\ c.op = "mark" => c \in MarkRequest
    /\ c.op = "fix" => c \in FixRequest
    /\ c.op = "hire" => c \in HireRequest
    /\ c.op = "amend" => c \in AmendRequest
    /\ c.op = "retire" => c \in RetireRequest
    /\ c.op = "ask" => c \in AskRequest
    /\ c.op = "decide" => c \in DecideRequest
    /\ c.op = "day" => c \in DayRequest
    /\ c.op = "create" => c \in CreateRequest
    /\ c.op = "import" => c \in ImportRequest
    /\ c.op = "change" => c \in ChangeRequest
    /\ c.op = "erase" => c \in EraseRequest
    /\ c.op \in {"photo", "show"} => c \in PhotoRequest
    /\ c.op = "asset" => c \in AssetRequest
    /\ c.op = "edit" => c \in EditRequest
    /\ c.op = "move" => c \in MoveRequest
    /\ c.op = "found" => c \in FoundRequest
    /\ c.op = "school" => c \in EditSchool
    /\ c.op = "toggle" => c \in ToggleRequest
    /\ c.op = "sms" => c \in SmsRequest
    /\ c.op \in {"to_ad", "to_bs"} => c \in ConvertRequest
    /\ c.op = "range" => c \in RangeRequest
    /\ c.op \in {"months", "year"} => c \in YearRequest
    /\ c.op = "generate" => c \in GenerateRequest
    /\ c.op = "archive" => c \in ArchiveRequest
    /\ c.op \in {"export", "detail"} => c \in OpenRequest
    /\ c.op = "post" => c \in PostRequest
    /\ c.op = "service" => c \in ServiceRequest
    /\ c.op = "position" => c \in PositionRequest
    /\ c.op = "fare" => c \in FareRequest
    /\ c.op = "agree" => c \in AgreeRequest
    /\ c.op = "price" => c \in HeadRequest
    /\ c.op = "assess" => c \in AssessRequest
    /\ c.op = "offer" => c \in OfferRequest
    /\ c.op = "link" => c \in LinkRequest
    /\ c.op = "unlink" => c \in UnlinkRequest
    /\ c.op \in {"board", "alight", "absent"} => c \in RideRequest
    /\ c.op \in {"complete", "call_off"} => c \in CloseRequest
    /\ c.op = "feed" => c \in FeedQuery

LEMMA RequestFits ==
    ASSUME NEW c \in OfficeRequest
    PROVE  CommandFits(c)
<1>1. /\ \A r \in MarkRequest : r.op = "mark"
      /\ \A r \in FixRequest : r.op = "fix"
      /\ \A r \in RollRequest : r.op \in {"register", "month", "history"}
  BY DEF MarkRequest, FixRequest, RollRequest
<1>2. /\ \A r \in HireRequest : r.op = "hire"
      /\ \A r \in AmendRequest : r.op = "amend"
      /\ \A r \in RetireRequest : r.op = "retire"
      /\ \A r \in AskRequest : r.op = "ask"
      /\ \A r \in DecideRequest : r.op = "decide"
      /\ \A r \in DayRequest : r.op = "day"
      /\ \A r \in StaffQuery : r.op \in {"attendance", "staff"}
  BY DEF HireRequest, AmendRequest, RetireRequest, AskRequest, DecideRequest, DayRequest,
         StaffQuery
<1>3. /\ \A r \in CreateRequest : r.op = "create"
      /\ \A r \in ImportRequest : r.op = "import"
      /\ \A r \in ChangeRequest : r.op = "change"
      /\ \A r \in EraseRequest : r.op = "erase"
      /\ \A r \in PhotoRequest : r.op \in {"photo", "show"}
      /\ \A r \in ListRequest : r.op = "roster"
  BY DEF CreateRequest, ImportRequest, ChangeRequest, EraseRequest, PhotoRequest, ListRequest
<1>4. /\ \A r \in AssetRequest : r.op = "asset"
      /\ \A r \in EditRequest : r.op = "edit"
      /\ \A r \in MoveRequest : r.op = "move"
      /\ \A r \in StockRequest : r.op = "stock"
      /\ \A r \in FoundRequest : r.op = "found"
      /\ \A r \in EditSchool : r.op = "school"
      /\ \A r \in ToggleRequest : r.op = "toggle"
      /\ \A r \in ShowRequest : r.op = "subscription"
  BY DEF AssetRequest, EditRequest, MoveRequest, StockRequest, FoundRequest, EditSchool,
         ToggleRequest, ShowRequest
<1>5. /\ \A r \in SmsRequest : r.op = "sms"
      /\ \A r \in LogRequest : r.op = "messages"
      /\ \A r \in ConvertRequest : r.op \in {"to_ad", "to_bs"}
      /\ \A r \in RangeRequest : r.op = "range"
      /\ \A r \in YearRequest : r.op \in {"months", "year"}
  BY DEF SmsRequest, LogRequest, ConvertRequest, RangeRequest, YearRequest
<1>6. /\ \A r \in GenerateRequest : r.op = "generate"
      /\ \A r \in ArchiveRequest : r.op = "archive"
      /\ \A r \in OpenRequest : r.op \in {"export", "detail"}
      /\ \A r \in LiveRequest : r.op \in {"preview", "reports"}
      /\ \A r \in PostRequest : r.op = "post"
  BY DEF GenerateRequest, ArchiveRequest, OpenRequest, LiveRequest, PostRequest
<1>7. /\ \A r \in ServiceRequest : r.op = "service"
      /\ \A r \in PositionRequest : r.op = "position"
      /\ \A r \in BusQuery : r.op \in {"maintenance", "location"}
      /\ \A r \in FareRequest : r.op = "fare"
      /\ \A r \in AgreeRequest : r.op = "agree"
      /\ \A r \in HeadRequest : r.op = "price"
      /\ \A r \in AssessRequest : r.op = "assess"
      /\ \A r \in OfferRequest : r.op = "offer"
      /\ \A r \in PromoteRequest : r.op = "promote"
      /\ \A r \in OptionsQuery : r.op = "options"
  BY DEF ServiceRequest, PositionRequest, BusQuery, FareRequest, AgreeRequest, HeadRequest,
         AssessRequest, OfferRequest, PromoteRequest, OptionsQuery
<1>8. /\ \A r \in LinkRequest : r.op = "link"
      /\ \A r \in UnlinkRequest : r.op = "unlink"
      /\ \A r \in RideRequest : r.op \in {"board", "alight", "absent"}
      /\ \A r \in CloseRequest : r.op \in {"complete", "call_off"}
      /\ \A r \in LeaveRequest : r.op = "leave"
      /\ \A r \in DemoteRequest : r.op = "demote"
      /\ \A r \in FeedQuery : r.op = "feed"
      /\ \A r \in FamiliesQuery : r.op = "families"
  BY DEF LinkRequest, UnlinkRequest, RideRequest, CloseRequest, LeaveRequest, DemoteRequest,
         FeedQuery, FamiliesQuery
<1>9. QED
  BY <1>1, <1>2, <1>3, <1>4, <1>5, <1>6, <1>7, <1>8 DEF OfficeRequest, CommandFits

\* The call of a session is one of the menu.
LEMMA CallFits ==
    ASSUME DeskInv, NEW s \in Sessions, pc[s] # "idle"
    PROVE  /\ cmd[s] \in menu /\ cmd[s] # NoRow /\ CommandFits(cmd[s])
           /\ cmd[s].op \in BusOps => cmd[s].req # FirstAgreement
<1>1. menu \in Menus /\ cmd[s] \in menu
  BY DEF DeskInv, DeskTypeOK
<1>2. cmd[s] \in OfficeRequest /\ (cmd[s].op \in BusOps => cmd[s].req # FirstAgreement)
  BY <1>1, OfficeMenusAssumption
<1>3. cmd[s] # NoRow
  BY <1>1, DeskAssumption
<1>4. QED
  BY <1>1, <1>2, <1>3, RequestFits

-----------------------------------------------------------------------------
(* Inventory. *)

InventoryOps == {"asset", "edit", "move", "stock"}

LEMMA AssetIsRow ==
    ASSUME NEW row \in AssetRow
    PROVE  row # NoRow
  BY InventoryAssumption

\* A stored amount is a number of paisa.
LEMMA PaisaNatural ==
    ASSUME NEW amount \in Nat
    PROVE  Paisa(amount) \in Nat
<1>1. PICK g \in Nat : g = Grain /\ g > 0
  BY InventoryAssumption
<1>2. \A y, d \in Nat : d > 0 => y \div d \in Nat
  OBVIOUS
<1>3. 2 * amount + g \in Nat /\ 2 * g \in Nat /\ 2 * g > 0
  BY <1>1
<1>4. QED
  BY <1>1, <1>2, <1>3 DEF Paisa

\* Prices are naturals, as typed and as stored.
LEMMA PriceNatural ==
    ASSUME NEW a \in Assets
    PROVE  Price[a] \in Nat /\ UnitPrice(a) \in Nat
  BY InventoryAssumption, PaisaNatural DEF UnitPrice

\* Rounding leaves whole paisa alone.
LEMMA WholeStays ==
    ASSUME NEW m \in Nat
    PROVE  Paisa(m * Grain) = m
<1>1. PICK g \in Nat : g = Grain /\ g > 0
  BY InventoryAssumption
<1>2. 2 * (m * g) + g = m * (2 * g) + g /\ g < 2 * g
  BY <1>1
<1>3. \A d, r, q \in Nat : d > 0 /\ r < d => (q * d + r) \div d = q
  OBVIOUS
<1>4. QED
  BY <1>1, <1>2, <1>3 DEF Paisa

\* A number that leaves no remainder is a multiple.
LEMMA DividedEvenly ==
    ASSUME NEW x \in Nat, NEW g \in Nat, g > 0, x % g = 0
    PROVE  \E m \in Nat : x = m * g
<1>1. x = g * (x \div g) + (x % g) /\ x \div g \in Nat
  OBVIOUS
<1>2. x = (x \div g) * g
  BY <1>1
<1>3. QED
  BY <1>1, <1>2

\* Of a price in whole paisa, any number of pieces has the value of their number.
LEMMA WholeMultiplies ==
    ASSUME NEW a \in Assets, WholePaisa(a), NEW q \in Nat
    PROVE  Paisa(q * Price[a]) = q * UnitPrice(a)
<1>1. PICK g, x \in Nat : g = Grain /\ g > 0 /\ x = Price[a] /\ x % g = 0
  BY InventoryAssumption DEF WholePaisa
<1>2. PICK m \in Nat : x = m * g
  BY <1>1, DividedEvenly
<1>3. q * x = (q * m) * g /\ q * m \in Nat
  BY <1>1, <1>2
<1>4. Paisa(q * x) = q * m /\ Paisa(x) = m
  BY <1>1, <1>2, <1>3, WholeStays
<1>5. QED
  BY <1>1, <1>4 DEF UnitPrice

LEMMA AssetCalled ==
    ASSUME DeskInv, NEW s \in Sessions, pc[s] # "idle", cmd[s].op \in {"asset", "edit", "move"}
    PROVE  cmd[s].asset \in Assets
  BY CallFits DEF CommandFits, AssetRequest, EditRequest, MoveRequest

\* The rows stay as they are, and no session loses what it knows of them.
LEMMA InventoryUnwritten ==
    ASSUME InventoryInv, asset' = asset,
           \A t \in Sessions : Same(t) \/ InventorySession(t)'
    PROVE  InventoryInv'
  BY DEF InventoryInv, InventoryTypeOK, ValueFollowsStock, InventorySession, Same, At

LEMMA InventoryStays ==
    ASSUME InventoryInv, asset' = asset, Quiet(InventoryOps)
    PROVE  InventoryInv'
<1>1. ASSUME NEW t \in Sessions, ~Same(t)
      PROVE  InventorySession(t)'
  BY <1>1 DEF Quiet, InventoryOps, InventorySession, At
<1>2. QED
  BY <1>1, InventoryUnwritten

\* A row of one asset is written, whose value, of a price in whole paisa, is
\* that of its quantity.
LEMMA AssetWritten ==
    ASSUME DeskInv, InventoryInv, NEW a \in Assets, NEW row \in AssetRow,
           WholePaisa(a) => row.total_value = row.quantity * UnitPrice(a),
           asset' = [asset EXCEPT ![a] = row],
           \A t \in Sessions : Same(t) \/ InventorySession(t)'
    PROVE  InventoryInv'
<1>1. asset \in [Assets -> AssetRow \cup {NoRow}] /\ ValueFollowsStock
  BY DEF InventoryInv, InventoryTypeOK
<1>2. /\ asset' \in [Assets -> AssetRow \cup {NoRow}] /\ asset'[a] = row
      /\ \A b \in Assets : b # a => asset'[b] = asset[b]
  BY <1>1
<1>3. row # NoRow
  BY AssetIsRow
<1>4. ValueFollowsStock'
  BY <1>1, <1>2 DEF ValueFollowsStock
<1>5. ASSUME NEW t \in Sessions
      PROVE  InventorySession(t)'
  <2>1. CASE Same(t)
    <3>1. InventorySession(t)
      BY DEF InventoryInv
    <3>2. \A b \in Assets : asset[b] # NoRow => asset'[b] # NoRow
      BY <1>2, <1>3
    <3>3. ASSUME At(t, "edit", "write") \/ At(t, "move", "write")
          PROVE  asset'[cmd[t].asset] # NoRow
      <4>1. cmd[t].asset \in Assets
        BY <3>3, AssetCalled DEF At
      <4>2. QED
        BY <3>1, <3>2, <3>3, <4>1 DEF InventorySession
    <3>5. QED
      BY <2>1, <3>1, <3>3 DEF InventorySession, Same, At
  <2>2. QED
    BY <2>1
<1>6. QED
  BY <1>2, <1>4, <1>5 DEF InventoryInv, InventoryTypeOK

\* What a movement leaves in the row, which may have changed since it was read.
LEMMA MovedRow ==
    ASSUME NEW a \in Assets, NEW old \in AssetRow, NEW copy \in AssetRow, NEW values, NEW n \in Nat,
           WholePaisa(a) => old.total_value = old.quantity * UnitPrice(a),
           WholePaisa(a) => copy.total_value = copy.quantity * UnitPrice(a),
           values.quantity = n, values.total_value = n * UnitPrice(a),
           values.location \in Places, values.active = copy.active,
           NEW row,
           row = [f \in DOMAIN old |-> IF values[f] = copy[f] THEN old[f] ELSE values[f]]
    PROVE  /\ row \in AssetRow
           /\ WholePaisa(a) => row.total_value = row.quantity * UnitPrice(a)
<1>1. PICK p \in Nat : p = UnitPrice(a)
  BY PriceNatural
<1>2. n * p \in Nat
  OBVIOUS
<1>3. row.quantity = IF n = copy.quantity THEN old.quantity ELSE n
  BY DEF AssetRow
<1>4. row \in AssetRow
  BY <1>1, <1>2 DEF AssetRow
<1>5. \A q \in Nat : n * p = q * p => n = q \/ p = 0
  OBVIOUS
<1>6. \A q \in Nat : p = 0 => q * p = 0
  OBVIOUS
<1>7. copy.quantity \in Nat /\ old.quantity \in Nat
  BY DEF AssetRow
<1>8. ASSUME WholePaisa(a)
      PROVE  row.total_value = row.quantity * p
  <2>1. row.total_value = IF n * p = copy.quantity * p THEN old.quantity * p ELSE n * p
    BY <1>1, <1>8 DEF AssetRow
  <2>2. CASE n = copy.quantity
    BY <1>3, <2>1, <2>2
  <2>3. CASE n # copy.quantity /\ p # 0
    <3>1. n * p # copy.quantity * p
      BY <1>5, <1>7, <2>3
    <3>2. QED
      BY <1>3, <2>1, <2>3, <3>1
  <2>4. CASE p = 0
    <3>1. n * p = 0 /\ old.quantity * p = 0 /\ row.quantity * p = 0
      BY <1>3, <1>6, <1>7, <2>4
    <3>2. QED
      BY <2>1, <3>1
  <2>5. QED
    BY <2>2, <2>3, <2>4
<1>9. QED
  BY <1>1, <1>4, <1>8

LEMMA InventoryKeeps ==
    ASSUME DeskInv, InventoryInv, NEW s \in Sessions, InventoryNext(s)
    PROVE  /\ InventoryInv' /\ DeskInv' /\ menu' = menu /\ cmd[s].op \in InventoryOps
           /\ Left(s) \/ \E phase, view : Went(s, phase, view)
<1>t. asset \in [Assets -> AssetRow \cup {NoRow}] /\ ValueFollowsStock /\ InventorySession(s)
  BY DEF InventoryInv, InventoryTypeOK
<1>l. ASSUME Left(s)
      PROVE  \A t \in Sessions : Same(t) \/ InventorySession(t)'
  BY <1>l DEF Left, Others, InventorySession, At
<1>1. CASE CreateAsset(s)
  <2>1. Left(s) /\ cmd[s].op = "asset" /\ pc[s] # "idle"
    BY <1>1, FinishLeaves DEF CreateAsset, At
  <2>2. PICK c : c = cmd[s]
    OBVIOUS
  <2>3. c \in AssetRequest
    BY <2>1, <2>2, CallFits DEF CommandFits
  <2>4. c.asset \in Assets /\ c.quantity \in Nat /\ c.location \in Places
    BY <2>3 DEF AssetRequest
  <2>5. PICK row : row = [quantity |-> c.quantity,
                          total_value |-> Paisa(c.quantity * Price[c.asset]),
                          location |-> c.location, active |-> TRUE]
    OBVIOUS
  <2>6. Paisa(c.quantity * Price[c.asset]) \in Nat
    <3>1. c.quantity * Price[c.asset] \in Nat
      BY <2>4, PriceNatural
    <3>2. QED
      BY <3>1, PaisaNatural
  <2>7. row \in AssetRow
        /\ (WholePaisa(c.asset) => row.total_value = row.quantity * UnitPrice(c.asset))
    <3>1. row \in AssetRow
      BY <2>4, <2>5, <2>6 DEF AssetRow
    <3>2. ASSUME WholePaisa(c.asset)
          PROVE  row.total_value = row.quantity * UnitPrice(c.asset)
      BY <2>4, <2>5, <3>2, WholeMultiplies
    <3>3. QED
      BY <3>1, <3>2
  <2>8. asset' = [asset EXCEPT ![c.asset] = row]
    BY <1>1, <2>2, <2>5 DEF CreateAsset
  <2>9. InventoryInv'
    BY <1>l, <2>1, <2>4, <2>7, <2>8, AssetWritten
  <2>10. QED
    BY <2>1, <2>9 DEF Left, InventoryOps
<1>2. CASE ReadAsset(s)
  <2>1. cmd[s].op \in {"edit", "move"} /\ pc[s] = "start" /\ asset' = asset
    BY <1>2 DEF ReadAsset, At
  <2>2. cmd[s].asset \in Assets
    BY <2>1, AssetCalled
  <2>3. CASE asset[cmd[s].asset] = NoRow
    <3>1. Left(s)
      BY <1>2, <2>3, FinishLeaves DEF ReadAsset
    <3>2. InventoryInv'
      BY <1>l, <2>1, <3>1, InventoryUnwritten
    <3>3. QED
      BY <2>1, <3>1, <3>2 DEF Left, InventoryOps
  <2>4. CASE asset[cmd[s].asset] # NoRow
    <3>1. Went(s, "write", asset[cmd[s].asset])
      BY <1>2, <2>1, <2>4, GotoGoes DEF ReadAsset, DeskPhases
    <3>2. asset[cmd[s].asset] \in AssetRow
      BY <1>t, <2>2, <2>4
    <3>3. WholePaisa(cmd[s].asset) =>
            asset[cmd[s].asset].total_value
              = asset[cmd[s].asset].quantity * UnitPrice(cmd[s].asset)
      BY <1>t, <2>2, <2>4 DEF ValueFollowsStock
    <3>4. InventorySession(s)'
      BY <2>1, <2>4, <3>1, <3>2, <3>3 DEF Went, InventorySession, WholePaisa, UnitPrice, Paisa
    <3>5. \A t \in Sessions : Same(t) \/ InventorySession(t)'
      BY <3>1, <3>4 DEF Went, Others
    <3>6. InventoryInv'
      BY <2>1, <3>5, InventoryUnwritten
    <3>7. QED
      BY <2>1, <3>1, <3>6 DEF Went, InventoryOps
  <2>5. QED
    BY <2>3, <2>4
<1>3. CASE CommitEdit(s)
  <2>1. Left(s) /\ cmd[s].op = "edit" /\ pc[s] = "write"
    BY <1>3, FinishLeaves DEF CommitEdit, At
  <2>2. PICK c : c = cmd[s]
    OBVIOUS
  <2>3. c.asset \in Assets /\ c.active \in BOOLEAN
    BY <2>1, <2>2, CallFits DEF CommandFits, EditRequest
  <2>4. asset[c.asset] # NoRow
    BY <1>t, <2>1, <2>2 DEF InventorySession, At
  <2>5. asset[c.asset] \in AssetRow
    BY <1>t, <2>3, <2>4
  <2>6. CASE c.active = seen[s].active
    <3>1. asset' = asset
      BY <1>3, <2>2, <2>6 DEF CommitEdit
    <3>2. InventoryInv'
      BY <1>l, <2>1, <3>1, InventoryUnwritten
    <3>3. QED
      BY <2>1, <3>2 DEF Left, InventoryOps
  <2>7. CASE c.active # seen[s].active
    <3>1. PICK row : row = [asset[c.asset] EXCEPT !.active = c.active]
      OBVIOUS
    <3>2. row \in AssetRow /\ row.quantity = asset[c.asset].quantity
          /\ row.total_value = asset[c.asset].total_value
      BY <2>3, <2>5, <3>1 DEF AssetRow
    <3>3. asset' = [asset EXCEPT ![c.asset] = row]
      BY <1>3, <2>2, <2>7, <3>1 DEF CommitEdit
    <3>4. WholePaisa(c.asset) => row.total_value = row.quantity * UnitPrice(c.asset)
      BY <1>t, <2>3, <2>4, <3>2 DEF ValueFollowsStock
    <3>5. InventoryInv'
      BY <1>l, <2>1, <2>3, <3>2, <3>3, <3>4, AssetWritten
    <3>6. QED
      BY <2>1, <3>5 DEF Left, InventoryOps
  <2>8. QED
    BY <2>6, <2>7
<1>4. CASE CommitMovement(s)
  <2>1. Left(s) /\ cmd[s].op = "move" /\ pc[s] = "write"
    BY <1>4, FinishLeaves DEF CommitMovement, At
  <2>2. PICK c, copy, old : c = cmd[s] /\ copy = seen[s] /\ old = asset[c.asset]
    OBVIOUS
  <2>3. /\ c.asset \in Assets /\ c.quantity \in Nat
        /\ c.location # NoPlace => c.location \in Places
    BY <2>1, <2>2, CallFits DEF CommandFits, MoveRequest
  <2>4. /\ old # NoRow /\ copy \in AssetRow
        /\ WholePaisa(c.asset) => copy.total_value = copy.quantity * UnitPrice(c.asset)
    BY <1>t, <2>1, <2>2 DEF InventorySession, At
  <2>5. /\ old \in AssetRow
        /\ WholePaisa(c.asset) => old.total_value = old.quantity * UnitPrice(c.asset)
    BY <1>t, <2>2, <2>3, <2>4 DEF ValueFollowsStock
  <2>6. PICK values : values = [copy EXCEPT !.quantity = Moved(copy.quantity, c),
                                           !.total_value = NewValue(copy, c),
                                           !.location = IF c.location = NoPlace THEN copy.location
                                                        ELSE c.location]
    OBVIOUS
  <2>7. PICK row : row = [f \in DOMAIN old |-> IF values[f] = copy[f] THEN old[f] ELSE values[f]]
    OBVIOUS
  <2>8. asset' = [asset EXCEPT ![c.asset] = row]
    BY <1>4, <2>2, <2>6, <2>7 DEF CommitMovement
  <2>9. Moved(copy.quantity, c) \in Nat
    BY <2>3, <2>4 DEF Moved, AssetRow
  <2>10. /\ values.quantity = Moved(copy.quantity, c) /\ values.active = copy.active
         /\ values.total_value = Moved(copy.quantity, c) * UnitPrice(c.asset)
         /\ values.location \in Places
    BY <2>3, <2>4, <2>6 DEF AssetRow, NewValue
  <2>11. /\ row \in AssetRow
         /\ WholePaisa(c.asset) => row.total_value = row.quantity * UnitPrice(c.asset)
    BY <2>3, <2>4, <2>5, <2>7, <2>9, <2>10, MovedRow
  <2>12. InventoryInv'
    BY <1>l, <2>1, <2>3, <2>8, <2>11, AssetWritten
  <2>13. QED
    BY <2>1, <2>12 DEF Left, InventoryOps
<1>5. CASE ReadStock(s)
  <2>1. PICK view : Goto(s, "answer", view) /\ cmd[s].op = "stock" /\ pc[s] = "start" /\ asset' = asset
    BY <1>5 DEF ReadStock, At
  <2>2. Went(s, "answer", view)
    BY <2>1, GotoGoes DEF DeskPhases
  <2>3. \A t \in Sessions : Same(t) \/ InventorySession(t)'
    BY <2>2 DEF Went, Others, InventorySession, At
  <2>4. InventoryInv'
    BY <2>1, <2>3, InventoryUnwritten
  <2>5. QED
    BY <2>1, <2>2, <2>4 DEF Went, InventoryOps
<1>6. CASE AnswerStock(s)
  <2>1. Left(s) /\ cmd[s].op = "stock" /\ asset' = asset
    BY <1>6, FinishLeaves DEF AnswerStock, At
  <2>2. InventoryInv'
    BY <1>l, <2>1, InventoryUnwritten
  <2>3. QED
    BY <2>1, <2>2 DEF Left, InventoryOps
<1>7. QED
  BY <1>1, <1>2, <1>3, <1>4, <1>5, <1>6 DEF InventoryNext

LEMMA InventoryStarts ==
    ASSUME DeskInit, InventoryInit
    PROVE  InventoryInv
  BY DEF DeskInit, InventoryInit, InventoryInv, InventoryTypeOK, ValueFollowsStock,
         InventorySession, At

-----------------------------------------------------------------------------
(* Schools. *)

TenantsOps == {"found", "school", "toggle", "subscription"}

LEMMA TenantIsRow ==
    ASSUME NEW row \in TenantRow
    PROVE  row # NoRow
  BY TenantsAssumption

LEMMA SchoolCalled ==
    ASSUME DeskInv, NEW s \in Sessions, pc[s] # "idle", cmd[s].op \in {"found", "school", "toggle"}
    PROVE  /\ cmd[s].school \in Schools
           /\ cmd[s].op = "found" => cmd[s].level \in Levels
           /\ cmd[s].op = "toggle" => cmd[s].enable \in BOOLEAN
  BY CallFits DEF CommandFits, FoundRequest, EditSchool, ToggleRequest

LEMMA TenantsUnwritten ==
    ASSUME TenantsInv, tenant' = tenant,
           \A t \in Sessions : Same(t) \/ TenantsSession(t)'
    PROVE  TenantsInv'
  BY DEF TenantsInv, TenantsTypeOK, LevelFollowsSwitch, TenantsSession, Same, At

LEMMA TenantsStays ==
    ASSUME TenantsInv, tenant' = tenant, Quiet(TenantsOps)
    PROVE  TenantsInv'
<1>1. ASSUME NEW t \in Sessions, ~Same(t)
      PROVE  TenantsSession(t)'
  BY <1>1 DEF Quiet, TenantsOps, TenantsSession, At
<1>2. QED
  BY <1>1, TenantsUnwritten

\* A row of one school is written; for a school that began below grades 11
\* and 12, with a level that agrees with the switch.
LEMMA TenantWritten ==
    ASSUME DeskInv, TenantsInv, NEW a \in Schools, NEW row \in TenantRow,
           a \in OnBoard => /\ row.hs <=> row.level = "higher_secondary"
                            /\ row.hs => PlanOf[a] \in HsPlans,
           tenant' = [tenant EXCEPT ![a] = row],
           \A t \in Sessions : Same(t) \/ TenantsSession(t)'
    PROVE  TenantsInv'
<1>1. /\ tenant \in [Schools -> TenantRow \cup {NoRow}] /\ LevelFollowsSwitch
      /\ \A t \in OnBoard : tenant[t] # NoRow
      /\ OnBoard \subseteq Schools
  BY TenantsAssumption DEF TenantsInv, TenantsTypeOK
<1>2. /\ tenant' \in [Schools -> TenantRow \cup {NoRow}] /\ tenant'[a] = row
      /\ \A b \in Schools : b # a => tenant'[b] = tenant[b]
  BY <1>1
<1>3. row # NoRow
  BY TenantIsRow
<1>4. LevelFollowsSwitch' /\ \A t \in OnBoard : tenant'[t] # NoRow
  <2>1. ASSUME NEW t \in OnBoard
        PROVE  /\ tenant'[t] # NoRow
               /\ tenant'[t].hs <=> tenant'[t].level = "higher_secondary"
               /\ tenant'[t].hs => PlanOf[t] \in HsPlans
    <3>1. CASE t = a
      BY <1>2, <1>3, <3>1
    <3>2. CASE t # a
      <4>1. tenant'[t] = tenant[t]
        BY <1>1, <1>2, <3>2
      <4>2. QED
        BY <1>1, <4>1 DEF LevelFollowsSwitch
    <3>3. QED
      BY <3>1, <3>2
  <2>2. QED
    BY <2>1 DEF LevelFollowsSwitch
<1>5. ASSUME NEW t \in Sessions
      PROVE  TenantsSession(t)'
  <2>1. CASE Same(t)
    <3>1. TenantsSession(t)
      BY DEF TenantsInv
    <3>2. \A b \in Schools : tenant[b] # NoRow => tenant'[b] # NoRow
      BY <1>2, <1>3
    <3>3. ASSUME At(t, "school", "write") \/ At(t, "toggle", "write")
          PROVE  tenant'[cmd[t].school] # NoRow
      <4>1. cmd[t].school \in Schools
        BY <3>3, SchoolCalled DEF At
      <4>2. QED
        BY <3>1, <3>2, <3>3, <4>1 DEF TenantsSession
    <3>4. QED
      BY <2>1, <3>1, <3>3 DEF TenantsSession, Same, At
  <2>2. QED
    BY <2>1
<1>6. QED
  BY <1>2, <1>4, <1>5 DEF TenantsInv, TenantsTypeOK

\* The row a call leaves that has read copy and finds old.
Merged(old, copy, values, at) ==
    [f \in DOMAIN old |-> IF f = "hsAt" /\ at THEN TRUE
                          ELSE IF values[f] = copy[f] THEN old[f] ELSE values[f]]

\* What a switch leaves in the row, which may have been switched since it
\* was read.
LEMMA SwitchedRow ==
    ASSUME NEW old \in TenantRow, NEW copy \in TenantRow, NEW enable \in BOOLEAN, NEW row,
           old.hs <=> old.level = "higher_secondary",
           copy.hs <=> copy.level = "higher_secondary",
           NEW values, values = Toggled(copy, enable),
           row = Merged(old, copy, values, enable)
    PROVE  /\ row.hs <=> row.level = "higher_secondary"
           /\ row.hs => old.hs \/ enable
<1>1. CASE enable
  <2>1. /\ values.hs = TRUE /\ values.level = "higher_secondary"
    BY <1>1 DEF Toggled, TenantRow
  <2>2. /\ row.hs = IF TRUE = copy.hs THEN old.hs ELSE TRUE
        /\ row.level = IF "higher_secondary" = copy.level THEN old.level ELSE "higher_secondary"
    BY <2>1 DEF TenantRow, Merged
  <2>3. old.hs \in BOOLEAN /\ copy.hs \in BOOLEAN
    BY DEF TenantRow
  <2>4. QED
    BY <1>1, <2>2, <2>3
<1>2. CASE ~enable
  <2>1. /\ values.hs = FALSE
        /\ values.level = IF copy.level = "higher_secondary" THEN "secondary" ELSE copy.level
    BY <1>2 DEF Toggled, TenantRow
  <2>2. /\ row.hs = IF FALSE = copy.hs THEN old.hs ELSE FALSE
        /\ row.level = IF values.level = copy.level THEN old.level ELSE values.level
    BY <1>2, <2>1 DEF TenantRow, Merged
  <2>3. old.hs \in BOOLEAN /\ copy.hs \in BOOLEAN
    BY DEF TenantRow
  <2>4. QED
    BY <1>2, <2>1, <2>2, <2>3
<1>3. QED
  BY <1>1, <1>2

LEMMA TenantRowStays ==
    ASSUME NEW old \in TenantRow, NEW copy \in TenantRow, NEW enable \in BOOLEAN, NEW row, NEW values,
           values = Toggled(copy, enable) \/ values = [copy EXCEPT !.contact = "new"],
           NEW at \in BOOLEAN,
           row = Merged(old, copy, values, at)
    PROVE  row \in TenantRow
<1>1. values \in TenantRow
  <2>1. CASE values = Toggled(copy, enable)
    BY <2>1 DEF Toggled, TenantRow, Levels
  <2>2. CASE values = [copy EXCEPT !.contact = "new"]
    BY <2>2 DEF TenantRow
  <2>3. QED
    BY <2>1, <2>2
<1>2. QED
  BY <1>1 DEF TenantRow, Merged

LEMMA TenantsKeeps ==
    ASSUME DeskInv, TenantsInv, NEW s \in Sessions, TenantsNext(s)
    PROVE  /\ TenantsInv' /\ DeskInv' /\ menu' = menu /\ cmd[s].op \in TenantsOps
           /\ Left(s) \/ \E phase, view : Went(s, phase, view)
<1>t. /\ tenant \in [Schools -> TenantRow \cup {NoRow}] /\ LevelFollowsSwitch
      /\ \A t \in OnBoard : tenant[t] # NoRow
      /\ OnBoard \subseteq Schools /\ TenantsSession(s)
  BY TenantsAssumption DEF TenantsInv, TenantsTypeOK
<1>l. ASSUME Left(s)
      PROVE  \A t \in Sessions : Same(t) \/ TenantsSession(t)'
  BY <1>l DEF Left, Others, TenantsSession, At
<1>1. CASE CheckSchool(s)
  <2>1. cmd[s].op = "found" /\ pc[s] = "start" /\ tenant' = tenant
    BY <1>1 DEF CheckSchool, At
  <2>2. CASE Registered(cmd[s].school)
    <3>1. Left(s)
      BY <1>1, <2>2, FinishLeaves DEF CheckSchool
    <3>2. TenantsInv'
      BY <1>l, <2>1, <3>1, TenantsUnwritten
    <3>3. QED
      BY <2>1, <3>1, <3>2 DEF Left, TenantsOps
  <2>3. CASE ~Registered(cmd[s].school)
    <3>1. Went(s, "write", NoView)
      BY <1>1, <2>1, <2>3, GotoGoes DEF CheckSchool, DeskPhases
    <3>2. \A t \in Sessions : Same(t) \/ TenantsSession(t)'
      BY <2>1, <3>1 DEF Went, Others, TenantsSession, At
    <3>3. TenantsInv'
      BY <2>1, <3>2, TenantsUnwritten
    <3>4. QED
      BY <2>1, <3>1, <3>3 DEF Went, TenantsOps
  <2>4. QED
    BY <2>2, <2>3
<1>2. CASE CommitSchool(s)
  <2>1. Left(s) /\ cmd[s].op = "found" /\ pc[s] = "write"
    BY <1>2, FinishLeaves DEF CommitSchool, At
  <2>2. PICK c : c = cmd[s]
    OBVIOUS
  <2>3. c.school \in Schools /\ c.level \in Levels
    BY <2>1, <2>2, SchoolCalled
  <2>4. CASE Registered(c.school)
    <3>1. tenant' = tenant
      BY <1>2, <2>2, <2>4 DEF CommitSchool
    <3>2. TenantsInv'
      BY <1>l, <2>1, <3>1, TenantsUnwritten
    <3>3. QED
      BY <2>1, <3>2 DEF Left, TenantsOps
  <2>5. CASE ~Registered(c.school)
    <3>1. PICK row : row = NewTenant(c.level)
      OBVIOUS
    <3>2. row \in TenantRow
      BY <2>3, <3>1 DEF NewTenant, TenantRow
    <3>3. tenant' = [tenant EXCEPT ![c.school] = row]
      BY <1>2, <2>2, <2>5, <3>1 DEF CommitSchool
    <3>4. tenant[c.school] = NoRow
      BY <2>3, <2>5 DEF Registered
    <3>5. c.school \notin OnBoard
      BY <1>t, <3>4
    <3>6. TenantsInv'
      BY <1>l, <2>1, <2>3, <3>2, <3>3, <3>5, TenantWritten
    <3>7. QED
      BY <2>1, <3>6 DEF Left, TenantsOps
  <2>6. QED
    BY <2>4, <2>5
<1>3. CASE ReadSchool(s)
  <2>1. cmd[s].op \in {"school", "toggle", "subscription"} /\ pc[s] = "start" /\ tenant' = tenant
    BY <1>3 DEF ReadSchool, At
  <2>2. PICK c : c = cmd[s]
    OBVIOUS
  <2>3. CASE ~(tenant[c.school] # NoRow /\ (c.op = "toggle" => PlanOf[c.school] \in HsPlans))
    <3>1. Left(s)
      BY <1>3, <2>2, <2>3, FinishLeaves DEF ReadSchool
    <3>2. TenantsInv'
      BY <1>l, <2>1, <3>1, TenantsUnwritten
    <3>3. QED
      BY <2>1, <3>1, <3>2 DEF Left, TenantsOps
  <2>4. CASE /\ tenant[c.school] # NoRow /\ (c.op = "toggle" => PlanOf[c.school] \in HsPlans)
             /\ c.op = "subscription"
    <3>1. Went(s, "answer", tenant[c.school])
      BY <1>3, <2>1, <2>2, <2>4, GotoGoes DEF ReadSchool, DeskPhases
    <3>2. \A t \in Sessions : Same(t) \/ TenantsSession(t)'
      BY <3>1 DEF Went, Others, TenantsSession, At
    <3>3. TenantsInv'
      BY <2>1, <3>2, TenantsUnwritten
    <3>4. QED
      BY <2>1, <3>1, <3>3 DEF Went, TenantsOps
  <2>5. CASE /\ tenant[c.school] # NoRow /\ (c.op = "toggle" => PlanOf[c.school] \in HsPlans)
             /\ c.op # "subscription"
    <3>1. Went(s, "write", tenant[c.school])
      BY <1>3, <2>1, <2>2, <2>5, GotoGoes DEF ReadSchool, DeskPhases
    <3>2. c.school \in Schools
      BY <2>1, <2>2, <2>5, SchoolCalled
    <3>3. tenant[c.school] \in TenantRow
      BY <1>t, <2>5, <3>2
    <3>4. c.school \in OnBoard => (tenant[c.school].hs <=> tenant[c.school].level = "higher_secondary")
      BY <1>t DEF LevelFollowsSwitch
    <3>5. TenantsSession(s)'
      BY <2>1, <2>2, <2>5, <3>1, <3>3, <3>4 DEF Went, TenantsSession
    <3>6. \A t \in Sessions : Same(t) \/ TenantsSession(t)'
      BY <3>1, <3>5 DEF Went, Others
    <3>7. TenantsInv'
      BY <2>1, <3>6, TenantsUnwritten
    <3>8. QED
      BY <2>1, <3>1, <3>7 DEF Went, TenantsOps
  <2>6. QED
    BY <2>3, <2>4, <2>5
<1>4. CASE CommitSwitch(s)
  <2>1. Left(s) /\ cmd[s].op \in {"school", "toggle"} /\ pc[s] = "write"
    BY <1>4, FinishLeaves DEF CommitSwitch, At
  <2>2. PICK c, copy, old : c = cmd[s] /\ copy = seen[s] /\ old = tenant[c.school]
    OBVIOUS
  <2>3. c.school \in Schools /\ (c.op = "toggle" => c.enable \in BOOLEAN)
    BY <2>1, <2>2, SchoolCalled
  <2>4. /\ old # NoRow /\ copy \in TenantRow
        /\ c.op = "toggle" => PlanOf[c.school] \in HsPlans
        /\ c.school \in OnBoard => (copy.hs <=> copy.level = "higher_secondary")
    BY <1>t, <2>1, <2>2 DEF TenantsSession, At
  <2>5. old \in TenantRow
    BY <1>t, <2>2, <2>3, <2>4
  <2>6. c.school \in OnBoard => /\ old.hs <=> old.level = "higher_secondary"
                                /\ old.hs => PlanOf[c.school] \in HsPlans
    BY <1>t, <2>2 DEF LevelFollowsSwitch
  <2>7. CASE c.op = "toggle"
    <3>0. PICK enable \in BOOLEAN : enable = c.enable
      BY <2>3, <2>7
    <3>1. PICK values : values = Toggled(copy, enable)
      OBVIOUS
    <3>2. PICK row : row = Merged(old, copy, values, enable)
      OBVIOUS
    <3>3. tenant' = [tenant EXCEPT ![c.school] = row]
      BY <1>4, <2>2, <2>7, <3>0, <3>1, <3>2 DEF CommitSwitch, Merged
    <3>4. row \in TenantRow
      BY <2>4, <2>5, <3>1, <3>2, TenantRowStays
    <3>5. ASSUME c.school \in OnBoard
          PROVE  /\ row.hs <=> row.level = "higher_secondary"
                 /\ row.hs => old.hs \/ enable
      <4>1. /\ old.hs <=> old.level = "higher_secondary"
            /\ copy.hs <=> copy.level = "higher_secondary"
        BY <2>4, <2>6, <3>5
      <4>2. QED
        BY <2>4, <2>5, <3>1, <3>2, <4>1, SwitchedRow
    <3>6. TenantsInv'
      BY <1>l, <2>1, <2>3, <2>4, <2>6, <2>7, <3>3, <3>4, <3>5, TenantWritten
    <3>7. QED
      BY <2>1, <3>6 DEF Left, TenantsOps
  <2>8. CASE c.op # "toggle"
    <3>1. PICK values : values = [copy EXCEPT !.contact = "new"]
      OBVIOUS
    <3>2. PICK row : row = Merged(old, copy, values, FALSE)
      OBVIOUS
    <3>3. row = [f \in DOMAIN old |-> IF f = "hsAt" /\ c.op = "toggle" /\ c.enable THEN TRUE
                                ELSE IF values[f] = copy[f] THEN old[f] ELSE values[f]]
      BY <2>8, <3>2 DEF Merged
    <3>4. tenant' = [tenant EXCEPT ![c.school] = row]
      BY <1>4, <2>2, <2>8, <3>1, <3>3 DEF CommitSwitch
    <3>5. /\ values \in TenantRow /\ values.hs = copy.hs /\ values.level = copy.level
      BY <2>4, <3>1 DEF TenantRow
    <3>6. row \in TenantRow /\ row.hs = old.hs /\ row.level = old.level
      BY <2>4, <2>5, <3>2, <3>5 DEF TenantRow, Merged
    <3>7. TenantsInv'
      BY <1>l, <2>1, <2>3, <2>6, <3>4, <3>6, TenantWritten
    <3>8. QED
      BY <2>1, <3>7 DEF Left, TenantsOps
  <2>9. QED
    BY <2>7, <2>8
<1>5. CASE AnswerSchool(s)
  <2>1. Left(s) /\ cmd[s].op = "subscription" /\ tenant' = tenant
    BY <1>5, FinishLeaves DEF AnswerSchool, At
  <2>2. TenantsInv'
    BY <1>l, <2>1, TenantsUnwritten
  <2>3. QED
    BY <2>1, <2>2 DEF Left, TenantsOps
<1>6. QED
  BY <1>1, <1>2, <1>3, <1>4, <1>5 DEF TenantsNext

LEMMA TenantsStarts ==
    ASSUME DeskInit, TenantsInit
    PROVE  TenantsInv
<1>1. NewTenant("secondary") \in TenantRow
  BY DEF NewTenant, TenantRow, Levels
<1>2. NewTenant("secondary") # NoRow
  BY <1>1, TenantIsRow
<1>3. /\ ~NewTenant("secondary").hs /\ NewTenant("secondary").level # "higher_secondary"
  BY DEF NewTenant
<1>4. tenant \in [Schools -> TenantRow \cup {NoRow}]
  BY <1>1 DEF TenantsInit
<1>5. \A t \in OnBoard : tenant[t] = NewTenant("secondary")
  BY TenantsAssumption DEF TenantsInit
<1>6. \A t \in Sessions : TenantsSession(t)
  BY DEF DeskInit, TenantsSession, At
<1>7. QED
  BY <1>2, <1>3, <1>4, <1>5, <1>6 DEF TenantsInv, TenantsTypeOK, LevelFollowsSwitch

-----------------------------------------------------------------------------
(* Attendance. *)

AttendanceOps == {"mark", "fix", "register", "month", "history"}

Apart == \A s, t \in Sessions : s # t => Written(s) \cap Written(t) = {}

LEMMA RecordIsRow ==
    ASSUME NEW row \in AttendanceRow
    PROVE  row # NoRow
  BY RollAssumption

\* An entry of a sheet has a key of its own, and the row it leaves.
LEMMA KeyPlace ==
    ASSUME NEW c \in MarkRequest, NEW i \in DOMAIN c.sheet
    PROVE  /\ KeyOf(c, i) \in RecordKeys /\ KeyOf(c, i)[2] = c.period
           /\ MarkedRow(KeyOf(c, i), c, i) \in AttendanceRow
           /\ \A j \in DOMAIN c.sheet : KeyOf(c, i) = KeyOf(c, j) => i = j
<1>1. /\ c.class \in Classes /\ c.period \in Periods /\ c.by \in Teachers
      /\ c.sheet \in Seq([pupil: Pupils, status: AttendanceStatus])
      /\ \A j \in DOMAIN c.sheet : c.sheet[i].pupil = c.sheet[j].pupil => i = j
  BY DEF MarkRequest
<1>2. c.sheet[i] \in [pupil: Pupils, status: AttendanceStatus]
  <2>1. PICK e, Entry : e = c.sheet /\ Entry = [pupil: Pupils, status: AttendanceStatus]
    OBVIOUS
  <2>2. e \in Seq(Entry) /\ i \in DOMAIN e
    BY <1>1, <2>1
  <2>3. e[i] \in Entry
    BY <2>2
  <2>4. QED
    BY <2>1, <2>3
<1>3. c.sheet[i].pupil \in Pupils /\ c.sheet[i].status \in AttendanceStatus
  BY <1>2
<1>4. QED
  BY <1>1, <1>3 DEF KeyOf, RecordKeys, MarkedRow, AttendanceRow

LEMMA SheetCalled ==
    ASSUME DeskInv, NEW s \in Sessions, pc[s] # "idle", cmd[s].op = "mark"
    PROVE  cmd[s] \in MarkRequest
  BY CallFits DEF CommandFits

LEMMA FixCalled ==
    ASSUME DeskInv, NEW s \in Sessions, pc[s] # "idle", cmd[s].op = "fix"
    PROVE  cmd[s].record \in RecordKeys /\ cmd[s].status \in AttendanceStatus
           /\ cmd[s].by \in Teachers
  BY CallFits DEF CommandFits, FixRequest

\* What a session that saves a sheet has written so far.
LEMMA SheetRows ==
    ASSUME DeskInv, NEW s \in Sessions, pc[s] # "idle", cmd[s].op = "mark", SheetTaken(s),
           NEW k \in DOMAIN seen[s].rows
    PROVE  /\ k \in RecordKeys /\ k[2] = cmd[s].period
           /\ seen[s].rows[k] \in AttendanceRow
           /\ seen[s].rows[k].by = cmd[s].by /\ seen[s].rows[k].class = cmd[s].class
<1>1. PICK c : c = cmd[s] /\ c \in MarkRequest
  BY SheetCalled
<1>2. PICK n : n = Cardinality(DOMAIN seen[s].rows)
  OBVIOUS
<1>3. /\ n \in Nat /\ n <= Len(c.sheet)
      /\ DOMAIN seen[s].rows = {KeyOf(c, i) : i \in 1 .. n}
      /\ \A i \in 1 .. n : seen[s].rows[KeyOf(c, i)] = MarkedRow(KeyOf(c, i), c, i)
  BY <1>1, <1>2, FS_CardinalityType DEF SheetTaken
<1>4. PICK i \in 1 .. n : k = KeyOf(c, i)
  BY <1>3
<1>5. i \in DOMAIN c.sheet
  BY <1>1, <1>3 DEF MarkRequest
<1>6. seen[s].rows[k] = MarkedRow(k, c, i)
  BY <1>3, <1>4
<1>7. QED
  BY <1>1, <1>4, <1>5, <1>6, KeyPlace DEF MarkedRow

LEMMA AttendanceUnwritten ==
    ASSUME AttendanceInv, roll' = roll, menu' = menu, Apart',
           \A t \in Sessions : Same(t) \/ AttendanceSession(t)'
    PROVE  AttendanceInv'
<1>1. AttendanceTypeOK' /\ OneSheetPerRoll'
  BY DEF AttendanceInv, AttendanceTypeOK, OneSheetPerRoll
<1>2. ASSUME NEW t \in Sessions, Same(t)
      PROVE  AttendanceSession(t)'
  <2>1. AttendanceSession(t)
    BY DEF AttendanceInv
  <2>2. SheetTaken(t) => SheetTaken(t)'
    BY <1>2 DEF Same, SheetTaken, MarkedRow, KeyOf
  <2>3. RecordCorrected(t) => RecordCorrected(t)'
    BY <1>2 DEF Same, RecordCorrected
  <2>4. QED
    BY <1>2, <2>1, <2>2, <2>3 DEF Same, AttendanceSession, At
<1>3. QED
  BY <1>1, <1>2 DEF AttendanceInv, Apart

LEMMA AttendanceStays ==
    ASSUME AttendanceInv, roll' = roll, menu' = menu, Quiet(AttendanceOps)
    PROVE  AttendanceInv'
<1>1. ASSUME NEW t \in Sessions
      PROVE  /\ Same(t) \/ AttendanceSession(t)'
             /\ Written(t)' \subseteq Written(t)
  BY DEF Quiet, Same, AttendanceOps, AttendanceSession, At, Written
<1>2. Apart'
  BY <1>1 DEF AttendanceInv, Apart
<1>3. QED
  BY <1>1, <1>2, AttendanceUnwritten

\* A step of one session that writes only rows no other session has written.
LEMMA StillApart ==
    ASSUME AttendanceInv, NEW s \in Sessions, Others(s), NEW K, \A k \in K : Free(s, k),
           Written(s)' \subseteq Written(s) \cup K
    PROVE  Apart'
<1>1. \A t \in Sessions \ {s} : Written(t)' = Written(t)
  BY DEF Others, Same, Written
<1>2. \A t \in Sessions \ {s} : K \cap Written(t) = {}
  BY DEF Free
<1>3. \A t, u \in Sessions : t # u => Written(t) \cap Written(u) = {}
  BY DEF AttendanceInv
<1>4. ASSUME NEW t \in Sessions, NEW u \in Sessions, t # u
      PROVE  Written(t)' \cap Written(u)' = {}
  <2>1. CASE t = s
    BY <1>1, <1>2, <1>3, <1>4, <2>1
  <2>2. CASE u = s
    BY <1>1, <1>2, <1>3, <1>4, <2>2
  <2>3. CASE t # s /\ u # s
    BY <1>1, <1>3, <1>4, <2>3
  <2>4. QED
    BY <2>1, <2>2, <2>3
<1>5. QED
  BY <1>4 DEF Apart

\* The rows a session commits.
LEMMA CommittedRows ==
    ASSUME DeskInv, AttendanceInv, NEW s \in Sessions, pc[s] = "commit", cmd[s].op \in {"mark", "fix"}
    PROVE  /\ Written(s) = DOMAIN seen[s].rows
           /\ \A k \in DOMAIN seen[s].rows : k \in RecordKeys /\ seen[s].rows[k] \in AttendanceRow
<1>1. AttendanceSession(s)
  BY DEF AttendanceInv
<1>2. CASE cmd[s].op = "mark"
  BY <1>1, <1>2, SheetRows DEF Written, AttendanceSession, At
<1>3. CASE cmd[s].op = "fix"
  BY <1>1, <1>3, FixCalled DEF Written, AttendanceSession, RecordCorrected, At
<1>4. QED
  BY <1>2, <1>3

\* A commit leaves no two pupils of two sheets one as each sheet says.
LEMMA SheetsStayWhole ==
    ASSUME DeskInv, AttendanceInv, menu' = menu, NEW s \in Sessions,
           pc[s] = "commit", cmd[s].op \in {"mark", "fix"}, roll' = Own(s)
    PROVE  OneSheetPerRoll'
<1> DEFINE Marks == {e \in menu : e.op = "mark"}
<1>1. PICK e, rows, old : e = cmd[s] /\ rows = seen[s].rows /\ old = roll
  OBVIOUS
<1>2. e \in menu
  BY <1>1, CallFits
<1>3. \A k \in DOMAIN rows : k \in RecordKeys /\ rows[k] \in AttendanceRow
  BY <1>1, CommittedRows
<1>4. roll' = [k \in RecordKeys |-> IF k \in DOMAIN rows THEN rows[k] ELSE old[k]]
  BY <1>1 DEF Own
<1>s. AttendanceSession(s)
  BY DEF AttendanceInv
<1>5. SUFFICES ASSUME NEW c \in Marks, NEW d \in Marks, c.period = d.period, c.by # d.by,
                      \A f \in menu : f.op \in {"mark", "fix"} /\ f.by \in {c.by, d.by}
                                          => f \in {c, d},
                      NEW x \in SheetPupils(c) \cap SheetPupils(d),
                      NEW y \in SheetPupils(c) \cap SheetPupils(d),
                      roll'[<<x, c.period>>] # NoRow, roll'[<<y, c.period>>] # NoRow,
                      roll'[<<x, c.period>>].by = c.by, roll'[<<y, c.period>>].by = d.by
               PROVE  FALSE
  BY DEF OneSheetPerRoll
<1>6. PICK kx, ky : kx = <<x, c.period>> /\ ky = <<y, c.period>>
  OBVIOUS
<1>7. /\ c \in MarkRequest /\ d \in MarkRequest
      /\ \A z \in SheetPupils(c) : <<z, c.period>> \in RecordKeys
  <2>1. \A f \in Marks : f \in MarkRequest
    <3>1. \A f \in Marks : f \in OfficeRequest
      BY OfficeMenusAssumption DEF DeskInv, DeskTypeOK
    <3>2. QED
      BY <3>1, RequestFits DEF CommandFits
  <2>2. ASSUME NEW z \in SheetPupils(c) PROVE <<z, c.period>> \in RecordKeys
    <3>1. PICK i \in DOMAIN c.sheet : z = c.sheet[i].pupil
      BY DEF SheetPupils
    <3>2. KeyOf(c, i) \in RecordKeys
      BY <2>1, KeyPlace
    <3>3. QED
      BY <3>1, <3>2 DEF KeyOf
  <2>3. QED
    BY <2>1, <2>2
<1>8. kx \in RecordKeys /\ ky \in RecordKeys
  BY <1>6, <1>7
<1>9. ~(/\ old[kx] # NoRow /\ old[ky] # NoRow
        /\ old[kx].by = c.by /\ old[ky].by = d.by)
  <2>1. OneSheetPerRoll
    BY DEF AttendanceInv
  <2>2. QED
    BY <1>1, <1>5, <1>6, <2>1 DEF OneSheetPerRoll
<1>10. CASE e.op = "mark" /\ e \in {c, d}
  <2>1. SheetTaken(s) /\ e \in MarkRequest
    BY <1>1, <1>7, <1>10, <1>s DEF AttendanceSession, At
  <2>2. \A k \in DOMAIN rows : rows[k].by = e.by
    BY <1>1, <1>10, <2>1, SheetRows
  <2>3. DOMAIN rows = {KeyOf(e, i) : i \in 1 .. Len(e.sheet)}
    BY <1>1, <2>1 DEF SheetTaken
  <2>4. \A z \in SheetPupils(e) : <<z, e.period>> \in DOMAIN rows
    <3>1. DOMAIN e.sheet = 1 .. Len(e.sheet)
      BY <2>1 DEF MarkRequest
    <3>2. QED
      BY <2>3, <3>1 DEF SheetPupils, KeyOf
  <2>5. kx \in DOMAIN rows /\ ky \in DOMAIN rows
    BY <1>5, <1>6, <1>10, <2>4
  <2>6. roll'[kx].by = e.by /\ roll'[ky].by = e.by
    BY <1>4, <1>8, <2>2, <2>5
  <2>7. QED
    BY <1>5, <1>6, <2>6
<1>11. CASE e.op = "mark" /\ e \notin {c, d}
  <2>1. e.by \notin {c.by, d.by}
    BY <1>2, <1>5, <1>11
  <2>2. \A k \in DOMAIN rows : rows[k].by = e.by
    BY <1>1, <1>11, <1>s, SheetRows DEF AttendanceSession, At
  <2>3. kx \notin DOMAIN rows /\ ky \notin DOMAIN rows
    BY <1>4, <1>5, <1>6, <1>8, <2>1, <2>2
  <2>4. roll'[kx] = old[kx] /\ roll'[ky] = old[ky]
    BY <1>4, <1>8, <2>3
  <2>5. QED
    BY <1>5, <1>6, <1>9, <2>4
<1>12. CASE e.op = "fix"
  <2>1. e.by \notin {c.by, d.by}
    BY <1>2, <1>5, <1>12
  <2>2. /\ DOMAIN rows = {e.record} /\ old[e.record] # NoRow
        /\ rows[e.record].by \in {e.by, old[e.record].by}
    BY <1>1, <1>12, <1>s DEF AttendanceSession, RecordCorrected, At
  <2>3. ASSUME NEW k \in RecordKeys, roll'[k] # NoRow, roll'[k].by \in {c.by, d.by}
        PROVE  old[k] # NoRow /\ old[k].by = roll'[k].by
    BY <1>4, <2>1, <2>2, <2>3
  <2>4. QED
    BY <1>5, <1>6, <1>8, <1>9, <2>3
<1>13. QED
  BY <1>1, <1>10, <1>11, <1>12

LEMMA RollCommitted ==
    ASSUME DeskInv, AttendanceInv, NEW s \in Sessions,
           pc[s] = "commit", cmd[s].op \in {"mark", "fix"}, roll' = Own(s), Left(s)
    PROVE  AttendanceInv'
<1>1. PICK rows : rows = seen[s].rows
  OBVIOUS
<1>2. \A k \in DOMAIN rows : k \in RecordKeys /\ rows[k] \in AttendanceRow
  BY <1>1, CommittedRows
<1>3. roll \in [RecordKeys -> AttendanceRow \cup {NoRow}]
  BY DEF AttendanceInv, AttendanceTypeOK
<1>4. /\ roll' \in [RecordKeys -> AttendanceRow \cup {NoRow}]
      /\ \A k \in RecordKeys : k \notin DOMAIN rows => roll'[k] = roll[k]
      /\ \A k \in RecordKeys : roll[k] # NoRow => roll'[k] # NoRow
  BY <1>1, <1>2, <1>3, RecordIsRow DEF Own
<1>5. OneSheetPerRoll'
  BY SheetsStayWhole DEF Left
<1>6. Written(s)' = {}
  BY DEF Left, Written
<1>7. Apart'
  BY <1>6, StillApart DEF Left
<1>8. ASSUME NEW t \in Sessions
      PROVE  AttendanceSession(t)'
  <2>1. CASE t = s
    BY <2>1 DEF Left, AttendanceSession, At
  <2>2. CASE t # s
    <3>1. Same(t) /\ AttendanceSession(t)
      BY <2>2 DEF Left, Others, AttendanceInv
    <3>2. SheetTaken(t) => SheetTaken(t)'
      BY <3>1 DEF Same, SheetTaken, MarkedRow, KeyOf
    <3>3. At(t, "fix", "write") => roll'[cmd[t].record] # NoRow
      BY <1>4, <3>1, FixCalled DEF AttendanceSession, At
    <3>4. ASSUME At(t, "fix", "commit")
          PROVE  RecordCorrected(t)'
      <4>1. RecordCorrected(t) /\ cmd[t].record \in RecordKeys
        BY <3>1, <3>4, FixCalled DEF AttendanceSession, At
      <4>2. cmd[t].record \in Written(t)
        BY <3>4, <4>1 DEF Written, At, RecordCorrected
      <4>3. cmd[t].record \notin DOMAIN rows
        BY <1>1, <2>2, <4>2, CommittedRows DEF AttendanceInv
      <4>4. roll'[cmd[t].record] = roll[cmd[t].record]
        BY <1>4, <4>1, <4>3
      <4>5. QED
        BY <3>1, <4>1, <4>4 DEF Same, RecordCorrected
    <3>5. QED
      BY <3>1, <3>2, <3>3, <3>4 DEF Same, AttendanceSession, At
  <2>3. QED
    BY <2>1, <2>2
<1>9. QED
  BY <1>4, <1>5, <1>7, <1>8 DEF AttendanceInv, AttendanceTypeOK, Apart

\* The next entry of a sheet is taken.
LEMMA EntryTaken ==
    ASSUME DeskInv, AttendanceInv, NEW s \in Sessions, UpsertEntry(s)
    PROVE  AttendanceInv' /\ \E view : Went(s, "list", view)
<1>0. pc[s] = "list" /\ cmd[s].op = "mark" /\ SheetTaken(s) /\ roll' = roll
  BY DEF UpsertEntry, At, AttendanceInv, AttendanceSession
<1>1. PICK c, old, n : c = cmd[s] /\ old = seen[s] /\ n = Cardinality(DOMAIN old.rows)
  OBVIOUS
<1>2. c \in MarkRequest
  BY <1>0, <1>1, SheetCalled
<1>3. PICK i, k : i = n + 1 /\ k = KeyOf(c, i)
  OBVIOUS
<1>4. PICK rows : rows = [q \in DOMAIN old.rows \cup {k} |->
                            IF q = k THEN MarkedRow(k, c, i) ELSE old.rows[q]]
  OBVIOUS
<1>5. PICK view : view = [old EXCEPT !.rows = rows]
  OBVIOUS
<1>6. i \in DOMAIN c.sheet /\ Free(s, k) /\ Goto(s, "list", view)
  BY <1>1, <1>3, <1>4, <1>5 DEF UpsertEntry, KeyOf
<1>7. Went(s, "list", view)
  BY <1>0, <1>6, GotoGoes DEF DeskPhases
<1>8. /\ DOMAIN old = {"rows", "answer"}
      /\ IsFiniteSet(DOMAIN old.rows) /\ n \in Nat
      /\ DOMAIN old.rows = {KeyOf(c, j) : j \in 1 .. n}
      /\ \A j \in 1 .. n : old.rows[KeyOf(c, j)] = MarkedRow(KeyOf(c, j), c, j)
  BY <1>0, <1>1, FS_CardinalityType DEF SheetTaken
<1>9. Len(c.sheet) \in Nat /\ DOMAIN c.sheet = 1 .. Len(c.sheet) /\ i \in 1 .. Len(c.sheet)
  BY <1>2, <1>6 DEF MarkRequest
<1>10. \A j \in 1 .. n : KeyOf(c, j) # k
  <2>1. \A j \in 1 .. n : j \in DOMAIN c.sheet /\ j # i
    BY <1>3, <1>8, <1>9
  <2>2. QED
    BY <1>2, <1>3, <1>6, <2>1, KeyPlace
<1>11. k \notin DOMAIN old.rows
  BY <1>8, <1>10
<1>12. view.rows = rows /\ DOMAIN view = {"rows", "answer"}
  BY <1>5, <1>8
<1>13. /\ DOMAIN rows = DOMAIN old.rows \cup {k} /\ IsFiniteSet(DOMAIN rows)
       /\ Cardinality(DOMAIN rows) = i
  BY <1>1, <1>3, <1>4, <1>8, <1>11, FS_AddElement
<1>14. 1 .. i = (1 .. n) \cup {i}
  BY <1>3, <1>8
<1>15. DOMAIN rows = {KeyOf(c, j) : j \in 1 .. i}
  BY <1>3, <1>8, <1>13, <1>14
<1>16. ASSUME NEW j \in 1 .. i
       PROVE  rows[KeyOf(c, j)] = MarkedRow(KeyOf(c, j), c, j)
  <2>1. CASE j = i
    BY <1>3, <1>4, <2>1
  <2>2. CASE j # i
    <3>1. j \in 1 .. n
      BY <1>14, <2>2
    <3>2. KeyOf(c, j) # k /\ KeyOf(c, j) \in DOMAIN old.rows
      BY <1>8, <1>10, <3>1
    <3>3. QED
      BY <1>4, <1>8, <3>1, <3>2
  <2>3. QED
    BY <2>1, <2>2
<1>17. SheetTaken(s)'
  <2>1. cmd'[s] = c /\ seen'[s] = view /\ pc'[s] = "list"
    BY <1>1, <1>7 DEF Went
  <2>2. \A j \in 1 .. i : /\ KeyOf(c, j)' = KeyOf(c, j)
                          /\ MarkedRow(KeyOf(c, j), c, j)' = MarkedRow(KeyOf(c, j), c, j)
    BY DEF KeyOf, MarkedRow
  <2>3. i <= Len(c.sheet)
    BY <1>9
  <2>4. QED
    BY <1>12, <1>13, <1>15, <1>16, <2>1, <2>2, <2>3 DEF SheetTaken, KeyOf, MarkedRow
<1>18. AttendanceSession(s)'
  BY <1>0, <1>7, <1>17 DEF Went, AttendanceSession, At
<1>19. Written(s)' \subseteq Written(s) \cup {k}
  BY <1>0, <1>1, <1>7, <1>12, <1>13 DEF Went, Written
<1>20. Apart'
  <2>1. PICK K : K = {k}
    OBVIOUS
  <2>2. (\A q \in K : Free(s, q)) /\ Written(s)' \subseteq Written(s) \cup K /\ Others(s)
    BY <1>6, <1>7, <1>19, <2>1 DEF Went
  <2>3. QED
    BY <2>2, StillApart
<1>21. \A t \in Sessions : Same(t) \/ AttendanceSession(t)'
  BY <1>7, <1>18 DEF Went, Others
<1>22. QED
  BY <1>0, <1>7, <1>20, <1>21, AttendanceUnwritten DEF Went

\* The whole sheet is taken, and the register read.
LEMMA RegisterListed ==
    ASSUME DeskInv, AttendanceInv, NEW s \in Sessions, ListRegister(s)
    PROVE  AttendanceInv' /\ \E view : Went(s, "commit", view)
<1>0. pc[s] = "list" /\ cmd[s].op = "mark" /\ SheetTaken(s) /\ roll' = roll
  BY DEF ListRegister, At, AttendanceInv, AttendanceSession
<1>1. PICK c, old : c = cmd[s] /\ old = seen[s]
  OBVIOUS
<1>2. c \in MarkRequest
  BY <1>0, <1>1, SheetCalled
<1>3. PICK view : view = [old EXCEPT !.answer = Register(Own(s), c)]
  OBVIOUS
<1>4. Went(s, "commit", view)
  <2>1. Goto(s, "commit", view)
    BY <1>1, <1>3 DEF ListRegister
  <2>2. QED
    BY <1>0, <2>1, GotoGoes DEF DeskPhases
<1>5. /\ DOMAIN old = {"rows", "answer"}
      /\ Cardinality(DOMAIN old.rows) = Len(c.sheet)
  BY <1>0, <1>1 DEF SheetTaken, ListRegister
<1>6. /\ view.rows = old.rows /\ DOMAIN view = {"rows", "answer"}
      /\ view.answer = Register(Own(s), c)
  BY <1>3, <1>5
<1>7. ASSUME NEW k \in DOMAIN old.rows
      PROVE  k \in view.answer
  <2>1. /\ k \in RecordKeys /\ k[2] = c.period /\ old.rows[k] \in AttendanceRow
        /\ old.rows[k].class = c.class
    BY <1>0, <1>1, <1>7, SheetRows
  <2>2. Own(s)[k] = old.rows[k]
    BY <1>1, <1>7, <2>1 DEF Own
  <2>3. QED
    BY <1>6, <2>1, <2>2, RecordIsRow DEF Register
<1>8. SheetTaken(s)'
  <2>1. cmd'[s] = c /\ seen'[s] = view /\ pc'[s] = "commit"
    BY <1>1, <1>4 DEF Went
  <2>2. PICK rows : rows = old.rows
    OBVIOUS
  <2>3. /\ IsFiniteSet(DOMAIN rows) /\ Cardinality(DOMAIN rows) = Len(c.sheet)
        /\ DOMAIN rows = {KeyOf(c, i) : i \in 1 .. Len(c.sheet)}
        /\ \A i \in 1 .. Len(c.sheet) : rows[KeyOf(c, i)] = MarkedRow(KeyOf(c, i), c, i)
    BY <1>0, <1>1, <1>5, <2>2 DEF SheetTaken
  <2>4. /\ DOMAIN view = {"rows", "answer"} /\ view.rows = rows
        /\ DOMAIN rows \subseteq view.answer
    BY <1>6, <1>7, <2>2
  <2>5. Len(c.sheet) <= Len(c.sheet)
    BY <1>2 DEF MarkRequest
  <2>6. QED
    BY <2>1, <2>3, <2>4, <2>5 DEF SheetTaken, KeyOf, MarkedRow
<1>9. AttendanceSession(s)'
  BY <1>0, <1>4, <1>8 DEF Went, AttendanceSession, At
<1>10. Written(s)' \subseteq Written(s) \cup {}
  BY <1>0, <1>1, <1>4, <1>6 DEF Went, Written
<1>11. Apart'
  <2>1. PICK K : K = {}
    OBVIOUS
  <2>2. (\A q \in K : Free(s, q)) /\ Written(s)' \subseteq Written(s) \cup K /\ Others(s)
    BY <1>4, <1>10, <2>1 DEF Went
  <2>3. QED
    BY <2>2, StillApart
<1>12. \A t \in Sessions : Same(t) \/ AttendanceSession(t)'
  BY <1>4, <1>9 DEF Went, Others
<1>13. QED
  BY <1>0, <1>4, <1>11, <1>12, AttendanceUnwritten DEF Went

\* A single record is corrected.
LEMMA RecordTaken ==
    ASSUME DeskInv, AttendanceInv, NEW s \in Sessions, WriteRecord(s),
           ~(seen[s].status = cmd[s].status /\ seen[s].by = cmd[s].by)
    PROVE  AttendanceInv' /\ \E view : Went(s, "commit", view)
<1>0. pc[s] = "write" /\ cmd[s].op = "fix" /\ roll[cmd[s].record] # NoRow /\ roll' = roll
  BY DEF WriteRecord, At, AttendanceInv, AttendanceSession
<1>1. PICK c, k, old : c = cmd[s] /\ k = c.record /\ old = roll[k]
  OBVIOUS
<1>2. k \in RecordKeys /\ c.status \in AttendanceStatus /\ c.by \in Teachers
  BY <1>0, <1>1, FixCalled
<1>3. old \in AttendanceRow
  BY <1>0, <1>1, <1>2 DEF AttendanceInv, AttendanceTypeOK
<1>4. PICK now : now = [old EXCEPT
                          !.status = IF seen[s].status = c.status THEN old.status ELSE c.status,
                          !.by = IF seen[s].by = c.by THEN old.by ELSE c.by]
  OBVIOUS
<1>5. PICK view : view = [rows |-> [q \in {k} |-> now], answer |-> {k}]
  OBVIOUS
<1>6. Free(s, k) /\ Goto(s, "commit", view)
  BY <1>1, <1>4, <1>5 DEF WriteRecord
<1>7. Went(s, "commit", view)
  BY <1>0, <1>6, GotoGoes DEF DeskPhases
<1>8. now \in AttendanceRow /\ now.by \in {c.by, old.by}
  BY <1>2, <1>3, <1>4 DEF AttendanceRow
<1>9. RecordCorrected(s)'
  <2>1. cmd'[s] = c /\ seen'[s] = view
    BY <1>1, <1>7 DEF Went
  <2>2. DOMAIN view.rows = {k} /\ view.rows[k] = now
    BY <1>5
  <2>3. QED
    BY <1>0, <1>1, <1>8, <2>1, <2>2 DEF RecordCorrected
<1>10. AttendanceSession(s)'
  BY <1>0, <1>7, <1>9 DEF Went, AttendanceSession, At
<1>11. Written(s)' \subseteq Written(s) \cup {k}
  BY <1>5, <1>7 DEF Went, Written
<1>12. Apart'
  <2>1. PICK K : K = {k}
    OBVIOUS
  <2>2. (\A q \in K : Free(s, q)) /\ Written(s)' \subseteq Written(s) \cup K /\ Others(s)
    BY <1>6, <1>7, <1>11, <2>1 DEF Went
  <2>3. QED
    BY <2>2, StillApart
<1>13. \A t \in Sessions : Same(t) \/ AttendanceSession(t)'
  BY <1>7, <1>10 DEF Went, Others
<1>14. QED
  BY <1>0, <1>7, <1>12, <1>13, AttendanceUnwritten DEF Went

LEMMA AttendanceKeeps ==
    ASSUME DeskInv, AttendanceInv, NEW s \in Sessions, AttendanceNext(s)
    PROVE  /\ AttendanceInv' /\ DeskInv' /\ menu' = menu /\ cmd[s].op \in AttendanceOps
           /\ Left(s) \/ \E phase, view : Went(s, phase, view)
<1>t. AttendanceSession(s)
  BY DEF AttendanceInv
\* A step that writes nothing, and after which the session holds no rows.
<1>n. ASSUME roll' = roll, AttendanceSession(s)', Written(s)' = {},
             Left(s) \/ \E phase, view : Went(s, phase, view)
      PROVE  AttendanceInv' /\ DeskInv' /\ menu' = menu
  <2>1. Others(s) /\ DeskInv' /\ menu' = menu
    BY <1>n DEF Left, Went
  <2>2. Apart'
    BY <1>n, <2>1, StillApart
  <2>3. \A t \in Sessions : Same(t) \/ AttendanceSession(t)'
    BY <1>n, <2>1 DEF Others
  <2>4. QED
    BY <1>n, <2>1, <2>2, <2>3, AttendanceUnwritten
<1>l. ASSUME Left(s)
      PROVE  AttendanceSession(s)' /\ Written(s)' = {}
  BY <1>l DEF Left, AttendanceSession, Written, At
<1>a. ASSUME NEW view, Went(s, "answer", view)
      PROVE  AttendanceSession(s)' /\ Written(s)' = {}
  BY <1>a DEF Went, AttendanceSession, Written, At
<1>1. CASE StartMark(s)
  <2>1. pc[s] = "start" /\ cmd[s].op = "mark" /\ roll' = roll
    BY <1>1 DEF StartMark, At
  <2>2. PICK view : view = [rows |-> <<>>, answer |-> {}]
    OBVIOUS
  <2>3. Went(s, "list", view)
    BY <1>1, <2>1, <2>2, GotoGoes DEF StartMark, DeskPhases
  <2>4. DOMAIN view = {"rows", "answer"} /\ DOMAIN view.rows = {}
    BY <2>2
  <2>5. PICK c : c = cmd[s] /\ c \in MarkRequest
    BY <2>1, SheetCalled
  <2>6. Len(c.sheet) \in Nat
    BY <2>5 DEF MarkRequest
  <2>7. PICK n \in Nat : n = 0
    OBVIOUS
  <2>8. SheetTaken(s)'
    <3>1. cmd'[s] = c /\ seen'[s] = view /\ pc'[s] = "list"
      BY <2>3, <2>5 DEF Went
    <3>2. PICK D : D = DOMAIN view.rows
      OBVIOUS
    <3>3. IsFiniteSet(D) /\ Cardinality(D) = n /\ n <= Len(c.sheet)
      BY <2>4, <2>6, <2>7, <3>2, FS_EmptySet
    <3>4. 1 .. n = {}
      BY <2>7
    <3>5. D = {KeyOf(c, i) : i \in 1 .. n}
      BY <2>4, <3>2, <3>4
    <3>6. QED
      BY <2>4, <3>1, <3>2, <3>3, <3>4, <3>5 DEF SheetTaken, KeyOf
  <2>9. AttendanceSession(s)' /\ Written(s)' = {}
    BY <2>1, <2>3, <2>4, <2>8 DEF Went, AttendanceSession, Written, At
  <2>10. QED
    BY <1>n, <2>1, <2>3, <2>9 DEF AttendanceOps
<1>2. CASE UpsertEntry(s)
  <2>1. cmd[s].op = "mark"
    BY <1>2 DEF UpsertEntry, At
  <2>2. QED
    BY <1>2, <2>1, EntryTaken DEF Went, AttendanceOps
<1>3. CASE ListRegister(s)
  <2>1. cmd[s].op = "mark"
    BY <1>3 DEF ListRegister, At
  <2>2. QED
    BY <1>3, <2>1, RegisterListed DEF Went, AttendanceOps
<1>4. CASE ReadRecord(s)
  <2>1. pc[s] = "start" /\ cmd[s].op = "fix" /\ roll' = roll
    BY <1>4 DEF ReadRecord, At
  <2>2. CASE roll[cmd[s].record] = NoRow
    <3>1. Left(s)
      BY <1>4, <2>2, FinishLeaves DEF ReadRecord
    <3>2. QED
      BY <1>l, <1>n, <2>1, <3>1 DEF AttendanceOps
  <2>3. CASE roll[cmd[s].record] # NoRow
    <3>1. Went(s, "write", roll[cmd[s].record])
      BY <1>4, <2>1, <2>3, GotoGoes DEF ReadRecord, DeskPhases
    <3>2. AttendanceSession(s)' /\ Written(s)' = {}
      BY <2>1, <2>3, <3>1 DEF Went, AttendanceSession, Written, At
    <3>3. QED
      BY <1>n, <2>1, <3>1, <3>2 DEF AttendanceOps
  <2>4. QED
    BY <2>2, <2>3
<1>5. CASE WriteRecord(s)
  <2>1. pc[s] = "write" /\ cmd[s].op = "fix" /\ roll' = roll
    BY <1>5 DEF WriteRecord, At
  <2>2. CASE seen[s].status = cmd[s].status /\ seen[s].by = cmd[s].by
    <3>1. Left(s)
      BY <1>5, <2>2, FinishLeaves DEF WriteRecord
    <3>2. QED
      BY <1>l, <1>n, <2>1, <3>1 DEF AttendanceOps
  <2>3. CASE ~(seen[s].status = cmd[s].status /\ seen[s].by = cmd[s].by)
    BY <1>5, <2>1, <2>3, RecordTaken DEF Went, AttendanceOps
  <2>4. QED
    BY <2>2, <2>3
<1>6. CASE CommitRecords(s)
  <2>1. pc[s] = "commit" /\ cmd[s].op \in {"mark", "fix"} /\ roll' = Own(s) /\ Left(s)
    BY <1>6, FinishLeaves DEF CommitRecords, At
  <2>2. AttendanceInv'
    BY <2>1, RollCommitted
  <2>3. QED
    BY <2>1, <2>2 DEF Left, AttendanceOps
<1>7. CASE ReadRegister(s) \/ CountMonth(s) \/ ReadHistory(s)
  <2>1. PICK view : /\ Goto(s, "answer", view) /\ pc[s] = "start" /\ roll' = roll
                    /\ cmd[s].op \in {"register", "month", "history"}
    BY <1>7 DEF ReadRegister, CountMonth, ReadHistory, At
  <2>2. Went(s, "answer", view)
    BY <2>1, GotoGoes DEF DeskPhases
  <2>3. QED
    BY <1>a, <1>n, <2>1, <2>2 DEF AttendanceOps
<1>8. CASE AnswerReport(s)
  <2>1. Left(s) /\ cmd[s].op \in {"register", "month", "history"} /\ roll' = roll
    BY <1>8, FinishLeaves DEF AnswerReport, At
  <2>2. QED
    BY <1>l, <1>n, <2>1 DEF AttendanceOps
<1>9. QED
  BY <1>1, <1>2, <1>3, <1>4, <1>5, <1>6, <1>7, <1>8 DEF AttendanceNext

LEMMA AttendanceStarts ==
    ASSUME DeskInit, AttendanceInit
    PROVE  AttendanceInv
<1>1. \A s \in Sessions : pc[s] = "idle"
  BY DEF DeskInit
<1>2. \A s \in Sessions : AttendanceSession(s) /\ Written(s) = {}
  BY <1>1 DEF AttendanceSession, Written, At
<1>3. AttendanceTypeOK
  BY DEF AttendanceInit, AttendanceTypeOK
<1>4. OneSheetPerRoll
  <2>1. ASSUME NEW c \in menu, NEW d \in menu, NEW x \in SheetPupils(c) \cap SheetPupils(d),
               c.op = "mark"
        PROVE  <<x, c.period>> \notin RecordKeys \/ roll[<<x, c.period>>] = NoRow
    BY DEF AttendanceInit
  <2>2. ASSUME NEW c \in menu, NEW x \in SheetPupils(c), c.op = "mark"
        PROVE  <<x, c.period>> \in RecordKeys
    <3>1. c \in MarkRequest
      <4>1. c \in OfficeRequest
        BY OfficeMenusAssumption DEF DeskInit
      <4>2. QED
        BY <2>2, <4>1, RequestFits DEF CommandFits
    <3>2. PICK i \in DOMAIN c.sheet : x = c.sheet[i].pupil
      BY DEF SheetPupils
    <3>3. KeyOf(c, i) \in RecordKeys
      BY <3>1, KeyPlace
    <3>4. QED
      BY <3>2, <3>3 DEF KeyOf
  <2>3. QED
    BY <2>1, <2>2 DEF OneSheetPerRoll
<1>5. QED
  BY <1>2, <1>3, <1>4 DEF AttendanceInv

\* The answer to a sheet has every entry of it.
LEMMA AnswerWhole ==
    ASSUME DeskInv, AttendanceInv
    PROVE  RollsWhole
<1>1. SUFFICES ASSUME NEW s \in Sessions, At(s, "mark", "commit"), NEW i \in DOMAIN cmd[s].sheet
               PROVE  LET k == <<cmd[s].sheet[i].pupil, cmd[s].period>>
                      IN  k \in seen[s].answer /\ Own(s)[k].status = cmd[s].sheet[i].status
  BY DEF RollsWhole, AnswerHasSheet, AttendanceInv
<1>2. SheetTaken(s) /\ pc[s] = "commit"
  BY <1>1 DEF AttendanceInv, AttendanceSession, At
<1>3. PICK c : c = cmd[s] /\ c \in MarkRequest
  BY <1>1, SheetCalled DEF At
<1>4. KeyOf(c, i) \in RecordKeys /\ i \in 1 .. Len(c.sheet)
  <2>1. i \in DOMAIN c.sheet
    BY <1>1, <1>3
  <2>2. DOMAIN c.sheet = 1 .. Len(c.sheet)
    BY <1>3 DEF MarkRequest
  <2>3. QED
    BY <1>3, <2>1, <2>2, KeyPlace
<1>5. /\ KeyOf(c, i) \in DOMAIN seen[s].rows /\ KeyOf(c, i) \in seen[s].answer
      /\ seen[s].rows[KeyOf(c, i)] = MarkedRow(KeyOf(c, i), c, i)
  BY <1>2, <1>3, <1>4 DEF SheetTaken
<1>6. Own(s)[KeyOf(c, i)].status = c.sheet[i].status
  BY <1>4, <1>5 DEF Own, MarkedRow
<1>7. QED
  BY <1>3, <1>5, <1>6 DEF KeyOf

-----------------------------------------------------------------------------
(* Students. *)

StudentOps == {"create", "import", "change", "erase", "photo", "show", "roster"}

\* No row is removed and none becomes another child's, and no photo leaves the disk.
Grown ==
    /\ \A e \in EmisIds : student[e] # NoRow =>
         student'[e] # NoRow /\ student'[e].born = student[e].born
    /\ disk \subseteq disk' /\ StudentsTypeOK' /\ PhotosExist'

LEMMA StudentIsRow ==
    ASSUME NEW row \in StudentRow
    PROVE  row # NoRow
  BY StudentsAssumption

LEMMA EmisCalled ==
    ASSUME DeskInv, NEW s \in Sessions, pc[s] # "idle",
           cmd[s].op \in {"create", "change", "erase", "photo", "show"}
    PROVE  /\ cmd[s].emis \in EmisIds
           /\ cmd[s].op = "create" => cmd[s].born \in BirthDates
           /\ cmd[s].op = "change" => cmd[s].status \in StudentStatus
           /\ cmd[s].op \in {"photo", "show"} => cmd[s].file \in Files
  BY CallFits DEF CommandFits, CreateRequest, ChangeRequest, EraseRequest, PhotoRequest

LEMMA ImportCalled ==
    ASSUME DeskInv, NEW s \in Sessions, pc[s] # "idle", cmd[s].op = "import"
    PROVE  /\ Len(cmd[s].rows) \in Nat /\ DOMAIN cmd[s].rows = 1 .. Len(cmd[s].rows)
           /\ \A i \in DOMAIN cmd[s].rows :
                /\ cmd[s].rows[i].emis \in EmisIds /\ cmd[s].rows[i].born \in BirthDates
                /\ cmd[s].rows[i].kind \in RowKinds
<1>1. PICK rows, Row : rows = cmd[s].rows /\ Row = [emis: EmisIds, born: BirthDates, kind: RowKinds]
  OBVIOUS
<1>2. rows \in Seq(Row)
  BY <1>1, CallFits DEF CommandFits, ImportRequest
<1>3. Len(rows) \in Nat /\ DOMAIN rows = 1 .. Len(rows) /\ \A i \in DOMAIN rows : rows[i] \in Row
  BY <1>2
<1>4. \A r \in Row : r.emis \in EmisIds /\ r.born \in BirthDates /\ r.kind \in RowKinds
  BY <1>1
<1>5. QED
  BY <1>1, <1>3, <1>4

\* One row more is handed over, unless it is blank.
LEMMA HandedNext ==
    ASSUME NEW rows, NEW n \in Nat \ {0}
    PROVE  /\ n \notin Handed(rows, n - 1)
           /\ rows[n].kind = "blank" => Handed(rows, n) = Handed(rows, n - 1)
           /\ rows[n].kind # "blank" => Handed(rows, n) = Handed(rows, n - 1) \cup {n}
<1>1. n \notin 1 .. n - 1 /\ \A i : i \in 1 .. n <=> i \in 1 .. n - 1 \/ i = n
  OBVIOUS
<1>2. QED
  BY <1>1 DEF Handed

\* What a session has counted stays true of the table.
LEMMA CountStands ==
    ASSUME DeskInv, NEW s \in Sessions, pc[s] # "idle", cmd[s].op = "import",
           Grown, Same(s), RowsCounted(s)
    PROVE  RowsCounted(s)'
<1>1. PICK v, rows : v = seen[s] /\ rows = cmd[s].rows
  OBVIOUS
<1>2. /\ Len(rows) \in Nat /\ DOMAIN rows = 1 .. Len(rows)
      /\ \A i \in DOMAIN rows : rows[i].emis \in EmisIds
  BY <1>1, ImportCalled
<1>3. /\ v \in ImportView /\ v.row <= Len(rows) + 1
      /\ v.imported \cup v.failed = Handed(rows, v.row - 1)
      /\ v.imported \cap v.failed = {}
      /\ v.checked => v.row <= Len(rows) /\ rows[v.row].kind = "valid" /\ ~v.dead
      /\ ~v.dead => \A i \in v.failed : rows[i].kind = "valid" => student[rows[i].emis] # NoRow
      /\ \A i \in v.imported : /\ student[rows[i].emis] # NoRow
                               /\ student[rows[i].emis].born = rows[i].born
      /\ pc[s] = "answer" => ~v.dead /\ v.row = Len(rows) + 1
  BY <1>1 DEF RowsCounted
<1>4. v.row \in Nat
  BY <1>3 DEF ImportView
<1>5. v.imported \cup v.failed \subseteq DOMAIN rows
  BY <1>2, <1>3, <1>4 DEF Handed
<1>6. \A i \in DOMAIN rows : student[rows[i].emis] # NoRow =>
        /\ student'[rows[i].emis] # NoRow
        /\ student'[rows[i].emis].born = student[rows[i].emis].born
  BY <1>2 DEF Grown
<1>7. /\ ~v.dead => \A i \in v.failed : rows[i].kind = "valid" => student'[rows[i].emis] # NoRow
      /\ \A i \in v.imported : /\ student'[rows[i].emis] # NoRow
                               /\ student'[rows[i].emis].born = rows[i].born
  BY <1>3, <1>5, <1>6
<1>8. seen'[s] = v /\ cmd'[s].rows = rows /\ pc'[s] = pc[s]
  BY <1>1 DEF Same
<1>9. QED
  BY <1>3, <1>7, <1>8 DEF RowsCounted

LEMMA StudentsGrow ==
    ASSUME DeskInv, StudentsInv, Grown,
           \A t \in Sessions : Same(t) \/ StudentsSession(t)'
    PROVE  StudentsInv'
<1>1. ASSUME NEW t \in Sessions, Same(t)
      PROVE  StudentsSession(t)'
  <2>1. StudentsSession(t)
    BY DEF StudentsInv
  <2>2. pc'[t] = pc[t] /\ cmd'[t] = cmd[t] /\ seen'[t] = seen[t]
    BY <1>1 DEF Same
  <2>3. ASSUME At(t, "import", "list") \/ At(t, "import", "answer")
        PROVE  RowsCounted(t)'
    BY <1>1, <2>1, <2>3, CountStands DEF StudentsSession, At
  <2>4. ASSUME pc[t] \in {"write", "commit"}, cmd[t].op \in {"change", "erase", "photo", "show"}
        PROVE  student'[cmd[t].emis] # NoRow
    <3>1. cmd[t].emis \in EmisIds
      BY <2>4, EmisCalled
    <3>2. student[cmd[t].emis] # NoRow
      BY <2>1, <2>4 DEF StudentsSession
    <3>3. QED
      BY <3>1, <3>2 DEF Grown
  <2>5. At(t, "photo", "commit") => cmd[t].file \in disk'
    BY <2>1 DEF StudentsSession, Grown
  <2>6. QED
    BY <2>2, <2>3, <2>4, <2>5 DEF StudentsSession, At
<1>2. QED
  BY <1>1 DEF StudentsInv, Grown

LEMMA UnchangedGrown ==
    ASSUME StudentsInv, UNCHANGED studentTables
    PROVE  Grown
  BY DEF StudentsInv, StudentsTypeOK, PhotosExist, Grown, studentTables

LEMMA StudentsStays ==
    ASSUME DeskInv, StudentsInv, UNCHANGED studentTables, Quiet(StudentOps)
    PROVE  StudentsInv'
<1>1. ASSUME NEW t \in Sessions, ~Same(t)
      PROVE  StudentsSession(t)'
  BY <1>1 DEF Quiet, StudentOps, StudentsSession, At
<1>2. QED
  BY <1>1, UnchangedGrown, StudentsGrow

\* A row is written whose photo is on the disk.
LEMMA RowGrows ==
    ASSUME StudentsInv, NEW a \in EmisIds, NEW row \in StudentRow,
           student[a] # NoRow => row.born = student[a].born,
           row.photo # NoPhoto => row.photo \in disk,
           student' = [student EXCEPT ![a] = row], disk' = disk
    PROVE  Grown /\ student'[a] = row
<1>1. /\ student \in [EmisIds -> StudentRow \cup {NoRow}] /\ disk \subseteq Files /\ PhotosExist
  BY DEF StudentsInv, StudentsTypeOK
<1>2. /\ student' \in [EmisIds -> StudentRow \cup {NoRow}] /\ student'[a] = row
      /\ \A b \in EmisIds : b # a => student'[b] = student[b]
  BY <1>1
<1>3. row # NoRow
  BY StudentIsRow
<1>4. PhotosExist'
  <2>1. ASSUME NEW e \in EmisIds, student'[e] # NoRow, student'[e].photo # NoPhoto
        PROVE  student'[e].photo \in disk
    <3>1. CASE e = a
      BY <1>2, <2>1, <3>1
    <3>2. CASE e # a
      BY <1>1, <1>2, <2>1, <3>2 DEF PhotosExist
    <3>3. QED
      BY <3>1, <3>2
  <2>2. QED
    BY <2>1 DEF PhotosExist
<1>5. \A e \in EmisIds : student[e] # NoRow =>
        student'[e] # NoRow /\ student'[e].born = student[e].born
  BY <1>2, <1>3
<1>6. QED
  BY <1>1, <1>2, <1>4, <1>5 DEF Grown, StudentsTypeOK

\* The views an import passes through.
Advanced(v) == [v EXCEPT !.row = v.row + 1, !.checked = FALSE]

LEMMA ViewMoves ==
    ASSUME NEW v \in ImportView, NEW n, n = v.row, NEW u, u = Advanced(v)
    PROVE  /\ u \in ImportView /\ u.row = n + 1 /\ u.failed = v.failed /\ ~u.checked
           /\ u.imported = v.imported /\ u.dead = v.dead
<1>1. /\ v.row \in Nat \ {0} /\ v.checked \in BOOLEAN /\ v.dead \in BOOLEAN
      /\ v.imported \in SUBSET Nat /\ v.failed \in SUBSET Nat
      /\ v = [row |-> v.row, checked |-> v.checked, dead |-> v.dead,
              imported |-> v.imported, failed |-> v.failed]
  BY DEF ImportView
<1>2. PICK m \in Nat \ {0} : m = v.row + 1
  BY <1>1
<1>3. u = [row |-> m, checked |-> FALSE, dead |-> v.dead,
           imported |-> v.imported, failed |-> v.failed]
  BY <1>1, <1>2 DEF Advanced
<1>4. QED
  BY <1>1, <1>2, <1>3 DEF ImportView

LEMMA ViewCounts ==
    ASSUME NEW v \in ImportView, NEW n \in Nat \ {0}, NEW w,
           \/ w = [v EXCEPT !.imported = v.imported \cup {n}]
           \/ w = [v EXCEPT !.failed = v.failed \cup {n}, !.dead = TRUE]
           \/ w = [v EXCEPT !.row = v.row + 1, !.failed = v.failed \cup {n}]
    PROVE  w \in ImportView
<1>1. /\ v.row \in Nat \ {0} /\ v.checked \in BOOLEAN /\ v.dead \in BOOLEAN
      /\ v.imported \in SUBSET Nat /\ v.failed \in SUBSET Nat
      /\ v = [row |-> v.row, checked |-> v.checked, dead |-> v.dead,
              imported |-> v.imported, failed |-> v.failed]
  BY DEF ImportView
<1>2. PICK m \in Nat \ {0} : m = v.row + 1
  BY <1>1
<1>3. PICK K, L : K = v.imported \cup {n} /\ L = v.failed \cup {n}
  OBVIOUS
<1>4. K \in SUBSET Nat /\ L \in SUBSET Nat
  BY <1>1, <1>3
<1>5. CASE w = [v EXCEPT !.imported = v.imported \cup {n}]
  <2>1. w = [row |-> v.row, checked |-> v.checked, dead |-> v.dead,
             imported |-> K, failed |-> v.failed]
    BY <1>1, <1>3, <1>5
  <2>2. QED
    BY <1>1, <1>4, <2>1 DEF ImportView
<1>6. CASE w = [v EXCEPT !.failed = v.failed \cup {n}, !.dead = TRUE]
  <2>1. w = [row |-> v.row, checked |-> v.checked, dead |-> TRUE,
             imported |-> v.imported, failed |-> L]
    BY <1>1, <1>3, <1>6
  <2>2. QED
    BY <1>1, <1>4, <2>1 DEF ImportView
<1>7. CASE w = [v EXCEPT !.row = v.row + 1, !.failed = v.failed \cup {n}]
  <2>1. w = [row |-> m, checked |-> v.checked, dead |-> v.dead,
             imported |-> v.imported, failed |-> L]
    BY <1>1, <1>2, <1>3, <1>7
  <2>2. QED
    BY <1>1, <1>2, <1>4, <2>1 DEF ImportView
<1>8. QED
  BY <1>5, <1>6, <1>7

\* A blank row is passed over.
LEMMA RowSkipped ==
    ASSUME DeskInv, StudentsInv, NEW s \in Sessions, SkipRow(s)
    PROVE  StudentsSession(s)' /\ \E view : Went(s, "list", view)
<1>0. pc[s] = "list" /\ cmd[s].op = "import" /\ RowsCounted(s) /\ UNCHANGED studentTables
  BY DEF SkipRow, At, StudentsInv, StudentsSession
<1>1. PICK v, rows, n : v = seen[s] /\ rows = cmd[s].rows /\ n = seen[s].row
  OBVIOUS
<1>2. Len(rows) \in Nat /\ DOMAIN rows = 1 .. Len(rows)
  BY <1>0, <1>1, ImportCalled
<1>3. /\ v \in ImportView /\ v.row = n
      /\ v.imported \cup v.failed = Handed(rows, n - 1)
      /\ v.imported \cap v.failed = {}
      /\ v.checked => rows[n].kind = "valid"
      /\ ~v.dead => \A i \in v.failed : rows[i].kind = "valid" => student[rows[i].emis] # NoRow
      /\ \A i \in v.imported : /\ student[rows[i].emis] # NoRow
                               /\ student[rows[i].emis].born = rows[i].born
  BY <1>0, <1>1 DEF RowsCounted
<1>4. n \in Nat \ {0} /\ n \in DOMAIN rows /\ rows[n].kind = "blank"
  BY <1>0, <1>1, <1>3 DEF SkipRow, ImportView
<1>5. ~v.checked /\ student' = student
  BY <1>0, <1>3, <1>4 DEF studentTables
<1>6. PICK w : w = [v EXCEPT !.row = v.row + 1]
  OBVIOUS
<1>7. Went(s, "list", w)
  <2>1. Goto(s, "list", w)
    BY <1>1, <1>6 DEF SkipRow
  <2>2. QED
    BY <1>0, <2>1, GotoGoes DEF DeskPhases
<1>8. /\ w \in ImportView /\ w.row = n + 1 /\ w.failed = v.failed
      /\ w.imported = v.imported /\ w.dead = v.dead /\ ~w.checked
  <2>1. w = Advanced(v)
    BY <1>3, <1>5, <1>6 DEF Advanced, ImportView
  <2>2. QED
    BY <1>3, <2>1, ViewMoves
<1>9. w.imported \cup w.failed = Handed(rows, w.row - 1)
  <2>1. w.row - 1 = n
    BY <1>4, <1>8
  <2>2. QED
    BY <1>3, <1>4, <1>8, <2>1, HandedNext
<1>10. w.row <= Len(rows) + 1
  BY <1>2, <1>4, <1>8
<1>11. RowsCounted(s)'
  <2>1. pc'[s] = "list" /\ seen'[s] = w /\ cmd'[s].rows = rows
    BY <1>1, <1>7 DEF Went
  <2>2. QED
    BY <1>3, <1>5, <1>8, <1>9, <1>10, <2>1 DEF RowsCounted
<1>12. StudentsSession(s)'
  BY <1>0, <1>7, <1>11 DEF Went, StudentsSession, At
<1>13. QED
  BY <1>7, <1>12

\* The row under work is looked at.
LEMMA RowChecked ==
    ASSUME DeskInv, StudentsInv, NEW s \in Sessions, CheckRow(s)
    PROVE  StudentsSession(s)' /\ \E view : Went(s, "list", view)
<1>0. pc[s] = "list" /\ cmd[s].op = "import" /\ RowsCounted(s) /\ UNCHANGED studentTables
  BY DEF CheckRow, At, StudentsInv, StudentsSession
<1>1. PICK v, rows, n : v = seen[s] /\ rows = cmd[s].rows /\ n = seen[s].row
  OBVIOUS
<1>2. /\ Len(rows) \in Nat /\ DOMAIN rows = 1 .. Len(rows)
  BY <1>0, <1>1, ImportCalled
<1>3. /\ v \in ImportView /\ v.row = n
      /\ v.imported \cup v.failed = Handed(rows, n - 1)
      /\ v.imported \cap v.failed = {}
      /\ ~v.dead => \A i \in v.failed : rows[i].kind = "valid" => student[rows[i].emis] # NoRow
      /\ \A i \in v.imported : /\ student[rows[i].emis] # NoRow
                               /\ student[rows[i].emis].born = rows[i].born
  BY <1>0, <1>1 DEF RowsCounted
<1>4. n \in Nat \ {0} /\ n \in DOMAIN rows /\ rows[n].kind # "blank" /\ ~v.checked
  BY <1>0, <1>1, <1>3 DEF CheckRow, ImportView
<1>5. student' = student
  BY <1>0 DEF studentTables
<1>6. CASE rows[n].kind # "valid" \/ v.dead \/ student[rows[n].emis] # NoRow
  <2>1. PICK w : w = [v EXCEPT !.row = v.row + 1, !.failed = v.failed \cup {n}]
    OBVIOUS
  <2>2. Went(s, "list", w)
    <3>1. Goto(s, "list", w)
      BY <1>1, <1>3, <1>6, <2>1 DEF CheckRow
    <3>2. QED
      BY <1>0, <3>1, GotoGoes DEF DeskPhases
  <2>3. /\ w \in ImportView /\ w.row = n + 1 /\ w.failed = v.failed \cup {n}
        /\ w.imported = v.imported /\ w.dead = v.dead /\ w.checked = v.checked
    <3>1. w \in ImportView
      BY <1>3, <1>4, <2>1, ViewCounts DEF ImportView
    <3>2. QED
      BY <1>3, <2>1, <3>1 DEF ImportView
  <2>4. w.imported \cup w.failed = Handed(rows, w.row - 1) /\ w.imported \cap w.failed = {}
    <3>1. w.row - 1 = n
      BY <1>4, <2>3
    <3>2. QED
      BY <1>3, <1>4, <2>3, <3>1, HandedNext
  <2>5. w.row <= Len(rows) + 1
    BY <1>2, <1>4, <2>3
  <2>6. ~w.dead => \A i \in w.failed : rows[i].kind = "valid" => student[rows[i].emis] # NoRow
    BY <1>3, <1>6, <2>3
  <2>7. RowsCounted(s)'
    <3>1. pc'[s] = "list" /\ seen'[s] = w /\ cmd'[s].rows = rows
      BY <1>1, <2>2 DEF Went
    <3>2. QED
      BY <1>3, <1>4, <1>5, <2>3, <2>4, <2>5, <2>6, <3>1 DEF RowsCounted
  <2>8. StudentsSession(s)'
    BY <1>0, <2>2, <2>7 DEF Went, StudentsSession, At
  <2>9. QED
    BY <2>2, <2>8
<1>7. CASE ~(rows[n].kind # "valid" \/ v.dead \/ student[rows[n].emis] # NoRow)
  <2>1. PICK w : w = [v EXCEPT !.checked = TRUE]
    OBVIOUS
  <2>2. Went(s, "list", w)
    <3>1. Goto(s, "list", w)
      BY <1>1, <1>3, <1>7, <2>1 DEF CheckRow
    <3>2. QED
      BY <1>0, <3>1, GotoGoes DEF DeskPhases
  <2>3. /\ w \in ImportView /\ w.row = n /\ w.failed = v.failed
        /\ w.imported = v.imported /\ w.dead = v.dead
    BY <1>3, <1>4, <2>1 DEF ImportView
  <2>4. w.row <= Len(rows) /\ rows[w.row].kind = "valid" /\ ~w.dead /\ w.row <= Len(rows) + 1
    BY <1>2, <1>4, <1>7, <2>3
  <2>5. RowsCounted(s)'
    <3>1. pc'[s] = "list" /\ seen'[s] = w /\ cmd'[s].rows = rows
      BY <1>1, <2>2 DEF Went
    <3>2. QED
      BY <1>3, <1>5, <2>3, <2>4, <3>1 DEF RowsCounted
  <2>6. StudentsSession(s)'
    BY <1>0, <2>2, <2>5 DEF Went, StudentsSession, At
  <2>7. QED
    BY <2>2, <2>6
<1>8. QED
  BY <1>6, <1>7

\* The row under work is committed, or meets the index.
LEMMA RowCommitted ==
    ASSUME DeskInv, StudentsInv, NEW s \in Sessions, CommitRow(s)
    PROVE  StudentsInv' /\ \E view : Went(s, "list", view)
<1>0. pc[s] = "list" /\ cmd[s].op = "import" /\ RowsCounted(s) /\ disk' = disk /\ seen[s].checked
  BY DEF CommitRow, At, StudentsInv, StudentsSession
<1>1. PICK v, rows, n : v = seen[s] /\ rows = cmd[s].rows /\ n = seen[s].row
  OBVIOUS
<1>2. /\ Len(rows) \in Nat /\ DOMAIN rows = 1 .. Len(rows)
      /\ \A i \in DOMAIN rows : rows[i].emis \in EmisIds /\ rows[i].born \in BirthDates
  BY <1>0, <1>1, ImportCalled
<1>3. /\ v \in ImportView /\ v.row = n /\ n <= Len(rows) /\ rows[n].kind = "valid" /\ ~v.dead
      /\ v.imported \cup v.failed = Handed(rows, n - 1)
      /\ v.imported \cap v.failed = {}
      /\ \A i \in v.failed : rows[i].kind = "valid" => student[rows[i].emis] # NoRow
      /\ \A i \in v.imported : /\ student[rows[i].emis] # NoRow
                               /\ student[rows[i].emis].born = rows[i].born
  BY <1>0, <1>1 DEF RowsCounted
<1>4. n \in Nat \ {0} /\ n \in DOMAIN rows
  BY <1>2, <1>3 DEF ImportView
<1>5. Handed(rows, (n + 1) - 1) = Handed(rows, n - 1) \cup {n} /\ n \notin Handed(rows, n - 1)
  <2>1. (n + 1) - 1 = n
    BY <1>4
  <2>2. QED
    BY <1>3, <1>4, <2>1, HandedNext
<1>6. PICK e, x : e = rows[n].emis /\ x = rows[n].born
  OBVIOUS
<1>7. CASE student[e] = NoRow
  <2>1. PICK row : row = NewStudent(x)
    OBVIOUS
  <2>2. row \in StudentRow /\ row.born = x /\ row.photo = NoPhoto
    BY <1>2, <1>4, <1>6, <2>1 DEF NewStudent, StudentRow, StudentStatus
  <2>3. student' = [student EXCEPT ![e] = row]
    BY <1>1, <1>6, <1>7, <2>1 DEF CommitRow
  <2>4. Grown /\ student'[e] = row
    BY <1>0, <1>2, <1>4, <1>6, <1>7, <2>2, <2>3, RowGrows
  <2>5. PICK u, w : /\ u = Advanced(v)
                    /\ w = [u EXCEPT !.imported = u.imported \cup {n}]
    OBVIOUS
  <2>6. Went(s, "list", w)
    <3>1. Goto(s, "list", w)
      BY <1>1, <1>6, <1>7, <2>5 DEF CommitRow, Advanced
    <3>2. QED
      BY <1>0, <3>1, GotoGoes DEF DeskPhases
  <2>7. /\ u \in ImportView /\ u.row = n + 1 /\ u.failed = v.failed /\ ~u.checked
        /\ u.imported = v.imported /\ u.dead = v.dead
    BY <1>3, <2>5, ViewMoves
  <2>8. /\ w \in ImportView /\ w.row = n + 1 /\ w.failed = v.failed /\ ~w.checked
        /\ w.imported = v.imported \cup {n} /\ w.dead = v.dead
    BY <1>4, <2>5, <2>7 DEF ImportView
  <2>9. w.imported \cup w.failed = Handed(rows, w.row - 1) /\ w.imported \cap w.failed = {}
    BY <1>3, <1>5, <2>8
  <2>10. w.row <= Len(rows) + 1
    BY <1>2, <1>3, <1>4, <2>8
  <2>11. \A i \in DOMAIN rows : student[rows[i].emis] # NoRow =>
           /\ student'[rows[i].emis] # NoRow
           /\ student'[rows[i].emis].born = student[rows[i].emis].born
    BY <1>2, <2>4 DEF Grown
  <2>12. v.imported \subseteq DOMAIN rows /\ v.failed \subseteq DOMAIN rows
    BY <1>2, <1>3, <1>4 DEF Handed
  <2>13. /\ \A i \in w.failed : rows[i].kind = "valid" => student'[rows[i].emis] # NoRow
         /\ \A i \in w.imported : /\ student'[rows[i].emis] # NoRow
                                  /\ student'[rows[i].emis].born = rows[i].born
    BY <1>3, <1>6, <2>2, <2>4, <2>8, <2>11, <2>12, StudentIsRow
  <2>14. RowsCounted(s)'
    <3>1. pc'[s] = "list" /\ seen'[s] = w /\ cmd'[s].rows = rows
      BY <1>1, <2>6 DEF Went
    <3>2. QED
      BY <2>8, <2>9, <2>10, <2>13, <3>1 DEF RowsCounted
  <2>15. \A t \in Sessions : Same(t) \/ StudentsSession(t)'
    BY <1>0, <2>6, <2>14 DEF Went, Others, StudentsSession, At
  <2>16. QED
    BY <2>4, <2>6, <2>15, StudentsGrow
<1>8. CASE student[e] # NoRow
  <2>1. student' = student
    BY <1>1, <1>6, <1>8 DEF CommitRow
  <2>2. Grown
    BY <1>0, <2>1, UnchangedGrown DEF studentTables
  <2>3. PICK u, w : /\ u = Advanced(v)
                    /\ w = [u EXCEPT !.failed = u.failed \cup {n}, !.dead = TRUE]
    OBVIOUS
  <2>4. Went(s, "list", w)
    <3>1. Goto(s, "list", w)
      BY <1>1, <1>6, <1>8, <2>3 DEF CommitRow, Advanced
    <3>2. QED
      BY <1>0, <3>1, GotoGoes DEF DeskPhases
  <2>5. /\ u \in ImportView /\ u.row = n + 1 /\ u.failed = v.failed /\ ~u.checked
        /\ u.imported = v.imported /\ u.dead = v.dead
    BY <1>3, <2>3, ViewMoves
  <2>6. /\ w \in ImportView /\ w.row = n + 1 /\ w.failed = v.failed \cup {n} /\ ~w.checked
        /\ w.imported = v.imported /\ w.dead = TRUE
    BY <1>4, <2>3, <2>5 DEF ImportView
  <2>7. w.imported \cup w.failed = Handed(rows, w.row - 1) /\ w.imported \cap w.failed = {}
    BY <1>3, <1>5, <2>6
  <2>8. w.row <= Len(rows) + 1
    BY <1>2, <1>3, <1>4, <2>6
  <2>9. RowsCounted(s)'
    <3>1. pc'[s] = "list" /\ seen'[s] = w /\ cmd'[s].rows = rows
      BY <1>1, <2>4 DEF Went
    <3>2. QED
      BY <1>3, <2>1, <2>6, <2>7, <2>8, <3>1 DEF RowsCounted
  <2>10. \A t \in Sessions : Same(t) \/ StudentsSession(t)'
    BY <1>0, <2>4, <2>9 DEF Went, Others, StudentsSession, At
  <2>11. QED
    BY <2>2, <2>4, <2>10, StudentsGrow
<1>9. QED
  BY <1>7, <1>8

LEMMA StudentsKeeps ==
    ASSUME DeskInv, StudentsInv, NEW s \in Sessions, StudentsNext(s)
    PROVE  /\ StudentsInv' /\ DeskInv' /\ menu' = menu /\ cmd[s].op \in StudentOps
           /\ Left(s) \/ \E phase, view : Went(s, phase, view)
<1>t. StudentsSession(s) /\ StudentsTypeOK
  BY DEF StudentsInv
<1>l. ASSUME Left(s)
      PROVE  StudentsSession(s)'
  BY <1>l DEF Left, StudentsSession, At
\* A step after which the session knows what is true of the tables.
<1>n. ASSUME Grown, StudentsSession(s)', Left(s) \/ \E phase, view : Went(s, phase, view)
      PROVE  StudentsInv' /\ DeskInv' /\ menu' = menu
  <2>1. Others(s) /\ DeskInv' /\ menu' = menu
    BY <1>n DEF Left, Went
  <2>2. \A t \in Sessions : Same(t) \/ StudentsSession(t)'
    BY <1>n, <2>1 DEF Others
  <2>3. QED
    BY <1>n, <2>1, <2>2, StudentsGrow
<1>u. ASSUME UNCHANGED studentTables
      PROVE  Grown
  BY <1>u, UnchangedGrown
<1>1. CASE CheckEmis(s)
  <2>1. cmd[s].op = "create" /\ pc[s] = "start" /\ UNCHANGED studentTables
    BY <1>1 DEF CheckEmis, At
  <2>2. Left(s) \/ Went(s, "write", NoView)
    BY <1>1, <2>1, FinishLeaves, GotoGoes DEF CheckEmis, DeskPhases
  <2>3. StudentsSession(s)'
    BY <1>l, <2>1, <2>2 DEF Went, StudentsSession, At
  <2>4. QED
    BY <1>n, <1>u, <2>1, <2>2, <2>3 DEF StudentOps
<1>2. CASE CommitStudent(s)
  <2>1. cmd[s].op = "create" /\ pc[s] = "write" /\ disk' = disk /\ Left(s)
    BY <1>2, FinishLeaves DEF CommitStudent, At
  <2>2. PICK c : c = cmd[s] /\ c.emis \in EmisIds /\ c.born \in BirthDates
    BY <2>1, EmisCalled
  <2>3. Grown
    <3>1. CASE student[c.emis] = NoRow
      <4>1. PICK row : row = NewStudent(c.born)
        OBVIOUS
      <4>2. row \in StudentRow /\ row.photo = NoPhoto
        BY <2>2, <4>1 DEF NewStudent, StudentRow, StudentStatus
      <4>3. student' = [student EXCEPT ![c.emis] = row]
        BY <1>2, <2>2, <3>1, <4>1 DEF CommitStudent
      <4>4. QED
        BY <2>1, <2>2, <3>1, <4>2, <4>3, RowGrows
    <3>2. CASE student[c.emis] # NoRow
      BY <1>2, <1>u, <2>1, <2>2, <3>2 DEF CommitStudent, studentTables
    <3>3. QED
      BY <3>1, <3>2
  <2>4. QED
    BY <1>l, <1>n, <2>1, <2>3 DEF StudentOps
<1>3. CASE StartImport(s)
  <2>1. pc[s] = "start" /\ cmd[s].op = "import" /\ UNCHANGED studentTables
    BY <1>3 DEF StartImport, At
  <2>2. CASE \E i \in DOMAIN cmd[s].rows : cmd[s].rows[i].kind = "unreadable"
    <3>1. Left(s)
      BY <1>3, <2>2, FinishLeaves DEF StartImport
    <3>2. QED
      BY <1>l, <1>n, <1>u, <2>1, <3>1 DEF StudentOps
  <2>3. CASE ~\E i \in DOMAIN cmd[s].rows : cmd[s].rows[i].kind = "unreadable"
    <3>1. PICK n, rows : n \in Nat /\ n = 1 /\ rows = cmd[s].rows
      OBVIOUS
    <3>2. PICK v : v = [row |-> n, checked |-> FALSE, dead |-> FALSE,
                        imported |-> {}, failed |-> {}]
      OBVIOUS
    <3>3. Went(s, "list", v)
      <4>1. Goto(s, "list", v)
        BY <1>3, <2>3, <3>1, <3>2 DEF StartImport
      <4>2. QED
        BY <2>1, <4>1, GotoGoes DEF DeskPhases
    <3>4. /\ v \in ImportView /\ v.row = n /\ ~v.checked /\ ~v.dead
          /\ v.imported = {} /\ v.failed = {}
      BY <3>1, <3>2 DEF ImportView
    <3>5. Handed(rows, n - 1) = {} /\ n <= Len(rows) + 1
      <4>1. 1 .. n - 1 = {} /\ n <= Len(rows) + 1
        BY <2>1, <3>1, ImportCalled
      <4>2. QED
        BY <4>1 DEF Handed
    <3>6. RowsCounted(s)'
      <4>1. pc'[s] = "list" /\ seen'[s] = v /\ cmd'[s].rows = rows
        BY <3>1, <3>3 DEF Went
      <4>2. QED
        BY <3>4, <3>5, <4>1 DEF RowsCounted
    <3>7. StudentsSession(s)'
      BY <2>1, <3>3, <3>6 DEF Went, StudentsSession, At
    <3>8. QED
      BY <1>n, <1>u, <2>1, <3>3, <3>7 DEF StudentOps
  <2>4. QED
    BY <2>2, <2>3
<1>4. CASE CheckRow(s)
  <2>1. cmd[s].op = "import" /\ UNCHANGED studentTables
    BY <1>4 DEF CheckRow, At
  <2>2. QED
    BY <1>4, <1>n, <1>u, <2>1, RowChecked DEF StudentOps
<1>16. CASE SkipRow(s)
  <2>1. cmd[s].op = "import" /\ UNCHANGED studentTables
    BY <1>16 DEF SkipRow, At
  <2>2. QED
    BY <1>16, <1>n, <1>u, <2>1, RowSkipped DEF StudentOps
<1>5. CASE CommitRow(s)
  <2>1. cmd[s].op = "import"
    BY <1>5 DEF CommitRow, At
  <2>2. QED
    BY <1>5, <2>1, RowCommitted DEF Went, StudentOps
<1>6. CASE EndImport(s)
  <2>1. pc[s] = "list" /\ cmd[s].op = "import" /\ UNCHANGED studentTables /\ RowsCounted(s)
        /\ seen[s].row = Len(cmd[s].rows) + 1
    BY <1>6, <1>t DEF EndImport, At, StudentsSession
  <2>2. CASE seen[s].dead
    <3>1. Left(s)
      BY <1>6, <2>2, FinishLeaves DEF EndImport
    <3>2. QED
      BY <1>l, <1>n, <1>u, <2>1, <3>1 DEF StudentOps
  <2>3. CASE ~seen[s].dead
    <3>1. PICK v, c : v = seen[s] /\ c = cmd[s]
      OBVIOUS
    <3>2. Went(s, "answer", v)
      BY <1>6, <2>1, <2>3, <3>1, GotoGoes DEF EndImport, DeskPhases
    <3>3. student' = student
      BY <2>1 DEF studentTables
    <3>4. RowsCounted(s)'
      BY <2>1, <2>3, <3>1, <3>2, <3>3 DEF RowsCounted, Went
    <3>5. StudentsSession(s)'
      BY <2>1, <3>2, <3>4 DEF Went, StudentsSession, At
    <3>6. QED
      BY <1>n, <1>u, <2>1, <3>2, <3>5 DEF StudentOps
  <2>4. QED
    BY <2>2, <2>3
<1>7. CASE ReadStudent(s)
  <2>1. /\ pc[s] = "start" /\ cmd[s].op \in {"change", "erase", "photo", "show"}
        /\ UNCHANGED studentTables
    BY <1>7 DEF ReadStudent, At
  <2>2. CASE Enrolled(cmd[s].emis)
    <3>1. Went(s, "write", student[cmd[s].emis])
      BY <1>7, <2>1, <2>2, GotoGoes DEF ReadStudent, DeskPhases
    <3>2. student'[cmd[s].emis] # NoRow
      BY <2>1, <2>2 DEF Enrolled, studentTables
    <3>3. StudentsSession(s)'
      BY <2>1, <3>1, <3>2 DEF Went, StudentsSession, At
    <3>4. QED
      BY <1>n, <1>u, <2>1, <3>1, <3>3 DEF StudentOps
  <2>3. CASE ~Enrolled(cmd[s].emis)
    <3>1. Left(s)
      BY <1>7, <2>3, FinishLeaves DEF ReadStudent
    <3>2. QED
      BY <1>l, <1>n, <1>u, <2>1, <3>1 DEF StudentOps
  <2>4. QED
    BY <2>2, <2>3
<1>8. CASE CommitChange(s)
  <2>1. cmd[s].op = "change" /\ pc[s] = "write" /\ disk' = disk /\ Left(s)
    BY <1>8, FinishLeaves DEF CommitChange, At
  <2>2. PICK c : c = cmd[s] /\ c.emis \in EmisIds /\ c.status \in StudentStatus
    BY <2>1, EmisCalled
  <2>3. student[c.emis] # NoRow /\ student[c.emis] \in StudentRow
    BY <1>t, <2>1, <2>2 DEF StudentsSession, StudentsTypeOK
  <2>4. Grown
    <3>1. CASE c.status = seen[s].status
      BY <1>8, <1>u, <2>1, <2>2, <3>1 DEF CommitChange, studentTables
    <3>2. CASE c.status # seen[s].status
      <4>1. PICK row : row = [student[c.emis] EXCEPT !.status = c.status]
        OBVIOUS
      <4>2. /\ row \in StudentRow /\ row.born = student[c.emis].born
            /\ row.photo = student[c.emis].photo
        BY <2>2, <2>3, <4>1 DEF StudentRow
      <4>3. student' = [student EXCEPT ![c.emis] = row]
        BY <1>8, <2>2, <3>2, <4>1 DEF CommitChange
      <4>4. row.photo # NoPhoto => row.photo \in disk
        BY <2>2, <2>3, <4>2 DEF StudentsInv, PhotosExist
      <4>5. QED
        BY <2>1, <2>2, <4>2, <4>3, <4>4, RowGrows
    <3>3. QED
      BY <3>1, <3>2
  <2>5. QED
    BY <1>l, <1>n, <2>1, <2>4 DEF StudentOps
<1>9. CASE CommitErase(s)
  <2>1. cmd[s].op = "erase" /\ pc[s] = "write" /\ disk' = disk /\ Left(s)
    BY <1>9, FinishLeaves DEF CommitErase, At
  <2>2. PICK c : c = cmd[s] /\ c.emis \in EmisIds
    BY <2>1, EmisCalled
  <2>3. student[c.emis] # NoRow /\ student[c.emis] \in StudentRow
    BY <1>t, <2>1, <2>2 DEF StudentsSession, StudentsTypeOK
  <2>4. PICK row : row = [student[c.emis] EXCEPT
                            !.deleted = TRUE,
                            !.status = IF seen[s].status = "inactive"
                                       THEN student[c.emis].status ELSE "inactive"]
    OBVIOUS
  <2>5. /\ row \in StudentRow /\ row.born = student[c.emis].born
        /\ row.photo = student[c.emis].photo
    BY <2>3, <2>4 DEF StudentRow, StudentStatus
  <2>6. student' = [student EXCEPT ![c.emis] = row]
    BY <1>9, <2>2, <2>4 DEF CommitErase
  <2>7. row.photo # NoPhoto => row.photo \in disk
    BY <2>2, <2>3, <2>5 DEF StudentsInv, PhotosExist
  <2>8. Grown
    BY <2>1, <2>2, <2>5, <2>6, <2>7, RowGrows
  <2>9. QED
    BY <1>l, <1>n, <2>1, <2>8 DEF StudentOps
<1>10. CASE SavePhoto(s)
  <2>1. /\ cmd[s].op = "photo" /\ pc[s] = "write" /\ student' = student
        /\ disk' = disk \cup {cmd[s].file}
    BY <1>10 DEF SavePhoto, At
  <2>2. Went(s, "commit", seen[s])
    BY <1>10, <2>1, GotoGoes DEF SavePhoto, DeskPhases
  <2>3. cmd[s].file \in Files
    BY <2>1, EmisCalled
  <2>4. Grown
    BY <2>1, <2>3 DEF StudentsInv, StudentsTypeOK, PhotosExist, Grown
  <2>5. StudentsSession(s)'
    BY <1>t, <2>1, <2>2 DEF Went, StudentsSession, At
  <2>6. QED
    BY <1>n, <2>1, <2>2, <2>4, <2>5 DEF StudentOps
<1>11. CASE CommitPhoto(s)
  <2>1. cmd[s].op = "photo" /\ pc[s] = "commit" /\ disk' = disk /\ Left(s)
    BY <1>11, FinishLeaves DEF CommitPhoto, At
  <2>2. PICK c : c = cmd[s] /\ c.emis \in EmisIds /\ c.file \in Files
    BY <2>1, EmisCalled
  <2>3. student[c.emis] # NoRow /\ student[c.emis] \in StudentRow /\ c.file \in disk
    BY <1>t, <2>1, <2>2 DEF StudentsSession, StudentsTypeOK, At
  <2>4. PICK row : row = [student[c.emis] EXCEPT !.photo = c.file]
    OBVIOUS
  <2>5. row \in StudentRow /\ row.born = student[c.emis].born /\ row.photo = c.file
    BY <2>2, <2>3, <2>4 DEF StudentRow
  <2>6. student' = [student EXCEPT ![c.emis] = row]
    BY <1>11, <2>2, <2>4 DEF CommitPhoto
  <2>7. Grown
    BY <2>1, <2>2, <2>3, <2>5, <2>6, RowGrows
  <2>8. QED
    BY <1>l, <1>n, <2>1, <2>7 DEF StudentOps
<1>12. CASE ShowPhoto(s)
  <2>1. cmd[s].op = "show" /\ pc[s] = "write" /\ UNCHANGED studentTables
    BY <1>12 DEF ShowPhoto, At
  <2>2. Left(s) \/ Went(s, "answer", seen[s])
    BY <1>12, <2>1, FinishLeaves, GotoGoes DEF ShowPhoto, DeskPhases
  <2>3. StudentsSession(s)'
    BY <1>l, <2>1, <2>2 DEF Went, StudentsSession, At
  <2>4. QED
    BY <1>n, <1>u, <2>1, <2>2, <2>3 DEF StudentOps
<1>13. CASE ReadRoster(s)
  <2>1. PICK view : /\ Goto(s, "answer", view) /\ pc[s] = "start" /\ cmd[s].op = "roster"
                    /\ UNCHANGED studentTables
    BY <1>13 DEF ReadRoster, At
  <2>2. Went(s, "answer", view)
    BY <2>1, GotoGoes DEF DeskPhases
  <2>3. StudentsSession(s)'
    BY <2>1, <2>2 DEF Went, StudentsSession, At
  <2>4. QED
    BY <1>n, <1>u, <2>1, <2>2, <2>3 DEF StudentOps
<1>14. CASE AnswerStudents(s)
  <2>1. cmd[s].op \in {"import", "show", "roster"} /\ UNCHANGED studentTables /\ Left(s)
    BY <1>14, FinishLeaves DEF AnswerStudents, At
  <2>2. QED
    BY <1>l, <1>n, <1>u, <2>1 DEF StudentOps
<1>15. QED
  BY <1>1, <1>2, <1>3, <1>4, <1>5, <1>6, <1>7, <1>8, <1>9, <1>10, <1>11, <1>12, <1>13, <1>14,
     <1>16
  DEF StudentsNext

LEMMA StudentsStarts ==
    ASSUME DeskInit, StudentsInit
    PROVE  StudentsInv
  BY DEF DeskInit, StudentsInit, StudentsInv, StudentsTypeOK, PhotosExist, StudentsSession, At

\* An answered import accounts for every row of its file that was handed over.
LEMMA ImportsAccounted ==
    ASSUME DeskInv, StudentsInv
    PROVE  ImportsWhole
<1>1. ASSUME NEW s \in Sessions, At(s, "import", "answer")
      PROVE  LET v == seen[s]
                 rows == cmd[s].rows
             IN  /\ v.imported \cup v.failed = Handed(rows, Len(rows))
                 /\ v.imported \cap v.failed = {}
                 /\ \A i \in DOMAIN rows :
                       rows[i].kind = "valid" => student[rows[i].emis] # NoRow
                 /\ \A i \in v.imported : student[rows[i].emis].born = rows[i].born
  <2>1. RowsCounted(s) /\ pc[s] = "answer"
    BY <1>1 DEF StudentsInv, StudentsSession, At
  <2>2. Len(cmd[s].rows) \in Nat /\ DOMAIN cmd[s].rows = 1 .. Len(cmd[s].rows)
    BY <1>1, ImportCalled DEF At
  <2>3. PICK v, rows : v = seen[s] /\ rows = cmd[s].rows
    OBVIOUS
  <2>4. /\ v.imported \cup v.failed = Handed(rows, v.row - 1) /\ v.imported \cap v.failed = {}
        /\ v.row = Len(rows) + 1
        /\ \A i \in v.failed : rows[i].kind = "valid" => student[rows[i].emis] # NoRow
        /\ \A i \in v.imported : /\ student[rows[i].emis] # NoRow
                                 /\ student[rows[i].emis].born = rows[i].born
    BY <2>1, <2>3 DEF RowsCounted
  <2>5. v.imported \cup v.failed = Handed(rows, Len(rows))
    <3>1. v.row - 1 = Len(rows)
      BY <2>2, <2>3, <2>4
    <3>2. QED
      BY <2>4, <3>1
  <2>6. \A i \in DOMAIN rows : rows[i].kind = "valid" => i \in v.imported \cup v.failed
    BY <2>2, <2>3, <2>5 DEF Handed
  <2>7. QED
    BY <2>3, <2>4, <2>5, <2>6
<1>2. QED
  BY <1>1 DEF ImportsWhole, SummaryAccounts, StudentsInv

-----------------------------------------------------------------------------
(* Staff. *)

StaffOps == {"hire", "amend", "retire", "ask", "decide", "day", "attendance", "staff"}

\* No row is removed.
StaffGrown ==
    /\ \A m \in Members : member[m] # NoRow => member'[m] # NoRow
    /\ \A l \in Leaves : leave[l] # NoRow => leave'[l] # NoRow
    /\ \A m \in Members : Len(day[m]) <= Len(day'[m])
    /\ StaffTypeOK' /\ day' \in [Members -> Seq(DayRow)] /\ OneCallDecides'

LEMMA StaffRows ==
    /\ \A row \in StaffRow : row # NoRow
    /\ \A row \in LeaveRow : row # NoRow
    /\ NoHead \notin Heads /\ MaxDayRows \in Nat
  BY StaffAssumption

LEMMA StaffCalled ==
    ASSUME DeskInv, NEW s \in Sessions, pc[s] # "idle"
    PROVE  /\ cmd[s].op \in {"hire", "amend", "retire", "ask"} => cmd[s].member \in Members
           /\ cmd[s].op = "hire" => cmd[s].tsc \in TscNumbers \cup {NoTsc}
           /\ cmd[s].op = "amend" =>
                IF "tsc" \in DOMAIN cmd[s] THEN cmd[s].tsc \in TscNumbers \cup {NoTsc}
                                           ELSE cmd[s].status \in StaffStatus
           /\ cmd[s].op \in {"ask", "decide"} => cmd[s].leave \in Leaves
           /\ cmd[s].op = "decide" =>
                cmd[s].by \in Heads /\ cmd[s].decision \in {"approved", "rejected"}
           /\ cmd[s].op = "day" =>
                \A m \in DOMAIN cmd[s].entries : m \in Members /\ cmd[s].entries[m] \in DayRow
<1>1. PICK c : c = cmd[s] /\ CommandFits(c)
  BY CallFits
<1>2. /\ c.op = "hire" => c.member \in Members /\ c.tsc \in TscNumbers \cup {NoTsc}
      /\ c.op = "retire" => c.member \in Members
      /\ c.op = "ask" => c.member \in Members /\ c.leave \in Leaves
      /\ c.op = "decide" => /\ c.leave \in Leaves
                            /\ c.by \in Heads /\ c.decision \in {"approved", "rejected"}
  BY <1>1 DEF CommandFits, HireRequest, RetireRequest, AskRequest, DecideRequest
<1>3. c.op = "amend" => /\ c.member \in Members
                        /\ IF "tsc" \in DOMAIN c THEN c.tsc \in TscNumbers \cup {NoTsc}
                                                 ELSE c.status \in StaffStatus
  BY <1>1 DEF CommandFits, AmendRequest
<1>4. ASSUME c.op = "day", NEW m \in DOMAIN c.entries
      PROVE  m \in Members /\ c.entries[m] \in DayRow
  <2>1. c \in DayRequest
    BY <1>1, <1>4 DEF CommandFits
  <2>2. c.entries \in UNION {[M -> DayRow] : M \in SUBSET Members}
    BY <2>1 DEF DayRequest
  <2>3. PICK M \in SUBSET Members : c.entries \in [M -> DayRow]
    BY <2>2
  <2>4. QED
    BY <1>4, <2>3
<1>5. QED
  BY <1>1, <1>2, <1>3, <1>4

LEMMA StaffGrow ==
    ASSUME DeskInv, StaffInv, StaffGrown,
           \A t \in Sessions : Same(t) \/ StaffSession(t)'
    PROVE  StaffInv'
<1>1. ASSUME NEW t \in Sessions, Same(t)
      PROVE  StaffSession(t)'
  <2>1. StaffSession(t)
    BY DEF StaffInv
  <2>2. pc'[t] = pc[t] /\ cmd'[t] = cmd[t] /\ seen'[t] = seen[t]
    BY <1>1 DEF Same
  <2>3. ASSUME At(t, "amend", "write") \/ At(t, "amend", "commit") \/ At(t, "retire", "write")
        PROVE  member'[cmd[t].member] # NoRow
    <3>1. cmd[t].member \in Members
      BY <2>3, StaffCalled DEF At
    <3>2. QED
      BY <2>1, <2>3, <3>1 DEF StaffSession, StaffGrown
  <2>4. ASSUME At(t, "decide", "write")
        PROVE  leave'[cmd[t].leave] # NoRow
    <3>1. cmd[t].leave \in Leaves
      BY <2>4, StaffCalled DEF At
    <3>2. QED
      BY <2>1, <2>4, <3>1 DEF StaffSession, StaffGrown
  <2>5. ASSUME At(t, "day", "write"), NEW m \in DOMAIN seen[t].found
        PROVE  seen[t].found[m].at <= Len(day'[m])
    <3>1. m \in Members
      BY <2>1, <2>5, StaffCalled DEF At, StaffSession
    <3>2. seen[t].found[m].at \in Nat /\ seen[t].found[m].at <= Len(day[m])
      BY <2>1, <2>5 DEF StaffSession
    <3>3. day[m] \in Seq(DayRow) /\ day'[m] \in Seq(DayRow)
      BY <3>1 DEF StaffInv, StaffGrown
    <3>4. Len(day[m]) \in Nat /\ Len(day'[m]) \in Nat /\ Len(day[m]) <= Len(day'[m])
      BY <3>1, <3>3 DEF StaffGrown
    <3>5. QED
      BY <3>2, <3>4
  <2>6. QED
    BY <2>1, <2>2, <2>3, <2>4, <2>5 DEF StaffSession, At
<1>2. QED
  BY <1>1 DEF StaffInv, StaffGrown

\* Rows that no call decides on are written.
LEMMA StaffUndecided ==
    ASSUME StaffInv, menu' = menu, leave' = leave
    PROVE  OneCallDecides' /\ (\A l \in Leaves : leave[l] # NoRow => leave'[l] # NoRow)
  BY DEF StaffInv, OneCallDecides, Decisions

LEMMA StaffUnchanged ==
    ASSUME StaffInv, UNCHANGED staffTables, menu' = menu
    PROVE  StaffGrown
<1>1. member' = member /\ leave' = leave /\ day' = day
  BY DEF staffTables
<1>2. \A m \in Members : Len(day[m]) \in Nat
  BY DEF StaffInv
<1>3. QED
  BY <1>1, <1>2, StaffUndecided DEF StaffGrown, StaffInv, StaffTypeOK

LEMMA StaffStays ==
    ASSUME DeskInv, StaffInv, UNCHANGED staffTables, menu' = menu, Quiet(StaffOps)
    PROVE  StaffInv'
<1>1. ASSUME NEW t \in Sessions, ~Same(t)
      PROVE  StaffSession(t)'
  BY <1>1 DEF Quiet, StaffOps, StaffSession, At
<1>2. QED
  BY <1>1, StaffUnchanged, StaffGrow

LEMMA MemberGrows ==
    ASSUME StaffInv, menu' = menu, NEW m \in Members, NEW row \in StaffRow,
           member' = [member EXCEPT ![m] = row], leave' = leave, day' = day
    PROVE  StaffGrown
<1>1. /\ member \in [Members -> StaffRow \cup {NoRow}]
      /\ leave \in [Leaves -> LeaveRow \cup {NoRow}]
      /\ \A x \in Members : /\ Len(day[x]) <= MaxDayRows
                            /\ \A i \in DOMAIN day[x] : day[x][i] \in DayRow
      /\ day \in [Members -> Seq(DayRow)]
  BY DEF StaffInv, StaffTypeOK
<1>2. /\ member' \in [Members -> StaffRow \cup {NoRow}] /\ member'[m] = row
      /\ \A x \in Members : x # m => member'[x] = member[x]
  BY <1>1
<1>3. \A x \in Members : Len(day[x]) \in Nat
  BY <1>1
<1>4. \A x \in Members : member[x] # NoRow => member'[x] # NoRow
  BY <1>2, StaffRows
<1>5. StaffTypeOK'
  BY <1>1, <1>2 DEF StaffTypeOK
<1>6. QED
  BY <1>1, <1>3, <1>4, <1>5, StaffUndecided DEF StaffGrown

\* A request for leave is pending and undecided, or decided by one call.
LEMMA LeaveGrows ==
    ASSUME StaffInv, menu' = menu, NEW l \in Leaves, NEW row \in LeaveRow,
           row.status = "pending" <=> row.approved_by = NoHead,
           row.status # "pending" => <<row.status, row.approved_by>> \in Decisions(l),
           leave' = [leave EXCEPT ![l] = row], member' = member, day' = day
    PROVE  StaffGrown
<1>1. /\ member \in [Members -> StaffRow \cup {NoRow}]
      /\ leave \in [Leaves -> LeaveRow \cup {NoRow}]
      /\ \A x \in Members : /\ Len(day[x]) <= MaxDayRows
                            /\ \A i \in DOMAIN day[x] : day[x][i] \in DayRow
      /\ day \in [Members -> Seq(DayRow)]
  BY DEF StaffInv, StaffTypeOK
<1>2. /\ leave' \in [Leaves -> LeaveRow \cup {NoRow}] /\ leave'[l] = row
      /\ \A k \in Leaves : k # l => leave'[k] = leave[k]
  BY <1>1
<1>3. \A x \in Members : Len(day[x]) \in Nat
  BY <1>1
<1>4. \A k \in Leaves : leave[k] # NoRow => leave'[k] # NoRow
  BY <1>2, StaffRows
<1>5. \A k \in Leaves : Decisions(k)' = Decisions(k)
  BY DEF Decisions
<1>6. ASSUME NEW k \in Leaves, leave'[k] # NoRow
      PROVE  /\ leave'[k].status = "pending" <=> leave'[k].approved_by = NoHead
             /\ leave'[k].status # "pending" =>
                  <<leave'[k].status, leave'[k].approved_by>> \in Decisions(k)'
  <2>1. CASE k = l
    BY <1>2, <1>5, <2>1
  <2>2. CASE k # l
    <3>1. leave'[k] = leave[k]
      BY <1>2, <2>2
    <3>2. /\ leave[k].status = "pending" <=> leave[k].approved_by = NoHead
          /\ leave[k].status # "pending" =>
               <<leave[k].status, leave[k].approved_by>> \in Decisions(k)
      BY <1>6, <3>1 DEF StaffInv, OneCallDecides
    <3>3. QED
      BY <1>5, <3>1, <3>2
  <2>3. QED
    BY <2>1, <2>2
<1>7. OneCallDecides'
  BY <1>6 DEF OneCallDecides
<1>8. StaffTypeOK'
  BY <1>1, <1>2 DEF StaffTypeOK
<1>9. QED
  BY <1>1, <1>3, <1>4, <1>7, <1>8 DEF StaffGrown

Decided(copy, by, decision) == [copy EXCEPT !.status = decision, !.approved_by = by]

\* What a decision leaves in a request another call may have decided.
LEMMA DecidedRow ==
    ASSUME NEW old \in LeaveRow, NEW copy \in LeaveRow,
           copy.status = "pending", copy.approved_by = NoHead,
           NEW by \in Heads, NEW decision \in {"approved", "rejected"}, NEW values, NEW row,
           values = Decided(copy, by, decision),
           row = SetChanged(old, copy, values)
    PROVE  row \in LeaveRow /\ row.status = decision /\ row.approved_by = by
<1>1. /\ values.status = decision /\ values.approved_by = by /\ values.member = copy.member
  BY DEF LeaveRow, Decided
<1>2. by # NoHead /\ decision # "pending"
  BY StaffRows
<1>3. /\ DOMAIN row = {"member", "status", "approved_by"}
      /\ row.status = decision /\ row.approved_by = by /\ row.member = old.member
      /\ row = [member |-> row.member, status |-> row.status, approved_by |-> row.approved_by]
  BY <1>1, <1>2 DEF SetChanged, LeaveRow
<1>4. old.member \in Members
  BY DEF LeaveRow
<1>5. QED
  BY <1>3, <1>4 DEF LeaveRow

LEMMA ChangedMember ==
    ASSUME NEW old \in StaffRow, NEW copy \in StaffRow, NEW values \in StaffRow
    PROVE  SetChanged(old, copy, values) \in StaffRow
  BY DEF SetChanged, StaffRow

LEMMA ChangedDay ==
    ASSUME NEW old \in DayRow, NEW copy \in DayRow, NEW values \in DayRow
    PROVE  SetChanged(old, copy, values) \in DayRow
  BY DEF SetChanged, DayRow

\* The rows of a day are written.
LEMMA DayWritten ==
    ASSUME DeskInv, StaffInv, NEW s \in Sessions, CommitDay(s)
    PROVE  StaffInv' /\ \E view : Went(s, "answer", view)
<1>0. pc[s] = "write" /\ cmd[s].op = "day" /\ member' = member /\ leave' = leave
  BY DEF CommitDay, At
<1>1. PICK view : Goto(s, "answer", view)
  BY DEF CommitDay
<1>2. Went(s, "answer", view)
  BY <1>0, <1>1, GotoGoes DEF DeskPhases
<1>3. PICK found, entries : found = seen[s].found /\ entries = cmd[s].entries
  OBVIOUS
<1>4. /\ DOMAIN found = DOMAIN entries
      /\ \A m \in DOMAIN found : /\ found[m].at \in Nat /\ found[m].at <= Len(day[m])
                                 /\ found[m].at # 0 => found[m].row \in DayRow
      /\ \A m \in DOMAIN entries : m \in Members /\ entries[m] \in DayRow
  <2>1. StaffSession(s)
    BY DEF StaffInv
  <2>2. QED
    BY <1>0, <1>3, <2>1, StaffCalled DEF StaffSession, At
<1>5. /\ day \in [Members -> Seq(DayRow)]
      /\ \A m \in Members : Len(day[m]) <= MaxDayRows /\ Len(day[m]) \in Nat
  BY DEF StaffInv, StaffTypeOK
<1>6. ASSUME NEW m \in DOMAIN found
      PROVE  /\ DayAfter(s, m) \in Seq(DayRow) /\ Len(day[m]) <= Len(DayAfter(s, m))
             /\ Len(DayAfter(s, m)) <= MaxDayRows
  <2>1. PICK old, f, values : old = day[m] /\ f = found[m] /\ values = entries[m]
    OBVIOUS
  <2>2. old \in Seq(DayRow) /\ values \in DayRow /\ f.at \in Nat /\ f.at <= Len(old)
    BY <1>4, <1>5, <1>6, <2>1
  <2>3. Len(DayAfter(s, m)) <= MaxDayRows
    BY <1>3, <1>6 DEF CommitDay
  <2>4. CASE f.at = 0
    <3>1. DayAfter(s, m) = Append(old, values)
      BY <1>3, <2>1, <2>4 DEF DayAfter
    <3>2. Append(old, values) \in Seq(DayRow) /\ Len(Append(old, values)) = Len(old) + 1
      BY <2>2
    <3>3. Len(old) \in Nat
      BY <2>2
    <3>4. QED
      BY <2>1, <2>3, <3>1, <3>2, <3>3
  <2>5. CASE f.at # 0
    <3>1. PICK row : row = SetChanged(old[f.at], f.row, values)
      OBVIOUS
    <3>2. f.at \in 1 .. Len(old) /\ DOMAIN old = 1 .. Len(old) /\ old[f.at] \in DayRow
      BY <2>2, <2>5
    <3>3. row \in DayRow
      BY <1>4, <1>6, <2>1, <2>2, <2>5, <3>1, <3>2, ChangedDay
    <3>4. DayAfter(s, m) = [old EXCEPT ![f.at] = row]
      BY <1>3, <2>1, <2>5, <3>1 DEF DayAfter
    <3>5. [old EXCEPT ![f.at] = row] \in Seq(DayRow) /\ Len([old EXCEPT ![f.at] = row]) = Len(old)
      BY <2>2, <3>2, <3>3
    <3>6. QED
      BY <2>1, <2>2, <2>3, <3>4, <3>5
  <2>6. QED
    BY <2>4, <2>5
<1>7. day' = [m \in Members |-> IF m \in DOMAIN found THEN DayAfter(s, m) ELSE day[m]]
  BY <1>3 DEF CommitDay
<1>8. /\ day' \in [Members -> Seq(DayRow)]
      /\ \A m \in Members : Len(day[m]) <= Len(day'[m]) /\ Len(day'[m]) <= MaxDayRows
  <2>1. ASSUME NEW m \in Members
        PROVE  /\ day'[m] \in Seq(DayRow)
               /\ Len(day[m]) <= Len(day'[m]) /\ Len(day'[m]) <= MaxDayRows
    <3>1. CASE m \in DOMAIN found
      <4>1. day'[m] = DayAfter(s, m)
        BY <1>7, <3>1
      <4>2. QED
        BY <1>6, <3>1, <4>1
    <3>2. CASE m \notin DOMAIN found
      <4>1. day'[m] = day[m]
        BY <1>7, <3>2
      <4>2. QED
        BY <1>5, <4>1
    <3>3. QED
      BY <3>1, <3>2
  <2>2. day' = [m \in Members |-> day'[m]]
    BY <1>7
  <2>3. QED
    BY <2>1, <2>2
<1>9. \A m \in Members : \A i \in DOMAIN day'[m] : day'[m][i] \in DayRow
  BY <1>8
<1>10. StaffTypeOK'
  BY <1>0, <1>8, <1>9 DEF StaffInv, StaffTypeOK
<1>11. StaffGrown
  BY <1>0, <1>2, <1>8, <1>10, StaffUndecided DEF StaffGrown, Went
<1>12. \A t \in Sessions : Same(t) \/ StaffSession(t)'
  BY <1>0, <1>2 DEF Went, Others, StaffSession, At
<1>13. QED
  BY <1>2, <1>11, <1>12, StaffGrow

LEMMA StaffKeeps ==
    ASSUME DeskInv, StaffInv, NEW s \in Sessions, StaffNext(s)
    PROVE  /\ StaffInv' /\ DeskInv' /\ menu' = menu /\ cmd[s].op \in StaffOps
           /\ Left(s) \/ \E phase, view : Went(s, phase, view)
<1>t. StaffSession(s) /\ StaffTypeOK
  BY DEF StaffInv
<1>l. ASSUME Left(s)
      PROVE  StaffSession(s)'
  BY <1>l DEF Left, StaffSession, At
\* A step after which the session knows what is true of the tables.
<1>n. ASSUME StaffGrown, StaffSession(s)', Left(s) \/ \E phase, view : Went(s, phase, view)
      PROVE  StaffInv' /\ DeskInv' /\ menu' = menu
  <2>1. Others(s) /\ DeskInv' /\ menu' = menu
    BY <1>n DEF Left, Went
  <2>2. \A t \in Sessions : Same(t) \/ StaffSession(t)'
    BY <1>n, <2>1 DEF Others
  <2>3. QED
    BY <1>n, <2>1, <2>2, StaffGrow
<1>u. ASSUME UNCHANGED staffTables, Left(s) \/ \E phase, view : Went(s, phase, view)
      PROVE  StaffGrown
  BY <1>u, StaffUnchanged DEF Left, Went
<1>1. CASE CheckHire(s)
  <2>1. cmd[s].op = "hire" /\ pc[s] = "start" /\ UNCHANGED staffTables
    BY <1>1 DEF CheckHire, At
  <2>2. Left(s) \/ Went(s, "write", NoView)
    BY <1>1, <2>1, FinishLeaves, GotoGoes DEF CheckHire, DeskPhases
  <2>3. StaffSession(s)'
    BY <1>l, <2>1, <2>2 DEF Went, StaffSession, At
  <2>4. QED
    BY <1>n, <1>u, <2>1, <2>2, <2>3 DEF StaffOps
<1>2. CASE CommitHire(s)
  <2>1. cmd[s].op = "hire" /\ pc[s] = "write" /\ leave' = leave /\ day' = day /\ Left(s)
    BY <1>2, FinishLeaves DEF CommitHire, At
  <2>2. PICK c : c = cmd[s] /\ c.member \in Members /\ c.tsc \in TscNumbers \cup {NoTsc}
    BY <2>1, StaffCalled
  <2>3. PICK row : row = NewMember(c.tsc)
    OBVIOUS
  <2>4. row \in StaffRow
    BY <2>2, <2>3 DEF NewMember, StaffRow, StaffStatus
  <2>5. member' = [member EXCEPT ![c.member] = row]
    BY <1>2, <2>2, <2>3 DEF CommitHire
  <2>6. StaffGrown
    BY <2>1, <2>2, <2>4, <2>5, MemberGrows DEF Left
  <2>7. QED
    BY <1>l, <1>n, <2>1, <2>6 DEF StaffOps
<1>3. CASE ReadMember(s)
  <2>1. /\ cmd[s].op \in {"amend", "retire", "ask", "attendance", "staff"} /\ pc[s] = "start"
        /\ UNCHANGED staffTables
    BY <1>3 DEF ReadMember, At
  <2>2. CASE Employed(cmd[s].member)
    <3>1. Went(s, "write", member[cmd[s].member])
      BY <1>3, <2>1, <2>2, GotoGoes DEF ReadMember, DeskPhases
    <3>2. member'[cmd[s].member] # NoRow /\ member[cmd[s].member] # NoRow
      BY <2>1, <2>2 DEF Employed, staffTables
    <3>3. cmd[s].op \in {"amend", "retire"} => member[cmd[s].member] \in StaffRow
      BY <1>t, <2>1, <3>2, StaffCalled DEF StaffTypeOK
    <3>4. StaffSession(s)'
      BY <2>1, <3>1, <3>2, <3>3 DEF Went, StaffSession, At
    <3>5. QED
      BY <1>n, <1>u, <2>1, <3>1, <3>4 DEF StaffOps
  <2>3. CASE ~Employed(cmd[s].member)
    <3>1. Left(s)
      BY <1>3, <2>3, FinishLeaves DEF ReadMember
    <3>2. QED
      BY <1>l, <1>n, <1>u, <2>1, <3>1 DEF StaffOps
  <2>4. QED
    BY <2>2, <2>3
<1>4. CASE CheckAmend(s)
  <2>1. cmd[s].op = "amend" /\ pc[s] = "write" /\ UNCHANGED staffTables
    BY <1>4 DEF CheckAmend, At
  <2>2. Left(s) \/ Went(s, "commit", seen[s])
    BY <1>4, <2>1, FinishLeaves, GotoGoes DEF CheckAmend, DeskPhases
  <2>3. StaffSession(s)'
    BY <1>l, <1>t, <2>1, <2>2 DEF Went, StaffSession, At, staffTables
  <2>4. QED
    BY <1>n, <1>u, <2>1, <2>2, <2>3 DEF StaffOps
<1>5. CASE CommitAmend(s)
  <2>1. cmd[s].op = "amend" /\ pc[s] = "commit" /\ leave' = leave /\ day' = day /\ Left(s)
    BY <1>5, FinishLeaves DEF CommitAmend, At
  <2>2. PICK c, copy, old : c = cmd[s] /\ copy = seen[s] /\ old = member[c.member]
    OBVIOUS
  <2>3. /\ c.member \in Members
        /\ IF "tsc" \in DOMAIN c THEN c.tsc \in TscNumbers \cup {NoTsc}
                                 ELSE c.status \in StaffStatus
    BY <2>1, <2>2, StaffCalled
  <2>4. copy \in StaffRow /\ old \in StaffRow
    BY <1>t, <2>1, <2>2, <2>3 DEF StaffSession, StaffTypeOK, At
  <2>5. PICK values : values = IF "tsc" \in DOMAIN c THEN [copy EXCEPT !.tsc = c.tsc]
                                                   ELSE [copy EXCEPT !.status = c.status]
    OBVIOUS
  <2>6. values \in StaffRow
    BY <2>3, <2>4, <2>5 DEF StaffRow
  <2>7. PICK row : row = SetChanged(old, copy, values)
    OBVIOUS
  <2>8. row \in StaffRow
    BY <2>4, <2>6, <2>7, ChangedMember
  <2>9. member' = [member EXCEPT ![c.member] = row]
    BY <1>5, <2>2, <2>5, <2>7 DEF CommitAmend
  <2>10. StaffGrown
    BY <2>1, <2>3, <2>8, <2>9, MemberGrows DEF Left
  <2>11. QED
    BY <1>l, <1>n, <2>1, <2>10 DEF StaffOps
<1>6. CASE CommitRetire(s)
  <2>1. cmd[s].op = "retire" /\ pc[s] = "write" /\ leave' = leave /\ day' = day /\ Left(s)
    BY <1>6, FinishLeaves DEF CommitRetire, At
  <2>2. PICK m, old : m = cmd[s].member /\ old = member[m]
    OBVIOUS
  <2>3. m \in Members
    BY <2>1, <2>2, StaffCalled
  <2>4. old \in StaffRow
    BY <1>t, <2>1, <2>2, <2>3 DEF StaffSession, StaffTypeOK, At
  <2>5. PICK row : row = [old EXCEPT !.deleted = TRUE]
    OBVIOUS
  <2>6. row \in StaffRow
    BY <2>4, <2>5 DEF StaffRow
  <2>7. member' = [member EXCEPT ![m] = row]
    BY <1>6, <2>2, <2>5 DEF CommitRetire
  <2>8. StaffGrown
    BY <2>1, <2>3, <2>6, <2>7, MemberGrows DEF Left
  <2>9. QED
    BY <1>l, <1>n, <2>1, <2>8 DEF StaffOps
<1>7. CASE CommitAsk(s)
  <2>1. cmd[s].op = "ask" /\ pc[s] = "write" /\ member' = member /\ day' = day /\ Left(s)
    BY <1>7, FinishLeaves DEF CommitAsk, At
  <2>2. PICK c : c = cmd[s] /\ c.member \in Members /\ c.leave \in Leaves
    BY <2>1, StaffCalled
  <2>3. StaffGrown
    <3>1. CASE c.days > 0 /\ leave[c.leave] = NoRow
      <4>1. PICK row : row = [member |-> c.member, status |-> "pending", approved_by |-> NoHead]
        OBVIOUS
      <4>2. row \in LeaveRow /\ row.status = "pending" /\ row.approved_by = NoHead
        BY <2>2, <4>1 DEF LeaveRow
      <4>3. leave' = [leave EXCEPT ![c.leave] = row]
        BY <1>7, <2>2, <3>1, <4>1 DEF CommitAsk
      <4>4. QED
        BY <2>1, <2>2, <4>2, <4>3, LeaveGrows DEF Left
    <3>2. CASE ~(c.days > 0 /\ leave[c.leave] = NoRow)
      <4>1. leave' = leave
        BY <1>7, <2>2, <3>2 DEF CommitAsk
      <4>2. QED
        BY <1>u, <2>1, <4>1 DEF staffTables
    <3>3. QED
      BY <3>1, <3>2
  <2>4. QED
    BY <1>l, <1>n, <2>1, <2>3 DEF StaffOps
<1>8. CASE ReadLeave(s)
  <2>1. cmd[s].op = "decide" /\ pc[s] = "start" /\ UNCHANGED staffTables
    BY <1>8 DEF ReadLeave, At
  <2>2. PICK row : row = leave[cmd[s].leave]
    OBVIOUS
  <2>3. CASE row # NoRow /\ row.status = "pending"
    <3>1. Went(s, "write", row)
      BY <1>8, <2>1, <2>2, <2>3, GotoGoes DEF ReadLeave, DeskPhases
    <3>2. cmd[s].leave \in Leaves
      BY <2>1, StaffCalled
    <3>3. row \in LeaveRow /\ row.approved_by = NoHead
      BY <1>t, <2>2, <2>3, <3>2 DEF StaffTypeOK, StaffInv, OneCallDecides
    <3>4. StaffSession(s)'
      BY <2>1, <2>2, <2>3, <3>1, <3>3 DEF Went, StaffSession, At, staffTables
    <3>5. QED
      BY <1>n, <1>u, <2>1, <3>1, <3>4 DEF StaffOps
  <2>4. CASE ~(row # NoRow /\ row.status = "pending")
    <3>1. Left(s)
      BY <1>8, <2>2, <2>4, FinishLeaves DEF ReadLeave
    <3>2. QED
      BY <1>l, <1>n, <1>u, <2>1, <3>1 DEF StaffOps
  <2>5. QED
    BY <2>3, <2>4
<1>9. CASE CommitDecision(s)
  <2>1. cmd[s].op = "decide" /\ pc[s] = "write" /\ member' = member /\ day' = day /\ Left(s)
    BY <1>9, FinishLeaves DEF CommitDecision, At
  <2>2. PICK c, copy, old : c = cmd[s] /\ copy = seen[s] /\ old = leave[c.leave]
    OBVIOUS
  <2>3. /\ c.leave \in Leaves /\ c.by \in Heads /\ c.decision \in {"approved", "rejected"}
        /\ c \in menu
    BY <2>1, <2>2, StaffCalled, CallFits
  <2>4. /\ copy \in LeaveRow /\ old \in LeaveRow
        /\ copy.status = "pending" /\ copy.approved_by = NoHead
    BY <1>t, <2>1, <2>2, <2>3 DEF StaffSession, StaffTypeOK, At
  <2>5. PICK values : values = [copy EXCEPT !.status = c.decision, !.approved_by = c.by]
    OBVIOUS
  <2>6. PICK row : row = SetChanged(old, copy, values)
    OBVIOUS
  <2>7. row \in LeaveRow /\ row.status = c.decision /\ row.approved_by = c.by
    <3>1. PICK by \in Heads, decision \in {"approved", "rejected"} :
             by = c.by /\ decision = c.decision
      BY <2>3
    <3>2. values = Decided(copy, by, decision)
      BY <2>5, <3>1 DEF Decided
    <3>3. QED
      BY <2>4, <2>6, <3>1, <3>2, DecidedRow
  <2>8. /\ row.status # "pending" /\ row.approved_by # NoHead
    BY <2>3, <2>7, StaffRows
  <2>9. <<row.status, row.approved_by>> \in Decisions(c.leave)
    BY <2>1, <2>2, <2>3, <2>7 DEF Decisions
  <2>10. leave' = [leave EXCEPT ![c.leave] = row]
    BY <1>9, <2>2, <2>5, <2>6 DEF CommitDecision
  <2>11. StaffGrown
    BY <2>1, <2>3, <2>7, <2>8, <2>9, <2>10, LeaveGrows DEF Left
  <2>12. QED
    BY <1>l, <1>n, <2>1, <2>11 DEF StaffOps
<1>10. CASE ReadDay(s)
  <2>1. cmd[s].op = "day" /\ pc[s] = "start" /\ UNCHANGED staffTables
    BY <1>10 DEF ReadDay, At
  <2>2. PICK entries : entries = cmd[s].entries
    OBVIOUS
  <2>3. PICK at \in [DOMAIN entries -> 0 .. MaxDayRows] :
          /\ \A m \in DOMAIN at : IF day[m] = <<>> THEN at[m] = 0 ELSE at[m] \in DOMAIN day[m]
          /\ Goto(s, "write", [found |-> [m \in DOMAIN at |->
                [at |-> at[m], row |-> IF at[m] = 0 THEN NoRow ELSE day[m][at[m]]]]])
    BY <1>10, <2>2 DEF ReadDay
  <2>4. PICK found : found = [m \in DOMAIN at |->
                [at |-> at[m], row |-> IF at[m] = 0 THEN NoRow ELSE day[m][at[m]]]]
    OBVIOUS
  <2>5. PICK view : view = [found |-> found]
    OBVIOUS
  <2>6. Went(s, "write", view)
    BY <2>1, <2>3, <2>4, <2>5, GotoGoes DEF DeskPhases
  <2>7. DOMAIN found = DOMAIN entries /\ view.found = found /\ DOMAIN at = DOMAIN entries
    BY <2>4, <2>5
  <2>8. ASSUME NEW m \in DOMAIN found
        PROVE  /\ found[m].at \in Nat /\ found[m].at <= Len(day[m])
               /\ found[m].at # 0 => found[m].row \in DayRow
    <3>1. m \in Members
      BY <2>1, <2>2, <2>7, StaffCalled
    <3>2. PICK d : d = day[m] /\ d \in Seq(DayRow)
      BY <3>1 DEF StaffInv
    <3>3. Len(d) \in Nat /\ DOMAIN d = 1 .. Len(d) /\ \A i \in 1 .. Len(d) : d[i] \in DayRow
      BY <3>2
    <3>4. at[m] = 0 \/ at[m] \in 1 .. Len(d)
      BY <2>3, <2>7, <3>2, <3>3
    <3>5. found[m].at = at[m] /\ (at[m] # 0 => found[m].row = d[at[m]])
      BY <2>4, <2>7, <3>2
    <3>6. QED
      BY <3>2, <3>3, <3>4, <3>5
  <2>9. StaffSession(s)'
    <3>1. pc'[s] = "write" /\ cmd'[s] = cmd[s] /\ seen'[s] = view /\ day' = day
      BY <2>1, <2>6 DEF Went, staffTables
    <3>2. QED
      BY <2>1, <2>2, <2>7, <2>8, <3>1 DEF StaffSession, At
  <2>10. QED
    BY <1>n, <1>u, <2>1, <2>6, <2>9 DEF StaffOps
<1>11. CASE CommitDay(s)
  <2>1. cmd[s].op = "day"
    BY <1>11 DEF CommitDay, At
  <2>2. QED
    BY <1>11, <2>1, DayWritten DEF Went, StaffOps
<1>12. CASE ReadStaff(s)
  <2>1. PICK view : /\ Goto(s, "answer", view) /\ pc[s] = "write"
                    /\ cmd[s].op \in {"attendance", "staff"} /\ UNCHANGED staffTables
    BY <1>12 DEF ReadStaff, At
  <2>2. Went(s, "answer", view)
    BY <2>1, GotoGoes DEF DeskPhases
  <2>3. StaffSession(s)'
    BY <2>1, <2>2 DEF Went, StaffSession, At
  <2>4. QED
    BY <1>n, <1>u, <2>1, <2>2, <2>3 DEF StaffOps
<1>13. CASE AnswerStaff(s)
  <2>1. cmd[s].op \in {"day", "attendance", "staff"} /\ UNCHANGED staffTables /\ Left(s)
    BY <1>13, FinishLeaves DEF AnswerStaff, At
  <2>2. QED
    BY <1>l, <1>n, <1>u, <2>1 DEF StaffOps
<1>14. QED
  BY <1>1, <1>2, <1>3, <1>4, <1>5, <1>6, <1>7, <1>8, <1>9, <1>10, <1>11, <1>12, <1>13
  DEF StaffNext

LEMMA StaffStarts ==
    ASSUME DeskInit, StaffInit
    PROVE  StaffInv
<1>1. NewMember(NoTsc) \in StaffRow
  BY DEF NewMember, StaffRow, StaffStatus
<1>2. \A m \in Members : day[m] = <<>>
  BY DEF StaffInit
<1>3. <<>> \in Seq(DayRow) /\ Len(<<>>) = 0 /\ DOMAIN <<>> = {}
  OBVIOUS
<1>4. MaxDayRows \in Nat
  BY StaffRows
<1>5. StaffTypeOK
  BY <1>1, <1>2, <1>3, <1>4 DEF StaffInit, StaffTypeOK
<1>6. day \in [Members -> Seq(DayRow)]
  BY <1>3 DEF StaffInit
<1>7. OneCallDecides /\ \A s \in Sessions : StaffSession(s)
  BY DEF DeskInit, StaffInit, OneCallDecides, StaffSession, At
<1>8. QED
  BY <1>5, <1>6, <1>7 DEF StaffInv

-----------------------------------------------------------------------------
(* Messages. *)

MessageOps == {"sms", "messages"}

Statuses == {"queued", "sent", "failed"}

SmsView == [id: MessageIds, counted: SUBSET MessageIds, status: Statuses,
            provider: Gateways \cup {NoProvider}]

AskedFor(m) == {r \in requests : r.message = m}

LEMMA MessageIsRow ==
    ASSUME NEW row \in MessageRow
    PROVE  row # NoRow
  BY MessagesAssumption

LEMMA SessionSends ==
    ASSUME MessagesInv, NEW s \in Sessions, Sending(s)
    PROVE  seen[s] \in SmsView /\ message[seen[s].id] = NoRow
  BY DEF MessagesInv, MessagesSession, SmsView, Statuses

\* What the gateways have said of a message depends on what was asked for it.
LEMMA SaidStands ==
    ASSUME NEW m, AskedFor(m)' = AskedFor(m)
    PROVE  \A g : Said(m, g)' = Said(m, g)
<1>1. ASSUME NEW g
      PROVE  {q \in requests' : q.message = m /\ q.gateway = g}
               = {q \in requests : q.message = m /\ q.gateway = g}
  BY DEF AskedFor
<1>2. QED
  BY <1>1 DEF Said

LEMMA SaidNothing ==
    ASSUME NEW m, AskedFor(m) = {}
    PROVE  \A g : Said(m, g) = {}
<1>1. \A g : {q \in requests : q.message = m /\ q.gateway = g} = {}
  BY DEF AskedFor
<1>2. QED
  BY <1>1 DEF Said

\* A gateway that is asked for a message says one thing more of it.
LEMMA GatewaySays ==
    ASSUME NEW m, NEW g, NEW outcome,
           requests' = requests \cup {[message |-> m, gateway |-> g, outcome |-> outcome]}
    PROVE  /\ Said(m, g)' = Said(m, g) \cup {outcome}
           /\ \A h : h # g => Said(m, h)' = Said(m, h)
<1>1. PICK r : r = [message |-> m, gateway |-> g, outcome |-> outcome]
  OBVIOUS
<1>2. requests' = requests \cup {r} /\ r.message = m /\ r.gateway = g /\ r.outcome = outcome
  BY <1>1
<1>3. ASSUME NEW h, h # g
      PROVE  {q \in requests' : q.message = m /\ q.gateway = h}
               = {q \in requests : q.message = m /\ q.gateway = h}
  BY <1>2, <1>3
<1>4. PICK Before, After : /\ Before = {q \in requests : q.message = m /\ q.gateway = g}
                           /\ After = {q \in requests' : q.message = m /\ q.gateway = g}
  OBVIOUS
<1>5. After = Before \cup {r}
  BY <1>2, <1>4
<1>6. {q.outcome : q \in After} = {q.outcome : q \in Before} \cup {outcome}
  BY <1>2, <1>5
<1>7. QED
  BY <1>3, <1>4, <1>6 DEF Said

\* What is true of a message depends on what was asked for it.
LEMMA TruthStands ==
    ASSUME NEW m, NEW row, AskedFor(m)' = AskedFor(m), enabled' = enabled, Truthful(m, row)
    PROVE  Truthful(m, row)'
  BY SaidStands DEF Truthful, SentBySparrow, SentByAakash, NotAccepted

\* A step that asks nothing for the messages of the other sessions.
LEMMA MessagesMove ==
    ASSUME MessagesInv, NEW s \in Sessions, Others(s), enabled' = enabled,
           MessagesTypeOK', RecordsTellTheTruth', MessagesSession(s)',
           \A t \in Sessions \ {s} : Sending(t) =>
               /\ AskedFor(seen[t].id)' = AskedFor(seen[t].id)
               /\ message'[seen[t].id] = NoRow
               /\ Sending(s)' => seen'[s].id # seen[t].id
    PROVE  MessagesInv'
<1>1. ASSUME NEW t \in Sessions \ {s}
      PROVE  MessagesSession(t)'
  <2>1. pc'[t] = pc[t] /\ cmd'[t] = cmd[t] /\ seen'[t] = seen[t] /\ MessagesSession(t)
    BY DEF Others, Same, MessagesInv
  <2>2. CASE Sending(t)
    <3>1. PICK v : v = seen[t]
      OBVIOUS
    <3>2. AskedFor(v.id)' = AskedFor(v.id) /\ message'[v.id] = NoRow
      BY <2>1, <2>2, <3>1
    <3>3. /\ Truthful(v.id, v) => Truthful(v.id, v)'
          /\ \A g : Said(v.id, g)' = Said(v.id, g)
      BY <3>2, TruthStands, SaidStands
    <3>4. Sending(t)'
      BY <2>1, <2>2 DEF Sending
    <3>5. QED
      BY <2>1, <2>2, <3>1, <3>2, <3>3, <3>4 DEF MessagesSession, Sending, At, NotAccepted
  <2>3. CASE ~Sending(t)
    <3>1. ~Sending(t)'
      BY <2>1, <2>3 DEF Sending
    <3>2. QED
      BY <2>1, <3>1 DEF MessagesSession, At
  <2>4. QED
    BY <2>2, <2>3
<1>2. ASSUME NEW t \in Sessions, NEW u \in Sessions, t # u, Sending(t)', Sending(u)'
      PROVE  seen'[t].id # seen'[u].id
  <2>1. \A x \in Sessions \ {s} : Sending(x)' => Sending(x) /\ seen'[x] = seen[x]
    BY DEF Others, Same, Sending
  <2>2. CASE t = s
    BY <1>2, <2>1, <2>2
  <2>3. CASE u = s
    BY <1>2, <2>1, <2>3
  <2>4. CASE t # s /\ u # s
    BY <1>2, <2>1, <2>4 DEF MessagesInv
  <2>5. QED
    BY <2>2, <2>3, <2>4
<1>3. QED
  BY <1>1, <1>2 DEF MessagesInv

\* Nothing is asked and nothing recorded, and no message begun.
LEMMA MessagesQuiet ==
    ASSUME MessagesInv, UNCHANGED messageTables,
           \A t \in Sessions : Same(t) \/ (MessagesSession(t)' /\ ~Sending(t)')
    PROVE  MessagesInv'
<1>1. message' = message /\ enabled' = enabled /\ requests' = requests
  BY DEF messageTables
<1>2. MessagesTypeOK' /\ RecordsTellTheTruth'
  BY <1>1 DEF MessagesInv, MessagesTypeOK, RecordsTellTheTruth, Truthful, SentBySparrow,
              SentByAakash, NotAccepted, Said
<1>3. ASSUME NEW t \in Sessions, Same(t)
      PROVE  MessagesSession(t)'
  <2>1. pc'[t] = pc[t] /\ cmd'[t] = cmd[t] /\ seen'[t] = seen[t] /\ MessagesSession(t)
    BY <1>3 DEF Same, MessagesInv
  <2>2. PICK v : v = seen[t]
    OBVIOUS
  <2>3. AskedFor(v.id)' = AskedFor(v.id)
    BY <1>1 DEF AskedFor
  <2>4. /\ Truthful(v.id, v) => Truthful(v.id, v)'
        /\ \A g : Said(v.id, g)' = Said(v.id, g)
    BY <1>1, <2>3, TruthStands, SaidStands
  <2>5. Sending(t)' <=> Sending(t)
    BY <2>1 DEF Sending
  <2>6. CASE Sending(t)
    BY <1>1, <2>1, <2>2, <2>3, <2>4, <2>5, <2>6 DEF MessagesSession, Sending, At, NotAccepted
  <2>7. CASE ~Sending(t)
    BY <2>1, <2>5, <2>7 DEF MessagesSession, At
  <2>8. QED
    BY <2>6, <2>7
<1>4. \A t \in Sessions : Sending(t)' => Sending(t) /\ seen'[t] = seen[t]
  BY DEF Same, Sending
<1>5. QED
  BY <1>2, <1>3, <1>4 DEF MessagesInv

LEMMA MessagesStays ==
    ASSUME MessagesInv, UNCHANGED messageTables, Quiet(MessageOps)
    PROVE  MessagesInv'
<1>1. ASSUME NEW t \in Sessions, ~Same(t)
      PROVE  MessagesSession(t)' /\ ~Sending(t)'
  BY <1>1 DEF Quiet, MessageOps, MessagesSession, Sending, At
<1>2. QED
  BY <1>1, MessagesQuiet

\* A new message is begun.
LEMMA SmsStarted ==
    ASSUME DeskInv, MessagesInv, NEW s \in Sessions, StartSms(s)
    PROVE  MessagesInv' /\ \E phase, view : Went(s, phase, view)
<1>0. pc[s] = "start" /\ cmd[s].op = "sms" /\ UNCHANGED messageTables
  BY DEF StartSms, At
<1>1. message' = message /\ enabled' = enabled /\ requests' = requests
  BY <1>0 DEF messageTables
<1>2. PICK m \in MessageIds :
        /\ Unused(m)
        /\ Goto(s, IF enabled = {} THEN "commit" ELSE "write",
                [id |-> m, counted |-> Counted(s), status |-> "queued", provider |-> NoProvider])
  BY DEF StartSms
<1>3. PICK phase, view :
        /\ phase = IF enabled = {} THEN "commit" ELSE "write"
        /\ view = [id |-> m, counted |-> Counted(s), status |-> "queued", provider |-> NoProvider]
  OBVIOUS
<1>4. Went(s, phase, view)
  BY <1>0, <1>2, <1>3, GotoGoes DEF DeskPhases
<1>5. Counted(s) \in SUBSET MessageIds
  BY <1>0 DEF Counted, MessagesInv, MessagesSession, At
<1>6. view \in SmsView /\ view.id = m /\ view.status = "queued"
  BY <1>3, <1>5 DEF SmsView, Statuses
<1>7. AskedFor(m) = {} /\ message[m] = NoRow
      /\ \A t \in Sessions : Sending(t) => seen[t].id # m
  BY <1>2 DEF Unused, AskedFor, Sending
<1>8. \A g : Said(m, g)' = {}
  BY <1>1, <1>7, SaidNothing DEF Said
<1>9. enabled = {} => Truthful(m, view)'
  BY <1>1, <1>6, <1>8 DEF Truthful, NotAccepted
<1>10. pc'[s] = phase /\ cmd'[s].op = "sms" /\ seen'[s] = view
  BY <1>0, <1>4 DEF Went
<1>11. MessagesSession(s)'
  BY <1>1, <1>3, <1>6, <1>7, <1>8, <1>9, <1>10 DEF MessagesSession, Sending, SmsView, Statuses, At
<1>12. MessagesTypeOK' /\ RecordsTellTheTruth'
  BY <1>1 DEF MessagesInv, MessagesTypeOK, RecordsTellTheTruth, Truthful, SentBySparrow,
              SentByAakash, NotAccepted, Said
<1>13. \A t \in Sessions \ {s} : Sending(t) =>
          /\ AskedFor(seen[t].id)' = AskedFor(seen[t].id)
          /\ message'[seen[t].id] = NoRow
          /\ Sending(s)' => seen'[s].id # seen[t].id
  <2>1. ASSUME NEW t \in Sessions \ {s}, Sending(t)
        PROVE  /\ AskedFor(seen[t].id)' = AskedFor(seen[t].id)
               /\ message'[seen[t].id] = NoRow
               /\ seen'[s].id # seen[t].id
    <3>1. seen'[t] = seen[t] /\ message[seen[t].id] = NoRow
      BY <1>4, <2>1, SessionSends DEF Went, Others, Same
    <3>2. QED
      BY <1>1, <1>6, <1>7, <1>10, <2>1, <3>1 DEF AskedFor
  <2>2. QED
    BY <2>1
<1>14. MessagesInv'
  BY <1>1, <1>4, <1>11, <1>12, <1>13, MessagesMove DEF Went
<1>15. QED
  BY <1>4, <1>14

\* A gateway is asked, and the call goes on with what it has learnt.
LEMMA GatewayAsked ==
    ASSUME DeskInv, MessagesInv, NEW s \in Sessions, Sending(s),
           NEW g \in Gateways, NEW outcome \in Outcomes, Ask(s, g, outcome),
           message' = message, enabled' = enabled,
           NEW phase \in {"list", "commit"}, NEW view, Went(s, phase, view),
           view = Answered(s, g, outcome), MessagesSession(s)'
    PROVE  MessagesInv'
<1>1. PICK v, r : v = seen[s] /\ r = [message |-> v.id, gateway |-> g, outcome |-> outcome]
  OBVIOUS
<1>2. requests' = requests \cup {r} /\ r.message = v.id
  BY <1>1 DEF Ask
<1>3. v \in SmsView /\ message[v.id] = NoRow
  BY <1>1, SessionSends
<1>4. \A m : m # v.id => AskedFor(m)' = AskedFor(m)
  BY <1>2 DEF AskedFor
<1>5. view.id = v.id
  BY <1>1, <1>3 DEF Answered, SmsView
<1>6. MessagesTypeOK'
  <2>1. r \in [message: MessageIds, gateway: Gateways, outcome: Outcomes]
    BY <1>1, <1>3 DEF SmsView
  <2>2. QED
    BY <1>2, <2>1 DEF MessagesInv, MessagesTypeOK
<1>7. RecordsTellTheTruth'
  <2>1. ASSUME NEW m \in MessageIds, message'[m] # NoRow
        PROVE  Truthful(m, message[m])'
    <3>1. PICK row : row = message[m]
      OBVIOUS
    <3>2. m # v.id /\ Truthful(m, row)
      BY <1>3, <2>1, <3>1 DEF MessagesInv, RecordsTellTheTruth
    <3>3. Truthful(m, row)'
      BY <1>4, <3>2, TruthStands
    <3>4. QED
      BY <3>1, <3>3 DEF Truthful, SentBySparrow, SentByAakash, NotAccepted, Said
  <2>2. QED
    BY <2>1 DEF RecordsTellTheTruth
<1>8. \A t \in Sessions \ {s} : Sending(t) =>
          /\ AskedFor(seen[t].id)' = AskedFor(seen[t].id)
          /\ message'[seen[t].id] = NoRow
          /\ Sending(s)' => seen'[s].id # seen[t].id
  <2>1. ASSUME NEW t \in Sessions \ {s}, Sending(t)
        PROVE  /\ AskedFor(seen[t].id)' = AskedFor(seen[t].id)
               /\ message'[seen[t].id] = NoRow
               /\ seen'[s].id # seen[t].id
    <3>1. PICK x : x = seen[t].id
      OBVIOUS
    <3>2. seen'[t] = seen[t] /\ message[x] = NoRow /\ x # v.id
      BY <1>1, <2>1, <3>1, SessionSends DEF Went, Others, Same, MessagesInv
    <3>3. AskedFor(x)' = AskedFor(x)
      BY <1>4, <3>2
    <3>4. AskedFor(seen[t].id)' = AskedFor(x)'
      BY <3>1, <3>2 DEF AskedFor
    <3>5. seen'[s].id = v.id
      BY <1>5 DEF Went
    <3>6. QED
      BY <3>1, <3>2, <3>3, <3>4, <3>5
  <2>2. QED
    BY <2>1
<1>9. QED
  BY <1>6, <1>7, <1>8, MessagesMove DEF Went

\* The fields of what a call has learnt.
LEMMA AnswerFields ==
    ASSUME MessagesInv, NEW s \in Sessions, Sending(s),
           NEW g \in Gateways, NEW outcome \in Outcomes, NEW view, view = Answered(s, g, outcome)
    PROVE  /\ view \in SmsView /\ view.id = seen[s].id
           /\ TakenAsSent(g, outcome) => view.status = "sent" /\ view.provider = g
           /\ ~TakenAsSent(g, outcome) => view.status = "failed"
<1>1. PICK v : v = seen[s] /\ v \in SmsView
  BY SessionSends
<1>2. QED
  BY <1>1 DEF Answered, SmsView, Statuses

LEMMA MessagesKeeps ==
    ASSUME DeskInv, MessagesInv, NEW s \in Sessions, MessagesNext(s)
    PROVE  /\ MessagesInv' /\ DeskInv' /\ menu' = menu /\ cmd[s].op \in MessageOps
           /\ Left(s) \/ \E phase, view : Went(s, phase, view)
<1>q. ASSUME UNCHANGED messageTables, MessagesSession(s)', ~Sending(s)',
             Left(s) \/ \E phase, view : Went(s, phase, view)
      PROVE  MessagesInv' /\ DeskInv' /\ menu' = menu
  <2>1. Others(s) /\ DeskInv' /\ menu' = menu
    BY <1>q DEF Left, Went
  <2>2. \A t \in Sessions : Same(t) \/ (MessagesSession(t)' /\ ~Sending(t)')
    BY <1>q, <2>1 DEF Others
  <2>3. QED
    BY <1>q, <2>1, <2>2, MessagesQuiet
<1>1. CASE StartSms(s)
  <2>1. cmd[s].op = "sms"
    BY <1>1 DEF StartSms, At
  <2>2. QED
    BY <1>1, <2>1, SmsStarted DEF Went, MessageOps
<1>2. CASE AskGateway(s)
  <2>1. cmd[s].op = "sms" /\ pc[s] = "write" /\ message' = message /\ enabled' = enabled
    BY <1>2 DEF AskGateway, At
  <2>2. Sending(s)
    BY <2>1 DEF Sending
  <2>3. PICK g : g = FirstGateway
    OBVIOUS
  <2>4. /\ enabled # {} /\ (\A h \in Gateways : Said(seen[s].id, h) = {})
        /\ enabled \subseteq Gateways
    BY <2>1, <2>2 DEF MessagesInv, MessagesSession, MessagesTypeOK
  <2>5. g \in enabled /\ g \in Gateways /\ (enabled = Gateways => g = "sparrow")
        /\ (enabled # Gateways => enabled = {g})
    BY <2>3, <2>4 DEF FirstGateway, Gateways
  <2>6. PICK outcome \in Outcomes :
          /\ Ask(s, g, outcome)
          /\ Goto(s, IF ~TakenAsSent(g, outcome) /\ enabled = Gateways
                     THEN "list" ELSE "commit",
                  Answered(s, g, outcome))
    BY <1>2, <2>3 DEF AskGateway
  <2>7. PICK phase \in {"list", "commit"}, view \in {Answered(s, g, outcome)} :
          phase = IF ~TakenAsSent(g, outcome) /\ enabled = Gateways THEN "list" ELSE "commit"
    OBVIOUS
  <2>8. Went(s, phase, view)
    BY <2>1, <2>6, <2>7, GotoGoes DEF DeskPhases
  <2>9. /\ view \in SmsView /\ view.id = seen[s].id
        /\ TakenAsSent(g, outcome) => view.status = "sent" /\ view.provider = g
        /\ ~TakenAsSent(g, outcome) => view.status = "failed"
    BY <2>2, <2>5, <2>7, AnswerFields
  <2>10. PICK id : id = seen[s].id
    OBVIOUS
  <2>11. requests' = requests \cup {[message |-> id, gateway |-> g, outcome |-> outcome]}
    BY <2>6, <2>10 DEF Ask
  <2>12. Said(id, g)' = {outcome} /\ \A h \in Gateways : h # g => Said(id, h)' = {}
    <3>1. /\ Said(id, g)' = Said(id, g) \cup {outcome}
          /\ \A h : h # g => Said(id, h)' = Said(id, h)
      BY <2>11, GatewaySays
    <3>2. \A h \in Gateways : Said(id, h) = {}
      BY <2>4, <2>10
    <3>3. QED
      BY <2>5, <3>1, <3>2
  <2>13. pc'[s] = phase /\ cmd'[s].op = "sms" /\ seen'[s] = view
    BY <2>1, <2>8 DEF Went
  <2>14. phase = "commit" => Truthful(id, view)'
    <3>1. ASSUME TakenAsSent(g, outcome)
          PROVE  Truthful(id, view)'
      <4>1. CASE g = "sparrow"
        BY <2>9, <2>12, <3>1, <4>1 DEF Truthful, SentBySparrow, TakenAsSent, Gateways
      <4>2. CASE g = "aakash"
        <5>1. enabled' = {"aakash"}
          BY <2>1, <2>5, <4>2 DEF Gateways
        <5>2. NotAccepted(id, "sparrow")'
          BY <2>12, <4>2, <5>1 DEF NotAccepted, Gateways
        <5>3. SentByAakash(id)'
          BY <2>12, <3>1, <4>2, <5>2 DEF SentByAakash, TakenAsSent
        <5>4. QED
          BY <2>9, <3>1, <4>2, <5>3 DEF Truthful
      <4>3. QED
        BY <2>5, <4>1, <4>2 DEF Gateways
    <3>2. ASSUME ~TakenAsSent(g, outcome), phase = "commit"
          PROVE  Truthful(id, view)'
      <4>1. enabled' = {g}
        BY <2>1, <2>5, <2>7, <3>2
      <4>2. \A h \in Gateways : NotAccepted(id, h)'
        BY <2>12, <3>2, <4>1 DEF NotAccepted, TakenAsSent
      <4>3. QED
        BY <2>9, <3>2, <4>1, <4>2 DEF Truthful
    <3>3. QED
      BY <3>1, <3>2
  <2>15. message'[view.id] = NoRow
    BY <2>1, <2>2, <2>9, SessionSends
  <2>16. MessagesSession(s)'
    <3>1. seen'[s].id = id
      BY <2>9, <2>10, <2>13
    <3>2. phase = "list" => /\ enabled' = Gateways
                            /\ NotAccepted(seen[s].id, "sparrow")'
                            /\ Said(seen[s].id, "aakash")' = {}
      <4>1. ASSUME phase = "list"
            PROVE  g = "sparrow" /\ enabled' = Gateways /\ outcome # "accepted"
        BY <2>1, <2>5, <2>7, <4>1 DEF TakenAsSent
      <4>2. \A h : Said(seen[s].id, h)' = Said(id, h)'
        BY <3>1 DEF Said
      <4>3. ASSUME phase = "list"
            PROVE  Said(id, "sparrow")' = {outcome} /\ Said(id, "aakash")' = {}
        BY <2>12, <4>1, <4>3 DEF Gateways
      <4>4. QED
        BY <4>1, <4>2, <4>3 DEF NotAccepted, Gateways
    <3>3. phase = "commit" => Truthful(seen[s].id, seen[s])'
      <4>1. \A h : Said(seen[s].id, h)' = Said(id, h)'
        BY <3>1 DEF Said
      <4>2. QED
        BY <2>13, <2>14, <3>1, <4>1 DEF Truthful, SentBySparrow, SentByAakash, NotAccepted
    <3>4. QED
      BY <2>7, <2>9, <2>13, <2>15, <3>2, <3>3 DEF MessagesSession, Sending, At, SmsView, Statuses
  <2>17. MessagesInv'
    BY <2>1, <2>2, <2>5, <2>6, <2>7, <2>8, <2>16, GatewayAsked
  <2>18. QED
    BY <2>1, <2>8, <2>17 DEF Went, MessageOps
<1>3. CASE AskFallback(s)
  <2>1. cmd[s].op = "sms" /\ pc[s] = "list" /\ message' = message /\ enabled' = enabled
    BY <1>3 DEF AskFallback, At
  <2>2. Sending(s)
    BY <2>1 DEF Sending
  <2>3. PICK g \in Gateways : g = "aakash"
    BY DEF Gateways
  <2>4. /\ enabled = Gateways /\ NotAccepted(seen[s].id, "sparrow")
        /\ Said(seen[s].id, "aakash") = {}
    BY <2>1, <2>2 DEF MessagesInv, MessagesSession
  <2>5. PICK outcome \in Outcomes :
          Ask(s, g, outcome) /\ Goto(s, "commit", Answered(s, g, outcome))
    BY <1>3, <2>3 DEF AskFallback
  <2>6. PICK phase \in {"list", "commit"}, view \in {Answered(s, g, outcome)} : phase = "commit"
    OBVIOUS
  <2>7. Went(s, phase, view)
    BY <2>1, <2>5, <2>6, GotoGoes DEF DeskPhases
  <2>8. /\ view \in SmsView /\ view.id = seen[s].id
        /\ TakenAsSent(g, outcome) => view.status = "sent" /\ view.provider = g
        /\ ~TakenAsSent(g, outcome) => view.status = "failed"
    BY <2>2, <2>6, AnswerFields
  <2>9. PICK id : id = seen[s].id
    OBVIOUS
  <2>10. requests' = requests \cup {[message |-> id, gateway |-> g, outcome |-> outcome]}
    BY <2>5, <2>9 DEF Ask
  <2>11. Said(id, "aakash")' = {outcome} /\ Said(id, "sparrow")' = Said(id, "sparrow")
    BY <2>3, <2>4, <2>9, <2>10, GatewaySays
  <2>12. pc'[s] = "commit" /\ cmd'[s].op = "sms" /\ seen'[s] = view
    BY <2>1, <2>6, <2>7 DEF Went
  <2>13. Truthful(id, view)'
    <3>1. NotAccepted(id, "sparrow")' /\ enabled' = Gateways
      BY <2>1, <2>4, <2>9, <2>11 DEF NotAccepted
    <3>2. CASE TakenAsSent(g, outcome)
      <4>1. SentByAakash(id)'
        BY <2>3, <2>11, <3>1, <3>2 DEF SentByAakash, TakenAsSent
      <4>2. QED
        BY <2>3, <2>8, <3>2, <4>1 DEF Truthful
    <3>3. CASE ~TakenAsSent(g, outcome)
      <4>1. NotAccepted(id, "aakash")'
        BY <2>3, <2>11, <3>1, <3>3 DEF NotAccepted, TakenAsSent
      <4>2. QED
        BY <2>8, <3>1, <3>3, <4>1 DEF Truthful, Gateways
    <3>4. QED
      BY <3>2, <3>3
  <2>14. message'[view.id] = NoRow
    BY <2>1, <2>2, <2>8, SessionSends
  <2>15. MessagesSession(s)'
    <3>1. Truthful(seen[s].id, seen[s])'
      <4>1. seen'[s] = view /\ seen'[s].id = id
        BY <2>8, <2>9, <2>12
      <4>2. \A h : Said(seen[s].id, h)' = Said(id, h)'
        BY <4>1 DEF Said
      <4>3. QED
        BY <2>13, <4>1, <4>2 DEF Truthful, SentBySparrow, SentByAakash, NotAccepted
    <3>2. QED
      BY <2>8, <2>12, <2>14, <3>1 DEF MessagesSession, Sending, At, SmsView, Statuses
  <2>16. MessagesInv'
    BY <2>1, <2>2, <2>5, <2>6, <2>7, <2>15, GatewayAsked
  <2>17. QED
    BY <2>1, <2>7, <2>16 DEF Went, MessageOps
<1>4. CASE CommitSms(s)
  <2>1. cmd[s].op = "sms" /\ pc[s] = "commit" /\ enabled' = enabled /\ requests' = requests
    BY <1>4 DEF CommitSms, At
  <2>2. Sending(s)
    BY <2>1 DEF Sending
  <2>3. PICK v : v = seen[s] /\ v \in SmsView /\ message[v.id] = NoRow /\ Truthful(v.id, v)
    BY <2>1, <2>2, SessionSends DEF MessagesInv, MessagesSession
  <2>4. PICK row : row = [status |-> v.status, provider |-> v.provider]
    OBVIOUS
  <2>5. row \in MessageRow /\ v.id \in MessageIds /\ v.counted \cup {v.id} \subseteq MessageIds
    BY <2>3, <2>4 DEF SmsView, Statuses, MessageRow
  <2>6. message' = [message EXCEPT ![v.id] = row]
    BY <1>4, <2>3, <2>4 DEF CommitSms
  <2>7. PICK phase \in {"start", "answer"}, view \in {[counted |-> v.counted \cup {v.id}]} :
          Goto(s, phase, view)
    BY <1>4, <2>3 DEF CommitSms
  <2>8. Went(s, phase, view)
    BY <2>1, <2>7, GotoGoes DEF DeskPhases
  <2>9. pc'[s] = phase /\ cmd'[s].op = "sms" /\ seen'[s] = view
    BY <2>1, <2>8 DEF Went
  <2>10. MessagesSession(s)' /\ ~Sending(s)'
    BY <2>5, <2>7, <2>9 DEF MessagesSession, Sending, At
  <2>11. message \in [MessageIds -> MessageRow \cup {NoRow}]
    BY DEF MessagesInv, MessagesTypeOK
  <2>12. MessagesTypeOK'
    BY <2>1, <2>5, <2>6, <2>11 DEF MessagesInv, MessagesTypeOK
  <2>13. \A m : AskedFor(m)' = AskedFor(m)
    BY <2>1 DEF AskedFor
  <2>14. RecordsTellTheTruth'
    <3>1. ASSUME NEW m \in MessageIds, message'[m] # NoRow
          PROVE  Truthful(m, message[m])'
      <4>1. CASE m = v.id
        <5>1. message'[m] = row
          BY <2>5, <2>6, <2>11, <4>1
        <5>2. row.status = v.status /\ row.provider = v.provider
          BY <2>4
        <5>3. Truthful(v.id, v)'
          BY <2>1, <2>3, <2>13, TruthStands
        <5>4. QED
          BY <4>1, <5>1, <5>2, <5>3 DEF Truthful, SentBySparrow, SentByAakash, NotAccepted, Said
      <4>2. CASE m # v.id
        <5>1. PICK old : old = message[m]
          OBVIOUS
        <5>2. message'[m] = old
          BY <2>6, <2>11, <4>2, <5>1
        <5>3. Truthful(m, old)
          BY <3>1, <5>1, <5>2 DEF MessagesInv, RecordsTellTheTruth
        <5>4. Truthful(m, old)'
          BY <2>1, <2>13, <5>3, TruthStands
        <5>5. QED
          BY <5>2, <5>4 DEF Truthful, SentBySparrow, SentByAakash, NotAccepted, Said
      <4>3. QED
        BY <4>1, <4>2
    <3>2. QED
      BY <3>1 DEF RecordsTellTheTruth
  <2>15. ASSUME NEW t \in Sessions \ {s}, Sending(t)
         PROVE  /\ AskedFor(seen[t].id)' = AskedFor(seen[t].id)
                /\ message'[seen[t].id] = NoRow
    <3>1. PICK x : x = seen[t].id
      OBVIOUS
    <3>2. seen'[t] = seen[t] /\ x \in MessageIds /\ message[x] = NoRow /\ x # v.id
      BY <2>2, <2>3, <2>8, <2>15, <3>1, SessionSends DEF Went, Others, Same, MessagesInv, SmsView
    <3>3. message'[x] = NoRow
      BY <2>6, <2>11, <3>2
    <3>4. AskedFor(x)' = AskedFor(x)
      BY <2>13
    <3>5. AskedFor(seen[t].id)' = AskedFor(x)'
      BY <3>1, <3>2 DEF AskedFor
    <3>6. QED
      BY <3>1, <3>2, <3>3, <3>4, <3>5
  <2>16. MessagesInv'
    BY <2>1, <2>8, <2>10, <2>12, <2>14, <2>15, MessagesMove DEF Went
  <2>17. QED
    BY <2>1, <2>8, <2>16 DEF Went, MessageOps
<1>5. CASE ReadMessages(s)
  <2>1. PICK view : /\ Goto(s, "answer", view) /\ cmd[s].op = "messages" /\ pc[s] = "start"
                    /\ UNCHANGED messageTables
    BY <1>5 DEF ReadMessages, At
  <2>2. Went(s, "answer", view)
    BY <2>1, GotoGoes DEF DeskPhases
  <2>3. MessagesSession(s)' /\ ~Sending(s)'
    BY <2>2 DEF Went, MessagesSession, Sending, At
  <2>4. QED
    BY <1>q, <2>1, <2>2, <2>3 DEF MessageOps
<1>6. CASE AnswerSms(s)
  <2>1. cmd[s].op \in MessageOps /\ UNCHANGED messageTables /\ Left(s)
    BY <1>6, FinishLeaves DEF AnswerSms, At, MessageOps
  <2>2. MessagesSession(s)' /\ ~Sending(s)'
    BY <2>1 DEF Left, MessagesSession, Sending, At
  <2>3. QED
    BY <1>q, <2>1, <2>2
<1>7. QED
  BY <1>1, <1>2, <1>3, <1>4, <1>5, <1>6 DEF MessagesNext

LEMMA MessagesStarts ==
    ASSUME DeskInit, MessagesInit
    PROVE  MessagesInv
<1>1. MessagesTypeOK /\ RecordsTellTheTruth
  BY DEF MessagesInit, MessagesTypeOK, RecordsTellTheTruth
<1>2. \A s \in Sessions : ~Sending(s) /\ MessagesSession(s)
  BY DEF DeskInit, MessagesSession, Sending, At
<1>3. QED
  BY <1>1, <1>2 DEF MessagesInv

-----------------------------------------------------------------------------
(* Sums of the lengths of consecutive years or months. *)

\* The lengths l of the periods a to b are positive.
Lengths(l, a, b) == a \in Int /\ b \in Int /\ \A i \in a .. b : l[i] \in Nat \ {0}

LEMMA PeriodsSum ==
    ASSUME NEW l, NEW a, NEW b, Lengths(l, a, b), NEW k \in Int, k <= b
    PROVE  SumOn(l, a .. k) \in Nat
<1>1. IsFiniteSet(a .. k)
  BY FS_Interval DEF Lengths
<1>2. \A i \in a .. k : l[i] \in Nat
  BY DEF Lengths
<1>3. QED
  BY <1>1, <1>2, SumNat

LEMMA NoPeriod ==
    ASSUME NEW l, NEW a \in Int
    PROVE  SumOn(l, a .. (a - 1)) = 0
<1>1. a .. (a - 1) = {}
  OBVIOUS
<1>2. QED
  BY <1>1, FS_EmptySet, SumStep

LEMMA NextPeriod ==
    ASSUME NEW l, NEW a, NEW b, Lengths(l, a, b), NEW k \in a .. b
    PROVE  SumOn(l, a .. k) = SumOn(l, a .. (k - 1)) + l[k]
<1>1. PICK S : S = a .. k
  OBVIOUS
<1>2. IsFiniteSet(S) /\ k \in S /\ (\A i \in S : l[i] \in Int)
  BY <1>1, FS_Interval DEF Lengths
<1>3. SumOn(l, S) = l[k] + SumOn(l, S \ {k})
  <2>1. IsFiniteSet(S)
    BY <1>2
  <2>2. k \in S
    BY <1>2
  <2>3. \A i \in S : l[i] \in Int
    BY <1>2
  <2>4. QED
    BY ZenonT(60), <2>1, <2>2, <2>3, SumRemove
<1>4. S \ {k} = a .. (k - 1)
  BY <1>1 DEF Lengths
<1>5. PICK before : before = SumOn(l, a .. (k - 1))
  OBVIOUS
<1>6. k - 1 \in Int /\ k - 1 <= b /\ l[k] \in Nat
  BY DEF Lengths
<1>7. before \in Nat
  BY <1>5, <1>6, PeriodsSum
<1>8. PICK n \in Nat : n = l[k]
  BY <1>6
<1>9. SumOn(l, a .. k) = n + before /\ SumOn(l, a .. (k - 1)) = before
  BY <1>1, <1>3, <1>4, <1>5, <1>8
<1>10. QED
  BY <1>7, <1>8, <1>9

\* Of two periods the earlier one ends before the later one begins.
LEMMA PeriodsInOrder ==
    ASSUME NEW l, NEW a, NEW b, Lengths(l, a, b), NEW j \in a .. b, NEW k \in a .. b, j < k
    PROVE  SumOn(l, a .. j) <= SumOn(l, a .. (k - 1))
<1> DEFINE Bad == {d \in Nat : /\ j + d + 1 <= b
                               /\ ~(SumOn(l, a .. j) <= SumOn(l, a .. (j + d)))}
<1>0. a \in Int /\ b \in Int /\ j \in Int /\ k \in Int
  BY DEF Lengths
<1>1. Bad = {}
  <2> SUFFICES ASSUME Bad # {} PROVE FALSE
    OBVIOUS
  <2>1. PICK d \in Bad : \A e \in Bad : d <= e
    BY SmallestNat
  <2>d. d \in Nat /\ j + d + 1 <= b /\ ~(SumOn(l, a .. j) <= SumOn(l, a .. (j + d)))
    BY <2>1
  <2>2. d # 0
    <3>1. SumOn(l, a .. j) \in Nat /\ j + 0 = j
      BY <1>0, PeriodsSum
    <3>2. QED
      BY <2>d, <3>1
  <2>3. d - 1 \in Nat /\ d - 1 \notin Bad
    <3> HIDE DEF Bad
    <3>1. QED
      BY <2>1, <2>2, <2>d
  <2>4. SumOn(l, a .. j) <= SumOn(l, a .. (j + (d - 1)))
    BY <1>0, <2>d, <2>3
  <2>5. PICK i \in a .. b : i = j + d
    BY <1>0, <2>d
  <2>6. SumOn(l, a .. i) = SumOn(l, a .. (i - 1)) + l[i]
    BY NextPeriod
  <2>7. l[i] \in Nat /\ i - 1 \in Int /\ i - 1 <= b /\ j <= b
    BY <1>0 DEF Lengths
  <2>8. SumOn(l, a .. (i - 1)) \in Nat /\ SumOn(l, a .. j) \in Nat
    BY <1>0, <2>7, PeriodsSum
  <2>9. j + (d - 1) = i - 1
    BY <1>0, <2>d, <2>5
  <2>10. QED
    BY <2>d, <2>4, <2>5, <2>6, <2>7, <2>8, <2>9
<1>2. PICK d \in Nat : d = k - 1 - j
  BY <1>0
<1>3. d \notin Bad
  BY <1>1
<1>4. j + d = k - 1 /\ j + d + 1 <= b
  BY <1>0, <1>2
<1>5. QED
  BY <1>3, <1>4

\* A day falls into one period, and only into one.
LEMMA PeriodFound ==
    ASSUME NEW l, NEW a, NEW b, Lengths(l, a, b), NEW n \in Nat, n < SumOn(l, a .. b)
    PROVE  \E k \in a .. b : SumOn(l, a .. (k - 1)) <= n /\ n < SumOn(l, a .. k)
<1> DEFINE Ended == {d \in Nat : a + d <= b /\ n < SumOn(l, a .. (a + d))}
<1>0. a \in Int /\ b \in Int
  BY DEF Lengths
<1>1. Ended # {}
  <2>1. CASE b < a
    <3>1. a .. b = {}
      BY <1>0, <2>1
    <3>2. SumOn(l, a .. b) = 0
      BY <3>1, FS_EmptySet, SumStep
    <3>3. QED
      BY <3>2
  <2>2. CASE a <= b
    <3>1. PICK d \in Nat : d = b - a
      BY <1>0, <2>2
    <3>2. a + d = b
      BY <1>0, <3>1
    <3>3. d \in Ended
      BY <1>0, <3>2
    <3>4. QED
      BY <3>3
  <2>3. QED
    BY <1>0, <2>1, <2>2
<1>2. PICK d \in Ended : \A e \in Ended : d <= e
  BY <1>1, SmallestNat
<1>3. PICK k \in a .. b : k = a + d
  BY <1>0, <1>2
<1>4. n < SumOn(l, a .. k)
  BY <1>2, <1>3
<1>5. CASE d = 0
  <2>1. k - 1 = a - 1
    BY <1>0, <1>3, <1>5
  <2>2. SumOn(l, a .. (k - 1)) = 0
    BY <1>0, <2>1, NoPeriod
  <2>3. QED
    BY <1>4, <2>2
<1>6. CASE d # 0
  <2>1. d - 1 \in Nat /\ d - 1 \notin Ended
    BY <1>2, <1>6
  <2>2. a + (d - 1) = k - 1 /\ k - 1 <= b /\ k - 1 \in Int
    BY <1>0, <1>2, <1>3
  <2>3. ~(n < SumOn(l, a .. (k - 1)))
    BY <2>1, <2>2
  <2>4. SumOn(l, a .. (k - 1)) \in Nat
    BY <2>2, PeriodsSum
  <2>5. QED
    BY <1>4, <2>3, <2>4
<1>7. QED
  BY <1>5, <1>6

LEMMA PeriodUnique ==
    ASSUME NEW l, NEW a, NEW b, Lengths(l, a, b), NEW n \in Nat,
           NEW j \in a .. b, SumOn(l, a .. (j - 1)) <= n, n < SumOn(l, a .. j),
           NEW k \in a .. b, SumOn(l, a .. (k - 1)) <= n, n < SumOn(l, a .. k)
    PROVE  j = k
<1>0. j \in Int /\ k \in Int /\ a \in Int /\ b \in Int
  BY DEF Lengths
<1>1. /\ SumOn(l, a .. (j - 1)) \in Nat /\ SumOn(l, a .. j) \in Nat
      /\ SumOn(l, a .. (k - 1)) \in Nat /\ SumOn(l, a .. k) \in Nat
  BY <1>0, PeriodsSum
<1>2. ~(j < k)
  <2>1. SUFFICES ASSUME j < k PROVE FALSE
    OBVIOUS
  <2>2. SumOn(l, a .. j) <= SumOn(l, a .. (k - 1))
    BY <2>1, PeriodsInOrder
  <2>3. QED
    BY <1>1, <2>2
<1>3. ~(k < j)
  <2>1. SUFFICES ASSUME k < j PROVE FALSE
    OBVIOUS
  <2>2. SumOn(l, a .. k) <= SumOn(l, a .. (j - 1))
    BY <2>1, PeriodsInOrder
  <2>3. QED
    BY <1>1, <2>2
<1>4. QED
  BY <1>0, <1>2, <1>3

-----------------------------------------------------------------------------
(* The table of the years. *)

LEMMA TotalIsSum ==
    ASSUME NEW lengths
    PROVE  Total(lengths) = SumOn(lengths, DOMAIN lengths)
  BY DEF Total, FoldSeq, FoldFunction, FoldFunctionOnSet, MapThenFoldSet, SumOn, IsSum, OneOf

LEMMA YearsInTable ==
    /\ FirstYear \in Int /\ LastYear \in Int /\ FirstYear <= LastYear
    /\ BsYears = FirstYear .. LastYear
    /\ \A y \in BsYears : MonthLengths[y] \in [Months -> 29 .. 32]
  BY TableAssumption

\* The months of a year.
LEMMA MonthsOf ==
    ASSUME NEW y \in BsYears
    PROVE  /\ Lengths(MonthLengths[y], 1, 12)
           /\ Total(MonthLengths[y]) = SumOn(MonthLengths[y], 1 .. 12)
           /\ Total(MonthLengths[y]) \in Nat \ {0}
<1>1. PICK l : l = MonthLengths[y] /\ l \in [1 .. 12 -> 29 .. 32]
  BY YearsInTable DEF Months
<1>2. DOMAIN l = 1 .. 12 /\ \A i \in 1 .. 12 : l[i] \in Nat \ {0}
  BY <1>1
<1>3. Lengths(l, 1, 12)
  BY <1>2 DEF Lengths
<1>4. Total(l) = SumOn(l, 1 .. 12)
  BY <1>2, TotalIsSum
<1>5. PICK a \in Int, b \in Int : a = 1 /\ b = 12
  OBVIOUS
<1>6. Lengths(l, a, b) /\ b \in a .. b /\ b - 1 \in Int /\ b - 1 <= b /\ l[b] \in Nat \ {0}
  BY <1>2, <1>3, <1>5
<1>7. /\ SumOn(l, a .. b) = SumOn(l, a .. (b - 1)) + l[b]
      /\ SumOn(l, a .. (b - 1)) \in Nat
  BY <1>6, NextPeriod, PeriodsSum
<1>8. QED
  BY <1>1, <1>3, <1>4, <1>5, <1>6, <1>7

\* The months before one month.
LEMMA MonthsBefore ==
    ASSUME NEW y \in BsYears, NEW m \in Months
    PROVE  Total(SubSeq(MonthLengths[y], 1, m - 1)) = SumOn(MonthLengths[y], 1 .. (m - 1))
<1>1. PICK l : l = MonthLengths[y] /\ l \in [1 .. 12 -> 29 .. 32]
  BY YearsInTable DEF Months
<1>2. l \in Seq(29 .. 32) /\ Len(l) = 12
  <2>1. PICK n \in Nat : n = 12
    OBVIOUS
  <2>2. l \in [1 .. n -> 29 .. 32]
    BY <1>1, <2>1
  <2>3. l \in Seq(29 .. 32) /\ Len(l) = n
    BY <2>2
  <2>4. QED
    BY <2>1, <2>3
<1>3. PICK k \in Nat : k = m - 1
  BY DEF Months
<1>4. PICK head : head = SubSeq(l, 1, k)
  OBVIOUS
<1>5. DOMAIN head = 1 .. k /\ \A i \in 1 .. k : head[i] = l[i]
  <2>1. 1 <= k + 1 /\ k <= Len(l) /\ k - 1 + 1 = k
    BY <1>2, <1>3 DEF Months
  <2>2. PICK S : S = 29 .. 32
    OBVIOUS
  <2>3. 1 \in Int /\ k \in Int /\ \A i \in 1 .. k : l[i] \in S
    <3>1. k \in Int /\ k <= 12
      BY <1>3 DEF Months
    <3>2. \A i \in 1 .. k : i \in 1 .. 12
      BY <3>1
    <3>3. QED
      BY <1>1, <2>2, <3>1, <3>2
  <2>4. /\ SubSeq(l, 1, k) \in Seq(S)
        /\ Len(SubSeq(l, 1, k)) = IF 1 <= k THEN k - 1 + 1 ELSE 0
        /\ \A i \in 1 .. k - 1 + 1 : SubSeq(l, 1, k)[i] = l[1 + i - 1]
    BY <2>3, SubSeqProperties
  <2>5. /\ head \in Seq(S) /\ Len(head) = k
        /\ \A i \in 1 .. k : head[i] = l[i]
    BY <1>3, <1>4, <2>4
  <2>6. QED
    BY <2>5
<1>6. Total(head) = SumOn(head, 1 .. k)
  BY <1>5, TotalIsSum
<1>7. IsFiniteSet(1 .. k)
  BY FS_Interval
<1>8. SumOn(head, 1 .. k) = SumOn(l, 1 .. k)
  BY <1>5, <1>7, SumSame
<1>9. QED
  BY <1>1, <1>3, <1>4, <1>6, <1>8

YearLengths == [y \in BsYears |-> Total(MonthLengths[y])]

LEMMA YearsArePeriods == Lengths(YearLengths, FirstYear, LastYear)
<1>1. \A y \in FirstYear .. LastYear : YearLengths[y] \in Nat \ {0}
  BY YearsInTable, MonthsOf DEF YearLengths
<1>2. QED
  BY <1>1, YearsInTable DEF Lengths

\* The table of the first days is the function its definition asks for.
LEMMA NewYearEquation ==
    NewYear = [y \in BsYears \cup {LastYear + 1} |->
                 IF y = FirstYear THEN 0 ELSE NewYear[y - 1] + Total(MonthLengths[y - 1])]
<1> DEFINE g == [y \in BsYears \cup {LastYear + 1} |-> SumOn(YearLengths, FirstYear .. (y - 1))]
<1>1. ASSUME NEW y \in BsYears \cup {LastYear + 1}
      PROVE  g[y] = IF y = FirstYear THEN 0 ELSE g[y - 1] + Total(MonthLengths[y - 1])
  <2>1. CASE y = FirstYear
    BY <2>1, NoPeriod, YearsInTable
  <2>2. CASE y # FirstYear
    <3>1. PICK k \in FirstYear .. LastYear : k = y - 1
      BY <2>2, YearsInTable
    <3>2. SumOn(YearLengths, FirstYear .. k) = SumOn(YearLengths, FirstYear .. (k - 1)) + YearLengths[k]
      BY YearsArePeriods, NextPeriod
    <3>3. g[k] = SumOn(YearLengths, FirstYear .. (k - 1)) /\ YearLengths[k] = Total(MonthLengths[k])
      BY <3>1, YearsInTable DEF YearLengths
    <3>4. g[y] = SumOn(YearLengths, FirstYear .. k)
      BY <3>1
    <3>5. QED
      BY <2>2, <3>1, <3>2, <3>3, <3>4
  <2>3. QED
    BY <2>1, <2>2
<1>2. g = [y \in BsYears \cup {LastYear + 1} |->
             IF y = FirstYear THEN 0 ELSE g[y - 1] + Total(MonthLengths[y - 1])]
  BY <1>1
<1>3. \E f : f = [y \in BsYears \cup {LastYear + 1} |->
                    IF y = FirstYear THEN 0 ELSE f[y - 1] + Total(MonthLengths[y - 1])]
  <2> HIDE DEF g
  <2>1. QED
    BY <1>2
<1>4. QED
  BY <1>3 DEF NewYear

\* A year begins when the years before it have passed.
LEMMA NewYearIsSum ==
    ASSUME NEW y \in FirstYear .. (LastYear + 1)
    PROVE  NewYear[y] = SumOn(YearLengths, FirstYear .. (y - 1))
<1> DEFINE Bad == {d \in Nat : /\ FirstYear + d <= LastYear + 1
                               /\ NewYear[FirstYear + d]
                                    # SumOn(YearLengths, FirstYear .. (FirstYear + d - 1))}
<1>0. /\ FirstYear \in Int /\ LastYear \in Int /\ FirstYear <= LastYear
      /\ BsYears = FirstYear .. LastYear
  BY YearsInTable
<1>1. Bad = {}
  <2> SUFFICES ASSUME Bad # {} PROVE FALSE
    OBVIOUS
  <2>1. PICK d \in Bad : \A e \in Bad : d <= e
    BY SmallestNat
  <2>d. /\ d \in Nat /\ FirstYear + d <= LastYear + 1
        /\ NewYear[FirstYear + d] # SumOn(YearLengths, FirstYear .. (FirstYear + d - 1))
    BY <2>1
  <2>2. CASE d = 0
    <3>1. NewYear[FirstYear] = 0
      BY <1>0, NewYearEquation
    <3>2. SumOn(YearLengths, FirstYear .. (FirstYear - 1)) = 0
      BY <1>0, NoPeriod
    <3>3. FirstYear + d = FirstYear
      BY <1>0, <2>2
    <3>4. QED
      BY <1>0, <2>d, <3>1, <3>2, <3>3
  <2>3. CASE d # 0
    <3>1. d - 1 \in Nat /\ d - 1 \notin Bad
      <4> HIDE DEF Bad
      <4>1. QED
        BY <2>1, <2>d, <2>3
    <3>2. PICK k \in FirstYear .. LastYear : k = FirstYear + (d - 1)
      BY <1>0, <2>d, <3>1
    <3>3. NewYear[k] = SumOn(YearLengths, FirstYear .. (k - 1))
      BY <1>0, <2>d, <3>1, <3>2
    <3>4. k + 1 = FirstYear + d /\ k + 1 \in BsYears \cup {LastYear + 1} /\ k + 1 # FirstYear
          /\ (k + 1) - 1 = k /\ k \in Int
      BY <1>0, <2>d, <3>2
    <3>5. NewYear[k + 1] = NewYear[k] + Total(MonthLengths[k])
      BY <3>4, NewYearEquation
    <3>6. YearLengths[k] = Total(MonthLengths[k])
      BY <1>0 DEF YearLengths
    <3>7. SumOn(YearLengths, FirstYear .. k) = SumOn(YearLengths, FirstYear .. (k - 1)) + YearLengths[k]
      BY YearsArePeriods, NextPeriod
    <3>8. NewYear[k + 1] = SumOn(YearLengths, FirstYear .. ((k + 1) - 1))
      BY <3>3, <3>4, <3>5, <3>6, <3>7
    <3>9. QED
      BY <1>0, <2>d, <3>4, <3>8
  <2>4. QED
    BY <2>2, <2>3
<1>2. PICK d \in Nat : d = y - FirstYear
  BY <1>0
<1>3. FirstYear + d = y /\ FirstYear + d <= LastYear + 1
  BY <1>0, <1>2
<1>4. d \notin Bad
  BY <1>1
<1>5. NewYear[FirstYear + d] = SumOn(YearLengths, FirstYear .. (FirstYear + d - 1))
  BY <1>3, <1>4
<1>6. QED
  BY <1>0, <1>3, <1>5

LEMMA YearBounds ==
    ASSUME NEW y \in BsYears
    PROVE  /\ NewYear[y] \in Nat /\ NewYear[y + 1] \in Nat
           /\ NewYear[y + 1] = NewYear[y] + SumOn(MonthLengths[y], 1 .. 12)
           /\ NewYear[y + 1] <= NewYear[LastYear + 1]
<1>0. /\ FirstYear \in Int /\ LastYear \in Int /\ FirstYear <= LastYear
      /\ BsYears = FirstYear .. LastYear /\ y \in Int
  BY YearsInTable
<1>1. /\ NewYear[y] = SumOn(YearLengths, FirstYear .. (y - 1))
      /\ NewYear[y + 1] = SumOn(YearLengths, FirstYear .. y)
      /\ NewYear[LastYear + 1] = SumOn(YearLengths, FirstYear .. LastYear)
  <2>1. (y + 1) - 1 = y /\ (LastYear + 1) - 1 = LastYear
    BY <1>0
  <2>2. /\ y \in FirstYear .. (LastYear + 1) /\ y + 1 \in FirstYear .. (LastYear + 1)
        /\ LastYear + 1 \in FirstYear .. (LastYear + 1)
    BY <1>0
  <2>3. QED
    BY <2>1, <2>2, NewYearIsSum
<1>2. SumOn(YearLengths, FirstYear .. y) = SumOn(YearLengths, FirstYear .. (y - 1)) + YearLengths[y]
  BY <1>0, YearsArePeriods, NextPeriod
<1>3. YearLengths[y] = SumOn(MonthLengths[y], 1 .. 12)
  BY MonthsOf DEF YearLengths
<1>4. /\ SumOn(YearLengths, FirstYear .. (y - 1)) \in Nat /\ SumOn(YearLengths, FirstYear .. y) \in Nat
      /\ SumOn(YearLengths, FirstYear .. LastYear) \in Nat
  BY <1>0, YearsArePeriods, PeriodsSum
<1>5. SumOn(YearLengths, FirstYear .. y) <= SumOn(YearLengths, FirstYear .. LastYear)
  <2>1. CASE y = LastYear
    BY <1>4, <2>1
  <2>2. CASE y < LastYear
    <3>1. LastYear \in FirstYear .. LastYear /\ y \in FirstYear .. LastYear
      BY <1>0
    <3>2. SumOn(YearLengths, FirstYear .. y) <= SumOn(YearLengths, FirstYear .. (LastYear - 1))
      BY <2>2, <3>1, YearsArePeriods, PeriodsInOrder
    <3>3. SumOn(YearLengths, FirstYear .. LastYear)
             = SumOn(YearLengths, FirstYear .. (LastYear - 1)) + YearLengths[LastYear]
      BY <3>1, YearsArePeriods, NextPeriod
    <3>4. LastYear - 1 \in Int /\ LastYear - 1 <= LastYear /\ YearLengths[LastYear] \in Nat
      BY <1>0, <3>1, YearsArePeriods DEF Lengths
    <3>5. SumOn(YearLengths, FirstYear .. (LastYear - 1)) \in Nat
      BY <3>4, YearsArePeriods, PeriodsSum
    <3>6. QED
      BY <1>4, <3>2, <3>3, <3>4, <3>5
  <2>3. QED
    BY <1>0, <2>1, <2>2
<1>6. QED
  BY <1>1, <1>2, <1>3, <1>4, <1>5

-----------------------------------------------------------------------------
(* Dates. *)

LEMMA MonthBounds ==
    ASSUME NEW y \in BsYears, NEW m \in Months
    PROVE  /\ SumOn(MonthLengths[y], 1 .. (m - 1)) \in Nat
           /\ SumOn(MonthLengths[y], 1 .. m) \in Nat
           /\ SumOn(MonthLengths[y], 1 .. m) = SumOn(MonthLengths[y], 1 .. (m - 1)) + MonthLengths[y][m]
           /\ SumOn(MonthLengths[y], 1 .. m) <= SumOn(MonthLengths[y], 1 .. 12)
           /\ SumOn(MonthLengths[y], 1 .. 12) \in Nat
           /\ MonthLengths[y][m] \in 29 .. 32
<1>1. PICK l, a, b : l = MonthLengths[y] /\ a = 1 /\ b = 12
  OBVIOUS
<1>2. Lengths(l, a, b) /\ m \in a .. b /\ m \in Int /\ m <= b /\ m - 1 \in Int /\ m - 1 <= b
      /\ b - 1 \in Int /\ b - 1 <= b /\ b \in a .. b
  BY <1>1, MonthsOf DEF Months
<1>3. /\ SumOn(l, a .. (m - 1)) \in Nat /\ SumOn(l, a .. m) \in Nat
      /\ SumOn(l, a .. b) \in Nat /\ SumOn(l, a .. (b - 1)) \in Nat
  BY <1>2, PeriodsSum
<1>4. SumOn(l, a .. m) = SumOn(l, a .. (m - 1)) + l[m]
  BY <1>2, NextPeriod
<1>5. SumOn(l, a .. m) <= SumOn(l, a .. b)
  <2>1. CASE m = b
    BY <1>3, <2>1
  <2>2. CASE m < b
    <3>1. SumOn(l, a .. m) <= SumOn(l, a .. (b - 1))
      BY <1>2, <2>2, PeriodsInOrder
    <3>2. SumOn(l, a .. b) = SumOn(l, a .. (b - 1)) + l[b]
      BY <1>2, NextPeriod
    <3>3. l[b] \in Nat
      BY <1>2 DEF Lengths
    <3>4. QED
      BY <1>3, <3>1, <3>2, <3>3
  <2>3. QED
    BY <1>2, <2>1, <2>2
<1>6. l[m] \in 29 .. 32
  BY <1>1, YearsInTable
<1>7. QED
  BY <1>1, <1>3, <1>4, <1>5, <1>6

\* The day of a date of the table.
LEMMA DayOfDate ==
    ASSUME NEW d, IsBsDate(d)
    PROVE  /\ d.year \in BsYears /\ d.month \in Months
           /\ BsToAd(d) = NewYear[d.year] + SumOn(MonthLengths[d.year], 1 .. (d.month - 1)) + d.day - 1
           /\ d.day \in Nat \ {0} /\ d.day <= MonthLengths[d.year][d.month]
           /\ BsToAd(d) \in Nat /\ InTable(BsToAd(d))
           /\ NewYear[d.year] <= BsToAd(d) /\ BsToAd(d) < NewYear[d.year + 1]
<1>1. PICK y, m, i : y = d.year /\ m = d.month /\ i = d.day
  OBVIOUS
<1>2. y \in BsYears /\ m \in Months /\ i \in 1 .. MonthLengths[y][m]
  BY <1>1 DEF IsBsDate
<1>3. PICK before, through, len, first, next, last :
        /\ before = SumOn(MonthLengths[y], 1 .. (m - 1)) /\ through = SumOn(MonthLengths[y], 1 .. 12)
        /\ len = MonthLengths[y][m] /\ first = NewYear[y] /\ next = NewYear[y + 1]
        /\ last = NewYear[LastYear + 1]
  OBVIOUS
<1>4. /\ before \in Nat /\ through \in Nat /\ len \in Nat /\ before + len <= through
      /\ i \in Nat \ {0} /\ i <= len
  BY <1>2, <1>3, MonthBounds
<1>5. first \in Nat /\ next = first + through /\ next <= last
  BY <1>2, <1>3, YearBounds
<1>6. last \in Nat
  BY <1>3, YearsInTable, YearBounds
<1>7. BsToAd(d) = first + before + i - 1
  BY <1>1, <1>2, <1>3, MonthsBefore DEF BsToAd
<1>8. PICK n \in Nat : n = BsToAd(d)
  BY <1>4, <1>5, <1>7
<1>9. first <= n /\ n < next /\ n < last
  BY <1>4, <1>5, <1>6, <1>7, <1>8
<1>10. InTable(n)
  BY <1>3, <1>9 DEF InTable
<1>11. QED
  BY <1>1, <1>2, <1>3, <1>4, <1>7, <1>8, <1>9, <1>10

InMonth(y, m, n) ==
    /\ y \in BsYears /\ NewYear[y] <= n /\ n < NewYear[y + 1]
    /\ m \in Months
    /\ NewYear[y] + SumOn(MonthLengths[y], 1 .. (m - 1)) <= n
    /\ n < NewYear[y] + SumOn(MonthLengths[y], 1 .. (m - 1)) + MonthLengths[y][m]

\* A day of the table is in one month of one year.
LEMMA MonthFound ==
    ASSUME NEW n \in Int, InTable(n)
    PROVE  \E y, m : InMonth(y, m, n)
<1>0. /\ FirstYear \in Int /\ LastYear \in Int /\ FirstYear <= LastYear
      /\ BsYears = FirstYear .. LastYear
  BY YearsInTable
<1>1. n \in Nat /\ n < SumOn(YearLengths, FirstYear .. LastYear)
  <2>1. LastYear + 1 \in FirstYear .. (LastYear + 1) /\ (LastYear + 1) - 1 = LastYear
    BY <1>0
  <2>2. NewYear[LastYear + 1] = SumOn(YearLengths, FirstYear .. LastYear)
    BY <2>1, NewYearIsSum
  <2>3. QED
    BY <2>2 DEF InTable
<1>2. PICK y \in FirstYear .. LastYear :
        /\ SumOn(YearLengths, FirstYear .. (y - 1)) <= n
        /\ n < SumOn(YearLengths, FirstYear .. y)
  BY <1>1, YearsArePeriods, PeriodFound
<1>3. y \in Int /\ y \in FirstYear .. (LastYear + 1) /\ y + 1 \in FirstYear .. (LastYear + 1)
      /\ (y + 1) - 1 = y
  BY <1>0
<1>4. NewYear[y] <= n /\ n < NewYear[y + 1]
  BY <1>2, <1>3, NewYearIsSum
<1>5. PICK first, l, a, b : first = NewYear[y] /\ l = MonthLengths[y] /\ a = 1 /\ b = 12
  OBVIOUS
<1>6. first \in Nat /\ NewYear[y + 1] = first + SumOn(l, a .. b) /\ SumOn(l, a .. b) \in Nat
  <2>1. 1 \in Months
    BY DEF Months
  <2>2. QED
    BY <1>0, <1>5, <2>1, YearBounds, MonthBounds
<1>7. PICK k \in Nat : k = n - first
  BY <1>1, <1>4, <1>5, <1>6
<1>8. k < SumOn(l, a .. b)
  BY <1>1, <1>4, <1>6, <1>7
<1>9. Lengths(l, a, b)
  BY <1>0, <1>5, MonthsOf
<1>10. PICK m \in a .. b : SumOn(l, a .. (m - 1)) <= k /\ k < SumOn(l, a .. m)
  BY <1>8, <1>9, PeriodFound
<1>11. m \in Months
  BY <1>5 DEF Months
<1>12. PICK before \in Nat, len \in 29 .. 32 : before = SumOn(l, a .. (m - 1)) /\ len = l[m]
  <2>1. y \in BsYears
    BY <1>0
  <2>2. QED
    BY <1>5, <1>11, <2>1, MonthBounds
<1>13. SumOn(l, a .. m) = before + len
  BY <1>9, <1>12, NextPeriod
<1>14. first + before <= n /\ n < first + before + len
  BY <1>1, <1>6, <1>7, <1>10, <1>12, <1>13
<1>15. QED
  BY <1>0, <1>4, <1>5, <1>11, <1>12, <1>14 DEF InMonth

LEMMA MonthUnique ==
    ASSUME NEW n \in Nat, NEW y, NEW m, InMonth(y, m, n), NEW z, NEW k, InMonth(z, k, n)
    PROVE  y = z /\ m = k
<1>0. /\ FirstYear \in Int /\ LastYear \in Int /\ FirstYear <= LastYear
      /\ BsYears = FirstYear .. LastYear
  BY YearsInTable
<1>1. y \in FirstYear .. LastYear /\ z \in FirstYear .. LastYear /\ y \in Int /\ z \in Int
      /\ m \in Months /\ k \in Months
  BY <1>0 DEF InMonth
<1>2. /\ y \in FirstYear .. (LastYear + 1) /\ y + 1 \in FirstYear .. (LastYear + 1) /\ (y + 1) - 1 = y
      /\ z \in FirstYear .. (LastYear + 1) /\ z + 1 \in FirstYear .. (LastYear + 1) /\ (z + 1) - 1 = z
  BY <1>0, <1>1
<1>3. /\ SumOn(YearLengths, FirstYear .. (y - 1)) <= n /\ n < SumOn(YearLengths, FirstYear .. y)
      /\ SumOn(YearLengths, FirstYear .. (z - 1)) <= n /\ n < SumOn(YearLengths, FirstYear .. z)
  BY <1>2, NewYearIsSum DEF InMonth
<1>4. y = z
  BY <1>1, <1>3, YearsArePeriods, PeriodUnique
<1>5. PICK first, l, a, b : first = NewYear[y] /\ l = MonthLengths[y] /\ a = 1 /\ b = 12
  OBVIOUS
<1>f. first \in Nat
  BY <1>0, <1>1, <1>5, YearBounds
<1>6. Lengths(l, a, b) /\ m \in a .. b /\ k \in a .. b
  BY <1>0, <1>1, <1>5, MonthsOf DEF Months
<1>7. PICK i \in Nat : i = n - first
  BY <1>5, <1>f DEF InMonth
<1>8. /\ SumOn(l, a .. (m - 1)) \in Nat /\ SumOn(l, a .. m) = SumOn(l, a .. (m - 1)) + l[m] /\ l[m] \in Nat
      /\ SumOn(l, a .. (k - 1)) \in Nat /\ SumOn(l, a .. k) = SumOn(l, a .. (k - 1)) + l[k] /\ l[k] \in Nat
  <2>1. y \in BsYears /\ m \in Months /\ k \in Months
    BY <1>0, <1>1
  <2>2. /\ l[m] \in 29 .. 32 /\ SumOn(l, a .. (m - 1)) \in Nat
        /\ SumOn(l, a .. m) = SumOn(l, a .. (m - 1)) + l[m]
    BY <1>5, <2>1, MonthBounds
  <2>3. /\ l[k] \in 29 .. 32 /\ SumOn(l, a .. (k - 1)) \in Nat
        /\ SumOn(l, a .. k) = SumOn(l, a .. (k - 1)) + l[k]
    BY <1>5, <2>1, MonthBounds
  <2>4. QED
    BY <2>2, <2>3
<1>9. /\ first + SumOn(l, a .. (m - 1)) <= n /\ n < first + SumOn(l, a .. (m - 1)) + l[m]
      /\ first + SumOn(l, a .. (k - 1)) <= n /\ n < first + SumOn(l, a .. (k - 1)) + l[k]
  BY <1>4, <1>5 DEF InMonth
<1>10. /\ SumOn(l, a .. (m - 1)) <= i /\ i < SumOn(l, a .. m)
       /\ SumOn(l, a .. (k - 1)) <= i /\ i < SumOn(l, a .. k)
  BY <1>f, <1>7, <1>8, <1>9
<1>11. m = k
  BY <1>6, <1>10, PeriodUnique
<1>12. QED
  BY <1>4, <1>11

\* The first day of a month.
LEMMA FirstOfMonth ==
    ASSUME NEW y \in BsYears, NEW m \in Months
    PROVE  BsToAd([year |-> y, month |-> m, day |-> 1])
             = NewYear[y] + SumOn(MonthLengths[y], 1 .. (m - 1))
<1>1. PICK d : d = [year |-> y, month |-> m, day |-> 1]
  OBVIOUS
<1>2. d.year = y /\ d.month = m /\ d.day = 1
  BY <1>1
<1>3. IsBsDate(d)
  BY <1>2, MonthBounds DEF IsBsDate
<1>4. BsToAd(d) = NewYear[y] + SumOn(MonthLengths[y], 1 .. (m - 1)) + 1 - 1
  BY <1>2, <1>3, DayOfDate
<1>5. NewYear[y] \in Nat /\ SumOn(MonthLengths[y], 1 .. (m - 1)) \in Nat
  BY YearBounds, MonthBounds
<1>6. QED
  BY <1>1, <1>4, <1>5

\* The date of a day of the table.
LEMMA DateOfDay ==
    ASSUME NEW n \in Nat, NEW y, NEW m, InMonth(y, m, n)
    PROVE  AdToBs(n) = [year |-> y, month |-> m,
                        day |-> n - (NewYear[y] + SumOn(MonthLengths[y], 1 .. (m - 1))) + 1]
<1> DEFINE yy == CHOOSE z \in BsYears : NewYear[z] <= n /\ n < NewYear[z + 1]
           first(k) == BsToAd([year |-> yy, month |-> k, day |-> 1])
           mm == CHOOSE k \in Months : first(k) <= n /\ n < first(k) + MonthLengths[yy][k]
<1>1. yy \in BsYears /\ NewYear[yy] <= n /\ n < NewYear[yy + 1]
  BY DEF InMonth
<1>2. AdToBs(n) = [year |-> yy, month |-> mm, day |-> n - first(mm) + 1]
  BY DEF AdToBs
<1>3. yy = y
  <2>0. /\ FirstYear \in Int /\ LastYear \in Int /\ FirstYear <= LastYear
        /\ BsYears = FirstYear .. LastYear
    BY YearsInTable
  <2>1. PICK z : z = yy
    OBVIOUS
  <2>2. z \in BsYears /\ NewYear[z] <= n /\ n < NewYear[z + 1]
        /\ y \in BsYears /\ NewYear[y] <= n /\ n < NewYear[y + 1]
    BY <1>1, <2>1 DEF InMonth
  <2>3. /\ y \in Int /\ y \in FirstYear .. (LastYear + 1) /\ y + 1 \in FirstYear .. (LastYear + 1)
        /\ (y + 1) - 1 = y
        /\ z \in Int /\ z \in FirstYear .. (LastYear + 1) /\ z + 1 \in FirstYear .. (LastYear + 1)
        /\ (z + 1) - 1 = z
    BY <2>0, <2>2
  <2>4. /\ SumOn(YearLengths, FirstYear .. (y - 1)) <= n /\ n < SumOn(YearLengths, FirstYear .. y)
        /\ SumOn(YearLengths, FirstYear .. (z - 1)) <= n /\ n < SumOn(YearLengths, FirstYear .. z)
    BY <2>2, <2>3, NewYearIsSum
  <2>5. y = z
    BY <2>0, <2>2, <2>4, YearsArePeriods, PeriodUnique
  <2>6. QED
    BY <2>1, <2>5
<1>4. y \in BsYears /\ m \in Months
  BY DEF InMonth
<1>5. \A k \in Months : first(k) = NewYear[y] + SumOn(MonthLengths[y], 1 .. (k - 1))
  <2> HIDE DEF yy
  <2>1. QED
    BY <1>3, <1>4, FirstOfMonth
<1>6. first(m) <= n /\ n < first(m) + MonthLengths[y][m]
  <2> HIDE DEF first
  <2>1. QED
    BY <1>4, <1>5 DEF InMonth
<1>7. mm \in Months /\ first(mm) <= n /\ n < first(mm) + MonthLengths[y][mm]
  <2>1. \E k \in Months : first(k) <= n /\ n < first(k) + MonthLengths[yy][k]
    BY <1>3, <1>4, <1>6
  <2> HIDE DEF first, yy
  <2>2. mm \in Months /\ first(mm) <= n /\ n < first(mm) + MonthLengths[yy][mm]
    BY <2>1
  <2>3. QED
    BY <1>3, <2>2
<1>8. mm = m
  <2>1. PICK k : k = mm
    OBVIOUS
  <2>2. k \in Months /\ first(k) <= n /\ n < first(k) + MonthLengths[y][k]
    <3> HIDE DEF mm, first
    <3>1. QED
      BY <1>7, <2>1
  <2>3. InMonth(y, k, n)
    <3> HIDE DEF mm, first
    <3>1. QED
      BY <1>5, <2>2 DEF InMonth
  <2>4. QED
    BY <2>1, <2>3, MonthUnique
<1>9. QED
  <2> HIDE DEF yy, mm, first
  <2>1. QED
    BY <1>2, <1>3, <1>4, <1>5, <1>8

\* To the Bikram Sambat date of a day and back.
LEMMA DayRecovered ==
    ASSUME NEW n \in Int, InTable(n)
    PROVE  /\ IsBsDate(AdToBs(n)) /\ BsToAd(AdToBs(n)) = n
           /\ AdToBs(n).year \in BsYears
           /\ NewYear[AdToBs(n).year] <= n /\ n < NewYear[AdToBs(n).year + 1]
<1>1. n \in Nat
  BY DEF InTable
<1>2. PICK y, m : InMonth(y, m, n)
  BY MonthFound
<1>3. y \in BsYears /\ m \in Months /\ NewYear[y] <= n /\ n < NewYear[y + 1]
  BY <1>2 DEF InMonth
<1>4. PICK first, before, len :
        /\ first = NewYear[y] /\ before = SumOn(MonthLengths[y], 1 .. (m - 1))
        /\ len = MonthLengths[y][m]
  OBVIOUS
<1>5. first \in Nat /\ before \in Nat /\ len \in Nat
  BY <1>3, <1>4, YearBounds, MonthBounds
<1>6. first + before <= n /\ n < first + before + len
  BY <1>2, <1>4 DEF InMonth
<1>7. PICK dd \in Int : dd = n - (first + before) + 1
  BY <1>1, <1>5
<1>8. dd \in 1 .. len /\ first + before + dd - 1 = n
  BY <1>1, <1>5, <1>6, <1>7
<1>9. PICK d : d = AdToBs(n)
  OBVIOUS
<1>10. d.year = y /\ d.month = m /\ d.day = dd
  BY <1>1, <1>2, <1>4, <1>7, <1>9, DateOfDay
<1>11. IsBsDate(d)
  BY <1>3, <1>4, <1>8, <1>10 DEF IsBsDate
<1>12. BsToAd(d) = n
  BY <1>4, <1>8, <1>10, <1>11, DayOfDate
<1>13. QED
  BY <1>3, <1>9, <1>10, <1>11, <1>12

\* To the day of a date and back.
LEMMA DateRecovered ==
    ASSUME NEW d \in [year: Int, month: Int, day: Int], IsBsDate(d)
    PROVE  AdToBs(BsToAd(d)) = d
<1>1. PICK n \in Nat : n = BsToAd(d)
  BY DayOfDate
<1>2. PICK y, m, i : y = d.year /\ m = d.month /\ i = d.day
  OBVIOUS
<1>3. PICK first, before, len :
        /\ first = NewYear[y] /\ before = SumOn(MonthLengths[y], 1 .. (m - 1))
        /\ len = MonthLengths[y][m]
  OBVIOUS
<1>4. /\ y \in BsYears /\ m \in Months /\ i \in Nat \ {0} /\ i <= len
      /\ n = first + before + i - 1 /\ first <= n /\ n < NewYear[y + 1]
  BY <1>1, <1>2, <1>3, DayOfDate
<1>5. first \in Nat /\ before \in Nat /\ len \in Nat
  <2>1. y \in BsYears /\ m \in Months
    BY <1>4
  <2>2. QED
    BY <1>3, <2>1, YearBounds, MonthBounds
<1>6. first + before <= n /\ n < first + before + len /\ n - (first + before) + 1 = i
  BY <1>4, <1>5
<1>7. InMonth(y, m, n)
  BY <1>3, <1>4, <1>6 DEF InMonth
<1>8. AdToBs(n) = [year |-> y, month |-> m, day |-> i]
  BY <1>3, <1>6, <1>7, DateOfDay
<1>9. d = [year |-> y, month |-> m, day |-> i]
  BY <1>2
<1>10. QED
  BY <1>1, <1>8, <1>9

\* Trying 32, 31, 30 and 29 finds the length of a month.
LEMMA LastDayFound ==
    ASSUME NEW y \in BsYears, NEW m \in Months
    PROVE  LastDayOf(y, m) = MonthLengths[y][m]
<1>1. PICK len \in 29 .. 32 : len = MonthLengths[y][m]
  BY MonthBounds
<1> DEFINE valid == {n \in 29 .. 32 : IsBsDate([year |-> y, month |-> m, day |-> n])}
<1>2. \A n \in 29 .. 32 : n \in valid <=> n <= len
  BY <1>1 DEF IsBsDate
<1>3. len \in valid /\ \A n \in valid : n <= len
  BY <1>2
<1>4. \A n \in valid : n \in Int
  OBVIOUS
<1>5. LastDayOf(y, m) = CHOOSE n \in valid : \A k \in valid : k <= n
  BY <1>3 DEF LastDayOf
<1>6. PICK n : n = CHOOSE x \in valid : \A k \in valid : k <= x
  OBVIOUS
<1>7. n \in valid /\ \A k \in valid : k <= n
  <2> HIDE DEF valid
  <2>1. QED
    BY <1>3, <1>6
<1>8. n = len
  <2> HIDE DEF valid
  <2>1. n \in Int /\ n <= len /\ len <= n
    BY <1>3, <1>4, <1>7
  <2>2. QED
    BY <2>1
<1>9. QED
  BY <1>1, <1>5, <1>6, <1>8

\* The months found by trying are those of the table.
LEMMA MonthsListed ==
    ASSUME NEW y \in BsYears
    PROVE  Total([m \in Months |-> LastDayOf(y, m)]) = NewYear[y + 1] - NewYear[y]
<1>1. MonthLengths[y] \in [Months -> 29 .. 32]
  BY YearsInTable
<1>2. [m \in Months |-> LastDayOf(y, m)] = MonthLengths[y]
  BY <1>1, LastDayFound
<1>3. PICK t \in Nat : t = Total(MonthLengths[y])
  BY MonthsOf
<1>4. NewYear[y + 1] = NewYear[y] + t /\ NewYear[y] \in Nat
  BY <1>3, MonthsOf, YearBounds
<1>5. QED
  BY <1>2, <1>3, <1>4

\* A year begins on 1 Baisakh and ends on the day before the next.
LEMMA YearSpan ==
    ASSUME NEW y \in BsYears
    PROVE  /\ BsToAd([year |-> y, month |-> 1, day |-> 1]) = NewYear[y]
           /\ BsToAd([year |-> y, month |-> 12, day |-> LastDayOf(y, 12)]) = NewYear[y + 1] - 1
<1>0. PICK i, k : i = 1 /\ k = 12
  OBVIOUS
<1>1. i \in Months /\ k \in Months
  BY <1>0 DEF Months
<1>2. PICK l, first : l = MonthLengths[y] /\ first = NewYear[y] /\ first \in Nat
  BY YearBounds
<1>3. BsToAd([year |-> y, month |-> i, day |-> 1]) = first + SumOn(l, 1 .. (i - 1))
  BY <1>1, <1>2, FirstOfMonth
<1>4. SumOn(l, 1 .. (1 - 1)) = 0
  BY NoPeriod
<1>5. PICK d : d = [year |-> y, month |-> k, day |-> LastDayOf(y, k)]
  OBVIOUS
<1>6. d.year = y /\ d.month = k /\ d.day = l[k]
  BY <1>1, <1>2, <1>5, LastDayFound
<1>7. PICK before \in Nat, len \in 29 .. 32 : before = SumOn(l, 1 .. (k - 1)) /\ len = l[k]
  BY <1>1, <1>2, MonthBounds
<1>8. IsBsDate(d)
  BY <1>1, <1>2, <1>6, <1>7 DEF IsBsDate
<1>9. BsToAd(d) = first + before + len - 1
  BY <1>2, <1>6, <1>7, <1>8, DayOfDate
<1>10. SumOn(l, 1 .. k) = before + len
  BY <1>1, <1>2, <1>7, MonthBounds
<1>11. NewYear[y + 1] = first + SumOn(l, 1 .. k)
  BY <1>0, <1>2, YearBounds
<1>12. NewYear[y + 1] - 1 = first + before + len - 1
  BY <1>2, <1>7, <1>10, <1>11
<1>13. QED
  BY <1>0, <1>2, <1>3, <1>4, <1>5, <1>9, <1>12

-----------------------------------------------------------------------------
(* The calls about dates. *)

CalendarOps == {"to_ad", "to_bs", "range", "months", "year"}

\* What a call of the calendar knows or answers, on the day d.
DateTold(op, phase, c, v, d) ==
    /\ op = "to_ad" /\ phase = "answer" => AdToBs(v.ad) = c.date
    /\ op = "to_bs" /\ phase = "answer" => IsBsDate(v.bs) /\ BsToAd(v.bs) = c.day
    /\ op = "range" /\ phase = "answer" =>
         \A i \in DOMAIN v.dates \ {1} : BsToAd(v.dates[i]) = BsToAd(v.dates[i - 1]) + 1
    /\ op = "months" /\ phase = "answer" =>
         Total(v.months) = NewYear[c.year + 1] - NewYear[c.year]
    /\ op = "year" /\ phase = "write" => YearFoundOn(v, d)
    /\ op = "year" /\ phase = "answer" =>
         YearFoundOn(v.year, d) /\ (~v.current => v.year.last < d)

DatesTold ==
    /\ today \in FirstDay .. LastDay
    /\ \A s \in Sessions : DateTold(cmd[s].op, pc[s], cmd[s], seen[s], today)

LEMMA CalendarMeans == CalendarInv <=> DatesTold
<1>1. ASSUME CalendarInv, NEW s \in Sessions
      PROVE  DateTold(cmd[s].op, pc[s], cmd[s], seen[s], today)
  BY <1>1 DEF CalendarInv, CalendarAgrees, ConversionsInvert, RangesConsecutive, YearsWhole,
              DateTold, At, YearFound
<1>2. ASSUME \A s \in Sessions : DateTold(cmd[s].op, pc[s], cmd[s], seen[s], today)
      PROVE  /\ ConversionsInvert /\ RangesConsecutive /\ YearsWhole
             /\ \A s \in Sessions : /\ At(s, "year", "write") => YearFound(seen[s])
                                    /\ At(s, "year", "answer") => YearFound(seen[s].year)
  <2>1. ASSUME NEW s \in Sessions, At(s, "year", "answer")
        PROVE  /\ seen[s].year.first <= seen[s].year.asked
               /\ seen[s].year.asked <= seen[s].year.last
               /\ seen[s].year.last + 1 = NewYear[seen[s].year.year + 1]
               /\ ~seen[s].current => seen[s].year.last < today
               /\ YearFound(seen[s].year)
    BY <1>2, <2>1 DEF DateTold, At, YearFound, YearFoundOn
  <2>2. ASSUME NEW s \in Sessions
        PROVE  /\ At(s, "to_ad", "answer") => AdToBs(seen[s].ad) = cmd[s].date
               /\ At(s, "to_bs", "answer") => /\ IsBsDate(seen[s].bs)
                                              /\ BsToAd(seen[s].bs) = cmd[s].day
               /\ At(s, "range", "answer") =>
                    \A i \in DOMAIN seen[s].dates \ {1} :
                        BsToAd(seen[s].dates[i]) = BsToAd(seen[s].dates[i - 1]) + 1
               /\ At(s, "months", "answer") =>
                    Total(seen[s].months) = NewYear[cmd[s].year + 1] - NewYear[cmd[s].year]
               /\ At(s, "year", "write") => YearFound(seen[s])
    BY <1>2 DEF DateTold, At, YearFound
  <2>3. ConversionsInvert
    BY <2>2 DEF ConversionsInvert
  <2>4. RangesConsecutive
    BY <2>2 DEF RangesConsecutive
  <2>5. YearsWhole
    BY <2>1, <2>2 DEF YearsWhole
  <2>6. QED
    BY <2>1, <2>2, <2>3, <2>4, <2>5
<1>3. QED
  BY <1>1, <1>2 DEF CalendarInv, CalendarTypeOK, CalendarAgrees, DatesTold

\* What was told stays true when midnight passes.
LEMMA ToldStands ==
    ASSUME NEW op, NEW phase, NEW c, NEW v, NEW d \in Int, NEW e \in Int, d <= e,
           DateTold(op, phase, c, v, d)
    PROVE  DateTold(op, phase, c, v, e)
<1>1. ASSUME NEW y, YearFoundOn(y, d)
      PROVE  YearFoundOn(y, e) /\ y.last \in Int
  BY <1>1 DEF YearFoundOn
<1>2. op = "year" /\ phase = "write" => YearFoundOn(v, e)
  BY <1>1 DEF DateTold
<1>3. ASSUME op = "year", phase = "answer"
      PROVE  YearFoundOn(v.year, e) /\ (~v.current => v.year.last < e)
  <2>1. YearFoundOn(v.year, d) /\ (~v.current => v.year.last < d)
    BY <1>3 DEF DateTold
  <2>2. YearFoundOn(v.year, e) /\ v.year.last \in Int
    BY <1>1, <2>1
  <2>3. QED
    BY <2>1, <2>2
<1>4. QED
  BY <1>2, <1>3 DEF DateTold

LEMMA NothingTold ==
    ASSUME NEW op, NEW phase, NEW c, NEW v, NEW d,
           op \notin CalendarOps \/ phase \in {"idle", "start"}
    PROVE  DateTold(op, phase, c, v, d)
  BY DEF DateTold, CalendarOps

\* The day does not go back.
LEMMA CalendarMoves ==
    ASSUME CalendarInv, today' \in FirstDay .. LastDay, today <= today',
           \A t \in Sessions :
              Same(t) \/ DateTold(cmd'[t].op, pc'[t], cmd'[t], seen'[t], today')
    PROVE  CalendarInv'
<1>1. today \in Int /\ today' \in Int
  BY TableAssumption, CalendarMeans DEF DatesTold
<1>2. ASSUME NEW t \in Sessions
      PROVE  DateTold(cmd'[t].op, pc'[t], cmd'[t], seen'[t], today')
  <2>1. CASE Same(t)
    <3>1. PICK c, v, phase : c = cmd[t] /\ v = seen[t] /\ phase = pc[t]
      OBVIOUS
    <3>2. c = cmd'[t] /\ v = seen'[t] /\ phase = pc'[t]
      BY <2>1, <3>1 DEF Same
    <3>3. DateTold(c.op, phase, c, v, today)
      BY <3>1, CalendarMeans DEF DatesTold
    <3>4. DateTold(c.op, phase, c, v, today')
      BY <1>1, <3>3, ToldStands
    <3>5. QED
      BY <3>2, <3>4
  <2>2. QED
    BY <2>1
<1>3. DatesTold'
  BY <1>2 DEF DatesTold
<1>4. QED
  BY <1>3, CalendarMeans, PTL

LEMMA CalendarStays ==
    ASSUME CalendarInv, today' = today, Quiet(CalendarOps)
    PROVE  CalendarInv'
<1>1. ASSUME NEW t \in Sessions, ~Same(t)
      PROVE  DateTold(cmd'[t].op, pc'[t], cmd'[t], seen'[t], today')
  BY <1>1, NothingTold DEF Quiet
<1>2. today \in FirstDay .. LastDay /\ today \in Int
  BY TableAssumption, CalendarMeans DEF DatesTold
<1>3. QED
  BY <1>1, <1>2, CalendarMoves

LEMMA MidnightPasses ==
    ASSUME CalendarInv, Midnight, UNCHANGED desk
    PROVE  CalendarInv'
<1>1. \A t \in Sessions : Same(t)
  BY DEF desk, Same
<1>2. today \in FirstDay .. LastDay /\ FirstDay \in Int /\ LastDay \in Int
  BY TableAssumption, CalendarMeans DEF DatesTold
<1>3. today' \in FirstDay .. LastDay /\ today <= today'
  BY <1>2 DEF Midnight
<1>4. QED
  BY <1>1, <1>3, CalendarMoves

LEMMA CalendarKeeps ==
    ASSUME DeskInv, CalendarInv, NEW s \in Sessions, CalendarNext(s)
    PROVE  /\ CalendarInv' /\ DeskInv' /\ menu' = menu /\ cmd[s].op \in CalendarOps
           /\ Left(s) \/ \E phase, view : Went(s, phase, view)
<1>0. today \in FirstDay .. LastDay /\ today \in Int /\ InTable(today)
  BY TableAssumption, ClockAssumption, CalendarMeans DEF DatesTold
<1>l. ASSUME Left(s), today' = today
      PROVE  CalendarInv' /\ DeskInv' /\ menu' = menu
  <2>1. \A t \in Sessions :
           Same(t) \/ DateTold(cmd'[t].op, pc'[t], cmd'[t], seen'[t], today')
    BY <1>l, NothingTold DEF Left, Others
  <2>2. QED
    BY <1>0, <1>l, <2>1, CalendarMoves DEF Left
<1>w. ASSUME NEW c, c = cmd[s], NEW phase, NEW view, Went(s, phase, view), today' = today,
             DateTold(c.op, phase, c, view, today)
      PROVE  CalendarInv' /\ DeskInv' /\ menu' = menu
  <2>1. \A t \in Sessions :
           Same(t) \/ DateTold(cmd'[t].op, pc'[t], cmd'[t], seen'[t], today')
    BY <1>w DEF Went, Others
  <2>2. QED
    BY <1>0, <1>w, <2>1, CalendarMoves DEF Went
<1>1. CASE ConvertToAd(s)
  <2>1. PICK c : c = cmd[s] /\ c.op = "to_ad" /\ pc[s] = "start" /\ today' = today
    BY <1>1 DEF ConvertToAd, At
  <2>2. CASE IsBsDate(c.date)
    <3>1. PICK view : view = [ad |-> BsToAd(c.date)]
      OBVIOUS
    <3>2. Went(s, "answer", view)
      BY <1>1, <2>1, <2>2, <3>1, GotoGoes DEF ConvertToAd, DeskPhases
    <3>3. c.date \in [year: Int, month: Int, day: Int]
      BY <2>1, CallFits DEF CommandFits, ConvertRequest
    <3>4. AdToBs(view.ad) = c.date
      BY <2>2, <3>1, <3>3, DateRecovered
    <3>5. DateTold(c.op, "answer", c, view, today)
      BY <2>1, <3>4 DEF DateTold
    <3>6. QED
      BY <1>w, <2>1, <3>2, <3>5 DEF CalendarOps
  <2>3. CASE ~IsBsDate(c.date)
    <3>1. Left(s)
      BY <1>1, <2>1, <2>3, FinishLeaves DEF ConvertToAd
    <3>2. QED
      BY <1>l, <2>1, <3>1 DEF CalendarOps
  <2>4. QED
    BY <2>2, <2>3
<1>2. CASE ConvertToBs(s)
  <2>1. PICK c : c = cmd[s] /\ c.op = "to_bs" /\ pc[s] = "start" /\ today' = today
    BY <1>2 DEF ConvertToBs, At
  <2>2. CASE InTable(c.day)
    <3>1. PICK view : view = [bs |-> AdToBs(c.day)]
      OBVIOUS
    <3>2. Went(s, "answer", view)
      BY <1>2, <2>1, <2>2, <3>1, GotoGoes DEF ConvertToBs, DeskPhases
    <3>3. c.day \in Int
      BY <2>1, CallFits DEF CommandFits, ConvertRequest
    <3>4. IsBsDate(view.bs) /\ BsToAd(view.bs) = c.day
      BY <2>2, <3>1, <3>3, DayRecovered
    <3>5. DateTold(c.op, "answer", c, view, today)
      BY <2>1, <3>4 DEF DateTold
    <3>6. QED
      BY <1>w, <2>1, <3>2, <3>5 DEF CalendarOps
  <2>3. CASE ~InTable(c.day)
    <3>1. Left(s)
      BY <1>2, <2>1, <2>3, FinishLeaves DEF ConvertToBs
    <3>2. QED
      BY <1>l, <2>1, <3>1 DEF CalendarOps
  <2>4. QED
    BY <2>2, <2>3
<1>3. CASE ListRange(s)
  <2>1. PICK c : c = cmd[s] /\ c.op = "range" /\ pc[s] = "start" /\ today' = today
    BY <1>3 DEF ListRange, At
  <2>2. CASE IsBsDate(c.first) /\ IsBsDate(c.last)
    <3>1. PICK from \in Nat, to \in Nat :
            from = BsToAd(c.first) /\ to = BsToAd(c.last) /\ InTable(from) /\ InTable(to)
      BY <2>2, DayOfDate
    <3>2. PICK dates : dates = [i \in 1 .. to - from + 1 |-> AdToBs(from + i - 1)]
      OBVIOUS
    <3>3. PICK view : view = [dates |-> dates]
      OBVIOUS
    <3>4. Went(s, "answer", view)
      BY <1>3, <2>1, <2>2, <3>1, <3>2, <3>3, GotoGoes DEF ListRange, DeskPhases
    <3>5. ASSUME NEW i \in DOMAIN dates
          PROVE  i \in 1 .. to - from + 1 /\ BsToAd(dates[i]) = from + i - 1
      <4>1. i \in 1 .. to - from + 1 /\ dates[i] = AdToBs(from + i - 1)
        BY <3>2
      <4>2. PICK n \in Int : n = from + i - 1
        BY <4>1
      <4>3. 0 <= n /\ n <= to
        BY <4>1, <4>2
      <4>4. PICK last : last = NewYear[LastYear + 1]
        OBVIOUS
      <4>5. last \in Nat
        BY <4>4, YearsInTable, YearBounds
      <4>6. n < last
        BY <3>1, <4>3, <4>4, <4>5 DEF InTable
      <4>7. InTable(n)
        BY <4>3, <4>4, <4>6 DEF InTable
      <4>8. QED
        BY <4>1, <4>2, <4>7, DayRecovered
    <3>6. ASSUME NEW i \in DOMAIN view.dates \ {1}
          PROVE  BsToAd(view.dates[i]) = BsToAd(view.dates[i - 1]) + 1
      <4>1. view.dates = dates
        BY <3>3
      <4>2. i \in 1 .. to - from + 1 /\ BsToAd(dates[i]) = from + i - 1
        BY <3>5, <3>6, <4>1
      <4>3. DOMAIN dates = 1 .. to - from + 1
        BY <3>2
      <4>4. PICK j : j = i - 1
        OBVIOUS
      <4>5. j \in DOMAIN dates /\ j \in Int
        BY <3>6, <4>2, <4>3, <4>4
      <4>6. BsToAd(dates[j]) = from + j - 1
        BY <3>5, <4>5
      <4>7. QED
        BY <4>1, <4>2, <4>4, <4>5, <4>6
    <3>7. DateTold(c.op, "answer", c, view, today)
      BY <2>1, <3>6 DEF DateTold
    <3>8. QED
      BY <1>w, <2>1, <3>4, <3>7 DEF CalendarOps
  <2>3. CASE ~(IsBsDate(c.first) /\ IsBsDate(c.last))
    <3>1. Left(s)
      BY <1>3, <2>1, <2>3, FinishLeaves DEF ListRange
    <3>2. QED
      BY <1>l, <2>1, <3>1 DEF CalendarOps
  <2>4. QED
    BY <2>2, <2>3
<1>4. CASE ListMonths(s)
  <2>1. PICK c : c = cmd[s] /\ c.op = "months" /\ pc[s] = "start" /\ today' = today
    BY <1>4 DEF ListMonths, At
  <2>2. PICK months : months = [m \in Months |-> LastDayOf(c.year, m)]
    OBVIOUS
  <2>3. PICK view : view = [months |-> months]
    OBVIOUS
  <2>4. Went(s, "answer", view)
    BY <1>4, <2>1, <2>2, <2>3, GotoGoes DEF ListMonths, DeskPhases
  <2>5. c.year \in BsYears
    BY <2>1, CallFits DEF CommandFits, YearRequest
  <2>6. Total(view.months) = NewYear[c.year + 1] - NewYear[c.year]
    BY <2>2, <2>3, <2>5, MonthsListed
  <2>7. DateTold(c.op, "answer", c, view, today)
    BY <2>1, <2>6 DEF DateTold
  <2>8. QED
    BY <1>w, <2>1, <2>4, <2>7 DEF CalendarOps
<1>5. CASE ReadYear(s)
  <2>1. PICK c : c = cmd[s] /\ c.op = "year" /\ pc[s] = "start" /\ today' = today
    BY <1>5 DEF ReadYear, At
  <2>2. PICK y : y = AdToBs(today).year
    OBVIOUS
  <2>3. y \in BsYears /\ NewYear[y] <= today /\ today < NewYear[y + 1]
    BY <1>0, <2>2, DayRecovered
  <2>4. PICK first, last :
          /\ first = BsToAd([year |-> y, month |-> 1, day |-> 1])
          /\ last = BsToAd([year |-> y, month |-> 12, day |-> LastDayOf(y, 12)])
    OBVIOUS
  <2>5. PICK next : next = NewYear[y + 1]
    OBVIOUS
  <2>6. first = NewYear[y] /\ last = next - 1 /\ first \in Nat /\ next \in Nat
    BY <2>3, <2>4, <2>5, YearSpan, YearBounds
  <2>7. PICK view : view = [asked |-> today, year |-> y, first |-> first, last |-> last]
    OBVIOUS
  <2>8. Went(s, "write", view)
    BY <1>5, <2>1, <2>2, <2>4, <2>7, GotoGoes DEF ReadYear, DeskPhases
  <2>9. view.asked = today /\ view.year = y /\ view.first = first /\ view.last = last
    BY <2>7
  <2>10. YearFoundOn(view, today)
    BY <1>0, <2>3, <2>5, <2>6, <2>9 DEF YearFoundOn
  <2>11. DateTold(c.op, "write", c, view, today)
    BY <2>1, <2>10 DEF DateTold
  <2>12. QED
    BY <1>w, <2>1, <2>8, <2>11 DEF CalendarOps
<1>6. CASE ReadCurrent(s)
  <2>1. PICK c : c = cmd[s] /\ c.op = "year" /\ pc[s] = "write" /\ today' = today
    BY <1>6 DEF ReadCurrent, At
  <2>2. PICK y : y = seen[s]
    OBVIOUS
  <2>3. YearFoundOn(y, today)
    BY <2>1, <2>2, CalendarMeans DEF DatesTold, DateTold
  <2>4. PICK view : view = [current |-> y.first <= today /\ today <= y.last, year |-> y]
    OBVIOUS
  <2>5. Went(s, "answer", view)
    BY <1>6, <2>1, <2>2, <2>4, GotoGoes DEF ReadCurrent, DeskPhases
  <2>6. view.year = y /\ (view.current <=> y.first <= today /\ today <= y.last)
    BY <2>4
  <2>7. ~view.current => y.last < today
    BY <1>0, <2>3, <2>6 DEF YearFoundOn
  <2>8. DateTold(c.op, "answer", c, view, today)
    BY <2>1, <2>3, <2>6, <2>7 DEF DateTold
  <2>9. QED
    BY <1>w, <2>1, <2>5, <2>8 DEF CalendarOps
<1>7. CASE AnswerDate(s)
  <2>1. cmd[s].op \in CalendarOps /\ today' = today /\ Left(s)
    BY <1>7, FinishLeaves DEF AnswerDate, At, CalendarOps
  <2>2. QED
    BY <1>l, <2>1
<1>8. QED
  BY <1>1, <1>2, <1>3, <1>4, <1>5, <1>6, <1>7 DEF CalendarNext

LEMMA CalendarStarts ==
    ASSUME DeskInit, CalendarInit
    PROVE  CalendarInv
<1>1. today \in FirstDay .. LastDay
  BY TableAssumption, ClockAssumption DEF CalendarInit
<1>2. \A s \in Sessions : DateTold(cmd[s].op, pc[s], cmd[s], seen[s], today)
  BY NothingTold DEF DeskInit
<1>3. QED
  BY <1>1, <1>2, CalendarMeans DEF DatesTold

-----------------------------------------------------------------------------
(* Reports. *)

ReportOps == {"generate", "archive", "export", "detail", "preview", "reports", "post"}

Summary == [count: Nat, sum: Nat]

LEMMA ReportFacts ==
    /\ \A row \in ReportRow : row # NoRow
    /\ "none" \notin RequestKeys /\ NotArchived \notin Reasons
    /\ IsFiniteSet(SourceRows) /\ SourceRows # {} /\ MaxRows \in Nat
  BY ReportsAssumption

LEMMA ReportCalled ==
    ASSUME DeskInv, NEW s \in Sessions, pc[s] # "idle"
    PROVE  /\ cmd[s].op = "generate" => cmd[s].key \in RequestKeys /\ cmd[s].intent \in Intents
           /\ cmd[s].op = "archive" => /\ cmd[s].key \in RequestKeys /\ cmd[s].report \in ReportIds
                                       /\ cmd[s].reason \in Reasons
           /\ cmd[s].op \in {"export", "detail"} => cmd[s].report \in ReportIds
           /\ cmd[s].op = "post" => cmd[s].row \in SourceRows /\ cmd[s].amount \in Nat
  BY CallFits DEF CommandFits, GenerateRequest, ArchiveRequest, OpenRequest, PostRequest

\* The totals of a table are numbers.
LEMMA SummaryFits ==
    ASSUME NEW rows, IsTable(rows)
    PROVE  /\ SummaryOf(rows) \in Summary
           /\ SummaryOf(rows).count = Cardinality(DOMAIN rows)
           /\ Cardinality(DOMAIN rows) \in Nat
<1>1. PICK D : D = DOMAIN rows
  OBVIOUS
<1>2. IsFiniteSet(D) /\ Cardinality(D) \in Nat /\ \A r \in D : rows[r] \in Nat
  BY <1>1, ReportFacts, FS_Subset, FS_CardinalityType DEF IsTable
<1>3. SumOn(rows, D) \in Nat
  BY <1>2, SumNat
<1>4. SummaryOf(rows).sum = SumOn(rows, D)
  BY <1>1 DEF SummaryOf, MapThenSumSet, MapThenFoldSet, SumOn, IsSum, OneOf
<1>5. SummaryOf(rows) = [count |-> Cardinality(D), sum |-> SumOn(rows, D)]
  BY <1>1, <1>4 DEF SummaryOf
<1>6. QED
  BY <1>1, <1>2, <1>3, <1>5 DEF Summary

LEMMA DigestFits ==
    ASSUME NEW rows, IsTable(rows), NEW summary \in Summary
    PROVE  Digest(summary, rows) \in Summary \X SUBSET (SourceRows \X Nat)
  BY DEF IsTable, Digest

\* What a session knows of the reports, and what it answers.
RetryAnswered(s) ==
    At(s, "generate", "answer") =>
        IF seen[s].reply = "conflict"
        THEN \/ \E r \in OfKey(cmd[s].key) : \/ report[r].intent # cmd[s].intent
                                             \/ report[r].archived # NotArchived
             \/ \E e \in EventsOf(cmd[s].key) : e.action # "generated"
        ELSE OfKey(cmd[s].key) = {seen[s].report}

ReportsTold(s) ==
    /\ ReportsSession(s) /\ RetryAnswered(s)
    /\ At(s, "export", "answer") => seen[s].reply # "damaged"

ReportsSaved ==
    /\ ReportsTypeOK /\ ReportRows /\ ArchivedOnce
    /\ \A r \in ReportIds : report[r] # NoRow /\ report[r].version = 2 =>
         /\ report[r].summary = SummaryOf(saved[r])
         /\ report[r].hash = Digest(report[r].summary, saved[r])
         /\ report[r].summary.count <= MaxRows

ReportsApart ==
    \A s, t \in Sessions : s # t =>
        /\ Generating(s) /\ Generating(t) => cmd[s].key # cmd[t].key
        /\ \A r \in ReportIds : ~(HoldsReport(s, r) /\ HoldsReport(t, r))

ReportsState == ReportsSaved /\ ReportsApart /\ \A s \in Sessions : ReportsTold(s)

LEMMA ReportsMeans == ReportsInv <=> ReportsState
<1>1. ReportsStand <=> /\ ArchivedOnce
                       /\ \A r \in ReportIds : report[r] # NoRow /\ report[r].version = 2 =>
                            /\ report[r].summary = SummaryOf(saved[r])
                            /\ report[r].hash = Digest(report[r].summary, saved[r])
                            /\ report[r].summary.count <= MaxRows
                       /\ \A s \in Sessions : At(s, "export", "answer") => seen[s].reply # "damaged"
                       /\ \A s \in Sessions : RetryAnswered(s)
  BY DEF ReportsStand, SnapshotsWhole, RetriesAnswered, RetryAnswered
<1>2. QED
  BY <1>1 DEF ReportsInv, ReportsState, ReportsSaved, ReportsApart, ReportsTold

\* The saved rows that other calls rely on stay.
LEMMA ToldSame ==
    ASSUME NEW t, Same(t), ReportsTold(t),
           \A r \in ReportIds : HoldsReport(t, r) => report'[r] = report[r],
           At(t, "export", "list") =>
               LET r == cmd[t].report
               IN  /\ report'[r] # NoRow /\ report'[r].version = report[r].version
                   /\ report'[r].summary = report[r].summary /\ report'[r].hash = report[r].hash,
           Generating(t) /\ pc[t] # "list" => OfKey(cmd[t].key)' = {},
           RetryAnswered(t)'
    PROVE  ReportsTold(t)'
<1>1. pc'[t] = pc[t] /\ cmd'[t] = cmd[t] /\ seen'[t] = seen[t]
  BY DEF Same
<1>2. \A r : HoldsReport(t, r)' <=> HoldsReport(t, r)
  BY <1>1 DEF HoldsReport
<1>3. ReportsSession(t)
  BY DEF ReportsTold
<1>4. Generating(t)' /\ pc'[t] # "list" => OfKey(cmd[t].key)' = {}
  BY <1>1 DEF Generating
<1>5. OfKey(cmd[t].key)' = {} => (OfKey(cmd[t].key) = {})'
  OBVIOUS
<1>6. (At(t, "generate", "commit") =>
         IsTable(seen[t].rows) /\ Cardinality(DOMAIN seen[t].rows) <= MaxRows)'
  BY <1>1, <1>3 DEF ReportsSession, At, IsTable
<1>7. \A r \in ReportIds : HoldsReport(t, r)' =>
         /\ report'[r] # NoRow
         /\ IF pc'[t] = "list" THEN seen'[t].archived = report'[r].archived
                               ELSE report'[r].archived = NotArchived
  BY <1>1, <1>2, <1>3 DEF ReportsSession
<1>8. (At(t, "export", "list") =>
         LET r == report[cmd[t].report]
         IN  /\ r # NoRow /\ r.version = 2
             /\ seen[t].summary = r.summary /\ seen[t].hash = r.hash)'
  BY <1>1, <1>3 DEF ReportsSession, At
<1>9. ReportsSession(t)'
  BY <1>4, <1>6, <1>7, <1>8 DEF ReportsSession
<1>10. (At(t, "export", "answer") => seen[t].reply # "damaged")'
  BY <1>1 DEF ReportsTold, At
<1>11. QED
  BY <1>9, <1>10 DEF ReportsTold

\* Nothing is saved: what the other sessions know stays, and the sessions
\* that go on stay out of each other's way.
LEMMA ReportsSettle ==
    ASSUME ReportsInv, IsTable(figures)', report' = report, saved' = saved, event' = event,
           \A t \in Sessions :
              \/ Same(t)
              \/ /\ ReportsTold(t)'
                 /\ \A u \in Sessions \ {t} :
                      /\ Generating(t)' /\ Generating(u)' => cmd'[t].key # cmd'[u].key
                      /\ \A r \in ReportIds : ~(HoldsReport(t, r)' /\ HoldsReport(u, r)')
    PROVE  ReportsInv'
<1>1. ReportsSaved /\ ReportsApart /\ \A t \in Sessions : ReportsTold(t)
  BY ReportsMeans DEF ReportsState
<1>2. ReportsSaved'
  <2>1. ReportsTypeOK' /\ ReportRows' /\ ArchivedOnce'
    BY <1>1 DEF ReportsSaved, ReportsTypeOK, ReportRows, ArchivedOnce, IsTable
  <2>2. QED
    BY <1>1, <2>1 DEF ReportsSaved
<1>3. \A key : OfKey(key)' = OfKey(key) /\ EventsOf(key)' = EventsOf(key)
  BY DEF OfKey, EventsOf
<1>4. ASSUME NEW t \in Sessions
      PROVE  ReportsTold(t)'
  <2>1. CASE Same(t)
    <3>1. PICK c, v : c = cmd[t] /\ v = seen[t]
      OBVIOUS
    <3>2. ReportsTold(t) /\ cmd'[t] = c /\ seen'[t] = v /\ pc'[t] = pc[t]
      BY <1>1, <2>1, <3>1 DEF Same
    <3>3. OfKey(c.key)' = OfKey(c.key) /\ EventsOf(c.key)' = EventsOf(c.key)
      BY <1>3
    <3>4. RetryAnswered(t)'
      BY <3>1, <3>2, <3>3 DEF ReportsTold, RetryAnswered, At, OfKey, EventsOf
    <3>5. Generating(t) /\ pc[t] # "list" => OfKey(cmd[t].key)' = {}
      BY <3>1, <3>2, <3>3 DEF ReportsTold, ReportsSession, OfKey
    <3>6. At(t, "export", "list") => report[cmd[t].report] # NoRow
      BY <3>2 DEF ReportsTold, ReportsSession
    <3>7. QED
      BY <2>1, <3>2, <3>4, <3>5, <3>6, ToldSame
  <2>2. QED
    BY <2>1
<1>5. ASSUME NEW t \in Sessions, NEW u \in Sessions, t # u
      PROVE  /\ Generating(t)' /\ Generating(u)' => cmd'[t].key # cmd'[u].key
             /\ \A r \in ReportIds : ~(HoldsReport(t, r)' /\ HoldsReport(u, r)')
  <2>1. CASE Same(t) /\ Same(u)
    BY <1>1, <1>5, <2>1 DEF Same, ReportsApart, Generating, HoldsReport
  <2>2. CASE ~(Same(t) /\ Same(u))
    BY <1>5, <2>2
  <2>3. QED
    BY <2>1, <2>2
<1>6. ReportsApart'
  BY <1>5 DEF ReportsApart
<1>7. ReportsState'
  BY <1>2, <1>4, <1>6 DEF ReportsState
<1>8. QED
  BY <1>7, ReportsMeans, PTL

LEMMA ReportsStays ==
    ASSUME ReportsInv, UNCHANGED reportTables, Quiet(ReportOps)
    PROVE  ReportsInv'
<1>1. figures' = figures /\ report' = report /\ saved' = saved /\ event' = event
  BY DEF reportTables
<1>2. IsTable(figures)'
  BY <1>1 DEF ReportsInv, ReportsTypeOK, IsTable
<1>3. ASSUME NEW t \in Sessions, ~Same(t)
      PROVE  ReportsTold(t)' /\ ~Generating(t)' /\ \A r : ~HoldsReport(t, r)'
  <2>1. pc'[t] \in {"idle", "start"} \/ cmd'[t].op \notin ReportOps
    BY <1>3 DEF Quiet
  <2>2. QED
    BY <2>1 DEF ReportsTold, ReportsSession, RetryAnswered, Generating, HoldsReport, At, ReportOps
<1>4. QED
  BY <1>1, <1>2, <1>3, ReportsSettle

\* A call goes on, and nothing is saved.
LEMMA ReportsGoOn ==
    ASSUME ReportsInv, NEW s \in Sessions, Others(s), cmd'[s] = cmd[s],
           IsTable(figures)', report' = report, saved' = saved, event' = event,
           ReportsTold(s)',
           Generating(s)' /\ ~Generating(s) =>
               \A u \in Sessions \ {s} : ~(Generating(u) /\ cmd[u].key = cmd[s].key),
           \A r \in ReportIds : HoldsReport(s, r)' /\ ~HoldsReport(s, r) =>
               \A u \in Sessions \ {s} : ~HoldsReport(u, r)
    PROVE  ReportsInv'
<1>1. ReportsApart
  BY ReportsMeans DEF ReportsState
<1>2. ASSUME NEW u \in Sessions \ {s}
      PROVE  /\ Generating(s)' /\ Generating(u)' => cmd'[s].key # cmd'[u].key
             /\ \A r \in ReportIds : ~(HoldsReport(s, r)' /\ HoldsReport(u, r)')
  <2>1. /\ cmd'[u] = cmd[u] /\ (Generating(u)' <=> Generating(u))
        /\ \A r : HoldsReport(u, r)' <=> HoldsReport(u, r)
    BY DEF Others, Same, Generating, HoldsReport
  <2>2. Generating(s)' /\ Generating(u) => cmd[s].key # cmd[u].key
    BY <1>1 DEF ReportsApart
  <2>3. \A r \in ReportIds : ~(HoldsReport(s, r)' /\ HoldsReport(u, r))
    BY <1>1 DEF ReportsApart
  <2>4. QED
    BY <2>1, <2>2, <2>3
<1>3. \A t \in Sessions :
        \/ Same(t)
        \/ /\ ReportsTold(t)'
           /\ \A u \in Sessions \ {t} :
                /\ Generating(t)' /\ Generating(u)' => cmd'[t].key # cmd'[u].key
                /\ \A r \in ReportIds : ~(HoldsReport(t, r)' /\ HoldsReport(u, r)')
  BY <1>2 DEF Others
<1>4. QED
  BY <1>3, ReportsSettle

\* Of one request id there is one report.
LEMMA OneOfKey ==
    ASSUME ReportsInv, NEW key \in RequestKeys, NEW r \in OfKey(key)
    PROVE  OfKey(key) = {r}
  BY ReportFacts DEF ReportsInv, ReportRows, OfKey

\* Of a request id without a report there is no event of a generation.
LEMMA NoGeneration ==
    ASSUME ReportsInv, NEW key, OfKey(key) = {}, NEW e \in EventsOf(key)
    PROVE  e.action # "generated"
<1>1. e \in event /\ e.key = key /\ e.report \in ReportIds
  BY DEF ReportsInv, ReportsTypeOK, EventsOf
<1>2. SUFFICES ASSUME e.action = "generated" PROVE FALSE
  OBVIOUS
<1>3. e.report \in OfKey(key)
  BY <1>1, <1>2 DEF ReportsInv, ReportRows, OfKey
<1>4. QED
  BY <1>3

\* Rows are saved or changed: what the tables say, and what the sessions know.
LEMMA ReportsSettled ==
    ASSUME ReportsInv, NEW s \in Sessions, Others(s), ReportsSaved', ReportsTold(s)',
           ~Generating(s)', \A r \in ReportIds : ~HoldsReport(s, r)',
           \A t \in Sessions \ {s} : ReportsTold(t)'
    PROVE  ReportsInv'
<1>1. ReportsApart
  BY ReportsMeans DEF ReportsState
<1>2. \A t \in Sessions \ {s} :
        /\ cmd'[t] = cmd[t] /\ (Generating(t)' <=> Generating(t))
        /\ \A r : HoldsReport(t, r)' <=> HoldsReport(t, r)
  BY DEF Others, Same, Generating, HoldsReport
<1>3. ReportsApart'
  <2>1. ASSUME NEW t \in Sessions, NEW u \in Sessions, t # u
        PROVE  /\ Generating(t)' /\ Generating(u)' => cmd'[t].key # cmd'[u].key
               /\ \A r \in ReportIds : ~(HoldsReport(t, r)' /\ HoldsReport(u, r)')
    <3>1. CASE t = s \/ u = s
      BY <3>1
    <3>2. CASE t # s /\ u # s
      BY <1>1, <1>2, <2>1, <3>2 DEF ReportsApart
    <3>3. QED
      BY <3>1, <3>2
  <2>2. QED
    BY <2>1 DEF ReportsApart
<1>4. ReportsState'
  BY <1>3 DEF ReportsState
<1>5. QED
  BY <1>4, ReportsMeans, PTL

\* A report is saved with its rows and its event.
LEMMA ReportCommitted ==
    ASSUME DeskInv, ReportsInv, NEW s \in Sessions, CommitReport(s)
    PROVE  ReportsInv' /\ \E phase, view : Went(s, phase, view)
<1>0. /\ ReportsSaved /\ ReportsApart /\ \A t \in Sessions : ReportsTold(t)
      /\ pc[s] = "commit" /\ cmd[s].op = "generate" /\ figures' = figures
  BY ReportsMeans DEF ReportsState, CommitReport, At
<1>1. PICK key, intent, rows : key = cmd[s].key /\ intent = cmd[s].intent /\ rows = seen[s].rows
  OBVIOUS
<1>2. /\ key \in RequestKeys /\ intent \in Intents
      /\ OfKey(key) = {} /\ IsTable(rows) /\ Cardinality(DOMAIN rows) <= MaxRows
  <2>1. ReportsSession(s)
    BY <1>0 DEF ReportsTold
  <2>2. QED
    BY <1>0, <1>1, <2>1, ReportCalled DEF ReportsSession, Generating, At
<1>3. CASE EventsOf(key) # {}
  <2>1. PICK view : view = Conflict /\ Goto(s, "answer", view)
    BY <1>1, <1>3 DEF CommitReport, Reply
  <2>2. report' = report /\ saved' = saved /\ event' = event
    BY <1>1, <1>3 DEF CommitReport
  <2>3. Went(s, "answer", view)
    BY <1>0, <2>1, GotoGoes DEF DeskPhases
  <2>4. pc'[s] = "answer" /\ cmd'[s] = cmd[s] /\ seen'[s] = view /\ view.reply = "conflict"
    BY <2>1, <2>3 DEF Went, Conflict
  <2>5. PICK e \in EventsOf(key) : e.action # "generated"
    BY <1>2, <1>3, NoGeneration
  <2>6. RetryAnswered(s)'
    BY <1>1, <2>2, <2>4, <2>5 DEF RetryAnswered, EventsOf
  <2>7. ReportsTold(s)' /\ ~Generating(s)' /\ \A r : ~HoldsReport(s, r)'
    BY <1>0, <2>4, <2>6 DEF ReportsTold, ReportsSession, Generating, HoldsReport, At
  <2>8. IsTable(figures)'
    BY <1>0 DEF ReportsSaved, ReportsTypeOK, IsTable
  <2>9. ReportsInv'
    BY <2>2, <2>3, <2>4, <2>7, <2>8, ReportsGoOn DEF Went
  <2>10. QED
    BY <2>3, <2>9
<1>4. CASE EventsOf(key) = {}
  <2>1. PICK summary : summary = SummaryOf(rows)
    OBVIOUS
  <2>2. /\ summary \in Summary /\ summary.count <= MaxRows
        /\ Digest(summary, rows) \in Summary \X SUBSET (SourceRows \X Nat)
    BY <1>2, <2>1, SummaryFits, DigestFits
  <2>3. PICK r : r = NextId
    OBVIOUS
  <2>4. PICK row : row = [key |-> key, intent |-> intent, version |-> 2, archived |-> NotArchived,
                          summary |-> summary, hash |-> Digest(summary, rows)]
    OBVIOUS
  <2>5. PICK e : e = [report |-> r, key |-> key, action |-> "generated", notes |-> NotArchived]
    OBVIOUS
  <2>6. /\ UnusedIds # {} /\ report' = [report EXCEPT ![r] = row]
        /\ saved' = [saved EXCEPT ![r] = rows] /\ event' = event \cup {e}
        /\ Goto(s, "answer", Shown(r))
    BY <1>1, <1>2, <1>4, <2>1, <2>3, <2>4, <2>5 DEF CommitReport, SummaryFor, Reply
  <2>7. r \in ReportIds /\ report[r] = NoRow
    BY <2>3, <2>6 DEF NextId, UnusedIds
  <2>8. /\ row \in ReportRow /\ row # NoRow /\ row.key = key /\ row.archived = NotArchived
        /\ row.summary = summary /\ row.hash = Digest(summary, rows) /\ row.version = 2
    <3>1. row \in ReportRow
      BY <1>2, <2>2, <2>4 DEF ReportRow, Summary
    <3>2. QED
      BY <2>4, <3>1, ReportFacts
  <2>9. /\ report \in [ReportIds -> ReportRow \cup {NoRow}] /\ DOMAIN saved = ReportIds
        /\ \A x \in event : report[x.report] # NoRow /\ x.report \in ReportIds
    BY <1>0 DEF ReportsSaved, ReportRows, ReportsTypeOK
  <2>10. /\ report'[r] = row /\ saved'[r] = rows
         /\ \A q \in ReportIds \ {r} : report'[q] = report[q] /\ saved'[q] = saved[q]
         /\ report' \in [ReportIds -> ReportRow \cup {NoRow}] /\ DOMAIN saved' = ReportIds
    BY <2>6, <2>7, <2>8, <2>9
  <2>11. e.report = r /\ e.key = key /\ e.action = "generated"
    BY <2>5
  <2>12. \A q \in OfKey(key)' : q = r
    BY <1>2, <2>10 DEF OfKey
  <2>13. ReportsTypeOK'
    <3>1. e \in [report: ReportIds, key: RequestKeys, action: {"generated", "archived"},
                 notes: Reasons \cup {NotArchived}]
      BY <1>2, <2>5, <2>7
    <3>2. \A q \in ReportIds : IsTable(saved'[q])
      BY <1>0, <1>2, <2>10 DEF ReportsSaved, ReportsTypeOK
    <3>3. \A q \in ReportIds : report'[q] # NoRow =>
            /\ report'[q].key \in RequestKeys \cup {"none"} /\ report'[q].intent \in Intents
            /\ report'[q].version \in {1, 2} /\ report'[q].archived \in Reasons \cup {NotArchived}
      BY <2>10 DEF ReportRow
    <3>4. IsTable(figures')
      BY <1>0 DEF ReportsSaved, ReportsTypeOK
    <3>5. event' \subseteq [report: ReportIds, key: RequestKeys, action: {"generated", "archived"},
                            notes: Reasons \cup {NotArchived}]
      BY <1>0, <2>6, <3>1 DEF ReportsSaved, ReportsTypeOK
    <3>6. QED
      BY <3>2, <3>3, <3>4, <3>5 DEF ReportsTypeOK, IsTable
  <2>14. ReportRows'
    <3>1. ASSUME NEW p \in ReportIds, NEW q \in ReportIds, report'[p] # NoRow, report'[q] # NoRow,
                 report'[p].key = report'[q].key, report'[p].key # "none"
          PROVE  p = q
      <4>1. CASE p = r \/ q = r
        <5>1. report'[p].key = key /\ report'[q].key = key
          BY <2>8, <2>10, <3>1, <4>1
        <5>2. p \in OfKey(key)' /\ q \in OfKey(key)'
          BY <3>1, <5>1 DEF OfKey
        <5>3. QED
          BY <2>12, <5>2
      <4>2. CASE p # r /\ q # r
        BY <1>0, <2>10, <3>1, <4>2 DEF ReportsSaved, ReportRows
      <4>3. QED
        BY <4>1, <4>2
    <3>2. ASSUME NEW x \in event'
          PROVE  /\ report'[x.report] # NoRow
                 /\ x.action = "generated" => report'[x.report].key = x.key
      <4>1. CASE x = e
        BY <2>8, <2>10, <2>11, <4>1
      <4>2. CASE x \in event
        <5>1. x.report \in ReportIds \ {r}
          BY <2>7, <2>9, <4>2
        <5>2. QED
          BY <1>0, <2>10, <4>2, <5>1 DEF ReportsSaved, ReportRows
      <4>3. QED
        BY <2>6, <3>2, <4>1, <4>2
    <3>3. QED
      BY <2>10, <3>1, <3>2 DEF ReportRows
  <2>15. ArchivedOnce'
    <3>1. ASSUME NEW q \in ReportIds, report'[q] # NoRow
          PROVE  (LET archives == {x \in event : x.report = q /\ x.action = "archived"}
                  IN  IF report[q].archived = NotArchived THEN archives = {}
                      ELSE \E x \in archives : archives = {x} /\ x.notes = report[q].archived)'
      <4>1. {x \in event' : x.report = q /\ x.action = "archived"}
              = {x \in event : x.report = q /\ x.action = "archived"}
        BY <2>6, <2>11
      <4>2. CASE q = r
        <5>1. {x \in event : x.report = q /\ x.action = "archived"} = {}
          BY <2>7, <2>9, <4>2
        <5>2. QED
          BY <2>8, <2>10, <4>1, <4>2, <5>1
      <4>3. CASE q # r
        <5>1. report'[q] = report[q] /\ report[q] # NoRow
          BY <2>10, <3>1, <4>3
        <5>2. QED
          BY <1>0, <4>1, <5>1 DEF ReportsSaved, ArchivedOnce
      <4>4. QED
        BY <4>2, <4>3
    <3>2. QED
      BY <3>1 DEF ArchivedOnce
  <2>16. ReportsSaved'
    <3>1. ASSUME NEW q \in ReportIds, report'[q] # NoRow, report'[q].version = 2
          PROVE  /\ report'[q].summary = SummaryOf(saved'[q])
                 /\ report'[q].hash = Digest(report'[q].summary, saved'[q])
                 /\ report'[q].summary.count <= MaxRows
      <4>1. CASE q = r
        BY <2>1, <2>2, <2>8, <2>10, <4>1
      <4>2. CASE q # r
        BY <1>0, <2>10, <3>1, <4>2 DEF ReportsSaved
      <4>3. QED
        BY <4>1, <4>2
    <3>2. QED
      BY <2>13, <2>14, <2>15, <3>1 DEF ReportsSaved
  <2>17. PICK view : view = Shown(r)
    OBVIOUS
  <2>18. Went(s, "answer", view)
    BY <1>0, <2>6, <2>17, GotoGoes DEF DeskPhases
  <2>19. /\ pc'[s] = "answer" /\ cmd'[s] = cmd[s] /\ seen'[s] = view
         /\ view.reply = "metadata" /\ view.report = r
    BY <2>17, <2>18 DEF Went, Shown
  <2>20. OfKey(key)' = {r}
    BY <2>7, <2>8, <2>10, <2>12 DEF OfKey
  <2>21. RetryAnswered(s)'
    BY <1>1, <2>19, <2>20 DEF RetryAnswered, OfKey
  <2>22. ReportsTold(s)' /\ ~Generating(s)' /\ \A q : ~HoldsReport(s, q)'
    BY <1>0, <2>19, <2>21 DEF ReportsTold, ReportsSession, Generating, HoldsReport, At
  <2>23. ASSUME NEW t \in Sessions \ {s}
         PROVE  ReportsTold(t)'
    <3>1. PICK c, v : c = cmd[t] /\ v = seen[t]
      OBVIOUS
    <3>2. Same(t) /\ ReportsTold(t) /\ cmd'[t] = c /\ seen'[t] = v /\ pc'[t] = pc[t]
      BY <1>0, <2>18, <3>1 DEF Went, Others, Same
    <3>3. \A q \in ReportIds : report[q] # NoRow => report'[q] = report[q]
      BY <2>7, <2>10
    <3>4. \A k : k # key => OfKey(k)' = OfKey(k)
      BY <2>7, <2>8, <2>10 DEF OfKey
    <3>5. \A k : OfKey(k) # {} => OfKey(k)' = OfKey(k)
      BY <1>2, <3>4
    <3>6. \A k : EventsOf(k) \subseteq EventsOf(k)'
      BY <2>6 DEF EventsOf
    <3>7. \A q \in ReportIds : HoldsReport(t, q) => report'[q] = report[q]
      BY <3>2, <3>3 DEF ReportsTold, ReportsSession
    <3>8. ASSUME At(t, "export", "list")
          PROVE  report'[c.report] = report[c.report] /\ report[c.report] # NoRow
      <4>1. c.report \in ReportIds
        BY <3>1, <3>8, ReportCalled DEF At
      <4>2. report[c.report] # NoRow
        BY <3>1, <3>2, <3>8 DEF ReportsTold, ReportsSession
      <4>3. QED
        BY <3>3, <4>1, <4>2
    <3>9. Generating(t) /\ pc[t] # "list" => OfKey(c.key)' = {}
      <4>1. Generating(t) => c.key # key
        BY <1>0, <1>1, <3>1 DEF ReportsApart, Generating
      <4>2. Generating(t) /\ pc[t] # "list" => OfKey(c.key) = {}
        BY <3>1, <3>2 DEF ReportsTold, ReportsSession
      <4>3. QED
        BY <3>4, <4>1, <4>2
    <3>10. RetryAnswered(t)'
      <4>1. SUFFICES ASSUME At(t, "generate", "answer")' PROVE RetryAnswered(t)'
        BY DEF RetryAnswered
      <4>2. At(t, "generate", "answer")
        BY <3>2, <4>1 DEF At, Same
      <4>3. CASE v.reply = "conflict"
        <5>1. \/ \E q \in OfKey(c.key) : \/ report[q].intent # c.intent
                                         \/ report[q].archived # NotArchived
              \/ \E x \in EventsOf(c.key) : x.action # "generated"
          BY <3>1, <3>2, <4>2, <4>3 DEF ReportsTold, RetryAnswered
        <5>2. CASE \E q \in OfKey(c.key) : \/ report[q].intent # c.intent
                                           \/ report[q].archived # NotArchived
          <6>1. PICK q \in OfKey(c.key) : \/ report[q].intent # c.intent
                                          \/ report[q].archived # NotArchived
            BY <5>2
          <6>2. q \in OfKey(c.key)' /\ report'[q] = report[q]
            BY <3>3, <3>5, <6>1 DEF OfKey
          <6>3. QED
            BY <3>2, <4>3, <6>1, <6>2 DEF RetryAnswered, OfKey
        <5>3. CASE \E x \in EventsOf(c.key) : x.action # "generated"
          BY <3>2, <3>6, <4>3, <5>3 DEF RetryAnswered, EventsOf
        <5>4. QED
          BY <5>1, <5>2, <5>3
      <4>4. CASE v.reply # "conflict"
        <5>1. OfKey(c.key) = {v.report}
          BY <3>1, <3>2, <4>2, <4>4 DEF ReportsTold, RetryAnswered
        <5>2. OfKey(c.key)' = {v.report}
          BY <3>5, <5>1
        <5>3. QED
          BY <3>2, <4>4, <5>2 DEF RetryAnswered, OfKey
      <4>5. QED
        BY <4>3, <4>4
    <3>11. Generating(t) /\ pc[t] # "list" => OfKey(cmd[t].key)' = {}
      BY <3>1, <3>2, <3>9 DEF OfKey
    <3>12. QED
      BY <3>1, <3>2, <3>7, <3>8, <3>10, <3>11, ToldSame
  <2>24. ReportsInv'
    BY <2>16, <2>18, <2>22, <2>23, ReportsSettled DEF Went
  <2>25. QED
    BY <2>18, <2>24
<1>5. QED
  BY <1>3, <1>4

\* A report is archived, with its event.
LEMMA ReportArchived ==
    ASSUME DeskInv, ReportsInv, NEW s \in Sessions, CommitArchive(s)
    PROVE  ReportsInv' /\ \E phase, view : Went(s, phase, view)
<1>0. /\ ReportsSaved /\ ReportsApart /\ \A t \in Sessions : ReportsTold(t)
      /\ pc[s] = "commit" /\ cmd[s].op = "archive" /\ figures' = figures /\ saved' = saved
  BY ReportsMeans DEF ReportsState, CommitArchive, At
<1>1. PICK key, r, reason : key = cmd[s].key /\ r = cmd[s].report /\ reason = cmd[s].reason
  OBVIOUS
<1>2. /\ key \in RequestKeys /\ r \in ReportIds /\ reason \in Reasons
      /\ HoldsReport(s, r) /\ report[r] # NoRow /\ report[r].archived = NotArchived
  <2>1. ReportsSession(s) /\ HoldsReport(s, r)
    BY <1>0, <1>1 DEF ReportsTold, HoldsReport
  <2>2. key \in RequestKeys /\ r \in ReportIds /\ reason \in Reasons
    BY <1>0, <1>1, ReportCalled
  <2>3. QED
    BY <1>0, <2>1, <2>2 DEF ReportsSession
<1>3. PICK view : Goto(s, "answer", view)
  BY DEF CommitArchive, Reply
<1>4. Went(s, "answer", view)
  BY <1>0, <1>3, GotoGoes DEF DeskPhases
<1>5. pc'[s] = "answer" /\ cmd'[s] = cmd[s] /\ seen'[s] = view
  BY <1>4 DEF Went
<1>6. ReportsTold(s)' /\ ~Generating(s)' /\ \A q : ~HoldsReport(s, q)'
  BY <1>0, <1>5 DEF ReportsTold, ReportsSession, RetryAnswered, Generating, HoldsReport, At
<1>7. CASE EventsOf(key) # {}
  <2>1. report' = report /\ event' = event
    BY <1>1, <1>7 DEF CommitArchive
  <2>2. IsTable(figures)'
    BY <1>0 DEF ReportsSaved, ReportsTypeOK, IsTable
  <2>3. ReportsInv'
    BY <1>0, <1>4, <1>5, <1>6, <2>1, <2>2, ReportsGoOn DEF Went
  <2>4. QED
    BY <1>4, <2>3
<1>8. CASE EventsOf(key) = {}
  <2>1. PICK old, row, e :
          /\ old = report[r] /\ row = [old EXCEPT !.archived = reason]
          /\ e = [report |-> r, key |-> key, action |-> "archived", notes |-> reason]
    OBVIOUS
  <2>2. report' = [report EXCEPT ![r] = row] /\ event' = event \cup {e}
    BY <1>1, <1>8, <2>1 DEF CommitArchive
  <2>3. /\ report \in [ReportIds -> ReportRow \cup {NoRow}] /\ DOMAIN saved = ReportIds
        /\ \A x \in event : report[x.report] # NoRow /\ x.report \in ReportIds
    BY <1>0 DEF ReportsSaved, ReportRows, ReportsTypeOK
  <2>4. old \in ReportRow
    BY <1>2, <2>1, <2>3
  <2>5. /\ row \in ReportRow /\ row # NoRow /\ row.archived = reason
        /\ row.key = old.key /\ row.intent = old.intent /\ row.version = old.version
        /\ row.summary = old.summary /\ row.hash = old.hash
    <3>1. row = [key |-> old.key, intent |-> old.intent, version |-> old.version,
                 archived |-> reason, summary |-> old.summary, hash |-> old.hash]
      BY <2>1, <2>4 DEF ReportRow
    <3>2. row \in ReportRow
      BY <1>2, <2>4, <3>1 DEF ReportRow
    <3>3. QED
      BY <3>1, <3>2, ReportFacts
  <2>6. /\ report'[r] = row /\ \A q \in ReportIds \ {r} : report'[q] = report[q]
        /\ report' \in [ReportIds -> ReportRow \cup {NoRow}]
    BY <1>2, <2>2, <2>3, <2>5
  <2>7. e.report = r /\ e.key = key /\ e.action = "archived" /\ e.notes = reason
    BY <2>1
  <2>8. \A k : OfKey(k)' = OfKey(k)
    <3>1. ASSUME NEW q \in ReportIds
          PROVE  /\ report'[q] # NoRow <=> report[q] # NoRow
                 /\ report[q] # NoRow => report'[q].key = report[q].key
      <4>1. CASE q = r
        BY <1>2, <2>1, <2>5, <2>6, <4>1
      <4>2. CASE q # r
        BY <2>6, <4>2
      <4>3. QED
        BY <4>1, <4>2
    <3>2. QED
      BY <3>1 DEF OfKey
  <2>9. \A q \in ReportIds : report'[q] # NoRow <=> report[q] # NoRow
    BY <1>2, <2>5, <2>6
  <2>10. ReportsTypeOK'
    <3>1. e \in [report: ReportIds, key: RequestKeys, action: {"generated", "archived"},
                 notes: Reasons \cup {NotArchived}]
      BY <1>2, <2>1
    <3>2. \A q \in ReportIds : report'[q] # NoRow =>
            /\ report'[q].key \in RequestKeys \cup {"none"} /\ report'[q].intent \in Intents
            /\ report'[q].version \in {1, 2} /\ report'[q].archived \in Reasons \cup {NotArchived}
      BY <2>6 DEF ReportRow
    <3>3. event' \subseteq [report: ReportIds, key: RequestKeys, action: {"generated", "archived"},
                            notes: Reasons \cup {NotArchived}]
      BY <1>0, <2>2, <3>1 DEF ReportsSaved, ReportsTypeOK
    <3>4. QED
      BY <1>0, <3>2, <3>3 DEF ReportsSaved, ReportsTypeOK, IsTable
  <2>11. ReportRows'
    <3>1. \A q \in ReportIds : report[q] # NoRow => report'[q].key = report[q].key
      BY <2>1, <2>5, <2>6
    <3>2. ASSUME NEW p \in ReportIds, NEW q \in ReportIds, report'[p] # NoRow, report'[q] # NoRow,
                 report'[p].key = report'[q].key, report'[p].key # "none"
          PROVE  p = q
      BY <1>0, <2>9, <3>1, <3>2 DEF ReportsSaved, ReportRows
    <3>3. ASSUME NEW x \in event'
          PROVE  /\ report'[x.report] # NoRow
                 /\ x.action = "generated" => report'[x.report].key = x.key
      <4>1. CASE x = e
        BY <2>5, <2>6, <2>7, <4>1
      <4>2. CASE x \in event
        BY <1>0, <2>3, <2>9, <3>1, <4>2 DEF ReportsSaved, ReportRows
      <4>3. QED
        BY <2>2, <3>3, <4>1, <4>2
    <3>4. QED
      BY <1>0, <2>3, <2>6, <3>2, <3>3 DEF ReportRows
  <2>12. ArchivedOnce'
    <3>1. ASSUME NEW q \in ReportIds, report'[q] # NoRow
          PROVE  (LET archives == {x \in event : x.report = q /\ x.action = "archived"}
                  IN  IF report[q].archived = NotArchived THEN archives = {}
                      ELSE \E x \in archives : archives = {x} /\ x.notes = report[q].archived)'
      <4>1. CASE q = r
        <5>1. {x \in event : x.report = q /\ x.action = "archived"} = {}
          BY <1>0, <1>2, <4>1 DEF ReportsSaved, ArchivedOnce
        <5>2. {x \in event' : x.report = q /\ x.action = "archived"} = {e}
          BY <2>2, <2>7, <4>1, <5>1
        <5>3. report'[q].archived = reason /\ reason # NotArchived
          BY <1>2, <2>5, <2>6, <4>1, ReportFacts
        <5>4. QED
          BY <2>7, <5>2, <5>3
      <4>2. CASE q # r
        <5>1. report'[q] = report[q] /\ report[q] # NoRow
          BY <2>6, <3>1, <4>2
        <5>2. {x \in event' : x.report = q /\ x.action = "archived"}
                = {x \in event : x.report = q /\ x.action = "archived"}
          BY <2>2, <2>7, <4>2
        <5>3. QED
          BY <1>0, <5>1, <5>2 DEF ReportsSaved, ArchivedOnce
      <4>3. QED
        BY <4>1, <4>2
    <3>2. QED
      BY <3>1 DEF ArchivedOnce
  <2>13. ReportsSaved'
    <3>1. ASSUME NEW q \in ReportIds, report'[q] # NoRow, report'[q].version = 2
          PROVE  /\ report'[q].summary = SummaryOf(saved'[q])
                 /\ report'[q].hash = Digest(report'[q].summary, saved'[q])
                 /\ report'[q].summary.count <= MaxRows
      <4>1. /\ report[q] # NoRow /\ report[q].version = 2 /\ saved'[q] = saved[q]
            /\ report'[q].summary = report[q].summary /\ report'[q].hash = report[q].hash
        BY ZenonT(60), <1>0, <1>2, <2>1, <2>5, <2>6, <3>1
      <4>2. QED
        BY <1>0, <4>1 DEF ReportsSaved
    <3>2. QED
      BY <2>10, <2>11, <2>12, <3>1 DEF ReportsSaved
  <2>14. ASSUME NEW t \in Sessions \ {s}
         PROVE  ReportsTold(t)'
    <3>1. PICK c, v : c = cmd[t] /\ v = seen[t]
      OBVIOUS
    <3>2. Same(t) /\ ReportsTold(t) /\ cmd'[t] = c /\ seen'[t] = v /\ pc'[t] = pc[t]
      BY <1>0, <1>4, <3>1 DEF Went, Others, Same
    <3>3. \A q \in ReportIds : HoldsReport(t, q) => report'[q] = report[q]
      BY <1>0, <1>2, <2>6 DEF ReportsApart
    <3>4. ASSUME At(t, "export", "list")
          PROVE  /\ report'[c.report] # NoRow /\ report'[c.report].version = report[c.report].version
                 /\ report'[c.report].summary = report[c.report].summary
                 /\ report'[c.report].hash = report[c.report].hash
      <4>1. c.report \in ReportIds
        BY <3>1, <3>4, ReportCalled DEF At
      <4>2. report[c.report] # NoRow
        BY <3>1, <3>2, <3>4 DEF ReportsTold, ReportsSession
      <4>3. QED
        BY <2>1, <2>5, <2>6, <4>1, <4>2
    <3>5. Generating(t) /\ pc[t] # "list" => OfKey(cmd[t].key)' = {}
      <4>1. Generating(t) /\ pc[t] # "list" => OfKey(c.key)' = {}
        BY <2>8, <3>1, <3>2 DEF ReportsTold, ReportsSession
      <4>2. QED
        BY <3>1, <3>2, <4>1 DEF OfKey
    <3>6. RetryAnswered(t)'
      <4>1. SUFFICES ASSUME At(t, "generate", "answer")' PROVE RetryAnswered(t)'
        BY DEF RetryAnswered
      <4>2. At(t, "generate", "answer")
        BY <3>2, <4>1 DEF At, Same
      <4>3. EventsOf(c.key) \subseteq EventsOf(c.key)' /\ OfKey(c.key)' = OfKey(c.key)
        BY <2>2, <2>8 DEF EventsOf
      <4>4. CASE v.reply = "conflict"
        <5>1. \/ \E q \in OfKey(c.key) : \/ report[q].intent # c.intent
                                         \/ report[q].archived # NotArchived
              \/ \E x \in EventsOf(c.key) : x.action # "generated"
          BY <3>1, <3>2, <4>2, <4>4 DEF ReportsTold, RetryAnswered
        <5>2. CASE \E q \in OfKey(c.key) : \/ report[q].intent # c.intent
                                           \/ report[q].archived # NotArchived
          <6>1. PICK q \in OfKey(c.key) : \/ report[q].intent # c.intent
                                          \/ report[q].archived # NotArchived
            BY <5>2
          <6>2. q \in OfKey(c.key)' /\ (\/ report'[q].intent # c.intent
                                        \/ report'[q].archived # NotArchived)
            <7>1. q \in OfKey(c.key)'
              BY <4>3
            <7>2. CASE q = r
              <8>1. report'[q].archived = reason /\ reason # NotArchived
                BY <1>2, <2>5, <2>6, <7>2, ReportFacts
              <8>2. QED
                BY <7>1, <8>1
            <7>3. CASE q # r
              <8>1. q \in ReportIds
                BY DEF OfKey
              <8>2. report'[q] = report[q]
                BY <2>6, <7>3, <8>1
              <8>3. QED
                BY <6>1, <7>1, <8>2
            <7>4. QED
              BY <7>2, <7>3
          <6>3. QED
            BY <3>2, <4>4, <6>2 DEF RetryAnswered, OfKey
        <5>3. CASE \E x \in EventsOf(c.key) : x.action # "generated"
          BY <3>2, <4>3, <4>4, <5>3 DEF RetryAnswered, EventsOf
        <5>4. QED
          BY <5>1, <5>2, <5>3
      <4>5. CASE v.reply # "conflict"
        <5>1. OfKey(c.key) = {v.report}
          BY <3>1, <3>2, <4>2, <4>5 DEF ReportsTold, RetryAnswered
        <5>2. QED
          BY <3>2, <4>3, <4>5, <5>1 DEF RetryAnswered, OfKey
      <4>6. QED
        BY <4>4, <4>5
    <3>7. QED
      BY <3>1, <3>2, <3>3, <3>4, <3>5, <3>6, ToldSame
  <2>15. ReportsInv'
    BY <1>4, <1>6, <2>13, <2>14, ReportsSettled DEF Went
  <2>16. QED
    BY <1>4, <2>15
<1>9. QED
  BY <1>7, <1>8

LEMMA ReportsKeeps ==
    ASSUME DeskInv, ReportsInv, NEW s \in Sessions, ReportsNext(s)
    PROVE  /\ ReportsInv' /\ DeskInv' /\ menu' = menu /\ cmd[s].op \in ReportOps
           /\ Left(s) \/ \E phase, view : Went(s, phase, view)
<1>0. /\ ReportsSaved /\ ReportsApart /\ \A t \in Sessions : ReportsTold(t) /\ ReportsSession(t)
      /\ IsTable(figures) /\ report \in [ReportIds -> ReportRow \cup {NoRow}]
  BY ReportsMeans DEF ReportsState, ReportsSaved, ReportsTypeOK, ReportRows, ReportsTold
<1>u. ASSUME UNCHANGED reportTables
      PROVE  /\ figures' = figures /\ report' = report /\ saved' = saved /\ event' = event
             /\ IsTable(figures)' /\ \A k : OfKey(k)' = OfKey(k) /\ EventsOf(k)' = EventsOf(k)
  BY <1>0, <1>u DEF reportTables, IsTable, OfKey, EventsOf
<1>l. ASSUME Left(s), IsTable(figures)', report' = report, saved' = saved, event' = event
      PROVE  ReportsInv' /\ DeskInv' /\ menu' = menu
  <2>1. /\ ReportsTold(s)' /\ ~Generating(s)' /\ \A r : ~HoldsReport(s, r)'
    BY <1>l DEF Left, ReportsTold, ReportsSession, RetryAnswered, Generating, HoldsReport, At
  <2>2. \A t \in Sessions :
          \/ Same(t)
          \/ /\ ReportsTold(t)'
             /\ \A u \in Sessions \ {t} :
                  /\ Generating(t)' /\ Generating(u)' => cmd'[t].key # cmd'[u].key
                  /\ \A r \in ReportIds : ~(HoldsReport(t, r)' /\ HoldsReport(u, r)')
    BY <1>l, <2>1 DEF Left, Others
  <2>3. QED
    BY <1>l, <2>2, ReportsSettle DEF Left
\* A call answers; what it says of a retry is true, and no export is damaged.
<1>a. ASSUME NEW view, Went(s, "answer", view), UNCHANGED reportTables, RetryAnswered(s)',
             cmd[s].op = "export" => view.reply # "damaged"
      PROVE  ReportsInv' /\ DeskInv' /\ menu' = menu
  <2>1. pc'[s] = "answer" /\ cmd'[s] = cmd[s] /\ seen'[s] = view
    BY <1>a DEF Went
  <2>2. ReportsTold(s)' /\ ~Generating(s)' /\ \A r : ~HoldsReport(s, r)'
    BY <1>a, <2>1 DEF ReportsTold, ReportsSession, Generating, HoldsReport, At
  <2>3. QED
    BY <1>a, <1>u, <2>1, <2>2, ReportsGoOn DEF Went
\* A call goes on.
<1>w. ASSUME NEW phase \in {"list", "write", "commit"}, NEW view, Went(s, phase, view),
             UNCHANGED reportTables, ReportsSession(s)',
             Generating(s)' /\ ~Generating(s) =>
               \A u \in Sessions \ {s} : ~(Generating(u) /\ cmd[u].key = cmd[s].key),
             \A r \in ReportIds : HoldsReport(s, r)' /\ ~HoldsReport(s, r) =>
               \A u \in Sessions \ {s} : ~HoldsReport(u, r)
      PROVE  ReportsInv' /\ DeskInv' /\ menu' = menu
  <2>1. pc'[s] = phase /\ cmd'[s] = cmd[s] /\ seen'[s] = view
    BY <1>w DEF Went
  <2>2. ReportsTold(s)'
    BY <1>w, <2>1 DEF ReportsTold, RetryAnswered, At
  <2>3. QED
    BY <1>w, <1>u, <2>1, <2>2, ReportsGoOn DEF Went
<1>1. CASE LockRequest(s)
  <2>1. /\ cmd[s].op = "generate" /\ pc[s] = "start" /\ UNCHANGED reportTables
        /\ \A u \in Sessions : ~(Generating(u) /\ cmd[u].key = cmd[s].key)
    BY <1>1 DEF LockRequest, At, Generating
  <2>2. PICK view : Goto(s, "list", view)
    BY <1>1 DEF LockRequest
  <2>3. Went(s, "list", view)
    BY <2>1, <2>2, GotoGoes DEF DeskPhases
  <2>4. ReportsSession(s)' /\ \A r : ~HoldsReport(s, r)'
    BY <2>1, <2>3 DEF Went, ReportsSession, Generating, HoldsReport, At
  <2>5. QED
    BY <1>w, <2>1, <2>3, <2>4 DEF ReportOps
<1>2. CASE FindPrevious(s)
  <2>1. PICK key : /\ key = cmd[s].key /\ cmd[s].op = "generate" /\ pc[s] = "list"
                   /\ UNCHANGED reportTables
    BY <1>2 DEF FindPrevious, At
  <2>2. key \in RequestKeys
    BY <2>1, ReportCalled
  <2>3. CASE OfKey(key) = {}
    <3>1. PICK view : Goto(s, "write", view)
      BY <1>2, <2>1, <2>3 DEF FindPrevious
    <3>2. Went(s, "write", view)
      BY <2>1, <3>1, GotoGoes DEF DeskPhases
    <3>3. pc'[s] = "write" /\ cmd'[s] = cmd[s] /\ OfKey(key)' = {}
      BY <1>u, <2>1, <2>3, <3>2 DEF Went
    <3>4. ReportsSession(s)' /\ (\A r : ~HoldsReport(s, r)') /\ Generating(s)
      BY <2>1, <3>3 DEF ReportsSession, Generating, HoldsReport, At, OfKey
    <3>5. QED
      BY <1>w, <2>1, <3>2, <3>4 DEF ReportOps
  <2>4. CASE OfKey(key) # {}
    <3>1. PICK r : r = CHOOSE q \in OfKey(key) : TRUE
      OBVIOUS
    <3>2. r \in OfKey(key) /\ OfKey(key) = {r}
      BY <2>2, <2>4, <3>1, OneOfKey
    <3>3. PICK view :
            /\ Goto(s, "answer", view)
            /\ IF report[r].intent # cmd[s].intent \/ report[r].archived # NotArchived
               THEN view = Conflict ELSE view = Shown(r)
      BY <1>2, <2>1, <2>4, <3>1 DEF FindPrevious, Reply
    <3>4. Went(s, "answer", view)
      BY <2>1, <3>3, GotoGoes DEF DeskPhases
    <3>5. /\ cmd'[s] = cmd[s] /\ seen'[s] = view /\ OfKey(key)' = {r} /\ report' = report
      BY <1>u, <2>1, <3>2, <3>4 DEF Went
    <3>6. RetryAnswered(s)'
      <4>1. CASE report[r].intent # cmd[s].intent \/ report[r].archived # NotArchived
        <5>1. view.reply = "conflict"
          BY <3>3, <4>1 DEF Conflict
        <5>2. QED
          BY <2>1, <3>5, <4>1, <5>1 DEF RetryAnswered, OfKey
      <4>2. CASE ~(report[r].intent # cmd[s].intent \/ report[r].archived # NotArchived)
        <5>1. view.reply = "metadata" /\ view.report = r
          BY <3>3, <4>2 DEF Shown
        <5>2. QED
          BY <2>1, <3>5, <5>1 DEF RetryAnswered, OfKey
      <4>3. QED
        BY <4>1, <4>2
    <3>7. QED
      BY <1>a, <2>1, <3>4, <3>6 DEF ReportOps
  <2>5. QED
    BY <2>3, <2>4
<1>3. CASE ReadSource(s)
  <2>1. cmd[s].op = "generate" /\ pc[s] = "write" /\ UNCHANGED reportTables
    BY <1>3 DEF ReadSource, At
  <2>2. CASE Cardinality(DOMAIN figures) > MaxRows
    <3>1. Left(s)
      BY <1>3, <2>2, FinishLeaves DEF ReadSource
    <3>2. QED
      BY <1>l, <1>u, <2>1, <3>1 DEF ReportOps
  <2>3. CASE ~(Cardinality(DOMAIN figures) > MaxRows)
    <3>1. PICK view : view = [rows |-> figures] /\ Goto(s, "commit", view)
      BY <1>3, <2>3 DEF ReadSource
    <3>2. Went(s, "commit", view)
      BY <2>1, <3>1, GotoGoes DEF DeskPhases
    <3>3. pc'[s] = "commit" /\ cmd'[s] = cmd[s] /\ seen'[s] = view /\ view.rows = figures
      BY <3>1, <3>2 DEF Went
    <3>4. PICK n \in Nat : n = Cardinality(DOMAIN figures)
      BY <1>0, SummaryFits
    <3>5. n <= MaxRows
      BY <2>3, <3>4, ReportFacts
    <3>6. OfKey(cmd[s].key) = {} /\ Generating(s)
      BY <1>0, <2>1 DEF ReportsSession, Generating
    <3>7. PICK key : key = cmd[s].key
      OBVIOUS
    <3>8. OfKey(key)' = {}
      BY <1>u, <2>1, <3>6, <3>7
    <3>9. ReportsSession(s)' /\ \A r : ~HoldsReport(s, r)'
      BY <1>0, <2>1, <3>3, <3>4, <3>5, <3>7, <3>8
      DEF ReportsSession, Generating, HoldsReport, At, OfKey, IsTable
    <3>10. QED
      BY <1>w, <2>1, <3>2, <3>6, <3>9 DEF ReportOps
  <2>4. QED
    BY <2>2, <2>3
<1>4. CASE CommitReport(s)
  <2>1. cmd[s].op = "generate"
    BY <1>4 DEF CommitReport, At
  <2>2. QED
    BY <1>4, <2>1, ReportCommitted DEF Went, ReportOps
<1>5. CASE LockReport(s)
  <2>1. PICK r : /\ r = cmd[s].report /\ cmd[s].op = "archive" /\ pc[s] = "start"
                 /\ UNCHANGED reportTables /\ \A u \in Sessions \ {s} : ~HoldsReport(u, r)
    BY <1>5 DEF LockReport, At, Unlocked
  <2>2. CASE report[r] = NoRow
    <3>1. Left(s)
      BY <1>5, <2>1, <2>2, FinishLeaves DEF LockReport
    <3>2. QED
      BY <1>l, <1>u, <2>1, <3>1 DEF ReportOps
  <2>3. CASE report[r] # NoRow
    <3>1. PICK view : view = report[r] /\ Goto(s, "list", view)
      BY <1>5, <2>1, <2>3 DEF LockReport
    <3>2. Went(s, "list", view)
      BY <2>1, <3>1, GotoGoes DEF DeskPhases
    <3>3. pc'[s] = "list" /\ cmd'[s] = cmd[s] /\ seen'[s] = view /\ report' = report
      BY <1>u, <2>1, <3>2 DEF Went
    <3>4. (\A q : HoldsReport(s, q)' => q = r) /\ ~Generating(s)'
      BY <2>1, <3>3 DEF HoldsReport, Generating
    <3>5. ReportsSession(s)'
      BY <2>1, <2>3, <3>1, <3>3, <3>4 DEF ReportsSession, At
    <3>6. QED
      BY <1>w, <2>1, <3>2, <3>4, <3>5 DEF ReportOps
  <2>4. QED
    BY <2>2, <2>3
<1>6. CASE FindEvent(s)
  <2>1. PICK r : /\ r = cmd[s].report /\ cmd[s].op = "archive" /\ pc[s] = "list"
                 /\ UNCHANGED reportTables
    BY <1>6 DEF FindEvent, At
  <2>2. r \in ReportIds /\ HoldsReport(s, r)
    BY <2>1, ReportCalled DEF HoldsReport
  <2>3. report[r] # NoRow /\ seen[s].archived = report[r].archived
    BY <1>0, <2>1, <2>2 DEF ReportsSession
  <2>4. (\E view : Goto(s, "answer", view))
        \/ (seen[s].archived = NotArchived /\ Goto(s, "commit", seen[s]))
    BY <1>6 DEF FindEvent, Reply
  <2>5. CASE \E view : Goto(s, "answer", view)
    <3>1. PICK view : Goto(s, "answer", view)
      BY <2>5
    <3>2. Went(s, "answer", view)
      BY <2>1, <3>1, GotoGoes DEF DeskPhases
    <3>3. RetryAnswered(s)'
      BY <2>1, <3>2 DEF Went, RetryAnswered, At
    <3>4. QED
      BY <1>a, <2>1, <3>2, <3>3 DEF ReportOps
  <2>6. CASE seen[s].archived = NotArchived /\ Goto(s, "commit", seen[s])
    <3>1. PICK view : view = seen[s] /\ Goto(s, "commit", view)
      BY <2>6
    <3>2. Went(s, "commit", view)
      BY <2>1, <3>1, GotoGoes DEF DeskPhases
    <3>3. pc'[s] = "commit" /\ cmd'[s] = cmd[s] /\ report' = report
      BY <1>u, <2>1, <3>2 DEF Went
    <3>4. (\A q : HoldsReport(s, q)' => q = r) /\ ~Generating(s)'
      BY <2>1, <3>3 DEF HoldsReport, Generating
    <3>5. ReportsSession(s)'
      BY <2>1, <2>3, <2>6, <3>3, <3>4 DEF ReportsSession, At
    <3>6. QED
      BY <1>w, <2>1, <2>2, <3>2, <3>4, <3>5 DEF ReportOps
  <2>7. QED
    BY <2>4, <2>5, <2>6
<1>7. CASE CommitArchive(s)
  <2>1. cmd[s].op = "archive"
    BY <1>7 DEF CommitArchive, At
  <2>2. QED
    BY <1>7, <2>1, ReportArchived DEF Went, ReportOps
<1>8. CASE ReadReport(s)
  <2>1. PICK c, r : /\ c = cmd[s] /\ r = report[c.report]
                    /\ c.op \in {"export", "detail"} /\ pc[s] = "start" /\ UNCHANGED reportTables
    BY <1>8 DEF ReadReport, At
  <2>2. CASE r = NoRow
    <3>1. Left(s)
      BY <1>8, <2>1, <2>2, FinishLeaves DEF ReadReport
    <3>2. QED
      BY <1>l, <1>u, <2>1, <3>1 DEF ReportOps
  <2>3. CASE r # NoRow /\ r.version # 2 /\ c.op = "export"
    <3>1. PICK view : view = Conflict /\ Goto(s, "answer", view)
      BY <1>8, <2>1, <2>3 DEF ReadReport, Reply
    <3>2. Went(s, "answer", view)
      BY <2>1, <3>1, GotoGoes DEF DeskPhases
    <3>3. RetryAnswered(s)' /\ view.reply # "damaged"
      BY <2>1, <3>1, <3>2 DEF Went, RetryAnswered, At, Conflict
    <3>4. QED
      BY <1>a, <2>1, <3>2, <3>3 DEF ReportOps
  <2>4. CASE r # NoRow /\ ~(r.version # 2 /\ c.op = "export")
    <3>1. Goto(s, "list", r)
      BY <1>8, <2>1, <2>4 DEF ReadReport
    <3>2. Went(s, "list", r)
      BY <2>1, <3>1, GotoGoes DEF DeskPhases
    <3>3. pc'[s] = "list" /\ cmd'[s] = c /\ seen'[s] = r /\ report' = report
      BY <1>u, <2>1, <3>2 DEF Went
    <3>4. ReportsSession(s)' /\ ~Generating(s)' /\ \A q : ~HoldsReport(s, q)'
      BY <2>1, <2>4, <3>3 DEF ReportsSession, Generating, HoldsReport, At
    <3>5. QED
      BY <1>w, <2>1, <3>2, <3>4 DEF ReportOps
  <2>5. QED
    BY <2>2, <2>3, <2>4
<1>9. CASE VerifySnapshot(s)
  <2>1. PICK c, v, rows :
          /\ c = cmd[s] /\ v = seen[s] /\ rows = saved[c.report]
          /\ c.op = "export" /\ pc[s] = "list" /\ UNCHANGED reportTables
    BY <1>9 DEF VerifySnapshot, At
  <2>2. c.report \in ReportIds
    BY <2>1, ReportCalled
  <2>3. /\ report[c.report] # NoRow /\ report[c.report].version = 2
        /\ v.summary = report[c.report].summary /\ v.hash = report[c.report].hash
    BY <1>0, <2>1 DEF ReportsSession, At
  <2>4. v.summary = SummaryOf(rows) /\ v.hash = Digest(v.summary, rows) /\ IsTable(rows)
    BY <1>0, <2>1, <2>2, <2>3 DEF ReportsSaved, ReportsTypeOK
  <2>5. Cardinality(DOMAIN rows) = v.summary.count
    BY <2>4, SummaryFits
  <2>6. PICK view : Goto(s, "commit", view)
    BY <1>9, <2>1, <2>4, <2>5 DEF VerifySnapshot
  <2>7. Went(s, "commit", view)
    BY <2>1, <2>6, GotoGoes DEF DeskPhases
  <2>8. ReportsSession(s)' /\ ~Generating(s)' /\ \A q : ~HoldsReport(s, q)'
    BY <2>1, <2>7 DEF Went, ReportsSession, Generating, HoldsReport, At
  <2>9. QED
    BY <1>w, <2>1, <2>7, <2>8 DEF ReportOps
<1>10. CASE CommitExport(s)
  <2>1. PICK view : /\ view = Shown(cmd[s].report) /\ Goto(s, "answer", view)
                    /\ cmd[s].op = "export" /\ pc[s] = "commit" /\ UNCHANGED reportTables
    BY <1>10 DEF CommitExport, Reply, At
  <2>2. Went(s, "answer", view)
    BY <2>1, GotoGoes DEF DeskPhases
  <2>3. RetryAnswered(s)' /\ view.reply # "damaged"
    BY <2>1, <2>2 DEF Went, RetryAnswered, At, Shown
  <2>4. QED
    BY <1>a, <2>1, <2>2, <2>3 DEF ReportOps
<1>11. CASE ReadDetail(s) \/ ReadPage(s) \/ ListReports(s)
  <2>1. /\ cmd[s].op \in {"detail", "preview", "reports"} /\ pc[s] # "idle"
        /\ UNCHANGED reportTables
    BY <1>11 DEF ReadDetail, ReadPage, ListReports, At
  <2>2. PICK view : Goto(s, "answer", view)
    BY <1>11 DEF ReadDetail, ReadPage, ListReports, Reply
  <2>3. Went(s, "answer", view)
    BY <2>1, <2>2, GotoGoes DEF DeskPhases
  <2>4. RetryAnswered(s)'
    BY <2>1, <2>3 DEF Went, RetryAnswered, At
  <2>5. QED
    BY <1>a, <2>1, <2>3, <2>4 DEF ReportOps
<1>12. CASE ReadTotals(s)
  <2>1. PICK view : /\ Goto(s, "list", view) /\ cmd[s].op = "preview" /\ pc[s] = "start"
                    /\ UNCHANGED reportTables
    BY <1>12 DEF ReadTotals, At
  <2>2. Went(s, "list", view)
    BY <2>1, GotoGoes DEF DeskPhases
  <2>3. ReportsSession(s)' /\ ~Generating(s)' /\ \A q : ~HoldsReport(s, q)'
    BY <2>1, <2>2 DEF Went, ReportsSession, Generating, HoldsReport, At
  <2>4. QED
    BY <1>w, <2>1, <2>2, <2>3 DEF ReportOps
<1>13. CASE Post(s)
  <2>1. /\ cmd[s].op = "post" /\ pc[s] = "start" /\ Left(s)
        /\ report' = report /\ saved' = saved /\ event' = event
    BY <1>13, FinishLeaves DEF Post, At
  <2>2. PICK row \in SourceRows, amount \in Nat : row = cmd[s].row /\ amount = cmd[s].amount
    BY <2>1, ReportCalled
  <2>3. figures' = [r \in DOMAIN figures \cup {row} |-> IF r = row THEN amount ELSE figures[r]]
    BY <1>13, <2>2 DEF Post
  <2>4. IsTable(figures')
    BY <1>0, <2>2, <2>3 DEF IsTable
  <2>5. IsTable(figures)'
    BY <2>4 DEF IsTable
  <2>6. QED
    BY <1>l, <2>1, <2>5 DEF ReportOps
<1>14. CASE SendReport(s)
  <2>1. cmd[s].op \in ReportOps /\ UNCHANGED reportTables /\ Left(s)
    BY <1>14, FinishLeaves DEF SendReport, At, ReportOps
  <2>2. QED
    BY <1>l, <1>u, <2>1
<1>15. QED
  BY <1>1, <1>2, <1>3, <1>4, <1>5, <1>6, <1>7, <1>8, <1>9, <1>10, <1>11, <1>12, <1>13, <1>14
  DEF ReportsNext

LEMMA ReportsStarts ==
    ASSUME DeskInit, ReportsInit
    PROVE  ReportsInv
<1>1. /\ figures = [r \in {CHOOSE first \in SourceRows : TRUE} |-> 1]
      /\ report = [r \in ReportIds |-> IF r = LegacyReport THEN Legacy ELSE NoRow]
      /\ saved = [r \in ReportIds |-> NoRows] /\ event = {}
  BY DEF ReportsInit
<1>2. IsTable(NoRows)
  BY DEF IsTable, NoRows
<1>3. /\ SummaryOf(NoRows) \in Summary
      /\ Digest(SummaryOf(NoRows), NoRows) \in Summary \X SUBSET (SourceRows \X Nat)
  BY <1>2, SummaryFits, DigestFits
<1>4. /\ Legacy \in ReportRow /\ Legacy.version = 1 /\ Legacy.archived = NotArchived
      /\ Legacy.key = "none"
  BY <1>3 DEF Legacy, ReportRow, Summary, Intents
<1>5. \A r \in ReportIds : report[r] # NoRow => r = LegacyReport /\ report[r] = Legacy
  BY <1>1
<1>6. PICK first \in SourceRows : first = CHOOSE x \in SourceRows : TRUE
  BY ReportFacts
<1>7. figures = [r \in {first} |-> 1]
  BY <1>1, <1>6
<1>8. IsTable(figures)
  BY <1>7 DEF IsTable
<1>9. ReportsTypeOK
  BY <1>1, <1>2, <1>4, <1>5, <1>8 DEF ReportsTypeOK, ReportRow
<1>10. ReportRows
  BY <1>1, <1>4, <1>5 DEF ReportRows
<1>11. ArchivedOnce
  BY <1>1, <1>4, <1>5 DEF ArchivedOnce
<1>12. ReportsSaved
  BY <1>4, <1>5, <1>9, <1>10, <1>11 DEF ReportsSaved
<1>13. \A t \in Sessions : /\ ReportsTold(t) /\ ~Generating(t)
                           /\ \A r : ~HoldsReport(t, r)
  BY DEF DeskInit, ReportsTold, ReportsSession, RetryAnswered, Generating, HoldsReport, At
<1>14. ReportsApart
  BY <1>13 DEF ReportsApart
<1>15. QED
  BY <1>12, <1>13, <1>14, ReportsMeans DEF ReportsState

-----------------------------------------------------------------------------
(* The buses: commands, fares and families. *)

\* What a call must say of itself.
ServedOps == BusOps \cup {"feed"}

\* Every call there is to the three.
FleetOps == ServedOps \cup {"maintenance", "location", "price", "assess", "offer", "promote",
                            "options", "board", "alight", "absent", "complete", "call_off",
                            "leave", "demote", "families"}

BusGroup == BusInv /\ FaresInv /\ FamiliesInv

EventsAgree ==
    /\ BusTypeOK
    /\ \A u \in upkeep \cup position : busEvent[u.req] = u
    /\ \A q \in BusRequests : busEvent[q] # NoRow =>
         /\ busEvent[q].op = "service" => busEvent[q] \in upkeep
         /\ busEvent[q].op = "position" => busEvent[q] \in position
         /\ busEvent[q] \in menu /\ busEvent[q].req = q
    /\ DOMAIN busEvent = BusRequests
    /\ NoRow \notin upkeep \cup position

ChargeStands(x) ==
    /\ fare[x.agreement] # NoRow
    /\ fare[x.agreement].rider = x.rider
    /\ Covers(fare[x.agreement], x.month) /\ x.month <= ThisMonth
    /\ {b.amount : b \in BillsFor(x.rider, x.head, x.month)} = {fare[x.agreement].fee}
    /\ \A y \in charge : y.rider = x.rider /\ y.month = x.month => y = x

FareAnswered(c) == fare[c.agreement] # NoRow /\ OfMonth(fare[c.agreement], c) # {}

FaresAgree ==
    /\ FaresTypeOK
    /\ tariff \in [FareHeads -> [amount: Nat, monthly: BOOLEAN]]
    /\ \A x \in charge : ChargeStands(x)
    /\ \A b \in fareBill : b.amount = tariff[b.head].amount
    /\ \A q \in BusRequests : fare[q] # NoRow => busEvent[q] # NoRow \/ q = FirstAgreement
    /\ \A q \in BusRequests : busEvent[q] # NoRow /\ busEvent[q].op = "fare" =>
         FareAnswered(busEvent[q])

LinkStands(q) ==
    IF link[q] = NoRow THEN Endings(q) = {}
    ELSE busEvent[q] # NoRow /\ busEvent[q].op = "link" /\ LinkEnded(q)

OneOpenLink ==
    \A q, r \in OpenLinks :
        link[q].rider = link[r].rider /\ link[q].parent = link[r].parent => q = r

RidesClosed ==
    \A t \in Trips : ride[t].status # "in_progress" =>
        \A p \in DOMAIN part[t] : part[t][p] \in {"alighted", "absent", "cancelled"}

FamiliesAgree ==
    /\ FamiliesTypeOK /\ DOMAIN part = Trips
    /\ OneOpenLink
    /\ \A q \in BusRequests : LinkStands(q)
    /\ RidesClosed

\* One journey of a feed that is about to be answered.
JourneyStands(s, j) ==
    IF cmd[s].viewer = StaffViewer THEN j.status = "in_progress"
    ELSE /\ \E q \in BusRequests \ seen[s].revoked :
               /\ link[q] # NoRow
               /\ link[q].rider = j.child /\ link[q].parent = cmd[s].viewer
         /\ j.child \notin seen[s].left
         /\ j.status # "in_progress" => j.part \in {"alighted", "absent", "cancelled"}
         /\ j.position => j.status = "in_progress" /\ j.part \in {"pending", "boarded"}

BusCall(s) ==
    /\ BusSession(s)
    /\ pc[s] = "answer" /\ cmd[s].op \in BusOps =>
         (seen[s] = Recorded) = (busEvent[cmd[s].req] = cmd[s])
    /\ FaresSession(s)
    /\ At(s, "feed", "answer") => \A j \in seen[s].journeys : JourneyStands(s, j)

OneCommands == \A s, t \in Sessions : s # t => ~(Commanding(s) /\ Commanding(t))

BusCalls == OneCommands /\ \A s \in Sessions : BusCall(s)

BusFacts == EventsAgree /\ FaresAgree /\ FamiliesAgree /\ BusCalls

LEMMA LinksCounted ==
    ASSUME \A q \in BusRequests : LinkStands(q)
    PROVE  \A q \in BusRequests :
             IF link[q] = NoRow THEN Endings(q) = {}
             ELSE busEvent[q].op = "link" /\ Cardinality(Endings(q)) = IF link[q].open THEN 0 ELSE 1
<1>1. SUFFICES ASSUME NEW q \in BusRequests, link[q] # NoRow
               PROVE  Cardinality(Endings(q)) = IF link[q].open THEN 0 ELSE 1
  BY DEF LinkStands
<1>2. LinkEnded(q)
  BY <1>1 DEF LinkStands
<1>3. CASE link[q].open
  BY <1>2, <1>3, FS_EmptySet DEF LinkEnded
<1>4. CASE ~link[q].open
  <2>1. PICK r \in BusRequests : Endings(q) = {r}
    BY <1>2, <1>4 DEF LinkEnded
  <2>2. Cardinality({r}) = 1
    BY FS_Singleton
  <2>3. QED
    BY <1>4, <2>1, <2>2
<1>5. QED
  BY <1>3, <1>4

LEMMA BusMeans == BusGroup <=> BusFacts
<1>1. BusInv <=> /\ EventsAgree /\ OneCommands
                 /\ \A s \in Sessions : BusSession(s)
                 /\ \A s \in Sessions : pc[s] = "answer" /\ cmd[s].op \in BusOps =>
                      (seen[s] = Recorded) = (busEvent[cmd[s].req] = cmd[s])
  BY DEF BusInv, EventsAgree, OneCommands, CommandsOnce
<1>2. FaresInv <=> FaresAgree /\ \A s \in Sessions : FaresSession(s)
  BY DEF FaresInv, FaresAgree, ChargedAsAgreed, ChargeStands, FareAnswered
<1>3. JourneysShown <=> \A s \in Sessions : At(s, "feed", "answer") =>
                          \A j \in seen[s].journeys : JourneyStands(s, j)
  BY DEF JourneysShown, JourneyStands
<1>4. ASSUME FamiliesInv PROVE FamiliesAgree /\ JourneysShown
  <2>1. \A q \in BusRequests : LinkStands(q)
    BY <1>4 DEF FamiliesInv, LinkedOnce, LinkStands, Endings
  <2>2. OneOpenLink /\ RidesClosed
    BY <1>4 DEF FamiliesInv, LinkedOnce, OneOpenLink, RidesClosed
  <2>3. QED
    BY <1>4, <2>1, <2>2 DEF FamiliesInv, FamiliesAgree
<1>5. ASSUME FamiliesAgree, JourneysShown PROVE FamiliesInv
  <2>1. LinkedOnce
    BY <1>5, LinksCounted DEF FamiliesAgree, LinkedOnce, OneOpenLink, Endings
  <2>2. \A q \in BusRequests : link[q] # NoRow =>
          busEvent[q] # NoRow /\ busEvent[q].op = "link" /\ LinkEnded(q)
    BY <1>5 DEF FamiliesAgree, LinkStands
  <2>3. QED
    BY <1>5, <2>1, <2>2 DEF FamiliesInv, FamiliesAgree, RidesClosed
<1>6. QED
  BY <1>1, <1>2, <1>3, <1>4, <1>5 DEF BusGroup, BusFacts, BusCalls, BusCall

-----------------------------------------------------------------------------
(* Steps that record no command. *)

LinksKept ==
    \A q \in BusRequests : link[q] # NoRow =>
        link'[q] # NoRow /\ link'[q].rider = link[q].rider /\ link'[q].parent = link[q].parent

LEMMA LinksSame ==
    ASSUME link' = link
    PROVE  LinksKept
  BY DEF LinksKept

LEMMA JourneyStays ==
    ASSUME LinksKept, NEW s, NEW j, Same(s), JourneyStands(s, j)
    PROVE  JourneyStands(s, j)'
  BY DEF LinksKept, Same, JourneyStands

\* A call that the step leaves alone.
LEMMA CallSame ==
    ASSUME LinksKept, UNCHANGED <<busEvent, fare>>, NEW s, Same(s), BusCall(s)
    PROVE  BusCall(s)' /\ Commanding(s)' = Commanding(s)
<1>1. Commanding(s)' = Commanding(s)
  BY DEF Same, Commanding
<1>2. BusSession(s)'
  BY DEF BusCall, BusSession, Same
<1>3. FaresSession(s)'
  BY DEF BusCall, FaresSession, HoldsTariff, At, Same, Covers
<1>4. At(s, "feed", "answer")' => \A j \in seen'[s].journeys : JourneyStands(s, j)'
  BY JourneyStays DEF BusCall, At, Same
<1>5. QED
  BY <1>1, <1>2, <1>3, <1>4 DEF BusCall, Same

\* A call that is idle, has just begun, or is none of these services'.
LEMMA CallElsewhere ==
    ASSUME NEW s, \/ pc'[s] = "idle"
                  \/ pc'[s] = "start" /\ seen'[s] = NoView
                  \/ cmd[s].op \notin ServedOps /\ cmd'[s] = cmd[s]
    PROVE  BusCall(s)' /\ ~Commanding(s)'
<1>1. ~Commanding(s)'
  BY DEF Commanding, ServedOps
<1>2. BusSession(s)'
  BY DEF BusSession, ServedOps
<1>3. FaresSession(s)'
  BY DEF FaresSession, HoldsTariff, At, ServedOps, BusOps
<1>4. ~At(s, "feed", "answer")'
  BY DEF At, ServedOps
<1>5. QED
  BY <1>1, <1>2, <1>3, <1>4 DEF BusCall, ServedOps

LEMMA CallsQuiet ==
    ASSUME LinksKept, UNCHANGED <<busEvent, fare>>, Quiet(ServedOps), BusCalls
    PROVE  BusCalls'
<1>1. \A t \in Sessions : BusCall(t)' /\ (Commanding(t)' => Commanding(t))
  BY CallSame, CallElsewhere DEF Quiet, BusCalls
<1>2. QED
  BY <1>1 DEF BusCalls, OneCommands

\* One call goes on; if it has the lock now, it had it or nobody did.
LEMMA CallsGoOn ==
    ASSUME LinksKept, UNCHANGED <<busEvent, fare>>, BusCalls,
           NEW s \in Sessions, Others(s), BusCall(s)',
           Commanding(s)' => Commanding(s) \/ NobodyElse(s)
    PROVE  BusCalls'
<1>1. \A t \in Sessions \ {s} : BusCall(t)' /\ (Commanding(t)' = Commanding(t))
  BY CallSame DEF Others, BusCalls
<1>2. QED
  BY <1>1 DEF BusCalls, OneCommands, NobodyElse

LEMMA EventsStay ==
    ASSUME EventsAgree, UNCHANGED busTables, moment' \in Moments, menu' = menu
    PROVE  EventsAgree'
  BY DEF EventsAgree, BusTypeOK, busTables, Moments

LEMMA FaresStay ==
    ASSUME FaresAgree, UNCHANGED <<fareTables, busEvent>>
    PROVE  FaresAgree'
<1>1. \A x : ChargeStands(x) => ChargeStands(x)'
  BY DEF ChargeStands, fareTables, Covers, BillsFor
<1>2. \A c : FareAnswered(c) => FareAnswered(c)'
  BY DEF FareAnswered, fareTables, OfMonth
<1>3. QED
  BY <1>1, <1>2 DEF FaresAgree, FaresTypeOK, fareTables

LEMMA FamiliesStay ==
    ASSUME FamiliesAgree, UNCHANGED <<familyTables, busEvent>>
    PROVE  FamiliesAgree'
<1>1. \A q \in BusRequests : LinkStands(q) => LinkStands(q)'
  BY DEF LinkStands, LinkEnded, Endings, familyTables
<1>2. QED
  BY <1>1 DEF FamiliesAgree, FamiliesTypeOK, OneOpenLink, OpenLinks, RidesClosed, familyTables

\* The steps of the other services.
LEMMA BusStays ==
    ASSUME BusGroup, UNCHANGED busRows, menu' = menu, Quiet(FleetOps)
    PROVE  BusGroup'
<1>1. Quiet(ServedOps)
  BY DEF Quiet, FleetOps
<1>2. BusFacts
  BY BusMeans
<1>3. /\ UNCHANGED busTables /\ UNCHANGED fareTables /\ UNCHANGED familyTables
      /\ UNCHANGED <<busEvent, fare>> /\ link' = link /\ moment' \in Moments
  BY <1>2 DEF busRows, busTables, fareTables, familyTables, BusFacts, EventsAgree, BusTypeOK
<1>4. BusFacts'
  BY <1>1, <1>2, <1>3, LinksSame, CallsQuiet, EventsStay, FaresStay, FamiliesStay DEF BusFacts
<1>5. QED
  BY <1>4, BusMeans, PTL

\* The clock of the buses.
LEMMA BusClock ==
    ASSUME BusGroup, MomentPasses, UNCHANGED <<desk, fareTables, familyTables>>
    PROVE  BusGroup'
<1>1. BusFacts
  BY BusMeans
<1>2. moment' \in Moments
  BY <1>1, MomentsAssumption DEF MomentPasses, BusFacts, EventsAgree, BusTypeOK, Moments
<1>3. /\ UNCHANGED busTables /\ UNCHANGED fareTables /\ UNCHANGED familyTables
      /\ UNCHANGED <<busEvent, fare>> /\ link' = link /\ menu' = menu
  BY DEF MomentPasses, busTables, fareTables, familyTables, desk
<1>4. Quiet(ServedOps)
  BY DEF desk, Quiet, Same
<1>5. BusFacts'
  BY <1>1, <1>2, <1>3, <1>4, LinksSame, CallsQuiet, EventsStay, FaresStay, FamiliesStay
  DEF BusFacts
<1>6. QED
  BY <1>5, BusMeans, PTL

LEMMA BusStarts ==
    ASSUME DeskInit, BusInit, FaresInit, FamiliesInit
    PROVE  BusGroup
<1>1. EventsAgree
  BY MomentsAssumption DEF BusInit, EventsAgree, BusTypeOK, Moments
<1>2. FaresAgree
  <2>1. FaresTypeOK /\ tariff \in [FareHeads -> [amount: Nat, monthly: BOOLEAN]]
    BY FaresAssumption DEF FaresInit, FaresTypeOK, FareRow
  <2>2. QED
    BY <2>1 DEF BusInit, FaresInit, FaresAgree
<1>3. FamiliesAgree
  <2>1. FamiliesTypeOK /\ DOMAIN part = Trips
    BY FamiliesAssumption DEF FamiliesInit, FamiliesTypeOK, RideRow, Parts
  <2>2. OneOpenLink /\ RidesClosed
    BY DEF FamiliesInit, OneOpenLink, OpenLinks, RidesClosed
  <2>3. \A q \in BusRequests : LinkStands(q)
    BY DEF BusInit, FamiliesInit, LinkStands, Endings
  <2>4. QED
    BY <2>1, <2>2, <2>3 DEF FamiliesAgree
<1>4. BusCalls
  BY DEF DeskInit, BusCalls, OneCommands, Commanding, BusCall, BusSession, FaresSession,
         HoldsTariff, At
<1>5. QED
  BY <1>1, <1>2, <1>3, <1>4, BusMeans DEF BusFacts

-----------------------------------------------------------------------------
(* Steps that record a command. *)

RecordedBy(s) ==
    /\ Went(s, "answer", Recorded)
    /\ pc[s] \in {"write", "commit"} /\ cmd[s].op \in BusOps
    /\ cmd[s] \in menu /\ cmd[s] # NoRow
    /\ cmd[s].req \in BusRequests \ {FirstAgreement} /\ busEvent[cmd[s].req] = NoRow
    /\ DOMAIN busEvent' = BusRequests
    /\ busEvent'[cmd[s].req] = cmd[s]
    /\ \A q \in BusRequests \ {cmd[s].req} : busEvent'[q] = busEvent[q]

\* A command has a request id.
LEMMA CommandNamed ==
    ASSUME DeskInv, NEW s \in Sessions, pc[s] # "idle", cmd[s].op \in BusOps
    PROVE  cmd[s].req \in BusRequests \ {FirstAgreement}
<1>1. CommandFits(cmd[s]) /\ cmd[s].req # FirstAgreement
  BY CallFits
<1>2. cmd[s].req \in BusRequests
  BY <1>1 DEF CommandFits, BusOps, ServiceRequest, PositionRequest, FareRequest, AgreeRequest,
              LinkRequest, UnlinkRequest
<1>3. QED
  BY <1>1, <1>2

LEMMA RecordWrites ==
    ASSUME DeskInv, BusFacts, NEW s \in Sessions, Record(s),
           pc[s] \in {"write", "commit"}, cmd[s].op \in BusOps
    PROVE  RecordedBy(s)
<1>1. Goto(s, "answer", Recorded)
  BY DEF Record, Reply
<1>2. Went(s, "answer", Recorded)
  BY <1>1, GotoGoes DEF DeskPhases
<1>3. cmd[s] \in menu /\ cmd[s] # NoRow /\ cmd[s].req \in BusRequests \ {FirstAgreement}
  BY CallFits, CommandNamed
<1>4. busEvent[cmd[s].req] = NoRow /\ DOMAIN busEvent = BusRequests
  BY DEF BusFacts, BusCalls, BusCall, BusSession, EventsAgree
<1>5. PICK c : c = cmd[s]
  OBVIOUS
<1>6. busEvent' = [busEvent EXCEPT ![c.req] = c]
  BY <1>5 DEF Record
<1>7. /\ DOMAIN busEvent' = BusRequests /\ busEvent'[c.req] = c
      /\ \A q \in BusRequests \ {c.req} : busEvent'[q] = busEvent[q]
  BY <1>3, <1>4, <1>5, <1>6
<1>8. QED
  BY <1>2, <1>3, <1>4, <1>5, <1>7 DEF RecordedBy

\* The other calls: none is deciding, and none was answered for this id.
LEMMA RecordCalls ==
    ASSUME DeskInv, BusFacts, NEW s \in Sessions, RecordedBy(s), LinksKept
    PROVE  BusCalls'
<1>1. PICK c : c = cmd[s]
  OBVIOUS
<1>2. /\ pc'[s] = "answer" /\ cmd'[s] = c /\ seen'[s] = Recorded
      /\ busEvent'[c.req] = c /\ c # NoRow /\ c.op \in BusOps
  BY <1>1 DEF RecordedBy, Went
<1>3. BusCall(s)'
  BY <1>2 DEF BusCall, BusSession, FaresSession, HoldsTariff, At, BusOps
<1>4. ~Commanding(s)'
  BY <1>2 DEF Commanding
<1>5. ASSUME NEW t \in Sessions \ {s}
      PROVE  BusCall(t)' /\ Commanding(t)' = Commanding(t)
  <2>1. Same(t) /\ BusCall(t)
    BY DEF RecordedBy, Went, Others, BusFacts, BusCalls
  <2>2. Commanding(t)' = Commanding(t)
    BY <2>1 DEF Same, Commanding
  <2>3. ~Commanding(t)
    BY DEF BusFacts, BusCalls, OneCommands, RecordedBy, Commanding
  <2>4. pc[t] = "answer" /\ cmd[t].op \in BusOps =>
          busEvent[cmd[t].req] # NoRow /\ busEvent'[cmd[t].req] = busEvent[cmd[t].req]
    <3>1. SUFFICES ASSUME pc[t] = "answer", cmd[t].op \in BusOps
                   PROVE  busEvent[cmd[t].req] # NoRow
                          /\ busEvent'[cmd[t].req] = busEvent[cmd[t].req]
      OBVIOUS
    <3>2. cmd[t].req \in BusRequests
      BY <3>1, CommandNamed
    <3>3. busEvent[cmd[t].req] # NoRow
      BY <2>1, <3>1 DEF BusCall, BusSession
    <3>4. QED
      BY <3>2, <3>3 DEF RecordedBy
  <2>5. BusSession(t)'
    BY <2>1, <2>3, <2>4 DEF BusSession, Same, Commanding
  <2>6. FaresSession(t)'
    BY <2>1, <2>3 DEF FaresSession, HoldsTariff, At, Same, Commanding, BusOps
  <2>7. At(t, "feed", "answer")' => \A j \in seen'[t].journeys : JourneyStands(t, j)'
    BY <2>1, JourneyStays DEF BusCall, At, Same
  <2>8. QED
    BY <2>1, <2>2, <2>4, <2>5, <2>6, <2>7 DEF BusCall, Same
<1>6. QED
  BY <1>3, <1>4, <1>5 DEF BusFacts, BusCalls, OneCommands

\* What was recorded stays recorded.
LEMMA EarlierEvents ==
    ASSUME NEW s \in Sessions, RecordedBy(s)
    PROVE  \A q \in BusRequests : busEvent[q] # NoRow => busEvent'[q] = busEvent[q]
  BY DEF RecordedBy

LEMMA RecordEvents ==
    ASSUME EventsAgree, NEW s \in Sessions, RecordedBy(s), moment' = moment,
           \/ cmd[s].op \notin {"service", "position"} /\ UNCHANGED <<upkeep, position>>
           \/ /\ cmd[s] \in ServiceRequest
              /\ upkeep' = upkeep \cup {cmd[s]} /\ position' = position
           \/ /\ cmd[s] \in PositionRequest
              /\ position' = position \cup {cmd[s]} /\ upkeep' = upkeep
    PROVE  EventsAgree'
<1>1. PICK c : c = cmd[s]
  OBVIOUS
<1>2. /\ c \in menu /\ menu' = menu /\ c # NoRow /\ c.op \in BusOps
      /\ c.req \in BusRequests /\ busEvent[c.req] = NoRow
      /\ DOMAIN busEvent' = BusRequests /\ busEvent'[c.req] = c
      /\ \A q \in BusRequests \ {c.req} : busEvent'[q] = busEvent[q]
  BY <1>1 DEF RecordedBy, Went
<1>3. /\ upkeep \subseteq upkeep' /\ position \subseteq position'
      /\ upkeep' \cup position' \subseteq upkeep \cup position \cup {c}
      /\ c.op = "service" => c \in upkeep'
      /\ c.op = "position" => c \in position'
  BY <1>1 DEF ServiceRequest, PositionRequest
<1>4. upkeep' \subseteq ServiceRequest /\ position' \subseteq PositionRequest
  BY <1>1 DEF EventsAgree, BusTypeOK
<1>5. \A u \in upkeep \cup position : u.req \in BusRequests /\ u.req # c.req
  BY <1>2 DEF EventsAgree, BusTypeOK, ServiceRequest, PositionRequest
<1>6. \A u \in upkeep' \cup position' : busEvent'[u.req] = u
  BY <1>2, <1>3, <1>5 DEF EventsAgree
<1>7. \A q \in BusRequests : busEvent'[q] # NoRow =>
         /\ busEvent'[q].op = "service" => busEvent'[q] \in upkeep'
         /\ busEvent'[q].op = "position" => busEvent'[q] \in position'
         /\ busEvent'[q] \in menu' /\ busEvent'[q].req = q
  BY <1>2, <1>3 DEF EventsAgree
<1>8. BusTypeOK'
  BY <1>2, <1>4 DEF EventsAgree, BusTypeOK
<1>9. NoRow \notin upkeep' \cup position'
  BY <1>2, <1>3 DEF EventsAgree
<1>10. QED
  BY <1>2, <1>6, <1>7, <1>8, <1>9 DEF EventsAgree

\* Other commands than bills and agreements.
LEMMA RecordFares ==
    ASSUME FaresAgree, NEW s \in Sessions, RecordedBy(s), UNCHANGED fareTables,
           cmd[s].op # "fare"
    PROVE  FaresAgree'
<1>1. \A x : ChargeStands(x) => ChargeStands(x)'
  BY DEF ChargeStands, fareTables, Covers, BillsFor
<1>2. \A c : FareAnswered(c) => FareAnswered(c)'
  BY DEF FareAnswered, fareTables, OfMonth
<1>3. \A q \in BusRequests : busEvent'[q] # NoRow /\ busEvent'[q].op = "fare" =>
         busEvent[q] # NoRow /\ busEvent'[q] = busEvent[q]
  BY DEF RecordedBy
<1>4. \A q \in BusRequests : fare'[q] # NoRow => busEvent'[q] # NoRow \/ q = FirstAgreement
  BY EarlierEvents DEF FaresAgree, fareTables
<1>5. QED
  BY <1>1, <1>2, <1>3, <1>4 DEF FaresAgree, FaresTypeOK, fareTables

\* Other commands than to link and to revoke.
LEMMA RecordFamilies ==
    ASSUME FamiliesAgree, NEW s \in Sessions, RecordedBy(s), UNCHANGED familyTables,
           cmd[s].op # "unlink"
    PROVE  FamiliesAgree'
<1>1. ASSUME NEW q \in BusRequests PROVE Endings(q)' = Endings(q)
  BY DEF Endings, RecordedBy
<1>2. ASSUME NEW q \in BusRequests PROVE LinkStands(q)'
  <2>1. LinkStands(q) /\ Endings(q)' = Endings(q)
    BY <1>1 DEF FamiliesAgree
  <2>2. busEvent[q] # NoRow => busEvent'[q] = busEvent[q]
    BY EarlierEvents
  <2>3. QED
    BY <2>1, <2>2 DEF LinkStands, LinkEnded, familyTables
<1>3. QED
  BY <1>2 DEF FamiliesAgree, FamiliesTypeOK, OneOpenLink, OpenLinks, RidesClosed, familyTables

-----------------------------------------------------------------------------
(* The steps of BusDesk. *)

\* What a step of the three services does for a session.
Served(s) ==
    /\ DeskInv' /\ menu' = menu /\ cmd[s].op \in FleetOps
    /\ Left(s) \/ \E phase, view : Went(s, phase, view)

LEMMA ServedLeft ==
    ASSUME NEW s \in Sessions, Left(s), cmd[s].op \in FleetOps
    PROVE  Served(s)
  BY DEF Left, Served

LEMMA ServedWent ==
    ASSUME NEW s \in Sessions, NEW phase, NEW view, Went(s, phase, view), cmd[s].op \in FleetOps
    PROVE  Served(s)
  BY DEF Went, Served

\* A call that ends, or is for a query, and changes no table.
LEMMA BusGoesOn ==
    ASSUME BusGroup, UNCHANGED busRows, NEW s \in Sessions,
           \/ Left(s) /\ cmd[s].op \in FleetOps
           \/ /\ \E phase, view : Went(s, phase, view)
              /\ cmd[s].op \in FleetOps \ ServedOps
    PROVE  BusGroup' /\ Served(s)
<1>1. Quiet(ServedOps)
  BY DEF Quiet, Left, Went, Others
<1>2. BusFacts
  BY BusMeans
<1>3. /\ UNCHANGED busTables /\ UNCHANGED fareTables /\ UNCHANGED familyTables
      /\ UNCHANGED <<busEvent, fare>> /\ link' = link /\ moment' \in Moments /\ menu' = menu
  BY <1>2 DEF busRows, busTables, fareTables, familyTables, BusFacts, EventsAgree, BusTypeOK,
             Left, Went
<1>4. BusFacts'
  BY <1>1, <1>2, <1>3, LinksSame, CallsQuiet, EventsStay, FaresStay, FamiliesStay DEF BusFacts
<1>5. BusGroup'
  BY <1>4, BusMeans, PTL
<1>6. QED
  BY <1>5, ServedLeft, ServedWent

\* A command or a feed that goes on and changes no table.
LEMMA BusCallGoesOn ==
    ASSUME BusGroup, UNCHANGED busRows, NEW s \in Sessions, NEW phase, NEW view,
           Went(s, phase, view), cmd[s].op \in FleetOps, BusCall(s)',
           Commanding(s)' => Commanding(s) \/ NobodyElse(s)
    PROVE  BusGroup' /\ Served(s)
<1>1. BusFacts
  BY BusMeans
<1>2. /\ UNCHANGED busTables /\ UNCHANGED fareTables /\ UNCHANGED familyTables
      /\ UNCHANGED <<busEvent, fare>> /\ link' = link /\ moment' \in Moments /\ menu' = menu
      /\ Others(s)
  BY <1>1 DEF busRows, busTables, fareTables, familyTables, BusFacts, EventsAgree, BusTypeOK,
             Went
<1>3. BusCalls'
  BY <1>1, <1>2, LinksSame, CallsGoOn DEF BusFacts
<1>4. BusFacts'
  BY <1>1, <1>2, <1>3, EventsStay, FaresStay, FamiliesStay DEF BusFacts
<1>5. BusGroup'
  BY <1>4, BusMeans, PTL
<1>6. QED
  BY <1>5, ServedWent

LEMMA BusKeeps ==
    ASSUME DeskInv, BusGroup, NEW s \in Sessions, BusNext(s),
           UNCHANGED <<fareTables, familyTables>>
    PROVE  BusGroup' /\ Served(s)
<1>0. BusFacts /\ BusCall(s)
  BY BusMeans DEF BusFacts, BusCalls
<1>u. ASSUME UNCHANGED <<busTables, moment>> PROVE UNCHANGED busRows
  BY <1>u DEF busRows
<1>r. ASSUME Record(s), pc[s] = "write", cmd[s].op \in {"service", "position"}, EventsAgree'
      PROVE  BusGroup' /\ Served(s)
  <2>1. RecordedBy(s)
    BY <1>0, <1>r, RecordWrites DEF BusOps
  <2>2. LinksKept /\ UNCHANGED fareTables /\ UNCHANGED familyTables
    BY DEF LinksKept, familyTables
  <2>3. BusFacts'
    BY <1>0, <1>r, <2>1, <2>2, RecordCalls, RecordFares, RecordFamilies DEF BusFacts
  <2>4. BusGroup'
    BY <2>3, BusMeans, PTL
  <2>5. Served(s)
    BY <1>r, <2>1, ServedWent DEF RecordedBy, FleetOps, ServedOps
  <2>6. QED
    BY <2>4, <2>5
<1>1. CASE LockSchool(s)
  <2>1. /\ pc[s] = "start" /\ cmd[s].op \in BusOps /\ NobodyElse(s)
        /\ UNCHANGED busRows
    BY <1>1, <1>u DEF LockSchool
  <2>2. Went(s, "list", NoView)
    BY <1>1, GotoGoes DEF LockSchool, DeskPhases
  <2>3. BusCall(s)'
    BY <2>1, <2>2 DEF Went, BusCall, BusSession, FaresSession, HoldsTariff, At
  <2>4. QED
    BY <2>1, <2>2, <2>3, BusCallGoesOn DEF FleetOps, ServedOps
<1>2. CASE FindCommand(s)
  <2>1. /\ pc[s] = "list" /\ cmd[s].op \in BusOps /\ Commanding(s)
        /\ UNCHANGED busRows /\ UNCHANGED busTables
    BY <1>2, <1>u DEF FindCommand, Commanding
  <2>2. CASE busEvent[cmd[s].req] = NoRow
    <3>1. Went(s, "write", NoView)
      BY <1>2, <2>1, <2>2, GotoGoes DEF FindCommand, DeskPhases
    <3>2. BusCall(s)'
      BY <2>1, <2>2, <3>1
      DEF Went, BusCall, BusSession, FaresSession, HoldsTariff, At, busTables
    <3>3. QED
      BY <2>1, <3>1, <3>2, BusCallGoesOn DEF FleetOps, ServedOps
  <2>3. CASE busEvent[cmd[s].req] # NoRow
    <3>1. Went(s, "answer", EarlierAnswer(s))
      BY <1>2, <2>1, <2>3, GotoGoes DEF FindCommand, Reply, DeskPhases
    <3>2. PICK view : view = EarlierAnswer(s)
      OBVIOUS
    <3>3. (view = Recorded) = (busEvent[cmd[s].req] = cmd[s])
      BY <3>2 DEF EarlierAnswer, Recorded, InUse
    <3>4. BusCall(s)'
      BY <2>1, <2>3, <3>1, <3>2, <3>3
      DEF Went, BusCall, BusSession, FaresSession, HoldsTariff, At, busTables, BusOps
    <3>5. ~Commanding(s)'
      BY <3>1 DEF Went, Commanding
    <3>6. QED
      BY <2>1, <3>1, <3>4, <3>5, BusCallGoesOn DEF FleetOps, ServedOps
  <2>4. QED
    BY <2>2, <2>3
<1>3. CASE RecordService(s)
  <2>1. /\ pc[s] = "write" /\ cmd[s].op = "service" /\ moment' = moment
        /\ cmd[s].op \in FleetOps /\ cmd[s].op \in BusOps
    BY <1>3 DEF RecordService, At, FleetOps, ServedOps, BusOps
  <2>2. CASE Finish(s) /\ UNCHANGED busTables
    BY <1>u, <2>1, <2>2, FinishLeaves, BusGoesOn
  <2>3. CASE upkeep' = upkeep \cup {cmd[s]} /\ Record(s) /\ UNCHANGED position
    <3>1. cmd[s] \in ServiceRequest
      BY <2>1, CallFits DEF CommandFits
    <3>2. RecordedBy(s)
      BY <1>0, <2>1, <2>3, RecordWrites
    <3>3. EventsAgree'
      BY <1>0, <2>1, <2>3, <3>1, <3>2, RecordEvents DEF BusFacts
    <3>4. QED
      BY <1>r, <2>1, <2>3, <3>3
  <2>4. QED
    BY <1>3, <2>2, <2>3 DEF RecordService
<1>4. CASE RecordPosition(s)
  <2>1. /\ pc[s] = "write" /\ cmd[s].op = "position" /\ moment' = moment
        /\ cmd[s].op \in FleetOps /\ cmd[s].op \in BusOps
    BY <1>4 DEF RecordPosition, At, FleetOps, ServedOps, BusOps
  <2>2. CASE Finish(s) /\ UNCHANGED busTables
    BY <1>u, <2>1, <2>2, FinishLeaves, BusGoesOn
  <2>3. CASE position' = position \cup {cmd[s]} /\ Record(s) /\ UNCHANGED upkeep
    <3>1. cmd[s] \in PositionRequest
      BY <2>1, CallFits DEF CommandFits
    <3>2. RecordedBy(s)
      BY <1>0, <2>1, <2>3, RecordWrites
    <3>3. EventsAgree'
      BY <1>0, <2>1, <2>3, <3>1, <3>2, RecordEvents DEF BusFacts
    <3>4. QED
      BY <1>r, <2>1, <2>3, <3>3
  <2>4. QED
    BY <1>4, <2>2, <2>3 DEF RecordPosition
<1>5. CASE CountUpkeep(s) \/ ReadUpkeep(s) \/ ReadLocation(s)
  <2>1. PICK phase \in {"list", "answer"} :
            /\ \E view : Goto(s, phase, view)
            /\ cmd[s].op \in FleetOps \ ServedOps /\ pc[s] # "idle" /\ UNCHANGED busRows
    BY <1>5, <1>u DEF CountUpkeep, ReadUpkeep, ReadLocation, At, Reply, FleetOps, ServedOps, BusOps
  <2>2. PICK view : Goto(s, phase, view)
    BY <2>1
  <2>3. Went(s, phase, view)
    BY <2>1, <2>2, GotoGoes DEF DeskPhases
  <2>4. QED
    BY <2>1, <2>3, BusGoesOn
<1>6. CASE SendBus(s)
  <2>1. cmd[s].op \in FleetOps /\ UNCHANGED busRows /\ Left(s)
    BY <1>6, <1>u, FinishLeaves DEF SendBus, FleetOps, ServedOps
  <2>2. QED
    BY <2>1, BusGoesOn
<1>7. QED
  BY <1>1, <1>2, <1>3, <1>4, <1>5, <1>6 DEF BusNext

-----------------------------------------------------------------------------
(* The steps of Fares. *)

LEMMA FareFields ==
    ASSUME FaresTypeOK, NEW q \in BusRequests, fare[q] # NoRow
    PROVE  /\ fare[q] \in FareRow
           /\ fare[q].rider \in Riders /\ fare[q].fee \in Nat /\ fare[q].first \in BsMonths
           /\ fare[q].last \in BsMonths \cup {NoEnd}
  BY DEF FaresTypeOK, FareRow

LEMMA FareCalled ==
    ASSUME DeskInv, NEW s \in Sessions, pc[s] # "idle"
    PROVE  /\ cmd[s].op = "fare" => cmd[s].agreement \in BusRequests /\ cmd[s].head \in FareHeads
                                    /\ cmd[s].month \in BsMonths
           /\ cmd[s].op = "agree" => cmd[s].agreement \in BusRequests /\ cmd[s].fee \in Nat
           /\ cmd[s].op = "price" => cmd[s].head \in FareHeads /\ cmd[s].amount \in Nat
                                     /\ cmd[s].monthly \in BOOLEAN
           /\ cmd[s].op = "assess" => cmd[s].rider \in Riders /\ cmd[s].head \in FareHeads
                                      /\ cmd[s].month \in BsMonths
           /\ cmd[s].op = "offer" => cmd[s].active \in BOOLEAN
  BY CallFits DEF CommandFits, FareRequest, AgreeRequest, HeadRequest, AssessRequest, OfferRequest

\* A bill that is added where there is none, at the price of its head.
LEMMA BillAdded ==
    ASSUME FaresAgree, NEW bill, bill \in [rider: Riders, head: FareHeads, month: BsMonths,
                                           amount: Nat],
           bill.amount = tariff[bill.head].amount,
           BillsFor(bill.rider, bill.head, bill.month) = {},
           fareBill' = fareBill \cup {bill},
           UNCHANGED <<busEvent, fare, tariff, offered, inGrade, charge>>
    PROVE  FaresAgree'
<1>1. ASSUME NEW x \in charge PROVE ChargeStands(x)'
  <2>1. ChargeStands(x)
    BY DEF FaresAgree
  <2>2. BillsFor(x.rider, x.head, x.month) # {}
    BY <2>1 DEF ChargeStands
  <2>3. ~(bill.rider = x.rider /\ bill.head = x.head /\ bill.month = x.month)
    BY <2>2
  <2>4. BillsFor(x.rider, x.head, x.month)' = BillsFor(x.rider, x.head, x.month)
    BY <2>3 DEF BillsFor
  <2>5. QED
    BY <2>1, <2>4 DEF ChargeStands, Covers
<1>2. \A c : FareAnswered(c) => FareAnswered(c)'
  BY DEF FareAnswered, OfMonth
<1>3. FaresTypeOK'
  BY DEF FaresAgree, FaresTypeOK
<1>4. \A b \in fareBill' : b.amount = tariff'[b.head].amount
  BY DEF FaresAgree
<1>5. QED
  BY <1>1, <1>2, <1>3, <1>4 DEF FaresAgree

\* A step of the fee office: the tables of the transport office are left alone.
LEMMA FeeOfficeStep ==
    ASSUME BusGroup, NEW s \in Sessions, Left(s), cmd[s].op \in FleetOps \ ServedOps,
           UNCHANGED <<busTables, moment, familyTables, fare>>, FaresAgree'
    PROVE  BusGroup' /\ Served(s)
<1>1. BusFacts
  BY BusMeans
<1>2. Quiet(ServedOps)
  BY DEF Quiet, Left, Others
<1>3. /\ UNCHANGED busTables /\ UNCHANGED familyTables /\ UNCHANGED <<busEvent, fare>>
      /\ link' = link /\ moment' \in Moments /\ menu' = menu
  BY <1>1 DEF busTables, familyTables, BusFacts, EventsAgree, BusTypeOK, Left
<1>4. BusFacts'
  BY <1>1, <1>2, <1>3, LinksSame, CallsQuiet, EventsStay, FamiliesStay DEF BusFacts
<1>5. BusGroup'
  BY <1>4, BusMeans, PTL
<1>6. QED
  BY <1>5, ServedLeft

\* A price that changes is the price of no bill.
LEMMA PriceChanged ==
    ASSUME FaresAgree, NEW h \in FareHeads, NEW row \in [amount: Nat, monthly: BOOLEAN],
           \A b \in fareBill : b.head # h,
           DOMAIN tariff' = FareHeads, tariff'[h] = row,
           \A h2 \in FareHeads \ {h} : tariff'[h2] = tariff[h2],
           tariff' = [h2 \in DOMAIN tariff' |-> tariff'[h2]],
           UNCHANGED <<busEvent, fare, offered, inGrade, fareBill, charge>>
    PROVE  FaresAgree'
<1>1. \A x : ChargeStands(x) => ChargeStands(x)'
  BY DEF ChargeStands, Covers, BillsFor
<1>2. \A c : FareAnswered(c) => FareAnswered(c)'
  BY DEF FareAnswered, OfMonth
<1>3. \A h2 \in FareHeads : tariff'[h2] \in [amount: Nat, monthly: BOOLEAN]
  BY DEF FaresAgree
<1>4. tariff' \in [FareHeads -> [amount: Nat, monthly: BOOLEAN]]
  BY <1>3
<1>5. FaresTypeOK'
  BY <1>4 DEF FaresAgree, FaresTypeOK
<1>6. \A b \in fareBill : b.head \in FareHeads
  BY DEF FaresAgree, FaresTypeOK
<1>7. \A b \in fareBill : b.amount = tariff'[b.head].amount
  BY <1>6 DEF FaresAgree
<1>8. QED
  BY <1>1, <1>2, <1>4, <1>5, <1>7 DEF FaresAgree

\* What the office sells, and to whom.
LEMMA OfferChanged ==
    ASSUME FaresAgree, offered' \in BOOLEAN, inGrade' \subseteq Riders,
           UNCHANGED <<busEvent, fare, tariff, fareBill, charge>>
    PROVE  FaresAgree'
<1>1. \A x : ChargeStands(x) => ChargeStands(x)'
  BY DEF ChargeStands, Covers, BillsFor
<1>2. \A c : FareAnswered(c) => FareAnswered(c)'
  BY DEF FareAnswered, OfMonth
<1>3. QED
  BY <1>1, <1>2 DEF FaresAgree, FaresTypeOK

\* What the events name was agreed by requests.
LEMMA FareEvents ==
    ASSUME DeskInv, EventsAgree
    PROVE  \A q \in BusRequests : busEvent[q] # NoRow /\ busEvent[q].op = "fare" =>
             busEvent[q].agreement \in BusRequests
<1>1. SUFFICES ASSUME NEW q \in BusRequests, busEvent[q] # NoRow, busEvent[q].op = "fare"
               PROVE  busEvent[q].agreement \in BusRequests
  OBVIOUS
<1>2. busEvent[q] \in menu /\ menu \in Menus
  BY <1>1 DEF EventsAgree, DeskInv, DeskTypeOK
<1>3. CommandFits(busEvent[q])
  BY <1>2, OfficeMenusAssumption, RequestFits
<1>4. QED
  BY <1>1, <1>3 DEF CommandFits, FareRequest

\* The charge of _bill, and the bill it names.
LEMMA FareCharged ==
    ASSUME FaresAgree, NEW s \in Sessions, RecordedBy(s), NEW c, c = cmd[s], c.op = "fare",
           c.agreement \in BusRequests, c.head \in FareHeads, c.month \in BsMonths,
           c.month <= ThisMonth, NEW a, a = fare[c.agreement], a # NoRow, Covers(a, c.month),
           NEW h, h = tariff[c.head], h.amount = a.fee,
           \A x \in charge : x.rider = a.rider /\ x.month = c.month => x.head = c.head,
           \A b \in BillsFor(a.rider, c.head, c.month) : b.amount = a.fee,
           NEW bill, bill \in [rider: Riders, head: FareHeads, month: BsMonths, amount: Nat],
           bill.rider = a.rider, bill.head = c.head, bill.month = c.month,
           bill.amount = h.amount,
           NEW new, new \in [rider: Riders, head: FareHeads, month: BsMonths,
                             agreement: BusRequests],
           new.rider = a.rider, new.head = c.head, new.month = c.month,
           new.agreement = c.agreement,
           IF BillsFor(a.rider, c.head, c.month) # {} THEN fareBill' = fareBill
           ELSE fareBill' = fareBill \cup {bill},
           IF OfMonth(a, c) # {} THEN charge' = charge ELSE charge' = charge \cup {new},
           UNCHANGED <<fare, tariff, offered, inGrade>>
    PROVE  FaresAgree'
<1>1. a \in FareRow /\ a.rider \in Riders /\ a.fee \in Nat
  BY FareFields DEF FaresAgree
<1>5. fareBill \subseteq fareBill' /\ fareBill' \subseteq fareBill \cup {bill}
  OBVIOUS
<1>6. charge \subseteq charge' /\ charge' \subseteq charge \cup {new}
  OBVIOUS
<1>7. FaresTypeOK'
  BY <1>5, <1>6 DEF FaresAgree, FaresTypeOK
\* the bills of the charge
<1>8. {b.amount : b \in BillsFor(a.rider, c.head, c.month)'} = {a.fee}
  <2>1. CASE BillsFor(a.rider, c.head, c.month) # {}
    <3>1. fareBill' = fareBill
      BY <2>1
    <3>2. BillsFor(a.rider, c.head, c.month)' = BillsFor(a.rider, c.head, c.month)
      BY <3>1 DEF BillsFor
    <3>3. QED
      BY <2>1, <3>2
  <2>2. CASE BillsFor(a.rider, c.head, c.month) = {}
    <3>1. fareBill' = fareBill \cup {bill}
      BY <2>2
    <3>2. BillsFor(a.rider, c.head, c.month)' = {bill}
      BY <2>2, <3>1 DEF BillsFor
    <3>3. bill.amount = a.fee
      OBVIOUS
    <3>4. QED
      BY <3>2, <3>3
  <2>3. QED
    BY <2>1, <2>2
\* the bills of the other charges
<1>9. ASSUME NEW x \in charge
      PROVE  {b.amount : b \in BillsFor(x.rider, x.head, x.month)'} = {fare[x.agreement].fee}
  <2>1. {b.amount : b \in BillsFor(x.rider, x.head, x.month)} = {fare[x.agreement].fee}
    BY DEF FaresAgree, ChargeStands
  <2>2. BillsFor(x.rider, x.head, x.month) # {}
    BY <2>1
  <2>3. CASE BillsFor(a.rider, c.head, c.month) # {}
    <3>1. fareBill' = fareBill
      BY <2>3
    <3>2. QED
      BY <2>1, <3>1 DEF BillsFor
  <2>4. CASE BillsFor(a.rider, c.head, c.month) = {}
    <3>1. fareBill' = fareBill \cup {bill}
      BY <2>4
    <3>2. ~(bill.rider = x.rider /\ bill.head = x.head /\ bill.month = x.month)
      BY <2>2, <2>4
    <3>3. BillsFor(x.rider, x.head, x.month)' = BillsFor(x.rider, x.head, x.month)
      BY <3>1, <3>2 DEF BillsFor
    <3>4. QED
      BY <2>1, <3>3
  <2>5. QED
    BY <2>3, <2>4
<1>10. \A x, y \in charge' : y.rider = x.rider /\ y.month = x.month => y = x
  <2>1. CASE OfMonth(a, c) # {}
    BY <2>1 DEF FaresAgree, ChargeStands
  <2>2. CASE OfMonth(a, c) = {}
    <3>1. \A x \in charge : ~(x.rider = new.rider /\ x.month = new.month)
      BY <2>2 DEF OfMonth
    <3>2. QED
      BY <1>6, <3>1 DEF FaresAgree, ChargeStands
  <2>3. QED
    BY <2>1, <2>2
<1>11. ASSUME NEW x \in charge' PROVE ChargeStands(x)'
  <2>1. CASE x \in charge
    <3>1. /\ fare[x.agreement] # NoRow /\ fare[x.agreement].rider = x.rider
          /\ Covers(fare[x.agreement], x.month) /\ x.month <= ThisMonth
      BY <2>1 DEF FaresAgree, ChargeStands
    <3>2. QED
      BY <1>9, <1>10, <2>1, <3>1 DEF ChargeStands, Covers
  <2>2. CASE x \notin charge
    <3>1. x = new
      BY <1>6, <2>2
    <3>2. x.rider = a.rider /\ x.head = c.head /\ x.month = c.month /\ x.agreement = c.agreement
      BY <3>1
    <3>3. QED
      BY <1>8, <1>10, <3>2 DEF ChargeStands, Covers
  <2>3. QED
    BY <2>1, <2>2
<1>12. \A b \in fareBill' : b.amount = tariff'[b.head].amount
  BY <1>5 DEF FaresAgree
<1>13. FareAnswered(c)'
  <2>1. OfMonth(a, c)' # {}
    <3>1. CASE OfMonth(a, c) # {}
      BY <1>6, <3>1 DEF OfMonth
    <3>2. CASE OfMonth(a, c) = {}
      <4>1. new \in charge' /\ new.rider = a.rider /\ new.month = c.month
        BY <3>2
      <4>2. QED
        BY <4>1 DEF OfMonth
    <3>3. QED
      BY <3>1, <3>2
  <2>2. QED
    BY <2>1 DEF FareAnswered, OfMonth
<1>14. \A d : FareAnswered(d) => FareAnswered(d)'
  BY <1>6 DEF FareAnswered, OfMonth
<1>15. ASSUME NEW q \in BusRequests, busEvent'[q] # NoRow, busEvent'[q].op = "fare"
       PROVE  /\ fare'[busEvent'[q].agreement] # NoRow
              /\ {x \in charge' : x.rider = fare'[busEvent'[q].agreement].rider
                                   /\ x.month = busEvent'[q].month} # {}
  <2>1. PICK d : d = busEvent'[q]
    OBVIOUS
  <2>2. d = c \/ FareAnswered(d)
    BY <1>15, <2>1 DEF RecordedBy, FaresAgree
  <2>3. FareAnswered(d)'
    BY <1>13, <1>14, <2>2
  <2>4. QED
    BY <2>1, <2>3 DEF FareAnswered, OfMonth
<1>16. \A q \in BusRequests : fare'[q] # NoRow => busEvent'[q] # NoRow \/ q = FirstAgreement
  BY EarlierEvents DEF FaresAgree
<1>17. (\A q \in BusRequests : busEvent[q] # NoRow /\ busEvent[q].op = "fare" =>
          FareAnswered(busEvent[q]))'
  BY <1>15 DEF FareAnswered, OfMonth
<1>18. QED
  BY <1>7, <1>11, <1>12, <1>16, <1>17 DEF FaresAgree

\* The agreement that ends now, and the one that follows it.
LEMMA FareAgreed ==
    ASSUME DeskInv, EventsAgree, FaresAgree, NEW s \in Sessions, RecordedBy(s),
           NEW c, c = cmd[s], c.op = "agree",
           NEW old \in BusRequests, old = c.agreement, Current(old), c.fee \in Nat,
           Agree(s)
    PROVE  FaresAgree'
<1>0. /\ fare' = [fare EXCEPT ![old].last = ThisMonth,
                              ![c.req] = [rider |-> fare[old].rider, fee |-> c.fee,
                                          first |-> ThisMonth, last |-> NoEnd]]
      /\ UNCHANGED <<tariff, offered, inGrade, fareBill, charge>>
  BY DEF Agree
<1>1. c.req \in BusRequests /\ c.req # FirstAgreement /\ busEvent[c.req] = NoRow
  BY DEF RecordedBy
<1>2. fare[c.req] = NoRow
  BY <1>1 DEF FaresAgree
<1>3. fare[old] # NoRow /\ old # c.req
  BY <1>2 DEF Current
<1>4. PICK o : o = fare[old]
  OBVIOUS
<1>5. /\ o \in FareRow /\ o.rider \in Riders /\ o.fee \in Nat /\ o.first \in BsMonths
      /\ o = [rider |-> o.rider, fee |-> o.fee, first |-> o.first, last |-> o.last]
  BY <1>3, <1>4, FareFields DEF FaresAgree, FareRow
<1>6. PICK ended : ended = [rider |-> o.rider, fee |-> o.fee, first |-> o.first,
                            last |-> ThisMonth]
  OBVIOUS
<1>7. PICK next : next = [rider |-> o.rider, fee |-> c.fee, first |-> ThisMonth, last |-> NoEnd]
  OBVIOUS
<1>8. DOMAIN fare = BusRequests
  BY DEF FaresAgree, FaresTypeOK
<1>9. [o EXCEPT !.last = ThisMonth] = ended
  BY <1>5, <1>6
<1>10. /\ DOMAIN fare' = BusRequests
       /\ fare'[old] = ended /\ fare'[c.req] = next
       /\ \A q \in BusRequests \ {old, c.req} : fare'[q] = fare[q]
  BY <1>0, <1>1, <1>3, <1>4, <1>7, <1>8, <1>9
<1>11. ended \in FareRow /\ next \in FareRow
  BY <1>5, <1>6, <1>7, FaresAssumption DEF FareRow
<1>12. fare' \in [BusRequests -> FareRow \cup {NoRow}]
  <2>1. \A q \in BusRequests : fare'[q] \in FareRow \cup {NoRow}
    BY <1>10, <1>11 DEF FaresAgree, FaresTypeOK
  <2>2. fare' = [q \in BusRequests |-> fare'[q]]
    BY <1>0, <1>8, <1>10
  <2>3. QED
    BY <2>1, <2>2
<1>13. FaresTypeOK'
  BY <1>0, <1>12 DEF FaresAgree, FaresTypeOK
\* whoever names an agreement that was made still does
<1>14. \A q \in BusRequests : fare[q] # NoRow =>
          /\ q # c.req /\ fare'[q] # NoRow /\ fare'[q].rider = fare[q].rider
          /\ fare'[q].fee = fare[q].fee /\ fare'[q].first = fare[q].first
          /\ fare'[q].last \in {fare[q].last, ThisMonth}
  BY <1>2, <1>4, <1>6, <1>10, <1>11, FaresAssumption
<1>15. ASSUME NEW x \in charge PROVE ChargeStands(x)'
  <2>1. ChargeStands(x) /\ x.agreement \in BusRequests
    BY DEF FaresAgree, FaresTypeOK
  <2>2. PICK f, g : f = fare[x.agreement] /\ g = fare'[x.agreement]
    OBVIOUS
  <2>3. /\ g # NoRow /\ g.rider = f.rider /\ g.fee = f.fee /\ g.first = f.first
        /\ g.last \in {f.last, ThisMonth}
    BY <1>14, <2>1, <2>2 DEF ChargeStands
  <2>4. f.first <= x.month /\ (f.last = NoEnd \/ x.month <= f.last) /\ x.month <= ThisMonth
    BY <2>1, <2>2 DEF ChargeStands, Covers
  <2>5. g.first <= x.month /\ (g.last = NoEnd \/ x.month <= g.last)
    BY <2>3, <2>4
  <2>6. BillsFor(x.rider, x.head, x.month)' = BillsFor(x.rider, x.head, x.month)
    BY <1>0 DEF BillsFor
  <2>7. QED
    BY <1>0, <2>1, <2>2, <2>3, <2>4, <2>5, <2>6 DEF ChargeStands, Covers
<1>16. ASSUME NEW q \in BusRequests, busEvent'[q] # NoRow, busEvent'[q].op = "fare"
       PROVE  /\ fare'[busEvent'[q].agreement] # NoRow
              /\ {x \in charge' : x.rider = fare'[busEvent'[q].agreement].rider
                                   /\ x.month = busEvent'[q].month} # {}
  <2>1. busEvent[q] # NoRow /\ busEvent[q].op = "fare" /\ busEvent'[q] = busEvent[q]
    BY <1>16 DEF RecordedBy
  <2>2. PICK d : d = busEvent[q]
    OBVIOUS
  <2>3. FareAnswered(d) /\ d.agreement \in BusRequests
    BY <2>1, <2>2, FareEvents DEF FaresAgree
  <2>4. fare'[d.agreement] # NoRow /\ fare'[d.agreement].rider = fare[d.agreement].rider
    BY <1>14, <2>3 DEF FareAnswered
  <2>5. QED
    BY <1>0, <2>1, <2>2, <2>3, <2>4 DEF FareAnswered, OfMonth
<1>17. (\A q \in BusRequests : busEvent[q] # NoRow /\ busEvent[q].op = "fare" =>
          FareAnswered(busEvent[q]))'
  BY <1>16 DEF FareAnswered, OfMonth
<1>18. \A q \in BusRequests : fare'[q] # NoRow => busEvent'[q] # NoRow \/ q = FirstAgreement
  <2>1. busEvent'[c.req] # NoRow /\ busEvent'[old] = busEvent[old]
    BY <1>3 DEF RecordedBy
  <2>2. QED
    BY <1>3, <1>10, <2>1, EarlierEvents DEF FaresAgree
<1>19. \A b \in fareBill' : b.amount = tariff'[b.head].amount
  BY <1>0 DEF FaresAgree
<1>20. QED
  BY <1>0, <1>13, <1>15, <1>17, <1>18, <1>19 DEF FaresAgree

\* A step of Fares that records a command.
LEMMA FareRecorded ==
    ASSUME DeskInv, BusGroup, NEW s \in Sessions, RecordedBy(s),
           UNCHANGED <<upkeep, position, moment, familyTables>>,
           cmd[s].op \in {"fare", "agree"}, FaresAgree'
    PROVE  BusGroup' /\ Served(s)
<1>1. BusFacts
  BY BusMeans
<1>2. LinksKept /\ UNCHANGED familyTables
  BY DEF LinksKept, familyTables
<1>3. EventsAgree'
  BY <1>1, RecordEvents DEF BusFacts
<1>4. BusFacts'
  BY <1>1, <1>2, <1>3, RecordCalls, RecordFamilies DEF BusFacts
<1>5. BusGroup'
  BY <1>4, BusMeans, PTL
<1>6. QED
  BY <1>5, ServedWent DEF RecordedBy, FleetOps, ServedOps

LEMMA FaresKeeps ==
    ASSUME DeskInv, BusGroup, NEW s \in Sessions, FaresNext(s), UNCHANGED familyTables
    PROVE  BusGroup' /\ Served(s)
<1>0. BusFacts /\ BusCall(s)
  BY BusMeans DEF BusFacts, BusCalls
<1>u. ASSUME Unpriced PROVE UNCHANGED busRows
  BY <1>u DEF Unpriced, busRows
<1>1. CASE ReadFare(s)
  <2>1. /\ pc[s] = "write" /\ cmd[s].op = "fare" /\ UNCHANGED busRows /\ cmd[s].op \in FleetOps
        /\ Commanding(s) /\ UNCHANGED <<busEvent, fare>>
    BY <1>1, <1>u
    DEF ReadFare, At, FleetOps, ServedOps, BusOps, Commanding, Unpriced, busTables, fareTables
  <2>2. CASE Finish(s)
    BY <2>1, <2>2, FinishLeaves, BusGoesOn
  <2>3. CASE /\ fare[cmd[s].agreement] # NoRow
             /\ Covers(fare[cmd[s].agreement], cmd[s].month) /\ cmd[s].month <= ThisMonth
             /\ Goto(s, "write", [head |-> tariff[cmd[s].head]])
    <3>1. PICK view : view = [head |-> tariff[cmd[s].head]]
      OBVIOUS
    <3>2. Went(s, "write", view)
      BY <2>1, <2>3, <3>1, GotoGoes DEF DeskPhases
    <3>3. BusCall(s)'
      BY <1>0, <2>1, <2>3, <3>2 DEF Went, BusCall, BusSession, FaresSession, HoldsTariff, At, Covers
    <3>4. QED
      BY <2>1, <3>2, <3>3, BusCallGoesOn
  <2>4. QED
    BY <1>1, <2>2, <2>3 DEF ReadFare
<1>2. CASE LockTariff(s)
  <2>1. /\ pc[s] = "write" /\ cmd[s].op = "fare" /\ UNCHANGED busRows /\ cmd[s].op \in FleetOps
        /\ Commanding(s) /\ UNCHANGED <<busEvent, fare>> /\ seen[s] # NoView
    BY <1>2, <1>u
    DEF LockTariff, At, FleetOps, ServedOps, BusOps, Commanding, Unpriced, busTables, fareTables
  <2>2. PICK view : view = [head |-> seen[s].head, offered |-> offered]
    OBVIOUS
  <2>3. Went(s, "commit", view)
    BY <1>2, <2>1, <2>2, GotoGoes DEF LockTariff, DeskPhases
  <2>4. BusCall(s)'
    BY <1>0, <2>1, <2>3 DEF Went, BusCall, BusSession, FaresSession, HoldsTariff, At, Covers
  <2>5. QED
    BY <2>1, <2>3, <2>4, BusCallGoesOn
<1>3. CASE PostFare(s)
  <2>1. /\ pc[s] = "commit" /\ cmd[s].op = "fare" /\ cmd[s].op \in FleetOps /\ cmd[s].op \in BusOps
    BY <1>3 DEF PostFare, At, FleetOps, ServedOps, BusOps
  <2>2. PICK c : c = cmd[s]
    OBVIOUS
  <2>3. PICK a, h : a = fare[c.agreement] /\ h = tariff[c.head]
    OBVIOUS
  <2>4. /\ UNCHANGED <<moment, fare, tariff, offered, inGrade>>
        /\ \/ Finish(s) /\ UNCHANGED <<busTables, fareBill, charge>>
           \/ MayCharge(s, a, h) /\ Record(s) /\ UNCHANGED <<upkeep, position>>
    BY <1>3, <2>2, <2>3 DEF PostFare, RefreshedHead
  <2>5. CASE Finish(s) /\ UNCHANGED <<busTables, fareBill, charge>>
    <3>1. UNCHANGED busRows
      BY <2>4, <2>5 DEF busRows, fareTables
    <3>2. QED
      BY <2>1, <2>5, <3>1, FinishLeaves, BusGoesOn
  <2>6. CASE MayCharge(s, a, h) /\ Record(s) /\ UNCHANGED <<upkeep, position>>
    <3>1. RecordedBy(s)
      BY <1>0, <2>1, <2>6, RecordWrites
    <3>2. c.agreement \in BusRequests /\ c.head \in FareHeads /\ c.month \in BsMonths
      BY <2>1, <2>2, FareCalled
    <3>3. a # NoRow /\ Covers(a, c.month) /\ c.month <= ThisMonth
      BY <1>0, <2>1, <2>2, <2>3 DEF BusCall, FaresSession, HoldsTariff, At
    <3>4. /\ h.amount = a.fee
          /\ \A x \in charge : x.rider = a.rider /\ x.month = c.month => x.head = c.head
          /\ \A b \in BillsFor(a.rider, c.head, c.month) : b.amount = a.fee
      BY <2>2, <2>6 DEF MayCharge
    <3>5. PICK bill : bill = [rider |-> a.rider, head |-> c.head, month |-> c.month,
                              amount |-> h.amount]
      OBVIOUS
    <3>6. PICK new : new = [rider |-> a.rider, head |-> c.head, month |-> c.month,
                            agreement |-> c.agreement]
      OBVIOUS
    <3>7. ~ Finish(s)
      <4>1. seen' = [seen EXCEPT ![s] = Recorded] /\ pc' = [pc EXCEPT ![s] = "answer"]
        BY <2>6 DEF Record, Reply, Goto
      <4>2. pc'[s] = "answer"
        BY <4>1 DEF DeskInv, DeskTypeOK
      <4>3. ASSUME Finish(s) PROVE pc'[s] = "idle"
        BY <4>3 DEF Finish, DeskInv, DeskTypeOK
      <4>4. QED
        BY <4>2, <4>3
    <3>8. /\ IF BillsFor(a.rider, c.head, c.month) # {} THEN fareBill' = fareBill
             ELSE fareBill' = fareBill \cup {bill}
          /\ IF OfMonth(a, c) # {} THEN charge' = charge ELSE charge' = charge \cup {new}
      BY <1>3, <2>2, <2>3, <3>5, <3>6, <3>7 DEF PostFare, RefreshedHead
    <3>9. FaresAgree
      BY <1>0 DEF BusFacts
    <3>10. /\ a.rider \in Riders /\ a.fee \in Nat
      BY <2>3, <3>2, <3>3, <3>9, FareFields DEF FaresAgree
    <3>11. /\ bill \in [rider: Riders, head: FareHeads, month: BsMonths, amount: Nat]
           /\ bill.rider = a.rider /\ bill.head = c.head /\ bill.month = c.month
           /\ bill.amount = h.amount
      BY <3>2, <3>4, <3>5, <3>10
    <3>12. /\ new \in [rider: Riders, head: FareHeads, month: BsMonths, agreement: BusRequests]
           /\ new.rider = a.rider /\ new.head = c.head /\ new.month = c.month
           /\ new.agreement = c.agreement
      BY <3>2, <3>6, <3>10
    <3>13. c.op = "fare"
      BY <2>1, <2>2
    <3>14. UNCHANGED <<fare, tariff, offered, inGrade>>
      BY <2>4
    <3>15. FaresAgree'
      BY <2>2, <2>3, <3>1, <3>2, <3>3, <3>4, <3>8, <3>9, <3>11, <3>12, <3>13, <3>14, FareCharged
    <3>16. QED
      BY <2>1, <2>4, <2>6, <3>1, <3>15, FareRecorded
  <2>7. QED
    BY <2>4, <2>5, <2>6
<1>4. CASE Agree(s)
  <2>1. /\ pc[s] = "write" /\ cmd[s].op = "agree" /\ cmd[s].op \in FleetOps /\ cmd[s].op \in BusOps
        /\ UNCHANGED <<moment, tariff, offered, inGrade, fareBill, charge>>
    BY <1>4 DEF Agree, At, FleetOps, ServedOps, BusOps
  <2>2. cmd[s].agreement \in BusRequests /\ cmd[s].fee \in Nat
    BY <2>1, FareCalled
  <2>3. CASE ~Current(cmd[s].agreement)
    <3>1. Finish(s) /\ UNCHANGED <<busTables, fare>>
      BY <1>4, <2>3 DEF Agree
    <3>2. UNCHANGED busRows
      BY <2>1, <3>1 DEF busRows, fareTables
    <3>3. QED
      BY <2>1, <3>1, <3>2, FinishLeaves, BusGoesOn
  <2>4. CASE Current(cmd[s].agreement)
    <3>1. Record(s) /\ UNCHANGED <<upkeep, position>>
      BY <1>4, <2>4 DEF Agree
    <3>2. RecordedBy(s)
      BY <1>0, <2>1, <3>1, RecordWrites
    <3>3. FaresAgree'
      BY <1>0, <1>4, <2>1, <2>2, <2>4, <3>2, FareAgreed DEF BusFacts
    <3>4. QED
      BY <2>1, <3>1, <3>2, <3>3, FareRecorded
  <2>5. QED
    BY <2>3, <2>4
<1>5. CASE ChangePrice(s)
  <2>1. /\ Left(s) /\ pc[s] = "start" /\ cmd[s].op = "price" /\ cmd[s].op \in FleetOps \ ServedOps
        /\ UNCHANGED <<busTables, moment, fare, offered, inGrade, fareBill, charge>>
    BY <1>5, FinishLeaves DEF ChangePrice, At, FleetOps, ServedOps, BusOps
  <2>2. FaresAgree
    BY <1>0 DEF BusFacts
  <2>3. PICK h, amount, monthly : h = cmd[s].head /\ amount = cmd[s].amount
                                  /\ monthly = cmd[s].monthly
    OBVIOUS
  <2>4. h \in FareHeads /\ amount \in Nat /\ monthly \in BOOLEAN
    BY <2>1, <2>3, FareCalled
  <2>5. CASE \E b \in fareBill : b.head = h
    <3>1. tariff' = tariff
      BY <1>5, <2>3, <2>5 DEF ChangePrice
    <3>2. UNCHANGED busRows
      BY <2>1, <3>1 DEF busRows, fareTables
    <3>3. QED
      BY <2>1, <3>2, BusGoesOn
  <2>6. CASE ~ \E b \in fareBill : b.head = h
    <3>1. PICK row : row = [amount |-> amount, monthly |-> monthly]
      OBVIOUS
    <3>2. tariff' = [tariff EXCEPT ![h] = row]
      BY <1>5, <2>3, <2>6, <3>1 DEF ChangePrice
    <3>3. row \in [amount: Nat, monthly: BOOLEAN]
      BY <2>4, <3>1
    <3>4. DOMAIN tariff = FareHeads
      BY <2>2 DEF FaresAgree
    <3>5. /\ DOMAIN tariff' = FareHeads /\ tariff'[h] = row
          /\ \A h2 \in FareHeads \ {h} : tariff'[h2] = tariff[h2]
          /\ tariff' = [h2 \in DOMAIN tariff' |-> tariff'[h2]]
      BY <2>4, <3>2, <3>4
    <3>6. UNCHANGED <<busEvent, fare, offered, inGrade, fareBill, charge>>
      BY <2>1 DEF busTables
    <3>7. FaresAgree'
      BY <2>2, <2>4, <2>6, <3>3, <3>5, <3>6, PriceChanged
    <3>8. QED
      BY <2>1, <3>7, FeeOfficeStep
  <2>7. QED
    BY <2>5, <2>6
<1>6. CASE Assess(s)
  <2>1. /\ Left(s) /\ pc[s] = "start" /\ cmd[s].op = "assess" /\ cmd[s].op \in FleetOps \ ServedOps
        /\ UNCHANGED <<busTables, moment, fare, tariff, offered, inGrade, charge>>
    BY <1>6, FinishLeaves DEF Assess, At, FleetOps, ServedOps, BusOps
  <2>2. FaresAgree
    BY <1>0 DEF BusFacts
  <2>3. PICK c : c = cmd[s]
    OBVIOUS
  <2>4. c.rider \in Riders /\ c.head \in FareHeads /\ c.month \in BsMonths
    BY <2>1, <2>3, FareCalled
  <2>5. PICK bill : bill = [rider |-> c.rider, head |-> c.head, month |-> c.month,
                            amount |-> tariff[c.head].amount]
    OBVIOUS
  <2>6. \/ fareBill' = fareBill
        \/ BillsFor(c.rider, c.head, c.month) = {} /\ fareBill' = fareBill \cup {bill}
    BY <1>6, <2>3, <2>5 DEF Assess
  <2>7. CASE fareBill' = fareBill
    <3>1. UNCHANGED busRows
      BY <2>1, <2>7 DEF busRows, fareTables
    <3>2. QED
      BY <2>1, <3>1, BusGoesOn
  <2>8. CASE BillsFor(c.rider, c.head, c.month) = {} /\ fareBill' = fareBill \cup {bill}
    <3>1. tariff[c.head].amount \in Nat
      BY <2>2, <2>4 DEF FaresAgree, FaresTypeOK
    <3>2. /\ bill \in [rider: Riders, head: FareHeads, month: BsMonths, amount: Nat]
          /\ bill.rider = c.rider /\ bill.head = c.head /\ bill.month = c.month
          /\ bill.amount = tariff[bill.head].amount
      BY <2>4, <2>5, <3>1
    <3>3. UNCHANGED <<busEvent, fare, tariff, offered, inGrade, charge>>
      BY <2>1 DEF busTables
    <3>4. FaresAgree'
      BY <2>2, <2>8, <3>2, <3>3, BillAdded
    <3>5. QED
      BY <2>1, <3>4, FeeOfficeStep
  <2>9. QED
    BY <2>6, <2>7, <2>8
<1>7. CASE ChangeOffer(s) \/ Promote(s)
  <2>1. /\ Left(s) /\ cmd[s].op \in FleetOps \ ServedOps
        /\ UNCHANGED <<busTables, moment, fare, tariff, fareBill, charge>>
    BY <1>7, FinishLeaves DEF ChangeOffer, Promote, At, FleetOps, ServedOps, BusOps
  <2>2. FaresAgree
    BY <1>0 DEF BusFacts
  <2>3. offered' \in BOOLEAN
    <3>1. CASE ChangeOffer(s)
      <4>1. PICK e \in BOOLEAN : e = cmd[s].active
        BY <3>1, FareCalled DEF ChangeOffer, At
      <4>2. QED
        BY <3>1, <4>1 DEF ChangeOffer
    <3>2. CASE Promote(s)
      BY <2>2, <3>2 DEF Promote, FaresAgree, FaresTypeOK
    <3>3. QED
      BY <1>7, <3>1, <3>2
  <2>4. inGrade' \subseteq Riders
    BY <1>7, <2>2 DEF ChangeOffer, Promote, FaresAgree, FaresTypeOK
  <2>5. UNCHANGED <<busEvent, fare, tariff, fareBill, charge>>
    BY <2>1 DEF busTables
  <2>6. FaresAgree'
    BY <2>2, <2>3, <2>4, <2>5, OfferChanged
  <2>7. QED
    BY <2>1, <2>6, FeeOfficeStep
<1>8. CASE ListOptions(s)
  <2>1. /\ \E view : Goto(s, "answer", view)
        /\ cmd[s].op \in FleetOps \ ServedOps /\ pc[s] # "idle" /\ UNCHANGED busRows
    BY <1>8, <1>u DEF ListOptions, At, Reply, FleetOps, ServedOps, BusOps
  <2>2. PICK view : Goto(s, "answer", view)
    BY <2>1
  <2>3. Went(s, "answer", view)
    BY <2>1, <2>2, GotoGoes DEF DeskPhases
  <2>4. QED
    BY <2>1, <2>3, BusGoesOn
<1>9. CASE SendOptions(s)
  <2>1. cmd[s].op \in FleetOps /\ UNCHANGED busRows /\ Left(s)
    BY <1>9, <1>u, FinishLeaves DEF SendOptions, At, FleetOps
  <2>2. QED
    BY <2>1, BusGoesOn
<1>10. QED
  BY <1>1, <1>2, <1>3, <1>4, <1>5, <1>6, <1>7, <1>8, <1>9 DEF FaresNext

-----------------------------------------------------------------------------
(* The steps of Families. *)

LEMMA FamilyCalled ==
    ASSUME DeskInv, NEW s \in Sessions, pc[s] # "idle"
    PROVE  /\ cmd[s].op = "link" => cmd[s].rider \in Riders /\ cmd[s].parent \in Parents
           /\ cmd[s].op = "unlink" => cmd[s].link \in BusRequests
           /\ cmd[s].op \in {"board", "alight", "absent"} =>
                cmd[s].trip \in Trips /\ cmd[s].rider \in Riders
           /\ cmd[s].op \in {"complete", "call_off"} => cmd[s].trip \in Trips
  BY CallFits DEF CommandFits, LinkRequest, UnlinkRequest, RideRequest, CloseRequest

\* A step of another office: the tables of the transport office are left alone.
LEMMA FamilyStep ==
    ASSUME BusGroup, NEW s \in Sessions, Left(s), cmd[s].op \in FleetOps \ ServedOps,
           UNCHANGED <<busTables, moment, fareTables, link>>, FamiliesAgree'
    PROVE  BusGroup' /\ Served(s)
<1>1. BusFacts
  BY BusMeans
<1>2. Quiet(ServedOps)
  BY DEF Quiet, Left, Others
<1>3. /\ UNCHANGED busTables /\ UNCHANGED fareTables /\ UNCHANGED <<busEvent, fare>>
      /\ link' = link /\ moment' \in Moments /\ menu' = menu
  BY <1>1 DEF busTables, fareTables, BusFacts, EventsAgree, BusTypeOK, Left
<1>4. BusFacts'
  BY <1>1, <1>2, <1>3, LinksSame, CallsQuiet, EventsStay, FaresStay DEF BusFacts
<1>5. BusGroup'
  BY <1>4, BusMeans, PTL
<1>6. QED
  BY <1>5, ServedLeft

\* A step of Families that records a command.
LEMMA FamilyRecorded ==
    ASSUME DeskInv, BusGroup, NEW s \in Sessions, RecordedBy(s),
           UNCHANGED <<upkeep, position, moment, fareTables>>, LinksKept,
           cmd[s].op \in {"link", "unlink"}, FamiliesAgree'
    PROVE  BusGroup' /\ Served(s)
<1>1. BusFacts
  BY BusMeans
<1>2. UNCHANGED fareTables
  BY DEF fareTables
<1>3. EventsAgree'
  BY <1>1, RecordEvents DEF BusFacts
<1>4. BusFacts'
  BY <1>1, <1>2, <1>3, RecordCalls, RecordFares DEF BusFacts
<1>5. BusGroup'
  BY <1>4, BusMeans, PTL
<1>6. QED
  BY <1>5, ServedWent DEF RecordedBy, FleetOps, ServedOps

\* What the student service and the accounts change.
LEMMA PeopleChanged ==
    ASSUME FamiliesAgree, attending' \subseteq Riders, guardians' \subseteq Parents,
           UNCHANGED <<busEvent, link, ride, part>>
    PROVE  FamiliesAgree'
<1>1. \A q \in BusRequests : LinkStands(q) => LinkStands(q)'
  BY DEF LinkStands, LinkEnded, Endings
<1>2. QED
  BY <1>1 DEF FamiliesAgree, FamiliesTypeOK, OneOpenLink, OpenLinks, RidesClosed

\* What a command of a trip changes: a ride that is over has nobody on the way.
LEMMA RidesChanged ==
    ASSUME FamiliesAgree, UNCHANGED <<busEvent, link, attending, guardians>>,
           NEW t \in Trips, ride' \in [Trips -> RideRow], DOMAIN part' = Trips,
           \A u \in Trips \ {t} : ride'[u] = ride[u] /\ part'[u] = part[u],
           DOMAIN part'[t] \subseteq Riders,
           \A p \in DOMAIN part'[t] :
              /\ part'[t][p] \in Parts
              /\ ride'[t].status # "in_progress" =>
                   part'[t][p] \in {"alighted", "absent", "cancelled"}
    PROVE  FamiliesAgree'
<1>1. \A q \in BusRequests : LinkStands(q) => LinkStands(q)'
  BY DEF LinkStands, LinkEnded, Endings
<1>2. FamiliesTypeOK'
  BY DEF FamiliesAgree, FamiliesTypeOK
<1>3. RidesClosed'
  BY DEF FamiliesAgree, RidesClosed
<1>4. QED
  BY <1>1, <1>2, <1>3 DEF FamiliesAgree, OneOpenLink, OpenLinks

LEMMA LinkMade ==
    ASSUME FamiliesAgree, NEW s \in Sessions, RecordedBy(s), CommitLink(s),
           cmd[s].op = "link", cmd[s].rider \in Riders, cmd[s].parent \in Parents,
           MayLink(cmd[s].rider, cmd[s].parent)
    PROVE  FamiliesAgree' /\ LinksKept
<1>1. PICK c : c = cmd[s]
  OBVIOUS
<1>e. PICK e \in BOOLEAN : e = TRUE
  OBVIOUS
<1>2. PICK row : row = [rider |-> c.rider, parent |-> c.parent, open |-> e]
  OBVIOUS
<1>3. /\ link' = [link EXCEPT ![c.req] = row]
      /\ UNCHANGED <<attending, guardians, ride, part>>
  BY <1>1, <1>2, <1>e DEF CommitLink
<1>4. /\ c.req \in BusRequests /\ busEvent[c.req] = NoRow /\ busEvent'[c.req] = c /\ c # NoRow
      /\ \A q \in BusRequests \ {c.req} : busEvent'[q] = busEvent[q]
  BY <1>1 DEF RecordedBy
<1>5. link[c.req] = NoRow /\ Endings(c.req) = {}
  BY <1>4 DEF FamiliesAgree, LinkStands
<1>f. row \in LinkRow
  BY <1>1, <1>2 DEF LinkRow
<1>g. row.rider = c.rider /\ row.parent = c.parent /\ row.open = e
  BY <1>2
<1>6. row \in LinkRow /\ row # NoRow /\ row.rider = c.rider /\ row.parent = c.parent /\ row.open
  BY <1>e, <1>f, <1>g, FamiliesAssumption
<1>7. link \in [BusRequests -> LinkRow \cup {NoRow}]
  BY DEF FamiliesAgree, FamiliesTypeOK
<1>8. /\ link' \in [BusRequests -> LinkRow \cup {NoRow}] /\ link'[c.req] = row
      /\ \A q \in BusRequests \ {c.req} : link'[q] = link[q]
  BY <1>3, <1>4, <1>6, <1>7
<1>9. LinksKept
  BY <1>5, <1>8 DEF LinksKept
<1>10. ASSUME NEW q \in BusRequests PROVE Endings(q)' = Endings(q)
  BY <1>1, <1>4 DEF Endings
<1>11. ASSUME NEW q \in BusRequests PROVE LinkStands(q)'
  <2>1. CASE q = c.req
    BY <1>1, <1>4, <1>5, <1>6, <1>8, <1>10, <2>1 DEF LinkStands, LinkEnded
  <2>2. CASE q # c.req
    BY <1>4, <1>8, <1>10, <2>2 DEF FamiliesAgree, LinkStands, LinkEnded
  <2>3. QED
    BY <2>1, <2>2
<1>12. OneOpenLink'
  <2>1. \A q \in OpenLinks : ~(link[q].rider = row.rider /\ link[q].parent = row.parent)
    BY <1>1, <1>6 DEF MayLink, LinksOf
  <2>2. \A q \in BusRequests \ {c.req} : q \in OpenLinks' => q \in OpenLinks
    BY <1>8 DEF OpenLinks
  <2>3. SUFFICES ASSUME NEW q \in OpenLinks', NEW r \in OpenLinks',
                        link'[q].rider = link'[r].rider, link'[q].parent = link'[r].parent
                 PROVE  q = r
    BY DEF OneOpenLink
  <2>4. q \in BusRequests /\ r \in BusRequests
    BY DEF OpenLinks
  <2>5. CASE q # c.req /\ r # c.req
    BY <1>8, <2>2, <2>3, <2>4, <2>5 DEF FamiliesAgree, OneOpenLink
  <2>6. CASE q = c.req \/ r = c.req
    BY <1>8, <2>1, <2>2, <2>3, <2>4, <2>6
  <2>7. QED
    BY <2>5, <2>6
<1>13. FamiliesTypeOK'
  BY <1>3, <1>8 DEF FamiliesAgree, FamiliesTypeOK
<1>14. RidesClosed'
  BY <1>3 DEF FamiliesAgree, RidesClosed
<1>15. QED
  BY <1>3, <1>9, <1>11, <1>12, <1>13, <1>14 DEF FamiliesAgree

LEMMA LinkRevoked ==
    ASSUME FamiliesAgree, NEW s \in Sessions, RecordedBy(s), Revoke(s),
           cmd[s].op = "unlink", cmd[s].link \in BusRequests, Revocable(cmd[s].link)
    PROVE  FamiliesAgree' /\ LinksKept
<1>1. PICK c, l : c = cmd[s] /\ l = c.link
  OBVIOUS
<1>2. /\ link' = [link EXCEPT ![l].open = FALSE]
      /\ UNCHANGED <<attending, guardians, ride, part>>
  BY <1>1 DEF Revoke
<1>3. l \in BusRequests /\ link[l] # NoRow /\ link[l].open
  BY <1>1 DEF Revocable, OpenLinks
<1>4. /\ c.req \in BusRequests /\ busEvent[c.req] = NoRow /\ busEvent'[c.req] = c /\ c # NoRow
      /\ \A q \in BusRequests \ {c.req} : busEvent'[q] = busEvent[q]
  BY <1>1 DEF RecordedBy
<1>5. link \in [BusRequests -> LinkRow \cup {NoRow}]
  BY DEF FamiliesAgree, FamiliesTypeOK
<1>6. PICK o : o = link[l]
  OBVIOUS
<1>e. PICK e \in BOOLEAN : e = FALSE
  OBVIOUS
<1>7. PICK row : row = [rider |-> o.rider, parent |-> o.parent, open |-> e]
  OBVIOUS
<1>8. o \in LinkRow
  BY <1>3, <1>5, <1>6
<1>9. PICK b \in BOOLEAN : o = [rider |-> o.rider, parent |-> o.parent, open |-> b]
  BY <1>8 DEF LinkRow
<1>10. [o EXCEPT !.open = e] = row
  BY <1>7, <1>9
<1>f. row \in LinkRow
  BY <1>7, <1>8 DEF LinkRow
<1>g. row.rider = o.rider /\ row.parent = o.parent /\ row.open = e
  BY <1>7
<1>11. row \in LinkRow /\ row # NoRow /\ row.rider = o.rider /\ row.parent = o.parent /\ ~row.open
  BY <1>e, <1>f, <1>g, FamiliesAssumption
<1>h. link' = [link EXCEPT ![l] = [o EXCEPT !.open = e]]
  BY <1>2, <1>6, <1>e
<1>12. link' = [link EXCEPT ![l] = row]
  BY <1>10, <1>h
<1>13. /\ link' \in [BusRequests -> LinkRow \cup {NoRow}] /\ link'[l] = row
       /\ \A q \in BusRequests \ {l} : link'[q] = link[q]
  BY <1>3, <1>5, <1>11, <1>12
<1>14. LinksKept
  BY <1>6, <1>11, <1>13 DEF LinksKept
<1>15. ASSUME NEW q \in BusRequests \ {l} PROVE Endings(q)' = Endings(q)
  BY <1>1, <1>4 DEF Endings
<1>16. Endings(l) = {} /\ busEvent[l] # NoRow /\ busEvent[l].op = "link" /\ l # c.req
  BY <1>3, <1>4 DEF FamiliesAgree, LinkStands, LinkEnded
<1>17. Endings(l)' = {c.req}
  BY <1>1, <1>4, <1>16 DEF Endings
<1>18. ASSUME NEW q \in BusRequests PROVE LinkStands(q)'
  <2>1. CASE q = l
    BY <1>4, <1>11, <1>13, <1>16, <1>17, <2>1 DEF LinkStands, LinkEnded
  <2>2. CASE q # l
    <3>1. LinkStands(q) /\ Endings(q)' = Endings(q) /\ link'[q] = link[q]
      BY <1>13, <1>15, <2>2 DEF FamiliesAgree
    <3>2. busEvent[q] # NoRow => busEvent'[q] = busEvent[q]
      BY <1>4
    <3>3. QED
      BY <3>1, <3>2 DEF LinkStands, LinkEnded
  <2>3. QED
    BY <2>1, <2>2
<1>19. OneOpenLink'
  <2>1. \A q \in BusRequests : q \in OpenLinks' => q \in OpenLinks /\ link'[q] = link[q]
    BY <1>11, <1>13 DEF OpenLinks
  <2>2. QED
    BY <2>1 DEF FamiliesAgree, OneOpenLink, OpenLinks
<1>20. FamiliesTypeOK'
  BY <1>2, <1>13 DEF FamiliesAgree, FamiliesTypeOK
<1>21. RidesClosed'
  BY <1>2 DEF FamiliesAgree, RidesClosed
<1>22. QED
  BY <1>2, <1>14, <1>18, <1>19, <1>20, <1>21 DEF FamiliesAgree

\* What the one statement of the feed returns.
LEMMA FeedStands ==
    ASSUME FamiliesAgree, NEW v, NEW j \in Feed(v), NEW revoked,
           revoked = {q \in BusRequests : link[q] # NoRow} \ OpenLinks
    PROVE  IF v = StaffViewer THEN j.status = "in_progress"
           ELSE /\ \E q \in BusRequests \ revoked :
                      link[q] # NoRow /\ link[q].rider = j.child /\ link[q].parent = v
                /\ j.child \notin Riders \ attending
                /\ j.status # "in_progress" => j.part \in {"alighted", "absent", "cancelled"}
                /\ j.position => j.status = "in_progress" /\ j.part \in {"pending", "boarded"}
<1>1. CASE v = StaffViewer
  BY <1>1 DEF Feed, StaffFeed
<1>2. CASE v # StaffViewer
  <2>1. j \in FamilyFeed(v)
    BY <1>2 DEF Feed
  <2>2. PICK tp \in Trips \X (JoinedLinks(v) \cap attending) :
          /\ tp[2] \in DOMAIN part[tp[1]]
          /\ j = [trip |-> tp[1], child |-> tp[2], part |-> part[tp[1]][tp[2]],
                  status |-> ride[tp[1]].status, position |-> Visible(tp[1], tp[2]),
                  nearby |-> Nearby(tp[1], tp[2])]
    BY <2>1 DEF FamilyFeed
  <2>3. PICK t \in Trips, p \in JoinedLinks(v) \cap attending :
          t = tp[1] /\ p = tp[2] /\ p \in DOMAIN part[t]
    BY <2>2
  <2>4. PICK e \in BOOLEAN : e = (ride[t].status = "in_progress"
                                  /\ part[t][p] \in {"pending", "boarded"})
    OBVIOUS
  <2>5. /\ j.child = p /\ j.part = part[t][p] /\ j.status = ride[t].status
        /\ j.position = e
    BY <2>2, <2>3, <2>4 DEF Visible
  <2>6. PICK q \in OpenLinks : link[q].parent = v /\ link[q].rider = p
    BY <2>3 DEF JoinedLinks
  <2>7. q \in BusRequests \ revoked /\ link[q] # NoRow
    BY <2>6 DEF OpenLinks
  <2>8. j.status # "in_progress" => j.part \in {"alighted", "absent", "cancelled"}
    BY <2>3, <2>5 DEF FamiliesAgree, RidesClosed
  <2>9. j.position => j.status = "in_progress" /\ j.part \in {"pending", "boarded"}
    BY <2>4, <2>5
  <2>10. QED
    BY <1>2, <2>3, <2>5, <2>6, <2>7, <2>8, <2>9
<1>3. QED
  BY <1>1, <1>2

LEMMA FamiliesKeeps ==
    ASSUME DeskInv, BusGroup, NEW s \in Sessions, FamiliesNext(s), UNCHANGED fareTables
    PROVE  BusGroup' /\ Served(s)
<1>0. BusFacts /\ BusCall(s)
  BY BusMeans DEF BusFacts, BusCalls
<1>u. ASSUME Familiar PROVE UNCHANGED busRows
  BY <1>u DEF Familiar, busRows
<1>f. FamiliesAgree
  BY <1>0 DEF BusFacts
<1>1. CASE ReadChild(s)
  <2>1. /\ pc[s] = "write" /\ cmd[s].op = "link" /\ UNCHANGED busRows /\ cmd[s].op \in FleetOps
        /\ Commanding(s) /\ UNCHANGED busEvent
    BY <1>1, <1>u
    DEF ReadChild, At, FleetOps, ServedOps, BusOps, Commanding, Familiar, busTables
  <2>2. CASE Finish(s)
    BY <2>1, <2>2, FinishLeaves, BusGoesOn
  <2>3. CASE Goto(s, "commit", NoView)
    <3>1. Went(s, "commit", NoView)
      BY <2>1, <2>3, GotoGoes DEF DeskPhases
    <3>2. BusCall(s)'
      BY <1>0, <2>1, <3>1 DEF Went, BusCall, BusSession, FaresSession, HoldsTariff, At
    <3>3. QED
      BY <2>1, <3>1, <3>2, BusCallGoesOn
  <2>4. QED
    BY <1>1, <2>2, <2>3 DEF ReadChild
<1>2. CASE CommitLink(s)
  <2>1. /\ pc[s] = "commit" /\ cmd[s].op = "link" /\ cmd[s].op \in FleetOps /\ cmd[s].op \in BusOps
        /\ UNCHANGED <<moment, attending, guardians, ride, part>>
    BY <1>2 DEF CommitLink, At, FleetOps, ServedOps, BusOps
  <2>2. CASE ~MayLink(cmd[s].rider, cmd[s].parent)
    <3>1. Finish(s) /\ UNCHANGED <<busTables, link>>
      BY <1>2, <2>2 DEF CommitLink
    <3>2. UNCHANGED busRows
      BY <2>1, <3>1 DEF busRows, familyTables
    <3>3. QED
      BY <2>1, <3>1, <3>2, FinishLeaves, BusGoesOn
  <2>3. CASE MayLink(cmd[s].rider, cmd[s].parent)
    <3>1. Record(s) /\ UNCHANGED <<upkeep, position>>
      BY <1>2, <2>3 DEF CommitLink
    <3>2. RecordedBy(s)
      BY <1>0, <2>1, <3>1, RecordWrites
    <3>3. FamiliesAgree' /\ LinksKept
      BY <1>f, <1>2, <2>1, <2>3, <3>2, FamilyCalled, LinkMade
    <3>4. QED
      BY <2>1, <3>1, <3>2, <3>3, FamilyRecorded
  <2>4. QED
    BY <2>2, <2>3
<1>3. CASE Revoke(s)
  <2>1. /\ pc[s] = "write" /\ cmd[s].op = "unlink" /\ cmd[s].op \in FleetOps
        /\ cmd[s].op \in BusOps
        /\ UNCHANGED <<moment, attending, guardians, ride, part>>
    BY <1>3 DEF Revoke, At, FleetOps, ServedOps, BusOps
  <2>2. CASE ~Revocable(cmd[s].link)
    <3>1. Finish(s) /\ UNCHANGED <<busTables, link>>
      BY <1>3, <2>2 DEF Revoke
    <3>2. UNCHANGED busRows
      BY <2>1, <3>1 DEF busRows, familyTables
    <3>3. QED
      BY <2>1, <3>1, <3>2, FinishLeaves, BusGoesOn
  <2>3. CASE Revocable(cmd[s].link)
    <3>1. Record(s) /\ UNCHANGED <<upkeep, position>>
      BY <1>3, <2>3 DEF Revoke
    <3>2. RecordedBy(s)
      BY <1>0, <2>1, <3>1, RecordWrites
    <3>3. FamiliesAgree' /\ LinksKept
      BY <1>f, <1>3, <2>1, <2>3, <3>2, FamilyCalled, LinkRevoked
    <3>4. QED
      BY <2>1, <3>1, <3>2, <3>3, FamilyRecorded
  <2>4. QED
    BY <2>2, <2>3
<1>4. CASE ReadViewer(s) \/ CountJourneys(s)
  <2>1. /\ pc[s] # "idle" /\ cmd[s].op = "feed" /\ UNCHANGED busRows /\ cmd[s].op \in FleetOps
    BY <1>4, <1>u DEF ReadViewer, CountJourneys, At, FleetOps, ServedOps
  <2>2. CASE Finish(s)
    BY <2>1, <2>2, FinishLeaves, BusGoesOn
  <2>3. CASE \E phase \in {"list", "write"} : \E view : Goto(s, phase, view)
    <3>1. PICK phase \in {"list", "write"} : \E view : Goto(s, phase, view)
      BY <2>3
    <3>2. PICK view : Goto(s, phase, view)
      BY <3>1
    <3>3. Went(s, phase, view)
      BY <2>1, <3>2, GotoGoes DEF DeskPhases
    <3>4. BusCall(s)' /\ ~Commanding(s)'
      BY <2>1, <3>3
      DEF Went, BusCall, BusSession, FaresSession, HoldsTariff, At, BusOps, Commanding
    <3>5. QED
      BY <2>1, <3>3, <3>4, BusCallGoesOn
  <2>4. QED
    BY <1>4, <2>2, <2>3 DEF ReadViewer, CountJourneys
<1>5. CASE ReadJourneys(s)
  <2>1. /\ pc[s] # "idle" /\ cmd[s].op = "feed" /\ UNCHANGED busRows /\ cmd[s].op \in FleetOps
        /\ link' = link
    BY <1>5, <1>u DEF ReadJourneys, At, FleetOps, ServedOps, Familiar, familyTables
  <2>2. PICK v : v = cmd[s].viewer
    OBVIOUS
  <2>3. PICK journeys : journeys = Feed(v)
    OBVIOUS
  <2>4. PICK revoked : revoked = {q \in BusRequests : link[q] # NoRow} \ OpenLinks
    OBVIOUS
  <2>5. PICK view, left : /\ left = Riders \ attending
                          /\ view = [total |-> seen[s].total, journeys |-> journeys,
                                     revoked |-> revoked, left |-> left]
    OBVIOUS
  <2>6. Goto(s, "answer", view)
    BY <1>5, <2>2, <2>3, <2>4, <2>5 DEF ReadJourneys, Reply
  <2>7. Went(s, "answer", view)
    BY <2>1, <2>6, GotoGoes DEF DeskPhases
  <2>8. view.journeys = journeys /\ view.revoked = revoked /\ view.left = left
    BY <2>5
  <2>9. ASSUME NEW j \in journeys PROVE JourneyStands(s, j)'
    BY <1>f, <2>1, <2>2, <2>3, <2>4, <2>5, <2>7, <2>8, FeedStands DEF JourneyStands, Went
  <2>10. BusCall(s)'
    BY <2>1, <2>7, <2>8, <2>9
    DEF Went, BusCall, BusSession, FaresSession, HoldsTariff, At, BusOps
  <2>11. ~Commanding(s)'
    BY <2>7 DEF Went, Commanding
  <2>12. QED
    BY <2>1, <2>7, <2>10, <2>11, BusCallGoesOn
<1>6. CASE CountLinks(s) \/ ReadLinks(s)
  <2>1. PICK phase \in {"list", "answer"} :
            /\ \E view : Goto(s, phase, view)
            /\ cmd[s].op \in FleetOps \ ServedOps /\ pc[s] # "idle" /\ UNCHANGED busRows
    BY <1>6, <1>u DEF CountLinks, ReadLinks, At, Reply, FleetOps, ServedOps, BusOps
  <2>2. PICK view : Goto(s, phase, view)
    BY <2>1
  <2>3. Went(s, phase, view)
    BY <2>1, <2>2, GotoGoes DEF DeskPhases
  <2>4. QED
    BY <2>1, <2>3, BusGoesOn
<1>7. CASE SendFamily(s)
  <2>1. cmd[s].op \in FleetOps /\ UNCHANGED busRows /\ Left(s)
    BY <1>7, <1>u, FinishLeaves DEF SendFamily, At, FleetOps, ServedOps
  <2>2. QED
    BY <2>1, BusGoesOn
<1>8. CASE MarkRider(s)
  <2>1. /\ Left(s) /\ pc[s] = "start" /\ cmd[s].op \in {"board", "alight", "absent"}
        /\ cmd[s].op \in FleetOps \ ServedOps
        /\ UNCHANGED <<busTables, moment, link, attending, guardians, ride>>
    BY <1>8, FinishLeaves DEF MarkRider, FleetOps, ServedOps, BusOps
  <2>2. PICK t, p : t = cmd[s].trip /\ p = cmd[s].rider
    OBVIOUS
  <2>3. t \in Trips /\ p \in Riders
    BY <2>1, <2>2, FamilyCalled
  <2>4. PICK m : m = Marked(cmd[s].op)[2]
    OBVIOUS
  <2>5. m \in Parts
    BY <2>1, <2>4 DEF Marked, Parts
  <2>6. \/ part' = part
        \/ /\ p \in DOMAIN part[t] /\ ride[t].status = "in_progress"
           /\ part' = [part EXCEPT ![t][p] = m]
    BY <1>8, <2>2, <2>4 DEF MarkRider
  <2>7. CASE part' = part
    <3>1. UNCHANGED busRows
      BY <2>1, <2>7 DEF busRows, familyTables
    <3>2. QED
      BY <2>1, <3>1, BusGoesOn
  <2>8. CASE /\ p \in DOMAIN part[t] /\ ride[t].status = "in_progress"
             /\ part' = [part EXCEPT ![t][p] = m]
    <3>1. DOMAIN part = Trips /\ DOMAIN part[t] \subseteq Riders
          /\ \A q \in DOMAIN part[t] : part[t][q] \in Parts
      BY <1>f, <2>3 DEF FamiliesAgree, FamiliesTypeOK
    <3>2. PICK row : row = [part[t] EXCEPT ![p] = m]
      OBVIOUS
    <3>3. part' = [part EXCEPT ![t] = row]
      BY <2>8, <3>2
    <3>4. /\ DOMAIN part' = Trips /\ part'[t] = row
          /\ \A u \in Trips \ {t} : part'[u] = part[u]
      BY <2>3, <3>1, <3>3
    <3>5. DOMAIN row = DOMAIN part[t] /\ \A q \in DOMAIN row : row[q] \in Parts
      BY <2>5, <3>1, <3>2
    <3>6. ride' \in [Trips -> RideRow] /\ ride'[t].status = "in_progress"
          /\ \A u \in Trips \ {t} : ride'[u] = ride[u]
      BY <1>f, <2>1, <2>8 DEF FamiliesAgree, FamiliesTypeOK
    <3>7. UNCHANGED <<busEvent, link, attending, guardians>>
      BY <2>1 DEF busTables
    <3>8. FamiliesAgree'
      BY <1>f, <2>3, <3>1, <3>4, <3>5, <3>6, <3>7, RidesChanged
    <3>9. QED
      BY <2>1, <3>8, FamilyStep
  <2>9. QED
    BY <2>6, <2>7, <2>8
<1>9. CASE CloseRide(s)
  <2>1. /\ Left(s) /\ pc[s] = "start" /\ cmd[s].op \in {"complete", "call_off"}
        /\ cmd[s].op \in FleetOps \ ServedOps
        /\ UNCHANGED <<busTables, moment, link, attending, guardians>>
    BY <1>9, FinishLeaves DEF CloseRide, FleetOps, ServedOps, BusOps
  <2>2. PICK t : t = cmd[s].trip
    OBVIOUS
  <2>3. t \in Trips
    BY <2>1, <2>2, FamilyCalled
  <2>4. DOMAIN part = Trips /\ DOMAIN part[t] \subseteq Riders
        /\ (\A q \in DOMAIN part[t] : part[t][q] \in Parts)
        /\ ride \in [Trips -> RideRow]
    BY <1>f, <2>3 DEF FamiliesAgree, FamiliesTypeOK
  <2>5. PICK parts : parts = {part[t][p] : p \in DOMAIN part[t]}
    OBVIOUS
  <2>6. PICK new \in {"completed", "cancelled"} :
          new = IF cmd[s].op = "complete" THEN "completed" ELSE "cancelled"
    OBVIOUS
  <2>7. PICK row : row = [p \in DOMAIN part[t] |->
                            IF part[t][p] = "pending" THEN "cancelled" ELSE part[t][p]]
    OBVIOUS
  <2>8. [part EXCEPT ![t] = [p \in DOMAIN @ |-> IF @[p] = "pending" THEN "cancelled" ELSE @[p]]]
          = [part EXCEPT ![t] = row]
    BY <2>7
  <2>9. \/ UNCHANGED <<ride, part>>
        \/ /\ ride' = [ride EXCEPT ![t].status = new]
           /\ \/ parts \cap {"pending", "boarded"} = {} /\ part' = part
              \/ /\ parts \cap {"boarded", "alighted"} = {}
                 /\ part' = [part EXCEPT ![t] = row]
    BY <1>9, <2>2, <2>5, <2>6, <2>8 DEF CloseRide
  <2>10. CASE UNCHANGED <<ride, part>>
    <3>1. UNCHANGED busRows
      BY <2>1, <2>10 DEF busRows, familyTables
    <3>2. QED
      BY <2>1, <3>1, BusGoesOn
  <2>11. CASE /\ ride' = [ride EXCEPT ![t].status = new]
              /\ \/ parts \cap {"pending", "boarded"} = {} /\ part' = part
                 \/ /\ parts \cap {"boarded", "alighted"} = {}
                    /\ part' = [part EXCEPT ![t] = row]
    <3>1. PICK trip \in RideRow : trip = ride[t]
      BY <2>3, <2>4
    <3>2. trip = [status |-> trip.status, direction |-> trip.direction, day |-> trip.day]
      BY DEF RideRow
    <3>3. PICK over : over = [status |-> new, direction |-> trip.direction, day |-> trip.day]
      OBVIOUS
    <3>4. [trip EXCEPT !.status = new] = over /\ over \in RideRow
      BY <2>6, <3>2, <3>3 DEF RideRow
    <3>5. ride' = [ride EXCEPT ![t] = over]
      BY <2>11, <3>1, <3>4
    <3>6. ride' \in [Trips -> RideRow] /\ \A u \in Trips \ {t} : ride'[u] = ride[u]
      BY <2>3, <2>4, <3>4, <3>5
    <3>7. /\ DOMAIN part' = Trips /\ (\A u \in Trips \ {t} : part'[u] = part[u])
          /\ DOMAIN part'[t] \subseteq Riders
          /\ \A p \in DOMAIN part'[t] : part'[t][p] \in {"alighted", "absent", "cancelled"}
      <4>1. CASE parts \cap {"pending", "boarded"} = {} /\ part' = part
        BY <2>4, <2>5, <4>1 DEF Parts
      <4>2. CASE parts \cap {"boarded", "alighted"} = {} /\ part' = [part EXCEPT ![t] = row]
        <5>1. part'[t] = row /\ DOMAIN part' = Trips /\ \A u \in Trips \ {t} : part'[u] = part[u]
          BY <2>3, <2>4, <4>2
        <5>2. DOMAIN row = DOMAIN part[t]
              /\ \A p \in DOMAIN row : row[p] \in {"alighted", "absent", "cancelled"}
          BY <2>4, <2>5, <2>7, <4>2 DEF Parts
        <5>3. QED
          BY <2>4, <5>1, <5>2
      <4>3. QED
        BY <2>11, <4>1, <4>2
    <3>8. \A p \in DOMAIN part'[t] :
            /\ part'[t][p] \in Parts
            /\ ride'[t].status # "in_progress" =>
                 part'[t][p] \in {"alighted", "absent", "cancelled"}
      BY <3>7 DEF Parts
    <3>9. UNCHANGED <<busEvent, link, attending, guardians>>
      BY <2>1 DEF busTables
    <3>10. FamiliesAgree'
      BY <1>f, <2>3, <3>6, <3>7, <3>8, <3>9, RidesChanged
    <3>11. QED
      BY <2>1, <3>10, FamilyStep
  <2>12. QED
    BY <2>9, <2>10, <2>11
<1>10. CASE ChangeEnrolment(s) \/ Demote(s)
  <2>1. /\ Left(s) /\ cmd[s].op \in FleetOps \ ServedOps
        /\ UNCHANGED <<busTables, moment, link, ride, part>>
    BY <1>10, FinishLeaves DEF ChangeEnrolment, Demote, At, FleetOps, ServedOps, BusOps
  <2>2. attending' \subseteq Riders /\ guardians' \subseteq Parents
    BY <1>f, <1>10 DEF ChangeEnrolment, Demote, FamiliesAgree, FamiliesTypeOK
  <2>3. FamiliesAgree'
    BY <1>f, <2>1, <2>2, PeopleChanged DEF busTables
  <2>4. QED
    BY <2>1, <2>3, FamilyStep
<1>11. QED
  BY <1>1, <1>2, <1>3, <1>4, <1>5, <1>6, <1>7, <1>8, <1>9, <1>10 DEF FamiliesNext

-----------------------------------------------------------------------------
(* The services behind one desk. *)

\* A step that each service either serves or is left alone by.
LEMMA ServicesKept ==
    ASSUME IInv, DeskInv', menu' = menu,
           AttendanceInv' \/ (roll' = roll /\ Quiet(AttendanceOps)),
           StaffInv' \/ (UNCHANGED staffTables /\ Quiet(StaffOps)),
           StudentsInv' \/ (UNCHANGED studentTables /\ Quiet(StudentOps)),
           InventoryInv' \/ (asset' = asset /\ Quiet(InventoryOps)),
           TenantsInv' \/ (tenant' = tenant /\ Quiet(TenantsOps)),
           MessagesInv' \/ (UNCHANGED messageTables /\ Quiet(MessageOps)),
           CalendarInv' \/ (today' = today /\ Quiet(CalendarOps)),
           ReportsInv' \/ (UNCHANGED reportTables /\ Quiet(ReportOps)),
           BusGroup' \/ (UNCHANGED busRows /\ Quiet(FleetOps))
    PROVE  IInv'
<1>1. /\ DeskInv /\ AttendanceInv /\ StaffInv /\ StudentsInv /\ InventoryInv /\ TenantsInv
      /\ MessagesInv /\ CalendarInv /\ ReportsInv /\ BusGroup
  BY DEF IInv, BusGroup
<1>2. AttendanceInv' /\ StaffInv' /\ StudentsInv'
  BY <1>1, AttendanceStays, StaffStays, StudentsStays
<1>3. InventoryInv' /\ TenantsInv' /\ MessagesInv'
  BY <1>1, InventoryStays, TenantsStays, MessagesStays
<1>4. CalendarInv' /\ ReportsInv' /\ BusGroup'
  BY <1>1, CalendarStays, ReportsStays, BusStays
<1>5. QED
  BY <1>2, <1>3, <1>4 DEF IInv, BusGroup

\* No operation is served by two services.
LEMMA ServicesApart ==
    /\ AttendanceOps \cap (StaffOps \cup StudentOps \cup InventoryOps \cup TenantsOps
         \cup MessageOps \cup CalendarOps \cup ReportOps \cup FleetOps) = {}
    /\ StaffOps \cap (StudentOps \cup InventoryOps \cup TenantsOps \cup MessageOps
         \cup CalendarOps \cup ReportOps \cup FleetOps) = {}
    /\ StudentOps \cap (InventoryOps \cup TenantsOps \cup MessageOps \cup CalendarOps
         \cup ReportOps \cup FleetOps) = {}
    /\ InventoryOps \cap (TenantsOps \cup MessageOps \cup CalendarOps \cup ReportOps
         \cup FleetOps) = {}
    /\ TenantsOps \cap (MessageOps \cup CalendarOps \cup ReportOps \cup FleetOps) = {}
    /\ MessageOps \cap (CalendarOps \cup ReportOps \cup FleetOps) = {}
    /\ CalendarOps \cap (ReportOps \cup FleetOps) = {}
    /\ ReportOps \cap FleetOps = {}
  BY DEF AttendanceOps, StaffOps, StudentOps, InventoryOps, TenantsOps, MessageOps, CalendarOps,
         ReportOps, FleetOps, ServedOps, BusOps

LEMMA OfficeStarts == OfficeInit => IInv
<1>1. ASSUME OfficeInit PROVE DeskInv
  BY <1>1 DEF OfficeInit, DeskInit, DeskInv, DeskTypeOK, DeskPhases
<1>2. QED
  BY <1>1, AttendanceStarts, StaffStarts, StudentsStarts, InventoryStarts, TenantsStarts,
     MessagesStarts, CalendarStarts, ReportsStarts, BusStarts
  DEF OfficeInit, IInv, BusGroup

LEMMA OfficeStep == IInv /\ [OfficeNext]_officeVars => IInv'
<1> SUFFICES ASSUME IInv, [OfficeNext]_officeVars PROVE IInv'
  OBVIOUS
<1>0. /\ DeskInv /\ AttendanceInv /\ StaffInv /\ StudentsInv /\ InventoryInv /\ TenantsInv
      /\ MessagesInv /\ CalendarInv /\ ReportsInv /\ BusGroup
  BY DEF IInv, BusGroup
<1>q. ASSUME NEW s \in Sessions, NEW Ops, cmd[s].op \notin Ops,
             Left(s) \/ \E phase, view : Went(s, phase, view)
      PROVE  Quiet(Ops)
  BY <1>q, StepQuiet
<1>b. ASSUME UNCHANGED <<busTables, moment, fareTables, familyTables>>
      PROVE  UNCHANGED busRows
  BY <1>b DEF busRows
<1>1. ASSUME NEW s \in Sessions, Receive(s) \/ RollBack(s),
             UNCHANGED <<roll, staffTables, studentTables, asset, tenant, messageTables,
                         today, reportTables, busRows>>
      PROVE  IInv'
  <2>1. DeskInv' /\ menu' = menu /\ \A Ops : Quiet(Ops)
    BY <1>0, <1>1, DeskSteps
  <2>2. QED
    BY <1>1, <2>1, ServicesKept
<1>2. ASSUME NEW s \in Sessions, AttendanceNext(s),
             UNCHANGED <<staffTables, studentTables, asset, tenant, messageTables, today,
                         reportTables, busRows>>
      PROVE  IInv'
  <2>1. /\ AttendanceInv' /\ DeskInv' /\ menu' = menu /\ cmd[s].op \in AttendanceOps
        /\ Left(s) \/ \E phase, view : Went(s, phase, view)
    BY <1>0, <1>2, AttendanceKeeps
  <2>2. \A Ops : Ops \cap AttendanceOps = {} => Quiet(Ops)
    BY <1>q, <2>1
  <2>3. QED
    BY <1>2, <2>1, <2>2, ServicesApart, ServicesKept
<1>3. ASSUME NEW s \in Sessions, StaffNext(s),
             UNCHANGED <<roll, studentTables, asset, tenant, messageTables, today,
                         reportTables, busRows>>
      PROVE  IInv'
  <2>1. /\ StaffInv' /\ DeskInv' /\ menu' = menu /\ cmd[s].op \in StaffOps
        /\ Left(s) \/ \E phase, view : Went(s, phase, view)
    BY <1>0, <1>3, StaffKeeps
  <2>2. \A Ops : Ops \cap StaffOps = {} => Quiet(Ops)
    BY <1>q, <2>1
  <2>3. QED
    BY <1>3, <2>1, <2>2, ServicesApart, ServicesKept
<1>4. ASSUME NEW s \in Sessions, StudentsNext(s),
             UNCHANGED <<roll, staffTables, asset, tenant, messageTables, today,
                         reportTables, busRows>>
      PROVE  IInv'
  <2>1. /\ StudentsInv' /\ DeskInv' /\ menu' = menu /\ cmd[s].op \in StudentOps
        /\ Left(s) \/ \E phase, view : Went(s, phase, view)
    BY <1>0, <1>4, StudentsKeeps
  <2>2. \A Ops : Ops \cap StudentOps = {} => Quiet(Ops)
    BY <1>q, <2>1
  <2>3. QED
    BY <1>4, <2>1, <2>2, ServicesApart, ServicesKept
<1>5. ASSUME NEW s \in Sessions, InventoryNext(s),
             UNCHANGED <<roll, staffTables, studentTables, tenant, messageTables, today,
                         reportTables, busRows>>
      PROVE  IInv'
  <2>1. /\ InventoryInv' /\ DeskInv' /\ menu' = menu /\ cmd[s].op \in InventoryOps
        /\ Left(s) \/ \E phase, view : Went(s, phase, view)
    BY <1>0, <1>5, InventoryKeeps
  <2>2. \A Ops : Ops \cap InventoryOps = {} => Quiet(Ops)
    BY <1>q, <2>1
  <2>3. QED
    BY <1>5, <2>1, <2>2, ServicesApart, ServicesKept
<1>6. ASSUME NEW s \in Sessions, TenantsNext(s),
             UNCHANGED <<roll, staffTables, studentTables, asset, messageTables, today,
                         reportTables, busRows>>
      PROVE  IInv'
  <2>1. /\ TenantsInv' /\ DeskInv' /\ menu' = menu /\ cmd[s].op \in TenantsOps
        /\ Left(s) \/ \E phase, view : Went(s, phase, view)
    BY <1>0, <1>6, TenantsKeeps
  <2>2. \A Ops : Ops \cap TenantsOps = {} => Quiet(Ops)
    BY <1>q, <2>1
  <2>3. QED
    BY <1>6, <2>1, <2>2, ServicesApart, ServicesKept
<1>7. ASSUME NEW s \in Sessions, MessagesNext(s),
             UNCHANGED <<roll, staffTables, studentTables, asset, tenant, today,
                         reportTables, busRows>>
      PROVE  IInv'
  <2>1. /\ MessagesInv' /\ DeskInv' /\ menu' = menu /\ cmd[s].op \in MessageOps
        /\ Left(s) \/ \E phase, view : Went(s, phase, view)
    BY <1>0, <1>7, MessagesKeeps
  <2>2. \A Ops : Ops \cap MessageOps = {} => Quiet(Ops)
    BY <1>q, <2>1
  <2>3. QED
    BY <1>7, <2>1, <2>2, ServicesApart, ServicesKept
<1>8. ASSUME NEW s \in Sessions, CalendarNext(s),
             UNCHANGED <<roll, staffTables, studentTables, asset, tenant, messageTables,
                         reportTables, busRows>>
      PROVE  IInv'
  <2>1. /\ CalendarInv' /\ DeskInv' /\ menu' = menu /\ cmd[s].op \in CalendarOps
        /\ Left(s) \/ \E phase, view : Went(s, phase, view)
    BY <1>0, <1>8, CalendarKeeps
  <2>2. \A Ops : Ops \cap CalendarOps = {} => Quiet(Ops)
    BY <1>q, <2>1
  <2>3. QED
    BY <1>8, <2>1, <2>2, ServicesApart, ServicesKept
<1>9. ASSUME NEW s \in Sessions, ReportsNext(s),
             UNCHANGED <<roll, staffTables, studentTables, asset, tenant, messageTables,
                         today, busRows>>
      PROVE  IInv'
  <2>1. /\ ReportsInv' /\ DeskInv' /\ menu' = menu /\ cmd[s].op \in ReportOps
        /\ Left(s) \/ \E phase, view : Went(s, phase, view)
    BY <1>0, <1>9, ReportsKeeps
  <2>2. \A Ops : Ops \cap ReportOps = {} => Quiet(Ops)
    BY <1>q, <2>1
  <2>3. QED
    BY <1>9, <2>1, <2>2, ServicesApart, ServicesKept
<1>10. ASSUME NEW s \in Sessions,
              UNCHANGED <<roll, staffTables, studentTables, asset, tenant, messageTables,
                          today, reportTables>>,
              \/ BusNext(s) /\ UNCHANGED <<fareTables, familyTables>>
              \/ FaresNext(s) /\ UNCHANGED familyTables
              \/ FamiliesNext(s) /\ UNCHANGED fareTables
       PROVE  IInv'
  <2>1. BusGroup' /\ Served(s)
    BY <1>0, <1>10, BusKeeps, FaresKeeps, FamiliesKeeps
  <2>2. /\ DeskInv' /\ menu' = menu /\ cmd[s].op \in FleetOps
        /\ Left(s) \/ \E phase, view : Went(s, phase, view)
    BY <2>1 DEF Served
  <2>3. \A Ops : Ops \cap FleetOps = {} => Quiet(Ops)
    BY <1>q, <2>2
  <2>4. QED
    BY <1>10, <2>1, <2>2, <2>3, ServicesApart, ServicesKept
<1>11. ASSUME UNCHANGED desk PROVE DeskInv' /\ menu' = menu /\ \A Ops : Quiet(Ops)
  BY <1>0, <1>11 DEF desk, DeskInv, DeskTypeOK, Quiet, Same
<1>12. ASSUME Midnight,
              UNCHANGED <<desk, roll, staffTables, studentTables, asset, tenant, messageTables,
                          reportTables, busRows>>
       PROVE  IInv'
  <2>1. CalendarInv'
    BY <1>0, <1>12, MidnightPasses
  <2>2. QED
    BY <1>11, <1>12, <2>1, ServicesKept
<1>13. ASSUME MomentPasses,
              UNCHANGED <<desk, roll, staffTables, studentTables, asset, tenant, messageTables,
                          today, reportTables, fareTables, familyTables>>
       PROVE  IInv'
  <2>1. BusGroup'
    BY <1>0, <1>13, BusClock
  <2>2. QED
    BY <1>11, <1>13, <2>1, ServicesKept
<1>14. CASE UNCHANGED officeVars
  <2>1. UNCHANGED <<desk, roll, staffTables, studentTables, asset, tenant, messageTables,
                    today, reportTables, busRows>>
    BY <1>14 DEF officeVars
  <2>2. QED
    BY <1>11, <2>1, ServicesKept
<1>15. CASE OfficeNext
  BY <1>1, <1>2, <1>3, <1>4, <1>5, <1>6, <1>7, <1>8, <1>9, <1>10, <1>12, <1>13, <1>15
  DEF OfficeNext
<1>16. QED
  BY <1>14, <1>15

-----------------------------------------------------------------------------
(* The theorems. *)

\* Whatever the services are asked, in whatever order their statements reach
\* the tables, and whatever is rolled back, the inductive invariant holds.
THEOREM OfficeInvariance == OfficeSpec => []IInv
  BY OfficeStarts, OfficeStep, PTL DEF OfficeSpec

\* The tables hold rows, and the sessions calls, of the declared form.
THEOREM OfficeTypeCorrect == OfficeSpec => []OfficeTypeOK
<1>1. IInv => OfficeTypeOK
  BY DEF IInv, OfficeTypeOK, DeskInv, AttendanceInv, StaffInv, StudentsInv, InventoryInv,
         TenantsInv, MessagesInv, CalendarInv, ReportsInv, BusInv, FaresInv, FamiliesInv
<1>2. QED
  BY <1>1, OfficeInvariance, PTL

\* Two sheets for the same pupils that are saved at once never mix, whatever
\* the order in which their entries are upserted, and the list a sheet is
\* answered with has every entry of it as it was sent (mark_attendance).
THEOREM RollsAreWhole == OfficeSpec => []RollsWhole
<1>1. IInv => RollsWhole
  BY AnswerWhole DEF IInv
<1>2. QED
  BY <1>1, OfficeInvariance, PTL

\* The summary of a bulk import accounts for every row bulk_import was handed,
\* which are those of the file that are not blank; each of them that is valid has
\* its number in the table, and what is called imported stands as it was sent,
\* although each row was committed by itself; no student's row names a photo that
\* is not stored.
THEOREM ImportsAreWhole == OfficeSpec => []ImportsWhole
<1>1. IInv => ImportsWhole
  BY ImportsAccounted DEF IInv
<1>2. QED
  BY <1>1, OfficeInvariance, PTL

\* A flush writes the columns that differ from what was loaded, and still no
\* row mixes two calls: a decided leave and who decided it, the quantity and
\* the value of an asset priced in whole paisa (other prices are rounded apart
\* from the total), the level of a school that began below and its switch.
THEOREM RowsWhole == OfficeSpec => []RowsNotTorn
<1>1. IInv => RowsNotTorn
  BY DEF IInv, RowsNotTorn, StaffInv, InventoryInv, TenantsInv
<1>2. QED
  BY <1>1, OfficeInvariance, PTL

\* The record of a text message says sent by Sparrow only if Sparrow has accepted
\* it, sent by Aakash only if Aakash has answered 200, whatever its body says, and
\* Sparrow, if enabled, was asked before and has not accepted it, failed only if
\* every enabled gateway was asked and none has accepted, and queued if none is
\* enabled (send_sms with its fallback).
THEOREM RecordsAreTrue == OfficeSpec => []RecordsTellTheTruth
<1>1. IInv => RecordsTellTheTruth
  BY DEF IInv, MessagesInv
<1>2. QED
  BY <1>1, OfficeInvariance, PTL

\* For any table of month lengths: each conversion of the Nepali calendar undoes
\* the other, ranges have no gap, the months found by trying add up to the
\* year, and the academic year has the day it was asked on, although midnight
\* may pass inside the call.
THEOREM CalendarIsOne == OfficeSpec => []CalendarAgrees
<1>1. IInv => CalendarAgrees
  BY DEF IInv, CalendarInv
<1>2. QED
  BY <1>1, OfficeInvariance, PTL

\* What a snapshot counts, adds up and hashes is what was saved with it,
\* whatever changes in the tables it was read from; a report is archived once;
\* and a retried request is answered with the report of the first.
THEOREM ReportsAreStanding == OfficeSpec => []ReportsStand
<1>1. IInv => ReportsStand
  BY DEF IInv, ReportsInv
<1>2. QED
  BY <1>1, OfficeInvariance, PTL

\* The transport office does what a request id asks once, charges a student once
\* a month and what was agreed, has one open link for a parent and a student,
\* and answers a parent's feed with journeys of children linked at one moment.
THEOREM RidersAreServed == OfficeSpec => []RidersServed
<1>1. IInv => RidersServed
  BY DEF IInv, RidersServed, BusInv, FaresInv, FamiliesInv
<1>2. QED
  BY <1>1, OfficeInvariance, PTL
-----------------------------------------------------------------------------
(* The refinement of ReportArchive. *)

Reading(s) == At(s, "generate", "commit")

Reads == [k \in RequestKeys |-> ReadFor(k)]
Saves == [r \in ReportIds |-> KeptAs(r)]
ArchiveBar == <<figures, Reads, Saves>>

\* Nobody reads or stops reading.
LEMMA ReadsSame ==
    ASSUME \A t \in Sessions : Same(t) \/ (~Reading(t) /\ ~Reading(t)')
    PROVE  Reads' = Reads
<1>1. ASSUME NEW t \in Sessions
      PROVE  /\ Reading(t)' <=> Reading(t)
             /\ Reading(t) => cmd'[t] = cmd[t] /\ seen'[t] = seen[t]
  BY DEF Same, Reading, At
<1>2. ASSUME NEW k \in RequestKeys
      PROVE  ReadFor(k)' = ReadFor(k)
  BY <1>1 DEF ReadFor, Reading
<1>3. QED
  BY <1>2 DEF Reads

\* What a reading call has read, and what is left when it ends.
LEMMA ReadsLeft ==
    ASSUME DeskInv, ReportsInv, NEW s \in Sessions, Reading(s), Others(s), ~Reading(s)'
    PROVE  /\ cmd[s].key \in RequestKeys
           /\ ReadFor(cmd[s].key) = {[intent |-> cmd[s].intent, rows |-> seen[s].rows]}
           /\ Reads' = [Reads EXCEPT ![cmd[s].key] = {}]
           /\ Reads' # Reads
<1>1. PICK key \in RequestKeys : key = cmd[s].key
  BY ReportCalled DEF Reading, At
<1>2. ReportsApart
  BY ReportsMeans DEF ReportsState
<1>3. \A t \in Sessions : Reading(t) => Generating(t)
  BY DEF Reading, Generating, At
<1>4. \A t \in Sessions \ {s} : Reading(t) => cmd[t].key # key
  BY <1>1, <1>2, <1>3 DEF ReportsApart
<1>5. ReadFor(key) = {[intent |-> cmd[s].intent, rows |-> seen[s].rows]}
  BY <1>1, <1>4 DEF ReadFor, Reading
<1>6. ASSUME NEW t \in Sessions \ {s}
      PROVE  /\ Reading(t)' <=> Reading(t)
             /\ cmd'[t] = cmd[t] /\ seen'[t] = seen[t]
  BY DEF Others, Same, Reading, At
<1>7. ReadFor(key)' = {}
  BY <1>4, <1>6 DEF ReadFor, Reading
<1>8. ASSUME NEW k \in RequestKeys, k # key
      PROVE  ReadFor(k)' = ReadFor(k)
  BY <1>1, <1>6, <1>8 DEF ReadFor, Reading
<1>9. Reads' = [Reads EXCEPT ![key] = {}]
  BY <1>7, <1>8 DEF Reads
<1>10. Reads' # Reads
  BY <1>5, <1>7 DEF Reads
<1>11. QED
  BY <1>1, <1>5, <1>9, <1>10

\* A call of the only generation of its request reads the source.
LEMMA ReadsTaken ==
    ASSUME DeskInv, ReportsInv, NEW s \in Sessions, Generating(s), ~Reading(s),
           Others(s), Reading(s)', cmd'[s] = cmd[s]
    PROVE  /\ cmd[s].key \in RequestKeys
           /\ ReadFor(cmd[s].key) = {}
           /\ ReadFor(cmd[s].key)' = {[intent |-> cmd[s].intent, rows |-> seen'[s].rows]}
           /\ Reads' = [Reads EXCEPT ![cmd[s].key] =
                          {[intent |-> cmd[s].intent, rows |-> seen'[s].rows]}]
           /\ Reads' # Reads
<1>1. PICK key \in RequestKeys : key = cmd[s].key
  BY ReportCalled DEF Generating
<1>2. ReportsApart
  BY ReportsMeans DEF ReportsState
<1>3. \A t \in Sessions : Reading(t) => Generating(t)
  BY DEF Reading, Generating, At
<1>4. \A t \in Sessions \ {s} : Reading(t) => cmd[t].key # key
  BY <1>1, <1>2, <1>3 DEF ReportsApart
<1>5. ReadFor(key) = {}
  BY <1>1, <1>4 DEF ReadFor, Reading
<1>6. ASSUME NEW t \in Sessions \ {s}
      PROVE  /\ Reading(t)' <=> Reading(t)
             /\ cmd'[t] = cmd[t] /\ seen'[t] = seen[t]
  BY DEF Others, Same, Reading, At
<1>7. ReadFor(key)' = {[intent |-> cmd[s].intent, rows |-> seen'[s].rows]}
  BY <1>1, <1>4, <1>6 DEF ReadFor, Reading
<1>8. ASSUME NEW k \in RequestKeys, k # key
      PROVE  ReadFor(k)' = ReadFor(k)
  BY <1>1, <1>6, <1>8 DEF ReadFor, Reading
<1>9. Reads' = [Reads EXCEPT ![key] = {[intent |-> cmd[s].intent, rows |-> seen'[s].rows]}]
  BY <1>7, <1>8 DEF Reads
<1>10. Reads' # Reads
  BY <1>5, <1>7 DEF Reads
<1>11. QED
  BY <1>1, <1>5, <1>7, <1>9, <1>10

LEMMA SavesSame ==
    ASSUME report' = report, saved' = saved
    PROVE  Saves' = Saves
  BY DEF Saves, KeptAs

\* A call that has read gives up.
LEMMA DropImplements ==
    ASSUME DeskInv, ReportsInv, NEW s \in Sessions, Reading(s), Others(s), ~Reading(s)',
           figures' = figures, Saves' = Saves
    PROVE  Kept!Next
<1>1. /\ cmd[s].key \in RequestKeys /\ Reads' = [Reads EXCEPT ![cmd[s].key] = {}]
      /\ Reads' # Reads
  BY ReadsLeft
<1>2. Kept!Drop(cmd[s].key)
  BY <1>1 DEF Kept!Drop, Reads, Saves
<1>3. QED
  BY <1>1, <1>2 DEF Kept!Next, Reads

\* A step that is no business of the reports.
LEMMA AwayImplements ==
    ASSUME DeskInv, ReportsInv, NEW s \in Sessions, UNCHANGED reportTables,
           Others(s), ~Reading(s)'
    PROVE  Kept!Next \/ ArchiveBar' = ArchiveBar
<1>1. figures' = figures /\ Saves' = Saves
  BY SavesSame DEF reportTables
<1>2. CASE Reading(s)
  BY <1>1, <1>2, DropImplements
<1>3. CASE ~Reading(s)
  <2>1. Reads' = Reads
    BY <1>3, ReadsSame DEF Others
  <2>2. QED
    BY <1>1, <2>1 DEF ArchiveBar
<1>4. QED
  BY <1>2, <1>3

LEMMA SourceImplements ==
    ASSUME DeskInv, ReportsInv, NEW s \in Sessions, ReadSource(s)
    PROVE  Kept!Next \/ ArchiveBar' = ArchiveBar
<1>1. /\ cmd[s].op = "generate" /\ pc[s] = "write" /\ UNCHANGED reportTables
      /\ Generating(s) /\ ~Reading(s)
  BY DEF ReadSource, At, Generating, Reading
<1>2. CASE Cardinality(DOMAIN figures) > MaxRows
  <2>1. Left(s)
    BY <1>1, <1>2, FinishLeaves DEF ReadSource
  <2>2. Others(s) /\ ~Reading(s)'
    BY <2>1 DEF Left, Reading, At
  <2>3. QED
    BY <1>1, <2>2, AwayImplements
<1>3. CASE ~(Cardinality(DOMAIN figures) > MaxRows)
  <2>1. PICK view : view = [rows |-> figures] /\ Goto(s, "commit", view)
    BY <1>3 DEF ReadSource
  <2>2. Went(s, "commit", view)
    BY <1>1, <2>1, GotoGoes DEF DeskPhases
  <2>3. /\ Others(s) /\ Reading(s)' /\ cmd'[s] = cmd[s] /\ seen'[s].rows = figures
    BY <1>1, <2>1, <2>2 DEF Went, Reading, At
  <2>4. PICK key, d : /\ key = cmd[s].key
                      /\ d = [intent |-> cmd[s].intent, rows |-> figures]
    OBVIOUS
  <2>5. /\ key \in RequestKeys /\ ReadFor(key) = {} /\ ReadFor(key)' = {d}
        /\ Reads' = [Reads EXCEPT ![key] = {d}] /\ Reads' # Reads
    BY <1>1, <2>3, <2>4, ReadsTaken
  <2>6. figures' = figures /\ Saves' = Saves
    BY <1>1, SavesSame DEF reportTables
  <2>7. Reads[key] = {} /\ d \in Reads'[key]
    BY <2>5 DEF Reads
  <2>8. Kept!Read(key)
    <3>1. \E x \in Reads'[key] : x.rows = figures /\ Reads' = [Reads EXCEPT ![key] = {x}]
      BY <2>4, <2>5, <2>7
    <3>2. QED
      BY <2>6, <2>7, <3>1 DEF Kept!Read, Reads, Saves
  <2>9. QED
    BY <2>5, <2>8 DEF Kept!Next, Reads
<1>4. QED
  BY <1>2, <1>3

LEMMA CommitImplements ==
    ASSUME DeskInv, ReportsInv, NEW s \in Sessions, CommitReport(s)
    PROVE  Kept!Next
<1>0. /\ Reading(s) /\ pc[s] # "idle" /\ figures' = figures
      /\ pc[s] = "commit" /\ cmd[s].op = "generate"
  BY DEF CommitReport, Reading, At
<1>1. PICK key, d : key = cmd[s].key /\ d = [intent |-> cmd[s].intent, rows |-> seen[s].rows]
  OBVIOUS
<1>2. OfKey(key) = {}
  <2>1. ReportsSession(s)
    BY DEF ReportsInv
  <2>2. QED
    BY <1>0, <1>1, <2>1 DEF ReportsSession, Generating
<1>3. CASE EventsOf(key) # {}
  <2>1. PICK view : Goto(s, "answer", view) /\ UNCHANGED <<report, saved, event>>
    BY <1>1, <1>3 DEF CommitReport, Reply
  <2>2. Went(s, "answer", view)
    BY <1>0, <2>1, GotoGoes DEF DeskPhases
  <2>3. Others(s) /\ ~Reading(s)' /\ Saves' = Saves
    BY <2>1, <2>2, SavesSame DEF Went, Reading, At
  <2>4. QED
    BY <1>0, <2>3, DropImplements
<1>4. CASE EventsOf(key) = {}
  <2>1. PICK summary : summary = SummaryOf(d.rows)
    OBVIOUS
  <2>2. PICK r : r = NextId
    OBVIOUS
  <2>3. PICK row : row = [key |-> key, intent |-> d.intent, version |-> 2,
                          archived |-> NotArchived, summary |-> summary,
                          hash |-> Digest(summary, d.rows)]
    OBVIOUS
  <2>4. /\ UnusedIds # {} /\ report' = [report EXCEPT ![r] = row]
        /\ saved' = [saved EXCEPT ![r] = d.rows] /\ Goto(s, "answer", Shown(r))
    BY <1>1, <1>2, <1>4, <2>1, <2>2, <2>3 DEF CommitReport, SummaryFor, Reply
  <2>5. r \in ReportIds /\ report[r] = NoRow
    BY <2>2, <2>4 DEF NextId, UnusedIds
  <2>6. Went(s, "answer", Shown(r))
    BY <1>0, <2>4, GotoGoes DEF DeskPhases
  <2>7. Others(s) /\ ~Reading(s)'
    BY <2>6 DEF Went, Reading, At
  <2>8. /\ key \in RequestKeys /\ ReadFor(key) = {d}
        /\ Reads' = [Reads EXCEPT ![key] = {}] /\ Reads' # Reads
    BY <1>0, <1>1, <2>7, ReadsLeft
  <2>9. DOMAIN report = ReportIds /\ DOMAIN saved = ReportIds
    BY DEF ReportsInv, ReportRows
  <2>10. row # NoRow
    <3>1. IsTable(d.rows)
      <4>1. ReportsSession(s)
        BY DEF ReportsInv
      <4>2. QED
        BY <1>0, <1>1, <4>1 DEF ReportsSession, At
    <3>2. /\ summary \in Summary
          /\ Digest(summary, d.rows) \in Summary \X SUBSET (SourceRows \X Nat)
      BY <2>1, <3>1, SummaryFits, DigestFits
    <3>3. d.intent \in Intents
      BY <1>0, <1>1, ReportCalled
    <3>4. row \in ReportRow
      BY <2>3, <2>8, <3>2, <3>3 DEF ReportRow, Summary
    <3>5. QED
      BY <3>4, ReportFacts
  <2>11. PICK new : new = [key |-> key, intent |-> d.intent, rows |-> d.rows,
                           archived |-> NotArchived]
    OBVIOUS
  <2>12. /\ report'[r] = row /\ saved'[r] = d.rows
         /\ \A q \in ReportIds \ {r} : report'[q] = report[q] /\ saved'[q] = saved[q]
    BY <2>4, <2>5, <2>9
  <2>13. KeptAs(r) = {} /\ KeptAs(r)' = {new}
    BY <2>3, <2>5, <2>10, <2>11, <2>12 DEF KeptAs
  <2>14. \A q \in ReportIds \ {r} : KeptAs(q)' = KeptAs(q)
    BY <2>12 DEF KeptAs
  <2>15. Saves' = [Saves EXCEPT ![r] = {new}]
    BY <2>5, <2>13, <2>14 DEF Saves
  <2>16. \A q \in ReportIds : \A x \in KeptAs(q) : x.key # key
    BY <1>2 DEF KeptAs, OfKey
  <2>17. Saves[r] = {} /\ (\A q \in ReportIds : \A x \in Saves[q] : x.key # key)
         /\ d \in Reads[key]
    BY <2>5, <2>8, <2>13, <2>16 DEF Saves, Reads
  <2>18. Kept!Keep(key, r)
    BY <1>0, <2>8, <2>11, <2>15, <2>17 DEF Kept!Keep, Reads, Saves
  <2>19. QED
    BY <2>5, <2>8, <2>18 DEF Kept!Next, Reads
<1>5. QED
  BY <1>3, <1>4

LEMMA ArchiveImplements ==
    ASSUME DeskInv, ReportsInv, NEW s \in Sessions, CommitArchive(s)
    PROVE  Kept!Next \/ ArchiveBar' = ArchiveBar
<1>1. /\ pc[s] = "commit" /\ cmd[s].op = "archive" /\ ~Reading(s)
      /\ figures' = figures /\ saved' = saved
  BY DEF CommitArchive, At, Reading
<1>2. PICK i, reason : i = cmd[s].report /\ reason = cmd[s].reason
  OBVIOUS
<1>3. i \in ReportIds /\ reason \in Reasons
  BY <1>1, <1>2, ReportCalled
<1>4. PICK view : Goto(s, "answer", view)
  BY DEF CommitArchive, Reply
<1>5. Went(s, "answer", view)
  BY <1>1, <1>4, GotoGoes DEF DeskPhases
<1>6. Others(s) /\ ~Reading(s)'
  BY <1>5 DEF Went, Reading, At
<1>7. Reads' = Reads
  BY <1>1, <1>6, ReadsSame DEF Others
<1>8. CASE EventsOf(cmd[s].key) # {}
  <2>1. Saves' = Saves
    BY <1>1, <1>8, SavesSame DEF CommitArchive
  <2>2. QED
    BY <1>1, <1>7, <2>1 DEF ArchiveBar
<1>9. CASE EventsOf(cmd[s].key) = {}
  <2>1. report' = [report EXCEPT ![i].archived = reason]
    BY <1>2, <1>9 DEF CommitArchive
  <2>2. report[i] # NoRow /\ report[i].archived = NotArchived
    <3>1. ReportsSession(s) /\ HoldsReport(s, i)
      BY <1>1, <1>2 DEF ReportsInv, HoldsReport
    <3>2. QED
      BY <1>1, <1>3, <3>1 DEF ReportsSession
  <2>3. report \in [ReportIds -> ReportRow \cup {NoRow}]
    BY DEF ReportsInv, ReportRows
  <2>4. PICK row \in ReportRow : row = report[i]
    BY <1>3, <2>2, <2>3
  <2>5. PICK late : late = [row EXCEPT !.archived = reason]
    OBVIOUS
  <2>6. /\ late \in ReportRow /\ late.key = row.key /\ late.intent = row.intent
        /\ late.archived = reason
    BY <1>3, <2>4, <2>5 DEF ReportRow
  <2>7. report'[i] = late /\ \A q \in ReportIds \ {i} : report'[q] = report[q]
    BY <1>3, <2>1, <2>3, <2>4, <2>5
  <2>8. late # NoRow
    BY <2>6, ReportFacts
  <2>9. PICK old, new : /\ old = [key |-> row.key, intent |-> row.intent, rows |-> saved[i],
                                  archived |-> row.archived]
                        /\ new = [key |-> row.key, intent |-> row.intent, rows |-> saved[i],
                                  archived |-> reason]
    OBVIOUS
  <2>10. KeptAs(i) = {old} /\ KeptAs(i)' = {new}
    BY <1>1, <2>2, <2>4, <2>6, <2>7, <2>8, <2>9 DEF KeptAs
  <2>11. \A q \in ReportIds \ {i} : KeptAs(q)' = KeptAs(q)
    BY <1>1, <2>7 DEF KeptAs
  <2>12. Saves[i] = {old} /\ Saves' = [Saves EXCEPT ![i] = {new}] /\ Saves'[i] = {new}
    BY <1>3, <2>10, <2>11 DEF Saves
  <2>13. [old EXCEPT !.archived = reason] = new /\ old.archived = NotArchived
    BY <2>2, <2>4, <2>9
  <2>14. Saves' # Saves
    <3>1. old.archived # new.archived
      BY <1>3, <2>9, <2>13, ReportFacts
    <3>2. QED
      BY <2>12, <3>1
  <2>15. Kept!Archive(i, reason)
    BY <1>1, <1>7, <2>12, <2>13 DEF Kept!Archive, Reads, Saves
  <2>16. QED
    BY <1>3, <2>14, <2>15 DEF Kept!Next, Saves
<1>10. QED
  BY <1>8, <1>9

LEMMA PostImplements ==
    ASSUME DeskInv, ReportsInv, NEW s \in Sessions, Post(s)
    PROVE  Kept!Next \/ ArchiveBar' = ArchiveBar
<1>1. cmd[s].op = "post" /\ Left(s) /\ report' = report /\ saved' = saved
  BY FinishLeaves DEF Post, At
<1>2. Others(s) /\ ~Reading(s) /\ ~Reading(s)'
  BY <1>1 DEF Left, Reading, At
<1>3. Reads' = Reads /\ Saves' = Saves
  BY <1>1, <1>2, ReadsSame, SavesSame DEF Others
<1>4. CASE figures' = figures
  BY <1>3, <1>4 DEF ArchiveBar
<1>5. CASE figures' # figures
  <2>1. Kept!Post
    BY <1>3 DEF Kept!Post, Reads, Saves
  <2>2. QED
    BY <1>5, <2>1 DEF Kept!Next
<1>6. QED
  BY <1>4, <1>5

LEMMA ReportsImplement ==
    ASSUME DeskInv, ReportsInv, NEW s \in Sessions, ReportsNext(s)
    PROVE  Kept!Next \/ ArchiveBar' = ArchiveBar
<1>1. Others(s)
  BY ReportsKeeps DEF Left, Went
<1>2. pc \in [Sessions -> DeskPhases]
  BY DEF DeskInv, DeskTypeOK
<1>3. CASE LockRequest(s) \/ FindPrevious(s)
  <2>1. UNCHANGED reportTables
    BY <1>3 DEF LockRequest, FindPrevious
  <2>2. pc'[s] \in {"list", "write", "answer"}
    BY <1>2, <1>3 DEF LockRequest, FindPrevious, Goto, Reply
  <2>3. ~Reading(s)'
    BY <2>2 DEF Reading, At
  <2>4. QED
    BY <1>1, <2>1, <2>3, AwayImplements
<1>4. CASE \/ LockReport(s) \/ FindEvent(s) \/ ReadReport(s) \/ VerifySnapshot(s)
           \/ CommitExport(s) \/ ReadDetail(s) \/ ReadTotals(s) \/ ReadPage(s)
           \/ ListReports(s)
  <2>1. UNCHANGED reportTables
    BY <1>4 DEF LockReport, FindEvent, ReadReport, VerifySnapshot, CommitExport, ReadDetail,
                ReadTotals, ReadPage, ListReports
  <2>2. cmd[s].op # "generate"
    BY <1>4 DEF LockReport, FindEvent, ReadReport, VerifySnapshot, CommitExport, ReadDetail,
                ReadTotals, ReadPage, ListReports, At
  <2>3. Left(s) \/ \E phase, view : Went(s, phase, view)
    BY ReportsKeeps
  <2>4. ~Reading(s)'
    BY <2>2, <2>3 DEF Left, Went, Reading, At
  <2>5. QED
    BY <1>1, <2>1, <2>4, AwayImplements
<1>5. CASE SendReport(s)
  <2>1. UNCHANGED reportTables /\ Left(s)
    BY <1>5, FinishLeaves DEF SendReport
  <2>2. ~Reading(s)'
    BY <2>1 DEF Left, Reading, At
  <2>3. QED
    BY <1>1, <2>1, <2>2, AwayImplements
<1>6. QED
  BY <1>3, <1>4, <1>5, SourceImplements, CommitImplements, ArchiveImplements, PostImplements
  DEF ReportsNext

\* A step of another service, or of the clock, is none of the archive's.
LEMMA OfficeImplements == IInv /\ [OfficeNext]_officeVars => [Kept!Next]_ArchiveBar
<1> SUFFICES ASSUME IInv, [OfficeNext]_officeVars
             PROVE  Kept!Next \/ ArchiveBar' = ArchiveBar
  OBVIOUS
<1>0. /\ DeskInv /\ AttendanceInv /\ StaffInv /\ StudentsInv /\ InventoryInv /\ TenantsInv
      /\ MessagesInv /\ CalendarInv /\ ReportsInv /\ BusGroup
  BY DEF IInv, BusGroup
<1>a. ASSUME NEW s \in Sessions, UNCHANGED reportTables, cmd[s].op \notin ReportOps,
             Left(s) \/ \E phase, view : Went(s, phase, view)
      PROVE  Kept!Next \/ ArchiveBar' = ArchiveBar
  <2>1. Others(s) /\ ~Reading(s)'
    BY <1>a DEF Left, Went, Reading, At, ReportOps
  <2>2. QED
    BY <1>0, <1>a, <2>1, AwayImplements
<1>c. ASSUME UNCHANGED desk, UNCHANGED reportTables
      PROVE  ArchiveBar' = ArchiveBar
  <2>1. \A t \in Sessions : Same(t)
    BY <1>c DEF desk, Same
  <2>2. Reads' = Reads
    BY <2>1, ReadsSame
  <2>3. Saves' = Saves /\ figures' = figures
    BY <1>c, SavesSame DEF reportTables
  <2>4. QED
    BY <2>2, <2>3 DEF ArchiveBar
<1>1. ASSUME NEW s \in Sessions, Receive(s) \/ RollBack(s), UNCHANGED reportTables
      PROVE  Kept!Next \/ ArchiveBar' = ArchiveBar
  <2>1. CASE Receive(s)
    <3>1. /\ DOMAIN cmd = Sessions /\ pc \in [Sessions -> DeskPhases]
          /\ \E c : cmd' = [cmd EXCEPT ![s] = c]
      BY <1>0, <2>1 DEF Receive, DeskInv, DeskTypeOK
    <3>2. pc'[s] = "start" /\ Others(s)
      BY <2>1, <3>1 DEF Receive, Others, Same
    <3>3. QED
      BY <1>0, <1>1, <3>2, AwayImplements DEF Reading, At
  <2>2. CASE RollBack(s)
    <3>1. Left(s)
      BY <1>0, <2>2, FinishLeaves DEF RollBack
    <3>2. Others(s) /\ ~Reading(s)'
      BY <3>1 DEF Left, Reading, At
    <3>3. QED
      BY <1>0, <1>1, <3>2, AwayImplements
  <2>3. QED
    BY <1>1, <2>1, <2>2
<1>2. ASSUME NEW s \in Sessions, UNCHANGED reportTables,
             \/ AttendanceNext(s) \/ StaffNext(s) \/ StudentsNext(s) \/ InventoryNext(s)
             \/ TenantsNext(s) \/ MessagesNext(s) \/ CalendarNext(s)
      PROVE  Kept!Next \/ ArchiveBar' = ArchiveBar
  <2>1. /\ cmd[s].op \in AttendanceOps \cup StaffOps \cup StudentOps \cup InventoryOps
                         \cup TenantsOps \cup MessageOps \cup CalendarOps
        /\ Left(s) \/ \E phase, view : Went(s, phase, view)
    <3>1. CASE AttendanceNext(s)
      BY <1>0, <3>1, AttendanceKeeps
    <3>2. CASE StaffNext(s)
      BY <1>0, <3>2, StaffKeeps
    <3>3. CASE StudentsNext(s)
      BY <1>0, <3>3, StudentsKeeps
    <3>4. CASE InventoryNext(s)
      BY <1>0, <3>4, InventoryKeeps
    <3>5. CASE TenantsNext(s)
      BY <1>0, <3>5, TenantsKeeps
    <3>6. CASE MessagesNext(s)
      BY <1>0, <3>6, MessagesKeeps
    <3>7. CASE CalendarNext(s)
      BY <1>0, <3>7, CalendarKeeps
    <3>8. QED
      BY <1>2, <3>1, <3>2, <3>3, <3>4, <3>5, <3>6, <3>7
  <2>2. cmd[s].op \notin ReportOps
    BY <2>1, ServicesApart
  <2>3. QED
    BY <1>a, <1>2, <2>1, <2>2
<1>3. ASSUME NEW s \in Sessions,
             UNCHANGED <<roll, staffTables, studentTables, asset, tenant, messageTables,
                         today, reportTables>>,
             \/ BusNext(s) /\ UNCHANGED <<fareTables, familyTables>>
             \/ FaresNext(s) /\ UNCHANGED familyTables
             \/ FamiliesNext(s) /\ UNCHANGED fareTables
      PROVE  Kept!Next \/ ArchiveBar' = ArchiveBar
  <2>1. Served(s)
    BY <1>0, <1>3, BusKeeps, FaresKeeps, FamiliesKeeps
  <2>2. /\ cmd[s].op \in FleetOps /\ UNCHANGED reportTables
        /\ Left(s) \/ \E phase, view : Went(s, phase, view)
    BY <1>3, <2>1 DEF Served
  <2>3. cmd[s].op \notin ReportOps
    BY <2>2, ServicesApart
  <2>4. QED
    BY <1>a, <2>2, <2>3
<1>4. ASSUME NEW s \in Sessions, ReportsNext(s)
      PROVE  Kept!Next \/ ArchiveBar' = ArchiveBar
  BY <1>0, <1>4, ReportsImplement
<1>5. CASE UNCHANGED officeVars
  <2>1. UNCHANGED desk /\ UNCHANGED reportTables
    BY <1>5 DEF officeVars
  <2>2. QED
    BY <1>c, <2>1
<1>6. CASE OfficeNext
  BY <1>1, <1>2, <1>3, <1>4, <1>c, <1>6 DEF OfficeNext
<1>7. QED
  BY <1>5, <1>6

\* However the calls of ReportService overlap, are retried, or are rolled back,
\* a report is what its source showed at one moment of its request, one is kept
\* for a request id, and after that it changes once, when it is archived.
THEOREM ReportsAreKept == OfficeSpec => ReportsKept
<1>1. OfficeInit => Kept!Init
  <2> SUFFICES ASSUME OfficeInit PROVE Kept!Init
    OBVIOUS
  <2>1. \A t \in Sessions : ~At(t, "generate", "commit")
    BY DEF OfficeInit, DeskInit, At
  <2>2. \A k \in RequestKeys : ReadFor(k) = {}
    BY <2>1 DEF ReadFor
  <2>3. \A r \in ReportIds : \A x \in KeptAs(r) : x.key = "none"
    <3>1. \A r \in ReportIds : report[r] # NoRow => report[r].key = "none"
      BY DEF OfficeInit, ReportsInit, Legacy
    <3>2. QED
      BY <3>1 DEF KeptAs
  <2>4. QED
    BY <2>2, <2>3 DEF Kept!Init
<1>2. IInv /\ [OfficeNext]_officeVars => [Kept!Next]_ArchiveBar
  BY OfficeImplements
<1>3. QED
  BY <1>1, <1>2, OfficeInvariance, PTL
     DEF OfficeSpec, ReportsKept, Kept!Spec, Kept!vars, ArchiveBar, Reads, Saves

=============================================================================
