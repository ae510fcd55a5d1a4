------------------------------- MODULE Inventory -------------------------------
(***************************************************************************)
(* InventoryService: assets and the movements of their stock.  A movement  *)
(* computes the new quantity from a copy it has read without a lock, so    *)
(* that one of two at the same time is lost although both are recorded.    *)
(***************************************************************************)
EXTENDS Desk, Integers

CONSTANTS Assets, Places, NoPlace,
          Price,                       \* the price an asset is created with, in
          Grain,                       \* parts of a paisa, Grain of them to one
          MaxStock                     \* quantity the instance keeps

MovementTypes == {"purchase", "returned", "issued", "damaged", "disposed", "transferred"}

AssetRow == [quantity: Nat, total_value: Nat, location: Places, active: BOOLEAN]

ASSUME InventoryAssumption ==
    /\ NoRow \notin AssetRow
    /\ Price \in [Assets -> Nat] /\ Grain \in Nat \ {0} /\ MaxStock \in Nat

\* what Numeric(12, 2) keeps of an amount: whole paisa, a half rounded up
Paisa(amount) == (2 * amount + Grain) \div (2 * Grain)

UnitPrice(a) == Paisa(Price[a])        \* no call changes it

AssetRequest == [op: {"asset"}, asset: Assets, quantity: Nat, location: Places]
EditRequest  == [op: {"edit"}, asset: Assets, active: BOOLEAN]
MoveRequest  == [op: {"move"}, asset: Assets, type: MovementTypes,
                 quantity: Nat \ {0}, location: Places \cup {NoPlace}]
StockRequest == [op: {"stock"}, threshold: Nat]

VARIABLE asset

InventoryInit == asset = [a \in Assets |-> NoRow]

InventoryTypeOK == asset \in [Assets -> AssetRow \cup {NoRow}]

\* the total is computed from the price as it was typed, and rounded by itself
CreateAsset(s) ==
    /\ At(s, "asset", "start")
    /\ LET c == cmd[s]
       IN  /\ asset[c.asset] = NoRow     \* every asset is a row of its own
           /\ asset' = [asset EXCEPT ![c.asset] =
                [quantity |-> c.quantity,
                 total_value |-> Paisa(c.quantity * Price[c.asset]),
                 location |-> c.location, active |-> TRUE]]
    /\ Finish(s)

\* get_asset: an inactive asset is found as well
ReadAsset(s) == /\ \E op \in {"edit", "move"} : At(s, op, "start")
                /\ IF asset[cmd[s].asset] # NoRow THEN Goto(s, "write", asset[cmd[s].asset])
                                                  ELSE Finish(s)
                /\ UNCHANGED asset

CommitEdit(s) == /\ At(s, "edit", "write")
                 /\ asset' = IF cmd[s].active = seen[s].active THEN asset
                             ELSE [asset EXCEPT ![cmd[s].asset].active = cmd[s].active]
                 /\ Finish(s)

\* mutant: more may be issued than there is
MovedBelowZero(quantity, c) ==
    CASE c.type \in {"purchase", "returned"} -> quantity + c.quantity
      [] c.type \in {"issued", "damaged", "disposed"} -> quantity - c.quantity
      [] OTHER -> quantity

Moved(quantity, c) ==
    CASE c.type \in {"purchase", "returned"} -> quantity + c.quantity
      [] c.type \in {"issued", "damaged", "disposed"} ->
             IF c.quantity > quantity THEN 0 ELSE quantity - c.quantity
      [] OTHER -> quantity

\* mutant: the value is left to the next movement that finds it out of date
NewValueStale(copy, c) == copy.quantity * UnitPrice(c.asset)

\* total_value follows the quantity the call has computed, at the stored price
NewValue(copy, c) == Moved(copy.quantity, c) * UnitPrice(c.asset)

CommitMovement(s) ==
    /\ At(s, "move", "write")
    /\ LET c == cmd[s]
           values == [seen[s] EXCEPT !.quantity = Moved(@, c),
                                     !.total_value = NewValue(seen[s], c),
                                     !.location = IF c.location = NoPlace THEN @ ELSE c.location]
       IN  /\ values.quantity <= MaxStock
           /\ asset' = [asset EXCEPT ![c.asset] =
                [f \in DOMAIN @ |-> IF values[f] = seen[s][f] THEN @[f] ELSE values[f]]]
    /\ Finish(s)

\* list_assets, get_low_stock: the active assets
ReadStock(s) == /\ At(s, "stock", "start")
                /\ Goto(s, "answer", [assets |->
                     {a \in Assets : /\ asset[a] # NoRow /\ asset[a].active
                                     /\ asset[a].quantity <= cmd[s].threshold}])
                /\ UNCHANGED asset

AnswerStock(s) == At(s, "stock", "answer") /\ Finish(s) /\ UNCHANGED asset

InventoryNext(s) ==
    \/ CreateAsset(s) \/ ReadAsset(s) \/ CommitEdit(s) \/ CommitMovement(s)
    \/ ReadStock(s) \/ AnswerStock(s)

-----------------------------------------------------------------------------
\* The price has no fraction of a paisa.  Nothing makes a client type such a
\* price: at 33.333 three pieces are stored as 33.33 each and 100.00 in all.
\* A movement that leaves their number alone then finds the total, and only
\* the total, to be written, over what another movement has stored meanwhile.
WholePaisa(a) == Price[a] % Grain = 0

\* The value of an asset with a price in whole paisa is that of the quantity
\* beside it, also after a movement was lost: both change in the same calls.
ValueFollowsStock ==
    \A a \in Assets : asset[a] # NoRow /\ WholePaisa(a) =>
        asset[a].total_value = asset[a].quantity * UnitPrice(a)

-----------------------------------------------------------------------------
(* The inductive invariant.                                                *)

InventorySession(s) ==
    At(s, "edit", "write") \/ At(s, "move", "write") =>
        /\ asset[cmd[s].asset] # NoRow /\ seen[s] \in AssetRow
        /\ WholePaisa(cmd[s].asset) =>
             seen[s].total_value = seen[s].quantity * UnitPrice(cmd[s].asset)

InventoryInv ==
    /\ InventoryTypeOK /\ ValueFollowsStock
    /\ \A s \in Sessions : InventorySession(s)
=============================================================================
