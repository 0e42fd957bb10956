-------------------------------- MODULE Yard --------------------------------
(***************************************************************************)
(* The yard of one company: domains/yard.  Zones hold slots; gate cameras  *)
(* check trucks and containers in, and dispatchers drag them between       *)
(* slots.  A slot's status column and the assets' slot_id say the same     *)
(* thing twice, and every request writes the two in separate statements:   *)
(* call[c].plan lists the statements a request has still to run.           *)
(***************************************************************************)
EXTENDS Naturals, Sequences, FiniteSets

CONSTANTS
  Plates, Containers,  \* identifiers the two kinds of camera read
  Assets,              \* ids of yard_assets rows
  MaxZones, MaxSlots,  \* bounds: zones and slots ever created
  NewKinds,            \* bound: kinds of the zones that dispatchers add
  DemoKinds,           \* kinds of the zones of the demonstration yard
  ZoneSize,            \* slots of a zone
  Calls,               \* requests that may be in flight together
  None

ASSUME YardAssumption ==
  /\ MaxZones \in Nat /\ MaxSlots \in Nat /\ ZoneSize \in Nat \ {0}
  /\ NewKinds \subseteq {"truck_parking", "teu_container", "other"}
  /\ DemoKinds \in Seq({"truck_parking", "teu_container", "other"})
  /\ Plates \cap Containers = {}
  /\ None \notin Plates \cup Containers \cup Assets

VARIABLES
  zone,   \* zone[z]: kind of the yard_zones row, "none" or "deleted"
  slot,   \* slot[s]: the yard_slots row; ids follow created_at
  asset,  \* asset[a]: the yard_assets row
  call,   \* call[c]: the request in flight
  outdated,  \* history: slots that a drop chosen on an outdated map has left wrong
  disturbed  \* history: a request ran while another was in flight, or one died

vars == <<zone, slot, asset, call, outdated, disturbed>>

Zones == 1 .. MaxZones
Slots == 1 .. MaxSlots
NoRow == 0  \* stands for a NULL zone or slot id
Idents == Plates \cup Containers
Kinds == {"truck_parking", "teu_container", "other"}

SlotRow == [status : {"none", "free", "occupied", "deleted"}, zone : Zones \cup {NoRow}]
AssetRow == [status : {"none", "in_yard", "gate_in"}, source : {"manual", "gate"},
             ident : Idents \cup {None}, slot : Slots \cup {NoRow}]
Statements == {"zone", "slot", "pick", "find", "free", "assign", "occupy"}
CallState == [plan   : Seq(Statements),
              kinds  : Seq(Kinds),              \* zones still to be created
              zone   : Zones \cup {NoRow},      \* the zone being filled with slots
              ident  : Idents \cup {None},      \* what the camera read
              asset  : Assets \cup {None},
              status : {"in_yard", "gate_in"},  \* status to store with the asset
              slot   : Slots \cup {NoRow},      \* the slot the asset is to get
              old    : Slots \cup {NoRow}]      \* the slot it leaves

IdleCall == [plan |-> <<>>, kinds |-> <<>>, zone |-> NoRow, ident |-> None, asset |-> None,
             status |-> "gate_in", slot |-> NoRow, old |-> NoRow]

\* Every row and every request in flight is in its range.
TypeOK ==
  /\ zone \in [Zones -> Kinds \cup {"none", "deleted"}]
  /\ slot \in [Slots -> SlotRow]
  /\ asset \in [Assets -> AssetRow]
  /\ call \in [Calls -> CallState]
  /\ outdated \subseteq Slots
  /\ disturbed \in BOOLEAN

Init ==
  /\ zone = [z \in Zones |-> "none"]
  /\ slot = [s \in Slots |-> [status |-> "none", zone |-> NoRow]]
  /\ asset = [a \in Assets |->
       [status |-> "none", source |-> "manual", ident |-> None, slot |-> NoRow]]
  /\ call = [c \in Calls |-> IdleCall]
  /\ outdated = {}
  /\ disturbed = FALSE

Idle(c) == call[c].plan = <<>>
Present == {a \in Assets : asset[a].status # "none"}
ZoneExists(z) == zone[z] \in Kinds
SlotExists(s) == slot[s].status \in {"free", "occupied"}
On(s) == {a \in Present : asset[a].slot = s}
NoZones == \A z \in Zones : ~ZoneExists(z)

\* The request c goes on as r, or ends when r has no statement left.
Continue(c, r) == call' = [call EXCEPT ![c] = IF r.plan = <<>> THEN IdleCall ELSE r]
Fail(c) == call' = [call EXCEPT ![c] = IdleCall]
Runs(c, statement) == ~Idle(c) /\ Head(call[c].plan) = statement

\* The request c with its next statement done.
Rest(c) == [call[c] EXCEPT !.plan = Tail(@)]

-----------------------------------------------------------------------------
(* Zones and slots.                                                        *)

\* seedDemoYard: one zone after the other.
SeedPlan == [i \in 1 .. Len(DemoKinds) |-> "zone"]

CreateZone(c, kind) ==
  /\ Idle(c)
  /\ Continue(c, [IdleCall EXCEPT !.plan = <<"zone">>, !.kinds = <<kind>>])
  /\ UNCHANGED <<zone, slot, asset, outdated>>

\* getLayout seeds an empty yard.
GetLayout(c) ==
  /\ Idle(c)
  /\ NoZones
  /\ Continue(c, [IdleCall EXCEPT !.plan = SeedPlan, !.kinds = DemoKinds])
  /\ UNCHANGED <<zone, slot, asset, outdated>>

\* The zone row, whose slots follow one by one.  Bound: MaxZones.
InsertZone(c, z) ==
  /\ Runs(c, "zone")
  /\ zone[z] = "none" /\ \A y \in Zones : y < z => zone[y] # "none"
  /\ zone' = [zone EXCEPT ![z] = Head(call[c].kinds)]
  /\ Continue(c, [Rest(c) EXCEPT !.plan = [i \in 1 .. ZoneSize |-> "slot"] \o @,
                                 !.kinds = Tail(@), !.zone = z])
  /\ UNCHANGED <<slot, asset, outdated>>

\* Mutant: a slot may be inserted into a zone that is gone.
InsertSlotNoKey(c, s) ==
  /\ Runs(c, "slot")
  /\ slot[s].status = "none" /\ \A t \in Slots : t < s => slot[t].status # "none"
  /\ slot' = [slot EXCEPT ![s] = [status |-> "free", zone |-> call[c].zone]]
  /\ Continue(c, Rest(c))
  /\ UNCHANGED <<zone, asset, outdated>>

\* A slot; its foreign key fails the request when the zone is gone.  Bound: MaxSlots.
InsertSlot(c, s) ==
  /\ Runs(c, "slot")
  /\ slot[s].status = "none" /\ \A t \in Slots : t < s => slot[t].status # "none"
  /\ IF ZoneExists(call[c].zone)
       THEN /\ slot' = [slot EXCEPT ![s] = [status |-> "free", zone |-> call[c].zone]]
            /\ Continue(c, Rest(c))
       ELSE Fail(c) /\ UNCHANGED slot
  /\ UNCHANGED <<zone, asset, outdated>>

\* Deleting a zone deletes its slots and clears the references to them.
DeleteZone(c, z) ==
  /\ Idle(c)
  /\ ZoneExists(z)
  /\ LET gone == {s \in Slots : SlotExists(s) /\ slot[s].zone = z}
     IN /\ slot' = [s \in Slots |-> IF s \in gone THEN [slot[s] EXCEPT !.status = "deleted"] ELSE slot[s]]
        /\ asset' = [a \in Assets |-> IF asset[a].slot \in gone THEN [asset[a] EXCEPT !.slot = NoRow] ELSE asset[a]]
  /\ zone' = [zone EXCEPT ![z] = "deleted"]
  /\ UNCHANGED <<call, outdated>>

-----------------------------------------------------------------------------
(* Assets.                                                                 *)

CreateAsset(c, a, ident) ==
  /\ Idle(c)
  /\ a \notin Present
  /\ asset' = [asset EXCEPT ![a] = [status |-> "in_yard", source |-> "manual", ident |-> ident, slot |-> NoRow]]
  /\ UNCHANGED <<zone, slot, call, outdated>>

\* gateCheckIn starts by counting zones, and seeds an empty yard.
GateRead(c, ident) ==
  /\ Idle(c)
  /\ LET demo == IF NoZones THEN DemoKinds ELSE <<>>
     IN Continue(c, [IdleCall EXCEPT !.ident = ident, !.kinds = demo,
                       !.plan = [i \in 1 .. Len(demo) |-> "zone"] \o <<"pick", "find">>])
  /\ UNCHANGED <<zone, slot, asset, outdated>>

ZoneKindFor(ident) == IF ident \in Plates THEN "truck_parking" ELSE "teu_container"

FreeSlots(kind) == {s \in Slots : slot[s].status = "free" /\ zone[slot[s].zone] = kind}

\* firstFreeSlot: the oldest free slot of the kind, or none.
PickSlot(c) ==
  /\ Runs(c, "pick")
  /\ LET free == FreeSlots(ZoneKindFor(call[c].ident))
         first == IF free = {} THEN NoRow ELSE CHOOSE s \in free : \A t \in free : s <= t
     IN Continue(c, [Rest(c) EXCEPT !.slot = first])
  /\ UNCHANGED <<zone, slot, asset, outdated>>

\* The statements that put the call's asset on its slot, given the slot it leaves.
Unless(skip, statement) == IF skip THEN <<>> ELSE <<statement>>

GatePlan(new, old) ==
  Unless(old = NoRow \/ old = new, "free") \o <<"assign">> \o Unless(new = NoRow, "occupy")
MovePlan(new, old) ==
  Unless(old = NoRow \/ old = new, "free") \o Unless(new = NoRow \/ old = new, "occupy") \o <<"assign">>

Known(ident) == {a \in Present : asset[a].ident = ident}

\* findAssetByIdentifier: any asset of that identifier, or a new one to create.
FindByIdentifier(c, a) ==
  /\ Runs(c, "find") /\ call[c].ident # None
  /\ IF Known(call[c].ident) = {} THEN a = None ELSE a \in Known(call[c].ident)
  /\ LET old == IF a = None THEN NoRow ELSE asset[a].slot
     IN Continue(c, [call[c] EXCEPT !.asset = a, !.old = old, !.plan = GatePlan(call[c].slot, old)])
  /\ UNCHANGED <<zone, slot, asset, outdated>>

\* Where a drop of a on s goes wrong because others stand there or the slot is gone:
\* in one case s gets a second asset; in the other the slot that a leaves is freed,
\* and a, whose foreign key refuses s, stays on it.
Outdated(a, s) ==
  IF s \in Slots /\ ~SlotExists(s) THEN {asset[a].slot} \cap Slots
  ELSE {t \in Slots : t = s /\ On(t) \ {a} # {}}

\* A dispatcher drops an asset on a slot, or off the slots.  The map shows the slots as
\* they were when the browser last got them, each of them free once, and the server
\* does not look at the slot again.
DropAsset(c, a, s) ==
  /\ Idle(c)
  /\ a \in Present
  /\ s # NoRow => slot[s].status # "none"
  /\ outdated' = outdated \cup Outdated(a, s)
  /\ Continue(c, [IdleCall EXCEPT !.plan = <<"find">>, !.asset = a, !.slot = s])
  /\ UNCHANGED <<zone, slot, asset>>

\* Mutant: the old slot is not remembered, so nothing frees it.
FindAssetForgets(c) ==
  /\ Runs(c, "find") /\ call[c].ident = None
  /\ Continue(c, [call[c] EXCEPT !.status = asset[call[c].asset].status,
                                 !.plan = MovePlan(call[c].slot, NoRow)])
  /\ UNCHANGED <<zone, slot, asset, outdated>>

\* Mutant: every move stores the status of an asset that no camera read.
FindAssetInYard(c) ==
  /\ Runs(c, "find") /\ call[c].ident = None
  /\ LET row == asset[call[c].asset]
     IN Continue(c, [call[c] EXCEPT !.old = row.slot, !.status = "in_yard",
                                    !.plan = MovePlan(call[c].slot, row.slot)])
  /\ UNCHANGED <<zone, slot, asset, outdated>>

\* moveAsset reads the asset, with the slot it will leave and the status it will store.
FindAsset(c) ==
  /\ Runs(c, "find") /\ call[c].ident = None
  /\ LET row == asset[call[c].asset]
     IN Continue(c, [call[c] EXCEPT !.old = row.slot, !.status = row.status,
                                    !.plan = MovePlan(call[c].slot, row.slot)])
  /\ UNCHANGED <<zone, slot, asset, outdated>>

\* setSlotStatus: no row is updated when the slot is gone.
SetSlotStatus(s, status) ==
  slot' = IF SlotExists(s) THEN [slot EXCEPT ![s].status = status] ELSE slot

FreeSlot(c) ==
  /\ Runs(c, "free")
  /\ SetSlotStatus(call[c].old, "free")
  /\ Continue(c, Rest(c))
  /\ UNCHANGED <<zone, asset, outdated>>

OccupySlot(c) ==
  /\ Runs(c, "occupy")
  /\ SetSlotStatus(call[c].slot, "occupied")
  /\ Continue(c, Rest(c))
  /\ UNCHANGED <<zone, asset, outdated>>

\* The asset's foreign key: it may refer to no slot or to one that exists.
KeyHolds(s) == s = NoRow \/ SlotExists(s)

\* updateAsset, or createAsset for a read that found none.  Bound: Assets.
AssignSlot(c, a) ==
  /\ Runs(c, "assign")
  /\ IF call[c].asset = None THEN a \notin Present ELSE a = call[c].asset
  /\ IF KeyHolds(call[c].slot)
       THEN /\ asset' = [asset EXCEPT ![a] =
                 IF call[c].asset = None
                   THEN [status |-> "gate_in", source |-> "gate", ident |-> call[c].ident, slot |-> call[c].slot]
                   ELSE [@ EXCEPT !.status = call[c].status, !.slot = call[c].slot]]
            /\ Continue(c, Rest(c))
       ELSE Fail(c) /\ UNCHANGED asset
  /\ UNCHANGED <<zone, slot, outdated>>

\* A request dies between two statements.
CallFails(c) ==
  /\ ~Idle(c)
  /\ Fail(c)
  /\ UNCHANGED <<zone, slot, asset, outdated>>

-----------------------------------------------------------------------------
ZoneOps(c) ==
  \/ \E kind \in NewKinds : CreateZone(c, kind)
  \/ GetLayout(c)
  \/ \E z \in Zones : InsertZone(c, z) \/ DeleteZone(c, z)
  \/ \E s \in Slots : InsertSlot(c, s)

AssetOps(c) ==
  \/ \E a \in Assets, ident \in Idents \cup {None} : CreateAsset(c, a, ident)
  \/ \E ident \in Idents : GateRead(c, ident)
  \/ PickSlot(c)
  \/ \E a \in Assets \cup {None} : FindByIdentifier(c, a)
  \/ \E a \in Assets, s \in Slots \cup {NoRow} : DropAsset(c, a, s)
  \/ FindAsset(c)
  \/ FreeSlot(c)
  \/ OccupySlot(c)
  \/ \E a \in Assets : AssignSlot(c, a)

Others(c) == \E d \in Calls \ {c} : ~Idle(d)

Next == \E c \in Calls :
  \/ (ZoneOps(c) \/ AssetOps(c)) /\ disturbed' = (disturbed \/ Others(c))
  \/ CallFails(c) /\ disturbed' = TRUE

Spec == Init /\ [][Next]_vars

-----------------------------------------------------------------------------
(* Properties                                                              *)

Quiet == \A c \in Calls : Idle(c)

\* Zones deleted while slots are inserted and assets assigned leave no slot
\* without its zone and no asset on a slot that is gone.
NoDanglingReference ==
  /\ \A s \in Slots : SlotExists(s) => ZoneExists(slot[s].zone)
  /\ \A a \in Present : asset[a].slot # NoRow => SlotExists(asset[a].slot)

\* gate.controller.ts: a read assigns its asset to a free slot.  Two assets share a
\* slot only after two requests have overlapped or one died, or where one of them
\* was dropped by an outdated map.
SharedOnlyByRace == ~disturbed => \A s \in Slots \ outdated : Cardinality(On(s)) <= 1

\* The comment of moveAsset: slots are marked occupied and free.  Once no request
\* runs, and none has overlapped another or died, a slot is marked occupied
\* exactly when an asset is on it, unless a drop by an outdated map left it wrong:
\* what goes wrong there does not spread to the slots its assets come from and go to.
SlotMirrorsAssets ==
  Quiet /\ ~disturbed =>
    \A s \in Slots \ outdated : SlotExists(s) => (slot[s].status = "occupied" <=> On(s) # {})

\* The yard's specification: a truck that returns is not duplicated.  Unless
\* requests have overlapped, the gate has created one asset of an identifier at most.
OneGateAsset ==
  ~disturbed => \A ident \in Idents : Cardinality({a \in Present : asset[a].ident = ident /\ asset[a].source = "gate"}) <= 1

\* The comment of gateCheckIn: a read marks its asset gate_in, which the map
\* shows.  Unless requests have overlapped, none takes that mark back.
CheckInKept ==
  [][~disturbed' => \A a \in Assets : asset[a].status = "gate_in" => asset'[a].status = "gate_in"]_vars

\* Rows and plans are in their ranges and refer to rows that are there.
ReferencesSound == TypeOK /\ NoDanglingReference

\* The occupancy is stored twice, on slots and on assets, and the gate is read
\* again and again: both agree, one asset stands on a slot, each vehicle is one
\* asset, unless requests have overlapped or one has died, and but for the slots
\* that a drop by an outdated map has left wrong.
ParkingSound == SharedOnlyByRace /\ SlotMirrorsAssets /\ OneGateAsset

=============================================================================
