------------------------------- MODULE Registry -------------------------------
(***************************************************************************)
(* The machine tree (internal/store/plants.go, register_delete.go) and the *)
(* work that puts a machine into service (installation.go, with the        *)
(* handlers of cmms.go): factories, shop floors, machines, the orders that *)
(* name a machine by its tag, and what production is told of a machine.    *)
(*                                                                         *)
(* A floor and its factory are rows with an id, which is not given again.  *)
(* A machine is its tag, and a tag can be used again.  A foreign key holds *)
(* the tree together; an order names its machine by tag and declares       *)
(* nothing.  A request is the statements it has left.                      *)
(***************************************************************************)
EXTENDS Naturals, FiniteSets

CONSTANTS
    Plant, Section, Machine,
    PlantOf,        \* the factory a floor belongs to
    Orders,         \* what is to be raised: rows of mes_work_orders, by number
    Request,        \* requests in flight at the same time
    MaxRequests,    \* bound on the requests
    Gone            \* no row, or none any more

WOType == {"installation", "commissioning", "repair"}
ServiceState == {"none", "installing", "commissioning", "in_service"}
Row == [section : Section, plant : Plant, state : ServiceState]
Order == [machine : Machine, type : WOType, open : BOOLEAN, raised : BOOLEAN]

ASSUME RegistryAssumption ==
    /\ PlantOf \in [Section -> Plant]
    /\ Orders \subseteq Nat
    /\ MaxRequests \in Nat
    /\ Gone \notin Plant \cup Section \cup Row \cup Order

VARIABLES
    plants, sections,   \* "new", "there" or "gone"
    roster,     \* factories with rows in mes_shift_definitions
    staffed,    \* factories whose code technicians, logs or readings quote
    asset,      \* mes_assets by tag
    order,      \* mes_work_orders: machine, type, open, and what raised it
    told,       \* the floor production was last told a machine is on
    req,        \* the requests in flight
    begun,
    raced,      \* history: machines two requests about which overlapped
    untold,     \* history: machines a change of which was not announced
    named       \* history: machines a request named a factory for, not their floor's

tree == <<plants, sections, roster, staffed>>
vars == <<tree, asset, order, told, req, begun, raced, untold, named>>

Life == {"new", "there", "gone"}

\* What a request has left, after the statement it is at.
After == {"end", "look"}
Idle == [pc |-> "idle"]
Requests ==
    {Idle}
    \cup [pc : {"insertSection"}, section : Section]
    \cup [pc : {"dropRoster", "deletePlant"}, plant : Plant]
    \cup [pc : {"deleteSection"}, section : Section]
    \cup [pc : {"write"}, machine : Machine, row : Row]
    \cup [pc : {"count", "delete"}, machine : Machine]
    \cup [pc : {"insert", "mark", "after"}, machine : Machine, type : WOType]
    \cup [pc : {"merge"}, machine : Machine, set : ServiceState, then : After]
    \cup [pc : {"tell"}, machine : Machine, then : After]
    \cup [pc : {"publish"}, machine : Machine, floor : Section \cup {Gone}, then : After]
    \cup [pc : {"look", "raise"}, machine : Machine]

There(m) == asset[m] # Gone
At(r, pc) == req[r].pc = pc
Goes(r, q) == req' = [req EXCEPT ![r] = q]
Ends(r) == Goes(r, Idle)
Concerns(q, m) == q.pc \notin {"idle", "insertSection", "dropRoster", "deletePlant", "deleteSection"}
                    /\ q.machine = m
Floors(p) == {s \in Section : sections[s] = "there" /\ PlantOf[s] = p}
Machines(s) == {m \in Machine : There(m) /\ asset[m].section = s}
History(m) == {o \in Orders : order[o] # Gone /\ order[o].machine = m}

\* DeleteAsset holds the row: other writes of it wait.
Unlocked(m) == \A r \in Request : ~(req[r].pc \in {"count", "delete"} /\ Concerns(req[r], m))

\* The foreign keys of mes_assets.
Stands(row) == sections[row.section] = "there" /\ plants[row.plant] = "there"

RegistryInit ==
    /\ plants \in [Plant -> {"new", "there"}]
    /\ sections = [s \in Section |-> IF plants[PlantOf[s]] = "there" THEN "there" ELSE "new"]
    /\ roster = {p \in Plant : plants[p] = "there"}
    /\ staffed \in SUBSET roster
    /\ asset \in [Machine -> {Gone} \cup {[section |-> s, plant |-> PlantOf[s], state |-> "none"] :
                                         s \in {t \in Section : sections[t] = "there"}}]
    /\ order = [o \in Orders |-> Gone]
    /\ told = [m \in Machine |-> IF asset[m] = Gone THEN Gone ELSE asset[m].section]
    /\ req = [r \in Request |-> Idle]
    /\ begun = 0 /\ raced = {} /\ untold = {} /\ named = {}

--------------------------------------------------------------------------------
(* A request begins.                                                         *)

BeginNaming(r, q, news) ==
    /\ req[r] = Idle /\ begun < MaxRequests
    /\ begun' = begun + 1
    /\ Goes(r, q)
    /\ raced' = raced \cup {m \in Machine : Concerns(q, m) /\ \E b \in Request : Concerns(req[b], m)}
    /\ named' = named \cup news
    /\ UNCHANGED untold

Begin(r, q) == BeginNaming(r, q, {})

Continue == UNCHANGED <<begun, raced, untold, named>>

\* A request of one statement: it may come between the statements of others.
Between(m) ==
    /\ raced' = raced \cup {n \in {m} : \E b \in Request : Concerns(req[b], n)}
    /\ UNCHANGED <<req, begun, untold, named>>

--------------------------------------------------------------------------------
(* Factories and floors.                                                     *)

CreatePlant(p) ==
    /\ plants[p] = "new"
    /\ plants' = [plants EXCEPT ![p] = "there"]
    /\ UNCHANGED <<sections, roster, staffed, asset, order, told, req>> /\ Continue

\* The factory is read, and the floor inserted with its id.
CreateSection(r, s) ==
    /\ sections[s] = "new" /\ plants[PlantOf[s]] = "there"
    /\ Begin(r, [pc |-> "insertSection", section |-> s])
    /\ UNCHANGED <<tree, asset, order, told>>

InsertSection(r) ==
    /\ At(r, "insertSection") /\ Ends(r)
    /\ LET s == req[r].section IN
       sections' = IF sections[s] = "new" /\ plants[PlantOf[s]] = "there"
                   THEN [sections EXCEPT ![s] = "there"] ELSE sections
    /\ UNCHANGED <<plants, roster, staffed, asset, order, told>> /\ Continue

\* A factory without floors loses its roster, and then itself unless its code is quoted.
DeletePlant(r, p) ==
    /\ plants[p] = "there" /\ Floors(p) = {}
    /\ Begin(r, [pc |-> "dropRoster", plant |-> p])
    /\ UNCHANGED <<tree, asset, order, told>>

DropRoster(r) ==
    /\ At(r, "dropRoster")
    /\ roster' = roster \ {req[r].plant}
    /\ Goes(r, [pc |-> "deletePlant", plant |-> req[r].plant])
    /\ UNCHANGED <<plants, sections, staffed, asset, order, told>> /\ Continue

DeletePlantRow(r) ==
    /\ At(r, "deletePlant") /\ Ends(r)
    /\ LET p == req[r].plant
           referenced == Floors(p) # {} \/ \E m \in Machine : There(m) /\ asset[m].plant = p
       IN plants' = IF plants[p] = "there" /\ p \notin staffed /\ ~referenced
                    THEN [plants EXCEPT ![p] = "gone"] ELSE plants
    /\ UNCHANGED <<sections, roster, staffed, asset, order, told>> /\ Continue

\* The floor is looked up by code; then it is locked, counted on and deleted by id.
DeleteSection(r, s) ==
    /\ sections[s] = "there"
    /\ Begin(r, [pc |-> "deleteSection", section |-> s])
    /\ UNCHANGED <<tree, asset, order, told>>

DeleteSectionRow(r) ==
    /\ At(r, "deleteSection") /\ Ends(r)
    /\ LET s == req[r].section IN
       sections' = IF sections[s] = "there" /\ Machines(s) = {}
                   THEN [sections EXCEPT ![s] = "gone"] ELSE sections
    /\ UNCHANGED <<plants, roster, staffed, asset, order, told>> /\ Continue

--------------------------------------------------------------------------------
(* Machines.                                                                 *)

Tell(m, then) == [pc |-> "tell", machine |-> m, then |-> then]

\* The factory a request gives a machine on floor s; Gone is none, and that is the
\* floor's own.
Factory(s, p) == IF p = Gone THEN PlantOf[s] ELSE p
Astray(m, s, p) == {n \in {m} : Factory(s, p) # PlantOf[s]}

\* A slip: the floor's id goes into both columns.
CreateAssetMisfiled(r, m, s, p) ==
    /\ ~There(m) /\ sections[s] = "there"
    /\ asset' = [asset EXCEPT ![m] = [section |-> s, plant |-> s, state |-> "none"]]
    /\ Begin(r, Tell(m, "end"))
    /\ UNCHANGED <<tree, order, told>>

CreateAsset(r, m, s, p) ==
    LET row == [section |-> s, plant |-> Factory(s, p), state |-> "none"] IN
    /\ ~There(m) /\ Stands(row)
    /\ asset' = [asset EXCEPT ![m] = row]
    /\ BeginNaming(r, Tell(m, "end"), Astray(m, s, p))
    /\ UNCHANGED <<tree, order, told>>

Write(m, row) == [pc |-> "write", machine |-> m, row |-> row]

\* A slip: the machine moves, and the copy of its factory does not.
MoveKeepsPlant(r, m, s, p) ==
    /\ There(m) /\ sections[s] = "there" /\ s # asset[m].section
    /\ Begin(r, Write(m, [asset[m] EXCEPT !.section = s]))
    /\ UNCHANGED <<tree, asset, order, told>>

\* PatchAsset, which writes the row back whole: a move to another floor, whose factory
\* it takes and no other; or an edit in its place, like one of any other column, that
\* may name any factory.
PatchAsset(r, m, s, p) ==
    /\ There(m) /\ sections[s] = "there"
    /\ \/ /\ s # asset[m].section /\ Factory(s, p) = PlantOf[s]
          /\ Begin(r, Write(m, [asset[m] EXCEPT !.section = s, !.plant = PlantOf[s]]))
       \/ /\ s = asset[m].section
          /\ BeginNaming(r, Write(m, IF p = Gone THEN asset[m] ELSE [asset[m] EXCEPT !.plant = p]),
                         Astray(m, s, p))
    /\ UNCHANGED <<tree, asset, order, told>>

\* No row with the tag is no error until it is read back; a floor that is gone is.
WriteAsset(r) ==
    LET m == req[r].machine IN
    /\ At(r, "write") /\ Unlocked(m)
    /\ IF There(m) /\ Stands(req[r].row)
       THEN asset' = [asset EXCEPT ![m] = req[r].row] /\ Goes(r, Tell(m, "end"))
       ELSE UNCHANGED asset /\ Ends(r)
    /\ UNCHANGED <<tree, order, told>> /\ Continue

\* The row is locked until the transaction ends; the references are counted after that.
DeleteAsset(r, m) ==
    /\ There(m) /\ Unlocked(m)
    /\ Begin(r, [pc |-> "count", machine |-> m])
    /\ UNCHANGED <<tree, asset, order, told>>

CountHistory(r) ==
    /\ At(r, "count")
    /\ IF History(req[r].machine) = {} THEN Goes(r, [req[r] EXCEPT !.pc = "delete"]) ELSE Ends(r)
    /\ UNCHANGED <<tree, asset, order, told>> /\ Continue

\* A slip: nobody is told.
DeleteSilently(r) ==
    /\ At(r, "delete")
    /\ asset' = [asset EXCEPT ![req[r].machine] = Gone]
    /\ Ends(r)
    /\ UNCHANGED <<tree, order, told>> /\ Continue

DeleteAssetRow(r) ==
    /\ At(r, "delete")
    /\ asset' = [asset EXCEPT ![req[r].machine] = Gone]
    /\ Goes(r, [pc |-> "publish", machine |-> req[r].machine, floor |-> Gone, then |-> "end"])
    /\ UNCHANGED <<tree, order, told>> /\ Continue

\* What is left once the machine is announced.
Then(r) == IF req[r].then = "look" THEN [pc |-> "look", machine |-> req[r].machine] ELSE Idle

\* GetAssetByTag once more: what is announced is what the row is by now.
ReadBack(r) ==
    LET m == req[r].machine IN
    /\ At(r, "tell")
    /\ Goes(r, IF There(m)
               THEN [pc |-> "publish", machine |-> m, floor |-> asset[m].section, then |-> req[r].then]
               ELSE Then(r))
    /\ UNCHANGED <<tree, asset, order, told>> /\ Continue

\* publishAsset, in a transaction of its own; a failure is logged.
PublishAsset(r) ==
    /\ At(r, "publish")
    /\ \/ told' = [told EXCEPT ![req[r].machine] = req[r].floor] /\ UNCHANGED untold
       \/ untold' = untold \cup {req[r].machine} /\ UNCHANGED told
    /\ Goes(r, Then(r))
    /\ UNCHANGED <<tree, asset, order, begun, raced, named>>

--------------------------------------------------------------------------------
(* Work on a machine, and what it does to the machine.                       *)

\* A new order is for a machine its author has seen.
CreateWorkOrder(r, m, type) ==
    /\ There(m)
    /\ Begin(r, [pc |-> "insert", machine |-> m, type |-> type])
    /\ UNCHANGED <<tree, asset, order, told>>

\* The number after the highest there is.
IsNext(o) ==
    /\ \A p \in Orders : p >= o => order[p] = Gone
    /\ o - 1 \in Orders => order[o - 1] # Gone
New(o, m, type, raised) ==
    order' = [order EXCEPT ![o] = [machine |-> m, type |-> type, open |-> TRUE, raised |-> raised]]

InsertOrder(r, o) ==
    LET q == req[r] IN
    /\ At(r, "insert") /\ IsNext(o)
    /\ New(o, q.machine, q.type, FALSE)
    /\ Goes(r, [q EXCEPT !.pc = "mark"])
    /\ UNCHANGED <<tree, asset, told>> /\ Continue

Merge(m, state, then) == [pc |-> "merge", machine |-> m, set |-> state, then |-> then]

MarkInstallationStarted(r) ==
    LET q == req[r]
        state == IF q.type = "installation" THEN "installing" ELSE "commissioning"
        again == There(q.machine) /\ asset[q.machine].state = "in_service" /\ state = "commissioning"
    IN  /\ At(r, "mark")
        /\ Goes(r, IF q.type = "repair" \/ ~There(q.machine) \/ again THEN Idle
                   ELSE Merge(q.machine, state, "end"))
        /\ UNCHANGED <<tree, asset, order, told>> /\ Continue

\* mergeAssetAttrs: one UPDATE of the keys it names ("none" when serviceState is not
\* among them).  Its errors are dropped by every caller.
MergeAssetAttrs(r) ==
    LET q == req[r] IN
    /\ At(r, "merge") /\ Unlocked(q.machine)
    /\ IF There(q.machine)
       THEN /\ asset' = [asset EXCEPT ![q.machine].state = IF q.set = "none" THEN @ ELSE q.set]
            /\ Goes(r, Tell(q.machine, q.then))
       ELSE UNCHANGED asset /\ Goes(r, Then(r))
    /\ UNCHANGED <<tree, order, told>> /\ Continue

\* CompleteWorkOrder, or a PATCH to completed; the first does not ask for the status.
CompleteWorkOrder(r, o) ==
    /\ order[o] # Gone
    /\ order' = [order EXCEPT ![o].open = FALSE]
    /\ Begin(r, [pc |-> "after", machine |-> order[o].machine, type |-> order[o].type])
    /\ UNCHANGED <<tree, asset, told>>

\* afterInstallationWork: an installed machine is to be commissioned, and a commissioned
\* one is in service.
AfterInstallationWork(r) ==
    LET q == req[r]
        served == There(q.machine) /\ asset[q.machine].state = "in_service"
    IN  /\ At(r, "after")
        /\ Goes(r, IF q.type = "repair" \/ ~There(q.machine) THEN Idle
                   ELSE IF q.type = "commissioning" THEN Merge(q.machine, "in_service", "end")
                   ELSE Merge(q.machine, IF served THEN "none" ELSE "commissioning", "look"))
        /\ UNCHANGED <<tree, asset, order, told>> /\ Continue

Commissionings(m) == {o \in History(m) : order[o].type = "commissioning" /\ order[o].open}

\* A slip: any installation raises its commissioning.
LookNot(r) ==
    /\ At(r, "look")
    /\ Goes(r, [req[r] EXCEPT !.pc = "raise"])
    /\ UNCHANGED <<tree, asset, order, told>> /\ Continue

\* openWorkOrderOfType
OpenWorkOrderOfType(r) ==
    /\ At(r, "look")
    /\ IF Commissionings(req[r].machine) = {} THEN Goes(r, [req[r] EXCEPT !.pc = "raise"]) ELSE Ends(r)
    /\ UNCHANGED <<tree, asset, order, told>> /\ Continue

\* The tests come from the template for the machine's category: a machine must be there.
RaiseCommissioning(r, o) ==
    /\ At(r, "raise") /\ IsNext(o) /\ Ends(r)
    /\ IF There(req[r].machine) THEN New(o, req[r].machine, "commissioning", TRUE) ELSE UNCHANGED order
    /\ UNCHANGED <<tree, asset, told>> /\ Continue

Reopen(o) ==
    /\ order[o] # Gone /\ ~order[o].open
    /\ order' = [order EXCEPT ![o].open = TRUE]
    /\ Between(order[o].machine)
    /\ UNCHANGED <<tree, asset, told>>

DeleteWorkOrder(o) ==
    /\ order[o] # Gone
    /\ order' = [order EXCEPT ![o] = Gone]
    /\ Between(order[o].machine)
    /\ UNCHANGED <<tree, asset, told>>

\* A request ends before its time: a statement failed, its client left, the process ended.
Interrupt(r) ==
    /\ req[r] # Idle /\ Ends(r)
    /\ untold' = untold \cup {m \in Machine : Concerns(req[r], m) /\ req[r].pc \in {"tell", "publish"}}
    /\ UNCHANGED <<tree, asset, order, told, begun, raced, named>>

RegistryNext ==
    \/ \E p \in Plant : CreatePlant(p)
    \/ \E r \in Request :
          \/ \E s \in Section : CreateSection(r, s) \/ DeleteSection(r, s)
          \/ \E p \in Plant : DeletePlant(r, p)
          \/ \E m \in Machine :
                \/ \E s \in Section, p \in Plant \cup {Gone} :
                      CreateAsset(r, m, s, p) \/ PatchAsset(r, m, s, p)
                \/ DeleteAsset(r, m)
                \/ \E type \in WOType : CreateWorkOrder(r, m, type)
          \/ \E o \in Orders : CompleteWorkOrder(r, o) \/ InsertOrder(r, o) \/ RaiseCommissioning(r, o)
          \/ InsertSection(r) \/ DropRoster(r) \/ DeletePlantRow(r) \/ DeleteSectionRow(r)
          \/ WriteAsset(r) \/ CountHistory(r) \/ DeleteAssetRow(r)
          \/ ReadBack(r) \/ PublishAsset(r)
          \/ MarkInstallationStarted(r) \/ MergeAssetAttrs(r)
          \/ AfterInstallationWork(r) \/ OpenWorkOrderOfType(r)
          \/ Interrupt(r)
    \/ \E o \in Orders : Reopen(o) \/ DeleteWorkOrder(o)

RegistrySpec == RegistryInit /\ [][RegistryNext]_vars

--------------------------------------------------------------------------------
(* Properties.                                                               *)

RegistryTypeOK ==
    /\ plants \in [Plant -> Life] /\ sections \in [Section -> Life]
    /\ roster \subseteq Plant /\ staffed \subseteq Plant
    /\ asset \in [Machine -> Row \cup {Gone}]
    /\ order \in [Orders -> Order \cup {Gone}]
    /\ told \in [Machine -> Section \cup {Gone}]
    /\ req \in [Request -> Requests]
    /\ begun \in 0 .. MaxRequests
    /\ raced \subseteq Machine /\ untold \subseteq Machine /\ named \subseteq Machine

\* A floor is in a factory and a machine on a floor that exist.
TreeStands ==
    /\ \A s \in Section : sections[s] = "there" => plants[PlantOf[s]] = "there"
    /\ \A m \in Machine : There(m) => Stands(asset[m])

\* "plant_id is the denormalised copy, so the two are written together" (plants.go:569):
\* a machine's factory is that of its floor, unless a request ever named another one for
\* the machine; nothing else, a move or a row that comes back stale, tells the two apart.
PlantFollowsSection ==
    \A m \in Machine \ named : There(m) => asset[m].plant = PlantOf[asset[m].section]

\* Production's last word on a machine is true once its requests are done, unless two
\* overlapped or an announcement failed (plants.go:468, 731).
ToldTheTruth ==
    \A m \in Machine \ (raced \cup untold) :
        (\A r \in Request : ~Concerns(req[r], m)) =>
            told[m] = IF There(m) THEN asset[m].section ELSE Gone

\* "Lock the row so a concurrent write cannot attach history between the count below and
\* the DELETE" (plants.go:657): what DeleteAsset counted still holds when it deletes.
CountHolds == \A r \in Request : At(r, "delete") => History(req[r].machine) = {}

\* A completed installation raises a commissioning job only for a machine that has none
\* open, however often it is completed, as long as requests on the machine do not overlap
\* (installation.go:431-432).
OneCommissioningRaised ==
    [][\A o \in Orders :
          order[o] = Gone /\ order'[o] # Gone /\ order'[o].raised =>
              order'[o].machine \in raced' \/ Commissionings(order'[o].machine) = {}]_vars

================================================================================
