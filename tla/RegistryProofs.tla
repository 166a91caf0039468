---------------------------- MODULE RegistryProofs ----------------------------
(***************************************************************************)
(* For any factories, floors, machines, orders and overlapping requests:   *)
(* the tree stands, a machine's factory is that of its floor unless        *)
(* another was named for it, a machine nobody races about is given one     *)
(* commissioning job at a time, and what production was last told of it is *)
(* true.                                                                   *)
(***************************************************************************)
EXTENDS Registry, TLAPS

\* The row an edit is about to write back, however stale, agrees with itself, unless a
\* request ever named another factory for its machine.
WritesFollow == \A r \in Request : At(r, "write") /\ req[r].machine \notin named =>
                    req[r].row.plant = PlantOf[req[r].row.section]

\* A machine is registered, or edited, on some floor with some factory named or none.
Creates(r, m) == \E s \in Section, p \in Plant \cup {Gone} : CreateAsset(r, m, s, p)
Patches(r, m) == \E s \in Section, p \in Plant \cup {Gone} : PatchAsset(r, m, s, p)
Rows(r, m) == Creates(r, m) \/ Patches(r, m)

--------------------------------------------------------------------------------
(* Requests.                                                                 *)

LEMMA Fields ==
    ASSUME NEW q \in Requests
    PROVE  /\ q.pc \in {"insertSection", "deleteSection"} => q.section \in Section
           /\ q.pc \in {"dropRoster", "deletePlant"} => q.plant \in Plant
           /\ q.pc \in {"write", "count", "delete", "insert", "mark", "after", "merge", "tell",
                        "publish", "look", "raise"} => q.machine \in Machine
           /\ q.pc = "write" => q.row \in Row
           /\ q.pc \in {"insert", "mark", "after"} => q.type \in WOType
           /\ q.pc = "merge" => q.set \in ServiceState
           /\ q.pc \in {"merge", "tell", "publish"} => q.then \in After
           /\ q.pc = "publish" => q.floor \in Section \cup {Gone}
  BY DEF Requests, Idle

\* The same request, one statement on.
LEMMA Moves ==
    ASSUME NEW q \in Requests
    PROVE  /\ q.pc = "count" => [q EXCEPT !.pc = "delete"] \in Requests
           /\ q.pc = "insert" => [q EXCEPT !.pc = "mark"] \in Requests
           /\ q.pc = "look" => [q EXCEPT !.pc = "raise"] \in Requests
  BY DEF Requests, Idle

LEMMA GoesTyped ==
    ASSUME RegistryTypeOK, NEW r \in Request, NEW q \in Requests, Goes(r, q)
    PROVE  req' \in [Request -> Requests]
  BY DEF RegistryTypeOK, Goes

LEMMA NamingTyped ==
    ASSUME RegistryTypeOK, NEW r \in Request, NEW q \in Requests, NEW news \in SUBSET Machine,
           BeginNaming(r, q, news)
    PROVE  /\ req' \in [Request -> Requests] /\ begun' \in 0 .. MaxRequests
           /\ raced' \subseteq Machine /\ untold' \subseteq Machine /\ named' \subseteq Machine
  BY GoesTyped, RegistryAssumption DEF RegistryTypeOK, BeginNaming

LEMMA BeginTyped ==
    ASSUME RegistryTypeOK, NEW r \in Request, NEW q \in Requests, Begin(r, q)
    PROVE  /\ req' \in [Request -> Requests] /\ begun' \in 0 .. MaxRequests
           /\ raced' \subseteq Machine /\ untold' \subseteq Machine /\ named' \subseteq Machine
  BY NamingTyped DEF Begin

\* What an edit is about to write: the row as it was read, on its floor or another.
LEMMA Edits ==
    ASSUME RegistryTypeOK, NEW r \in Request, NEW m \in Machine, Patches(r, m)
    PROVE  \E row \in Row, news \in SUBSET {m} :
               /\ There(m) /\ BeginNaming(r, Write(m, row), news)
               /\ news = {} => \/ row.section = asset[m].section /\ row.plant = asset[m].plant
                               \/ row.plant = PlantOf[row.section]
<1>1. PICK s \in Section, p \in Plant \cup {Gone} : PatchAsset(r, m, s, p)
  BY DEF Patches
<1>2. asset[m] \in Row /\ There(m)
  BY <1>1 DEF PatchAsset, There, RegistryTypeOK
<1>3. CASE Begin(r, Write(m, [asset[m] EXCEPT !.section = s, !.plant = PlantOf[s]]))
  <2> DEFINE row == [asset[m] EXCEPT !.section = s, !.plant = PlantOf[s]]
  <2>1. row \in Row /\ row.plant = PlantOf[row.section]
    BY <1>2, RegistryAssumption DEF Row
  <2>2. BeginNaming(r, Write(m, row), {})
    BY <1>3 DEF Begin
  <2> HIDE DEF row
  <2> QED  BY <1>2, <2>1, <2>2
<1>4. CASE /\ s = asset[m].section
           /\ BeginNaming(r, Write(m, IF p = Gone THEN asset[m] ELSE [asset[m] EXCEPT !.plant = p]),
                          Astray(m, s, p))
  <2> DEFINE row == IF p = Gone THEN asset[m] ELSE [asset[m] EXCEPT !.plant = p]
  <2>1. row \in Row /\ row.section = s
    BY <1>2, <1>4 DEF Row
  <2>2. p = Gone => row.plant = asset[m].plant
    OBVIOUS
  <2>3. p # Gone => row.plant = p
    BY <1>2 DEF Row
  <2>4. Astray(m, s, p) = {} => p = Gone \/ p = PlantOf[s]
    BY DEF Astray, Factory
  <2>5. Astray(m, s, p) \in SUBSET {m}
    BY DEF Astray
  <2>6. BeginNaming(r, Write(m, row), Astray(m, s, p))
    BY <1>4
  <2> HIDE DEF row
  <2> QED  BY <1>2, <1>4, <2>1, <2>2, <2>3, <2>4, <2>5, <2>6
<1> QED  BY <1>1, <1>3, <1>4 DEF PatchAsset

\* What a new machine is.
LEMMA Registers ==
    ASSUME RegistryTypeOK, NEW r \in Request, NEW m \in Machine, Creates(r, m)
    PROVE  \E row \in Row, news \in SUBSET {m} :
               /\ Stands(row) /\ asset' = [asset EXCEPT ![m] = row]
               /\ BeginNaming(r, Tell(m, "end"), news)
               /\ news = {} => row.plant = PlantOf[row.section]
               /\ UNCHANGED <<tree, order, told>>
<1>1. PICK s \in Section, p \in Plant \cup {Gone} : CreateAsset(r, m, s, p)
  BY DEF Creates
<1> DEFINE row == [section |-> s, plant |-> Factory(s, p), state |-> "none"]
<1>2. row \in Row
  BY RegistryAssumption DEF Row, ServiceState, Factory
<1>3. Astray(m, s, p) \in SUBSET {m} /\ (Astray(m, s, p) = {} => row.plant = PlantOf[row.section])
  BY DEF Astray
<1>4. /\ Stands(row) /\ asset' = [asset EXCEPT ![m] = row]
      /\ BeginNaming(r, Tell(m, "end"), Astray(m, s, p))
      /\ UNCHANGED <<tree, order, told>>
  BY <1>1 DEF CreateAsset
<1> HIDE DEF row
<1> QED  BY <1>2, <1>3, <1>4

LEMMA ThenTyped ==
    ASSUME RegistryTypeOK, NEW r \in Request, req[r].pc \in {"merge", "tell", "publish"}
    PROVE  Then(r) \in Requests
<1>1. req[r] \in Requests
  BY DEF RegistryTypeOK
<1>2. req[r].machine \in Machine
  BY <1>1, Fields
<1> QED  BY <1>2 DEF Then, Requests

--------------------------------------------------------------------------------
(* Types.                                                                    *)

LEMMA InitTyped == RegistryInit => RegistryTypeOK
<1> SUFFICES ASSUME RegistryInit PROVE RegistryTypeOK
  OBVIOUS
<1>1. plants \in [Plant -> Life] /\ sections \in [Section -> Life]
  BY RegistryAssumption DEF RegistryInit, Life
<1>2. asset \in [Machine -> Row \cup {Gone}]
  <2>1. \A s \in Section : [section |-> s, plant |-> PlantOf[s], state |-> "none"] \in Row
    BY RegistryAssumption DEF Row, ServiceState
  <2> QED  BY <2>1 DEF RegistryInit
<1>3. told \in [Machine -> Section \cup {Gone}]
  BY <1>2 DEF RegistryInit, Row
<1>4. req \in [Request -> Requests]
  BY DEF RegistryInit, Requests
<1> QED  BY <1>1, <1>2, <1>3, <1>4, RegistryAssumption DEF RegistryInit, RegistryTypeOK

LEMMA TreeTyped ==
    ASSUME RegistryTypeOK, NEW r \in Request,
           \/ \E s \in Section : CreateSection(r, s) \/ DeleteSection(r, s)
           \/ \E p \in Plant : DeletePlant(r, p)
           \/ InsertSection(r) \/ DropRoster(r) \/ DeletePlantRow(r) \/ DeleteSectionRow(r)
    PROVE  RegistryTypeOK'
<1>0. req[r] \in Requests
  BY DEF RegistryTypeOK
<1>k. /\ Idle \in Requests
      /\ \A s \in Section : /\ [pc |-> "insertSection", section |-> s] \in Requests
                            /\ [pc |-> "deleteSection", section |-> s] \in Requests
      /\ \A p \in Plant : /\ [pc |-> "dropRoster", plant |-> p] \in Requests
                          /\ [pc |-> "deletePlant", plant |-> p] \in Requests
  BY DEF Requests
<1>1. ASSUME NEW s \in Section, CreateSection(r, s) PROVE RegistryTypeOK'
  BY <1>k, <1>1, BeginTyped DEF CreateSection, RegistryTypeOK, tree
<1>2. ASSUME NEW s \in Section, DeleteSection(r, s) PROVE RegistryTypeOK'
  BY <1>k, <1>2, BeginTyped DEF DeleteSection, RegistryTypeOK, tree
<1>3. ASSUME NEW p \in Plant, DeletePlant(r, p) PROVE RegistryTypeOK'
  BY <1>k, <1>3, BeginTyped DEF DeletePlant, RegistryTypeOK, tree
<1>4. CASE InsertSection(r)
  BY <1>0, <1>k, <1>4, Fields, GoesTyped DEF InsertSection, At, Ends, Continue, RegistryTypeOK, Life
<1>5. CASE DropRoster(r)
  BY <1>0, <1>k, <1>5, Fields, GoesTyped DEF DropRoster, At, Continue, RegistryTypeOK
<1>6. CASE DeletePlantRow(r)
  BY <1>0, <1>k, <1>6, Fields, GoesTyped DEF DeletePlantRow, At, Ends, Continue, RegistryTypeOK, Life
<1>7. CASE DeleteSectionRow(r)
  BY <1>0, <1>k, <1>7, Fields, GoesTyped DEF DeleteSectionRow, At, Ends, Continue, RegistryTypeOK, Life
<1> QED  BY <1>1, <1>2, <1>3, <1>4, <1>5, <1>6, <1>7

\* A state of service is set on a row.
LEMMA StateTyped ==
    ASSUME NEW row \in Row, NEW state \in ServiceState
    PROVE  [row EXCEPT !.state = state] \in Row
  BY DEF Row

LEMMA MachineTyped ==
    ASSUME RegistryTypeOK, NEW r \in Request,
           \/ \E m \in Machine : \/ Rows(r, m)
                                \/ DeleteAsset(r, m)
           \/ WriteAsset(r) \/ CountHistory(r) \/ DeleteAssetRow(r) \/ ReadBack(r) \/ PublishAsset(r)
    PROVE  RegistryTypeOK'
<1>0. req[r] \in Requests /\ Idle \in Requests
  BY DEF RegistryTypeOK, Requests
<1>1. ASSUME NEW m \in Machine, Creates(r, m) PROVE RegistryTypeOK'
  <2>1. PICK row \in Row, news \in SUBSET {m} :
               /\ Stands(row) /\ asset' = [asset EXCEPT ![m] = row]
               /\ BeginNaming(r, Tell(m, "end"), news)
               /\ UNCHANGED <<tree, order, told>>
    BY <1>1, Registers
  <2>2. Tell(m, "end") \in Requests
    BY DEF Tell, Requests, After
  <2>3. asset' \in [Machine -> Row \cup {Gone}]
    BY <2>1 DEF RegistryTypeOK
  <2> QED  BY <2>1, <2>2, <2>3, NamingTyped DEF RegistryTypeOK, tree
<1>2. ASSUME NEW m \in Machine, Patches(r, m) PROVE RegistryTypeOK'
  <2>1. PICK row \in Row, news \in SUBSET {m} : BeginNaming(r, Write(m, row), news)
    BY <1>2, Edits
  <2>2. Write(m, row) \in Requests
    BY DEF Write, Requests
  <2>3. UNCHANGED <<tree, asset, order, told>>
    BY <1>2 DEF Patches, PatchAsset
  <2> QED  BY <2>1, <2>2, <2>3, NamingTyped DEF RegistryTypeOK, tree
<1>3. ASSUME NEW m \in Machine, DeleteAsset(r, m) PROVE RegistryTypeOK'
  <2>1. [pc |-> "count", machine |-> m] \in Requests
    BY DEF Requests
  <2> QED  BY <1>3, <2>1, BeginTyped DEF DeleteAsset, RegistryTypeOK, tree
<1>4. CASE WriteAsset(r)
  <2>1. req[r].machine \in Machine /\ req[r].row \in Row
    BY <1>0, <1>4, Fields DEF WriteAsset, At
  <2>2. Tell(req[r].machine, "end") \in Requests
    BY <2>1 DEF Tell, After, Requests
  <2>3. req' \in [Request -> Requests]
    BY <1>0, <1>4, <2>2, GoesTyped DEF WriteAsset, Ends
  <2>4. asset' \in [Machine -> Row \cup {Gone}]
    BY <1>4, <2>1 DEF WriteAsset, RegistryTypeOK
  <2> QED  BY <1>4, <2>3, <2>4 DEF WriteAsset, RegistryTypeOK, tree, Continue
<1>5. CASE CountHistory(r)
  <2>1. [req[r] EXCEPT !.pc = "delete"] \in Requests
    BY <1>0, <1>5, Moves DEF CountHistory, At
  <2>2. req' \in [Request -> Requests]
    BY <1>0, <1>5, <2>1, GoesTyped DEF CountHistory, Ends
  <2> QED  BY <1>5, <2>2 DEF CountHistory, RegistryTypeOK, tree, Continue
<1>6. CASE DeleteAssetRow(r)
  <2>1. req[r].machine \in Machine
    BY <1>0, <1>6, Fields DEF DeleteAssetRow, At
  <2>2. [pc |-> "publish", machine |-> req[r].machine, floor |-> Gone, then |-> "end"] \in Requests
    BY <2>1 DEF Requests, After
  <2>3. req' \in [Request -> Requests]
    BY <1>6, <2>2, GoesTyped DEF DeleteAssetRow
  <2> QED  BY <1>6, <2>1, <2>3 DEF DeleteAssetRow, RegistryTypeOK, tree, Continue
<1>7. CASE ReadBack(r)
  <2>1. req[r].machine \in Machine /\ req[r].then \in After /\ Then(r) \in Requests
    BY <1>0, <1>7, Fields, ThenTyped DEF ReadBack, At
  <2>2. There(req[r].machine) => asset[req[r].machine].section \in Section
    BY <2>1 DEF There, RegistryTypeOK, Row
  <2>3. There(req[r].machine) => [pc |-> "publish", machine |-> req[r].machine,
            floor |-> asset[req[r].machine].section, then |-> req[r].then] \in Requests
    BY <2>1, <2>2 DEF Requests
  <2>4. req' \in [Request -> Requests]
    BY <1>7, <2>1, <2>3, GoesTyped DEF ReadBack
  <2> QED  BY <1>7, <2>4 DEF ReadBack, RegistryTypeOK, tree, Continue
<1>8. CASE PublishAsset(r)
  <2>1. req[r].machine \in Machine /\ req[r].floor \in Section \cup {Gone} /\ Then(r) \in Requests
    BY <1>0, <1>8, Fields, ThenTyped DEF PublishAsset, At
  <2>2. req' \in [Request -> Requests]
    BY <1>8, <2>1, GoesTyped DEF PublishAsset
  <2> QED  BY <1>8, <2>1, <2>2 DEF PublishAsset, RegistryTypeOK, tree
<1> QED  BY <1>1, <1>2, <1>3, <1>4, <1>5, <1>6, <1>7, <1>8 DEF Rows

LEMMA WorkTyped ==
    ASSUME RegistryTypeOK, NEW r \in Request,
           \/ \E m \in Machine, type \in WOType : CreateWorkOrder(r, m, type)
           \/ \E o \in Orders : CompleteWorkOrder(r, o) \/ InsertOrder(r, o) \/ RaiseCommissioning(r, o)
           \/ MarkInstallationStarted(r) \/ MergeAssetAttrs(r) \/ AfterInstallationWork(r)
           \/ OpenWorkOrderOfType(r) \/ Interrupt(r)
    PROVE  RegistryTypeOK'
<1>0. req[r] \in Requests /\ Idle \in Requests
  BY DEF RegistryTypeOK, Requests
<1>1. ASSUME NEW m \in Machine, NEW type \in WOType, CreateWorkOrder(r, m, type) PROVE RegistryTypeOK'
  <2>1. [pc |-> "insert", machine |-> m, type |-> type] \in Requests
    BY DEF Requests
  <2> QED  BY <1>1, <2>1, BeginTyped DEF CreateWorkOrder, RegistryTypeOK, tree
<1>2. ASSUME NEW o \in Orders, CompleteWorkOrder(r, o) PROVE RegistryTypeOK'
  <2>1. order[o] \in Order
    BY <1>2 DEF CompleteWorkOrder, RegistryTypeOK
  <2>2. /\ [order[o] EXCEPT !.open = FALSE] \in Order
        /\ [pc |-> "after", machine |-> order[o].machine, type |-> order[o].type] \in Requests
    BY <2>1 DEF Order, Requests
  <2>3. order' \in [Orders -> Order \cup {Gone}]
    BY <1>2, <2>2 DEF CompleteWorkOrder, RegistryTypeOK
  <2> QED  BY <1>2, <2>2, <2>3, BeginTyped DEF CompleteWorkOrder, RegistryTypeOK, tree
<1>3. ASSUME NEW o \in Orders, InsertOrder(r, o) PROVE RegistryTypeOK'
  <2>1. req[r].machine \in Machine /\ req[r].type \in WOType
    BY <1>0, <1>3, Fields DEF InsertOrder, At
  <2>2. [req[r] EXCEPT !.pc = "mark"] \in Requests
    BY <1>0, <1>3, Moves DEF InsertOrder, At
  <2>3. order' \in [Orders -> Order \cup {Gone}]
    BY <1>3, <2>1 DEF InsertOrder, New, RegistryTypeOK, Order
  <2>4. req' \in [Request -> Requests]
    BY <1>3, <2>2, GoesTyped DEF InsertOrder
  <2> QED  BY <1>3, <2>3, <2>4 DEF InsertOrder, RegistryTypeOK, tree, Continue
<1>4. ASSUME NEW o \in Orders, RaiseCommissioning(r, o) PROVE RegistryTypeOK'
  <2>1. req[r].machine \in Machine
    BY <1>0, <1>4, Fields DEF RaiseCommissioning, At
  <2>2. order' \in [Orders -> Order \cup {Gone}]
    <3> DEFINE raised == [machine |-> req[r].machine, type |-> "commissioning", open |-> TRUE, raised |-> TRUE]
    <3>1. raised \in Order
      BY <2>1 DEF Order, WOType
    <3>2. order' = [order EXCEPT ![o] = raised] \/ order' = order
      BY <1>4 DEF RaiseCommissioning, New
    <3> HIDE DEF raised
    <3> QED  BY <3>1, <3>2 DEF RegistryTypeOK
  <2>3. req' \in [Request -> Requests]
    BY <1>0, <1>4, GoesTyped DEF RaiseCommissioning, Ends
  <2> QED  BY <1>4, <2>2, <2>3 DEF RaiseCommissioning, RegistryTypeOK, tree, Continue
<1>5. CASE MarkInstallationStarted(r)
  <2>1. req[r].machine \in Machine
    BY <1>0, <1>5, Fields DEF MarkInstallationStarted, At
  <2>2. \A state \in {"installing", "commissioning"} : Merge(req[r].machine, state, "end") \in Requests
    BY <2>1 DEF Merge, Requests, After, ServiceState
  <2>3. req' \in [Request -> Requests]
    BY <1>0, <1>5, <2>2, GoesTyped DEF MarkInstallationStarted
  <2> QED  BY <1>5, <2>3 DEF MarkInstallationStarted, RegistryTypeOK, tree, Continue
<1>6. CASE MergeAssetAttrs(r)
  <2>1. req[r].machine \in Machine /\ req[r].set \in ServiceState /\ req[r].then \in After /\ Then(r) \in Requests
    BY <1>0, <1>6, Fields, ThenTyped DEF MergeAssetAttrs, At
  <2>2. Tell(req[r].machine, req[r].then) \in Requests
    BY <2>1 DEF Tell, Requests
  <2>3. req' \in [Request -> Requests]
    BY <1>6, <2>1, <2>2, GoesTyped DEF MergeAssetAttrs
  <2>4. asset' \in [Machine -> Row \cup {Gone}]
    <3>1. CASE There(req[r].machine)
      <4> DEFINE m == req[r].machine
                 state == IF req[r].set = "none" THEN asset[m].state ELSE req[r].set
      <4>1. asset[m] \in Row
        BY <2>1, <3>1 DEF There, RegistryTypeOK
      <4>2. state \in ServiceState
        BY <2>1, <4>1 DEF Row
      <4>3. [asset[m] EXCEPT !.state = state] \in Row
        BY <4>1, <4>2, StateTyped
      <4>4. asset' = [asset EXCEPT ![m] = [asset[m] EXCEPT !.state = state]]
        BY <1>6, <3>1 DEF MergeAssetAttrs
      <4> HIDE DEF state
      <4> QED  BY <2>1, <4>3, <4>4 DEF RegistryTypeOK
    <3>2. CASE ~There(req[r].machine)
      BY <1>6, <3>2 DEF MergeAssetAttrs, RegistryTypeOK
    <3> QED  BY <3>1, <3>2
  <2> QED  BY <1>6, <2>3, <2>4 DEF MergeAssetAttrs, RegistryTypeOK, tree, Continue
<1>7. CASE AfterInstallationWork(r)
  <2>1. req[r].machine \in Machine
    BY <1>0, <1>7, Fields DEF AfterInstallationWork, At
  <2>2. \A state \in ServiceState, then \in After : Merge(req[r].machine, state, then) \in Requests
    BY <2>1 DEF Merge, Requests
  <2>3. req' \in [Request -> Requests]
    BY <1>0, <1>7, <2>2, GoesTyped DEF AfterInstallationWork, After, ServiceState
  <2> QED  BY <1>7, <2>3 DEF AfterInstallationWork, RegistryTypeOK, tree, Continue
<1>8. CASE OpenWorkOrderOfType(r)
  <2>1. [req[r] EXCEPT !.pc = "raise"] \in Requests
    BY <1>0, <1>8, Moves DEF OpenWorkOrderOfType, At
  <2>2. req' \in [Request -> Requests]
    BY <1>0, <1>8, <2>1, GoesTyped DEF OpenWorkOrderOfType, Ends
  <2> QED  BY <1>8, <2>2 DEF OpenWorkOrderOfType, RegistryTypeOK, tree, Continue
<1>9. CASE Interrupt(r)
  BY <1>0, <1>9, GoesTyped DEF Interrupt, Ends, RegistryTypeOK, tree
<1> QED  BY <1>1, <1>2, <1>3, <1>4, <1>5, <1>6, <1>7, <1>8, <1>9

LEMMA StepTyped == RegistryTypeOK /\ [RegistryNext]_vars => RegistryTypeOK'
<1> SUFFICES ASSUME RegistryTypeOK, [RegistryNext]_vars PROVE RegistryTypeOK'
  OBVIOUS
<1>1. ASSUME NEW p \in Plant, CreatePlant(p) PROVE RegistryTypeOK'
  BY <1>1 DEF CreatePlant, Continue, RegistryTypeOK, Life
<1>2. ASSUME NEW o \in Orders, Reopen(o) \/ DeleteWorkOrder(o) PROVE RegistryTypeOK'
  <2>1. order[o] \in Order
    BY <1>2 DEF Reopen, DeleteWorkOrder, RegistryTypeOK
  <2>2. order[o].machine \in Machine /\ [order[o] EXCEPT !.open = TRUE] \in Order
    BY <2>1 DEF Order
  <2>3. order' \in [Orders -> Order \cup {Gone}]
    BY <1>2, <2>2 DEF Reopen, DeleteWorkOrder, RegistryTypeOK
  <2>4. raced' \subseteq Machine
    BY <1>2, <2>2 DEF Reopen, DeleteWorkOrder, Between, RegistryTypeOK
  <2> QED  BY <1>2, <2>3, <2>4 DEF Reopen, DeleteWorkOrder, Between, RegistryTypeOK, tree
<1>3. CASE UNCHANGED vars
  BY <1>3 DEF vars, tree, RegistryTypeOK
<1> QED  BY <1>1, <1>2, <1>3, TreeTyped, MachineTyped, WorkTyped DEF RegistryNext, Rows, Creates, Patches

--------------------------------------------------------------------------------
(* The tree and the copy of the factory.                                     *)

Kept == TreeStands /\ PlantFollowsSection /\ WritesFollow

LEMMA InitKept == RegistryInit => Kept
<1> SUFFICES ASSUME RegistryInit PROVE Kept
  OBVIOUS
<1>1. \A s \in Section : sections[s] = "there" <=> plants[PlantOf[s]] = "there"
  BY DEF RegistryInit
<1>2. ASSUME NEW m \in Machine, There(m) PROVE Stands(asset[m]) /\ asset[m].plant = PlantOf[asset[m].section]
  <2>1. PICK s \in {t \in Section : sections[t] = "there"} :
          asset[m] = [section |-> s, plant |-> PlantOf[s], state |-> "none"]
    BY <1>2 DEF RegistryInit, There
  <2> QED  BY <1>1, <2>1 DEF Stands
<1>3. WritesFollow
  BY DEF RegistryInit, WritesFollow, At, Idle
<1> QED  BY <1>1, <1>2, <1>3 DEF Kept, TreeStands, PlantFollowsSection

\* Only CreateAsset, WriteAsset, DeleteAssetRow and MergeAssetAttrs write machines, and
\* the last of them no column that holds the tree together.
MachinesKept == \A m \in Machine :
    asset'[m] # Gone => /\ asset[m] # Gone
                        /\ asset'[m].section = asset[m].section /\ asset'[m].plant = asset[m].plant

\* A request has one statement less, or none is an edit's write.
WritesKept == \A r \in Request : At(r, "write")' => req'[r] = req[r]

LEMMA Onward ==
    ASSUME RegistryTypeOK, NEW r \in Request, NEW q, Goes(r, q), q.pc # "write"
    PROVE  WritesKept
  BY DEF RegistryTypeOK, Goes, WritesKept, At

LEMMA Untouched ==
    ASSUME RegistryTypeOK, Kept, MachinesKept, WritesKept, named \subseteq named',
           \A s \in Section : sections'[s] = "there" => plants'[PlantOf[s]] = "there",
           \A m \in Machine : asset'[m] # Gone =>
               (Stands(asset[m]) => sections'[asset[m].section] = "there" /\ plants'[asset[m].plant] = "there")
    PROVE  Kept'
<1>1. TreeStands'
  BY DEF Kept, TreeStands, MachinesKept, There, Stands
<1>2. PlantFollowsSection'
  BY DEF Kept, PlantFollowsSection, MachinesKept, There
<1>3. WritesFollow'
  BY DEF Kept, WritesFollow, WritesKept, At
<1> QED  BY <1>1, <1>2, <1>3 DEF Kept

LEMMA TreeKept ==
    ASSUME RegistryTypeOK, Kept, NEW r \in Request,
           InsertSection(r) \/ DeletePlantRow(r) \/ DeleteSectionRow(r)
    PROVE  Kept'
<1>0. req[r] \in Requests
  BY DEF RegistryTypeOK
<1>1. MachinesKept /\ named' = named
  BY DEF InsertSection, DeletePlantRow, DeleteSectionRow, MachinesKept, Continue
<1>2. WritesKept
  BY DEF InsertSection, DeletePlantRow, DeleteSectionRow, WritesKept, Ends, Goes, At, Idle, RegistryTypeOK
<1>3. CASE InsertSection(r)
  <2>1. req[r].section \in Section
    BY <1>0, <1>3, Fields DEF InsertSection, At
  <2> QED  BY <1>1, <1>2, <1>3, <2>1, Untouched
           DEF InsertSection, Kept, TreeStands, RegistryTypeOK, Stands, There
<1>4. CASE DeletePlantRow(r)
  <2>1. req[r].plant \in Plant
    BY <1>0, <1>4, Fields DEF DeletePlantRow, At
  <2>2. sections' = sections /\ asset' = asset
    BY <1>4 DEF DeletePlantRow
  <2>3. CASE plants' = plants
    BY <1>1, <1>2, <2>2, <2>3, Untouched DEF Kept, TreeStands, Stands, There
  <2>4. CASE plants' # plants
    <3> DEFINE p == req[r].plant
    <3>1. /\ plants' = [plants EXCEPT ![p] = "gone"]
          /\ Floors(p) = {}
          /\ \A m \in Machine : There(m) => asset[m].plant # p
      BY <1>4, <2>4 DEF DeletePlantRow
    <3>2. \A q \in Plant : q # p => plants'[q] = plants[q]
      BY <2>1, <3>1 DEF RegistryTypeOK
    <3>3. \A s \in Section : sections[s] = "there" => PlantOf[s] # p
      BY <3>1 DEF Floors
    <3>4. \A s \in Section : sections'[s] = "there" => plants'[PlantOf[s]] = "there"
      BY <2>2, <3>2, <3>3, RegistryAssumption DEF Kept, TreeStands
    <3>5. \A m \in Machine : asset[m] # Gone => asset[m].plant \in Plant
      BY DEF RegistryTypeOK, Row
    <3> HIDE DEF p
    <3> QED  BY <1>1, <1>2, <2>2, <3>1, <3>2, <3>4, <3>5, Untouched DEF There, Stands
  <2> QED  BY <2>3, <2>4
<1>5. CASE DeleteSectionRow(r)
  <2>1. req[r].section \in Section
    BY <1>0, <1>5, Fields DEF DeleteSectionRow, At
  <2>2. plants' = plants /\ asset' = asset
    BY <1>5 DEF DeleteSectionRow
  <2>3. CASE sections' = sections
    BY <1>1, <1>2, <2>2, <2>3, Untouched DEF Kept, TreeStands, Stands, There
  <2>4. CASE sections' # sections
    <3> DEFINE s == req[r].section
    <3>1. sections' = [sections EXCEPT ![s] = "gone"] /\ Machines(s) = {}
      BY <1>5, <2>4 DEF DeleteSectionRow
    <3>2. \A t \in Section : t # s => sections'[t] = sections[t]
      BY <2>1, <3>1 DEF RegistryTypeOK
    <3>3. sections'[s] = "gone"
      BY <2>1, <3>1 DEF RegistryTypeOK
    <3>4. \A t \in Section : sections'[t] = "there" => plants'[PlantOf[t]] = "there"
      BY <2>2, <3>2, <3>3 DEF Kept, TreeStands
    <3>5. \A m \in Machine : asset[m] # Gone => asset[m].section \in Section \ {s}
      BY <3>1 DEF Machines, There, RegistryTypeOK, Row
    <3> HIDE DEF s
    <3> QED  BY <1>1, <1>2, <2>2, <3>2, <3>4, <3>5, Untouched DEF Stands
  <2> QED  BY <2>3, <2>4
<1> QED  BY <1>3, <1>4, <1>5

LEMMA MachineKept ==
    ASSUME RegistryTypeOK, Kept, NEW r \in Request,
           \/ \E m \in Machine : Rows(r, m)
           \/ WriteAsset(r) \/ DeleteAssetRow(r) \/ MergeAssetAttrs(r)
    PROVE  Kept'
<1>0. req[r] \in Requests
  BY DEF RegistryTypeOK
<1>1. sections' = sections /\ plants' = plants
  BY DEF Rows, Creates, Patches, CreateAsset, PatchAsset, WriteAsset, DeleteAssetRow, MergeAssetAttrs,
         tree
<1>2. ASSUME NEW m \in Machine, Creates(r, m) PROVE Kept'
  <2>1. PICK row \in Row, news \in SUBSET {m} :
               /\ Stands(row) /\ asset' = [asset EXCEPT ![m] = row]
               /\ BeginNaming(r, Tell(m, "end"), news)
               /\ news = {} => row.plant = PlantOf[row.section]
    BY <1>2, Registers
  <2>2. named' = named \cup news
    BY <2>1 DEF BeginNaming
  <2>3. WritesFollow'
    BY <2>1, <2>2 DEF BeginNaming, Goes, Tell, Kept, WritesFollow, At, RegistryTypeOK
  <2>4. TreeStands'
    BY <1>1, <2>1 DEF Kept, TreeStands, Stands, There, RegistryTypeOK
  <2>5. PlantFollowsSection'
    BY <2>1, <2>2 DEF Kept, PlantFollowsSection, There, RegistryTypeOK
  <2> QED  BY <2>3, <2>4, <2>5 DEF Kept
<1>3. ASSUME NEW m \in Machine, Patches(r, m) PROVE Kept'
  <2>1. PICK row \in Row, news \in SUBSET {m} :
               /\ There(m) /\ BeginNaming(r, Write(m, row), news)
               /\ news = {} => \/ row.section = asset[m].section /\ row.plant = asset[m].plant
                               \/ row.plant = PlantOf[row.section]
    BY <1>3, Edits
  <2>2. named' = named \cup news /\ asset' = asset
    BY <1>3, <2>1 DEF BeginNaming, Patches, PatchAsset
  <2>3. m \notin named' => row.plant = PlantOf[row.section]
    BY <2>1, <2>2 DEF Kept, PlantFollowsSection
  <2>4. WritesFollow'
    <3>1. req' = [req EXCEPT ![r] = Write(m, row)]
      BY <2>1 DEF BeginNaming, Goes
    <3> QED  BY <2>2, <2>3, <3>1 DEF Write, Kept, WritesFollow, At, RegistryTypeOK
  <2> QED  BY <1>1, <2>2, <2>4 DEF Kept, TreeStands, PlantFollowsSection, Stands, There
<1>4. CASE WriteAsset(r)
  <2>0. named' = named
    BY <1>4 DEF WriteAsset, Continue
  <2>1. /\ req[r].machine \in Machine /\ req[r].row \in Row
        /\ req[r].machine \notin named => req[r].row.plant = PlantOf[req[r].row.section]
    BY <1>0, <1>4, Fields DEF WriteAsset, At, Kept, WritesFollow
  <2>2. WritesFollow'
    BY <1>4, <2>0 DEF WriteAsset, Ends, Goes, Tell, Idle, Kept, WritesFollow, At, RegistryTypeOK
  <2>3. CASE asset' = asset
    BY <1>1, <2>0, <2>2, <2>3 DEF Kept, TreeStands, PlantFollowsSection, Stands, There
  <2>4. CASE asset' = [asset EXCEPT ![req[r].machine] = req[r].row] /\ Stands(req[r].row)
    <3>1. TreeStands'
      BY <1>1, <2>1, <2>4 DEF Kept, TreeStands, Stands, There, RegistryTypeOK
    <3>2. PlantFollowsSection'
      BY <2>0, <2>1, <2>4 DEF Kept, PlantFollowsSection, There, RegistryTypeOK
    <3> QED  BY <2>2, <3>1, <3>2 DEF Kept
  <2> QED  BY <1>4, <2>3, <2>4 DEF WriteAsset
<1>5. CASE DeleteAssetRow(r)
  <2>1. MachinesKept /\ named' = named
    BY <1>5 DEF DeleteAssetRow, MachinesKept, RegistryTypeOK, Continue
  <2>2. WritesKept
    BY <1>5 DEF DeleteAssetRow, WritesKept, Goes, At, RegistryTypeOK
  <2> QED  BY <1>1, <2>1, <2>2, Untouched DEF Kept, TreeStands, Stands
<1>6. CASE MergeAssetAttrs(r)
  <2>0. req[r].machine \in Machine
    BY <1>0, <1>6, Fields DEF MergeAssetAttrs, At
  <2>1. MachinesKept
    <3>1. CASE There(req[r].machine)
      <4> DEFINE m == req[r].machine
                 row == [asset[m] EXCEPT !.state = IF req[r].set = "none" THEN @ ELSE req[r].set]
      <4>1. row.section = asset[m].section /\ row.plant = asset[m].plant
        BY <2>0, <3>1 DEF There, RegistryTypeOK, Row
      <4>2. asset' = [asset EXCEPT ![m] = row]
        BY <1>6, <3>1 DEF MergeAssetAttrs
      <4> HIDE DEF row
      <4> QED  BY <2>0, <3>1, <4>1, <4>2 DEF MachinesKept, There, RegistryTypeOK
    <3>2. CASE ~There(req[r].machine)
      BY <1>6, <3>2 DEF MergeAssetAttrs, MachinesKept
    <3> QED  BY <3>1, <3>2
  <2>2. WritesKept
    BY <1>6 DEF MergeAssetAttrs, WritesKept, Goes, Tell, Then, Idle, At, RegistryTypeOK
  <2>3. named' = named
    BY <1>6 DEF MergeAssetAttrs, Continue
  <2> QED  BY <1>1, <2>1, <2>2, <2>3, Untouched DEF Kept, TreeStands, Stands
<1> QED  BY <1>2, <1>3, <1>4, <1>5, <1>6 DEF Rows

\* Every other step of a request leaves the tree and the machines, and begins no write.
LEMMA OtherKept ==
    ASSUME RegistryTypeOK, Kept, NEW r \in Request,
           \/ \E s \in Section : CreateSection(r, s) \/ DeleteSection(r, s)
           \/ \E p \in Plant : DeletePlant(r, p)
           \/ \E m \in Machine : \/ DeleteAsset(r, m)
                                \/ \E type \in WOType : CreateWorkOrder(r, m, type)
           \/ \E o \in Orders : CompleteWorkOrder(r, o) \/ InsertOrder(r, o) \/ RaiseCommissioning(r, o)
           \/ DropRoster(r) \/ CountHistory(r) \/ ReadBack(r) \/ PublishAsset(r)
           \/ MarkInstallationStarted(r) \/ AfterInstallationWork(r) \/ OpenWorkOrderOfType(r)
           \/ Interrupt(r)
    PROVE  Kept'
<1>0. req[r] \in Requests
  BY DEF RegistryTypeOK
<1>1. sections' = sections /\ plants' = plants /\ asset' = asset
  BY DEF CreateSection, DeleteSection, DeletePlant, DeleteAsset, CreateWorkOrder, CompleteWorkOrder,
         InsertOrder, RaiseCommissioning, DropRoster, CountHistory, ReadBack, PublishAsset,
         MarkInstallationStarted, AfterInstallationWork, OpenWorkOrderOfType, Interrupt, tree
<1>2. MachinesKept /\ named \subseteq named'
  <2>1. named \subseteq named'
    BY DEF CreateSection, DeleteSection, DeletePlant, DeleteAsset, CreateWorkOrder, CompleteWorkOrder,
           InsertOrder, RaiseCommissioning, DropRoster, CountHistory, ReadBack, PublishAsset,
           MarkInstallationStarted, AfterInstallationWork, OpenWorkOrderOfType, Interrupt,
           Begin, BeginNaming, Continue
  <2> QED  BY <1>1, <2>1 DEF MachinesKept
<1>3. WritesKept
  <2>1. CASE \/ \E s \in Section : CreateSection(r, s) \/ DeleteSection(r, s)
             \/ \E p \in Plant : DeletePlant(r, p)
             \/ \E m \in Machine : \/ DeleteAsset(r, m)
                                  \/ \E type \in WOType : CreateWorkOrder(r, m, type)
             \/ \E o \in Orders : CompleteWorkOrder(r, o)
    <3>1. ASSUME NEW s \in Section, CreateSection(r, s) \/ DeleteSection(r, s) PROVE WritesKept
      BY <3>1, Onward DEF CreateSection, DeleteSection, Begin, BeginNaming
    <3>2. ASSUME NEW p \in Plant, DeletePlant(r, p) PROVE WritesKept
      BY <3>2, Onward DEF DeletePlant, Begin, BeginNaming
    <3>3. ASSUME NEW m \in Machine, DeleteAsset(r, m) PROVE WritesKept
      BY <3>3, Onward DEF DeleteAsset, Begin, BeginNaming
    <3>4. ASSUME NEW m \in Machine, NEW type \in WOType, CreateWorkOrder(r, m, type) PROVE WritesKept
      BY <3>4, Onward DEF CreateWorkOrder, Begin, BeginNaming
    <3>5. ASSUME NEW o \in Orders, CompleteWorkOrder(r, o) PROVE WritesKept
      BY <3>5, Onward DEF CompleteWorkOrder, Begin, BeginNaming
    <3> QED  BY <2>1, <3>1, <3>2, <3>3, <3>4, <3>5
  <2>2. CASE \E o \in Orders : InsertOrder(r, o)
    <3>1. Goes(r, [req[r] EXCEPT !.pc = "mark"]) /\ At(r, "insert")
      BY <2>2 DEF InsertOrder
    <3>2. [req[r] EXCEPT !.pc = "mark"].pc = "mark"
      BY <1>0, <3>1 DEF Requests, Idle, At
    <3> QED  BY <3>1, <3>2, Onward
  <2>3. CASE DropRoster(r)
    BY <2>3 DEF DropRoster, WritesKept, Goes, At, RegistryTypeOK
  <2>4. CASE CountHistory(r)
    <3>1. (Goes(r, [req[r] EXCEPT !.pc = "delete"]) \/ Goes(r, Idle)) /\ At(r, "count")
      BY <2>4 DEF CountHistory, Ends
    <3>2. [req[r] EXCEPT !.pc = "delete"].pc = "delete"
      BY <1>0, <3>1 DEF Requests, Idle, At
    <3> QED  BY <3>1, <3>2, Onward DEF Idle
  <2>5. CASE ReadBack(r)
    BY <2>5 DEF ReadBack, Then, Idle, WritesKept, Goes, At, RegistryTypeOK
  <2>6. CASE PublishAsset(r) \/ Interrupt(r)
    BY <2>6 DEF PublishAsset, Interrupt, Then, Ends, Idle, WritesKept, Goes, At, RegistryTypeOK
  <2>7. CASE MarkInstallationStarted(r)
    BY <2>7 DEF MarkInstallationStarted, Merge, Idle, WritesKept, Goes, At, RegistryTypeOK
  <2>8. CASE AfterInstallationWork(r)
    BY <2>8 DEF AfterInstallationWork, Merge, Idle, WritesKept, Goes, At, RegistryTypeOK
  <2>9. CASE OpenWorkOrderOfType(r) \/ \E o \in Orders : RaiseCommissioning(r, o)
    <3>1. \/ Goes(r, [req[r] EXCEPT !.pc = "raise"]) /\ At(r, "look")
          \/ Goes(r, Idle)
      BY <2>9 DEF OpenWorkOrderOfType, RaiseCommissioning, Ends
    <3>2. At(r, "look") => [req[r] EXCEPT !.pc = "raise"].pc = "raise"
      BY <1>0 DEF Requests, Idle, At
    <3> QED  BY <3>1, <3>2, Onward DEF Idle
  <2> QED  BY <2>1, <2>2, <2>3, <2>4, <2>5, <2>6, <2>7, <2>8, <2>9
<1> QED  BY <1>1, <1>2, <1>3, Untouched DEF Kept, TreeStands, Stands

LEMMA StepKept == RegistryTypeOK /\ Kept /\ [RegistryNext]_vars => Kept'
<1> SUFFICES ASSUME RegistryTypeOK, Kept, [RegistryNext]_vars PROVE Kept'
  OBVIOUS
<1>1. ASSUME NEW p \in Plant, CreatePlant(p) PROVE Kept'
  <2>1. \A q \in Plant : plants[q] = "there" => plants'[q] = "there"
    BY <1>1 DEF CreatePlant, RegistryTypeOK
  <2>2. \A m \in Machine : asset[m] # Gone => asset[m].plant \in Plant
    BY DEF RegistryTypeOK, Row
  <2>3. MachinesKept /\ WritesKept /\ named' = named
    BY <1>1 DEF CreatePlant, MachinesKept, WritesKept, Continue
  <2>4. sections' = sections /\ asset' = asset
    BY <1>1 DEF CreatePlant
  <2> QED  BY <2>1, <2>2, <2>3, <2>4, Untouched, RegistryAssumption DEF Kept, TreeStands, Stands
<1>2. ASSUME NEW o \in Orders, Reopen(o) \/ DeleteWorkOrder(o) PROVE Kept'
  BY <1>2, Untouched DEF Reopen, DeleteWorkOrder, Between, tree, MachinesKept, WritesKept, Kept, TreeStands, Stands
<1>3. CASE UNCHANGED vars
  BY <1>3, Untouched DEF vars, tree, MachinesKept, WritesKept, Kept, TreeStands, Stands
<1> QED  BY <1>1, <1>2, <1>3, TreeKept, MachineKept, OtherKept DEF RegistryNext, Rows, Creates, Patches

--------------------------------------------------------------------------------
(* One request at a machine.                                                 *)

\* A request is at its next statement, and about nothing it was not about.
Follows(r, q) ==
    /\ Goes(r, q) /\ raced' = raced /\ untold \subseteq untold'
    /\ \A m \in Machine : Concerns(q, m) => Concerns(req[r], m)

Steps(r) == \E q, news : BeginNaming(r, q, news) \/ Follows(r, q)

\* Unless a machine counts as raced, one request at a time is about it.
Alone == \A m \in Machine \ raced : \A a, b \in Request :
             Concerns(req[a], m) /\ Concerns(req[b], m) => a = b

LEMMA TreeSteps ==
    ASSUME NEW r \in Request,
           \/ \E s \in Section : CreateSection(r, s) \/ DeleteSection(r, s)
           \/ \E p \in Plant : DeletePlant(r, p)
           \/ InsertSection(r) \/ DropRoster(r) \/ DeletePlantRow(r) \/ DeleteSectionRow(r)
    PROVE  Steps(r)
<1>1. CASE \/ \E s \in Section : CreateSection(r, s) \/ DeleteSection(r, s)
           \/ \E p \in Plant : DeletePlant(r, p)
  BY <1>1 DEF CreateSection, DeleteSection, DeletePlant, Begin, Steps
<1>2. CASE InsertSection(r) \/ DeletePlantRow(r) \/ DeleteSectionRow(r)
  <2>1. Follows(r, Idle)
    BY <1>2 DEF InsertSection, DeletePlantRow, DeleteSectionRow, Continue, Ends, Follows, Concerns, Idle
  <2> QED  BY <2>1 DEF Steps
<1>3. CASE DropRoster(r)
  <2>1. Follows(r, [pc |-> "deletePlant", plant |-> req[r].plant])
    BY <1>3 DEF DropRoster, Continue, Follows, Concerns
  <2> QED  BY <2>1 DEF Steps
<1> QED  BY <1>1, <1>2, <1>3

LEMMA MachineSteps ==
    ASSUME RegistryTypeOK, NEW r \in Request,
           \/ \E m \in Machine : \/ Rows(r, m)
                                \/ DeleteAsset(r, m)
           \/ WriteAsset(r) \/ CountHistory(r) \/ DeleteAssetRow(r) \/ ReadBack(r) \/ PublishAsset(r)
    PROVE  Steps(r)
<1>0. req[r] \in Requests
  BY DEF RegistryTypeOK
<1>1. CASE \E m \in Machine : \/ Rows(r, m)
                             \/ DeleteAsset(r, m)
  <2>1. ASSUME NEW m \in Machine, Creates(r, m) PROVE Steps(r)
    BY <2>1, Registers DEF Steps
  <2>2. ASSUME NEW m \in Machine, Patches(r, m) PROVE Steps(r)
    BY <2>2, Edits DEF Steps
  <2>3. ASSUME NEW m \in Machine, DeleteAsset(r, m) PROVE Steps(r)
    BY <2>3 DEF DeleteAsset, Begin, Steps
  <2> QED  BY <1>1, <2>1, <2>2, <2>3 DEF Rows
<1>2. CASE WriteAsset(r)
  <2>1. Follows(r, Tell(req[r].machine, "end")) \/ Follows(r, Idle)
    BY <1>2 DEF WriteAsset, At, Tell, Ends, Continue, Follows, Concerns, Idle
  <2> QED  BY <2>1 DEF Steps
<1>3. CASE CountHistory(r)
  <2>1. /\ [req[r] EXCEPT !.pc = "delete"].machine = req[r].machine
        /\ At(r, "count")
    BY <1>0, <1>3 DEF CountHistory, At, Requests, Idle
  <2>2. Follows(r, [req[r] EXCEPT !.pc = "delete"]) \/ Follows(r, Idle)
    BY <1>3, <2>1 DEF CountHistory, At, Ends, Continue, Follows, Concerns, Idle
  <2> QED  BY <2>2 DEF Steps
<1>4. CASE DeleteAssetRow(r)
  <2>1. Follows(r, [pc |-> "publish", machine |-> req[r].machine, floor |-> Gone, then |-> "end"])
    BY <1>4 DEF DeleteAssetRow, At, Continue, Follows, Concerns
  <2> QED  BY <2>1 DEF Steps
<1>5. CASE ReadBack(r)
  <2>1. \/ Follows(r, [pc |-> "publish", machine |-> req[r].machine,
                       floor |-> asset[req[r].machine].section, then |-> req[r].then])
        \/ Follows(r, Then(r))
    BY <1>5 DEF ReadBack, Then, At, Continue, Follows, Concerns, Idle
  <2> QED  BY <2>1 DEF Steps
<1>6. CASE PublishAsset(r)
  <2>1. Follows(r, Then(r))
    BY <1>6 DEF PublishAsset, Then, At, Follows, Concerns, Idle
  <2> QED  BY <2>1 DEF Steps
<1> QED  BY <1>1, <1>2, <1>3, <1>4, <1>5, <1>6

LEMMA WorkSteps ==
    ASSUME RegistryTypeOK, NEW r \in Request,
           \/ \E m \in Machine, type \in WOType : CreateWorkOrder(r, m, type)
           \/ \E o \in Orders : CompleteWorkOrder(r, o) \/ InsertOrder(r, o) \/ RaiseCommissioning(r, o)
           \/ MarkInstallationStarted(r) \/ MergeAssetAttrs(r) \/ AfterInstallationWork(r)
           \/ OpenWorkOrderOfType(r) \/ Interrupt(r)
    PROVE  Steps(r)
<1>0. req[r] \in Requests
  BY DEF RegistryTypeOK
<1>1. CASE \/ \E m \in Machine, type \in WOType : CreateWorkOrder(r, m, type)
           \/ \E o \in Orders : CompleteWorkOrder(r, o)
  BY <1>1 DEF CreateWorkOrder, CompleteWorkOrder, Begin, Steps
<1>2. CASE \E o \in Orders : InsertOrder(r, o)
  <2>1. [req[r] EXCEPT !.pc = "mark"].machine = req[r].machine /\ At(r, "insert")
    BY <1>0, <1>2 DEF InsertOrder, At, Requests, Idle
  <2>2. Follows(r, [req[r] EXCEPT !.pc = "mark"])
    BY <1>2, <2>1 DEF InsertOrder, At, Continue, Follows, Concerns
  <2> QED  BY <2>2 DEF Steps
<1>3. CASE (\E o \in Orders : RaiseCommissioning(r, o)) \/ Interrupt(r)
  <2>1. Follows(r, Idle)
    BY <1>3 DEF RaiseCommissioning, Interrupt, Ends, Continue, Follows, Concerns, Idle
  <2> QED  BY <2>1 DEF Steps
<1>4. CASE MarkInstallationStarted(r)
  <2>1. Follows(r, Idle) \/ \E state : Follows(r, Merge(req[r].machine, state, "end"))
    BY <1>4 DEF MarkInstallationStarted, Merge, At, Continue, Follows, Concerns, Idle
  <2> QED  BY <2>1 DEF Steps
<1>5. CASE MergeAssetAttrs(r)
  <2>1. Follows(r, Tell(req[r].machine, req[r].then)) \/ Follows(r, Then(r))
    BY <1>5 DEF MergeAssetAttrs, Tell, Then, At, Continue, Follows, Concerns, Idle
  <2> QED  BY <2>1 DEF Steps
<1>6. CASE AfterInstallationWork(r)
  <2>1. Follows(r, Idle) \/ \E state, then : Follows(r, Merge(req[r].machine, state, then))
    BY <1>6 DEF AfterInstallationWork, Merge, At, Continue, Follows, Concerns, Idle
  <2> QED  BY <2>1 DEF Steps
<1>7. CASE OpenWorkOrderOfType(r)
  <2>1. [req[r] EXCEPT !.pc = "raise"].machine = req[r].machine /\ At(r, "look")
    BY <1>0, <1>7 DEF OpenWorkOrderOfType, At, Requests, Idle
  <2>2. Follows(r, [req[r] EXCEPT !.pc = "raise"]) \/ Follows(r, Idle)
    BY <1>7, <2>1 DEF OpenWorkOrderOfType, At, Ends, Continue, Follows, Concerns, Idle
  <2> QED  BY <2>2 DEF Steps
<1> QED  BY <1>1, <1>2, <1>3, <1>4, <1>5, <1>6, <1>7

LEMMA StepAlone ==
    ASSUME RegistryTypeOK, Alone, NEW r \in Request, Steps(r)
    PROVE  /\ Alone' /\ raced \subseteq raced' /\ untold \subseteq untold'
           /\ \A m \in Machine \ raced' : Concerns(req[r], m) \/ Concerns(req'[r], m) =>
                  \A b \in Request \ {r} : ~Concerns(req[b], m)
           /\ \A b \in Request \ {r} : req'[b] = req[b]
<1>1. PICK q, news : BeginNaming(r, q, news) \/ Follows(r, q)
  BY DEF Steps
<1>2. req'[r] = q /\ \A b \in Request \ {r} : req'[b] = req[b]
  BY <1>1 DEF Begin, BeginNaming, Follows, Goes, RegistryTypeOK
<1>3. raced \subseteq raced' /\ untold \subseteq untold'
  BY <1>1 DEF Begin, BeginNaming, Follows
<1>4. \A m \in Machine \ raced' : Concerns(req[r], m) \/ Concerns(q, m) =>
          \A b \in Request \ {r} : ~Concerns(req[b], m)
  <2>1. CASE BeginNaming(r, q, news)
    BY <2>1 DEF Begin, BeginNaming, Concerns, Idle
  <2>2. CASE Follows(r, q)
    BY <2>2 DEF Follows, Alone
  <2> QED  BY <1>1, <2>1, <2>2
<1>5. Alone'
  <2> SUFFICES ASSUME NEW m \in Machine \ raced', NEW a \in Request, NEW b \in Request,
                      Concerns(req'[a], m), Concerns(req'[b], m)
               PROVE  a = b
    BY DEF Alone, Concerns
  <2> QED  BY <1>2, <1>3, <1>4 DEF Alone
<1> QED  BY <1>2, <1>3, <1>4, <1>5

LEMMA OthersAlone ==
    ASSUME Alone,
           \/ \E p \in Plant : CreatePlant(p)
           \/ \E o \in Orders : Reopen(o) \/ DeleteWorkOrder(o)
           \/ UNCHANGED vars
    PROVE  /\ Alone' /\ req' = req /\ raced \subseteq raced' /\ untold' = untold
           /\ asset' = asset /\ told' = told
<1>1. req' = req /\ raced \subseteq raced' /\ untold' = untold /\ asset' = asset /\ told' = told
  BY DEF CreatePlant, Continue, Reopen, DeleteWorkOrder, Between, vars
<1>2. Alone'
  BY <1>1 DEF Alone, Concerns
<1> QED  BY <1>1, <1>2

--------------------------------------------------------------------------------
(* One commissioning.                                                        *)

\* A request about to raise a commissioning job has found none open, and none is
\* opened since: whoever would, is about the same machine.
Looked == \A r \in Request, m \in Machine \ raced :
    At(r, "raise") /\ req[r].machine = m => Commissionings(m) = {}

LEMMA LookedKept ==
    ASSUME Looked, raced \subseteq raced',
           \A a \in Request : At(a, "raise")' => req'[a] = req[a],
           \A a \in Request, m \in Machine \ raced' :
               At(a, "raise") /\ At(a, "raise")' /\ req[a].machine = m =>
                   Commissionings(m)' \subseteq Commissionings(m)
    PROVE  Looked'
<1> SUFFICES ASSUME NEW a \in Request, NEW m \in Machine \ raced',
                    At(a, "raise")', req'[a].machine = m
             PROVE  Commissionings(m)' = {}
  BY DEF Looked, At
<1>1. req'[a] = req[a] /\ At(a, "raise")
  BY DEF At
<1>2. Commissionings(m) = {}
  BY <1>1 DEF Looked
<1> QED  BY <1>1, <1>2

\* A request that is about to raise was so before, unless it has just looked.
LEMMA Raising ==
    ASSUME RegistryTypeOK, NEW r \in Request, NEW q, Goes(r, q), q.pc # "raise"
    PROVE  \A a \in Request : At(a, "raise")' => req'[a] = req[a]
  BY DEF RegistryTypeOK, Goes, At

\* The steps that raise or look at nothing: no order is opened, and none begins to raise.
LEMMA QuietLooked ==
    ASSUME RegistryTypeOK, Looked, NEW r \in Request, raced \subseteq raced', order' = order,
           NEW q, Goes(r, q), q.pc # "raise"
    PROVE  Looked'
  BY Raising, LookedKept DEF Commissionings, History

LEMMA RequestLooked ==
    ASSUME RegistryTypeOK, Alone, Looked, NEW r \in Request, Steps(r),
           \/ \E s \in Section : CreateSection(r, s) \/ DeleteSection(r, s)
           \/ \E p \in Plant : DeletePlant(r, p)
           \/ \E m \in Machine : \/ Rows(r, m)
                                \/ DeleteAsset(r, m)
                                \/ \E type \in WOType : CreateWorkOrder(r, m, type)
           \/ InsertSection(r) \/ DropRoster(r) \/ DeletePlantRow(r) \/ DeleteSectionRow(r)
           \/ WriteAsset(r) \/ CountHistory(r) \/ DeleteAssetRow(r) \/ ReadBack(r) \/ PublishAsset(r)
           \/ MarkInstallationStarted(r) \/ MergeAssetAttrs(r) \/ AfterInstallationWork(r)
           \/ Interrupt(r)
    PROVE  Looked'
<1>0. req[r] \in Requests /\ raced \subseteq raced'
  BY StepAlone DEF RegistryTypeOK
<1>1. CASE \/ \E s \in Section : CreateSection(r, s) \/ DeleteSection(r, s)
           \/ \E p \in Plant : DeletePlant(r, p)
           \/ InsertSection(r) \/ DropRoster(r) \/ DeletePlantRow(r) \/ DeleteSectionRow(r)
  <2>1. order' = order
    BY <1>1 DEF CreateSection, DeleteSection, DeletePlant, InsertSection, DropRoster, DeletePlantRow,
                DeleteSectionRow
  <2>2. ASSUME NEW s \in Section, CreateSection(r, s) PROVE Looked'
    BY <1>0, <2>1, <2>2, QuietLooked DEF CreateSection, Begin, BeginNaming
  <2>3. ASSUME NEW s \in Section, DeleteSection(r, s) PROVE Looked'
    BY <1>0, <2>1, <2>3, QuietLooked DEF DeleteSection, Begin, BeginNaming
  <2>4. ASSUME NEW p \in Plant, DeletePlant(r, p) PROVE Looked'
    BY <1>0, <2>1, <2>4, QuietLooked DEF DeletePlant, Begin, BeginNaming
  <2>5. CASE InsertSection(r) \/ DeletePlantRow(r) \/ DeleteSectionRow(r)
    BY <1>0, <2>1, <2>5, QuietLooked DEF InsertSection, DeletePlantRow, DeleteSectionRow, Ends, Idle
  <2>6. CASE DropRoster(r)
    BY <1>0, <2>1, <2>6, QuietLooked DEF DropRoster
  <2> QED  BY <1>1, <2>2, <2>3, <2>4, <2>5, <2>6
<1>2. CASE \E m \in Machine : \/ Rows(r, m)
                             \/ DeleteAsset(r, m)
                             \/ \E type \in WOType : CreateWorkOrder(r, m, type)
  <2>1. order' = order
    BY <1>2 DEF Rows, Creates, Patches, CreateAsset, PatchAsset, DeleteAsset, CreateWorkOrder
  <2>2. ASSUME NEW m \in Machine, Creates(r, m) PROVE Looked'
    <3>1. Goes(r, Tell(m, "end")) /\ Tell(m, "end").pc # "raise"
      BY <2>2, Registers DEF BeginNaming, Tell
    <3> QED  BY <1>0, <2>1, <3>1, QuietLooked
  <2>3. ASSUME NEW m \in Machine, Patches(r, m) PROVE Looked'
    <3>1. PICK row \in Row : Goes(r, Write(m, row))
      BY <2>3, Edits DEF BeginNaming
    <3>2. Write(m, row).pc # "raise"
      BY DEF Write
    <3> QED  BY <1>0, <2>1, <3>1, <3>2, QuietLooked
  <2>4. ASSUME NEW m \in Machine, DeleteAsset(r, m) PROVE Looked'
    BY <1>0, <2>1, <2>4, QuietLooked DEF DeleteAsset, Begin, BeginNaming
  <2>5. ASSUME NEW m \in Machine, NEW type \in WOType, CreateWorkOrder(r, m, type) PROVE Looked'
    BY <1>0, <2>1, <2>5, QuietLooked DEF CreateWorkOrder, Begin, BeginNaming
  <2> QED  BY <1>2, <2>2, <2>3, <2>4, <2>5 DEF Rows
<1>3. CASE CountHistory(r)
  <2>1. [req[r] EXCEPT !.pc = "delete"].pc = "delete"
    BY <1>0, <1>3 DEF CountHistory, At, Requests, Idle
  <2>2. order' = order /\ (Goes(r, [req[r] EXCEPT !.pc = "delete"]) \/ Goes(r, Idle))
    BY <1>3 DEF CountHistory, Ends
  <2> QED  BY <1>0, <2>1, <2>2, QuietLooked DEF Idle
<1>4. CASE WriteAsset(r) \/ DeleteAssetRow(r) \/ ReadBack(r) \/ PublishAsset(r) \/ Interrupt(r)
  <2>1. Then(r).pc # "raise" /\ Idle.pc # "raise"
    BY DEF Then, Idle
  <2>2. order' = order /\ \E q : Goes(r, q) /\ q.pc # "raise"
    BY <1>4, <2>1 DEF WriteAsset, DeleteAssetRow, ReadBack, PublishAsset, Interrupt, Ends, Tell
  <2> QED  BY <1>0, <2>2, QuietLooked
<1>5. CASE MarkInstallationStarted(r) \/ MergeAssetAttrs(r) \/ AfterInstallationWork(r)
  <2>1. Then(r).pc # "raise" /\ Idle.pc # "raise"
    BY DEF Then, Idle
  <2>2. order' = order /\ \E q : Goes(r, q) /\ q.pc # "raise"
    BY <1>5, <2>1 DEF MarkInstallationStarted, MergeAssetAttrs, AfterInstallationWork, Tell, Merge
  <2> QED  BY <1>0, <2>2, QuietLooked
<1> QED  BY <1>1, <1>2, <1>3, <1>4, <1>5

\* The steps that write orders.
LEMMA OrderLooked ==
    ASSUME RegistryTypeOK, Alone, Looked, NEW r \in Request, Steps(r),
           \/ \E o \in Orders : CompleteWorkOrder(r, o) \/ InsertOrder(r, o) \/ RaiseCommissioning(r, o)
           \/ OpenWorkOrderOfType(r)
    PROVE  Looked'
<1>0. /\ req[r] \in Requests /\ raced \subseteq raced'
      /\ \A m \in Machine \ raced' : Concerns(req[r], m) =>
             \A b \in Request \ {r} : ~Concerns(req[b], m)
      /\ \A b \in Request \ {r} : req'[b] = req[b]
  BY StepAlone DEF RegistryTypeOK
<1>1. ASSUME NEW o \in Orders, CompleteWorkOrder(r, o) PROVE Looked'
  <2>1. \A m \in Machine : Commissionings(m)' \subseteq Commissionings(m)
    BY <1>1 DEF CompleteWorkOrder, Commissionings, History, RegistryTypeOK, Order
  <2>2. \A a \in Request : At(a, "raise")' => req'[a] = req[a]
    BY <1>1, Raising DEF CompleteWorkOrder, Begin, BeginNaming
  <2>3. \A a \in Request : At(a, "raise") => req[a].machine \in Machine
    BY Fields DEF At, RegistryTypeOK
  <2> QED  BY <1>0, <2>1, <2>2, <2>3, LookedKept
<1>2. ASSUME NEW o \in Orders, InsertOrder(r, o) \/ RaiseCommissioning(r, o) PROVE Looked'
  <2> DEFINE m == req[r].machine
  <2>1. /\ m \in Machine /\ Concerns(req[r], m)
    BY <1>0, <1>2, Fields DEF InsertOrder, RaiseCommissioning, At, Concerns
  <2>2. ~At(r, "raise")' /\ \A a \in Request : At(a, "raise")' => req'[a] = req[a]
    <3>1. CASE InsertOrder(r, o)
      <4>1. [req[r] EXCEPT !.pc = "mark"].pc = "mark"
        BY <1>0, <3>1 DEF InsertOrder, At, Requests, Idle
      <4>2. req'[r].pc = "mark"
        BY <3>1, <4>1 DEF InsertOrder, Goes, RegistryTypeOK
      <4> QED  BY <1>0, <4>2 DEF At
    <3>2. CASE RaiseCommissioning(r, o)
      BY <1>0, <3>2 DEF RaiseCommissioning, Ends, Goes, Idle, At, RegistryTypeOK
    <3> QED  BY <1>2, <3>1, <3>2
  <2>3. \A n \in Machine : n # m => Commissionings(n)' \subseteq Commissionings(n)
    BY <1>2 DEF InsertOrder, RaiseCommissioning, New, Commissionings, History, RegistryTypeOK
  <2>4. \A a \in Request : At(a, "raise") => req[a].machine \in Machine /\ Concerns(req[a], req[a].machine)
    BY Fields DEF At, RegistryTypeOK, Concerns
  <2>5. \A a \in Request : At(a, "raise")' /\ req[a].machine \notin raced' => req[a].machine # m
    BY <1>0, <2>1, <2>2, <2>4 DEF At
  <2> HIDE DEF m
  <2> QED  BY <1>0, <2>2, <2>3, <2>4, <2>5, LookedKept
<1>3. CASE OpenWorkOrderOfType(r)
  <2>1. order' = order /\ raced' = raced
    BY <1>3 DEF OpenWorkOrderOfType, Continue
  <2>2. CASE Goes(r, Idle)
    BY <1>0, <2>1, <2>2, QuietLooked DEF Idle
  <2>3. CASE Goes(r, [req[r] EXCEPT !.pc = "raise"]) /\ Commissionings(req[r].machine) = {}
    <3>1. req'[r].machine = req[r].machine
      BY <1>0, <1>3, <2>3 DEF OpenWorkOrderOfType, At, Goes, Requests, Idle, RegistryTypeOK
    <3> QED  BY <1>0, <2>1, <2>3, <3>1 DEF Looked, At, Commissionings, History
  <2> QED  BY <1>3, <2>2, <2>3 DEF OpenWorkOrderOfType, Ends
<1> QED  BY <1>1, <1>2, <1>3

LEMMA OthersLooked ==
    ASSUME RegistryTypeOK, Looked, req' = req, raced \subseteq raced',
           \/ \E p \in Plant : CreatePlant(p)
           \/ \E o \in Orders : Reopen(o) \/ DeleteWorkOrder(o)
           \/ UNCHANGED vars
    PROVE  Looked'
<1>1. \A a \in Request : At(a, "raise") => req[a].machine \in Machine /\ Concerns(req[a], req[a].machine)
  BY Fields DEF At, RegistryTypeOK, Concerns
<1>2. CASE order' = order
  BY <1>2, LookedKept DEF Commissionings, History
<1>3. ASSUME NEW o \in Orders, DeleteWorkOrder(o) PROVE Looked'
  <2>1. \A m \in Machine : Commissionings(m)' \subseteq Commissionings(m)
    BY <1>3 DEF DeleteWorkOrder, Commissionings, History, RegistryTypeOK
  <2> QED  BY <1>1, <2>1, LookedKept
<1>4. ASSUME NEW o \in Orders, Reopen(o) PROVE Looked'
  <2>1. order[o] \in Order
    BY <1>4 DEF Reopen, RegistryTypeOK
  <2>2. \A n \in Machine : n # order[o].machine => Commissionings(n)' \subseteq Commissionings(n)
    BY <1>4, <2>1 DEF Reopen, Commissionings, History, RegistryTypeOK, Order
  <2>3. \A a \in Request : At(a, "raise") /\ req[a].machine = order[o].machine => req[a].machine \in raced'
    BY <1>1, <1>4 DEF Reopen, Between
  <2> QED  BY <1>1, <2>2, <2>3, LookedKept
<1> QED  BY <1>2, <1>3, <1>4 DEF CreatePlant, vars

\* Only RaiseCommissioning stores an order of its own accord.
LEMMA RaisedByOne ==
    ASSUME RegistryTypeOK, [RegistryNext]_vars, NEW o \in Orders,
           order[o] = Gone, order'[o] # Gone, order'[o].raised
    PROVE  \E r \in Request : At(r, "raise") /\ req[r].machine = order'[o].machine /\ raced' = raced
<1>1. order' # order
  OBVIOUS
<1>2. ASSUME NEW r \in Request, NEW p \in Orders, CompleteWorkOrder(r, p) PROVE FALSE
  BY <1>2 DEF CompleteWorkOrder, RegistryTypeOK
<1>3. ASSUME NEW p \in Orders, Reopen(p) \/ DeleteWorkOrder(p) PROVE FALSE
  BY <1>3 DEF Reopen, DeleteWorkOrder, RegistryTypeOK
<1>4. ASSUME NEW r \in Request, NEW p \in Orders, InsertOrder(r, p) PROVE FALSE
  BY <1>4 DEF InsertOrder, New, RegistryTypeOK
<1>5. ASSUME NEW r \in Request, NEW p \in Orders, RaiseCommissioning(r, p)
      PROVE  At(r, "raise") /\ req[r].machine = order'[o].machine /\ raced' = raced
  BY <1>5 DEF RaiseCommissioning, New, RegistryTypeOK, Continue
<1>6. CASE \E r \in Request :
             \/ \E s \in Section : CreateSection(r, s) \/ DeleteSection(r, s)
             \/ \E p \in Plant : DeletePlant(r, p)
             \/ \E m \in Machine : \/ Rows(r, m)
                                  \/ DeleteAsset(r, m)
                                  \/ \E type \in WOType : CreateWorkOrder(r, m, type)
  BY <1>1, <1>6 DEF CreateSection, DeleteSection, DeletePlant, Rows, Creates, Patches, CreateAsset, PatchAsset, DeleteAsset,
                    CreateWorkOrder
<1>7. CASE \E r \in Request :
             \/ InsertSection(r) \/ DropRoster(r) \/ DeletePlantRow(r) \/ DeleteSectionRow(r)
             \/ WriteAsset(r) \/ CountHistory(r) \/ DeleteAssetRow(r) \/ ReadBack(r) \/ PublishAsset(r)
             \/ MarkInstallationStarted(r) \/ MergeAssetAttrs(r) \/ AfterInstallationWork(r)
             \/ OpenWorkOrderOfType(r) \/ Interrupt(r)
  BY <1>1, <1>7 DEF InsertSection, DropRoster, DeletePlantRow, DeleteSectionRow, WriteAsset, CountHistory,
                    DeleteAssetRow, ReadBack, PublishAsset, MarkInstallationStarted, MergeAssetAttrs,
                    AfterInstallationWork, OpenWorkOrderOfType, Interrupt
<1>8. CASE (\E p \in Plant : CreatePlant(p)) \/ UNCHANGED vars
  BY <1>1, <1>8 DEF CreatePlant, vars
<1> QED  BY <1>2, <1>3, <1>4, <1>5, <1>6, <1>7, <1>8 DEF RegistryNext, Rows, Creates, Patches

LEMMA RaiseStep ==
    ASSUME RegistryTypeOK, Alone, Looked, [RegistryNext]_vars
    PROVE  Alone' /\ Looked'
<1>1. ASSUME NEW r \in Request,
             \/ \E s \in Section : CreateSection(r, s) \/ DeleteSection(r, s)
             \/ \E p \in Plant : DeletePlant(r, p)
             \/ InsertSection(r) \/ DropRoster(r) \/ DeletePlantRow(r) \/ DeleteSectionRow(r)
      PROVE  Alone' /\ Looked'
  <2>1. Steps(r)
    BY <1>1, TreeSteps
  <2> QED  BY <1>1, <2>1, StepAlone, RequestLooked
<1>2. ASSUME NEW r \in Request,
             \/ \E m \in Machine : \/ Rows(r, m)
                                  \/ DeleteAsset(r, m)
             \/ WriteAsset(r) \/ CountHistory(r) \/ DeleteAssetRow(r) \/ ReadBack(r) \/ PublishAsset(r)
      PROVE  Alone' /\ Looked'
  <2>1. Steps(r)
    BY <1>2, MachineSteps
  <2> QED  BY <1>2, <2>1, StepAlone, RequestLooked
<1>3. ASSUME NEW r \in Request,
             \/ \E m \in Machine, type \in WOType : CreateWorkOrder(r, m, type)
             \/ MarkInstallationStarted(r) \/ MergeAssetAttrs(r) \/ AfterInstallationWork(r)
             \/ Interrupt(r)
      PROVE  Alone' /\ Looked'
  <2>1. Steps(r)
    BY <1>3, WorkSteps
  <2> QED  BY <1>3, <2>1, StepAlone, RequestLooked
<1>4. ASSUME NEW r \in Request,
             \/ \E o \in Orders : CompleteWorkOrder(r, o) \/ InsertOrder(r, o) \/ RaiseCommissioning(r, o)
             \/ OpenWorkOrderOfType(r)
      PROVE  Alone' /\ Looked'
  <2>1. Steps(r)
    BY <1>4, WorkSteps
  <2> QED  BY <1>4, <2>1, StepAlone, OrderLooked
<1>5. CASE \/ \E p \in Plant : CreatePlant(p)
           \/ \E o \in Orders : Reopen(o) \/ DeleteWorkOrder(o)
           \/ UNCHANGED vars
  BY <1>5, OthersAlone, OthersLooked
<1> QED  BY <1>1, <1>2, <1>3, <1>4, <1>5 DEF RegistryNext, Rows, Creates, Patches

--------------------------------------------------------------------------------
(* What production is told.                                                  *)

\* The floor production should know a machine to be on.
Word(m) == IF There(m) THEN asset[m].section ELSE Gone

\* Production knows it, or the request is about to read it or to tell it.
Sound(r, m) ==
    \/ At(r, "tell") /\ Concerns(req[r], m) /\ There(m)
    \/ At(r, "publish") /\ Concerns(req[r], m) /\ req[r].floor = Word(m)
    \/ ~(req[r].pc \in {"tell", "publish"} /\ Concerns(req[r], m)) /\ told[m] = Word(m)

Announced == \A m \in Machine \ (raced \cup untold) :
    /\ (\A r \in Request : ~Concerns(req[r], m)) => told[m] = Word(m)
    /\ \A r \in Request : Concerns(req[r], m) => Sound(r, m)

\* A step of a request leaves the machine it is about sound, and others alone.
Tells(r) == \A m \in Machine :
    /\ Concerns(req[r], m) \/ Concerns(req'[r], m) => (Sound(r, m) => m \in untold' \/ Sound(r, m)')
    /\ ~Concerns(req[r], m) /\ ~Concerns(req'[r], m) => asset'[m] = asset[m] /\ told'[m] = told[m]

LEMMA AnnouncedKept ==
    ASSUME RegistryTypeOK, Alone, Announced, NEW r \in Request, Steps(r), Tells(r)
    PROVE  Announced'
<1>0. /\ raced \subseteq raced' /\ untold \subseteq untold'
      /\ \A m \in Machine \ raced' : Concerns(req[r], m) \/ Concerns(req'[r], m) =>
             \A b \in Request \ {r} : ~Concerns(req[b], m)
      /\ \A b \in Request \ {r} : req'[b] = req[b]
  BY StepAlone
<1> SUFFICES ASSUME NEW m \in Machine \ (raced' \cup untold')
             PROVE  /\ (\A a \in Request : ~Concerns(req'[a], m)) => told'[m] = Word(m)'
                    /\ \A a \in Request : Concerns(req'[a], m) => Sound(a, m)'
  BY DEF Announced, Concerns
<1>1. CASE Concerns(req[r], m) \/ Concerns(req'[r], m)
  <2>1. Sound(r, m)
    <3>1. CASE Concerns(req[r], m)
      BY <1>0, <3>1 DEF Announced
    <3>2. CASE ~Concerns(req[r], m)
      <4>1. \A a \in Request : ~Concerns(req[a], m)
        BY <1>0, <1>1, <3>2
      <4>2. told[m] = Word(m)
        BY <1>0, <4>1 DEF Announced
      <4> QED  BY <3>2, <4>2 DEF Sound
    <3> QED  BY <3>1, <3>2
  <2>2. Sound(r, m)'
    BY <1>1, <2>1 DEF Tells
  <2>3. ~Concerns(req'[r], m) => told'[m] = Word(m)'
    BY <2>2 DEF Sound, Concerns, At
  <2>4. \A a \in Request \ {r} : ~Concerns(req'[a], m)
    BY <1>0, <1>1
  <2> QED  BY <2>2, <2>3, <2>4
<1>2. CASE ~Concerns(req[r], m) /\ ~Concerns(req'[r], m)
  <2>1. asset'[m] = asset[m] /\ told'[m] = told[m]
    BY <1>2 DEF Tells
  <2>2. Word(m)' = Word(m)
    BY <2>1 DEF Word, There
  <2>3. (\A a \in Request : ~Concerns(req'[a], m)) => told'[m] = Word(m)'
    BY <1>0, <1>2, <2>1, <2>2 DEF Announced
  <2>4. ASSUME NEW a \in Request, Concerns(req'[a], m) PROVE Sound(a, m)'
    <3>1. a # r /\ req'[a] = req[a]
      BY <1>0, <1>2, <2>4
    <3>2. Sound(a, m)
      BY <1>0, <2>4, <3>1 DEF Announced
    <3> QED  BY <2>1, <2>2, <3>1, <3>2 DEF Sound, At, Concerns, There
  <2> QED  BY <2>3, <2>4
<1> QED  BY <1>1, <1>2

\* The steps that change no machine and tell nothing, and owe nothing before or after.
LEMMA QuietTells ==
    ASSUME RegistryTypeOK, NEW r \in Request, NEW q, Goes(r, q), asset' = asset, told' = told,
           req[r].pc \notin {"tell", "publish"}, q.pc \notin {"tell", "publish"}
    PROVE  Tells(r)
<1>1. req'[r] = q
  BY DEF Goes, RegistryTypeOK
<1>2. \A m \in Machine : Word(m)' = Word(m)
  BY DEF Word, There
<1> QED  BY <1>1, <1>2 DEF Tells, Sound, At

LEMMA TreeTells ==
    ASSUME RegistryTypeOK, NEW r \in Request,
           \/ \E s \in Section : CreateSection(r, s) \/ DeleteSection(r, s)
           \/ \E p \in Plant : DeletePlant(r, p)
           \/ InsertSection(r) \/ DropRoster(r) \/ DeletePlantRow(r) \/ DeleteSectionRow(r)
    PROVE  Tells(r)
<1>0. asset' = asset /\ told' = told
  BY DEF CreateSection, DeleteSection, DeletePlant, InsertSection, DropRoster, DeletePlantRow,
         DeleteSectionRow
<1>1. asset' = asset /\ told' = told /\ req[r].pc \notin {"tell", "publish"}
  <2>1. CASE \/ \E s \in Section : CreateSection(r, s) \/ DeleteSection(r, s)
             \/ \E p \in Plant : DeletePlant(r, p)
    <3>1. req[r] = Idle
      BY <2>1 DEF CreateSection, DeleteSection, DeletePlant, Begin, BeginNaming
    <3> QED  BY <1>0, <3>1 DEF Idle
  <2>2. CASE InsertSection(r) \/ DropRoster(r) \/ DeletePlantRow(r) \/ DeleteSectionRow(r)
    BY <1>0, <2>2 DEF InsertSection, DropRoster, DeletePlantRow, DeleteSectionRow, At
  <2> QED  BY <2>1, <2>2
<1>2. ASSUME NEW s \in Section, CreateSection(r, s) PROVE Tells(r)
  BY <1>1, <1>2, QuietTells DEF CreateSection, Begin, BeginNaming
<1>3. ASSUME NEW s \in Section, DeleteSection(r, s) PROVE Tells(r)
  BY <1>1, <1>3, QuietTells DEF DeleteSection, Begin, BeginNaming
<1>4. ASSUME NEW p \in Plant, DeletePlant(r, p) PROVE Tells(r)
  BY <1>1, <1>4, QuietTells DEF DeletePlant, Begin, BeginNaming
<1>5. CASE InsertSection(r) \/ DeletePlantRow(r) \/ DeleteSectionRow(r)
  BY <1>1, <1>5, QuietTells DEF InsertSection, DeletePlantRow, DeleteSectionRow, Ends, Idle
<1>6. CASE DropRoster(r)
  BY <1>1, <1>6, QuietTells DEF DropRoster
<1> QED  BY <1>2, <1>3, <1>4, <1>5, <1>6

\* The steps that begin, look or write orders.
LEMMA WorkTells ==
    ASSUME RegistryTypeOK, NEW r \in Request,
           \/ \E m \in Machine : \/ Patches(r, m)
                                \/ DeleteAsset(r, m)
                                \/ \E type \in WOType : CreateWorkOrder(r, m, type)
           \/ \E o \in Orders : CompleteWorkOrder(r, o) \/ InsertOrder(r, o) \/ RaiseCommissioning(r, o)
           \/ CountHistory(r) \/ MarkInstallationStarted(r) \/ AfterInstallationWork(r)
           \/ OpenWorkOrderOfType(r)
    PROVE  Tells(r)
<1>0. asset' = asset /\ told' = told
  BY DEF Patches, PatchAsset, DeleteAsset, CreateWorkOrder, CompleteWorkOrder, InsertOrder, RaiseCommissioning,
         CountHistory, MarkInstallationStarted, AfterInstallationWork, OpenWorkOrderOfType
<1>1. /\ asset' = asset /\ told' = told /\ req[r].pc \notin {"tell", "publish"}
      /\ req[r] \in Requests
  <2>1. CASE \/ \E m \in Machine : \/ Patches(r, m)
                                  \/ DeleteAsset(r, m)
                                  \/ \E type \in WOType : CreateWorkOrder(r, m, type)
             \/ \E o \in Orders : CompleteWorkOrder(r, o)
    <3>1. req[r] = Idle
      BY <2>1 DEF Patches, PatchAsset, DeleteAsset, CreateWorkOrder, CompleteWorkOrder, Begin, BeginNaming
    <3> QED  BY <1>0, <3>1 DEF Idle, RegistryTypeOK
  <2>2. CASE \/ \E o \in Orders : InsertOrder(r, o) \/ RaiseCommissioning(r, o)
             \/ CountHistory(r) \/ MarkInstallationStarted(r) \/ AfterInstallationWork(r)
             \/ OpenWorkOrderOfType(r)
    BY <1>0, <2>2 DEF InsertOrder, RaiseCommissioning, CountHistory, MarkInstallationStarted,
                      AfterInstallationWork, OpenWorkOrderOfType, At, RegistryTypeOK
  <2> QED  BY <2>1, <2>2
<1>2. ASSUME NEW m \in Machine, Patches(r, m) PROVE Tells(r)
  <2>1. PICK row \in Row : Goes(r, Write(m, row))
    BY <1>2, Edits DEF BeginNaming
  <2>2. Write(m, row).pc \notin {"tell", "publish"}
    BY DEF Write
  <2> QED  BY <1>1, <2>1, <2>2, QuietTells
<1>3. ASSUME NEW m \in Machine, DeleteAsset(r, m) PROVE Tells(r)
  BY <1>1, <1>3, QuietTells DEF DeleteAsset, Begin, BeginNaming
<1>4. ASSUME NEW m \in Machine, NEW type \in WOType, CreateWorkOrder(r, m, type) PROVE Tells(r)
  BY <1>1, <1>4, QuietTells DEF CreateWorkOrder, Begin, BeginNaming
<1>5. ASSUME NEW o \in Orders, CompleteWorkOrder(r, o) PROVE Tells(r)
  BY <1>1, <1>5, QuietTells DEF CompleteWorkOrder, Begin, BeginNaming
<1>6. ASSUME NEW o \in Orders, InsertOrder(r, o) PROVE Tells(r)
  <2>1. [req[r] EXCEPT !.pc = "mark"].pc = "mark"
    BY <1>1, <1>6 DEF InsertOrder, At, Requests, Idle
  <2> QED  BY <1>1, <1>6, <2>1, QuietTells DEF InsertOrder
<1>7. ASSUME NEW o \in Orders, RaiseCommissioning(r, o) PROVE Tells(r)
  BY <1>1, <1>7, QuietTells DEF RaiseCommissioning, Ends, Idle
<1>8. CASE CountHistory(r)
  <2>1. [req[r] EXCEPT !.pc = "delete"].pc = "delete"
    BY <1>1, <1>8 DEF CountHistory, At, Requests, Idle
  <2>2. Goes(r, Idle) \/ Goes(r, [req[r] EXCEPT !.pc = "delete"])
    BY <1>8 DEF CountHistory, Ends
  <2> QED  BY <1>1, <2>1, <2>2, QuietTells DEF Idle
<1>9. CASE OpenWorkOrderOfType(r)
  <2>1. [req[r] EXCEPT !.pc = "raise"].pc = "raise"
    BY <1>1, <1>9 DEF OpenWorkOrderOfType, At, Requests, Idle
  <2>2. Goes(r, Idle) \/ Goes(r, [req[r] EXCEPT !.pc = "raise"])
    BY <1>9 DEF OpenWorkOrderOfType, Ends
  <2> QED  BY <1>1, <2>1, <2>2, QuietTells DEF Idle
<1>10. CASE MarkInstallationStarted(r) \/ AfterInstallationWork(r)
  <2>1. \E q : Goes(r, q) /\ q.pc \notin {"tell", "publish"}
    BY <1>10 DEF MarkInstallationStarted, AfterInstallationWork, Merge, Idle
  <2> QED  BY <1>1, <2>1, QuietTells
<1> QED  BY <1>2, <1>3, <1>4, <1>5, <1>6, <1>7, <1>8, <1>9, <1>10

\* The steps that change a machine, or announce it.
LEMMA MachineTells ==
    ASSUME RegistryTypeOK, NEW r \in Request,
           \/ \E m \in Machine : Creates(r, m)
           \/ WriteAsset(r) \/ DeleteAssetRow(r) \/ MergeAssetAttrs(r)
           \/ ReadBack(r) \/ PublishAsset(r) \/ Interrupt(r)
    PROVE  Tells(r)
<1>0. /\ req[r] \in Requests /\ asset \in [Machine -> Row \cup {Gone}]
      /\ told \in [Machine -> Section \cup {Gone}] /\ Gone \notin Row
      /\ \A q : Goes(r, q) => req'[r] = q
  BY RegistryAssumption DEF RegistryTypeOK, Goes
<1>1. ASSUME NEW m \in Machine, Creates(r, m) PROVE Tells(r)
  <2>1. PICK row \in Row, news \in SUBSET {m} :
               /\ asset' = [asset EXCEPT ![m] = row] /\ told' = told
               /\ BeginNaming(r, Tell(m, "end"), news)
    BY <1>1, Registers
  <2>2. req[r] = Idle /\ req'[r] = Tell(m, "end")
    BY <1>0, <2>1 DEF BeginNaming
  <2>3. asset'[m] # Gone /\ \A n \in Machine : n # m => asset'[n] = asset[n]
    BY <1>0, <2>1
  <2> QED  BY <2>1, <2>2, <2>3 DEF Tells, Tell, Idle, Concerns, Sound, At, There
<1>2. CASE WriteAsset(r)
  <2> DEFINE m == req[r].machine
  <2>1. m \in Machine /\ req[r].row \in Row
    BY <1>0, <1>2, Fields DEF WriteAsset, At
  <2>2. CASE req'[r] = Tell(m, "end") /\ asset' = [asset EXCEPT ![m] = req[r].row]
    <3>1. asset'[m] # Gone /\ \A n \in Machine : n # m => asset'[n] = asset[n]
      BY <1>0, <2>1, <2>2
    <3> QED  BY <1>2, <2>2, <3>1 DEF WriteAsset, Tells, Tell, Concerns, Sound, At, There
  <2>3. CASE Goes(r, Idle) /\ asset' = asset
    BY <1>2, <2>3, QuietTells DEF WriteAsset, At, Idle
  <2> QED  BY <1>0, <1>2, <2>2, <2>3 DEF WriteAsset, Ends
<1>3. CASE DeleteAssetRow(r)
  <2> DEFINE m == req[r].machine
  <2>1. m \in Machine /\ req[r].pc = "delete"
    BY <1>0, <1>3, Fields DEF DeleteAssetRow, At
  <2>2. /\ req'[r] = [pc |-> "publish", machine |-> m, floor |-> Gone, then |-> "end"]
        /\ asset'[m] = Gone /\ told' = told /\ \A n \in Machine : n # m => asset'[n] = asset[n]
    BY <1>0, <1>3, <2>1 DEF DeleteAssetRow
  <2> QED  BY <2>1, <2>2 DEF Tells, Concerns, Sound, At, There, Word
<1>4. CASE MergeAssetAttrs(r)
  <2> DEFINE m == req[r].machine
  <2>1. m \in Machine /\ req[r].pc = "merge" /\ told' = told
    BY <1>0, <1>4, Fields DEF MergeAssetAttrs, At
  <2>2. CASE There(m)
    <3>1. asset[m] \in Row
      BY <1>0, <2>1, <2>2 DEF There
    <3>2. req'[r] = Tell(m, req[r].then)
      BY <1>0, <1>4, <2>2 DEF MergeAssetAttrs
    <3>3. asset'[m] # Gone /\ \A n \in Machine : n # m => asset'[n] = asset[n]
      <4>1. [asset[m] EXCEPT !.state = IF req[r].set = "none" THEN @ ELSE req[r].set] \in Row
        BY <1>0, <2>1, <3>1, Fields DEF Row
      <4> QED  BY <1>0, <1>4, <2>1, <2>2, <4>1 DEF MergeAssetAttrs
    <3> QED  BY <2>1, <3>2, <3>3 DEF Tells, Tell, Concerns, Sound, At, There
  <2>3. CASE ~There(m)
    <3>1. Then(r).pc \notin {"tell", "publish"}
      BY DEF Then, Idle
    <3> QED  BY <1>4, <2>1, <2>3, <3>1, QuietTells DEF MergeAssetAttrs
  <2> QED  BY <2>2, <2>3
<1>5. CASE ReadBack(r)
  <2> DEFINE m == req[r].machine
  <2>1. /\ m \in Machine /\ req[r].pc = "tell" /\ told' = told /\ asset' = asset
    BY <1>0, <1>5, Fields DEF ReadBack, At
  <2>2. CASE There(m)
    <3>1. req'[r] = [pc |-> "publish", machine |-> m, floor |-> asset[m].section, then |-> req[r].then]
      BY <1>0, <1>5, <2>2 DEF ReadBack
    <3> QED  BY <2>1, <2>2, <3>1 DEF Tells, Concerns, Sound, At, There, Word
  <2>3. CASE ~There(m)
    <3>1. req'[r] = Then(r) /\ \A n \in Machine : Concerns(Then(r), n) => n = m
      BY <1>0, <1>5, <2>3 DEF ReadBack, Then, Concerns, Idle
    <3> QED  BY <2>1, <2>3, <3>1 DEF Tells, Concerns, Sound, At, There
  <2> QED  BY <2>2, <2>3
<1>6. CASE PublishAsset(r)
  <2> DEFINE m == req[r].machine
  <2>1. /\ m \in Machine /\ req[r].pc = "publish" /\ asset' = asset /\ req'[r] = Then(r)
    BY <1>0, <1>6, Fields DEF PublishAsset, At
  <2>2. \/ told' = [told EXCEPT ![m] = req[r].floor]
        \/ told' = told /\ m \in untold'
    BY <1>6 DEF PublishAsset
  <2>3. /\ \A n \in Machine : Concerns(Then(r), n) => n = m
        /\ Then(r).pc \notin {"tell", "publish"}
    BY DEF Then, Concerns, Idle
  <2>4. \A n \in Machine : Word(n)' = Word(n)
    BY <2>1 DEF Word, There
  <2>5. \A n \in Machine : n # m => told'[n] = told[n]
    BY <1>0, <2>1, <2>2
  <2>6. m \in untold' \/ told'[m] = req[r].floor
    BY <1>0, <2>1, <2>2
  <2> QED  BY <2>1, <2>3, <2>4, <2>5, <2>6 DEF Tells, Concerns, Sound, At
<1>7. CASE Interrupt(r)
  <2>1. /\ asset' = asset /\ told' = told /\ req'[r] = Idle
        /\ \A m \in Machine : Concerns(req[r], m) /\ req[r].pc \in {"tell", "publish"} => m \in untold'
    BY <1>0, <1>7 DEF Interrupt, Ends
  <2>2. \A n \in Machine : Word(n)' = Word(n)
    BY <2>1 DEF Word, There
  <2> QED  BY <2>1, <2>2 DEF Tells, Sound, At, Concerns, Idle
<1> QED  BY <1>1, <1>2, <1>3, <1>4, <1>5, <1>6, <1>7

LEMMA ToldStep ==
    ASSUME RegistryTypeOK, Alone, Announced, [RegistryNext]_vars
    PROVE  Alone' /\ Announced'
<1>1. ASSUME NEW r \in Request, Steps(r), Tells(r) PROVE Alone' /\ Announced'
  BY <1>1, StepAlone, AnnouncedKept
<1>2. ASSUME NEW r \in Request,
             \/ \E s \in Section : CreateSection(r, s) \/ DeleteSection(r, s)
             \/ \E p \in Plant : DeletePlant(r, p)
             \/ InsertSection(r) \/ DropRoster(r) \/ DeletePlantRow(r) \/ DeleteSectionRow(r)
      PROVE  Alone' /\ Announced'
  BY <1>1, <1>2, TreeSteps, TreeTells
<1>3. ASSUME NEW r \in Request,
             \/ \E m \in Machine : Patches(r, m)
             \/ \E m \in Machine : DeleteAsset(r, m)
             \/ CountHistory(r)
      PROVE  Alone' /\ Announced'
  <2>1. Steps(r)
    BY <1>3, MachineSteps DEF Rows
  <2>2. Tells(r)
    BY <1>3, WorkTells
  <2> QED  BY <1>1, <2>1, <2>2
<1>4. ASSUME NEW r \in Request,
             \/ \E m \in Machine : Creates(r, m)
             \/ WriteAsset(r) \/ DeleteAssetRow(r) \/ ReadBack(r) \/ PublishAsset(r)
      PROVE  Alone' /\ Announced'
  <2>1. Steps(r)
    BY <1>4, MachineSteps DEF Rows
  <2>2. Tells(r)
    BY <1>4, MachineTells
  <2> QED  BY <1>1, <2>1, <2>2
<1>5. ASSUME NEW r \in Request,
             \/ \E m \in Machine, type \in WOType : CreateWorkOrder(r, m, type)
             \/ \E o \in Orders : CompleteWorkOrder(r, o) \/ InsertOrder(r, o) \/ RaiseCommissioning(r, o)
             \/ MarkInstallationStarted(r) \/ AfterInstallationWork(r) \/ OpenWorkOrderOfType(r)
      PROVE  Alone' /\ Announced'
  <2>1. Steps(r)
    BY <1>5, WorkSteps
  <2>2. Tells(r)
    BY <1>5, WorkTells
  <2> QED  BY <1>1, <2>1, <2>2
<1>6. ASSUME NEW r \in Request, MergeAssetAttrs(r) \/ Interrupt(r)
      PROVE  Alone' /\ Announced'
  BY <1>1, <1>6, WorkSteps, MachineTells
<1>7. CASE \/ \E p \in Plant : CreatePlant(p)
           \/ \E o \in Orders : Reopen(o) \/ DeleteWorkOrder(o)
           \/ UNCHANGED vars
  <2>1. /\ Alone' /\ req' = req /\ raced \subseteq raced' /\ untold' = untold
        /\ asset' = asset /\ told' = told
    BY <1>7, OthersAlone
  <2>2. \A m \in Machine : Word(m)' = Word(m)
    BY <2>1 DEF Word, There
  <2> QED  BY <2>1, <2>2 DEF Announced, Sound, At, There
<1> QED  BY <1>2, <1>3, <1>4, <1>5, <1>6, <1>7 DEF RegistryNext, Rows, Creates, Patches

--------------------------------------------------------------------------------
(* Theorems.                                                                 *)

\* Whatever requests overlap or break off, a floor is in a factory and a machine on a floor
\* that exist; and unless a request ever named another factory for the machine (plants.go:453,
\* 523), the copy of the factory on its row (plants.go:569) is its floor's: a stale row that
\* is written back agrees with itself, and the foreign keys refuse it when its floor is gone.
THEOREM TreeKeepsStanding == RegistrySpec => [](RegistryTypeOK /\ TreeStands /\ PlantFollowsSection)
<1>1. RegistryInit => RegistryTypeOK /\ Kept
  BY InitTyped, InitKept
<1>2. RegistryTypeOK /\ Kept /\ [RegistryNext]_vars => (RegistryTypeOK /\ Kept)'
  BY StepTyped, StepKept
<1>3. RegistryTypeOK /\ Kept => RegistryTypeOK /\ TreeStands /\ PlantFollowsSection
  BY DEF Kept
<1> QED  BY <1>1, <1>2, <1>3, PTL DEF RegistrySpec

\* A completed installation raises a commissioning job only for a machine that has none
\* open (OneCommissioningRaised of Registry; installation.go:431-432), however many
\* machines, orders and requests there are, unless two requests on it overlapped.
THEOREM RaisesOnce == RegistrySpec => OneCommissioningRaised
<1> DEFINE Inv == RegistryTypeOK /\ Alone /\ Looked
<1>1. RegistryInit => Inv
  <2>1. RegistryInit => Alone /\ Looked
    BY DEF RegistryInit, Alone, Looked, Concerns, At, Idle
  <2> QED  BY <2>1, InitTyped
<1>2. Inv /\ [RegistryNext]_vars => Inv'
  BY StepTyped, RaiseStep
<1>3. Inv /\ [RegistryNext]_vars =>
          [\A o \in Orders :
              order[o] = Gone /\ order'[o] # Gone /\ order'[o].raised =>
                  order'[o].machine \in raced' \/ Commissionings(order'[o].machine) = {}]_vars
  <2> SUFFICES ASSUME Inv, [RegistryNext]_vars, NEW o \in Orders,
                      order[o] = Gone, order'[o] # Gone, order'[o].raised,
                      order'[o].machine \notin raced'
               PROVE  Commissionings(order'[o].machine) = {}
    OBVIOUS
  <2>1. PICK r \in Request : At(r, "raise") /\ req[r].machine = order'[o].machine /\ raced' = raced
    BY RaisedByOne
  <2>2. req[r].machine \in Machine
    BY <2>1, Fields DEF RegistryTypeOK, At
  <2> QED  BY <2>1, <2>2 DEF Looked
<1> HIDE DEF Inv
<1> QED  BY <1>1, <1>2, <1>3, PTL DEF RegistrySpec, OneCommissioningRaised

\* Production's last word on a machine is true once its requests are done (ToldTheTruth of
\* Registry; plants.go:468, 731), for any number of machines, orders and requests, unless two
\* requests on it overlapped or an announcement failed.
THEOREM LastWordIsTrue == RegistrySpec => []ToldTheTruth
<1> DEFINE Inv == RegistryTypeOK /\ Alone /\ Announced
<1>1. RegistryInit => Inv
  <2>1. RegistryInit => Alone /\ Announced
    BY DEF RegistryInit, Alone, Announced, Concerns, Idle, Word, There
  <2> QED  BY <2>1, InitTyped
<1>2. Inv /\ [RegistryNext]_vars => Inv'
  BY StepTyped, ToldStep
<1>3. Inv => ToldTheTruth
  BY DEF Announced, ToldTheTruth, Word
<1> HIDE DEF Inv
<1> QED  BY <1>1, <1>2, <1>3, PTL DEF RegistrySpec

================================================================================
