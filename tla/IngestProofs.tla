----------------------------- MODULE IngestProofs -----------------------------
(***************************************************************************)
(* What holds of the consumer for any processes, messages and faults.      *)
(***************************************************************************)
EXTENDS Ingest, TLAPS

\* What a process has passed is done, but for the message in its hands; a message is
\* committed once it was handled.
Passed ==
    \A c \in Consumers :
        /\ \A i \in 1 .. reader[c].pos : i \in handled \cup failed \/ (InHand(c) /\ i = reader[c].at)
        /\ InHand(c) => \A i \in 1 .. reader[c].at : i = reader[c].at \/ i \in handled \cup failed
        /\ At(c, "commit") => reader[c].at \in handled

\* A message in the hands of a process that lost the partition meanwhile is marked.
Hands ==
    \A c \in Consumers : InHand(c) =>
        IF reader[c].late THEN KeyOf(c) \in overlapped ELSE owner = c

\* A breach about to be raised has no alert yet.
Raising ==
    \A c \in Consumers : At(c, "raise") /\ KeyOf(c) \notin overlapped => alerts[KeyOf(c)] = 0

\* Only plants are offered lists, and they hold nothing else.
OnlyPlants ==
    /\ \A k \in Keys \ Plants : offered[k] = {}
    /\ \A k \in Plants : offered[k] = {} => row[k] = 0

\* The writers of the tables that are not the consumer.
Others == (\E k \in Batches : ValidateBatchRef(k)) \/ ReadAsset \/ WriteAsset

LEMMA OthersLeave ==
    ASSUME Others
    PROVE  /\ UNCHANGED <<log, end, committed, owner, reader, alerts, known, history>>
           /\ UNCHANGED <<handled, failed, overlapped, jumped, offered, crossed>>
  BY DEF Others, ValidateBatchRef, ReadAsset, WriteAsset, history

LEMMA InitTyped == IngestInit => IngestTypeOK
<1> SUFFICES ASSUME IngestInit PROVE IngestTypeOK
  OBVIOUS
<1>1. Len(log) \in Nat
  BY IngestAssumption DEF IngestInit
<1>2. reader \in [Consumers -> Reader] /\ \A c \in Consumers : reader[c].pos = 0 /\ ~InHand(c)
  BY DEF IngestInit, Reader, NotRunning, InHand
<1>3. /\ row \in [Keys -> 0 .. ByHand] /\ \A k \in Keys : row[k] # ByHand
      /\ oee \in 0 .. ByHand /\ end \in 0 .. Len(log) /\ committed \in 0 .. end
  BY <1>1 DEF IngestInit, ByHand
<1>4. /\ log \in Logs /\ owner \in Consumers \cup {NoOne} /\ alerts \in [Keys -> Nat]
      /\ known \subseteq Plants /\ events \in Nat /\ edits \subseteq 0 .. ByHand
  BY DEF IngestInit
<1>5. /\ handled \subseteq Offset /\ failed \subseteq Offset /\ overlapped \subseteq Keys
      /\ jumped \subseteq Keys /\ offered \in [Keys -> SUBSET Offset] /\ crossed \in BOOLEAN
  BY DEF IngestInit
<1>6. \A c \in Consumers : reader[c].pos <= end /\ (InHand(c) => reader[c].at \in 1 .. end)
  BY <1>2, <1>3
<1> QED  BY <1>2, <1>3, <1>4, <1>5, <1>6 DEF IngestTypeOK

LEMMA LogTyped ==
    ASSUME IngestTypeOK
    PROVE  /\ log \in Seq(Message) /\ Len(log) \in Nat
           /\ \A i \in 1 .. Len(log) : log[i] \in Message
           /\ \A i \in 1 .. Len(log) : log[i].kind = "shifts" <=> log[i].key \in Plants
           /\ \A i \in 1 .. Len(log) : log[i].key \in Keys /\ log[i].at \in Nat
           /\ \A i \in 1 .. Len(log) : log[i].kind = "rollup" => log[i].key \notin Batches
<1>1. log \in Seq(Message)
  BY IngestAssumption DEF IngestTypeOK
<1>2. \A i \in 1 .. Len(log) : log[i] \in Message
  BY <1>1
<1> QED  BY <1>1, <1>2, IngestAssumption DEF IngestTypeOK, Message

LEMMA InHandTyped ==
    ASSUME IngestTypeOK, NEW c \in Consumers, InHand(c)
    PROVE  /\ reader[c].at \in 1 .. Len(log) /\ KeyOf(c) \in Keys
           /\ reader[c].at \in 1 .. end /\ end \in Nat /\ reader[c].at \in Offset
<1>1. reader[c].at \in 1 .. end /\ end \in 0 .. Len(log) /\ Len(log) \in Nat
  BY LogTyped DEF IngestTypeOK
<1>2. reader[c].at \in 1 .. Len(log)
  BY <1>1
<1> QED  BY <1>1, <1>2, LogTyped DEF KeyOf, Offset

--------------------------------------------------------------------------------
(* Types.                                                                    *)

LEMMA ProjectedTyped ==
    ASSUME IngestTypeOK, NEW i \in Offset, Projected(i)
    PROVE  /\ row' \in [Keys -> 0 .. ByHand] /\ \A k \in Keys \ Batches : row'[k] # ByHand
           /\ oee' \in 0 .. ByHand /\ crossed' \in BOOLEAN
           /\ alerts' = alerts /\ edits' = edits /\ offered' \in [Keys -> SUBSET Offset]
<1>1. i \in 0 .. ByHand /\ i # ByHand /\ log[i].key \in Keys
  BY LogTyped DEF Offset, ByHand
<1>2. CASE UpsertBatchRef(i)
  BY <1>1, <1>2 DEF UpsertBatchRef, IngestTypeOK
<1>3. CASE ApplyProductionRollup(i)
  BY <1>1, <1>3 DEF ApplyProductionRollup, IngestTypeOK
<1>4. CASE ApplyProductionShifts(i)
  <2>1. row' = row \/ row' = [row EXCEPT ![log[i].key] = i]
    BY <1>1, <1>4 DEF ApplyProductionShifts, IngestTypeOK
  <2>2. row' \in [Keys -> 0 .. ByHand] /\ \A k \in Keys \ Batches : row'[k] # ByHand
    BY <1>1, <2>1 DEF IngestTypeOK
  <2>3. offered \in [Keys -> SUBSET Offset] /\ oee \in 0 .. ByHand /\ crossed \in BOOLEAN
    BY DEF IngestTypeOK
  <2>4. offered' \in [Keys -> SUBSET Offset]
    <3>1. offered' = offered \/ offered' = [offered EXCEPT ![log[i].key] = @ \cup {i}]
      BY <1>4 DEF ApplyProductionShifts
    <3> QED  BY <2>3, <3>1
  <2> QED  BY <1>4, <2>2, <2>3, <2>4 DEF ApplyProductionShifts
<1> QED  BY <1>2, <1>3, <1>4 DEF Projected

LEMMA OthersTyped == IngestTypeOK /\ Others => IngestTypeOK'
<1> SUFFICES ASSUME IngestTypeOK, Others PROVE IngestTypeOK'
  OBVIOUS
<1>1. Len(log) \in Nat /\ ByHand \in 0 .. ByHand
  BY LogTyped DEF ByHand
<1>2. row' \in [Keys -> 0 .. ByHand] /\ \A k \in Keys \ Batches : row'[k] # ByHand
  <2>1. CASE row' = row
    BY <2>1 DEF IngestTypeOK
  <2>2. CASE \E k \in Batches : row' = [row EXCEPT ![k] = ByHand]
    BY <1>1, <2>2 DEF IngestTypeOK
  <2> QED  BY <2>1, <2>2 DEF Others, ValidateBatchRef, ReadAsset, WriteAsset
<1>3. oee' \in 0 .. ByHand /\ edits' \subseteq 0 .. ByHand
  BY <1>1 DEF Others, ValidateBatchRef, ReadAsset, WriteAsset, IngestTypeOK
<1>4. events' \in Nat
  BY DEF Others, ValidateBatchRef, ReadAsset, WriteAsset, IngestTypeOK, Event
<1> QED  BY <1>2, <1>3, <1>4, OthersLeave DEF IngestTypeOK, InHand, Offset, ByHand

LEMMA AnswerTyped ==
    ASSUME IngestTypeOK, NEW c \in Consumers, InHand(c), Succeeds(c) \/ Fails(c)
    PROVE  /\ reader' \in [Consumers -> Reader] /\ events' \in Nat
           /\ \A b \in Consumers : reader'[b].pos = reader[b].pos /\ reader'[b].at = reader[b].at
           /\ \A b \in Consumers : b # c => reader'[b] = reader[b]
           /\ handled' \subseteq Offset /\ failed' \subseteq Offset
<1>1. reader[c].at \in Offset
  BY InHandTyped
<1>2. CASE Succeeds(c)
  BY <1>1, <1>2 DEF Succeeds, Goes, Takes, IngestTypeOK, Reader
<1>3. CASE Fails(c)
  <2> DEFINE new == [reader[c] EXCEPT !.pc = "fetch", !.late = FALSE]
  <2>1. new \in Reader /\ new.pos = reader[c].pos /\ new.at = reader[c].at
    BY DEF IngestTypeOK, Reader
  <2>2. reader' = [reader EXCEPT ![c] = new]
    BY <1>3 DEF Fails, IngestTypeOK, Reader
  <2> HIDE DEF new
  <2>3. reader \in [Consumers -> Reader] /\ events \in Nat /\ handled \subseteq Offset /\ failed \subseteq Offset
    BY DEF IngestTypeOK
  <2>4. events' \in Nat /\ handled' \subseteq Offset /\ failed' \subseteq Offset
    BY <1>1, <1>3, <2>3 DEF Fails, Event
  <2>5. reader' \in [Consumers -> Reader] /\ \A b \in Consumers : b # c => reader'[b] = reader[b]
    BY <2>1, <2>2, <2>3
  <2>6. reader'[c] = new
    BY <2>2, <2>3
  <2> QED  BY <2>1, <2>4, <2>5, <2>6
<1> QED  BY <1>2, <1>3

LEMMA StepTyped == IngestTypeOK /\ [IngestNext]_vars => IngestTypeOK'
<1> SUFFICES ASSUME IngestTypeOK, [IngestNext]_vars PROVE IngestTypeOK'
  OBVIOUS
<1>0. Len(log) \in Nat
  BY LogTyped
<1>1. CASE Publish
  <2>1. end' = end + 1 /\ end' \in 0 .. Len(log) /\ UNCHANGED <<log, committed, reader, owner>>
    BY <1>0, <1>1 DEF Publish, IngestTypeOK
  <2>2. committed' \in 0 .. end'
    BY <2>1 DEF IngestTypeOK
  <2>3. \A c \in Consumers : reader[c].pos \in Nat /\ reader[c].at \in Nat
    BY DEF IngestTypeOK, Reader
  <2>4. \A c \in Consumers : reader'[c].pos <= end' /\ (InHand(c)' => reader'[c].at \in 1 .. end')
    BY <2>1, <2>3 DEF IngestTypeOK, InHand
  <2> QED  BY <1>1, <2>1, <2>2, <2>4 DEF Publish, IngestTypeOK, Offset, ByHand, tables, history
<1>2. ASSUME NEW k \in Plants, CreatePlant(k) PROVE IngestTypeOK'
  BY <1>2 DEF CreatePlant, IngestTypeOK, InHand, Offset, ByHand, tables, history
<1>3. ASSUME NEW c \in Consumers, FetchMessage(c) PROVE IngestTypeOK'
  <2>1. reader[c].pos \in Nat /\ reader[c].pos + 1 \in 1 .. end
    BY <1>3, <1>0 DEF FetchMessage, IngestTypeOK, Reader
  <2> DEFINE new == [pc |-> "handle", at |-> reader[c].pos + 1, pos |-> reader[c].pos + 1, late |-> FALSE]
  <2>2. new \in Reader /\ new.pos <= end /\ new.at \in 1 .. end
    BY <2>1, <1>0 DEF Reader, IngestTypeOK
  <2>3. reader' = [reader EXCEPT ![c] = new]
    BY <1>3 DEF FetchMessage
  <2> HIDE DEF new
  <2> QED  BY <1>3, <2>2, <2>3 DEF FetchMessage, IngestTypeOK, InHand, Offset, ByHand, tables, history
<1>4. ASSUME NEW c \in Consumers, HandleMessage(c) PROVE IngestTypeOK'
  <2>1. InHand(c) /\ reader[c].at \in Offset
    BY <1>4, InHandTyped DEF HandleMessage, At, InHand
  <2>2. Succeeds(c) \/ Fails(c)
    BY <1>4 DEF HandleMessage
  <2>3. /\ row' \in [Keys -> 0 .. ByHand] /\ \A k \in Keys \ Batches : row'[k] # ByHand
        /\ oee' \in 0 .. ByHand /\ crossed' \in BOOLEAN
        /\ alerts' = alerts /\ edits' = edits /\ offered' \in [Keys -> SUBSET Offset]
    BY <1>4, <2>1, ProjectedTyped DEF HandleMessage, tables, IngestTypeOK
  <2>4. \A b \in Consumers : InHand(b)' => InHand(b)
    BY <2>1, <2>2, AnswerTyped DEF InHand
  <2> QED  BY <1>4, <2>1, <2>2, <2>3, <2>4, AnswerTyped DEF HandleMessage, IngestTypeOK, Offset, ByHand, tables
<1>5. ASSUME NEW c \in Consumers, RaiseProductionBreach(c) PROVE IngestTypeOK'
  <2>1. InHand(c)
    BY <1>5 DEF RaiseProductionBreach, At, InHand
  <2>2. CASE Succeeds(c) \/ Fails(c)
    <3>1. \A b \in Consumers : InHand(b)' => InHand(b)
      BY <2>1, <2>2, AnswerTyped DEF InHand
    <3> QED  BY <1>5, <2>1, <2>2, <3>1, AnswerTyped DEF RaiseProductionBreach, IngestTypeOK, Offset, ByHand, tables
  <2>3. CASE Goes(c, "raise") /\ UNCHANGED <<events, handled, failed>>
    BY <1>5, <2>1, <2>3 DEF RaiseProductionBreach, Goes, IngestTypeOK, Offset, ByHand, tables, InHand, Reader
  <2> QED  BY <1>5, <2>2, <2>3 DEF RaiseProductionBreach
<1>6. ASSUME NEW c \in Consumers, CreateAlert(c) PROVE IngestTypeOK'
  <2>1. InHand(c) /\ KeyOf(c) \in Keys
    BY <1>6, InHandTyped DEF CreateAlert, At, InHand
  <2>2. Succeeds(c) \/ Fails(c)
    BY <1>6 DEF CreateAlert
  <2>3. alerts' \in [Keys -> Nat]
    BY <1>6, <2>1 DEF CreateAlert, IngestTypeOK
  <2>4. \A b \in Consumers : InHand(b)' => InHand(b)
    BY <2>1, <2>2, AnswerTyped DEF InHand
  <2> QED  BY <1>6, <2>1, <2>2, <2>3, <2>4, AnswerTyped DEF CreateAlert, IngestTypeOK, Offset, ByHand, tables
<1>7. ASSUME NEW c \in Consumers, CommitMessages(c) PROVE IngestTypeOK'
  <2>1. InHand(c) /\ reader[c].at \in 0 .. end
    BY <1>7, InHandTyped DEF CommitMessages, At, InHand
  <2>2. /\ reader' \in [Consumers -> Reader]
        /\ \A b \in Consumers : /\ reader'[b].pos = reader[b].pos /\ reader'[b].at = reader[b].at
                                /\ InHand(b)' => InHand(b)
    BY <1>7 DEF CommitMessages, IngestTypeOK, Reader, InHand
  <2>3. committed' \in 0 .. end
    BY <1>7, <2>1 DEF CommitMessages, IngestTypeOK
  <2>4. jumped' \subseteq Keys
    <3>1. committed + 1 .. reader[c].at \subseteq 1 .. Len(log)
      BY <2>1, <1>0 DEF IngestTypeOK
    <3>2. \A i \in 1 .. Len(log) : log[i].key \in Keys
      BY LogTyped
    <3>3. {log[i].key : i \in {j \in committed + 1 .. reader[c].at : reader[c].late}} \subseteq Keys
      BY <3>1, <3>2
    <3>4. jumped \subseteq Keys
      BY DEF IngestTypeOK
    <3> QED  BY <1>7, <3>3, <3>4 DEF CommitMessages
  <2> QED  BY <1>7, <2>2, <2>3, <2>4 DEF CommitMessages, IngestTypeOK, Offset, ByHand, tables
<1>8. ASSUME NEW c \in Consumers, Crash(c) PROVE IngestTypeOK'
  <2>1. NotRunning \in Reader /\ NotRunning.pos = 0 /\ NotRunning.pc = "down"
    BY DEF NotRunning, Reader
  <2> QED  BY <1>8, <2>1, <1>0 DEF Crash, IngestTypeOK, InHand, Offset, ByHand, tables, history, Event
<1>9. ASSUME NEW c \in Consumers, Start(c) PROVE IngestTypeOK'
  BY <1>9, <1>0 DEF Start, Up, IngestTypeOK, InHand, Offset, ByHand, tables, history, Reader
<1>10. ASSUME NEW c \in Consumers, Assign(c) PROVE IngestTypeOK'
  <2> DEFINE held == {b \in Consumers : b = owner /\ InHand(b)}
  <2>1. \A b \in held : KeyOf(b) \in Keys
    BY InHandTyped
  <2>2. /\ reader' = [b \in Consumers |->
                        IF b = c THEN [reader[b] EXCEPT !.pos = committed]
                        ELSE [reader[b] EXCEPT !.late = @ \/ b \in held]]
        /\ overlapped' = overlapped \cup {KeyOf(b) : b \in held}
        /\ events' \in Nat
    BY <1>10 DEF Assign, Event, IngestTypeOK
  <2>3. overlapped' \subseteq Keys
    BY <2>1, <2>2 DEF IngestTypeOK
  <2> HIDE DEF held
  <2>4. committed \in Nat /\ committed <= end
    BY <1>0 DEF IngestTypeOK
  <2>5. \A b \in Consumers : reader'[b] \in Reader /\ reader'[b].pos <= end
    BY <2>2, <2>4 DEF IngestTypeOK, Reader
  <2>6. \A b \in Consumers : reader'[b].at = reader[b].at /\ reader'[b].pc = reader[b].pc
    BY <2>2 DEF IngestTypeOK, Reader
  <2>7. reader' \in [Consumers -> Reader]
    BY <2>2, <2>5
  <2> QED  BY <1>10, <2>2, <2>3, <2>5, <2>6, <2>7 DEF Assign, IngestTypeOK, InHand, Offset, ByHand, tables, history
<1>11. CASE UNCHANGED vars
  BY <1>11 DEF vars, tables, history, IngestTypeOK, InHand, Offset, ByHand
<1> QED
  BY <1>1, <1>2, <1>3, <1>4, <1>5, <1>6, <1>7, <1>8, <1>9, <1>10, <1>11, OthersTyped
     DEF IngestNext, Run, Others

--------------------------------------------------------------------------------
(* What a step may do to one process, and to what is done.                   *)

LEMMA DoneGrows ==
    ASSUME IngestTypeOK, [IngestNext]_vars
    PROVE  /\ handled \subseteq handled' /\ failed \subseteq failed' /\ log' = log
           /\ overlapped \subseteq overlapped'
<1>1. ASSUME NEW c \in Consumers, Run(c)
      PROVE  handled \subseteq handled' /\ failed \subseteq failed' /\ log' = log /\ overlapped' = overlapped
  BY <1>1 DEF Run, FetchMessage, HandleMessage, RaiseProductionBreach, CreateAlert, CommitMessages,
              Succeeds, Fails, Takes, history
<1> QED
  BY <1>1, OthersLeave DEF IngestNext, Others, Publish, CreatePlant, Crash, Start, Assign, vars, history

\* A step of c's loop leaves the other processes alone.
LEMMA RunIsLocal ==
    ASSUME IngestTypeOK, NEW c \in Consumers, Run(c), NEW b \in Consumers, b # c
    PROVE  reader'[b] = reader[b]
  BY DEF Run, FetchMessage, HandleMessage, RaiseProductionBreach, CreateAlert, CommitMessages,
         Succeeds, Fails, Goes, IngestTypeOK

\* What a step of c's loop makes of c.
LEMMA RunSteps ==
    ASSUME IngestTypeOK, Passed, NEW c \in Consumers, Run(c)
    PROVE  \/ /\ At(c, "fetch") /\ owner = c /\ reader'[c].pc = "handle"
              /\ reader'[c].at = reader[c].pos + 1 /\ reader'[c].pos = reader[c].pos + 1
              /\ reader'[c].late = FALSE
           \/ /\ At(c, "handle") /\ reader'[c] = [reader[c] EXCEPT !.pc = "raise"]
              /\ alerts[KeyOf(c)] = 0 /\ UNCHANGED alerts
           \/ /\ InHand(c) /\ reader'[c] = [reader[c] EXCEPT !.pc = "commit"]
              /\ reader[c].at \in handled'
           \/ /\ InHand(c) /\ reader'[c].pc = "fetch" /\ reader'[c].pos = reader[c].pos
              /\ reader[c].at \in handled' \cup failed'
<1> USE DEF IngestTypeOK, Reader, At, InHand
<1>1. CASE FetchMessage(c)
  BY <1>1 DEF FetchMessage
<1>2. CASE Succeeds(c) /\ InHand(c)
  BY <1>2 DEF Succeeds, Goes, Takes
<1>3. CASE Fails(c) /\ InHand(c)
  BY <1>3 DEF Fails
<1>4. CASE HandleMessage(c)
  BY <1>2, <1>3, <1>4 DEF HandleMessage
<1>5. CASE RaiseProductionBreach(c)
  BY <1>2, <1>3, <1>5 DEF RaiseProductionBreach, Goes, tables
<1>6. CASE CreateAlert(c)
  BY <1>2, <1>3, <1>6 DEF CreateAlert
<1>7. CASE CommitMessages(c)
  BY <1>7 DEF CommitMessages, Passed, history
<1> QED  BY <1>1, <1>4, <1>5, <1>6, <1>7 DEF Run

--------------------------------------------------------------------------------
(* Nothing is skipped.                                                       *)

LEMMA PassedKept ==
    ASSUME IngestTypeOK, Passed, NothingSkipped, [IngestNext]_vars
    PROVE  Passed'
<1> DEFINE Done == handled \cup failed
           Good(r, D) ==
               /\ \A i \in 1 .. r.pos : i \in D \/ (r.pc \in {"handle", "raise", "commit"} /\ i = r.at)
               /\ r.pc \in {"handle", "raise", "commit"} => \A i \in 1 .. r.at : i = r.at \/ i \in D
<1>0. Done \subseteq Done' /\ handled \subseteq handled'
  BY DoneGrows
<1>1. \A c \in Consumers : Good(reader[c], Done) /\ reader[c].pos \in Nat
  BY DEF Passed, InHand, IngestTypeOK, Reader
<1>3. ASSUME NEW c \in Consumers, reader'[c] = reader[c]
      PROVE  Good(reader'[c], Done') /\ (reader'[c].pc = "commit" => reader'[c].at \in handled')
  BY <1>0, <1>1, <1>3 DEF Passed, At
<1>4. ASSUME NEW c \in Consumers, Run(c), NEW b \in Consumers
      PROVE  Good(reader'[b], Done') /\ (reader'[b].pc = "commit" => reader'[b].at \in handled')
  <2>1. CASE b # c
    BY <1>3, <1>4, <2>1, RunIsLocal
  <2>2. CASE At(c, "fetch") /\ reader'[c].pc = "handle"
             /\ reader'[c].at = reader[c].pos + 1 /\ reader'[c].pos = reader[c].pos + 1
    <3>1. \A i \in 1 .. reader[c].pos : i \in Done
      BY <1>1, <2>2 DEF At
    <3>2. \A i \in 1 .. reader[c].pos + 1 : i = reader[c].pos + 1 \/ i \in Done'
      BY <1>0, <1>1, <3>1
    <3>3. Good(reader'[c], Done')
      BY <2>2, <3>2
    <3> QED  BY <2>1, <2>2, <3>3
  <2>3. CASE /\ InHand(c)
             /\ \/ reader'[c] = [reader[c] EXCEPT !.pc = "raise"]
                \/ reader'[c] = [reader[c] EXCEPT !.pc = "commit"] /\ reader[c].at \in handled'
    <3>1. /\ reader'[c].pos = reader[c].pos /\ reader'[c].at = reader[c].at
          /\ reader'[c].pc \in {"raise", "commit"}
          /\ reader'[c].pc = "commit" => reader[c].at \in handled'
      BY <2>3 DEF IngestTypeOK, Reader
    <3>2. Good(reader'[c], Done')
      BY <1>0, <1>1, <2>3, <3>1 DEF InHand
    <3> QED  BY <2>1, <3>1, <3>2
  <2>4. CASE /\ InHand(c) /\ reader'[c].pc = "fetch" /\ reader'[c].pos = reader[c].pos
             /\ reader[c].at \in handled' \cup failed'
    BY <1>0, <1>1, <2>1, <2>4 DEF InHand
  <2> QED  BY <1>4, <2>1, <2>2, <2>3, <2>4, RunSteps DEF At, InHand
<1>5. ASSUME NEW c \in Consumers, Crash(c), NEW b \in Consumers
      PROVE  Good(reader'[b], Done') /\ (reader'[b].pc = "commit" => reader'[b].at \in handled')
  <2>1. CASE b # c
    BY <1>3, <1>5, <2>1 DEF Crash, IngestTypeOK
  <2>2. CASE b = c
    BY <1>5, <2>2 DEF Crash, IngestTypeOK, NotRunning
  <2> QED  BY <2>1, <2>2
<1>6. ASSUME NEW c \in Consumers, Start(c), NEW b \in Consumers
      PROVE  Good(reader'[b], Done') /\ (reader'[b].pc = "commit" => reader'[b].at \in handled')
  <2>1. CASE b # c
    BY <1>3, <1>6, <2>1 DEF Start, IngestTypeOK
  <2>2. CASE b = c
    <3>1. reader[c].pc = "down" /\ reader'[c].pc = "fetch" /\ reader'[c].pos = reader[c].pos
      BY <1>6 DEF Start, Up, IngestTypeOK, Reader
    <3> QED  BY <1>0, <1>1, <2>2, <3>1
  <2> QED  BY <2>1, <2>2
<1>7. ASSUME NEW c \in Consumers, Assign(c), NEW b \in Consumers
      PROVE  Good(reader'[b], Done') /\ (reader'[b].pc = "commit" => reader'[b].at \in handled')
  <2>1. /\ reader'[b].pc = reader[b].pc /\ reader'[b].at = reader[b].at
        /\ reader'[b].pos = IF b = c THEN committed ELSE reader[b].pos
    BY <1>7 DEF Assign, IngestTypeOK, Reader
  <2>2. \A i \in 1 .. committed : i \in Done'
    BY <1>0 DEF NothingSkipped
  <2>3. reader'[b].pc = "commit" => reader'[b].at \in handled'
    BY <1>0, <2>1 DEF Passed, At
  <2> QED  BY <1>0, <1>1, <2>1, <2>2, <2>3
<1>8. ASSUME Publish \/ (\E k \in Plants : CreatePlant(k)) \/ Others \/ UNCHANGED vars, NEW b \in Consumers
      PROVE  Good(reader'[b], Done') /\ (reader'[b].pc = "commit" => reader'[b].at \in handled')
  BY <1>3, <1>8, OthersLeave DEF Publish, CreatePlant, vars
<1>9. \A c \in Consumers : /\ Good(reader'[c], Done')
                           /\ reader'[c].pc = "commit" => reader'[c].at \in handled'
  BY <1>4, <1>5, <1>6, <1>7, <1>8 DEF IngestNext, Others
<1>10. \A c \in Consumers :
          /\ \A i \in 1 .. reader'[c].pos :
                i \in handled' \cup failed' \/ (InHand(c)' /\ i = reader'[c].at)
          /\ InHand(c)' => \A i \in 1 .. reader'[c].at :
                               i = reader'[c].at \/ i \in handled' \cup failed'
          /\ At(c, "commit")' => reader'[c].at \in handled'
  <2> TAKE c \in Consumers
  <2>1. InHand(c)' <=> reader'[c].pc \in {"handle", "raise", "commit"}
    BY DEF InHand
  <2>2. At(c, "commit")' <=> reader'[c].pc = "commit"
    BY DEF At
  <2>3. Good(reader'[c], Done') /\ (reader'[c].pc = "commit" => reader'[c].at \in handled')
    BY <1>9
  <2> QED  BY <2>1, <2>2, <2>3
<1> QED  BY <1>10 DEF Passed

LEMMA SkippedKept ==
    ASSUME IngestTypeOK, Passed, NothingSkipped, [IngestNext]_vars
    PROVE  NothingSkipped'
<1>0. handled \subseteq handled' /\ failed \subseteq failed'
  BY DoneGrows
<1>1. ASSUME NEW c \in Consumers, CommitMessages(c) PROVE NothingSkipped'
  <2>1. \A i \in 1 .. reader[c].at : i \in handled \cup failed
    BY <1>1 DEF CommitMessages, Passed, At, InHand
  <2>2. committed' \in {committed, reader[c].at}
    BY <1>1 DEF CommitMessages
  <2> QED  BY <1>0, <2>1, <2>2 DEF NothingSkipped
<1>2. CASE committed' = committed
  BY <1>0, <1>2 DEF NothingSkipped
<1> QED
  BY <1>1, <1>2, OthersLeave DEF IngestNext, Others, Publish, CreatePlant, Crash, Start, Assign, Run,
         FetchMessage, HandleMessage, RaiseProductionBreach, CreateAlert, vars

\* Whatever crashes, rebalances and late commits: the group's offset passes no message
\* that no handler was given.
THEOREM NoneSkipped == IngestSpec => [](IngestTypeOK /\ Passed /\ NothingSkipped)
<1>1. IngestInit => IngestTypeOK /\ Passed /\ NothingSkipped
  <2> SUFFICES ASSUME IngestInit PROVE Passed /\ NothingSkipped
    BY InitTyped
  <2>1. \A c \in Consumers : reader[c].pos = 0 /\ reader[c].pc = "down"
    BY DEF IngestInit, NotRunning
  <2> QED  BY <2>1 DEF IngestInit, Passed, NothingSkipped, InHand, At
<1>2. IngestTypeOK /\ Passed /\ NothingSkipped /\ [IngestNext]_vars
        => IngestTypeOK' /\ Passed' /\ NothingSkipped'
  BY StepTyped, PassedKept, SkippedKept
<1> QED  BY <1>1, <1>2, PTL DEF IngestSpec

--------------------------------------------------------------------------------
(* A breach is raised once.                                                  *)

\* Whose message it is does not change while it is in hand.
LEMMA HandsKept ==
    ASSUME IngestTypeOK, Passed, Hands, [IngestNext]_vars
    PROVE  Hands'
<1> DEFINE Safe(b) == InHand(b)' => IF reader'[b].late THEN KeyOf(b)' \in overlapped' ELSE owner' = b
<1>0. log' = log /\ overlapped \subseteq overlapped'
  BY DoneGrows
<1>1. ASSUME NEW b \in Consumers, reader'[b] = reader[b], owner' = owner PROVE Safe(b)
  BY <1>0, <1>1 DEF Hands, InHand, KeyOf
<1>2. ASSUME NEW c \in Consumers, Run(c), NEW b \in Consumers PROVE Safe(b)
  <2>1. owner' = owner
    BY <1>2 DEF Run, FetchMessage, HandleMessage, RaiseProductionBreach, CreateAlert, CommitMessages
  <2>2. CASE b # c
    BY <1>1, <1>2, <2>1, <2>2, RunIsLocal
  <2>3. CASE At(c, "fetch") /\ owner = c /\ reader'[c].late = FALSE
    BY <2>1, <2>2, <2>3
  <2>4. CASE InHand(c) /\ \E pc \in {"raise", "commit"} : reader'[c] = [reader[c] EXCEPT !.pc = pc]
    <3>1. reader'[c].late = reader[c].late /\ reader'[c].at = reader[c].at
      BY <2>4 DEF IngestTypeOK, Reader
    <3> QED  BY <1>0, <2>1, <2>2, <2>4, <3>1 DEF Hands, KeyOf
  <2>5. CASE reader'[c].pc = "fetch"
    BY <2>2, <2>5 DEF InHand
  <2> QED  BY <1>2, <2>3, <2>4, <2>5, RunSteps DEF At, InHand
<1>3. ASSUME NEW c \in Consumers, Crash(c), NEW b \in Consumers PROVE Safe(b)
  <2>1. CASE b # c
    BY <1>1, <1>3, <2>1 DEF Crash, IngestTypeOK
  <2>2. CASE b = c
    BY <1>3, <2>2 DEF Crash, IngestTypeOK, NotRunning, InHand
  <2> QED  BY <2>1, <2>2
<1>4. ASSUME NEW c \in Consumers, Start(c), NEW b \in Consumers PROVE Safe(b)
  <2>1. CASE b # c
    <3>1. reader'[b] = reader[b] /\ (owner = b => owner' = b)
      BY <1>4, <2>1 DEF Start, IngestTypeOK
    <3> QED  BY <1>0, <3>1 DEF Hands, InHand, KeyOf
  <2>2. CASE b = c
    <3>1. reader'[c].pc = "fetch"
      BY <1>4 DEF Start, IngestTypeOK, Reader
    <3> QED  BY <2>2, <3>1 DEF InHand
  <2> QED  BY <2>1, <2>2
<1>5. ASSUME NEW c \in Consumers, Assign(c), NEW b \in Consumers PROVE Safe(b)
  <2>1. /\ reader'[b].pc = reader[b].pc /\ reader'[b].at = reader[b].at
        /\ owner # c /\ owner' = c
        /\ reader'[b].late = IF b = c THEN reader[b].late ELSE reader[b].late \/ (b = owner /\ InHand(b))
    BY <1>5 DEF Assign, IngestTypeOK, Reader
  <2>2. b = owner /\ InHand(b) => KeyOf(b) \in overlapped'
    BY <1>5 DEF Assign
  <2>3. (InHand(b)' <=> InHand(b)) /\ KeyOf(b)' = KeyOf(b)
    BY <1>0, <2>1 DEF InHand, KeyOf
  <2>4. InHand(b) /\ reader[b].late => KeyOf(b) \in overlapped
    BY DEF Hands
  <2>5. InHand(b) /\ ~reader[b].late => owner = b
    BY DEF Hands
  <2>6. reader[b].late \in BOOLEAN
    BY DEF IngestTypeOK, Reader
  <2>7. CASE b = c
    BY <1>0, <2>1, <2>3, <2>4, <2>5, <2>6, <2>7
  <2>8. CASE b # c
    BY <1>0, <2>1, <2>2, <2>3, <2>4, <2>5, <2>6, <2>8
  <2> QED  BY <2>7, <2>8
<1>6. ASSUME Publish \/ (\E k \in Plants : CreatePlant(k)) \/ Others \/ UNCHANGED vars, NEW b \in Consumers
      PROVE  Safe(b)
  BY <1>1, <1>6, OthersLeave DEF Publish, CreatePlant, vars
<1>7. \A b \in Consumers : Safe(b)
  BY <1>2, <1>3, <1>4, <1>5, <1>6 DEF IngestNext, Others
<1> QED  BY <1>7 DEF Hands

\* Two processes that hold messages about one undisturbed key are the same.
LEMMA OneHand ==
    ASSUME Hands, NEW b \in Consumers, NEW c \in Consumers, InHand(b), InHand(c),
           KeyOf(b) = KeyOf(c), KeyOf(c) \notin overlapped
    PROVE  b = c
  BY DEF Hands

LEMMA AlertsKept ==
    ASSUME IngestTypeOK, Passed, Hands, Raising, RaisedOnce, [IngestNext]_vars
    PROVE  Raising' /\ RaisedOnce'
<1>0. log' = log /\ overlapped \subseteq overlapped'
  BY DoneGrows
<1>1. ASSUME alerts' = alerts,
             \A b \in Consumers : At(b, "raise")' =>
                 /\ KeyOf(b)' = KeyOf(b)
                 /\ At(b, "raise") \/ alerts[KeyOf(b)] = 0
      PROVE  Raising' /\ RaisedOnce'
  BY <1>0, <1>1 DEF Raising, RaisedOnce
<1>2. ASSUME NEW c \in Consumers, CreateAlert(c) PROVE Raising' /\ RaisedOnce'
  <2>1. InHand(c) /\ At(c, "raise") /\ KeyOf(c) \in Keys
    BY <1>2, InHandTyped DEF CreateAlert, At, InHand
  <2>2. \A b \in Consumers : At(b, "raise")' => b # c /\ At(b, "raise") /\ KeyOf(b)' = KeyOf(b) /\ InHand(b)
    <3>1. reader'[c].pc \in {"commit", "fetch"}
      BY <1>2 DEF CreateAlert, Succeeds, Fails, Goes, IngestTypeOK, Reader
    <3> QED  BY <1>0, <1>2, <3>1, RunIsLocal DEF Run, At, KeyOf, InHand
  <2>3. CASE alerts' = alerts
    BY <1>1, <2>2, <2>3
  <2>4. CASE alerts' = [alerts EXCEPT ![KeyOf(c)] = @ + 1]
    <3>1. \A b \in Consumers : At(b, "raise")' /\ KeyOf(b) \notin overlapped =>
              KeyOf(b) # KeyOf(c) /\ alerts[KeyOf(b)] = 0
      BY <2>1, <2>2, OneHand DEF Raising
    <3>2. Raising'
      BY <1>0, <2>2, <2>4, <3>1 DEF Raising, IngestTypeOK
    <3>3. KeyOf(c) \notin overlapped => alerts[KeyOf(c)] = 0
      BY <2>1 DEF Raising
    <3>4. RaisedOnce'
      BY <1>0, <2>1, <2>4, <3>3 DEF RaisedOnce, IngestTypeOK
    <3> QED  BY <3>2, <3>4
  <2> QED  BY <1>2, <2>3, <2>4 DEF CreateAlert
<1>3. ASSUME NEW c \in Consumers, Run(c), ~CreateAlert(c) PROVE Raising' /\ RaisedOnce'
  <2>1. alerts' = alerts
    BY <1>3 DEF Run, FetchMessage, HandleMessage, RaiseProductionBreach, CommitMessages, Projected,
                UpsertBatchRef, ApplyProductionRollup, ApplyProductionShifts, tables
  <2>2. At(c, "raise")' => KeyOf(c)' = KeyOf(c) /\ alerts[KeyOf(c)] = 0
    <3>1. CASE At(c, "handle") /\ reader'[c] = [reader[c] EXCEPT !.pc = "raise"] /\ alerts[KeyOf(c)] = 0
      BY <1>0, <3>1 DEF KeyOf, IngestTypeOK, Reader
    <3>2. CASE reader'[c].pc # "raise"
      BY <3>2 DEF At
    <3> QED  BY <1>3, <3>1, <3>2, RunSteps DEF IngestTypeOK, Reader
  <2>3. \A b \in Consumers : b # c => reader'[b] = reader[b]
    BY <1>3, RunIsLocal
  <2> QED  BY <1>0, <1>1, <2>1, <2>2, <2>3 DEF At, KeyOf
<1>4. ASSUME NEW c \in Consumers, Crash(c) \/ Start(c) \/ Assign(c) PROVE Raising' /\ RaisedOnce'
  <2>1. alerts' = alerts
    BY <1>4 DEF Crash, Start, Assign, tables
  <2>2. \A b \in Consumers : reader'[b].pc = "raise" => reader[b].pc = "raise" /\ reader'[b].at = reader[b].at
    <3>1. CASE Crash(c)
      BY <3>1 DEF Crash, NotRunning, IngestTypeOK
    <3>2. CASE Start(c)
      BY <3>2 DEF Start, IngestTypeOK, Reader
    <3>3. CASE Assign(c)
      BY <3>3 DEF Assign, IngestTypeOK, Reader
    <3> QED  BY <1>4, <3>1, <3>2, <3>3
  <2> QED  BY <1>0, <1>1, <2>1, <2>2 DEF At, KeyOf
<1>5. CASE Publish \/ (\E k \in Plants : CreatePlant(k)) \/ Others \/ UNCHANGED vars
  <2>1. alerts' = alerts /\ reader' = reader
    BY <1>5, OthersLeave DEF Publish, CreatePlant, vars, tables
  <2> QED  BY <1>0, <1>1, <2>1 DEF At, KeyOf
<1> QED
  BY <1>2, <1>3, <1>4, <1>5 DEF IngestNext, Others

\* However often a breach is delivered, and whatever fails on the way: one alert, unless
\* a message about it was in hand when its partition went to another process.
THEOREM OneAlert == IngestSpec => [](Hands /\ RaisedOnce)
<1> DEFINE Inv == IngestTypeOK /\ Passed /\ NothingSkipped /\ Hands /\ Raising /\ RaisedOnce
<1>1. IngestInit => Hands /\ Raising /\ RaisedOnce
  <2> SUFFICES ASSUME IngestInit PROVE Hands /\ Raising /\ RaisedOnce
    OBVIOUS
  <2>1. \A c \in Consumers : reader[c].pc = "down"
    BY DEF IngestInit, NotRunning
  <2>2. \A k \in Keys : alerts[k] = 0
    BY DEF IngestInit
  <2> QED  BY <2>1, <2>2 DEF Hands, Raising, RaisedOnce, InHand, At
<1>2. IngestTypeOK /\ Passed /\ Hands /\ Raising /\ RaisedOnce /\ [IngestNext]_vars
        => Hands' /\ Raising' /\ RaisedOnce'
  BY HandsKept, AlertsKept
<1> QED  BY <1>1, <1>2, NoneSkipped, PTL DEF IngestSpec

--------------------------------------------------------------------------------
(* A plant holds its newest list.                                            *)

LEMMA ShiftsKept ==
    ASSUME IngestTypeOK, NewestShifts, OnlyPlants, [IngestNext]_vars
    PROVE  NewestShifts' /\ OnlyPlants'
<1>0. log' = log
  BY DoneGrows
<1>1. CASE UNCHANGED <<row, offered>>
  BY <1>0, <1>1 DEF NewestShifts, OnlyPlants
<1>3. CASE Others
  <2>1. offered' = offered
    BY <1>3, OthersLeave
  <2>2. \A k \in Plants : row'[k] = row[k]
    BY <1>3, IngestAssumption DEF Others, ValidateBatchRef, ReadAsset, WriteAsset, IngestTypeOK
  <2> QED  BY <1>0, <2>1, <2>2, IngestAssumption DEF NewestShifts, OnlyPlants
<1>2. ASSUME NEW c \in Consumers, HandleMessage(c), Projected(reader[c].at)
      PROVE  NewestShifts' /\ OnlyPlants'
  <2> DEFINE i == reader[c].at
             k == log[i].key
  <2>1. i \in Offset /\ i \in 1 .. Len(log) /\ k \in Keys
    BY <1>2, InHandTyped DEF HandleMessage, At, InHand, KeyOf
  <2>2. log[i].kind = "shifts" <=> k \in Plants
    BY <2>1, LogTyped
  <2>3. CASE UpsertBatchRef(i) \/ ApplyProductionRollup(i)
    <3>1. k \notin Plants /\ offered' = offered /\ row' = [row EXCEPT ![k] = i]
      BY <2>2, <2>3 DEF UpsertBatchRef, ApplyProductionRollup
    <3>2. offered[k] = {}
      BY <2>1, <3>1 DEF OnlyPlants
    <3>3. \A p \in Keys : p # k => row'[p] = row[p]
      BY <3>1 DEF IngestTypeOK
    <3> QED  BY <1>0, <3>1, <3>2, <3>3 DEF NewestShifts, OnlyPlants
  <2>4. CASE ApplyProductionShifts(i) /\ k \notin known
    BY <1>1, <2>4 DEF ApplyProductionShifts
  <2>5. CASE ApplyProductionShifts(i) /\ k \in known
    <3>1. /\ k \in Plants
          /\ offered' = [offered EXCEPT ![k] = @ \cup {i}]
          /\ row' = [row EXCEPT ![k] = IF Newer(row[k], i) THEN i ELSE @]
      BY <2>5, <2>2 DEF ApplyProductionShifts, IngestTypeOK
    <3> HIDE DEF k, i
    <3>2. \A j \in Offset : log[j].at \in Nat
      BY LogTyped DEF Offset
    <3>3. offered[k] \subseteq Offset /\ row[k] \in 0 .. Len(log) /\ (row[k] # 0 => row[k] \in Offset)
      <4>1. Len(log) \in Nat /\ k \notin Batches
        BY <3>1, LogTyped, IngestAssumption
      <4>2. offered[k] \subseteq Offset /\ row[k] \in 0 .. ByHand /\ row[k] # ByHand
        BY <2>1, <4>1 DEF IngestTypeOK
      <4>3. row[k] \in 0 .. Len(log)
        BY <4>1, <4>2 DEF ByHand
      <4> QED  BY <4>1, <4>2, <4>3 DEF Offset
    <3>4. offered'[k] = offered[k] \cup {i} /\ row'[k] = IF Newer(row[k], i) THEN i ELSE row[k]
      BY <2>1, <3>1 DEF IngestTypeOK
    <3>5. \A j \in offered[k] : row[k] # 0 /\ row[k] \in Offset /\ log[j].at <= log[row[k]].at
      BY <2>1, <3>3 DEF NewestShifts
    <3>6. i # 0
      BY <2>1
    <3>7. \A j \in offered'[k] : row'[k] # 0 /\ log[j].at <= log[row'[k]].at
      <4>1. CASE Newer(row[k], i)
        <5>1. \A j \in offered[k] : log[j].at <= log[i].at
          <6> SUFFICES ASSUME NEW j \in offered[k] PROVE log[j].at <= log[i].at
            OBVIOUS
          <6>1. row[k] # 0 /\ row[k] \in Offset /\ log[j].at <= log[row[k]].at
            BY <3>5
          <6>2. log[row[k]].at <= log[i].at
            BY <4>1, <6>1 DEF Newer
          <6>3. log[j].at \in Nat /\ log[row[k]].at \in Nat /\ log[i].at \in Nat
            BY <2>1, <3>2, <3>3, <6>1
          <6> QED  BY <6>1, <6>2, <6>3
        <5> QED  BY <2>1, <3>2, <3>4, <3>6, <4>1, <5>1
      <4>2. CASE ~Newer(row[k], i)
        <5>1. row[k] # 0 /\ row[k] \in Offset /\ log[i].at <= log[row[k]].at
          BY <2>1, <3>2, <3>3, <4>2 DEF Newer
        <5> QED  BY <3>4, <3>5, <4>2, <5>1
      <4> QED  BY <4>1, <4>2
    <3>8. row'[k] \in offered'[k]
      <4>1. CASE Newer(row[k], i)
        BY <3>4, <4>1
      <4>2. CASE ~Newer(row[k], i)
        <5>1. row[k] # 0
          BY <4>2 DEF Newer
        <5>2. row[k] \in offered[k]
          BY <2>1, <3>1, <5>1 DEF NewestShifts, OnlyPlants
        <5> QED  BY <3>4, <4>2, <5>2
      <4> QED  BY <4>1, <4>2
    <3>9. \A p \in Keys : p # k => row'[p] = row[p] /\ offered'[p] = offered[p]
      BY <3>1 DEF IngestTypeOK
    <3> QED  BY <1>0, <2>1, <3>1, <3>7, <3>8, <3>9 DEF NewestShifts, OnlyPlants
  <2> QED  BY <1>2, <2>3, <2>4, <2>5 DEF Projected
<1> QED
  BY <1>1, <1>2, <1>3 DEF IngestNext, Others, Publish, CreatePlant, Crash, Start, Assign, Run, FetchMessage,
                    HandleMessage, RaiseProductionBreach, CreateAlert, CommitMessages, vars, tables, history

\* Whatever order the lists are applied in, and by how many processes at once: a plant
\* holds the one published last of those it was offered.
THEOREM ListsAreNewest == IngestSpec => []NewestShifts
<1>1. IngestInit => NewestShifts /\ OnlyPlants
  BY IngestAssumption DEF IngestInit, NewestShifts, OnlyPlants
<1>2. IngestTypeOK /\ NewestShifts /\ OnlyPlants /\ [IngestNext]_vars => NewestShifts' /\ OnlyPlants'
  BY ShiftsKept
<1> QED  BY <1>1, <1>2, NoneSkipped, PTL DEF IngestSpec

--------------------------------------------------------------------------------
(* Figures and batches end at the last message about them.                   *)

\* The tables show message i, a later one or what was written by hand, unless its key is
\* excepted; and what a PATCH is about to write back is no older.
Shown(i) ==
    /\ log[i].kind \in {"batch", "rollup"} /\ log[i].key \notin Disturbed => i <= row[log[i].key]
    /\ log[i].kind = "rollup" /\ KeysOf(Rollups) \cap Disturbed = {} /\ ~crossed =>
           i <= oee /\ \A figure \in edits : i <= figure

\* How far a process has applied the log since it was given the partition.
Frontier(c) == IF At(c, "handle") /\ ~reader[c].late THEN reader[c].pos - 1 ELSE reader[c].pos

Applied ==
    \A i \in 1 .. end :
        /\ i <= committed => Shown(i)
        /\ \A c \in Consumers : owner = c /\ i <= Frontier(c) => Shown(i)

\* A message is the last one fetched, unless it came late; and the group is ahead of its
\* owner only where a late commit took it.
Places ==
    \A c \in Consumers :
        /\ InHand(c) /\ ~reader[c].late => reader[c].at = reader[c].pos
        /\ owner = c /\ Up(c) => \A i \in reader[c].pos + 1 .. committed : log[i].key \in jumped

\* What the tables hold comes from messages about them, unless it was written by hand.
Sourced ==
    /\ \A k \in Keys \ Plants : row[k] # 0 => row[k] \in About(k) \cup {ByHand}
    /\ \A figure \in {oee} \cup edits : figure # 0 => figure \in Rollups \cup {ByHand}

Current == Applied /\ Places /\ Sourced

\* A message that is handled is published and typed.
LEMMA Published ==
    ASSUME IngestTypeOK, NEW i \in 1 .. end
    PROVE  /\ i \in Offset /\ i \in 1 .. Len(log) /\ log[i] \in Message /\ log[i].key \in Keys
           /\ log[i].kind \in {"batch", "rollup"} => log[i].key \notin Plants
           /\ end \in Nat /\ committed \in Nat
<1>1. end \in 0 .. Len(log) /\ Len(log) \in Nat
  BY LogTyped DEF IngestTypeOK
<1>2. i \in 1 .. Len(log)
  BY <1>1
<1> QED  BY <1>1, <1>2, LogTyped DEF Offset, IngestTypeOK

LEMMA ExceptedGrow ==
    ASSUME IngestTypeOK, [IngestNext]_vars
    PROVE  /\ Disturbed \subseteq Disturbed' /\ jumped \subseteq jumped' /\ end' \in {end, end + 1}
           /\ crossed => crossed'
<1>1. ASSUME NEW c \in Consumers, Run(c) PROVE jumped \subseteq jumped' /\ end' = end /\ (crossed => crossed')
  <2>1. CASE HandleMessage(c)
    <3>1. jumped' = jumped /\ end' = end
      BY <2>1 DEF HandleMessage
    <3>2. ASSUME NEW i, Projected(i) PROVE crossed => crossed'
      BY <3>2 DEF Projected, UpsertBatchRef, ApplyProductionRollup, ApplyProductionShifts
    <3>3. Projected(reader[c].at) \/ UNCHANGED <<tables, offered, crossed>>
      BY <2>1 DEF HandleMessage
    <3>4. crossed => crossed'
      BY <3>2, <3>3
    <3> QED  BY <3>1, <3>4
  <2>2. CASE FetchMessage(c) \/ RaiseProductionBreach(c)
    BY <2>2 DEF FetchMessage, RaiseProductionBreach, history
  <2>3. CASE CreateAlert(c) \/ CommitMessages(c)
    BY <2>3 DEF CreateAlert, CommitMessages
  <2> QED  BY <1>1, <2>1, <2>2, <2>3 DEF Run
<1>2. jumped \subseteq jumped' /\ end' \in {end, end + 1} /\ (crossed => crossed')
  BY <1>1, OthersLeave DEF IngestNext, Others, Publish, CreatePlant, Crash, Start, Assign, vars, history
<1> QED  BY <1>2, DoneGrows DEF Disturbed, KeysOf

\* A message that is shown stays so while the tables are left alone.
LEMMA ShownStays ==
    ASSUME IngestTypeOK, [IngestNext]_vars, UNCHANGED <<row, oee, edits>>, NEW i \in 1 .. end, Shown(i)
    PROVE  Shown(i)'
<1>1. log' = log /\ Disturbed \subseteq Disturbed'
  BY DoneGrows, ExceptedGrow
<1>2. Rollups \subseteq Rollups'
  BY <1>1, ExceptedGrow, Published DEF Rollups
<1>3. KeysOf(Rollups) \subseteq KeysOf(Rollups)'
  BY <1>1, <1>2 DEF KeysOf
<1> QED  BY <1>1, <1>3, ExceptedGrow DEF Shown

\* While a person or a check writes to them, too.
LEMMA ShownByOthers ==
    ASSUME IngestTypeOK, [IngestNext]_vars, Others, NEW i \in 1 .. end, Shown(i)
    PROVE  Shown(i)'
<1>1. log' = log /\ end' = end /\ crossed' = crossed /\ Disturbed' = Disturbed
  BY OthersLeave DEF Disturbed, KeysOf
<1>2. KeysOf(Rollups)' = KeysOf(Rollups)
  BY <1>1 DEF KeysOf, Rollups
<1>3. i <= ByHand /\ ByHand' = ByHand /\ log[i].key \in Keys
  BY <1>1, Published, LogTyped DEF ByHand
<1>4. i <= row[log[i].key] => i <= row'[log[i].key]
  <2>1. CASE row' = row
    BY <2>1
  <2>2. CASE \E k \in Batches : row' = [row EXCEPT ![k] = ByHand]
    BY <1>3, <2>2 DEF IngestTypeOK
  <2> QED  BY <2>1, <2>2 DEF Others, ValidateBatchRef, ReadAsset, WriteAsset
<1>5. ASSUME i <= oee, \A figure \in edits : i <= figure
      PROVE  i <= oee' /\ \A figure \in edits' : i <= figure
  BY <1>3, <1>5 DEF Others, ValidateBatchRef, ReadAsset, WriteAsset
<1> QED  BY <1>1, <1>2, <1>4, <1>5 DEF Shown

\* And when another message is applied, unless that is an older one of the same key.
LEMMA ShownWhenApplied ==
    ASSUME IngestTypeOK, NEW c \in Consumers, HandleMessage(c), NEW i \in 1 .. end, Shown(i),
           \/ i <= reader[c].at
           \/ log[i].key \in Disturbed'
           \/ log[reader[c].at].key \in Disturbed'
    PROVE  Shown(i)'
<1> DEFINE x == reader[c].at
<1>0. [IngestNext]_vars
  BY DEF IngestNext, Run
<1>1. log' = log /\ end' = end /\ Disturbed \subseteq Disturbed' /\ (crossed => crossed')
  BY <1>0, DoneGrows, ExceptedGrow DEF HandleMessage
<1>2. x \in 1 .. end /\ log[x].key \in Keys /\ x \in Nat
  BY InHandTyped DEF HandleMessage, At, InHand, KeyOf
<1>3. log[i].key \in Keys /\ (log[i].kind \in {"batch", "rollup"} => log[i].key \notin Plants)
  BY Published
<1>4. /\ row' = row \/ \E v : row' = [row EXCEPT ![log[x].key] = v]
                           /\ (log[x].kind \in {"batch", "rollup"} => v = x)
                           /\ log[x].kind \in {"batch", "rollup", "shifts"}
      /\ edits' = edits
      /\ oee' = oee \/ (oee' = x /\ log[x].kind = "rollup" /\ (~crossed' => edits \subseteq {ByHand}))
  BY DEF HandleMessage, Projected, UpsertBatchRef, ApplyProductionRollup, ApplyProductionShifts, tables
<1>5. log[x].kind = "shifts" => log[x].key \in Plants
  BY <1>2, LogTyped, InHandTyped DEF HandleMessage, At, InHand
<1>6. Rollups' = Rollups /\ KeysOf(Rollups)' = KeysOf(Rollups)
  BY <1>1 DEF Rollups, KeysOf
<1>7. ASSUME log[i].kind \in {"batch", "rollup"}, log[i].key \notin Disturbed'
      PROVE  i <= row'[log[i].key]
  <2>1. i <= row[log[i].key]
    BY <1>1, <1>7 DEF Shown
  <2>2. CASE log[i].key = log[x].key
    <3>1. i <= x
      BY <1>7, <2>2
    <3>2. row' = row \/ row'[log[x].key] = x
      BY <1>2, <1>3, <1>4, <1>5, <1>7, <2>2 DEF IngestTypeOK
    <3> QED  BY <2>1, <2>2, <3>1, <3>2
  <2>3. CASE log[i].key # log[x].key
    BY <1>3, <1>4, <2>1, <2>3 DEF IngestTypeOK
  <2> QED  BY <2>2, <2>3
<1>8. ASSUME log[i].kind = "rollup", KeysOf(Rollups) \cap Disturbed' = {}, ~crossed'
      PROVE  i <= oee' /\ \A figure \in edits' : i <= figure
  <2>1. i <= oee /\ \A figure \in edits' : i <= figure
    BY <1>1, <1>4, <1>8 DEF Shown
  <2>2. CASE oee' = x /\ log[x].kind = "rollup"
    <3>1. log[x].key \in KeysOf(Rollups) /\ log[i].key \in KeysOf(Rollups)
      BY <1>2, <1>8, <2>2 DEF KeysOf, Rollups
    <3> QED  BY <1>8, <2>1, <2>2, <3>1
  <2> QED  BY <1>4, <2>1, <2>2
<1> QED  BY <1>1, <1>6, <1>7, <1>8 DEF Shown

\* The message applied is shown.
LEMMA AppliedIsShown ==
    ASSUME IngestTypeOK, NEW c \in Consumers, HandleMessage(c), NEW x, x = reader[c].at
    PROVE  Shown(x)'
<1>0. [IngestNext]_vars
  BY DEF IngestNext, Run
<1>1. log' = log /\ end' = end
  BY <1>0, DoneGrows DEF HandleMessage
<1>2. x \in 1 .. end /\ log[x].key \in Keys /\ x \in Nat
  BY InHandTyped DEF HandleMessage, At, InHand, KeyOf
<1>3. CASE Fails(c)
  <2>1. log[x].key \in Disturbed'
    BY <1>1, <1>3 DEF Fails, Disturbed, KeysOf
  <2>2. log[x].kind = "rollup" => log[x].key \in KeysOf(Rollups)'
    BY <1>1, <1>2 DEF KeysOf, Rollups
  <2> QED  BY <1>1, <2>1, <2>2 DEF Shown
<1>4. CASE ~Fails(c)
  <2>1. CASE log[x].kind \in {"batch", "rollup"}
    <3>1. UpsertBatchRef(x) \/ ApplyProductionRollup(x)
      BY <1>4, <2>1 DEF HandleMessage, Projected, ApplyProductionShifts
    <3>2. /\ row'[log[x].key] = x
          /\ log[x].kind = "rollup" => oee' = x /\ edits' = edits /\ (~crossed' => edits \subseteq {ByHand})
      BY <1>2, <3>1 DEF UpsertBatchRef, ApplyProductionRollup, IngestTypeOK
    <3>3. x <= ByHand
      BY <1>2, LogTyped DEF ByHand, IngestTypeOK
    <3> QED  BY <1>1, <1>2, <3>2, <3>3 DEF Shown
  <2>2. CASE log[x].kind \notin {"batch", "rollup"}
    BY <1>1, <2>2 DEF Shown
  <2> QED  BY <2>1, <2>2
<1> QED  BY <1>3, <1>4

\* A step of the loop that does not touch the tables, or leaves them to another process.
LEMMA AppliedStays ==
    ASSUME IngestTypeOK, Applied, [IngestNext]_vars, UNCHANGED <<row, oee, edits, end>>,
           \A i \in 1 .. end : i <= committed' /\ i > committed =>
               log[i].key \in Disturbed' \/ \E c \in Consumers : owner = c /\ i <= Frontier(c),
           \A c \in Consumers : owner' = c =>
               \A i \in 1 .. end : i <= Frontier(c)' =>
                   \/ owner = c /\ i <= Frontier(c)
                   \/ i <= committed
                   \/ log[i].kind \notin {"batch", "rollup"}
    PROVE  Applied'
<1>1. ASSUME NEW i \in 1 .. end, Shown(i) PROVE Shown(i)'
  BY <1>1, ShownStays
<1>2. log' = log
  BY DoneGrows
<1>3. ASSUME NEW i \in 1 .. end, log[i].kind \notin {"batch", "rollup"} PROVE Shown(i)'
  BY <1>2, <1>3 DEF Shown
<1>4. ASSUME NEW i \in 1 .. end, log[i].key \in Disturbed' PROVE Shown(i)'
  BY <1>2, <1>4 DEF Shown, KeysOf, Rollups
<1>5. ASSUME NEW i \in 1 .. end, i <= committed' PROVE Shown(i)'
  <2>1. i \in Nat /\ committed \in Nat
    BY Published
  <2>2. CASE i <= committed
    BY <1>1, <2>2 DEF Applied
  <2>3. CASE i > committed
    BY <1>1, <1>4, <1>5, <2>3 DEF Applied
  <2>4. i <= committed \/ i > committed
    BY <2>1
  <2> QED  BY <2>2, <2>3, <2>4
<1>6. ASSUME NEW i \in 1 .. end, NEW c \in Consumers, owner' = c, i <= Frontier(c)' PROVE Shown(i)'
  BY <1>1, <1>3, <1>6 DEF Applied
<1> QED  BY <1>5, <1>6 DEF Applied

LEMMA AppliedWhenHandled ==
    ASSUME IngestTypeOK, Hands, Applied, Places, NEW c \in Consumers, HandleMessage(c)
    PROVE  Applied'
<1>0. [IngestNext]_vars
  BY DEF IngestNext, Run
<1>1. /\ log' = log /\ end' = end /\ committed' = committed /\ owner' = owner
      /\ Disturbed \subseteq Disturbed' /\ jumped \subseteq jumped'
  BY <1>0, DoneGrows, ExceptedGrow DEF HandleMessage
<1>2. At(c, "handle") /\ InHand(c) /\ Up(c) /\ reader[c].pos \in Nat /\ reader[c].at \in Nat
  BY DEF HandleMessage, At, InHand, Up, IngestTypeOK, Reader
<1>3. /\ reader'[c].pc \in {"commit", "fetch"} /\ reader'[c].pos = reader[c].pos
      /\ \A b \in Consumers : b # c => reader'[b] = reader[b]
  BY <1>2, AnswerTyped DEF HandleMessage, Succeeds, Fails, Goes, IngestTypeOK, Reader
<1>4. Frontier(c)' = reader[c].pos
  BY <1>3 DEF Frontier, At
<1>5. \A b \in Consumers : b # c => Frontier(b)' = Frontier(b)
  BY <1>3 DEF Frontier, At
<1>6. CASE reader[c].late
  <2>1. log[reader[c].at].key \in Disturbed'
    BY <1>1, <1>2, <1>6 DEF Hands, KeyOf, Disturbed
  <2>2. Frontier(c) = reader[c].pos
    BY <1>6 DEF Frontier
  <2>3. \A b \in Consumers : Frontier(b)' = Frontier(b)
    BY <1>4, <1>5, <2>2
  <2>4. ASSUME NEW i \in 1 .. end, Shown(i) PROVE Shown(i)'
    BY <2>1, <2>4, ShownWhenApplied
  <2> QED  BY <1>1, <2>3, <2>4 DEF Applied
<1>7. CASE ~reader[c].late
  <2>1. owner = c /\ reader[c].at = reader[c].pos /\ Frontier(c) = reader[c].pos - 1
    BY <1>2, <1>7 DEF Hands, Places, Frontier
  <2>2. ASSUME NEW i \in 1 .. end, i <= committed PROVE Shown(i)'
    <3>1. i <= reader[c].at \/ log[i].key \in Disturbed'
      <4>1. i \in Nat /\ committed \in Nat
        BY Published
      <4>2. CASE i > reader[c].pos
        <5>1. i \in reader[c].pos + 1 .. committed
          BY <1>2, <2>2, <4>1, <4>2
        <5> QED  BY <1>1, <1>2, <2>1, <5>1 DEF Places, Disturbed
      <4> QED  BY <1>2, <2>1, <4>1, <4>2
    <3> QED  BY <2>2, <3>1, ShownWhenApplied DEF Applied
  <2>3. ASSUME NEW i \in 1 .. end, i <= reader[c].pos PROVE Shown(i)'
    <3>1. CASE i = reader[c].at
      BY <3>1, AppliedIsShown
    <3>2. CASE i # reader[c].at
      <4>1. i <= Frontier(c) /\ i <= reader[c].at
        BY <1>2, <2>1, <2>3, <3>2, Published
      <4> QED  BY <2>1, <4>1, ShownWhenApplied DEF Applied
    <3> QED  BY <3>1, <3>2
  <2> QED  BY <1>1, <1>4, <2>1, <2>2, <2>3 DEF Applied
<1> QED  BY <1>6, <1>7 DEF IngestTypeOK, Reader

LEMMA AppliedKept ==
    ASSUME IngestTypeOK, Passed, Hands, Applied, Places, [IngestNext]_vars
    PROVE  Applied'
<1>0. \A c \in Consumers : reader[c] \in Reader /\ reader[c].pos \in Nat
  BY DEF IngestTypeOK, Reader
<1>9. CASE Others
  <2>1. UNCHANGED <<end, committed, owner, reader>>
    BY <1>9, OthersLeave
  <2>2. \A i \in 1 .. end : Shown(i) => Shown(i)'
    BY <1>9, ShownByOthers
  <2>3. \A c \in Consumers : Frontier(c)' = Frontier(c)
    BY <2>1 DEF Frontier, At
  <2> QED  BY <2>1, <2>2, <2>3 DEF Applied
<1>1. CASE Publish \/ (\E k \in Plants : CreatePlant(k)) \/ UNCHANGED vars
  <2>1. UNCHANGED <<row, oee, edits, committed, owner, reader>> /\ end' \in {end, end + 1}
    BY <1>1 DEF Publish, CreatePlant, vars, tables
  <2>2. ASSUME NEW i \in 1 .. end', i <= committed \/ \E c \in Consumers : i <= Frontier(c)
        PROVE  i \in 1 .. end
    <3>1. end \in Nat /\ committed \in Nat /\ committed <= end
      BY LogTyped DEF IngestTypeOK
    <3>2. \A c \in Consumers : Frontier(c) <= end
      BY <1>0, <3>1 DEF IngestTypeOK, Frontier
    <3> QED  BY <1>0, <2>1, <2>2, <3>1, <3>2 DEF Frontier
  <2>3. \A i \in 1 .. end : Shown(i) => Shown(i)'
    BY <2>1, ShownStays
  <2>4. \A c \in Consumers : Frontier(c)' = Frontier(c)
    BY <2>1 DEF Frontier, At
  <2> QED  BY <2>1, <2>2, <2>3, <2>4 DEF Applied
<1>2. ASSUME NEW c \in Consumers, FetchMessage(c) PROVE Applied'
  <2>1. UNCHANGED <<row, oee, edits, end, committed, owner>> /\ At(c, "fetch")
    BY <1>2 DEF FetchMessage, tables
  <2>2. Frontier(c)' = Frontier(c)
    BY <1>0, <1>2 DEF FetchMessage, Frontier, At, IngestTypeOK
  <2>3. \A b \in Consumers : b # c => Frontier(b)' = Frontier(b)
    BY <1>2, RunIsLocal DEF Run, Frontier, At
  <2> QED  BY <2>1, <2>2, <2>3, AppliedStays, Published
<1>3. ASSUME NEW c \in Consumers, HandleMessage(c) PROVE Applied'
  BY <1>3, AppliedWhenHandled
<1>4. ASSUME NEW c \in Consumers, RaiseProductionBreach(c) \/ CreateAlert(c) PROVE Applied'
  <2>1. UNCHANGED <<row, oee, edits, end, committed, owner>> /\ InHand(c)
    BY <1>4 DEF RaiseProductionBreach, CreateAlert, tables, InHand, At
  <2>2. \A b \in Consumers : b # c => Frontier(b)' = Frontier(b)
    BY <1>4, RunIsLocal DEF Run, Frontier, At
  <2>3. Frontier(c)' = reader[c].pos
    <3>1. reader'[c].pc # "handle" /\ reader'[c].pos = reader[c].pos
      BY <1>0, <1>4 DEF RaiseProductionBreach, CreateAlert, Succeeds, Fails, Goes, IngestTypeOK, Reader
    <3> QED  BY <3>1 DEF Frontier, At
  <2>4. ASSUME NEW i \in 1 .. end, i <= reader[c].pos
        PROVE  i <= Frontier(c) \/ log[i].kind \notin {"batch", "rollup"}
    <3>1. CASE RaiseProductionBreach(c) /\ ~reader[c].late
      <4>1. reader[c].at = reader[c].pos /\ log[reader[c].at].kind = "breach"
        BY <2>1, <3>1 DEF Places, RaiseProductionBreach
      <4>2. i = reader[c].pos \/ i <= reader[c].pos - 1
        BY <1>0, <2>4, Published
      <4> QED  BY <4>1, <4>2, <2>4 DEF Frontier
    <3>2. CASE CreateAlert(c) \/ reader[c].late
      BY <2>4, <3>2 DEF CreateAlert, Frontier, At
    <3> QED  BY <1>4, <3>1, <3>2 DEF Reader
  <2>5. \A i \in 1 .. end : ~(i <= committed' /\ i > committed)
    BY <2>1, Published
  <2> QED  BY <2>1, <2>2, <2>3, <2>4, <2>5, AppliedStays
<1>5. ASSUME NEW c \in Consumers, CommitMessages(c) PROVE Applied'
  <2>1. UNCHANGED <<row, oee, edits, end, owner>> /\ InHand(c) /\ At(c, "commit") /\ log' = log
    BY <1>5, DoneGrows DEF CommitMessages, tables, InHand, At
  <2>2. \A b \in Consumers : b # c => Frontier(b)' = Frontier(b)
    BY <1>5, RunIsLocal DEF Run, Frontier, At
  <2>3. Frontier(c)' = Frontier(c) /\ Frontier(c) = reader[c].pos
    BY <1>0, <1>5 DEF CommitMessages, Frontier, At, IngestTypeOK, Reader
  <2>4. ASSUME NEW i \in 1 .. end, i <= committed', i > committed
        PROVE  log[i].key \in Disturbed' \/ \E b \in Consumers : owner = b /\ i <= Frontier(b)
    <3>1. committed' = reader[c].at /\ i \in Nat /\ committed \in Nat /\ reader[c].at \in Nat
      BY <1>0, <1>5, <2>4, Published DEF CommitMessages, Reader
    <3>2. CASE reader[c].late
      <4>1. i \in {j \in committed + 1 .. reader[c].at : reader[c].late}
        BY <2>4, <3>1, <3>2
      <4>2. jumped' = jumped \cup
                {log[j].key : j \in {j \in committed + 1 .. reader[c].at : reader[c].late}}
        BY <1>5, <2>4, <3>1 DEF CommitMessages
      <4>3. log[i].key \in jumped'
        BY <4>1, <4>2
      <4> QED  BY <4>3 DEF Disturbed
    <3>3. CASE ~reader[c].late
      BY <2>1, <2>3, <2>4, <3>1, <3>3 DEF Hands, Places
    <3> QED  BY <3>2, <3>3
  <2> QED  BY <2>1, <2>2, <2>3, <2>4, AppliedStays
<1>6. ASSUME NEW c \in Consumers, Crash(c) PROVE Applied'
  <2>1. UNCHANGED <<row, oee, edits, end, committed, owner>>
    BY <1>6 DEF Crash, tables
  <2>2. Frontier(c)' = 0
    BY <1>6 DEF Crash, Frontier, At, NotRunning, IngestTypeOK
  <2>3. \A b \in Consumers : b # c => Frontier(b)' = Frontier(b)
    BY <1>6 DEF Crash, Frontier, At, IngestTypeOK
  <2>4. \A i \in 1 .. end : i \in Nat /\ ~(i <= 0) /\ ~(i <= committed' /\ i > committed)
    BY <2>1, Published
  <2> QED  BY <2>1, <2>2, <2>3, <2>4, AppliedStays
<1>7. ASSUME NEW c \in Consumers, Start(c) PROVE Applied'
  <2>1. UNCHANGED <<row, oee, edits, end, committed>>
    BY <1>7 DEF Start, tables
  <2>2. Frontier(c)' = Frontier(c)
    BY <1>0, <1>7 DEF Start, Up, Frontier, At, IngestTypeOK, Reader
  <2>3. \A b \in Consumers : b # c => Frontier(b)' = Frontier(b)
    BY <1>7 DEF Start, Frontier, At, IngestTypeOK
  <2>4. \A b \in Consumers : owner' = b => owner = b
    BY <1>7, IngestAssumption DEF Start
  <2>5. \A i \in 1 .. end : ~(i <= committed' /\ i > committed)
    BY <2>1, Published
  <2> QED  BY <2>1, <2>2, <2>3, <2>4, <2>5, AppliedStays
<1>8. ASSUME NEW c \in Consumers, Assign(c) PROVE Applied'
  <2>1. UNCHANGED <<row, oee, edits, end, committed>> /\ owner' = c
    BY <1>8 DEF Assign, tables
  <2>2. reader'[c].pos = committed
    BY <1>8 DEF Assign, IngestTypeOK, Reader
  <2>3. committed \in Nat
    BY LogTyped DEF IngestTypeOK
  <2>4. Frontier(c)' <= committed /\ Frontier(c)' \in Int
    BY <2>2, <2>3 DEF Frontier
  <2>5. \A i \in 1 .. end : i <= Frontier(c)' => i <= committed
    BY <2>3, <2>4, Published
  <2>6. \A i \in 1 .. end : ~(i <= committed' /\ i > committed)
    BY <2>1, Published
  <2> QED  BY <2>1, <2>5, <2>6, AppliedStays
<1> QED
  BY <1>1, <1>2, <1>3, <1>4, <1>5, <1>6, <1>7, <1>8, <1>9 DEF IngestNext, Run, Others

LEMMA PlacesKept ==
    ASSUME IngestTypeOK, Passed, Hands, Places, [IngestNext]_vars
    PROVE  Places'
<1>0. /\ log' = log /\ jumped \subseteq jumped' /\ committed \in Nat
      /\ \A c \in Consumers : reader[c] \in Reader /\ reader[c].pos \in Nat /\ reader[c].at \in Nat
  BY DoneGrows, ExceptedGrow, LogTyped DEF IngestTypeOK, Reader
<1>1. ASSUME NEW b \in Consumers, reader'[b] = reader[b], owner' = b => owner = b, committed' = committed
      PROVE  /\ InHand(b)' /\ ~reader'[b].late => reader'[b].at = reader'[b].pos
             /\ owner' = b /\ Up(b)' => \A i \in reader'[b].pos + 1 .. committed' : log[i].key \in jumped'
  BY <1>0, <1>1 DEF Places, InHand, Up
<1>2. ASSUME NEW c \in Consumers, Run(c), ~CommitMessages(c) PROVE Places'
  <2>1. owner' = owner /\ committed' = committed
    BY <1>2 DEF Run, FetchMessage, HandleMessage, RaiseProductionBreach, CreateAlert, CommitMessages
  <2>2. CASE /\ At(c, "fetch") /\ owner = c
             /\ reader'[c].at = reader[c].pos + 1 /\ reader'[c].pos = reader[c].pos + 1
    <3>1. \A i \in reader[c].pos + 1 .. committed : log[i].key \in jumped
      BY <2>2 DEF Places, At, Up
    <3>2. \A i \in reader'[c].pos + 1 .. committed' : log[i].key \in jumped'
      BY <1>0, <2>1, <2>2, <3>1
    <3> QED  BY <1>0, <1>1, <1>2, <2>1, <2>2, <3>2, RunIsLocal DEF Places
  <2>3. CASE InHand(c) /\ \E pc \in {"raise", "commit"} : reader'[c] = [reader[c] EXCEPT !.pc = pc]
    <3>1. reader'[c].pos = reader[c].pos /\ reader'[c].at = reader[c].at /\ reader'[c].late = reader[c].late
      BY <1>0, <2>3 DEF Reader
    <3>2. Up(c)
      BY <2>3 DEF Up, InHand
    <3> QED  BY <1>0, <1>1, <1>2, <2>1, <2>3, <3>1, <3>2, RunIsLocal DEF Places
  <2>4. CASE InHand(c) /\ reader'[c].pc = "fetch" /\ reader'[c].pos = reader[c].pos
    <3>1. Up(c)
      BY <2>4 DEF Up, InHand
    <3> QED  BY <1>0, <1>1, <1>2, <2>1, <2>4, <3>1, RunIsLocal DEF Places, InHand
  <2> QED  BY <1>2, <2>2, <2>3, <2>4, RunSteps DEF At, InHand
<1>3. ASSUME NEW c \in Consumers, CommitMessages(c) PROVE Places'
  <2>1. /\ owner' = owner /\ InHand(c) /\ Up(c)
        /\ reader'[c].pc = "fetch" /\ reader'[c].pos = reader[c].pos
    BY <1>0, <1>3 DEF CommitMessages, At, InHand, Up, IngestTypeOK, Reader
  <2>2. ASSUME NEW b \in Consumers, owner = b, Up(b), NEW i \in reader[b].pos + 1 .. committed'
        PROVE  log[i].key \in jumped'
    <3>1. CASE i <= committed
      <4>1. i \in reader[b].pos + 1 .. committed
        BY <1>0, <2>2, <3>1
      <4> QED  BY <1>0, <2>2, <4>1 DEF Places
    <3>2. CASE i > committed
      <4>1. /\ committed' = reader[c].at
            /\ jumped' = jumped \cup
                   {log[j].key : j \in {j \in committed + 1 .. reader[c].at : reader[c].late}}
        BY <1>0, <1>3, <2>2, <3>2 DEF CommitMessages
      <4>2. CASE reader[c].late
        <5>1. i \in {j \in committed + 1 .. reader[c].at : reader[c].late}
          BY <1>0, <2>2, <3>2, <4>1, <4>2
        <5> QED  BY <4>1, <5>1
      <4>3. CASE ~reader[c].late
        <5>1. b = c /\ reader[c].at = reader[c].pos
          BY <2>1, <2>2, <4>3 DEF Hands, Places
        <5> QED  BY <1>0, <2>2, <4>1, <5>1
      <4> QED  BY <4>2, <4>3
    <3>3. i \in Nat
      BY <1>0, <2>2
    <3> QED  BY <1>0, <3>1, <3>2, <3>3
  <2>3. \A b \in Consumers : b # c => reader'[b] = reader[b]
    BY <1>3, RunIsLocal DEF Run
  <2> QED  BY <1>0, <2>1, <2>2, <2>3 DEF Places, InHand, Up
<1>4. ASSUME NEW c \in Consumers, Crash(c) PROVE Places'
  <2>1. reader'[c] = NotRunning /\ \A b \in Consumers : b # c => reader'[b] = reader[b]
    BY <1>4 DEF Crash, IngestTypeOK
  <2>2. ~InHand(c)' /\ ~Up(c)'
    BY <2>1 DEF InHand, Up, NotRunning
  <2> QED  BY <1>1, <1>4, <2>1, <2>2 DEF Crash, Places
<1>5. ASSUME NEW c \in Consumers, Start(c) PROVE Places'
  <2>1. reader'[c].pc = "fetch" /\ \A b \in Consumers : b # c => reader'[b] = reader[b]
    BY <1>0, <1>5 DEF Start, IngestTypeOK, Reader
  <2>2. ~InHand(c)' /\ owner' # c
    BY <1>5, <2>1, IngestAssumption DEF InHand, Start
  <2>3. \A b \in Consumers : owner' = b => owner = b
    BY <1>5, IngestAssumption DEF Start
  <2>4. committed' = committed
    BY <1>5 DEF Start
  <2>5. ASSUME NEW b \in Consumers
        PROVE  /\ InHand(b)' /\ ~reader'[b].late => reader'[b].at = reader'[b].pos
               /\ owner' = b /\ Up(b)' => \A i \in reader'[b].pos + 1 .. committed' : log[i].key \in jumped'
    <3>1. CASE b = c
      BY <2>2, <3>1
    <3>2. CASE b # c
      BY <1>1, <2>1, <2>3, <2>4, <3>2
    <3> QED  BY <3>1, <3>2
  <2> QED  BY <1>0, <2>5 DEF Places
<1>6. ASSUME NEW c \in Consumers, Assign(c) PROVE Places'
  <2>1. \A b \in Consumers :
            /\ reader'[b].pc = reader[b].pc /\ reader'[b].at = reader[b].at
            /\ reader'[b].pos = IF b = c THEN committed ELSE reader[b].pos
            /\ ~reader'[b].late => ~reader[b].late
    BY <1>0, <1>6 DEF Assign, Reader
  <2>2. owner' = c /\ owner # c /\ committed' = committed
    BY <1>6 DEF Assign
  <2>3. InHand(c) => reader[c].late
    BY <2>2 DEF Hands
  <2>4. \A i \in committed + 1 .. committed : FALSE
    BY <1>0
  <2>5. \A b \in Consumers : InHand(b)' <=> InHand(b)
    BY <2>1 DEF InHand
  <2>6. ASSUME NEW b \in Consumers, InHand(b)', ~reader'[b].late PROVE reader'[b].at = reader'[b].pos
    BY <2>1, <2>3, <2>5, <2>6 DEF Places
  <2>7. ASSUME NEW b \in Consumers, owner' = b PROVE reader'[b].pos + 1 .. committed' = {}
    BY <2>1, <2>2, <2>4, <2>7
  <2> QED  BY <2>6, <2>7 DEF Places
<1>7. CASE Publish \/ (\E k \in Plants : CreatePlant(k)) \/ Others \/ UNCHANGED vars
  BY <1>1, <1>7, OthersLeave DEF Publish, CreatePlant, vars, Places
<1> QED
  BY <1>0, <1>2, <1>3, <1>4, <1>5, <1>6, <1>7 DEF IngestNext, Others

LEMMA SourcedKept ==
    ASSUME IngestTypeOK, Sourced, [IngestNext]_vars
    PROVE  Sourced'
<1>1. log' = log /\ end' \in {end, end + 1} /\ end \in Nat
  BY DoneGrows, ExceptedGrow, LogTyped DEF IngestTypeOK
<1>2. Rollups \subseteq Rollups' /\ ByHand' = ByHand /\ \A k \in Keys : About(k) \subseteq About(k)'
  BY <1>1 DEF Rollups, About, ByHand
<1>5. CASE Others
  <2>1. \A k \in Keys : row'[k] \in {row[k], ByHand}
    BY <1>5 DEF Others, ValidateBatchRef, ReadAsset, WriteAsset, IngestTypeOK
  <2>2. {oee'} \cup edits' \subseteq {oee, ByHand} \cup edits
    BY <1>5 DEF Others, ValidateBatchRef, ReadAsset, WriteAsset
  <2> QED  BY <1>2, <2>1, <2>2 DEF Sourced
<1>3. CASE UNCHANGED <<row, oee, edits>>
  BY <1>2, <1>3 DEF Sourced
<1>4. ASSUME NEW c \in Consumers, HandleMessage(c), Projected(reader[c].at) PROVE Sourced'
  <2> DEFINE x == reader[c].at
  <2>1. x \in 1 .. end /\ log[x].key \in Keys
    BY <1>4, InHandTyped DEF HandleMessage, At, InHand, KeyOf
  <2>2. log[x].kind = "shifts" => log[x].key \in Plants
    BY <1>4, LogTyped, InHandTyped DEF HandleMessage, At, InHand
  <2>3. CASE UpsertBatchRef(x) \/ ApplyProductionRollup(x)
    <3>1. x \in About(log[x].key) /\ (log[x].kind = "rollup" => x \in Rollups)
      BY <2>1, <2>3 DEF UpsertBatchRef, ApplyProductionRollup, About, Rollups
    <3>2. row' = [row EXCEPT ![log[x].key] = x] /\ edits' = edits /\ (oee' = oee \/ (oee' = x /\ log[x].kind = "rollup"))
      BY <2>3 DEF UpsertBatchRef, ApplyProductionRollup
    <3>3. \A k \in Keys : row'[k] = IF k = log[x].key THEN x ELSE row[k]
      BY <3>2 DEF IngestTypeOK
    <3> HIDE DEF x
    <3>4. ASSUME NEW k \in Keys \ Plants, row'[k] # 0 PROVE row'[k] \in About(k) \cup {ByHand}
      BY <3>1, <3>3, <3>4 DEF Sourced
    <3>5. \A figure \in {oee'} \cup edits' : figure # 0 => figure \in Rollups \cup {ByHand}
      BY <3>1, <3>2 DEF Sourced
    <3> QED  BY <1>2, <3>4, <3>5 DEF Sourced
  <2>4. CASE ApplyProductionShifts(x)
    <3>1. oee' = oee /\ edits' = edits /\ \A k \in Keys \ Plants : row'[k] = row[k]
      BY <2>2, <2>4 DEF ApplyProductionShifts, IngestTypeOK
    <3> QED  BY <1>2, <3>1 DEF Sourced
  <2> QED  BY <1>4, <2>3, <2>4 DEF Projected
<1> QED
  BY <1>3, <1>4, <1>5 DEF IngestNext, Others, Publish, CreatePlant, Crash, Start, Assign, Run, FetchMessage,
                    HandleMessage, RaiseProductionBreach, CreateAlert, CommitMessages, vars, tables

LEMMA LastOfAll ==
    ASSUME NEW S \in SUBSET Nat, NEW i \in S, \A j \in S : j <= i
    PROVE  Last(S) = i
<1>1. \E j \in S : \A m \in S : m <= j
  OBVIOUS
<1>2. Last(S) \in S /\ \A m \in S : m <= Last(S)
  <2>1. S # {}
    OBVIOUS
  <2> QED  BY <1>1, <2>1 DEF Last
<1>3. Last(S) <= i /\ i <= Last(S) /\ Last(S) \in Nat /\ i \in Nat
  BY <1>2
<1> QED  BY <1>3

LEMMA CurrentWhenSettled ==
    ASSUME IngestTypeOK, Current
    PROVE  SettledIsCurrent
<1> SUFFICES ASSUME Settled
             PROVE  /\ \A k \in Keys \ Disturbed :
                           About(k) # {} => row[k] = Last(About(k)) \/ (k \in Batches /\ row[k] = ByHand)
                    /\ KeysOf(Rollups) \cap Disturbed = {} /\ ~crossed => oee \in {Last(Rollups), ByHand}
  BY DEF SettledIsCurrent
<1>1. PICK c \in Consumers : owner = c /\ At(c, "fetch") /\ reader[c].pos = end
  BY DEF Settled
<1>2. Frontier(c) = end
  BY <1>1 DEF Frontier, At
<1>3. ASSUME NEW i \in 1 .. end PROVE Shown(i)
  <2>1. i <= Frontier(c)
    BY <1>2, Published
  <2> QED  BY <1>1, <2>1 DEF Current, Applied
<1>4. ASSUME NEW k \in Keys \ Disturbed, About(k) # {}, row[k] # ByHand PROVE row[k] = Last(About(k))
  <2>1. PICK i \in About(k) : TRUE
    BY <1>4
  <2>2. \A j \in About(k) : j \in 1 .. end /\ j <= row[k] /\ k \notin Plants
    BY <1>3, <1>4, Published DEF About, Shown
  <2>3. row[k] # 0 /\ k \notin Plants
    BY <2>1, <2>2
  <2>4. row[k] \in About(k) /\ About(k) \subseteq Nat
    BY <1>4, <2>3 DEF Current, Sourced, About
  <2> QED  BY <2>2, <2>4, LastOfAll
<1>5. ASSUME KeysOf(Rollups) \cap Disturbed = {}, ~crossed, oee # ByHand PROVE oee = Last(Rollups)
  <2>1. \A j \in Rollups : j \in 1 .. end /\ j <= oee
    BY <1>3, <1>5 DEF Rollups, Shown
  <2>2. Rollups \subseteq Nat
    BY DEF Rollups
  <2>3. CASE oee = 0
    <3>1. Rollups = {}
      BY <2>1, <2>3
    <3> QED  BY <2>3, <3>1 DEF Last
  <2>4. CASE oee # 0
    BY <1>5, <2>1, <2>2, <2>4, LastOfAll DEF Current, Sourced
  <2> QED  BY <2>3, <2>4
<1> QED  BY <1>4, <1>5 DEF IngestTypeOK

\* However often messages are repeated, failed for or applied late: a figure or a batch that
\* none of that touched ends at the last message about it, unless a person or a check wrote
\* it; and so does the machine's figure, unless a PATCH that had read an older one came across.
THEOREM TablesCatchUp == IngestSpec => []SettledIsCurrent
<1>1. IngestInit => Current
  <2> SUFFICES ASSUME IngestInit PROVE Current
    OBVIOUS
  <2>1. /\ end = 0 /\ committed = 0 /\ oee = 0 /\ edits = {} /\ \A k \in Keys : row[k] = 0
        /\ \A c \in Consumers : reader[c].pc = "down"
    BY DEF IngestInit, NotRunning
  <2>2. Applied
    BY <2>1 DEF Applied
  <2>3. Places /\ Sourced
    BY <2>1 DEF Places, Sourced, InHand, Up
  <2> QED  BY <2>2, <2>3 DEF Current
<1>2. IngestTypeOK /\ Passed /\ Hands /\ Current /\ [IngestNext]_vars => Current'
  BY AppliedKept, PlacesKept, SourcedKept DEF Current
<1>3. IngestTypeOK /\ Current => SettledIsCurrent
  BY CurrentWhenSettled
<1> QED  BY <1>1, <1>2, <1>3, NoneSkipped, OneAlert, PTL DEF IngestSpec

================================================================================
