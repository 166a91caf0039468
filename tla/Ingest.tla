-------------------------------- MODULE Ingest --------------------------------
(***************************************************************************)
(* The Kafka consumer (internal/consumer/consumer.go) and the projections  *)
(* its messages are applied to (internal/store/production.go,              *)
(* production_kpis.go, production_shifts.go): one partition, the processes *)
(* of the consumer group, and the database.  A message is its offset; a    *)
(* projected row holds the offset it was last written from.  Two of the    *)
(* tables have other writers: a PATCH of the machine (plants.go), and the  *)
(* check of a batch (handlers/integrations.go).                            *)
(***************************************************************************)
EXTENDS Integers, FiniteSets, Sequences

CONSTANTS
    Consumers,
    Keys,           \* what a message is about: a batch, a figure, a breach, a plant
    Plants,         \* the keys that are plants
    Batches,        \* the keys that are batches
    Logs,           \* what the partition may come to hold
    NoOne,
    MaxEvents       \* bound on what interferes, together: crashes, rebalances, calls that
                    \* fail in a handler, PATCHes of the machine and checks of batches

Kinds == {"none", "batch", "rollup", "breach", "shifts"}
Message == [kind : Kinds, key : Keys, at : Nat]   \* at: published_at of a shift list

ASSUME IngestAssumption ==
    /\ Plants \subseteq Keys /\ Batches \subseteq Keys \ Plants
    /\ Logs \subseteq Seq(Message)
    /\ \A l \in Logs : \A i \in 1 .. Len(l) :
           /\ l[i].kind = "shifts" <=> l[i].key \in Plants
           /\ l[i].kind = "rollup" => l[i].key \notin Batches
    /\ NoOne \notin Consumers
    /\ MaxEvents \in Nat

VARIABLES
    log,
    end,        \* how much of the log is published
    committed,  \* the group's offset: where the next owner begins
    owner,      \* the process the partition is assigned to
    reader,     \* the loop of Run in each process
    row,        \* mes_batch_refs, mes_kpi_snapshots, and the plants' shift lists
    oee,        \* mes_assets.oee_pct of the machine the figures are about
    alerts,     \* mes_alerts with source production, by dedupe key
    edits,      \* the figures that PATCHes of the machine are about to write
    known,      \* plants of mes_plants
    events,
    handled, failed,  \* history: offsets a handler took, and returned an error for
    overlapped, \* history: keys in hand when the partition went to another process
    jumped,     \* history: keys of messages a late commit took the group past
    offered,    \* history: shift lists offered to a plant MES knew
    crossed     \* history: a figure was applied after a PATCH read the machine's

tables == <<row, oee, edits, alerts>>
history == <<handled, failed, overlapped, jumped, offered, crossed>>
vars == <<log, end, committed, owner, reader, tables, known, events, history>>

Offset == 1 .. Len(log)
Reader == [pc : {"down", "fetch", "handle", "raise", "commit"}, at : Nat, pos : Nat, late : BOOLEAN]
NotRunning == [pc |-> "down", at |-> 0, pos |-> 0, late |-> FALSE]

InHand(c) == reader[c].pc \in {"handle", "raise", "commit"}
Up(c) == reader[c].pc # "down"
KeyOf(c) == log[reader[c].at].key
At(c, pc) == reader[c].pc = pc

\* In the place of an offset: no message wrote it, a person or a check did.
ByHand == Len(log) + 1
Vacant == owner \notin {b \in Consumers : Up(b)}

IngestInit ==
    /\ log \in Logs
    /\ end = 0 /\ committed = 0
    /\ owner = NoOne
    /\ reader = [c \in Consumers |-> NotRunning]
    /\ row = [k \in Keys |-> 0] /\ oee = 0 /\ edits = {}
    /\ alerts = [k \in Keys |-> 0]
    /\ known \in SUBSET Plants
    /\ events = 0
    /\ handled = {} /\ failed = {} /\ overlapped = {} /\ jumped = {}
    /\ offered = [k \in Keys |-> {}] /\ crossed = FALSE

Event == events < MaxEvents /\ events' = events + 1

Publish ==
    /\ end < Len(log) /\ end' = end + 1
    /\ UNCHANGED <<log, committed, owner, reader, tables, known, events, history>>

\* A snapshot for a plant MES does not know is dropped: this is how it comes to know one.
CreatePlant(k) ==
    /\ k \notin known /\ known' = known \cup {k}
    /\ UNCHANGED <<log, end, committed, owner, reader, tables, events, history>>

--------------------------------------------------------------------------------
(* What a message does to the tables.                                        *)

UpsertBatchRef(i) ==
    /\ log[i].kind = "batch"
    /\ row' = [row EXCEPT ![log[i].key] = i]
    /\ UNCHANGED <<oee, edits, alerts, offered, crossed>>

\* A slip: ON CONFLICT DO NOTHING.
RollupKeepsFirst(i) ==
    /\ log[i].kind = "rollup"
    /\ row' = [row EXCEPT ![log[i].key] = IF @ = 0 THEN i ELSE @]
    /\ oee' = i
    /\ crossed' = (crossed \/ edits \ {ByHand} # {})
    /\ UNCHANGED <<edits, alerts, offered>>

\* The figure of a period is written over, and the machine shows the last one applied.
ApplyProductionRollup(i) ==
    /\ log[i].kind = "rollup"
    /\ row' = [row EXCEPT ![log[i].key] = i]
    /\ oee' = i
    /\ crossed' = (crossed \/ edits \ {ByHand} # {})
    /\ UNCHANGED <<edits, alerts, offered>>

Newer(i, j) == i = 0 \/ log[i].at <= log[j].at

\* A slip: the published_at of the list that is held is not compared.
ShiftsAsTheyCome(i) ==
    /\ log[i].kind = "shifts"
    /\ IF log[i].key \in known
       THEN /\ row' = [row EXCEPT ![log[i].key] = i]
            /\ offered' = [offered EXCEPT ![log[i].key] = @ \cup {i}]
       ELSE UNCHANGED <<row, offered>>
    /\ UNCHANGED <<oee, edits, alerts, crossed>>

ApplyProductionShifts(i) ==
    /\ log[i].kind = "shifts"
    /\ IF log[i].key \in known
       THEN /\ row' = [row EXCEPT ![log[i].key] = IF Newer(@, i) THEN i ELSE @]
            /\ offered' = [offered EXCEPT ![log[i].key] = @ \cup {i}]
       ELSE UNCHANGED <<row, offered>>
    /\ UNCHANGED <<oee, edits, alerts, crossed>>

Projected(i) == UpsertBatchRef(i) \/ ApplyProductionRollup(i) \/ ApplyProductionShifts(i)

\* ValidateBatchRef, and the same from the check with SCM: the row of a batch is written.
ValidateBatchRef(k) ==
    /\ Event
    /\ row' = [row EXCEPT ![k] = ByHand]
    /\ UNCHANGED <<log, end, committed, owner, reader, oee, edits, alerts, known, history>>

\* PatchAsset reads the machine's row, and may take another figure from its body.
ReadAsset ==
    /\ Event
    /\ \E figure \in {oee, ByHand} : edits' = edits \cup {figure}
    /\ UNCHANGED <<log, end, committed, owner, reader, row, oee, alerts, known, history>>

\* It writes the row back whole, or fails to.
WriteAsset ==
    /\ \E figure \in edits : edits' = edits \ {figure} /\ oee' \in {figure, oee}
    /\ UNCHANGED <<log, end, committed, owner, reader, row, alerts, known, events, history>>

--------------------------------------------------------------------------------
(* The loop.                                                                 *)

Goes(c, pc) == reader' = [reader EXCEPT ![c].pc = pc]
Takes(i) == handled' = handled \cup {i}

\* The answer of a handler: nil, and the offset is committed next, or an error, and
\* the loop goes on with the next message.
Succeeds(c) ==
    /\ Goes(c, "commit") /\ Takes(reader[c].at)
    /\ UNCHANGED <<events, failed>>
Fails(c) ==
    /\ Event /\ reader' = [reader EXCEPT ![c].pc = "fetch", ![c].late = FALSE]
    /\ failed' = failed \cup {reader[c].at}
    /\ UNCHANGED handled

\* A slip: the offset is committed when the message is fetched.
FetchCommits(c) ==
    /\ owner = c /\ At(c, "fetch") /\ reader[c].pos < end
    /\ reader' = [reader EXCEPT ![c] = [pc |-> "handle", at |-> @.pos + 1,
                                        pos |-> @.pos + 1, late |-> FALSE]]
    /\ committed' = reader[c].pos + 1
    /\ UNCHANGED <<log, end, owner, tables, known, events, history>>

\* A slip: nothing is fetched before the message last fetched is committed.
FetchInStep(c) ==
    /\ owner = c /\ At(c, "fetch") /\ reader[c].pos < end /\ reader[c].pos = committed
    /\ reader' = [reader EXCEPT ![c] = [pc |-> "handle", at |-> @.pos + 1,
                                        pos |-> @.pos + 1, late |-> FALSE]]
    /\ UNCHANGED <<log, end, committed, owner, tables, known, events, history>>

FetchMessage(c) ==
    /\ owner = c /\ At(c, "fetch") /\ reader[c].pos < end
    /\ reader' = [reader EXCEPT ![c] = [pc |-> "handle", at |-> @.pos + 1,
                                        pos |-> @.pos + 1, late |-> FALSE]]
    /\ UNCHANGED <<log, end, committed, owner, tables, known, events, history>>

\* A message that is of no interest here, or cannot be decoded, is done with.  An error
\* may come back for a write that was made.
HandleMessage(c) ==
    /\ At(c, "handle") /\ log[reader[c].at].kind # "breach"
    /\ \/ /\ log[reader[c].at].kind = "none" /\ Succeeds(c)
          /\ UNCHANGED <<tables, offered, crossed>>
       \/ Projected(reader[c].at) /\ (Succeeds(c) \/ Fails(c))
       \/ /\ log[reader[c].at].kind # "none" /\ Fails(c)
          /\ UNCHANGED <<tables, offered, crossed>>
    /\ UNCHANGED <<log, end, committed, owner, known, overlapped, jumped>>

\* A slip: a breach is raised without a look at the alerts.
RaiseUnasked(c) ==
    /\ At(c, "handle") /\ log[reader[c].at].kind = "breach"
    /\ Goes(c, "raise")
    /\ UNCHANGED <<log, end, committed, owner, tables, known, events, history>>

\* RaiseProductionBreach looks for the alert, and creates it in a second call.
RaiseProductionBreach(c) ==
    /\ At(c, "handle") /\ log[reader[c].at].kind = "breach"
    /\ \/ alerts[KeyOf(c)] > 0 /\ Succeeds(c)
       \/ /\ alerts[KeyOf(c)] = 0 /\ Goes(c, "raise")
          /\ UNCHANGED <<events, handled, failed>>
       \/ Fails(c)
    /\ UNCHANGED <<log, end, committed, owner, tables, known, overlapped, jumped, offered, crossed>>

CreateAlert(c) ==
    /\ At(c, "raise")
    /\ \/ /\ alerts' = [alerts EXCEPT ![KeyOf(c)] = @ + 1]
          /\ Succeeds(c) \/ Fails(c)
       \/ Fails(c) /\ UNCHANGED alerts
    /\ UNCHANGED <<log, end, committed, owner, row, oee, edits, known, overlapped, jumped, offered, crossed>>

\* A slip: the offset committed is that of the next message, and counted on once more.
CommitNext(c) ==
    /\ At(c, "commit")
    /\ Goes(c, "fetch")
    /\ committed' = reader[c].at + 1
    /\ UNCHANGED <<log, end, owner, tables, known, events, history>>

\* A commit that fails is only logged.  The group stores the offset of any of its members,
\* whoever has the partition by then: past messages that the new owner has yet to reach.
CommitMessages(c) ==
    /\ At(c, "commit")
    /\ reader' = [reader EXCEPT ![c].pc = "fetch", ![c].late = FALSE]
    /\ \/ /\ committed' = reader[c].at
          /\ jumped' = jumped \cup
                 {log[i].key : i \in {j \in committed + 1 .. reader[c].at : reader[c].late}}
       \/ UNCHANGED <<committed, jumped>>
    /\ UNCHANGED <<log, end, owner, tables, known, events, handled, failed, overlapped, offered, crossed>>

--------------------------------------------------------------------------------
(* The consumer group: processes end and start, and the partition moves.     *)

Crash(c) ==
    /\ Up(c) /\ Event
    /\ reader' = [reader EXCEPT ![c] = NotRunning]
    /\ UNCHANGED <<log, end, committed, owner, tables, known, history>>

Start(c) ==
    /\ ~Up(c)
    /\ reader' = [reader EXCEPT ![c].pc = "fetch"]
    /\ owner' = IF owner = c THEN NoOne ELSE owner
    /\ UNCHANGED <<log, end, committed, tables, known, events, history>>

\* The partition goes to c.  A message in the hands of its last owner stays there.
Assign(c) ==
    /\ Up(c) /\ owner # c
    /\ owner' = c
    /\ LET held == {b \in Consumers : b = owner /\ InHand(b)} IN
       /\ reader' = [b \in Consumers |->
                        IF b = c THEN [reader[b] EXCEPT !.pos = committed]
                        ELSE [reader[b] EXCEPT !.late = @ \/ b \in held]]
       /\ overlapped' = overlapped \cup {KeyOf(b) : b \in held}
    /\ IF Vacant THEN UNCHANGED events ELSE Event
    /\ UNCHANGED <<log, end, committed, tables, known, handled, failed, jumped, offered, crossed>>

Run(c) ==
    \/ FetchMessage(c) \/ HandleMessage(c) \/ RaiseProductionBreach(c) \/ CreateAlert(c)
    \/ CommitMessages(c)

IngestNext ==
    \/ Publish
    \/ \E k \in Plants : CreatePlant(k)
    \/ \E k \in Batches : ValidateBatchRef(k)
    \/ ReadAsset \/ WriteAsset
    \/ \E c \in Consumers : Run(c) \/ Crash(c) \/ Start(c) \/ Assign(c)

IngestSpec == IngestInit /\ [][IngestNext]_vars

\* A process that lives runs its loop, and the group's coordinator gives the partition
\* of a process that ended to one that lives.
IngestFairness ==
    /\ \A c \in Consumers : WF_vars(Run(c))
    /\ WF_vars(\E c \in Consumers : Vacant /\ Assign(c))
IngestFairSpec == IngestSpec /\ IngestFairness

--------------------------------------------------------------------------------
(* Properties.                                                               *)

IngestTypeOK ==
    /\ log \in Logs
    /\ end \in 0 .. Len(log) /\ committed \in 0 .. end
    /\ owner \in Consumers \cup {NoOne}
    /\ reader \in [Consumers -> Reader]
    /\ \A c \in Consumers : reader[c].pos <= end /\ (InHand(c) => reader[c].at \in 1 .. end)
    /\ row \in [Keys -> 0 .. ByHand] /\ \A k \in Keys \ Batches : row[k] # ByHand
    /\ oee \in 0 .. ByHand /\ edits \subseteq 0 .. ByHand
    /\ alerts \in [Keys -> Nat]
    /\ known \subseteq Plants
    /\ events \in Nat
    /\ handled \subseteq Offset /\ failed \subseteq Offset
    /\ overlapped \subseteq Keys /\ jumped \subseteq Keys
    /\ offered \in [Keys -> SUBSET Offset] /\ crossed \in BOOLEAN

\* The group never stands past a message no handler was given (consumer.go:62-71):
\* crashes, rebalances and late commits repeat messages, they skip none.
NothingSkipped == \A i \in 1 .. committed : i \in handled \cup failed

\* "Leave it uncommitted so it is retried after a restart ... committing over the failure
\* loses it outright" (consumer.go:64-66).
FailedIsKept == \A i \in failed \ handled : committed < i

\* "a replayed message must not raise twice" (production_kpis.go:182): a breach has one
\* alert, however often its message comes, unless two processes had it in hand at once.
RaisedOnce == \A k \in Keys : alerts[k] > 1 => k \in overlapped

KeysOf(S) == {log[i].key : i \in S}
Disturbed == overlapped \cup jumped \cup KeysOf(failed)

\* The owner is through with the log, and nobody has a message in hand.
Settled == \E c \in Consumers :
    owner = c /\ At(c, "fetch") /\ reader[c].pos = end /\ \A b \in Consumers : ~InHand(b)

Last(S) == IF S = {} THEN 0 ELSE CHOOSE i \in S : \A j \in S : j <= i
About(k) == {i \in 1 .. end : log[i].key = k /\ log[i].kind \in {"batch", "rollup"}}
Rollups == {i \in 1 .. end : log[i].kind = "rollup"}

\* Once the messages are handled, each figure and batch shows the last message about it,
\* although restarts apply older ones again (production_kpis.go:106, production.go:9), or
\* what a person or a check wrote.  Excepted are those a handler failed for, two processes
\* had in hand at once, or a late commit made the group pass, for an older message of a
\* process may be the last applied; and the machine's figure when one was applied between
\* the two statements of a PATCH, which writes the old one back (plants.go:497, 542).
SettledIsCurrent ==
    Settled =>
        /\ \A k \in Keys \ Disturbed :
               About(k) # {} => row[k] = Last(About(k)) \/ (k \in Batches /\ row[k] = ByHand)
        /\ KeysOf(Rollups) \cap Disturbed = {} /\ ~crossed => oee \in {Last(Rollups), ByHand}

\* A plant holds the list published last of those it was offered, in whatever order and
\* by whichever process they are applied (production_shifts.go:73-74).
NewestShifts ==
    \A k \in Keys :
        /\ \A i \in offered[k] : row[k] # 0 /\ log[i].at <= log[row[k]].at
        /\ offered[k] # {} => row[k] \in offered[k]

\* Every message gets to a handler, wherever processes ended, once one stays up.
MessagesAreHandled ==
    <>[](\E c \in Consumers : Up(c)) =>
        \A i \in UNION {1 .. Len(l) : l \in Logs} : (i <= end) ~> (i \in handled \cup failed)

================================================================================
