------------------------------ MODULE Downtime ------------------------------
(***************************************************************************)
(* The downtime log and the status of the machines it is kept for          *)
(* (internal/store/cmms.go, and the status half of PatchAsset in           *)
(* internal/store/plants.go).                                              *)
(*                                                                         *)
(* A stop is one row of mes_downtime_events.  Every operation on it is one *)
(* database transaction that locks the row (SELECT ... FOR UPDATE) or is a *)
(* single UPDATE, so it is one action here.  A change of a machine's       *)
(* registry row is not: PatchAsset reads the whole row, and writes the     *)
(* whole row back in a second statement, so other requests run between.    *)
(***************************************************************************)
EXTENDS Naturals, Sequences

CONSTANTS
    Asset,        \* machines (mes_assets.tag)
    Stop,         \* identifiers of downtime rows; one is used at most once
    Patch,        \* requests that PATCH a machine's registry row
    MaxMessages   \* bound on the messages of one stop (a closed stop can be ended again)

ASSUME MaxMessagesAssumption == MaxMessages \in Nat

VARIABLES
    stop,        \* the downtime rows
    status,      \* mes_assets.status
    published,   \* per stop, its outbox messages in commit order
    patch        \* the registry edits in flight

downtimeVars == <<stop, status, published, patch>>

StopState   == {"none", "scheduled", "open", "closed", "cancelled", "deleted"}
AssetStatus == {"running", "idle", "down", "retired"}
Message     == {"started", "ended"}

\* over: the row carries an ended_at.
StopRow  == [state : StopState, asset : Asset, over : BOOLEAN]
\* names: the status the request names, or Unnamed; status: the one it read.
Unnamed  == "unnamed"
PatchRow == [pc : {"new", "read", "done"}, asset : Asset,
             names : AssetStatus \cup {Unnamed}, status : AssetStatus]

DowntimeTypeOK ==
    /\ stop \in [Stop -> StopRow]
    /\ status \in [Asset -> AssetStatus]
    /\ published \in [Stop -> Seq(Message)]
    /\ patch \in [Patch -> PatchRow]

DowntimeInit ==
    /\ stop \in [Stop -> {[state |-> "none", asset |-> a, over |-> FALSE] : a \in Asset}]
    /\ status \in [Asset -> AssetStatus]
    /\ published = [s \in Stop |-> <<>>]
    /\ patch \in [Patch -> [pc : {"new"}, asset : Asset,
                            names : AssetStatus \cup {Unnamed}, status : {"idle"}]]

-----------------------------------------------------------------------------
(***************************************************************************)
(* The operations.  `Publish` is PublishTx: the outbox row commits with    *)
(* the change it reports.                                                  *)
(***************************************************************************)
Exists(s) == stop[s].state \notin {"none", "deleted"}

Publish(s, message) ==
    /\ Len(published[s]) < MaxMessages
    /\ published' = [published EXCEPT ![s] = Append(@, message)]

(***************************************************************************)
(* Slips.  Each is an operation as a plausible mistake would leave it; the *)
(* properties below are checked to fail when one replaces its original.    *)
(***************************************************************************)
\* The stop written up afterwards takes its machine down.
HistoricalTakesDown(s) ==
    /\ stop[s].state = "none"
    /\ stop' = [stop EXCEPT ![s].state = "open", ![s].over = TRUE]
    /\ status' = [status EXCEPT ![stop[s].asset] = "down"]
    /\ Publish(s, "started")
    /\ UNCHANGED patch

\* Starting a planned stop forgets its machine.
StartForgetsMachine(s) ==
    /\ stop[s].state = "scheduled"
    /\ stop' = [stop EXCEPT ![s].state = "open"]
    /\ Publish(s, "started")
    /\ UNCHANGED <<status, patch>>

\* The state is spelt another way.
CancelMisspelt(s) ==
    /\ stop[s].state = "scheduled"
    /\ stop' = [stop EXCEPT ![s].state = "canceled"]
    /\ UNCHANGED <<status, published, patch>>

\* A stop that has not started can be ended.
EndUnstarted(s) ==
    /\ Exists(s)
    /\ stop' = [stop EXCEPT ![s].state = "closed", ![s].over = TRUE]
    /\ status' = [status EXCEPT ![stop[s].asset] = "idle"]
    /\ Publish(s, "ended")
    /\ UNCHANGED patch

-----------------------------------------------------------------------------
\* The stop that happens now, and takes its machine down.
CreateOpen(s) ==
    /\ stop[s].state = "none"
    /\ stop' = [stop EXCEPT ![s].state = "open"]
    /\ status' = [status EXCEPT ![stop[s].asset] = "down"]
    /\ Publish(s, "started")
    /\ UNCHANGED patch

\* A stop written up after it was over: it is stored open, with its end, and
\* the machine is left alone -- but its start is announced like any other.
CreateHistorical(s) ==
    /\ stop[s].state = "none"
    /\ stop' = [stop EXCEPT ![s].state = "open", ![s].over = TRUE]
    /\ Publish(s, "started")
    /\ UNCHANGED <<status, patch>>

\* A stop agreed before it happens.
CreateScheduled(s) ==
    /\ stop[s].state = "none"
    /\ stop' = [stop EXCEPT ![s].state = "scheduled"]
    /\ UNCHANGED <<status, published, patch>>

StartDowntimeEvent(s) ==
    /\ stop[s].state = "scheduled"
    /\ stop' = [stop EXCEPT ![s].state = "open"]
    /\ status' = [status EXCEPT ![stop[s].asset] = "down"]
    /\ Publish(s, "started")
    /\ UNCHANGED patch

CancelDowntimeEvent(s) ==
    /\ stop[s].state = "scheduled"
    /\ stop' = [stop EXCEPT ![s].state = "cancelled"]
    /\ UNCHANGED <<status, published, patch>>

\* Only a scheduled or a cancelled stop is refused: a closed one is ended again.
EndDowntimeEvent(s) ==
    /\ Exists(s)
    /\ stop[s].state \notin {"scheduled", "cancelled"}
    /\ stop' = [stop EXCEPT ![s].state = "closed", ![s].over = TRUE]
    /\ status' = [status EXCEPT ![stop[s].asset] = "idle"]
    /\ Publish(s, "ended")
    /\ UNCHANGED patch

DeleteDowntimeEvent(s) ==
    /\ Exists(s)
    /\ stop' = [stop EXCEPT ![s].state = "deleted"]
    /\ UNCHANGED <<status, published, patch>>

\* PatchAsset reads the row ...
PatchRead(p) ==
    /\ patch[p].pc = "new"
    /\ patch' = [patch EXCEPT ![p].pc = "read", ![p].status = status[patch[p].asset]]
    /\ UNCHANGED <<stop, status, published>>

\* ... and writes it whole: with the status the request names, or, when it
\* names none, the one it read, whatever the row holds by then.
PatchWrite(p) ==
    /\ patch[p].pc = "read"
    /\ status' = [status EXCEPT ![patch[p].asset] =
                      IF patch[p].names = Unnamed THEN patch[p].status ELSE patch[p].names]
    /\ patch' = [patch EXCEPT ![p].pc = "done"]
    /\ UNCHANGED <<stop, published>>

StopNext(s) ==
    \/ CreateOpen(s)
    \/ CreateHistorical(s)
    \/ CreateScheduled(s)
    \/ StartDowntimeEvent(s)
    \/ CancelDowntimeEvent(s)
    \/ EndDowntimeEvent(s)
    \/ DeleteDowntimeEvent(s)

DowntimeNext ==
    \/ \E s \in Stop : StopNext(s)
    \/ \E p \in Patch : PatchRead(p) \/ PatchWrite(p)

DowntimeSpec == DowntimeInit /\ [][DowntimeNext]_downtimeVars
-----------------------------------------------------------------------------
(***************************************************************************)
(* What the log promises.                                                  *)
(***************************************************************************)
\* The stop is happening, as far as its row says.
Live(s) == stop[s].state = "open" /\ ~stop[s].over

Ended(s) == "ended" \in {published[s][i] : i \in DOMAIN published[s]}

\* The stop took its machine down and was never ended; its row may be deleted.
Holding(s) == published[s] = <<"started">> /\ ~stop[s].over

On(a) == {s \in Stop : stop[s].asset = a}

\* No edit of the machine's registry row has been written.
Unedited(a) == \A p \in Patch : patch[p].asset = a => patch[p].pc # "done"

\* The messages a stop in this state can have committed.
Tells(state, sent) ==
    /\ state \in {"none", "scheduled", "cancelled"} => sent = <<>>
    /\ state = "open" => sent = <<"started">>
    /\ state = "closed" => Len(sent) > 1
    /\ \A i \in 1..Len(sent) : sent[i] = IF i = 1 THEN "started" ELSE "ended"

\* A stop's messages tell its life: nothing while it is only planned or was
\* cancelled, one start while it is open, and ends only after that one start.
\* This is what PublishTx inside each transaction is for.
MessagesFollowLifecycle == \A s \in Stop : Tells(stop[s].state, published[s])

DownWhileLive(a) ==
    /\ Unedited(a)
    /\ \A s \in On(a) : ~Ended(s)
    /\ \E s \in On(a) : Live(s)
    => status[a] = "down"

\* While no stop of a machine has been ended, a stop that is happening means
\* that the machine is down (cmms.go: only an open event means the machine is
\* down now).  Ending another stop of the same machine makes it idle all the same.
LiveStopMeansDown == \A a \in Asset : DownWhileLive(a)

IdleOnceEnded(a) ==
    /\ Unedited(a)
    /\ \E s \in On(a) : Ended(s)
    /\ \A s \in On(a) : ~Holding(s)
    => status[a] = "idle"

\* A machine that was stopped comes back: once every stop that took it down has
\* been ended, it is idle, however the stops overlapped.  A stop deleted while
\* it was open is the exception: nothing is left that would end it.
MachinesComeBack == \A a \in Asset : IdleOnceEnded(a)
=============================================================================
