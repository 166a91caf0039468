--------------------------- MODULE DowntimeProofs ---------------------------
(***************************************************************************)
(* Proofs about the downtime log, for any set of machines, stops and       *)
(* edits.                                                                  *)
(***************************************************************************)
EXTENDS Downtime, TLAPS

\* A stop that has not happened carries no end, so when it starts it is live.
PlannedIsNotOver ==
    \A s \in Stop : stop[s].state \in {"none", "scheduled"} => ~stop[s].over

\* What every step preserves besides the promises about machines.
LogInv == DowntimeTypeOK /\ PlannedIsNotOver /\ MessagesFollowLifecycle

LEMMA InitLog == DowntimeInit => LogInv
<1> SUFFICES ASSUME DowntimeInit PROVE LogInv
  OBVIOUS
<1>1. ASSUME NEW s \in Stop
      PROVE  stop[s] \in StopRow /\ stop[s].state = "none" /\ ~stop[s].over /\ published[s] = <<>>
  <2>1. stop[s] \in {[state |-> "none", asset |-> a, over |-> FALSE] : a \in Asset}
    BY DEF DowntimeInit
  <2>2. PICK a \in Asset : stop[s] = [state |-> "none", asset |-> a, over |-> FALSE]
    BY <2>1
  <2> QED
    BY <2>2 DEF DowntimeInit, StopRow, StopState
<1>2. stop \in [Stop -> StopRow]
  BY <1>1 DEF DowntimeInit
<1>3. published \in [Stop -> Seq(Message)]
  BY DEF DowntimeInit
<1>4. patch \in [Patch -> PatchRow]
  BY DEF DowntimeInit, PatchRow, AssetStatus
<1>5. MessagesFollowLifecycle
  BY <1>1 DEF MessagesFollowLifecycle, Tells
<1> QED
  BY <1>1, <1>2, <1>3, <1>4, <1>5 DEF LogInv, DowntimeTypeOK, PlannedIsNotOver, DowntimeInit

\* A step that adds a message m to the history of s, whose state becomes new,
\* keeps the log well told if m is the message that state calls for.
LEMMA PublishTells ==
  ASSUME NEW sent \in Seq(Message), NEW m \in Message, NEW old \in StopState, NEW new \in StopState,
         Tells(old, sent),
         \/ old \in {"none", "scheduled"} /\ new = "open" /\ m = "started"
         \/ old \in {"open", "closed"} /\ new = "closed" /\ m = "ended"
  PROVE  Append(sent, m) \in Seq(Message) /\ Tells(new, Append(sent, m))
<1>1. Append(sent, m) \in Seq(Message)
  OBVIOUS
<1>2. CASE old \in {"none", "scheduled"} /\ new = "open" /\ m = "started"
  <2>1. sent = <<>>
    BY <1>2 DEF Tells
  <2>2. Append(sent, m) = <<"started">>
    BY <1>2, <2>1
  <2> QED
    BY <1>2, <2>2 DEF Tells
<1>3. CASE old \in {"open", "closed"} /\ new = "closed" /\ m = "ended"
  <2>1. Len(sent) >= 1 /\ Len(sent) \in Nat
    <3>1. old = "open" => sent = <<"started">>
      BY DEF Tells
    <3>2. old = "closed" => Len(sent) > 1
      BY DEF Tells
    <3>3. Len(sent) \in Nat
      OBVIOUS
    <3>4. CASE old = "open"
      <4>1. Len(sent) = 1
        BY <3>1, <3>4
      <4> QED
        BY <4>1
    <3>5. CASE old = "closed"
      BY <3>2, <3>3, <3>5
    <3> QED
      BY <1>3, <3>4, <3>5
  <2>2. Len(Append(sent, m)) = Len(sent) + 1
    OBVIOUS
  <2>3. ASSUME NEW i \in 1..(Len(sent) + 1)
        PROVE  Append(sent, m)[i] = IF i = 1 THEN "started" ELSE "ended"
    <3>1. CASE i = Len(sent) + 1
      BY <1>3, <2>1, <3>1
    <3>2. CASE i \in 1..Len(sent)
      BY <2>1, <3>2 DEF Tells
    <3> QED
      BY <2>1, <3>1, <3>2
  <2> QED
    BY <1>1, <1>3, <2>1, <2>2, <2>3 DEF Tells
<1> QED
  BY <1>2, <1>3

\* What an operation on stop s does to the rows: s gets a new state and maybe
\* an end, keeps its machine, and every other row is left alone.
Moves(s, new, over) ==
    /\ stop' \in [Stop -> StopRow]
    /\ stop'[s].state = new
    /\ stop'[s].over = over
    /\ \A t \in Stop : stop'[t].asset = stop[t].asset
    /\ \A t \in Stop \ {s} : stop'[t] = stop[t]

\* What it does to the messages.
Sends(s, m) ==
    /\ published' \in [Stop -> Seq(Message)]
    /\ published'[s] = Append(published[s], m)
    /\ \A t \in Stop \ {s} : published'[t] = published[t]

LEMMA MoveState ==
  ASSUME DowntimeTypeOK, NEW s \in Stop, NEW new \in StopState,
         stop' = [stop EXCEPT ![s].state = new]
  PROVE  Moves(s, new, stop[s].over)
  BY DEF DowntimeTypeOK, Moves, StopRow

LEMMA MoveOver ==
  ASSUME DowntimeTypeOK, NEW s \in Stop, NEW new \in StopState,
         stop' = [stop EXCEPT ![s].state = new, ![s].over = TRUE]
  PROVE  Moves(s, new, TRUE)
  BY DEF DowntimeTypeOK, Moves, StopRow

LEMMA PublishSends ==
  ASSUME DowntimeTypeOK, NEW s \in Stop, NEW m \in Message, Publish(s, m)
  PROVE  Sends(s, m)
  BY DEF DowntimeTypeOK, Sends, Publish

\* A machine's status is set to a status.
LEMMA SetStatus ==
  ASSUME DowntimeTypeOK, NEW a \in Asset, NEW new \in AssetStatus,
         status' = [status EXCEPT ![a] = new]
  PROVE  /\ status' \in [Asset -> AssetStatus]
         /\ status'[a] = new
         /\ \A b \in Asset \ {a} : status'[b] = status[b]
  BY DEF DowntimeTypeOK

\* The step of one stop s keeps the log, whichever operation it is.
LEMMA MoveKeepsLog ==
  ASSUME LogInv, NEW s \in Stop, NEW new \in StopState, NEW over \in BOOLEAN, Moves(s, new, over),
         status' \in [Asset -> AssetStatus], patch' \in [Patch -> PatchRow],
         new \in {"none", "scheduled"} => ~over,
         published' \in [Stop -> Seq(Message)], Tells(new, published'[s]),
         \A t \in Stop \ {s} : published'[t] = published[t]
  PROVE  LogInv'
<1> USE DEF LogInv, Moves
<1>1. PlannedIsNotOver'
  BY DEF PlannedIsNotOver
<1>2. MessagesFollowLifecycle'
  BY DEF MessagesFollowLifecycle
<1> QED
  BY <1>1, <1>2 DEF DowntimeTypeOK

-----------------------------------------------------------------------------
(***************************************************************************)
(* Each operation in these terms.                                          *)
(***************************************************************************)
\* The stop takes its machine down and says so.
LEMMA TakesDown ==
  ASSUME DowntimeTypeOK, NEW s \in Stop, CreateOpen(s) \/ StartDowntimeEvent(s)
  PROVE  /\ stop[s].state \in {"none", "scheduled"}
         /\ Moves(s, "open", stop[s].over) /\ Sends(s, "started")
         /\ status' = [status EXCEPT ![stop[s].asset] = "down"] /\ UNCHANGED patch
<1>1. stop[s].state \in {"none", "scheduled"} /\ stop' = [stop EXCEPT ![s].state = "open"]
      /\ Publish(s, "started")
  BY DEF CreateOpen, StartDowntimeEvent
<1> QED
  BY <1>1, MoveState, PublishSends DEF CreateOpen, StartDowntimeEvent, StopState, Message

LEMMA WritesUp ==
  ASSUME DowntimeTypeOK, NEW s \in Stop, CreateHistorical(s)
  PROVE  /\ stop[s].state = "none"
         /\ Moves(s, "open", TRUE) /\ Sends(s, "started") /\ UNCHANGED <<status, patch>>
  BY MoveOver, PublishSends DEF CreateHistorical, StopState, Message

LEMMA Ends ==
  ASSUME DowntimeTypeOK, NEW s \in Stop, EndDowntimeEvent(s)
  PROVE  /\ stop[s].state \in {"open", "closed"}
         /\ Moves(s, "closed", TRUE) /\ Sends(s, "ended")
         /\ status' = [status EXCEPT ![stop[s].asset] = "idle"] /\ UNCHANGED patch
<1>1. stop[s].state \in {"open", "closed"}
  BY DEF EndDowntimeEvent, Exists, DowntimeTypeOK, StopRow, StopState
<1> QED
  BY <1>1, MoveOver, PublishSends DEF EndDowntimeEvent, StopState, Message

\* The stop is planned, dropped or deleted.
LEMMA Replans ==
  ASSUME DowntimeTypeOK, NEW s \in Stop,
         CreateScheduled(s) \/ CancelDowntimeEvent(s) \/ DeleteDowntimeEvent(s)
  PROVE  /\ UNCHANGED <<status, published, patch>>
         /\ \E new \in {"scheduled", "cancelled", "deleted"} :
               /\ Moves(s, new, stop[s].over)
               /\ new # "deleted" => stop[s].state \in {"none", "scheduled"}
<1>1. CASE CreateScheduled(s)
  BY <1>1, MoveState DEF CreateScheduled, StopState
<1>2. CASE CancelDowntimeEvent(s)
  BY <1>2, MoveState DEF CancelDowntimeEvent, StopState
<1>3. CASE DeleteDowntimeEvent(s)
  BY <1>3, MoveState DEF DeleteDowntimeEvent, StopState
<1> QED
  BY <1>1, <1>2, <1>3

LEMMA Edits ==
  ASSUME DowntimeTypeOK, NEW p \in Patch, PatchRead(p) \/ PatchWrite(p)
  PROVE  /\ UNCHANGED <<stop, published>>
         /\ status' \in [Asset -> AssetStatus]
         /\ patch' \in [Patch -> PatchRow]
<1> USE DEF DowntimeTypeOK, PatchRow, AssetStatus, Unnamed
<1>1. CASE PatchRead(p)
  BY <1>1 DEF PatchRead
<1>2. CASE PatchWrite(p)
  <2>1. /\ patch' = [patch EXCEPT ![p].pc = "done"]
        /\ status' = [status EXCEPT ![patch[p].asset] =
                         IF patch[p].names = Unnamed THEN patch[p].status ELSE patch[p].names]
        /\ UNCHANGED <<stop, published>>
    BY <1>2 DEF PatchWrite
  <2>2. (IF patch[p].names = Unnamed THEN patch[p].status ELSE patch[p].names) \in AssetStatus
    OBVIOUS
  <2>3. status' \in [Asset -> AssetStatus]
    BY <2>1, <2>2
  <2>4. patch' \in [Patch -> PatchRow]
    BY <2>1
  <2> QED
    BY <2>1, <2>3, <2>4
<1> QED
  BY <1>1, <1>2

-----------------------------------------------------------------------------
LEMMA LogStep ==
  ASSUME LogInv, [DowntimeNext]_downtimeVars
  PROVE  LogInv'
<1> USE DEF LogInv
<1>1. ASSUME NEW s \in Stop, CreateOpen(s) \/ StartDowntimeEvent(s) \/ CreateHistorical(s)
      PROVE  LogInv'
  <2>1. /\ stop[s].state \in {"none", "scheduled"} /\ Sends(s, "started") /\ UNCHANGED patch
        /\ \E over \in BOOLEAN : Moves(s, "open", over)
        /\ status' \in [Asset -> AssetStatus]
    <3>1. CASE CreateHistorical(s)
      BY <3>1, WritesUp DEF DowntimeTypeOK
    <3>2. CASE CreateOpen(s) \/ StartDowntimeEvent(s)
      BY <3>2, TakesDown, SetStatus DEF DowntimeTypeOK, StopRow, AssetStatus
    <3> QED
      BY <1>1, <3>1, <3>2
  <2>2. published'[s] \in Seq(Message) /\ Tells("open", published'[s])
    BY <2>1, PublishTells DEF MessagesFollowLifecycle, DowntimeTypeOK, Sends, StopRow, StopState, Message
  <2> QED
    BY <2>1, <2>2, MoveKeepsLog DEF DowntimeTypeOK, Sends, StopState
<1>2. ASSUME NEW s \in Stop, EndDowntimeEvent(s)
      PROVE  LogInv'
  <2>1. /\ stop[s].state \in {"open", "closed"} /\ Sends(s, "ended") /\ UNCHANGED patch
        /\ Moves(s, "closed", TRUE)
        /\ status' \in [Asset -> AssetStatus]
    BY <1>2, Ends, SetStatus DEF DowntimeTypeOK, StopRow, AssetStatus
  <2>2. published'[s] \in Seq(Message) /\ Tells("closed", published'[s])
    BY <2>1, PublishTells DEF MessagesFollowLifecycle, DowntimeTypeOK, Sends, StopRow, StopState, Message
  <2> QED
    BY <2>1, <2>2, MoveKeepsLog DEF DowntimeTypeOK, Sends, StopState
<1>3. ASSUME NEW s \in Stop, CreateScheduled(s) \/ CancelDowntimeEvent(s) \/ DeleteDowntimeEvent(s)
      PROVE  LogInv'
  <2>1. UNCHANGED <<status, published, patch>>
    BY <1>3, Replans
  <2>2. PICK new \in {"scheduled", "cancelled", "deleted"} :
               /\ Moves(s, new, stop[s].over)
               /\ new # "deleted" => stop[s].state \in {"none", "scheduled"}
    BY <1>3, Replans
  <2>3. Tells(new, published'[s])
    BY <2>1, <2>2 DEF MessagesFollowLifecycle, Tells
  <2>4. stop[s].over \in BOOLEAN /\ (new = "scheduled" => ~stop[s].over)
    BY <2>2 DEF PlannedIsNotOver, DowntimeTypeOK, StopRow
  <2> QED
    BY <2>1, <2>2, <2>3, <2>4, MoveKeepsLog DEF DowntimeTypeOK, StopState
<1>4. ASSUME NEW p \in Patch, PatchRead(p) \/ PatchWrite(p)
      PROVE  LogInv'
  BY <1>4, Edits DEF DowntimeTypeOK, MessagesFollowLifecycle, PlannedIsNotOver
<1>5. CASE UNCHANGED downtimeVars
  BY <1>5 DEF downtimeVars, DowntimeTypeOK, MessagesFollowLifecycle, PlannedIsNotOver
<1> QED
  BY <1>1, <1>2, <1>3, <1>4, <1>5 DEF DowntimeNext, StopNext

-----------------------------------------------------------------------------
(***************************************************************************)
(* The promises about machines.  A step of one stop touches one machine;   *)
(* for every other machine nothing it promises about has changed.          *)
(***************************************************************************)
MachineInv == LiveStopMeansDown /\ MachinesComeBack

LEMMA InitMachines == DowntimeInit /\ LogInv => MachineInv
<1> SUFFICES ASSUME DowntimeInit, LogInv PROVE MachineInv
  OBVIOUS
<1>1. \A s \in Stop : published[s] = <<>>
  BY DEF DowntimeInit
<1>2. \A s \in Stop : ~Ended(s) /\ ~Live(s)
  <2>1. ASSUME NEW s \in Stop PROVE ~Ended(s)
    BY <1>1 DEF Ended
  <2>2. ASSUME NEW s \in Stop, Live(s) PROVE FALSE
    BY <1>1, <2>2 DEF Live, LogInv, MessagesFollowLifecycle, Tells
  <2> QED
    BY <2>1, <2>2
<1> QED
  BY <1>2 DEF MachineInv, LiveStopMeansDown, MachinesComeBack, DownWhileLive, IdleOnceEnded, On

\* A stop with one message has not been ended.
LEMMA OneMessage ==
  ASSUME NEW s \in Stop, published[s] \in {<<>>, <<"started">>}
  PROVE  ~Ended(s)
  BY DEF Ended

LEMMA EndedAfterEnd ==
  ASSUME DowntimeTypeOK, NEW s \in Stop, Sends(s, "ended")
  PROVE  Ended(s)'
<1> DEFINE n == Len(published[s]) + 1
<1>1. published[s] \in Seq(Message)
  BY DEF DowntimeTypeOK
<1>2. n \in DOMAIN published'[s] /\ published'[s][n] = "ended"
  BY <1>1 DEF Sends
<1> QED
  BY <1>2 DEF Ended

\* For a machine that the stop s is not on, a step of s changes nothing.
LEMMA OtherMachines ==
  ASSUME LogInv, MachineInv, NEW s \in Stop, NEW new \in StopState, NEW over \in BOOLEAN,
         Moves(s, new, over), \A t \in Stop \ {s} : published'[t] = published[t], UNCHANGED patch,
         NEW a \in Asset, a # stop[s].asset, status'[a] = status[a]
  PROVE  /\ On(a)' = On(a)
         /\ Unedited(a)' => Unedited(a)
         /\ \A t \in On(a) : /\ Live(t)' <=> Live(t)
                             /\ Ended(t)' <=> Ended(t)
                             /\ Holding(t)' <=> Holding(t)
<1>1. On(a)' = On(a)
  BY DEF On, Moves
<1>2. \A t \in On(a) : t # s /\ t \in Stop
  BY DEF On
<1>3. \A t \in On(a) : stop'[t] = stop[t] /\ published'[t] = published[t]
  BY <1>2 DEF Moves
<1> QED
  BY <1>1, <1>3 DEF Unedited, Live, Ended, Holding

\* A machine keeps its promises over a step of a stop it is not under.
LEMMA OtherMachinesKeep ==
  ASSUME LogInv, MachineInv, NEW s \in Stop, NEW new \in StopState, NEW over \in BOOLEAN,
         Moves(s, new, over), \A t \in Stop \ {s} : published'[t] = published[t], UNCHANGED patch,
         NEW a \in Asset, a # stop[s].asset, status'[a] = status[a]
  PROVE  DownWhileLive(a)' /\ IdleOnceEnded(a)'
<1>1. On(a)' = On(a) /\ (Unedited(a)' => Unedited(a))
  BY OtherMachines
<1>2. \A t \in On(a) : (Live(t)' <=> Live(t)) /\ (Ended(t)' <=> Ended(t)) /\ (Holding(t)' <=> Holding(t))
  BY OtherMachines
<1>3. DownWhileLive(a) /\ IdleOnceEnded(a)
  BY DEF MachineInv, LiveStopMeansDown, MachinesComeBack
<1>4. DownWhileLive(a)'
  BY <1>1, <1>2, <1>3 DEF DownWhileLive
<1>5. IdleOnceEnded(a)'
  BY <1>1, <1>2, <1>3 DEF IdleOnceEnded
<1> QED
  BY <1>4, <1>5

LEMMA MachineStep ==
  ASSUME LogInv, MachineInv, LogInv', [DowntimeNext]_downtimeVars
  PROVE  MachineInv'
<1> SUFFICES ASSUME NEW a \in Asset
             PROVE  DownWhileLive(a)' /\ IdleOnceEnded(a)'
  BY DEF MachineInv, LiveStopMeansDown, MachinesComeBack
<1> USE DEF LogInv
<1>0. DownWhileLive(a) /\ IdleOnceEnded(a)
  BY DEF MachineInv, LiveStopMeansDown, MachinesComeBack
\* Starting: the machine is down, and the stop now holds it.
<1>1. ASSUME NEW s \in Stop, CreateOpen(s) \/ StartDowntimeEvent(s)
      PROVE  DownWhileLive(a)' /\ IdleOnceEnded(a)'
  <2>1. /\ stop[s].state \in {"none", "scheduled"} /\ Moves(s, "open", stop[s].over)
        /\ Sends(s, "started") /\ UNCHANGED patch
        /\ status' = [status EXCEPT ![stop[s].asset] = "down"]
    BY <1>1, TakesDown
  <2>2. CASE a = stop[s].asset
    <3>1. status'[a] = "down"
      BY <2>1, <2>2 DEF DowntimeTypeOK
    <3>2. s \in On(a)'
      BY <2>1, <2>2 DEF On, Moves
    <3>3. published'[s] = <<"started">>
      BY <2>1 DEF Moves, MessagesFollowLifecycle, Tells
    <3>4. ~stop'[s].over
      BY <2>1 DEF Moves, PlannedIsNotOver
    <3>5. Holding(s)'
      BY <3>3, <3>4 DEF Holding
    <3> QED
      BY <3>1, <3>2, <3>5 DEF DownWhileLive, IdleOnceEnded
  <2>3. CASE a # stop[s].asset
    <3>1. status'[a] = status[a]
      BY <2>1, <2>3 DEF DowntimeTypeOK
    <3> QED
      BY <2>1, <2>3, <3>1, OtherMachinesKeep DEF Sends, StopState, DowntimeTypeOK, StopRow
  <2> QED
    BY <2>2, <2>3
\* Writing up: the stop is neither live nor ended, and did not hold the machine.
<1>2. ASSUME NEW s \in Stop, CreateHistorical(s)
      PROVE  DownWhileLive(a)' /\ IdleOnceEnded(a)'
  <2>1. /\ stop[s].state = "none" /\ Moves(s, "open", TRUE) /\ Sends(s, "started")
        /\ UNCHANGED <<status, patch>>
    BY <1>2, WritesUp
  <2>2. published[s] = <<>> /\ published'[s] = <<"started">>
    BY <2>1 DEF Moves, MessagesFollowLifecycle, Tells
  <2>3. ~Live(s)' /\ ~Ended(s)' /\ ~Ended(s) /\ ~Holding(s)
    BY <2>1, <2>2 DEF Live, Moves, Ended, Holding
  <2>4. ASSUME NEW t \in Stop, t # s
        PROVE  (Live(t)' <=> Live(t)) /\ (Ended(t)' <=> Ended(t)) /\ (Holding(t)' <=> Holding(t))
    BY <2>1, <2>4 DEF Moves, Sends, Live, Ended, Holding
  <2>5. On(a)' = On(a) /\ On(a) \subseteq Stop
    BY <2>1 DEF On, Moves
  <2>6. (Unedited(a)' <=> Unedited(a)) /\ status'[a] = status[a]
    BY <2>1 DEF Unedited
  <2>7. DownWhileLive(a)'
    BY <1>0, <2>3, <2>4, <2>5, <2>6 DEF DownWhileLive
  <2>8. IdleOnceEnded(a)'
    BY <1>0, <2>3, <2>4, <2>5, <2>6 DEF IdleOnceEnded
  <2> QED
    BY <2>7, <2>8
\* Ending: the machine is idle, and a stop on it has been ended.
<1>3. ASSUME NEW s \in Stop, EndDowntimeEvent(s)
      PROVE  DownWhileLive(a)' /\ IdleOnceEnded(a)'
  <2>1. /\ Moves(s, "closed", TRUE) /\ Sends(s, "ended") /\ UNCHANGED patch
        /\ status' = [status EXCEPT ![stop[s].asset] = "idle"]
    BY <1>3, Ends
  <2>2. CASE a = stop[s].asset
    <3>1. status'[a] = "idle"
      BY <2>1, <2>2 DEF DowntimeTypeOK
    <3>2. s \in On(a)' /\ Ended(s)'
      BY <2>1, <2>2, EndedAfterEnd DEF On, Moves
    <3> QED
      BY <3>1, <3>2 DEF DownWhileLive, IdleOnceEnded
  <2>3. CASE a # stop[s].asset
    <3>1. status'[a] = status[a]
      BY <2>1, <2>3 DEF DowntimeTypeOK
    <3> QED
      BY <2>1, <2>3, <3>1, OtherMachinesKeep DEF Sends, StopState
  <2> QED
    BY <2>2, <2>3
\* Planning, dropping and deleting make no stop live and tell nobody anything.
<1>4. ASSUME NEW s \in Stop, CreateScheduled(s) \/ CancelDowntimeEvent(s) \/ DeleteDowntimeEvent(s)
      PROVE  DownWhileLive(a)' /\ IdleOnceEnded(a)'
  <2>1. UNCHANGED <<status, published, patch>>
    BY <1>4, Replans
  <2>2. PICK new \in {"scheduled", "cancelled", "deleted"} : Moves(s, new, stop[s].over)
    BY <1>4, Replans
  <2>3. ASSUME NEW t \in Stop
        PROVE  (Live(t)' => Live(t)) /\ (Ended(t)' <=> Ended(t)) /\ (Holding(t)' <=> Holding(t))
    BY <2>1, <2>2 DEF Moves, Live, Ended, Holding
  <2>4. On(a)' = On(a) /\ On(a) \subseteq Stop
    BY <2>2 DEF On, Moves
  <2>5. (Unedited(a)' <=> Unedited(a)) /\ status'[a] = status[a]
    BY <2>1 DEF Unedited
  <2>6. DownWhileLive(a)'
    BY <1>0, <2>3, <2>4, <2>5 DEF DownWhileLive
  <2>7. IdleOnceEnded(a)'
    BY <1>0, <2>3, <2>4, <2>5 DEF IdleOnceEnded
  <2> QED
    BY <2>6, <2>7
\* An edit that is written takes its machine out of both promises.
<1>5. ASSUME NEW p \in Patch, PatchRead(p) \/ PatchWrite(p)
      PROVE  DownWhileLive(a)' /\ IdleOnceEnded(a)'
  <2>1. UNCHANGED <<stop, published>>
    BY <1>5, Edits
  <2>2. On(a)' = On(a) /\ On(a) \subseteq Stop
        /\ \A t \in Stop : (Live(t)' <=> Live(t)) /\ (Ended(t)' <=> Ended(t)) /\ (Holding(t)' <=> Holding(t))
    BY <2>1 DEF On, Live, Ended, Holding
  <2>3. Unedited(a)' => Unedited(a) /\ status'[a] = status[a]
    <3>1. CASE PatchRead(p)
      BY <3>1 DEF PatchRead, Unedited, DowntimeTypeOK, PatchRow
    <3>2. CASE PatchWrite(p)
      BY <3>2 DEF PatchWrite, Unedited, DowntimeTypeOK, PatchRow
    <3> QED
      BY <1>5, <3>1, <3>2
  <2>4. DownWhileLive(a)'
    BY <1>0, <2>2, <2>3 DEF DownWhileLive
  <2>5. IdleOnceEnded(a)'
    BY <1>0, <2>2, <2>3 DEF IdleOnceEnded
  <2> QED
    BY <2>4, <2>5
<1>6. CASE UNCHANGED downtimeVars
  BY <1>0, <1>6 DEF downtimeVars, DownWhileLive, IdleOnceEnded, On, Live, Ended, Holding, Unedited
<1> QED
  BY <1>1, <1>2, <1>3, <1>4, <1>5, <1>6 DEF DowntimeNext, StopNext

-----------------------------------------------------------------------------
\* The log is well formed and every stop's messages tell its life, in every
\* reachable state: PublishTx commits each message with the change it reports.
THEOREM LogIsTold == DowntimeSpec => [](DowntimeTypeOK /\ MessagesFollowLifecycle)
<1>1. DowntimeSpec => []LogInv
  BY InitLog, LogStep, PTL DEF DowntimeSpec
<1> QED
  BY <1>1, PTL DEF LogInv

\* A live stop holds its machine down until a stop of that machine is ended,
\* and a machine whose stops have all been ended is idle again, for any number
\* of overlapping stops.
THEOREM MachinesFollowTheLog == DowntimeSpec => [](LiveStopMeansDown /\ MachinesComeBack)
<1>1. LogInv /\ MachineInv /\ [DowntimeNext]_downtimeVars => (LogInv /\ MachineInv)'
  BY LogStep, MachineStep
<1>2. DowntimeSpec => [](LogInv /\ MachineInv)
  BY <1>1, InitLog, InitMachines, PTL DEF DowntimeSpec
<1> QED
  BY <1>2, PTL DEF MachineInv
=============================================================================
