---------------------------- MODULE RetryFailed -----------------------------
(***************************************************************************)
(* `wallet-scan retry-failed` (cmd/wallet-scan/main.go, retryFailed): the  *)
(* loop that queries the rows of retry_queue again                         *)
(* (internal/scanner/scanner.go, RetryFailed) and drains the outbox of     *)
(* notification_events (internal/notifications/outbox.go).  Several such   *)
(* processes, and scans that add retries, findings and events, work on the *)
(* same tables.  One action is one SQL statement or transaction, one       *)
(* provider query or one webhook request.                                  *)
(*                                                                         *)
(* An item is an address and a chain with a row in retry_queue, numbered   *)
(* by the id of that row; each has an address of its own.                  *)
(***************************************************************************)
EXTENDS Naturals, FiniteSets

CONSTANTS
    Procs,      \* processes, each a retry-failed or a scan while it runs
    NItems,     \* number of rows of retry_queue
    NEvents,    \* bound on the rows of notification_events
    Balances,   \* positive balances a provider can answer
    BatchSize,  \* BATCH_SIZE, the LIMIT of both queries
    Reopens,    \* how many failures a concurrent scan may add
    NIncidents, \* bound on the rows of node_incidents
    Crashes     \* whether processes may crash

Items == 1 .. NItems
Events == 1 .. NEvents

ASSUME SizesAssumption ==
    /\ NItems \in Nat /\ NEvents \in Nat /\ Reopens \in Nat /\ NIncidents \in Nat
    /\ BatchSize \in Nat \ {0}
ASSUME ProcsAssumption == IsFiniteSet(Procs)
ASSUME ValuesAssumption == Balances \subseteq Nat \ {0} /\ Crashes \in BOOLEAN

VARIABLES
    queue,      \* queue[i]: "waiting" or "ready" (next_retry_at), "resolved"
    finding,    \* finding[i]: balance_atomic in positive_findings, 0 if no row
    nEvents,    \* number of rows of notification_events
    events,     \* events[e]: the row of notification_events
    incidents,  \* number of rows of node_incidents
    pc,         \* pc[p]: what process p does next
    job,        \* job[p]: its local variables
    reopened,   \* failures a concurrent scan has added
    told,       \* history: told[i], the messages about i that reached the webhook
    owed,       \* history: owed[i], the balance with which i was last closed,
                \*   until positive_findings holds it
    lost        \* history: what processes held that ended between two statements

tables == <<queue, finding, nEvents, events, incidents>>
history == <<told, owed, lost>>
vars == <<tables, pc, job, reopened, history>>

-----------------------------------------------------------------------------
(* State *)

\* What an event is about: an item, or a row of node_incidents (event_type
\* node_error), numbered from NItems + 1.  The message about an item is its
\* balance, the one about an incident is Outage.  Subject 0 is none.
Outage == 0
Incidents == NItems + 1 .. NItems + NIncidents
Subjects == 0 .. NItems + NIncidents

NoEvent == [item |-> 0, status |-> "absent", due |-> FALSE]

\* before: the count at the start of the loop body; todo and drain: the rows
\* still to retry and the events still to deliver; item and balance: the row
\* and the answer, or the incident, at hand; event, message, ok: the delivery
\* at hand; back: where the caller of Deliver goes on.
NoJob == [before |-> 0, todo |-> {}, item |-> 0, balance |-> 0,
          drain |-> {}, back |-> "retry", event |-> 0, message |-> 0, ok |-> FALSE]

Init ==
    /\ queue = [i \in Items |-> "ready"]
    /\ finding = [i \in Items |-> 0]
    /\ nEvents = 0 /\ events = [e \in Events |-> NoEvent] /\ incidents = 0
    /\ pc = [p \in Procs |-> "idle"] /\ job = [p \in Procs |-> NoJob]
    /\ reopened = 0
    /\ told = [i \in Subjects |-> {}] /\ owed = [i \in Items |-> 0] /\ lost = {}

Goto(p, statement) == pc' = [pc EXCEPT ![p] = statement]

Return(p) == Goto(p, "idle") /\ job' = [job EXCEPT ![p] = NoJob]

\* The row is resolved, or the incident recorded, and what p holds of it is in
\* no table yet: it is lost if p ends here.
Abandon(p) ==
    lost' = IF pc[p] \in {"save", "announce"}
              THEN lost \cup {<<job[p].item, job[p].balance>>} ELSE lost

\* The n lowest members of S: ORDER BY ... LIMIT n.
Lowest(S, n) == {x \in S : Cardinality({y \in S : y < x}) < n}
IsFirst(x, S) == x \in S /\ \A y \in S : x <= y

Open == {i \in Items : queue[i] # "resolved"}
Ready == {i \in Items : queue[i] = "ready"}

-----------------------------------------------------------------------------
(* retryFailed *)

Start(p) ==
    /\ pc[p] = "idle"
    /\ Goto(p, "before")
    /\ UNCHANGED <<tables, job, reopened, history>>

\* ReadStatus; an empty queue ends the command.
ReadBefore(p) ==
    /\ pc[p] = "before"
    /\ \/ Open = {} /\ Return(p)
       \/ /\ Open # {}
          /\ job' = [job EXCEPT ![p].before = Cardinality(Open)]
          /\ Goto(p, "fetch")
    /\ UNCHANGED <<tables, reopened, history>>

\* Mutant: the loop goes on unless the queue has grown.
NotGrown(p) == Cardinality(Open) <= job[p].before
\* ! (after.RetryCount >= before.RetryCount)
Progress(p) == Cardinality(Open) < job[p].before

\* ReadStatus again; the loop goes on only if rows were resolved.
ReadAfter(p) ==
    /\ pc[p] = "after"
    /\ Goto(p, IF Progress(p) THEN "before" ELSE "leftover")
    /\ job' = [job EXCEPT ![p] = NoJob]
    /\ UNCHANGED <<tables, reopened, history>>

\* NextRetries(1) tells "made no progress" from "nothing is ready".
Leftover(p) ==
    /\ pc[p] = "leftover"
    /\ Return(p)
    /\ UNCHANGED <<tables, reopened, history>>

-----------------------------------------------------------------------------
(* RetryFailed *)

NextRetries(p) ==
    /\ pc[p] = "fetch"
    /\ job' = [job EXCEPT ![p].todo = Lowest(Ready, BatchSize)]
    /\ Goto(p, "retry")
    /\ UNCHANGED <<tables, reopened, history>>

\* The processes that are about to add an event.
Announcing == {p \in Procs : pc[p] = "announce"}
Saving == {p \in Procs : pc[p] \in {"close", "save"} /\ job[p].balance > 0}

\* The bound on events: room for one more, besides those about to be added.
RoomForEvent == nEvents + Cardinality(Announcing \cup Saving) < NEvents

\* checkWithRetry for the next item: a balance or an error.
QuerySucceeds(p) ==
    /\ pc[p] = "retry"
    /\ \E i \in job[p].todo, b \in Balances \cup {0} :
         /\ IsFirst(i, job[p].todo)
         /\ b > 0 => RoomForEvent
         /\ job' = [job EXCEPT ![p].todo = @ \ {i}, ![p].item = i, ![p].balance = b]
    /\ Goto(p, "close")
    /\ UNCHANGED <<tables, reopened, history>>

QueryFails(p) ==
    /\ pc[p] = "retry"
    /\ \E i \in job[p].todo :
         IsFirst(i, job[p].todo) /\ job' = [job EXCEPT ![p].todo = @ \ {i}, ![p].item = i]
    /\ Goto(p, "record")
    /\ UNCHANGED <<tables, reopened, history>>

\* The end of the loop body for the row at hand.
NextRow(p) == Goto(p, "retry") /\ job' = [job EXCEPT ![p].item = 0, ![p].balance = 0]

\* The upsert puts the row off by RETRY_BASE_DELAY, and reopens it if another
\* process has resolved it.
RecordRetry(p) ==
    /\ pc[p] = "record"
    /\ queue' = [queue EXCEPT ![job[p].item] = "waiting"]
    /\ NextRow(p)
    /\ UNCHANGED <<finding, nEvents, events, incidents, reopened, history>>

\* Mutant: a balance of zero is saved too.
AnyBalance(b) == b >= 0
\* Mutant: the smallest balance is not worth saving.
MoreThanOne(b) == b > 1
\* ! (balance.Atomic.Sign() <= 0)
Positive(b) == b > 0

\* The balance b, unless positive_findings holds it.
Missing(held, b) == IF held = b THEN 0 ELSE b

\* The row is resolved before a balance is saved.
CloseRetry(p) ==
    /\ pc[p] = "close"
    /\ queue' = [queue EXCEPT ![job[p].item] = "resolved"]
    /\ owed' = [owed EXCEPT ![job[p].item] = Missing(finding[job[p].item], job[p].balance)]
    /\ lost' = {l \in lost : l[1] # job[p].item}
    /\ \/ Positive(job[p].balance) /\ Goto(p, "save") /\ UNCHANGED job
       \/ ~Positive(job[p].balance) /\ NextRow(p)
    /\ UNCHANGED <<finding, nEvents, events, incidents, reopened, told>>

\* Mutant: only the first balance of an item is worth an event.
FirstOnly(old, new) == old = 0
\* changed: a new row or another balance
Changed(old, new) == old # new

AddEvent(i) ==
    /\ nEvents' = nEvents + 1
    /\ events' = [events EXCEPT ![nEvents + 1] = [item |-> i, status |-> "pending", due |-> TRUE]]

\* The transaction of SavePositiveFindings for one finding.
SaveFinding(i, b) ==
    /\ finding' = [finding EXCEPT ![i] = b]
    /\ owed' = [owed EXCEPT ![i] = Missing(b, @)]
    /\ \/ Changed(finding[i], b) /\ AddEvent(i)
       \/ ~Changed(finding[i], b) /\ UNCHANGED <<nEvents, events>>

\* The finding and its event; Deliver follows if there is an event.
SavePositiveFindings(p) ==
    /\ pc[p] = "save"
    /\ SaveFinding(job[p].item, job[p].balance)
    /\ \/ nEvents' = nEvents /\ NextRow(p)
       \/ /\ nEvents' # nEvents /\ Goto(p, "load")
          /\ job' = [job EXCEPT ![p].item = 0, ![p].balance = 0, ![p].event = nEvents + 1]
    /\ UNCHANGED <<queue, incidents, reopened, told, lost>>

\* Another process inserted the finding after the SELECT had found none: the
\* INSERT breaks UNIQUE (address_id, chain) and the command returns the error.
SaveConflict(p) ==
    /\ pc[p] = "save" /\ Procs # {p} /\ finding[job[p].item] # 0
    /\ Return(p) /\ Abandon(p)
    /\ UNCHANGED <<tables, reopened, told, owed>>

-----------------------------------------------------------------------------
(* Outbox *)

\* Mutant: events that were sent are read again.
AnyEvent == 1 .. nEvents
\* WHERE (status = 'pending' OR (status = 'failed' AND next_attempt_at <= now()))
Deliverable == {e \in 1 .. nEvents : \/ events[e].status = "pending"
                                     \/ events[e].status = "failed" /\ events[e].due}

\* RetryFailed is done: Drain reads what can be delivered.
PendingNotificationIDs(p) ==
    /\ pc[p] = "retry" /\ job[p].todo = {}
    /\ job' = [job EXCEPT ![p].drain = Lowest(Deliverable, BatchSize), ![p].back = "drain"]
    /\ Goto(p, "drain")
    /\ UNCHANGED <<tables, reopened, history>>

\* That query fails: the error of Drain is only logged.
ReadFails(p) ==
    /\ pc[p] = "retry" /\ job[p].todo = {}
    /\ Goto(p, "after")
    /\ UNCHANGED <<tables, job, reopened, history>>

\* The next event of Drain, or the end of it.
Drain(p) ==
    /\ pc[p] = "drain"
    /\ \/ \E e \in job[p].drain :
            /\ IsFirst(e, job[p].drain)
            /\ job' = [job EXCEPT ![p].drain = @ \ {e}, ![p].event = e]
            /\ Goto(p, "load")
       \/ job[p].drain = {} /\ Goto(p, "after") /\ UNCHANGED job
    /\ UNCHANGED <<tables, reopened, history>>

\* NotificationType, then LoadNodeNotification or LoadNotification: the
\* balance as it is now.
LoadNotification(p) ==
    /\ pc[p] = "load"
    /\ LET i == events[job[p].event].item
       IN  job' = [job EXCEPT ![p].message = IF i \in Items THEN finding[i] ELSE Outage]
    /\ Goto(p, "send")
    /\ UNCHANGED <<tables, reopened, history>>

\* Either query fails: the event is marked failed.
LoadFails(p) ==
    /\ pc[p] = "load"
    /\ job' = [job EXCEPT ![p].ok = FALSE]
    /\ Goto(p, "mark")
    /\ UNCHANGED <<tables, reopened, history>>

\* SendPositive or SendNode: the webhook takes the message,
Taken(p) == told' = [told EXCEPT ![events[job[p].event].item] = @ \cup {job[p].message}]

\* and says so.
SendSucceeds(p) ==
    /\ pc[p] = "send"
    /\ Taken(p)
    /\ job' = [job EXCEPT ![p].message = 0, ![p].ok = TRUE]
    /\ Goto(p, "mark")
    /\ UNCHANGED <<tables, reopened, owed, lost>>

\* An error: the message was not taken, or it was and the answer was lost.
SendFails(p) ==
    /\ pc[p] = "send"
    /\ UNCHANGED told \/ Taken(p)
    /\ job' = [job EXCEPT ![p].message = 0, ![p].ok = FALSE]
    /\ Goto(p, "mark")
    /\ UNCHANGED <<tables, reopened, owed, lost>>

\* Mutant: an event is marked sent whatever the webhook said.
AlwaysSent(p) == "sent"
DeliveryStatus(p) == IF job[p].ok THEN "sent" ELSE "failed"

\* Back in the loop that called Deliver.
Delivered(p) ==
    /\ job' = [job EXCEPT ![p].event = 0, ![p].ok = FALSE,
                          ![p].back = IF @ = "idle" THEN "retry" ELSE @]
    /\ Goto(p, job[p].back)

\* MarkNotification, whatever the status has become in the meantime.
MarkNotification(p) ==
    /\ pc[p] = "mark"
    /\ events' = [events EXCEPT ![job[p].event].status = DeliveryStatus(p),
                                ![job[p].event].due = job[p].ok]
    /\ Delivered(p)
    /\ UNCHANGED <<queue, finding, nEvents, incidents, reopened, history>>

\* The statement fails; its error is dropped.
MarkFails(p) ==
    /\ pc[p] = "mark"
    /\ Delivered(p)
    /\ UNCHANGED <<tables, reopened, history>>

-----------------------------------------------------------------------------
(* Crashes, time and the scans *)

\* A statement of the loop fails and ends the command, or it is killed.
Crash(p) ==
    /\ Crashes /\ pc[p] # "idle"
    /\ Return(p) /\ Abandon(p)
    /\ UNCHANGED <<tables, reopened, told, owed>>

RetryDue(i) ==
    /\ queue[i] = "waiting"
    /\ queue' = [queue EXCEPT ![i] = "ready"]
    /\ UNCHANGED <<finding, nEvents, events, incidents, pc, job, reopened, history>>

EventDue(e) ==
    /\ events[e].status = "failed" /\ ~events[e].due
    /\ events' = [events EXCEPT ![e].due = TRUE]
    /\ UNCHANGED <<queue, finding, nEvents, incidents, pc, job, reopened, history>>

\* A scan repeats a batch and fails on an item that had been resolved.
ScanRecordsRetry(i) ==
    /\ reopened < Reopens /\ queue[i] = "resolved"
    /\ reopened' = reopened + 1
    /\ queue' = [queue EXCEPT ![i] = "waiting"]
    /\ UNCHANGED <<finding, nEvents, events, incidents, pc, job, history>>

\* Process p is a scan instead: it saves a balance and delivers the event.
ScanSaves(p, i, b) ==
    /\ pc[p] = "idle" /\ RoomForEvent
    /\ SaveFinding(i, b)
    /\ IF nEvents' = nEvents
         THEN UNCHANGED <<pc, job>>
         ELSE /\ Goto(p, "load")
              /\ job' = [job EXCEPT ![p].event = nEvents + 1, ![p].back = "idle"]
    /\ UNCHANGED <<queue, incidents, reopened, told, lost>>

\* Process p is a scan with a node alert: it records the incident,
CreateNodeIncident(p) ==
    /\ pc[p] = "idle" /\ incidents < NIncidents /\ RoomForEvent
    /\ incidents' = incidents + 1
    /\ job' = [job EXCEPT ![p].item = NItems + incidents + 1, ![p].balance = Outage]
    /\ Goto(p, "announce")
    /\ UNCHANGED <<queue, finding, nEvents, events, reopened, history>>

\* and in a second statement the event, which it delivers.
CreateNodeNotificationEvent(p) ==
    /\ pc[p] = "announce"
    /\ AddEvent(job[p].item)
    /\ job' = [job EXCEPT ![p].item = 0, ![p].event = nEvents + 1, ![p].back = "idle"]
    /\ Goto(p, "load")
    /\ UNCHANGED <<queue, finding, incidents, reopened, history>>

Step(p) ==
    \/ ReadBefore(p) \/ ReadAfter(p) \/ Leftover(p)
    \/ NextRetries(p) \/ QuerySucceeds(p) \/ QueryFails(p) \/ RecordRetry(p)
    \/ CloseRetry(p) \/ SavePositiveFindings(p) \/ SaveConflict(p)
    \/ PendingNotificationIDs(p) \/ ReadFails(p) \/ Drain(p) \/ LoadNotification(p) \/ LoadFails(p)
    \/ SendSucceeds(p) \/ SendFails(p) \/ MarkNotification(p) \/ MarkFails(p)
    \/ CreateNodeNotificationEvent(p)

Next ==
    \/ \E p \in Procs : Start(p) \/ Step(p) \/ Crash(p) \/ CreateNodeIncident(p)
    \/ \E p \in Procs, i \in Items, b \in Balances : ScanSaves(p, i, b)
    \/ \E i \in Items : RetryDue(i) \/ ScanRecordsRetry(i)
    \/ \E e \in Events : EventDue(e)

Spec == Init /\ [][Next]_vars

\* A started command runs on until it returns: every query, request and
\* statement ends (REQUEST_TIMEOUT, a bounded number of attempts).
FairSpec == Spec /\ \A p \in Procs : WF_vars(Step(p))

Fails(p) == ReadFails(p) \/ LoadFails(p) \/ SendFails(p) \/ MarkFails(p)

\* Moreover the operator keeps running the command, delays elapse, and from
\* some moment on neither the database nor the webhook fails.
OperatedSpec ==
    /\ FairSpec
    /\ \A p \in Procs : WF_vars(Start(p))
    /\ \A e \in Events : WF_vars(EventDue(e))
    /\ \A i \in Items : WF_vars(RetryDue(i))
    /\ <>[][\A p \in Procs : ~Fails(p)]_vars

-----------------------------------------------------------------------------
(* Properties *)

Jobs == [before : 0 .. NItems, todo : SUBSET Items, item : Subjects,
         balance : Balances \cup {0}, drain : SUBSET Events, back : {"retry", "drain", "idle"},
         event : 0 .. NEvents, message : Balances \cup {0}, ok : BOOLEAN]

(* Rows and locals hold values of their types.                             *)
TypeOK ==
    /\ queue \in [Items -> {"waiting", "ready", "resolved"}]
    /\ finding \in [Items -> Balances \cup {0}]
    /\ nEvents \in 0 .. NEvents /\ incidents \in 0 .. NIncidents
    /\ events \in [Events -> [item : Subjects,
                              status : {"absent", "pending", "failed", "sent"}, due : BOOLEAN]]
    /\ pc \in [Procs -> {"idle", "before", "fetch", "retry", "record", "close", "save",
                         "drain", "load", "send", "mark", "after", "leftover", "announce"}]
    /\ job \in [Procs -> Jobs]
    /\ reopened \in 0 .. Reopens
    /\ told \in [Subjects -> SUBSET (Balances \cup {Outage})]
    /\ owed \in [Items -> Balances \cup {0}]
    /\ lost \subseteq Subjects \X (Balances \cup {0})

\* A process is about to save balance b of item i.
Holds(i, b) ==
    \E p \in Procs : pc[p] = "save" /\ job[p].item = i /\ job[p].balance = b

EventsOf(i) == {e \in 1 .. nEvents : events[e].item = i}

(* Once every event of an address is marked sent, a message with its       *)
(* present balance has reached the webhook: although messages are built    *)
(* from a balance that may change before they are sent, several processes  *)
(* deliver the same event, and marks overwrite each other.                 *)
NotifiedOfLatest ==
    \A i \in Items :
        finding[i] # 0 /\ (\A e \in EventsOf(i) : events[e].status = "sent") =>
            finding[i] \in told[i]

(* Every outage on record is reported, by an event of its own: an incident *)
(* has its event or a process is about to add it, unless the process that  *)
(* recorded it ended between the two INSERTs, in which case it never gets  *)
(* one; and its event is marked sent only when a message about that very   *)
(* incident has reached the webhook.                                       *)
OutagesReported ==
    \A n \in NItems + 1 .. NItems + incidents :
        /\ <<n, Outage>> \in lost <=>
              EventsOf(n) = {} /\ \A p \in Announcing : job[p].item # n
        /\ \A e \in EventsOf(n) : events[e].status = "sent" => Outage \in told[n]

(* With one process at a time, an event that has been marked sent stays    *)
(* so: neither RetryFailed, nor Drain, nor a scan delivers it again.       *)
SentIsFinal ==
    [][\A e \in Events : events[e].status = "sent" => events'[e].status = "sent"]_vars

(* README "Positive findings are retained": if a retry closed its row with *)
(* a balance, positive_findings has held that balance since, or the        *)
(* process that got it is about to save it.                                *)
ClosedPositivesSaved ==
    \A i \in Items : owed[i] # 0 /\ queue[i] = "resolved" => Holds(i, owed[i])

(* The same with the cases in which it fails: a balance with which a retry *)
(* closed its row is missing only if a process that held it ended between  *)
(* CloseRetry and the commit of SavePositiveFindings, killed or by an      *)
(* error.  Nothing that other processes do to the row, the finding or the  *)
(* events in the meantime loses it.                                        *)
OnlyAbandonedLost ==
    \A i \in Items : owed[i] # 0 /\ queue[i] = "resolved" =>
        Holds(i, owed[i]) \/ <<i, owed[i]>> \in lost

(* The command ends, unless a scan keeps adding failures: each turn of its *)
(* loop but the last has resolved a row.                                   *)
RetryReturns == \A p \in Procs : pc[p] # "idle" ~> pc[p] = "idle"

(* The comment on Outbox: it "delivers persisted notification events and   *)
(* retries failures".                                                      *)
EventsDelivered ==
    \A e \in Events : events[e].status = "pending" ~> events[e].status = "sent"
=============================================================================
