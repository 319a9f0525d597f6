------------------------------ MODULE Allocation ------------------------------
(***************************************************************************)
(* Subscriptions of one follower account to its leaders                    *)
(* (MamAllocationService), and the notices by which the MAM engine tells   *)
(* that one has ended (MamWebhookService).                                 *)
(*                                                                         *)
(* The engine owns a subscription; a row of mam_allocations repeats its    *)
(* status.  Every operation reads the row, awaits the engine and writes    *)
(* what the engine answered, so it writes over whatever another request,   *)
(* a cron or a notice wrote in between.  Three things keep the rows close  *)
(* to the engine: the answers, the notices with the cron that retries      *)
(* them, and the cron that polls the rows in STOPPING.                     *)
(*                                                                         *)
(* An engine request that arrives after its caller gave up is, for the     *)
(* rows, the same as one whose answer is lost; both are Abandon.           *)
(***************************************************************************)
EXTENDS Naturals, FiniteSets

CONSTANTS Handlers,     \* the HTTP requests handled at the same time
          Allocations,  \* the ids the engine gives to subscriptions
          Leaders,      \* the leaders the follower may subscribe to
          Quota         \* max_active_leaders of the client's plan

ASSUME QuotaAssumption == Quota \in Nat

VARIABLES engine,  \* the subscriptions of the engine, by id
          row,     \* mam_allocations, by allocation_id
          event,   \* mam_webhook_events, by the subscription it tells of
          call     \* what each request and each cron is doing

vars == <<engine, row, event, call>>

None == "none"
Processes == Handlers \cup {"sync", "retry"}

-----------------------------------------------------------------------------
(* The states of a subscription, of its row and of its notice.             *)

Live == {"PAUSED", "ACTIVE", "STOPPING"}
Statuses == Live \cup {"CANCELLED"}

Subscription == [leader : Leaders, status : Statuses, ours : BOOLEAN]
Unborn == [leader |-> None, status |-> None, ours |-> FALSE]

\* A row; ended stands for its ended_at.
Row == [status : Statuses, ended : BOOLEAN]
NoRow == [status |-> None, ended |-> FALSE]

\* No row, a row whose processed_at is null, and one whose is not.
Events == {None, "pending", "processed"}

Existing == {a \in Allocations : engine[a] # Unborn}
Known == {a \in Allocations : row[a] # NoRow}

\* The live subscriptions among the records s.
LiveIn(s) == {a \in Allocations : s[a].status \in Live}
OfLeader(l) == {a \in Existing : engine[a].leader = l}

\* uq_mam_allocations_live_pair admits the rows r.
OnePerPair(r) == \A l \in Leaders : Cardinality(LiveIn(r) \cap OfLeader(l)) <= 1

Unread == [a \in Allocations |-> None]

\* A process: the operation, the leader a creation is for, the ids it has
\* still to ask about, and per id the status it loaded and the one to write.
Calls == [op : {None, "create", "import", "pause", "resume", "configure",
                "unsubscribe", "webhook", "sync", "retry"},
          leader : Leaders \cup {None}, todo : SUBSET Allocations,
          seen : [Allocations -> Statuses \cup {None}],
          answer : [Allocations -> Statuses \cup {None}]]
Idle == [op |-> None, leader |-> None, todo |-> {}, seen |-> Unread, answer |-> Unread]

AllocationInit ==
  /\ engine = [a \in Allocations |-> Unborn]
  /\ row = [a \in Allocations |-> NoRow]
  /\ event = [a \in Allocations |-> None]
  /\ call = [p \in Processes |-> Idle]

-----------------------------------------------------------------------------
(* The MAM engine.                                                         *)

\* It admits one live subscription per pair, and Quota per follower.
Admits(l) == /\ LiveIn(engine) \cap OfLeader(l) = {}
             /\ Cardinality(LiveIn(engine)) < Quota

\* A new subscription is PAUSED, as create_allocation asks.
CreatedActive == "ACTIVE"
CreatedAs == "PAUSED"

EngineCreates(p) ==
  /\ call[p].op = "create"
  /\ call[p].answer = Unread
  /\ Admits(call[p].leader)
  /\ \E a \in Allocations \ Existing :
       /\ engine' = [engine EXCEPT ![a] = [leader |-> call[p].leader,
                                           status |-> CreatedAs, ours |-> TRUE]]
       /\ call' = [call EXCEPT ![p].answer[a] = CreatedAs]
  /\ UNCHANGED <<row, event>>

\* The environment is not empty: the broker has subscriptions of its own.
BrokerCreates(a) ==
  /\ a \notin Existing
  /\ \E l \in Leaders :
       /\ Admits(l)
       /\ engine' = [engine EXCEPT ![a] = [leader |-> l, status |-> "ACTIVE", ours |-> FALSE]]
  /\ UNCHANGED <<row, event, call>>

\* The statuses a request of kind op may leave one in state s in; none if the
\* engine refuses it.
Replies(op, s) ==
  LET running == s \in {"PAUSED", "ACTIVE"}
  IN  CASE op = "pause"  -> IF running THEN {"PAUSED"} ELSE {}
        [] op = "resume" -> IF running THEN {"ACTIVE"} ELSE {}
        [] op = "unsubscribe" -> IF running THEN {"STOPPING", "CANCELLED"} ELSE {s}
        [] OTHER -> {s}

EngineAnswers(p) ==
  /\ call[p].op \notin {"webhook", "retry"}
  /\ \E a \in call[p].todo \cap Existing : \E s \in Replies(call[p].op, engine[a].status) :
       /\ engine' = [engine EXCEPT ![a].status = s]
       /\ call' = [call EXCEPT ![p] = [@ EXCEPT !.todo = call[p].todo \ {a}, !.answer[a] = s]]
  /\ UNCHANGED <<row, event>>

\* The equity of the follower reaches the floor: the engine stops on its own.
EquityStop(a) ==
  /\ engine[a].status = "ACTIVE"
  /\ \E s \in {"STOPPING", "CANCELLED"} : engine' = [engine EXCEPT ![a].status = s]
  /\ UNCHANGED <<row, event, call>>

\* The copied positions are closed.
PositionsClosed(a) ==
  /\ engine[a].status = "STOPPING"
  /\ engine' = [engine EXCEPT ![a].status = "CANCELLED"]
  /\ UNCHANGED <<row, event, call>>

-----------------------------------------------------------------------------
(* Creating a subscription, and importing one the engine has.              *)

StartCreate(h, l) ==
  /\ call[h] = Idle
  /\ LiveIn(row) \cap OfLeader(l) = {}
  /\ Cardinality(LiveIn(row)) < Quota
  /\ call' = [call EXCEPT ![h] = [Idle EXCEPT !.op = "create", !.leader = l]]
  /\ UNCHANGED <<engine, row, event>>

StartImport(h, a) ==
  /\ call[h] = Idle
  /\ a \in Existing \ Known
  /\ call' = [call EXCEPT ![h] = [Idle EXCEPT !.op = "import", !.todo = {a}]]
  /\ UNCHANGED <<engine, row, event>>

\* A creation that is to activate goes on with set_status.
AfterInsert(op, a, s) == {Idle} \cup
  {c \in {[Idle EXCEPT !.op = "resume", !.todo = {a}, !.seen[a] = s]} : op = "create"}

\* The unique indexes on the id and on the live pair may refuse the row.
Insert(h) ==
  /\ call[h].op \in {"create", "import"}
  /\ \E a \in Allocations :
       LET s == call[h].answer[a]
           rows == [row EXCEPT ![a] = [status |-> s, ended |-> s = "CANCELLED"]]
       IN /\ s # None
          /\ IF a \notin Known /\ OnePerPair(rows)
               THEN /\ row' = rows
                    /\ \E c \in AfterInsert(call[h].op, a, s) : call' = [call EXCEPT ![h] = c]
               ELSE row' = row /\ call' = [call EXCEPT ![h] = Idle]
  /\ UNCHANGED <<engine, event>>

-----------------------------------------------------------------------------
(* Pausing, resuming, configuring, ending and polling one subscription.    *)

Operations == {"pause", "resume", "configure", "unsubscribe", "sync"}

Ask(h, op, a) ==
  /\ call[h] = Idle
  /\ a \in Known
  /\ op = "unsubscribe" => row[a].status # "CANCELLED"
  /\ call' = [call EXCEPT ![h] = [Idle EXCEPT !.op = op, !.todo = {a}, !.seen[a] = row[a].status]]
  /\ UNCHANGED <<engine, row, event>>

-----------------------------------------------------------------------------
(* Notices of the engine, the cron that retries them and the one that polls.*)

\* A notice whose signature is valid tells of a termination.
Genuine(a) == engine[a].status = "CANCELLED"

\* A notice may come late, twice or never; one stored before changes nothing.
Receive(h, a) ==
  /\ call[h] = Idle
  /\ Genuine(a)
  /\ event[a] = None
  /\ event' = [event EXCEPT ![a] = "pending"]
  /\ call' = [call EXCEPT ![h] = [Idle EXCEPT !.op = "webhook", !.todo = {a}]]
  /\ UNCHANGED <<engine, row>>

Pending == {a \in Allocations : event[a] = "pending"}

StartRetry ==
  /\ call["retry"] = Idle
  /\ Pending # {}
  /\ call' = [call EXCEPT !["retry"] = [Idle EXCEPT !.op = "retry", !.todo = Pending]]
  /\ UNCHANGED <<engine, row, event>>

\* _apply: a notice of a subscription without a row is left for a retry.
Apply(p) ==
  /\ call[p].op \in {"webhook", "retry"}
  /\ \E a \in call[p].todo :
       call' = [call EXCEPT ![p] =
         [@ EXCEPT !.todo = call[p].todo \ {a},
                   !.seen[a] = row[a].status,
                   !.answer[a] = IF a \in Known THEN "CANCELLED" ELSE None]]
  /\ UNCHANGED <<engine, row, event>>

PolledActive == {a \in Known : row[a].status = "ACTIVE"}
Polled == {a \in Known : row[a].status = "STOPPING"}

StartSync ==
  /\ call["sync"] = Idle
  /\ Polled # {}
  /\ call' = [call EXCEPT !["sync"] =
       [Idle EXCEPT !.op = "sync", !.todo = Polled,
                    !.seen = [a \in Allocations |-> IF a \in Polled THEN "STOPPING" ELSE None]]]
  /\ UNCHANGED <<engine, row, event>>

\* A subscription that cannot be read is left for the next pass.
SyncSkips ==
  /\ call["sync"].op = "sync"
  /\ \E a \in call["sync"].todo : call' = [call EXCEPT !["sync"].todo = @ \ {a}]
  /\ UNCHANGED <<engine, row, event>>

-----------------------------------------------------------------------------
(* The commit of what was loaded and answered.                             *)

WrittenUnread(c) == [a \in Allocations |->
  IF c.seen[a] = None THEN row[a]
  ELSE [status |-> c.answer[a], ended |-> row[a].ended \/ c.answer[a] = "CANCELLED"]]

WrittenEndsAsked(c) == [a \in Allocations |->
  IF c.answer[a] = None THEN row[a]
  ELSE [status |-> IF c.answer[a] = c.seen[a] THEN row[a].status ELSE c.answer[a],
        ended |-> row[a].ended \/ c.op \in {"unsubscribe", "sync", "webhook", "retry"}]]

\* The commits of a status that set ended_at when it is CANCELLED.
Ends(c, a) == /\ c.answer[a] = "CANCELLED"
              /\ \/ c.op \in {"unsubscribe", "webhook", "retry"}
                 \/ c.op = "sync" /\ c.seen[a] # "CANCELLED"

\* The session writes a status only where it differs from the loaded one.
Written(c) == [a \in Allocations |->
  IF c.answer[a] = None THEN row[a]
  ELSE [status |-> IF c.answer[a] = c.seen[a] THEN row[a].status ELSE c.answer[a],
        ended |-> row[a].ended \/ Ends(c, a)]]

AppliedAlways(c) == [a \in Allocations |->
  IF (c.op = "retry" /\ event[a] = "pending") \/ (c.op = "webhook" /\ c.answer[a] # None)
    THEN "processed" ELSE event[a]]

AppliedOnChange(c) == [a \in Allocations |->
  IF c.op \in {"webhook", "retry"} /\ c.answer[a] \notin {None, c.seen[a]}
    THEN "processed" ELSE event[a]]

Applied(c) == [a \in Allocations |->
  IF c.op \in {"webhook", "retry"} /\ c.answer[a] # None THEN "processed" ELSE event[a]]

Commit(p) ==
  /\ call[p].op \notin {None, "create", "import"}
  /\ call[p].todo = {}
  /\ IF OnePerPair(Written(call[p]))
       THEN row' = Written(call[p]) /\ event' = Applied(call[p])
       ELSE UNCHANGED <<row, event>>
  /\ call' = [call EXCEPT ![p] = Idle]
  /\ UNCHANGED engine

\* The engine refuses or does not answer, the answer is lost, or the process
\* dies: the session is closed without a commit.
Abandon(p) ==
  /\ call[p] # Idle
  /\ call' = [call EXCEPT ![p] = Idle]
  /\ UNCHANGED <<engine, row, event>>

-----------------------------------------------------------------------------
Creations(h) == \E l \in Leaders : StartCreate(h, l)

Imports(h) == \E a \in Allocations : StartImport(h, a)

Deliveries(h) == \E a \in Allocations : Receive(h, a)

AllocationNext ==
  \/ \E a \in Allocations : BrokerCreates(a) \/ EquityStop(a) \/ PositionsClosed(a)
  \/ \E h \in Handlers :
       \/ EngineCreates(h) \/ Insert(h)
       \/ Creations(h) \/ Imports(h) \/ Deliveries(h)
       \/ \E a \in Allocations, op \in Operations : Ask(h, op, a)
  \/ StartRetry \/ StartSync \/ SyncSkips
  \/ \E p \in Processes : EngineAnswers(p) \/ Apply(p) \/ Commit(p) \/ Abandon(p)

AllocationSpec == AllocationInit /\ [][AllocationNext]_vars

\* The steps of each cron, and what may disturb it.  A commit that has nothing
\* to write is no disturbance, although it leaves what dying there would leave.
SyncStep == StartSync \/ EngineAnswers("sync") \/ Commit("sync")
RetryStep == StartRetry \/ Apply("retry") \/ Commit("retry")
Disturbed == SyncSkips \/ \E p \in {"sync", "retry"} : Abandon(p) /\ ~Commit(p)

\* The timers start both crons for ever, a cron that runs gets on, and from
\* some time on the engine answers the poll and nothing kills a cron.
CronFairness == /\ WF_vars(SyncStep)
                /\ WF_vars(RetryStep)
                /\ <>[][~Disturbed]_vars

FairAllocationSpec == AllocationSpec /\ CronFairness

-----------------------------------------------------------------------------
(* Properties.                                                             *)

\* Every variable has its type.
AllocationTypeOK ==
  /\ engine \in [Allocations -> Subscription \cup {Unborn}]
  /\ row \in [Allocations -> Row \cup {NoRow}]
  /\ event \in [Allocations -> Events]
  /\ call \in [Processes -> Calls]

\* What create_allocation promises: a subscription this program asked for
\* never copies real trades while the database does not know it.
KnownBeforeActive ==
  \A a \in Allocations : engine[a].ours /\ engine[a].status = "ACTIVE" => a \in Known

\* A row says that a subscription has ended only if the engine has ended it,
\* whichever of the answers, the notices and the polls is applied last.
EndedIsTrue ==
  \A a \in Allocations : row[a].status = "CANCELLED" \/ row[a].ended
                            => engine[a].status = "CANCELLED"

\* A notice is marked as processed only once its row carries the end.
ProcessedIsEnded == \A a \in Allocations : event[a] = "processed" => row[a].ended

\* A row does not stay in STOPPING for ever once the engine is done with it.
StoppingHeals ==
  \A a \in Allocations :
    []<>~(row[a].status = "STOPPING" /\ engine[a].status = "CANCELLED")

\* A notice that came before its row, or whose request died after storing it,
\* does not wait for ever once the row is there.
PendingIsApplied == \A a \in Allocations : []<>(a \notin Pending \cap Known)
=============================================================================
