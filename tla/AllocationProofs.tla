-------------------------- MODULE AllocationProofs --------------------------
(***************************************************************************)
(* What holds of subscriptions and their rows for any number of requests,  *)
(* subscriptions, leaders and any quota.                                   *)
(*                                                                         *)
(* A row is written from what a process holds, so the invariant speaks of  *)
(* the processes: an answer or a notice that says CANCELLED is true of the *)
(* engine, and what is held for writing belongs to a row that exists.  It  *)
(* survives every interleaving because the two facts it rests on only      *)
(* grow: an ended subscription stays ended, a row that exists stays.       *)
(***************************************************************************)
EXTENDS Allocation, TLAPS

Ended(a) == engine[a].status = "CANCELLED"
Noticed == {"webhook", "retry"}

\* What a process holds is true.
CallTrue(c) ==
  /\ c.op = "create" => c.leader \in Leaders
  /\ \A a \in Allocations : c.answer[a] = "CANCELLED" => Ended(a)
  /\ c.op \in Noticed =>
       \A a \in Allocations : a \in c.todo \/ c.answer[a] # None => Ended(a)
  /\ c.op \in Noticed => \A a \in Allocations : c.answer[a] \in {None, "CANCELLED"}
  /\ c.op \in Operations => \A a \in c.todo : a \in Known
  /\ c.op \in Operations \cup Noticed => \A a \in Allocations : c.answer[a] # None => a \in Known

AllocationInv ==
  /\ AllocationTypeOK
  /\ \A p \in Processes : CallTrue(call[p])
  /\ \A a \in Allocations : event[a] # None => Ended(a)
  /\ EndedIsTrue
  /\ KnownBeforeActive
  /\ ProcessedIsEnded

\* What only grows.
Forward == \A a \in Allocations : /\ Ended(a) => Ended(a)'
                                  /\ a \in Known => (a \in Known)'

-----------------------------------------------------------------------------
\* A process that takes no step keeps what it holds true.
LEMMA Keeps ==
  ASSUME NEW c \in Calls, CallTrue(c), Forward
  PROVE  CallTrue(c)'
BY DEF CallTrue, Forward, Calls

\* So does the idle one.
LEMMA IdleIsTrue == Idle \in Calls /\ CallTrue(Idle) /\ CallTrue(Idle)'
<1>1. Unread \in [Allocations -> Statuses \cup {None}]
  BY DEF Unread
<1>2. Idle \in Calls
  BY <1>1 DEF Idle, Calls
<1>3. \A a \in Allocations : Unread[a] = None
  BY DEF Unread
<1>4. None # "CANCELLED" /\ None \notin Noticed \cup Operations \cup {"create"}
  BY DEF None, Noticed, Operations
<1>5. QED
  BY <1>2, <1>3, <1>4 DEF Idle, CallTrue

\* When one process changes to c and the others stay, all calls are well typed
\* and true if c is.
LEMMA OneCall ==
  ASSUME AllocationInv, Forward, NEW p \in Processes, NEW c \in Calls, CallTrue(c)',
         call' = [call EXCEPT ![p] = c]
  PROVE  call' \in [Processes -> Calls] /\ \A q \in Processes : CallTrue(call[q])'
<1>1. call \in [Processes -> Calls]
  BY DEF AllocationInv, AllocationTypeOK
<1>2. call' \in [Processes -> Calls]
  BY <1>1
<1>3. ASSUME NEW q \in Processes PROVE CallTrue(call[q])'
  <2>1. CASE q = p
    <3>1. call'[q] = c
      BY <1>1, <2>1
    <3>2. QED
      BY <3>1 DEF CallTrue, Ended, Known
  <2>2. CASE q # p
    <3>1. call'[q] = call[q]
      BY <1>1, <2>2
    <3>2. call[q] \in Calls /\ CallTrue(call[q])
      BY <1>1 DEF AllocationInv
    <3>3. PICK d \in Calls : d = call[q]
      BY <3>2
    <3>4. CallTrue(d)
      BY <3>2, <3>3
    <3>5. CallTrue(d)'
      BY <3>4, Keeps
    <3>6. QED
      BY <3>1, <3>3, <3>5 DEF CallTrue, Ended, Known
  <2>3. QED
    BY <2>1, <2>2
<1>4. QED
  BY <1>2, <1>3

-----------------------------------------------------------------------------
(* Steps of the engine on its own.                                         *)

\* A step that only changes the engine, without taking back an end or starting
\* one of ours, keeps the invariant.
LEMMA EngineMoves ==
  ASSUME AllocationInv, UNCHANGED <<row, event, call>>,
         engine' \in [Allocations -> Subscription \cup {Unborn}],
         \A a \in Allocations : Ended(a) => Ended(a)',
         \A a \in Allocations : engine'[a].ours /\ engine'[a].status = "ACTIVE" => a \in Known
  PROVE  AllocationInv'
<1>1. Forward
  BY DEF Forward, Known
<1>2. AllocationTypeOK'
  BY DEF AllocationInv, AllocationTypeOK
<1>3. ASSUME NEW p \in Processes PROVE CallTrue(call[p])'
  <2>1. PICK c \in Calls : c = call[p] /\ call'[p] = c
    BY DEF AllocationInv, AllocationTypeOK
  <2>2. CallTrue(c)
    BY <2>1 DEF AllocationInv
  <2>3. CallTrue(c)'
    BY <1>1, <2>2, Keeps
  <2>4. QED
    BY <2>1, <2>3 DEF CallTrue, Ended, Known
<1>4. /\ (\A a \in Allocations : event[a] # None => Ended(a))'
      /\ EndedIsTrue' /\ ProcessedIsEnded'
  BY DEF AllocationInv, EndedIsTrue, ProcessedIsEnded, Ended
<1>5. KnownBeforeActive'
  BY DEF KnownBeforeActive, Known
<1>6. QED
  BY <1>2, <1>3, <1>4, <1>5 DEF AllocationInv

\* A subscription of the broker is not ours, and starts without an end.
LEMMA BrokerCreatesKeeps ==
  ASSUME AllocationInv, NEW b \in Allocations, BrokerCreates(b)
  PROVE  AllocationInv'
<1>1. PICK l \in Leaders :
        engine' = [engine EXCEPT ![b] = [leader |-> l, status |-> "ACTIVE", ours |-> FALSE]]
  BY DEF BrokerCreates
<1>2. engine \in [Allocations -> Subscription \cup {Unborn}] /\ engine[b] = Unborn
  BY DEF AllocationInv, AllocationTypeOK, BrokerCreates, Existing
<1>3. engine' \in [Allocations -> Subscription \cup {Unborn}]
  BY <1>1, <1>2 DEF Subscription, Statuses, Live
<1>4. \A a \in Allocations : Ended(a) => Ended(a)'
  BY <1>1, <1>2 DEF Ended, Unborn, None
<1>5. \A a \in Allocations : engine'[a].ours /\ engine'[a].status = "ACTIVE" => a \in Known
  BY <1>1, <1>2 DEF AllocationInv, KnownBeforeActive
<1>6. QED
  BY <1>3, <1>4, <1>5, EngineMoves DEF BrokerCreates

\* An equity stop or the end of the closes leads away from ACTIVE.
LEMMA Terminates ==
  ASSUME AllocationInv, NEW b \in Allocations, NEW s \in {"STOPPING", "CANCELLED"},
         engine[b].status \in {"ACTIVE", "STOPPING"},
         engine' = [engine EXCEPT ![b].status = s], UNCHANGED <<row, event, call>>
  PROVE  AllocationInv'
<1>1. engine \in [Allocations -> Subscription \cup {Unborn}]
  BY DEF AllocationInv, AllocationTypeOK
<1>2. engine[b] \in Subscription
  BY <1>1 DEF Unborn, None
<1>3. [engine[b] EXCEPT !.status = s] \in Subscription
  BY <1>2 DEF Subscription, Statuses, Live
<1>4. engine' \in [Allocations -> Subscription \cup {Unborn}]
  BY <1>1, <1>3
<1>5. /\ engine'[b].status = s
      /\ \A a \in Allocations : a # b => engine'[a] = engine[a]
  BY <1>1, <1>2 DEF Subscription
<1>6. \A a \in Allocations : Ended(a) => Ended(a)'
  BY <1>5 DEF Ended
<1>7. \A a \in Allocations : engine'[a].ours /\ engine'[a].status = "ACTIVE" => a \in Known
  BY <1>5 DEF AllocationInv, KnownBeforeActive
<1>8. QED
  BY <1>4, <1>6, <1>7, EngineMoves

-----------------------------------------------------------------------------
(* Steps that only change what one process holds.                          *)

\* When one process changes what it holds, truly, and the notices stay ended,
\* the rest of the invariant follows.
LEMMA CallMoves ==
  ASSUME AllocationInv, UNCHANGED <<engine, row>>,
         event' \in [Allocations -> Events],
         \A a \in Allocations : event'[a] # None => Ended(a),
         \A a \in Allocations : event'[a] = "processed" => event[a] = "processed",
         NEW p \in Processes, NEW c \in Calls, CallTrue(c), call' = [call EXCEPT ![p] = c]
  PROVE  AllocationInv'
<1>1. Forward
  BY DEF Forward, Known, Ended
<1>2. CallTrue(c)'
  BY <1>1, Keeps
<1>3. call' \in [Processes -> Calls] /\ \A q \in Processes : CallTrue(call[q])'
  BY <1>1, <1>2, OneCall
<1>4. AllocationTypeOK'
  BY <1>3 DEF AllocationInv, AllocationTypeOK
<1>5. /\ (\A a \in Allocations : event[a] # None => Ended(a))'
      /\ EndedIsTrue' /\ KnownBeforeActive' /\ ProcessedIsEnded'
  BY DEF AllocationInv, EndedIsTrue, KnownBeforeActive, ProcessedIsEnded, Ended, Known
<1>6. QED
  BY <1>3, <1>4, <1>5 DEF AllocationInv

\* The same for a step that leaves the notices alone.
LEMMA OnlyCallMoves ==
  ASSUME AllocationInv, UNCHANGED <<engine, row, event>>,
         NEW p \in Processes, NEW c \in Calls, CallTrue(c), call' = [call EXCEPT ![p] = c]
  PROVE  AllocationInv'
<1>1. event' \in [Allocations -> Events] /\ \A a \in Allocations : event'[a] # None => Ended(a)
  BY DEF AllocationInv, AllocationTypeOK
<1>2. \A a \in Allocations : event'[a] = "processed" => event[a] = "processed"
  OBVIOUS
<1>3. QED
  BY <1>1, <1>2, CallMoves

\* A process that begins holds no answer yet.
LEMMA Begins ==
  ASSUME NEW c \in Calls, c.answer = Unread, c.op # "create",
         c.op \in Noticed => \A a \in c.todo : Ended(a),
         c.op \in Operations => c.todo \subseteq Known
  PROVE  CallTrue(c)
<1>1. \A a \in Allocations : Unread[a] = None
  BY DEF Unread
<1>2. QED
  BY <1>1 DEF CallTrue, None

\* A creation starts with nothing but its leader.
LEMMA StartCreateKeeps ==
  ASSUME AllocationInv, NEW h \in Handlers, NEW l \in Leaders, StartCreate(h, l)
  PROVE  AllocationInv'
<1> DEFINE c == [Idle EXCEPT !.op = "create", !.leader = l]
<1>1. c.op = "create" /\ c.leader = l /\ c.answer = Unread
  BY DEF Idle
<1>2. c \in Calls
  BY IdleIsTrue DEF Calls
<1>3. \A a \in Allocations : Unread[a] = None
  BY DEF Unread
<1>4. CallTrue(c)
  BY <1>1, <1>3 DEF CallTrue, Operations, Noticed, None
<1>5. h \in Processes /\ call' = [call EXCEPT ![h] = c] /\ UNCHANGED <<engine, row, event>>
  BY DEF StartCreate, Processes
<1> HIDE DEF c
<1>6. QED
  BY <1>2, <1>4, <1>5, OnlyCallMoves

\* An import starts with nothing but the id it asks for.
LEMMA StartImportKeeps ==
  ASSUME AllocationInv, NEW h \in Handlers, NEW a \in Allocations, StartImport(h, a)
  PROVE  AllocationInv'
<1> DEFINE c == [Idle EXCEPT !.op = "import", !.todo = {a}]
<1>1. c.op = "import" /\ c.answer = Unread
  BY DEF Idle
<1>2. c \in Calls
  BY IdleIsTrue DEF Calls
<1>3. h \in Processes /\ call' = [call EXCEPT ![h] = c] /\ UNCHANGED <<engine, row, event>>
  BY DEF StartImport, Processes
<1> HIDE DEF c
<1>4. CallTrue(c)
  BY <1>1, <1>2, Begins DEF Noticed, Operations
<1>5. QED
  BY <1>2, <1>3, <1>4, OnlyCallMoves

\* A change of status starts from a row that exists.
LEMMA AskKeeps ==
  ASSUME AllocationInv, NEW h \in Handlers, NEW a \in Allocations, NEW op \in Operations,
         Ask(h, op, a)
  PROVE  AllocationInv'
<1> DEFINE c == [Idle EXCEPT !.op = op, !.todo = {a}, !.seen[a] = row[a].status]
<1>1. c.op = op /\ c.todo = {a} /\ c.answer = Unread
  BY DEF Idle
<1>2. c \in Calls
  <2>1. row[a].status \in Statuses \cup {None}
    BY DEF AllocationInv, AllocationTypeOK, Row, NoRow
  <2>2. QED
    BY <2>1, IdleIsTrue DEF Calls, Operations
<1>3. /\ h \in Processes /\ call' = [call EXCEPT ![h] = c] /\ UNCHANGED <<engine, row, event>>
      /\ a \in Known
  BY DEF Ask, Processes
<1> HIDE DEF c
<1>4. CallTrue(c)
  BY <1>1, <1>2, <1>3, Begins DEF Noticed, Operations
<1>5. QED
  BY <1>2, <1>3, <1>4, OnlyCallMoves

\* A genuine notice tells of an end the engine has made.
LEMMA ReceiveKeeps ==
  ASSUME AllocationInv, NEW h \in Handlers, NEW a \in Allocations, Receive(h, a)
  PROVE  AllocationInv'
<1> DEFINE c == [Idle EXCEPT !.op = "webhook", !.todo = {a}]
<1>1. c.op = "webhook" /\ c.todo = {a} /\ c.answer = Unread
  BY DEF Idle
<1>2. c \in Calls
  BY IdleIsTrue DEF Calls
<1>3. /\ h \in Processes /\ call' = [call EXCEPT ![h] = c] /\ UNCHANGED <<engine, row>>
      /\ event' = [event EXCEPT ![a] = "pending"] /\ Ended(a)
  BY DEF Receive, Processes, Genuine, Ended
<1> HIDE DEF c
<1>4. CallTrue(c)
  BY <1>1, <1>2, <1>3, Begins DEF Noticed, Operations
<1>5. event' \in [Allocations -> Events]
  BY <1>3 DEF AllocationInv, AllocationTypeOK, Events
<1>6. \A b \in Allocations : event'[b] # None => Ended(b)
  BY <1>3 DEF AllocationInv, AllocationTypeOK
<1>7. \A b \in Allocations : event'[b] = "processed" => event[b] = "processed"
  BY <1>3 DEF AllocationInv, AllocationTypeOK
<1>8. QED
  BY <1>2, <1>3, <1>4, <1>5, <1>6, <1>7, CallMoves

\* The retry starts from notices that are stored, hence true.
LEMMA StartRetryKeeps ==
  ASSUME AllocationInv, StartRetry
  PROVE  AllocationInv'
<1> DEFINE c == [Idle EXCEPT !.op = "retry", !.todo = Pending]
<1>1. c.op = "retry" /\ c.todo = Pending /\ c.answer = Unread
  BY DEF Idle
<1>2. c \in Calls
  BY IdleIsTrue DEF Calls, Pending
<1>3. "retry" \in Processes /\ call' = [call EXCEPT !["retry"] = c] /\ UNCHANGED <<engine, row, event>>
  BY DEF StartRetry, Processes
<1>4. \A a \in Pending : Ended(a)
  BY DEF AllocationInv, Pending, None
<1> HIDE DEF c
<1>5. CallTrue(c)
  BY <1>1, <1>2, <1>4, Begins DEF Noticed, Operations
<1>6. QED
  BY <1>2, <1>3, <1>5, OnlyCallMoves

\* The poll starts from rows that exist.
LEMMA StartSyncKeeps ==
  ASSUME AllocationInv, StartSync
  PROVE  AllocationInv'
<1> DEFINE S == [a \in Allocations |-> IF a \in Polled THEN "STOPPING" ELSE None]
           c == [Idle EXCEPT !.op = "sync", !.todo = Polled, !.seen = S]
<1>1. c.op = "sync" /\ c.todo = Polled /\ c.answer = Unread
  BY DEF Idle
<1>2. c \in Calls
  <2>1. S \in [Allocations -> Statuses \cup {None}]
    BY DEF Statuses, Live
  <2> HIDE DEF S
  <2>2. QED
    BY <2>1, IdleIsTrue DEF Calls, Polled, Known
<1>3. "sync" \in Processes /\ call' = [call EXCEPT !["sync"] = c] /\ UNCHANGED <<engine, row, event>>
  BY DEF StartSync, Processes
<1> HIDE DEF c
<1>4. CallTrue(c)
  BY <1>1, <1>2, Begins DEF Noticed, Operations, Polled
<1>5. QED
  BY <1>2, <1>3, <1>4, OnlyCallMoves

\* The poll leaves out an id and holds nothing more than before.
LEMMA SyncSkipsKeeps ==
  ASSUME AllocationInv, SyncSkips
  PROVE  AllocationInv'
<1>1. PICK a \in call["sync"].todo : call' = [call EXCEPT !["sync"].todo = @ \ {a}]
  BY DEF SyncSkips
<1>2. PICK d \in Calls : d = call["sync"] /\ CallTrue(d)
  BY DEF AllocationInv, AllocationTypeOK, Processes
<1> DEFINE c == [d EXCEPT !.todo = @ \ {a}]
<1>3. c \in Calls
  BY <1>2 DEF Calls
<1>4. CallTrue(c)
  BY <1>2 DEF CallTrue, Calls
<1>5. "sync" \in Processes /\ call' = [call EXCEPT !["sync"] = c] /\ UNCHANGED <<engine, row, event>>
  BY <1>1, <1>2 DEF SyncSkips, Processes
<1> HIDE DEF c
<1>6. QED
  BY <1>3, <1>4, <1>5, OnlyCallMoves

\* A process that dies holds nothing.
LEMMA AbandonKeeps ==
  ASSUME AllocationInv, NEW p \in Processes, Abandon(p)
  PROVE  AllocationInv'
BY IdleIsTrue, OnlyCallMoves DEF Abandon

\* A notice is held for writing only where there is a row.
LEMMA ApplyKeeps ==
  ASSUME AllocationInv, NEW p \in Processes, Apply(p)
  PROVE  AllocationInv'
<1>1. PICK d \in Calls : d = call[p] /\ CallTrue(d)
  BY DEF AllocationInv, AllocationTypeOK
<1>2. PICK a \in d.todo :
        call' = [call EXCEPT ![p] =
          [d EXCEPT !.todo = d.todo \ {a},
                    !.seen[a] = row[a].status,
                    !.answer[a] = IF a \in Known THEN "CANCELLED" ELSE None]]
  BY <1>1 DEF Apply
<1>3. a \in Allocations /\ d.op \in Noticed /\ Ended(a)
  BY <1>1, <1>2 DEF Apply, Calls, Noticed, CallTrue
<1> DEFINE c == [d EXCEPT !.todo = @ \ {a}, !.seen[a] = row[a].status,
                          !.answer[a] = IF a \in Known THEN "CANCELLED" ELSE None]
<1>4. row[a].status \in Statuses \cup {None} /\ "CANCELLED" \in Statuses
  BY <1>3 DEF AllocationInv, AllocationTypeOK, Row, NoRow, Statuses
<1>5. c \in Calls
  BY <1>1, <1>3, <1>4 DEF Calls
<1>6. /\ c.op = d.op /\ c.leader = d.leader /\ c.todo = d.todo \ {a}
      /\ c.answer = [d.answer EXCEPT ![a] = IF a \in Known THEN "CANCELLED" ELSE None]
  BY <1>1 DEF Calls
<1>7. call' = [call EXCEPT ![p] = c] /\ UNCHANGED <<engine, row, event>>
  BY <1>1, <1>2 DEF Apply, AllocationInv, AllocationTypeOK
<1> HIDE DEF c
<1>8. d.answer \in [Allocations -> Statuses \cup {None}]
  BY <1>1 DEF Calls
<1>9. CallTrue(c)
  <2>1. \A b \in Allocations : c.answer[b] = "CANCELLED" => Ended(b)
    BY <1>1, <1>3, <1>6, <1>8 DEF CallTrue
  <2>2. \A b \in Allocations : c.answer[b] # None => b \in Known
    BY <1>1, <1>3, <1>6, <1>8 DEF CallTrue
  <2>3. QED
    BY <1>1, <1>6, <2>1, <2>2 DEF CallTrue
<1>10. QED
  BY <1>5, <1>7, <1>9, OnlyCallMoves

-----------------------------------------------------------------------------
(* The engine serving a request.                                           *)

\* When the engine serves a process, the others keep true what they hold.
LEMMA EngineServes ==
  ASSUME AllocationInv, UNCHANGED <<row, event>>,
         engine' \in [Allocations -> Subscription \cup {Unborn}],
         \A a \in Allocations : Ended(a) => Ended(a)',
         \A a \in Allocations : engine'[a].ours /\ engine'[a].status = "ACTIVE" => a \in Known,
         NEW p \in Processes, NEW c \in Calls, CallTrue(c)', call' = [call EXCEPT ![p] = c]
  PROVE  AllocationInv'
<1>1. Forward
  BY DEF Forward, Known
<1>2. call' \in [Processes -> Calls] /\ \A q \in Processes : CallTrue(call[q])'
  BY <1>1, OneCall
<1>3. AllocationTypeOK'
  BY <1>2 DEF AllocationInv, AllocationTypeOK
<1>4. /\ (\A a \in Allocations : event[a] # None => Ended(a))'
      /\ EndedIsTrue' /\ ProcessedIsEnded'
  BY DEF AllocationInv, EndedIsTrue, ProcessedIsEnded, Ended
<1>5. KnownBeforeActive'
  BY DEF KnownBeforeActive, Known
<1>6. QED
  BY <1>2, <1>3, <1>4, <1>5 DEF AllocationInv

\* The subscription the engine creates for us is PAUSED.
LEMMA EngineCreatesKeeps ==
  ASSUME AllocationInv, NEW h \in Handlers, EngineCreates(h)
  PROVE  AllocationInv'
<1>1. h \in Processes
  BY DEF Processes
<1>2. PICK d \in Calls : d = call[h] /\ CallTrue(d)
  BY <1>1 DEF AllocationInv, AllocationTypeOK
<1>3. d.op = "create" /\ d.leader \in Leaders /\ d.answer = Unread
  BY <1>2 DEF EngineCreates, CallTrue
<1>4. PICK b \in Allocations \ Existing :
        /\ engine' = [engine EXCEPT ![b] = [leader |-> d.leader,
                                            status |-> CreatedAs, ours |-> TRUE]]
        /\ call' = [call EXCEPT ![h].answer[b] = CreatedAs]
  BY <1>2 DEF EngineCreates
<1>5. engine \in [Allocations -> Subscription \cup {Unborn}] /\ engine[b] = Unborn
  BY <1>4 DEF AllocationInv, AllocationTypeOK, Existing
<1>6. engine' \in [Allocations -> Subscription \cup {Unborn}]
  BY <1>3, <1>4, <1>5 DEF Subscription, Statuses, Live, CreatedAs
<1>7. \A a \in Allocations : Ended(a) => Ended(a)'
  BY <1>4, <1>5 DEF Ended, Unborn, None
<1>8. \A a \in Allocations : engine'[a].ours /\ engine'[a].status = "ACTIVE" => a \in Known
  BY <1>4, <1>5 DEF AllocationInv, KnownBeforeActive, CreatedAs
<1> DEFINE c == [d EXCEPT !.answer[b] = CreatedAs]
<1>9. c \in Calls /\ c.op = "create" /\ c.leader = d.leader
  BY <1>2, <1>3 DEF Calls, Statuses, Live, CreatedAs
<1>10. \A a \in Allocations : c.answer[a] # "CANCELLED"
  BY <1>2, <1>3 DEF Calls, Unread, CreatedAs, None
<1>11. call' = [call EXCEPT ![h] = c] /\ UNCHANGED <<row, event>>
  BY <1>2, <1>4 DEF EngineCreates
<1> HIDE DEF c
<1>12. CallTrue(c)'
  BY <1>3, <1>9, <1>10 DEF CallTrue, Operations, Noticed
<1>13. QED
  BY <1>1, <1>6, <1>7, <1>8, <1>9, <1>11, <1>12, EngineServes

\* The engine never brings back what has ended, and only resuming starts it.
LEMMA RepliesAreSound ==
  ASSUME NEW op, NEW s \in Statuses \cup {None}, NEW t \in Replies(op, s)
  PROVE  /\ t \in Statuses \cup {None}
         /\ s = "CANCELLED" => t = "CANCELLED"
         /\ t = "ACTIVE" => s = "ACTIVE" \/ op = "resume"
         /\ t = None <=> s = None
BY DEF Replies, Statuses, Live, None

\* The engine makes ACTIVE only what a row asks for, and takes back no end.
LEMMA EngineAnswersKeeps ==
  ASSUME AllocationInv, NEW p \in Processes, EngineAnswers(p)
  PROVE  AllocationInv'
<1>1. PICK d \in Calls : d = call[p] /\ CallTrue(d)
  BY DEF AllocationInv, AllocationTypeOK
<1>2. PICK b \in call[p].todo \cap Existing :
        \E s \in Replies(call[p].op, engine[b].status) :
          /\ engine' = [engine EXCEPT ![b].status = s]
          /\ call' = [call EXCEPT ![p] =
                       [@ EXCEPT !.todo = call[p].todo \ {b}, !.answer[b] = s]]
  BY DEF EngineAnswers
<1>2a. PICK s \in Replies(call[p].op, engine[b].status) :
          /\ engine' = [engine EXCEPT ![b].status = s]
          /\ call' = [call EXCEPT ![p] =
                       [@ EXCEPT !.todo = call[p].todo \ {b}, !.answer[b] = s]]
  BY <1>2
<1>3. b \in Allocations /\ d.op \notin Noticed
  BY <1>1, <1>2 DEF Calls, EngineAnswers, Noticed
<1>4. engine \in [Allocations -> Subscription \cup {Unborn}]
  BY DEF AllocationInv, AllocationTypeOK
<1>5. engine[b].status \in Statuses \cup {None}
  BY <1>3, <1>4 DEF Subscription, Unborn
<1>6. /\ s \in Statuses \cup {None}
      /\ engine[b].status = "CANCELLED" => s = "CANCELLED"
      /\ s = "ACTIVE" => engine[b].status = "ACTIVE" \/ d.op = "resume"
      /\ s = None <=> engine[b].status = None
  BY <1>1, <1>2a, <1>5, RepliesAreSound
<1>7. [engine[b] EXCEPT !.status = s] \in Subscription
  <2>1. engine[b] \in Subscription
    BY <1>2, <1>4 DEF Existing
  <2>2. s \in Statuses
    BY <1>6, <2>1 DEF Subscription, Statuses, Live, None
  <2>3. QED
    BY <2>1, <2>2 DEF Subscription
<1>8. engine' \in [Allocations -> Subscription \cup {Unborn}]
  BY <1>2a, <1>3, <1>4, <1>7
<1>9. /\ engine'[b].status = s /\ engine'[b].ours = engine[b].ours
      /\ \A a \in Allocations : a # b => engine'[a] = engine[a]
  BY <1>2a, <1>3, <1>4 DEF Subscription, Unborn
<1>10. \A a \in Allocations : Ended(a) => Ended(a)'
  BY <1>6, <1>9 DEF Ended
<1>11. d.op = "resume" => b \in Known
  BY <1>1, <1>2 DEF CallTrue, Operations
<1>12. \A a \in Allocations : engine'[a].ours /\ engine'[a].status = "ACTIVE" => a \in Known
  BY <1>6, <1>9, <1>11 DEF AllocationInv, KnownBeforeActive
<1> DEFINE c == [d EXCEPT !.todo = d.todo \ {b}, !.answer[b] = s]
<1>13. c \in Calls
  BY <1>1, <1>3, <1>6 DEF Calls
<1>14. /\ c.op = d.op /\ c.leader = d.leader /\ c.todo = d.todo \ {b}
       /\ c.answer = [d.answer EXCEPT ![b] = s]
       /\ d.answer \in [Allocations -> Statuses \cup {None}]
  BY <1>1 DEF Calls
<1>15. call' = [call EXCEPT ![p] = c] /\ UNCHANGED <<row, event>>
  BY <1>1, <1>2a DEF EngineAnswers
<1> HIDE DEF c
<1>16. CallTrue(c)'
  <2>1. \A a \in Allocations : c.answer[a] = "CANCELLED" => Ended(a)'
    BY <1>1, <1>3, <1>9, <1>10, <1>14 DEF CallTrue, Ended
  <2>2. c.op \in Operations => \A a \in Allocations : c.answer[a] # None => a \in Known
    BY <1>1, <1>2, <1>3, <1>14 DEF CallTrue
  <2>3. Known' = Known
    BY <1>15 DEF Known
  <2>4. QED
    BY <1>1, <1>3, <1>14, <2>1, <2>2, <2>3 DEF CallTrue
<1>17. QED
  BY <1>8, <1>10, <1>12, <1>13, <1>15, <1>16, EngineServes

-----------------------------------------------------------------------------
(* Writing rows.                                                           *)

\* A step that writes rows, taking none away and telling no end that is not
\* true, and then holds c, keeps the invariant.
LEMMA RowsMove ==
  ASSUME AllocationInv, UNCHANGED engine,
         row' \in [Allocations -> Row \cup {NoRow}],
         \A a \in Known : row'[a] # NoRow,
         \A a \in Allocations : row'[a].status = "CANCELLED" \/ row'[a].ended => Ended(a),
         event' \in [Allocations -> Events],
         \A a \in Allocations : event'[a] # None => Ended(a),
         \A a \in Allocations : event'[a] = "processed" => row'[a].ended,
         NEW p \in Processes, NEW c \in Calls, CallTrue(c)', call' = [call EXCEPT ![p] = c]
  PROVE  AllocationInv'
<1>1. Forward
  BY DEF Forward, Known, Ended
<1>2. call' \in [Processes -> Calls] /\ \A q \in Processes : CallTrue(call[q])'
  BY <1>1, OneCall
<1>3. AllocationTypeOK'
  BY <1>2 DEF AllocationInv, AllocationTypeOK
<1>4. /\ (\A a \in Allocations : event[a] # None => Ended(a))'
      /\ EndedIsTrue' /\ ProcessedIsEnded'
  BY DEF EndedIsTrue, ProcessedIsEnded, Ended
<1>5. KnownBeforeActive'
  BY <1>1 DEF AllocationInv, KnownBeforeActive, Forward
<1>6. QED
  BY <1>2, <1>3, <1>4, <1>5 DEF AllocationInv

\* A row is inserted with the status the engine answered.
LEMMA InsertKeeps ==
  ASSUME AllocationInv, NEW h \in Handlers, Insert(h)
  PROVE  AllocationInv'
<1>1. h \in Processes
  BY DEF Processes
<1>2. PICK d \in Calls : d = call[h] /\ CallTrue(d)
  BY <1>1 DEF AllocationInv, AllocationTypeOK
<1> DEFINE s(a) == call[h].answer[a]
           rows(a) == [row EXCEPT ![a] = [status |-> s(a), ended |-> s(a) = "CANCELLED"]]
<1>3. PICK a \in Allocations :
        /\ s(a) # None
        /\ IF a \notin Known /\ OnePerPair(rows(a))
             THEN /\ row' = rows(a)
                  /\ \E c \in AfterInsert(call[h].op, a, s(a)) : call' = [call EXCEPT ![h] = c]
             ELSE row' = row /\ call' = [call EXCEPT ![h] = Idle]
  BY DEF Insert
<1>4. UNCHANGED <<engine, event>>
  BY DEF Insert
<1>5. s(a) \in Statuses /\ (s(a) = "CANCELLED" => Ended(a))
  BY <1>2, <1>3 DEF Calls, CallTrue
<1>6. event' \in [Allocations -> Events] /\ \A b \in Allocations : event'[b] # None => Ended(b)
  BY <1>4 DEF AllocationInv, AllocationTypeOK
<1>7. CASE a \notin Known /\ OnePerPair(rows(a))
  <2>1. row' = rows(a)
    BY <1>3, <1>7
  <2>2. PICK c \in AfterInsert(call[h].op, a, s(a)) : call' = [call EXCEPT ![h] = c]
    BY <1>3, <1>7
  <2>3. row \in [Allocations -> Row \cup {NoRow}]
    BY DEF AllocationInv, AllocationTypeOK
  <2>4. /\ row' \in [Allocations -> Row \cup {NoRow}]
        /\ \A b \in Known : row'[b] # NoRow
        /\ (a \in Known)'
    BY <1>5, <1>7, <2>1, <2>3 DEF Row, NoRow, Known, None, Statuses, Live
  <2>5. \A b \in Allocations : row'[b].status = "CANCELLED" \/ row'[b].ended => Ended(b)
    BY <1>5, <2>1, <2>3 DEF AllocationInv, EndedIsTrue, Ended
  <2>6. c \in Calls /\ CallTrue(c)'
    <3>1. CASE c = Idle
      BY <3>1, IdleIsTrue DEF CallTrue, Ended, Known
    <3>2. CASE c # Idle
      <4>1. c = [Idle EXCEPT !.op = "resume", !.todo = {a}, !.seen[a] = s(a)]
        BY <2>2, <3>2 DEF AfterInsert
      <4>2. c.op = "resume" /\ c.todo = {a} /\ c.answer = Unread
        BY <4>1 DEF Idle
      <4>3. c \in Calls
        BY <1>5, <4>1, IdleIsTrue DEF Calls
      <4>4. \A b \in Allocations : Unread[b] = None
        BY DEF Unread
      <4>5. CallTrue(c)'
        BY <2>4, <4>2, <4>4 DEF CallTrue, Noticed, None
      <4>6. QED
        BY <4>3, <4>5
    <3>3. QED
      BY <3>1, <3>2
  <2>7. PICK e \in Calls : e = c
    BY <2>6
  <2>8. CallTrue(e)' /\ call' = [call EXCEPT ![h] = e]
    BY <2>2, <2>6, <2>7
  <2>9. \A b \in Allocations : event'[b] = "processed" => row'[b].ended
    BY <1>4, <1>7, <2>1, <2>3 DEF AllocationInv, ProcessedIsEnded, Known, NoRow
  <2>10. QED
    BY <1>1, <1>4, <1>6, <2>4, <2>5, <2>8, <2>9, RowsMove
<1>8. CASE ~(a \notin Known /\ OnePerPair(rows(a)))
  <2>1. row' = row /\ call' = [call EXCEPT ![h] = Idle]
    BY <1>3, <1>8
  <2>2. QED
    BY <1>1, <1>4, <2>1, IdleIsTrue, OnlyCallMoves
<1>9. QED
  BY <1>7, <1>8

\* A commit writes an end only where the process holds one, and it is true.
LEMMA CommitKeeps ==
  ASSUME AllocationInv, NEW p \in Processes, Commit(p)
  PROVE  AllocationInv'
<1>1. PICK d \in Calls : d = call[p] /\ CallTrue(d)
  BY DEF AllocationInv, AllocationTypeOK
<1>2. d.op \in Operations \cup Noticed
  BY <1>1 DEF Commit, Calls, Operations, Noticed
<1>3. call' = [call EXCEPT ![p] = Idle] /\ UNCHANGED engine
  BY DEF Commit
<1>4. d.answer \in [Allocations -> Statuses \cup {None}]
  BY <1>1 DEF Calls
<1>5. ASSUME NEW a \in Allocations, d.answer[a] # None
      PROVE  d.answer[a] \in Statuses /\ a \in Known /\ (d.answer[a] = "CANCELLED" => Ended(a))
  BY <1>1, <1>2, <1>4, <1>5 DEF CallTrue
<1>6. CASE OnePerPair(Written(d))
  <2>1. row' = Written(d) /\ event' = Applied(d)
    BY <1>1, <1>6 DEF Commit
  <2>2. ASSUME NEW a \in Allocations
        PROVE  /\ Written(d)[a] \in Row \cup {NoRow}
               /\ a \in Known => Written(d)[a] # NoRow
               /\ Written(d)[a].status = "CANCELLED" \/ Written(d)[a].ended => Ended(a)
               /\ row[a].ended \/ (d.answer[a] # None /\ Ends(d, a)) => Written(d)[a].ended
    <3>1. /\ row[a] \in Row \cup {NoRow}
          /\ row[a].status = "CANCELLED" \/ row[a].ended => Ended(a)
      BY DEF AllocationInv, AllocationTypeOK, EndedIsTrue, Ended
    <3>2. CASE d.answer[a] = None
      BY <3>1, <3>2 DEF Written, Known
    <3>3. CASE d.answer[a] # None
      <4> DEFINE st == IF d.answer[a] = d.seen[a] THEN row[a].status ELSE d.answer[a]
                 en == row[a].ended \/ Ends(d, a)
      <4>1. Written(d)[a] = [status |-> st, ended |-> en]
        BY <3>3 DEF Written
      <4>2. row[a] \in Row
        BY <1>5, <3>1, <3>3 DEF Known
      <4>3. st \in Statuses /\ (st = "CANCELLED" => Ended(a))
        BY <1>5, <3>1, <3>3, <4>2 DEF Row
      <4>4. en \in BOOLEAN /\ (en => Ended(a))
        <5>1. Ends(d, a) \in BOOLEAN /\ (Ends(d, a) => Ended(a))
          BY <1>5, <3>3 DEF Ends
        <5>2. row[a].ended \in BOOLEAN
          BY <4>2 DEF Row
        <5>3. QED
          BY <3>1, <5>1, <5>2
      <4>5. row[a].ended \/ Ends(d, a) => en
        OBVIOUS
      <4> HIDE DEF st, en
      <4>6. [status |-> st, ended |-> en] \in Row /\ None \notin Statuses
        BY <4>3, <4>4 DEF Row, Statuses, Live, None
      <4>7. QED
        BY <4>1, <4>3, <4>4, <4>5, <4>6 DEF NoRow
    <3>4. QED
      BY <3>2, <3>3
  <2>3. row' \in [Allocations -> Row \cup {NoRow}]
    <3>1. Written(d) = [a \in Allocations |-> Written(d)[a]]
      BY DEF Written
    <3>2. QED
      BY <2>1, <2>2, <3>1
  <2>4. /\ \A a \in Known : row'[a] # NoRow
        /\ \A a \in Allocations : row'[a].status = "CANCELLED" \/ row'[a].ended => Ended(a)
    BY <2>1, <2>2 DEF Known
  <2>5. event' \in [Allocations -> Events]
    BY <2>1 DEF Applied, AllocationInv, AllocationTypeOK, Events
  <2>6. \A a \in Allocations : event'[a] # None => Ended(a)
    <3>1. ASSUME NEW a \in Allocations, event'[a] # None, event[a] = None PROVE Ended(a)
      <4>1. d.op \in Noticed /\ d.answer[a] # None
        BY <2>1, <3>1 DEF Applied, Noticed
      <4>2. QED
        BY <1>1, <4>1 DEF CallTrue
    <3>2. QED
      BY <3>1 DEF AllocationInv
  <2>7. \A a \in Allocations : event'[a] = "processed" => row'[a].ended
    <3>1. ASSUME NEW a \in Allocations, event'[a] = "processed", event[a] # "processed"
          PROVE  row'[a].ended
      <4>1. d.op \in Noticed /\ d.answer[a] # None
        BY <2>1, <3>1 DEF Applied, Noticed
      <4>2. Ends(d, a)
        BY <1>1, <4>1 DEF CallTrue, Ends, Noticed
      <4>3. QED
        BY <2>1, <2>2, <4>1, <4>2
    <3>2. QED
      BY <2>1, <2>2, <3>1 DEF AllocationInv, ProcessedIsEnded
  <2>8. QED
    BY <1>3, <2>3, <2>4, <2>5, <2>6, <2>7, IdleIsTrue, RowsMove
<1>7. CASE ~OnePerPair(Written(d))
  <2>1. UNCHANGED <<engine, row, event>>
    BY <1>1, <1>7 DEF Commit
  <2>2. QED
    BY <1>3, <2>1, IdleIsTrue, OnlyCallMoves
<1>8. QED
  BY <1>6, <1>7

-----------------------------------------------------------------------------
(* The specification.                                                      *)

\* Nothing exists in the beginning.
LEMMA AllocationInvInit == AllocationInit => AllocationInv
<1> SUFFICES ASSUME AllocationInit PROVE AllocationInv
  OBVIOUS
<1>1. call \in [Processes -> Calls] /\ \A p \in Processes : CallTrue(call[p])
  BY IdleIsTrue DEF AllocationInit
<1>2. AllocationTypeOK
  BY <1>1 DEF AllocationInit, AllocationTypeOK, Events
<1>3. \A a \in Allocations : event[a] = None /\ row[a] = NoRow /\ engine[a] = Unborn
  BY DEF AllocationInit
<1>4. EndedIsTrue /\ KnownBeforeActive /\ ProcessedIsEnded
  BY <1>3 DEF EndedIsTrue, KnownBeforeActive, ProcessedIsEnded, NoRow, Unborn, None
<1>5. QED
  BY <1>1, <1>2, <1>3, <1>4 DEF AllocationInv

\* Every step keeps the invariant.
LEMMA AllocationInvNext == AllocationInv /\ [AllocationNext]_vars => AllocationInv'
<1> SUFFICES ASSUME AllocationInv, [AllocationNext]_vars PROVE AllocationInv'
  OBVIOUS
<1>1. ASSUME NEW a \in Allocations, BrokerCreates(a) PROVE AllocationInv'
  BY <1>1, BrokerCreatesKeeps
<1>2. ASSUME NEW a \in Allocations, EquityStop(a) PROVE AllocationInv'
  BY <1>2, Terminates DEF EquityStop
<1>3. ASSUME NEW a \in Allocations, PositionsClosed(a) PROVE AllocationInv'
  BY <1>3, Terminates DEF PositionsClosed
<1>4. ASSUME NEW h \in Handlers, EngineCreates(h) \/ Insert(h) PROVE AllocationInv'
  BY <1>4, EngineCreatesKeeps, InsertKeeps
<1>5. ASSUME NEW h \in Handlers, NEW l \in Leaders, StartCreate(h, l) PROVE AllocationInv'
  BY <1>5, StartCreateKeeps
<1>6. ASSUME NEW h \in Handlers, NEW a \in Allocations, StartImport(h, a) \/ Receive(h, a)
      PROVE  AllocationInv'
  BY <1>6, StartImportKeeps, ReceiveKeeps
<1>7. ASSUME NEW h \in Handlers, NEW a \in Allocations, NEW op \in Operations, Ask(h, op, a)
      PROVE  AllocationInv'
  BY <1>7, AskKeeps
<1>8. CASE StartRetry \/ StartSync \/ SyncSkips
  BY <1>8, StartRetryKeeps, StartSyncKeeps, SyncSkipsKeeps
<1>9. ASSUME NEW p \in Processes, EngineAnswers(p) \/ Apply(p) \/ Commit(p) \/ Abandon(p)
      PROVE  AllocationInv'
  BY <1>9, EngineAnswersKeeps, ApplyKeeps, CommitKeeps, AbandonKeeps
<1>10. CASE UNCHANGED vars
  BY <1>10 DEF vars, AllocationInv, AllocationTypeOK, CallTrue, EndedIsTrue,
               KnownBeforeActive, ProcessedIsEnded, Ended, Known
<1>11. QED
  BY <1>1, <1>2, <1>3, <1>4, <1>5, <1>6, <1>7, <1>8, <1>9, <1>10
  DEF AllocationNext, Creations, Imports, Deliveries

\* The invariant holds in every reachable state.
LEMMA AlwaysAllocationInv == AllocationSpec => []AllocationInv
BY AllocationInvInit, AllocationInvNext, PTL DEF AllocationSpec

\* Every reachable state of the subscriptions and of the requests is well typed.
THEOREM AllocationTypeCorrect == AllocationSpec => []AllocationTypeOK
<1>1. AllocationInv => AllocationTypeOK
  BY DEF AllocationInv
<1>2. QED
  BY <1>1, AlwaysAllocationInv, PTL

\* create_allocation never lets a subscription copy trades while it has no row,
\* however its requests, the crons and crashes interleave.
THEOREM AlwaysKnownBeforeActive == AllocationSpec => []KnownBeforeActive
<1>1. AllocationInv => KnownBeforeActive
  BY DEF AllocationInv
<1>2. QED
  BY <1>1, AlwaysAllocationInv, PTL

\* No row ever tells an end the engine has not made.
THEOREM AlwaysEndedIsTrue == AllocationSpec => []EndedIsTrue
<1>1. AllocationInv => EndedIsTrue
  BY DEF AllocationInv
<1>2. QED
  BY <1>1, AlwaysAllocationInv, PTL

\* A processed notice has left its mark on the row, and the row keeps it.
THEOREM AlwaysProcessedIsEnded == AllocationSpec => []ProcessedIsEnded
<1>1. AllocationInv => ProcessedIsEnded
  BY DEF AllocationInv
<1>2. QED
  BY <1>1, AlwaysAllocationInv, PTL
=============================================================================
