------------------------------ MODULE Deletion ------------------------------
(***************************************************************************)
(* The deletion of an account from the MAM service (MamDeletionService).   *)
(*                                                                         *)
(* The engine carries a deletion out by itself, and may stop half way      *)
(* (PARTIAL).  A row follows it: written before the engine is asked, and   *)
(* refreshed by whoever reads it and by a cron.  When the row learns that  *)
(* the engine has completed, the row of the account becomes DELETED.       *)
(* PENDING stands for WAITING_CLOSE and PURGING too: all are polled.       *)
(***************************************************************************)
EXTENDS Accounts

CONSTANTS
  Deletion,     \* the idempotency keys of deletion requests
  Worker,       \* the requests about deletions handled at the same time
  InstantRetry  \* whether the answer to a retry may be COMPLETED already

ASSUME DeletionAssumption == InstantRetry \in BOOLEAN

VARIABLES
  purge,   \* the deletions of the engine
  op,      \* mam_deletion_operations, by idempotency key
  worker,  \* what each request about a deletion is doing
  cron     \* the polling pass: what is left to ask, the rows as loaded, the answers

deletionVars == <<account, past, row, profile, audit, call, purge, op, worker, cron>>
rowsOfAccounts == <<row, profile, audit, call>>

Terminal == {"COMPLETED", "FAILED"}
Progress == Terminal \cup {"PENDING", "PARTIAL"}
NoAnswer == "NONE"

\* known: operation_id is set; completed: completed_at is.
Operation == [status : Progress, known : BOOLEAN, completed : BOOLEAN, login : Login]
NoOp == [status |-> NoAnswer]

\* seen is the row that was loaded: of the account for a new deletion, of the
\* deletion otherwise.
Off == [pc |-> "idle"]
Working == [pc : {"impact", "insert", "create", "created", "poll", "polled", "resend", "resent"},
            act : {"request", "get", "retry"},
            del : Deletion, login : Login, seen : Row \cup Operation,
            answer : Progress \cup {NoAnswer}]

Asleep == [on |-> FALSE, left |-> {}, seen |-> [d \in Deletion |-> NoOp],
           answer |-> [d \in Deletion |-> NoAnswer]]
Polling == [on : BOOLEAN, left : SUBSET Deletion, seen : [Deletion -> Operation \cup {NoOp}],
            answer : [Deletion -> Progress \cup {NoAnswer}]]

DelOf(w) == worker[w].del
Advance(w, pc) == worker' = [worker EXCEPT ![w].pc = pc]
Hear(w, pc, status) == worker' = [worker EXCEPT ![w].pc = pc, ![w].answer = status]
Stop(w) == worker' = [worker EXCEPT ![w] = Off]

DeletionInit ==
  /\ AccountsInit
  /\ purge = [d \in Deletion |-> NoAnswer]
  /\ op = [d \in Deletion |-> NoOp]
  /\ worker = [w \in Worker |-> Off]
  /\ cron = Asleep

-----------------------------------------------------------------------------
(* The engine                                                              *)

\* A deletion of the account of l gets to status; completed, the account is gone.
Purge(d, l, status) ==
  /\ purge' = [purge EXCEPT ![d] = status]
  /\ IF status = "COMPLETED" THEN Becomes(l, Absent, {}) ELSE UNCHANGED <<account, past>>

\* By itself it goes on with a deletion, as long as it is not stopped half way.
EngineAdvances(d) ==
  /\ purge[d] = "PENDING"
  /\ \E status \in Progress \ {"PENDING"} : Purge(d, op[d].login, status)
  /\ UNCHANGED <<rowsOfAccounts, op, worker, cron>>

\* It is asked for a new deletion: without open positions it is over at once.
EngineTakes(w) ==
  /\ worker[w].pc = "create" /\ account[worker[w].login] # Absent
  /\ \E status \in {"PENDING", "COMPLETED"} :
       Purge(DelOf(w), worker[w].login, status) /\ Hear(w, "created", status)
  /\ UNCHANGED <<rowsOfAccounts, op, cron>>

EngineTells(w) ==
  /\ worker[w].pc = "poll"
  /\ Hear(w, "polled", purge[DelOf(w)])
  /\ UNCHANGED <<account, past, rowsOfAccounts, purge, op, cron>>

\* Only a deletion that is PARTIAL is retried.
EngineResumes(w) ==
  /\ worker[w].pc = "resend" /\ purge[DelOf(w)] = "PARTIAL"
  /\ \E status \in {"PENDING"} \cup IF InstantRetry THEN {"COMPLETED"} ELSE {} :
       Purge(DelOf(w), worker[w].login, status) /\ Hear(w, "resent", status)
  /\ UNCHANGED <<rowsOfAccounts, op, cron>>

-----------------------------------------------------------------------------
(* What refresh and _aplicar_completado write.                             *)

\* The row o of a deletion that was loaded as seen, after an answer.
Refreshed(o, seen, status) ==
  [o EXCEPT !.status = IF status = seen.status THEN @ ELSE status,
            !.completed = @ \/ status = "COMPLETED"]

MarksAlways(seen, status) == status # NoAnswer /\ ~seen.completed

\* The account is marked once, when the deletion is seen to be complete.
Marks(seen, status) == status = "COMPLETED" /\ ~seen.completed

Archive(S) ==
  row' = [l \in Login |-> IF l \in S THEN [row[l] EXCEPT !.status = "DELETED"] ELSE row[l]]

-----------------------------------------------------------------------------
(* Requests                                                                *)

\* request: the account is loaded, and the impact is asked for.
StartRequest(w, d, l) ==
  /\ worker[w] = Off /\ row[l] # NoRow
  /\ worker' = [worker EXCEPT ![w] = [pc |-> "impact", act |-> "request", del |-> d, login |-> l,
                                      seen |-> row[l], answer |-> NoAnswer]]
  /\ UNCHANGED <<account, past, rowsOfAccounts, purge, op, cron>>

\* No conflicts, or they are overridden (force).
ImpactKnown(w) ==
  /\ worker[w].pc = "impact" /\ account[worker[w].login] # Absent
  /\ Advance(w, "insert")
  /\ UNCHANGED <<account, past, rowsOfAccounts, purge, op, cron>>

InsertLater(w) ==
  /\ worker[w].pc = "insert"
  /\ IF op[DelOf(w)] = NoOp THEN Advance(w, "create") ELSE Stop(w)
  /\ UNCHANGED <<account, past, rowsOfAccounts, purge, op, cron>>

\* The row is committed before the engine is asked; a key that has one is over.
InsertOp(w) ==
  LET d == DelOf(w)
  IN  /\ worker[w].pc = "insert"
      /\ IF op[d] = NoOp
           THEN /\ op' = [op EXCEPT ![d] = [status |-> "PENDING", known |-> FALSE,
                                            completed |-> FALSE, login |-> worker[w].login]]
                /\ Advance(w, "create")
           ELSE UNCHANGED op /\ Stop(w)
      /\ UNCHANGED <<account, past, rowsOfAccounts, purge, cron>>

\* The engine refuses, does not answer, or its answer is lost.
CreateFails(w) ==
  /\ worker[w].pc \in {"create", "created"}
  /\ op' = [op EXCEPT ![DelOf(w)].status = "FAILED"]
  /\ Stop(w)
  /\ UNCHANGED <<account, past, rowsOfAccounts, purge, cron>>

\* The answer is written; the account only if it was not DELETED when loaded.
WriteCreated(w) ==
  LET d == DelOf(w)
      done == worker[w].answer = "COMPLETED"
  IN  /\ worker[w].pc = "created"
      /\ op' = [op EXCEPT ![d] = [@ EXCEPT !.status = worker[w].answer, !.known = TRUE,
                                           !.completed = done]]
      /\ Archive(IF done /\ worker[w].seen.status # "DELETED" THEN {worker[w].login} ELSE {})
      /\ Stop(w)
      /\ UNCHANGED <<account, past, profile, audit, call, purge, cron>>

\* get and retry: of a deletion that is over nothing is asked, and what it
\* completed is applied if it was not; one without operation_id is left.
StartRead(w, d, act) ==
  /\ worker[w] = Off /\ op[d].status # NoAnswer /\ op[d].known /\ act \in {"get", "retry"}
  /\ worker' = [worker EXCEPT ![w] =
       [pc |-> IF op[d].status \in Terminal THEN "polled" ELSE "poll", act |-> act,
        del |-> d, login |-> op[d].login, seen |-> op[d],
        answer |-> IF op[d].status \in Terminal THEN op[d].status ELSE NoAnswer]]
  /\ UNCHANGED <<account, past, rowsOfAccounts, purge, op, cron>>

\* What was read is committed; retry goes on with a deletion that is PARTIAL.
WriteRead(w) ==
  LET d == DelOf(w)
      status == worker[w].answer
  IN  /\ worker[w].pc = "polled"
      /\ op' = [op EXCEPT ![d] = Refreshed(@, worker[w].seen, status)]
      /\ Archive(IF Marks(worker[w].seen, status) THEN {worker[w].login} ELSE {})
      /\ IF worker[w].act = "retry" /\ op'[d].status = "PARTIAL" THEN Advance(w, "resend")
                                                                  ELSE Stop(w)
      /\ UNCHANGED <<account, past, profile, audit, call, purge, cron>>

\* The answer to the retry: only the status is written.
WriteResent(w) ==
  /\ worker[w].pc = "resent"
  /\ op' = [op EXCEPT ![DelOf(w)].status = worker[w].answer]
  /\ Stop(w)
  /\ UNCHANGED <<account, past, rowsOfAccounts, purge, cron>>

\* The engine refuses or does not answer, or the process dies.
Drop(w) ==
  /\ worker[w] # Off
  /\ Stop(w)
  /\ UNCHANGED <<account, past, rowsOfAccounts, purge, op, cron>>

-----------------------------------------------------------------------------
(* sync: the deletions that are not over are asked one by one, and what is  *)
(* heard is committed at the end.                                          *)

StartSyncPending ==
  LET S == {d \in Deletion : op[d].status = "PENDING" /\ op[d].known}
  IN  /\ ~cron.on /\ S # {}
      /\ cron' = [on |-> TRUE, left |-> S,
                  seen |-> [d \in Deletion |-> IF d \in S THEN op[d] ELSE NoOp],
                  answer |-> [d \in Deletion |-> NoAnswer]]
      /\ UNCHANGED <<account, past, rowsOfAccounts, purge, op, worker>>

\* One without operation_id has nothing to be asked about.
StartSync ==
  LET S == {d \in Deletion : op[d].status \in {"PENDING", "PARTIAL"} /\ op[d].known}
  IN  /\ ~cron.on /\ S # {}
      /\ cron' = [on |-> TRUE, left |-> S,
                  seen |-> [d \in Deletion |-> IF d \in S THEN op[d] ELSE NoOp],
                  answer |-> [d \in Deletion |-> NoAnswer]]
      /\ UNCHANGED <<account, past, rowsOfAccounts, purge, op, worker>>

SyncAsks(d) ==
  /\ d \in cron.left
  /\ cron' = [cron EXCEPT !.left = @ \ {d}, !.answer[d] = purge[d]]
  /\ UNCHANGED <<account, past, rowsOfAccounts, purge, op, worker>>

\* A deletion that cannot be read is left for the next pass.
SyncSkips(d) ==
  /\ d \in cron.left
  /\ cron' = [cron EXCEPT !.left = @ \ {d}]
  /\ UNCHANGED <<account, past, rowsOfAccounts, purge, op, worker>>

SyncCommits ==
  LET heard == {d \in Deletion : cron.answer[d] # NoAnswer}
  IN  /\ cron.on /\ cron.left = {}
      /\ op' = [d \in Deletion |-> IF d \in heard THEN Refreshed(op[d], cron.seen[d], cron.answer[d])
                                                  ELSE op[d]]
      /\ Archive({op[d].login : d \in {x \in heard : Marks(cron.seen[x], cron.answer[x])}})
      /\ cron' = Asleep
      /\ UNCHANGED <<account, past, profile, audit, call, purge, worker>>

SyncDies ==
  /\ cron.on
  /\ cron' = Asleep
  /\ UNCHANGED <<account, past, rowsOfAccounts, purge, op, worker>>

-----------------------------------------------------------------------------
Requested(w) == \E d \in Deletion, l \in Login : StartRequest(w, d, l)

Followed(w) == \E d \in Deletion, act \in {"get", "retry"} : StartRead(w, d, act)

DeletionStep ==
  \/ \E d \in Deletion : EngineAdvances(d) \/ SyncAsks(d) \/ SyncSkips(d)
  \/ \E w \in Worker :
       \/ Requested(w) \/ Followed(w)
       \/ EngineTakes(w) \/ EngineTells(w) \/ EngineResumes(w)
       \/ ImpactKnown(w) \/ InsertOp(w) \/ CreateFails(w) \/ WriteCreated(w)
       \/ WriteRead(w) \/ WriteResent(w) \/ Drop(w)
  \/ StartSync \/ SyncCommits \/ SyncDies

DeletionNext ==
  \/ AccountsNext /\ UNCHANGED <<purge, op, worker, cron>>
  \/ DeletionStep

DeletionSpec == DeletionInit /\ [][DeletionNext]_deletionVars

\* The timer starts the pass for ever, a pass that runs gets on, and from some
\* time on the engine answers it and nothing kills it.
SyncStep == StartSync \/ SyncCommits \/ \E d \in Deletion : SyncAsks(d)
Disturbed == \E d \in Deletion : SyncSkips(d) \/ (SyncDies /\ ~SyncCommits)

FairDeletionSpec ==
  DeletionSpec /\ WF_deletionVars(SyncStep) /\ <>[][~Disturbed]_deletionVars

-----------------------------------------------------------------------------
(* Properties                                                              *)

\* Type correctness.
DeletionTypeOK ==
  /\ AccountsTypeOK
  /\ purge \in [Deletion -> Progress \cup {NoAnswer}]
  /\ op \in [Deletion -> Operation \cup {NoOp}]
  /\ worker \in [Worker -> Working \cup {Off}]
  /\ cron \in Polling

Said(d) == op[d].status # NoAnswer

\* A deletion is reported as completed only once the engine has completed it; an
\* account is archived only by such a deletion or by a PATCH that asked for it;
\* and when a completion is recorded the account is archived with it, whichever
\* of the polls, reads and retries is written last, unless the engine took a PATCH
\* with another status.
ArchivedIsPurged ==
  /\ \A d \in Deletion : Said(d) /\ (op[d].status = "COMPLETED" \/ op[d].completed)
                            => purge[d] = "COMPLETED"
  /\ \A l \in Login : row[l].status = "DELETED" =>
       \/ "DELETED" \in past[l].asked
       \/ \E d \in Deletion : Said(d) /\ op[d].login = l /\ purge[d] = "COMPLETED"
  /\ \A d \in Deletion : Said(d) /\ op[d].completed =>
       row[op[d].login].status = "DELETED" \/ past[op[d].login].asked \ {"DELETED"} # {}

\* The engine never deletes an account for us without a row that says who asked
\* and what would be lost, wherever the request dies.
PurgeIsRecorded == \A d \in Deletion : purge[d] # NoAnswer => Said(d)

\* What the engine completes is found out and applied, although no client asks.
CompletedIsApplied ==
  \A d \in Deletion :
    (Said(d) /\ op[d].known /\ purge[d] = "COMPLETED") ~> (Said(d) /\ op[d].completed)

\* What _aplicar_completado is for: no account stays alive here whose deletion
\* is COMPLETED.
NoneAlive ==
  \A d \in Deletion : op[d].status = "COMPLETED" => row[op[d].login].status = "DELETED"
=============================================================================
