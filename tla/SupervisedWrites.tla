--------------------------- MODULE SupervisedWrites ---------------------------
(***************************************************************************)
(* Bounded execution with write fencing (Supervisor, LeaseLedger, and the  *)
(* gateway's check before a write).  A supervisor runs one task at a time, *)
(* each on a worker thread it cannot kill; a worker it has given up keeps  *)
(* running beside the later ones.  What stops its writes is its lease.     *)
(***************************************************************************)
EXTENDS Integers, Sequences, FiniteSets

CONSTANTS
  Tasks,             \* calls of the supervisor, numbered in the order made
  Agents,
  AgentOf,           \* the agent a call is made for
  Docs,              \* document ids
  WritesOf,          \* the documents a task's worker creates
  Deadline,          \* deadline_seconds
  Grace,             \* lease_grace_seconds
  FailureThreshold,  \* failures that trip an agent's circuit breaker
  MaxTime            \* bound: the last instant of the model

SupervisionAssumption ==
  /\ Tasks \subseteq Nat
  /\ AgentOf \in [Tasks -> Agents]
  /\ WritesOf \in [Tasks -> SUBSET Docs]
  /\ Deadline \in Nat /\ Grace \in Nat /\ MaxTime \in Nat
  /\ FailureThreshold \in Nat \ {0}

ASSUME SupervisionAssumed == SupervisionAssumption

VARIABLES
  now,        \* the wall clock
  ledger,     \* the lease of each task: the events appended, its expiry
  call,       \* where the supervisor is in each task's call
  worker,     \* where each task's worker thread is
  docs,       \* documents in the store, with the task that created them
  failures,   \* failure_counts
  tripped,    \* circuit_breakers
  abandoned,  \* abandoned_events
  answers     \* history: how the calls returned, in order

vars == <<now, ledger, call, worker, docs, failures, tripped, abandoned, answers>>

supervision == <<failures, tripped, abandoned, answers>>

Lease  == [kinds : SUBSET {"issued", "revoked", "released"}, expires_at : Nat]
Call   == [pc : {"new", "waiting", "late", "failed", "returned", "dead"},
           deadline_at : Nat]
Worker == [pc : {"none", "run", "checked", "finished", "error"},
           todo : SUBSET Docs]
Result == {"ok", "deadline_exceeded", "error", "circuit_breaker_tripped"}

(* LeaseLedger.state: the fold of a lease's events.  The supervisor appends *)
(* one terminal event per lease, after the issue, so the order in which    *)
(* the code's loop meets them does not matter to what the fold says.       *)
status(t) ==
  CASE "revoked"  \in ledger[t].kinds -> "revoked"
    [] "released" \in ledger[t].kinds -> "released"
    [] "issued" \notin ledger[t].kinds -> "nonexistent"
    [] now > ledger[t].expires_at     -> "expired"
    [] OTHER                          -> "active"

Appended(t, kind) == [ledger EXCEPT ![t].kinds = @ \cup {kind}]

Alive(t)  == worker[t].pc \in {"run", "checked"}
InCall(t) == call[t].pc \in {"waiting", "late", "failed"}
NextCall(t) == /\ call[t].pc = "new"
               /\ \A s \in Tasks : ~InCall(s) /\ (s < t => call[s].pc # "new")

Return(t, result) == answers' = Append(answers, [task |-> t, result |-> result])

(* Mutant of handle_failure: the count goes down from zero.                *)
CountsDown(t, reason) ==
  /\ failures' = [failures EXCEPT ![AgentOf[t]] = @ - 1]
  /\ abandoned' = Append(abandoned, [task |-> t, reason |-> reason])
  /\ UNCHANGED tripped

(* _handle_failure: count, trip the breaker, write TaskAbandoned.          *)
handle_failure(t, reason) ==
  LET a == AgentOf[t]
  IN /\ failures' = [failures EXCEPT ![a] = @ + 1]
     /\ tripped' = [tripped EXCEPT ![a] = @ \/ failures[a] + 1 >= FailureThreshold]
     /\ abandoned' = Append(abandoned, [task |-> t, reason |-> reason])

-----------------------------------------------------------------------------
Init ==
  /\ now = 0
  /\ ledger = [t \in Tasks |-> [kinds |-> {}, expires_at |-> 0]]
  /\ call = [t \in Tasks |-> [pc |-> "new", deadline_at |-> 0]]
  /\ worker = [t \in Tasks |-> [pc |-> "none", todo |-> WritesOf[t]]]
  /\ docs = {} /\ abandoned = <<>> /\ answers = <<>>
  /\ failures = [a \in Agents |-> 0] /\ tripped = [a \in Agents |-> FALSE]

(* A tripped breaker refuses the call before anything is issued.           *)
Refuse(t) ==
  /\ NextCall(t) /\ tripped[AgentOf[t]]
  /\ call' = [call EXCEPT ![t].pc = "returned"]
  /\ abandoned' = Append(abandoned, [task |-> t, reason |-> "circuit_breaker_tripped"])
  /\ Return(t, "circuit_breaker_tripped")
  /\ UNCHANGED <<now, ledger, worker, docs, failures, tripped>>

(* Mutant of Dispatch: the lease never expires by itself.                  *)
DispatchWithoutTtl(t) ==
  /\ NextCall(t) /\ ~tripped[AgentOf[t]]
  /\ now + Deadline + Grace < MaxTime
  /\ ledger' = [ledger EXCEPT ![t] = [kinds |-> {"issued"}, expires_at |-> MaxTime]]
  /\ call' = [call EXCEPT ![t] = [pc |-> "waiting", deadline_at |-> now + Deadline]]
  /\ worker' = [worker EXCEPT ![t].pc = "run"]
  /\ UNCHANGED <<now, docs, supervision>>

(* execute_bounded_task: issue the lease, start the thread, wait.          *)
Dispatch(t) ==
  /\ NextCall(t) /\ ~tripped[AgentOf[t]]
  /\ now + Deadline + Grace < MaxTime
  /\ ledger' = [ledger EXCEPT ![t] = [kinds |-> {"issued"},
                                      expires_at |-> now + Deadline + Grace]]
  /\ call' = [call EXCEPT ![t] = [pc |-> "waiting", deadline_at |-> now + Deadline]]
  /\ worker' = [worker EXCEPT ![t].pc = "run"]
  /\ UNCHANGED <<now, docs, supervision>>

(* Mutant of TimeOut: the lease is left to expire.                         *)
TimeOutUnfenced(t) ==
  /\ call[t].pc = "waiting" /\ now >= call[t].deadline_at /\ Alive(t)
  /\ call' = [call EXCEPT ![t].pc = "late"]
  /\ UNCHANGED <<now, ledger, worker, docs, supervision>>

(* Mutant of TimeOut: the task runs inline, its time is compared after it. *)
TimeOutAfterwards(t) ==
  /\ call[t].pc = "waiting" /\ now >= call[t].deadline_at /\ ~Alive(t)
  /\ ledger' = Appended(t, "revoked")
  /\ call' = [call EXCEPT ![t].pc = "late"]
  /\ UNCHANGED <<now, worker, docs, supervision>>

(* The join timed out and the worker is alive: the lease goes first.  The  *)
(* code tests is_alive and then revokes; a worker that ends between the    *)
(* two no longer reads the ledger, so the two are one step here.           *)
TimeOut(t) ==
  /\ call[t].pc = "waiting" /\ now >= call[t].deadline_at /\ Alive(t)
  /\ ledger' = Appended(t, "revoked")
  /\ call' = [call EXCEPT ![t].pc = "late"]
  /\ UNCHANGED <<now, worker, docs, supervision>>

(* The worker ended with an error: the lease goes first here too.          *)
NoticeError(t) ==
  /\ call[t].pc = "waiting" /\ worker[t].pc = "error"
  /\ ledger' = Appended(t, "revoked")
  /\ call' = [call EXCEPT ![t].pc = "failed"]
  /\ UNCHANGED <<now, worker, docs, supervision>>

(* Then the failure is recorded and raised.                                *)
Raise(t) ==
  /\ call[t].pc \in {"late", "failed"}
  /\ LET reason == IF call[t].pc = "late" THEN "deadline_exceeded" ELSE "error"
     IN handle_failure(t, reason) /\ Return(t, reason)
  /\ call' = [call EXCEPT ![t].pc = "returned"]
  /\ UNCHANGED <<now, ledger, worker, docs>>

(* Mutant of Succeed: the count is not cleared.                            *)
SucceedKeepsCount(t) ==
  /\ call[t].pc = "waiting" /\ worker[t].pc = "finished"
  /\ ledger' = Appended(t, "released")
  /\ call' = [call EXCEPT ![t].pc = "returned"]
  /\ Return(t, "ok")
  /\ UNCHANGED <<now, worker, docs, failures, tripped, abandoned>>

(* The worker ended in time: release the lease, clear the count.           *)
Succeed(t) ==
  /\ call[t].pc = "waiting" /\ worker[t].pc = "finished"
  /\ ledger' = Appended(t, "released")
  /\ call' = [call EXCEPT ![t].pc = "returned"]
  /\ failures' = [failures EXCEPT ![AgentOf[t]] = 0]
  /\ Return(t, "ok")
  /\ UNCHANGED <<now, worker, docs, tripped, abandoned>>

(* The wait is broken off by an exception in the supervisor's own thread   *)
(* (an interrupt): the worker is a daemon thread and lives on, and nobody  *)
(* is left to revoke its lease.                                            *)
Die(t) ==
  /\ call[t].pc = "waiting"
  /\ call' = [call EXCEPT ![t].pc = "dead"]
  /\ UNCHANGED <<now, ledger, worker, docs, supervision>>

(* execute_bounded_subprocess: no lease and no breaker; a child that fails *)
(* or outlives the deadline is a failure, one that exits with 0 is not.    *)
RunSubprocess(t) ==
  /\ NextCall(t)
  /\ call' = [call EXCEPT ![t].pc = "returned"]
  /\ \/ Return(t, "ok") /\ UNCHANGED <<failures, tripped, abandoned>>
     \/ \E r \in {"error", "deadline_exceeded"} : handle_failure(t, r) /\ Return(t, r)
  /\ UNCHANGED <<now, ledger, worker, docs>>

-----------------------------------------------------------------------------
(* Mutant of CheckLease: no ledger is attached to the gateway.             *)
CheckNothing(t) ==
  /\ worker[t].pc = "run" /\ worker[t].todo # {}
  /\ worker' = [worker EXCEPT ![t].pc = "checked"]
  /\ UNCHANGED <<now, ledger, call, docs, supervision>>

(* Mutant of CheckLease: the worker takes a denial for a finished write.   *)
CheckSwallowed(t) ==
  /\ worker[t].pc = "run" /\ worker[t].todo # {}
  /\ \E d \in worker[t].todo :
       worker' = IF status(t) = "active" THEN [worker EXCEPT ![t].pc = "checked"]
                 ELSE [worker EXCEPT ![t].todo = @ \ {d}]
  /\ UNCHANGED <<now, ledger, call, docs, supervision>>

(* A worker's write, in two steps.  The gateway checks the lease: a write  *)
(* under a lease that is not active is denied, and the denial ends the     *)
(* worker.                                                                 *)
CheckLease(t) ==
  /\ worker[t].pc = "run" /\ worker[t].todo # {}
  /\ worker' = [worker EXCEPT ![t].pc = IF status(t) = "active" THEN "checked"
                                                                ELSE "error"]
  /\ UNCHANGED <<now, ledger, call, docs, supervision>>

(* Then the create runs; an id that exists is left as it is.               *)
Create(t) ==
  /\ worker[t].pc = "checked"
  /\ \E d \in worker[t].todo :
       /\ docs' = IF \E e \in docs : e.doc = d THEN docs
                  ELSE docs \cup {[doc |-> d, by |-> t]}
       /\ worker' = [worker EXCEPT ![t] = [pc |-> "run", todo |-> @.todo \ {d}]]
  /\ UNCHANGED <<now, ledger, call, supervision>>

Finish(t) ==
  /\ worker[t].pc = "run" /\ worker[t].todo = {}
  /\ worker' = [worker EXCEPT ![t].pc = "finished"]
  /\ UNCHANGED <<now, ledger, call, docs, supervision>>

(* Anything the worker calls may fail.                                     *)
Fault(t) ==
  /\ Alive(t)
  /\ worker' = [worker EXCEPT ![t].pc = "error"]
  /\ UNCHANGED <<now, ledger, call, docs, supervision>>

Tick ==
  /\ now < MaxTime
  /\ now' = now + 1
  /\ UNCHANGED <<ledger, call, worker, docs, supervision>>

Supervise(t) == TimeOut(t) \/ NoticeError(t) \/ Raise(t) \/ Succeed(t)

Next ==
  \/ \E t \in Tasks : \/ Refuse(t) \/ Dispatch(t) \/ Supervise(t) \/ Die(t)
                      \/ RunSubprocess(t)
                      \/ CheckLease(t) \/ Create(t) \/ Finish(t) \/ Fault(t)
  \/ Tick

Spec == Init /\ [][Next]_vars

(* Time passes and the supervisor acts.  Nothing is assumed of a worker.   *)
FairSpec == /\ Spec
            /\ WF_vars(Tick)
            /\ \A t \in Tasks : WF_vars(Supervise(t))

-----------------------------------------------------------------------------
Answered(t, results) ==
  \E i \in DOMAIN answers : answers[i].task = t /\ answers[i].result \in results

TypeOK ==
  /\ now \in Nat
  /\ ledger \in [Tasks -> Lease]
  /\ call \in [Tasks -> Call]
  /\ worker \in [Tasks -> Worker]
  /\ docs \subseteq [doc : Docs, by : Tasks]
  /\ failures \in [Agents -> Nat] /\ tripped \in [Agents -> BOOLEAN]
  /\ abandoned \in Seq([task : Tasks, reason : Result])
  /\ answers \in Seq([task : Tasks, result : Result])

(* The fence is there exactly as long as it must be.  "By the time the     *)
(* caller learns of the timeout, the ledger already refuses the lease": no *)
(* call has returned while its worker could still pass the gateway's       *)
(* check.  And a worker that still has its time is never refused by it.    *)
FenceFollowsCall ==
  \A t \in Tasks :
    /\ Answered(t, Result) => status(t) # "active"
    /\ (worker[t].pc = "run" /\ call[t].pc = "waiting" /\ now <= call[t].deadline_at)
         => status(t) = "active"

(* What the fence gives the standby: once a call has returned, its worker  *)
(* begins no write; one that had passed the check may still land, but it   *)
(* replaces no document that is there already (`.create()`, not `.set()`). *)
LateWorkerHarmless ==
  [][/\ \A t \in Tasks : worker[t].pc # "checked" /\ worker'[t].pc = "checked"
                           => ~Answered(t, Result)
     /\ docs \subseteq docs']_vars

(* at: for each TaskAbandoned event, the answer that told its caller.  The  *)
(* events are those of the failures, all of them, in their order.          *)
TellsOf(at) ==
  /\ \A i, j \in DOMAIN abandoned : i < j => at[i] < at[j]
  /\ \A i \in DOMAIN abandoned :
       answers[at[i]] = [task |-> abandoned[i].task, result |-> abandoned[i].reason]
  /\ \A k \in DOMAIN answers :
       answers[k].result # "ok" <=> \E i \in DOMAIN abandoned : at[i] = k

(* What the supervisor says of a task is so: one that is reported done has *)
(* all its documents in the store, and every call that failed, and no      *)
(* other, left its TaskAbandoned event before the caller was told.         *)
OutcomesAreTrue ==
  /\ \A t \in Tasks : Answered(t, {"ok"}) /\ worker[t].pc # "none" =>
       \A d \in WritesOf[t] : \E e \in docs : e.doc = d
  /\ \E at \in [DOMAIN abandoned -> DOMAIN answers] : TellsOf(at)

(* The failures of agent a among the first k answers that still count: a   *)
(* supervised task that went well clears the earlier ones, a subprocess    *)
(* that went well does not.                                                *)
Clears(a, j) == /\ AgentOf[answers[j].task] = a /\ answers[j].result = "ok"
                /\ worker[answers[j].task].pc # "none"

FailuresUpTo(a, k) ==
  {i \in 1..k : /\ AgentOf[answers[i].task] = a
                /\ answers[i].result \in {"error", "deadline_exceeded"}
                /\ \A j \in (i + 1)..k : ~Clears(a, j)}

TrippedBy(a, k) ==
  \E j \in 0..k : Cardinality(FailuresUpTo(a, j)) >= FailureThreshold

(* The circuit breaker over any sequence of supervised tasks, subprocesses  *)
(* and refusals of several agents: what is counted is the failures since   *)
(* the agent's last good task, the breaker is open once that count has     *)
(* reached the threshold, and stays open; a call is refused only then, and *)
(* from then on no task of the agent is run.                               *)
BreakerCountsFailures ==
  /\ \A a \in Agents :
       /\ failures[a] = Cardinality(FailuresUpTo(a, Len(answers)))
       /\ tripped[a] <=> TrippedBy(a, Len(answers))
  /\ \A k \in DOMAIN answers :
       LET t == answers[k].task
       IN /\ answers[k].result = "circuit_breaker_tripped"
               => TrippedBy(AgentOf[t], k - 1)
          /\ worker[t].pc # "none" => ~TrippedBy(AgentOf[t], k - 1)

(* A stalled agent is detected without its cooperation: the caller is      *)
(* answered although no step of the worker is assumed.                     *)
CallerIsAnswered ==
  \A t \in Tasks : InCall(t) ~> (call[t].pc \in {"returned", "dead"})

(* Every lease ends, also when the supervisor that would revoke it died.   *)
EveryLeaseEnds ==
  \A t \in Tasks : (status(t) = "active") ~> (status(t) # "active")

-----------------------------------------------------------------------------
(* "An abandoned worker cannot commit": a document lands although the call *)
(* of the worker that created it has already returned as abandoned.        *)
AbandonedCannotCommit ==
  [][\A d \in docs' \ docs : ~Answered(d.by, {"deadline_exceeded"})]_vars
=============================================================================
