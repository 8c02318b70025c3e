----------------------- MODULE SupervisedWrites_proofs -----------------------
(***************************************************************************)
(* What TLAPS proves of SupervisedWrites, for every number of tasks and    *)
(* agents, every deadline and grace period, and workers that may stall     *)
(* anywhere and for ever.                                                  *)
(***************************************************************************)
EXTENDS SupervisedWrites, FiniteSetTheorems, TLAPS

(* The constants every proof below assumes, as one formula.                *)
LEMMA Constants == SupervisionAssumption
  BY SupervisionAssumed

-----------------------------------------------------------------------------
(* The inductive invariant. *)

(* The lease of a call, wherever the call is: none before it, one that is  *)
(* good until the deadline and the grace period while it is awaited, and a *)
(* terminal event, or no lease at all, before the caller is answered.      *)
LeaseOf(t) ==
  /\ call[t].pc = "new" => ledger[t].kinds = {} /\ worker[t].pc = "none"
  /\ call[t].pc = "waiting" =>
       /\ ledger[t].kinds = {"issued"}
       /\ ledger[t].expires_at = call[t].deadline_at + Grace
  /\ call[t].pc \in {"late", "failed"} => "revoked" \in ledger[t].kinds
  /\ call[t].pc = "returned" => \/ ledger[t].kinds = {}
                                \/ "revoked" \in ledger[t].kinds
                                \/ "released" \in ledger[t].kinds
  /\ Answered(t, Result) => call[t].pc = "returned"

(* A worker has created what is no longer to do, and one that finished has *)
(* nothing left; a call answered "ok" had a worker that finished, or none. *)
WorkOf(t) ==
  /\ \A d \in WritesOf[t] : d \in worker[t].todo \/ \E e \in docs : e.doc = d
  /\ worker[t].todo \subseteq WritesOf[t]
  /\ worker[t].pc = "finished" => worker[t].todo = {}
  /\ Answered(t, {"ok"}) => worker[t].pc \in {"none", "finished"}

TaskInv == \A t \in Tasks : LeaseOf(t) /\ WorkOf(t)

EventsInv == \E at \in [DOMAIN abandoned -> DOMAIN answers] : TellsOf(at)

IInv == TypeOK /\ TaskInv /\ EventsInv

-----------------------------------------------------------------------------
(* What the calls have answered, and the events that go with it. *)

LEMMA AnswerAdded ==
  ASSUME answers \in Seq([task : Tasks, result : Result]),
         NEW t \in Tasks, NEW result \in Result, Return(t, result)
  PROVE  /\ answers' \in Seq([task : Tasks, result : Result])
         /\ Len(answers') = Len(answers) + 1
         /\ answers'[Len(answers')] = [task |-> t, result |-> result]
         /\ \A i \in DOMAIN answers : answers'[i] = answers[i]
         /\ DOMAIN answers' = DOMAIN answers \cup {Len(answers')}
<1>1. answers' = Append(answers, [task |-> t, result |-> result])
  BY DEF Return
<1>2. /\ answers' \in Seq([task : Tasks, result : Result])
      /\ Len(answers') = Len(answers) + 1
      /\ answers'[Len(answers')] = [task |-> t, result |-> result]
      /\ \A i \in DOMAIN answers : answers'[i] = answers[i]
  BY <1>1
<1>3. /\ DOMAIN answers = 1..Len(answers) /\ DOMAIN answers' = 1..Len(answers')
      /\ Len(answers) \in Nat
  BY <1>2
<1>4. DOMAIN answers' = DOMAIN answers \cup {Len(answers')}
  BY <1>2, <1>3
<1> QED
  BY <1>2, <1>4

LEMMA AnsweredAdded ==
  ASSUME answers \in Seq([task : Tasks, result : Result]),
         NEW t \in Tasks, NEW result \in Result, Return(t, result),
         NEW s \in Tasks, NEW results
  PROVE  Answered(s, results)' <=> Answered(s, results) \/ (s = t /\ result \in results)
<1>1. PICK n : /\ DOMAIN answers' = DOMAIN answers \cup {n}
               /\ answers'[n].task = t /\ answers'[n].result = result
               /\ \A i \in DOMAIN answers : answers'[i] = answers[i]
  <2>1. DOMAIN answers' = DOMAIN answers \cup {Len(answers')}
    BY AnswerAdded
  <2>2. answers'[Len(answers')] = [task |-> t, result |-> result]
    BY AnswerAdded
  <2>3. \A i \in DOMAIN answers : answers'[i] = answers[i]
    BY AnswerAdded
  <2>4. answers'[Len(answers')].task = t /\ answers'[Len(answers')].result = result
    BY <2>2
  <2> QED
    BY <2>1, <2>3, <2>4
<1> QED
  BY <1>1 DEF Answered

LEMMA EventAdded ==
  ASSUME abandoned \in Seq([task : Tasks, reason : Result]),
         NEW t \in Tasks, NEW reason \in Result,
         abandoned' = Append(abandoned, [task |-> t, reason |-> reason])
  PROVE  /\ abandoned' \in Seq([task : Tasks, reason : Result])
         /\ Len(abandoned') = Len(abandoned) + 1
         /\ abandoned'[Len(abandoned')] = [task |-> t, reason |-> reason]
         /\ \A i \in DOMAIN abandoned : abandoned'[i] = abandoned[i]
  OBVIOUS

(* A call that ends well leaves no event.                                  *)
LEMMA SuccessTold ==
  ASSUME TypeOK, EventsInv, NEW t \in Tasks, Return(t, "ok"), UNCHANGED abandoned
  PROVE  EventsInv'
<1>1. PICK at \in [DOMAIN abandoned -> DOMAIN answers] : TellsOf(at)
  BY DEF EventsInv
<1>2. /\ Len(answers') = Len(answers) + 1 /\ Len(answers) \in Nat
      /\ answers'[Len(answers')] = [task |-> t, result |-> "ok"]
      /\ \A i \in DOMAIN answers : answers'[i] = answers[i]
      /\ DOMAIN answers = 1..Len(answers) /\ DOMAIN answers' = 1..Len(answers')
  <2>1. "ok" \in Result
    BY DEF Result
  <2> QED
    BY <2>1, AnswerAdded DEF TypeOK
<1>3. at \in [DOMAIN abandoned' -> DOMAIN answers']
  BY <1>2
<1>4. TellsOf(at)'
  BY <1>1, <1>2 DEF TellsOf
<1> QED
  BY <1>3, <1>4 DEF EventsInv

(* A call that fails leaves one, and its answer is the last there is.      *)
LEMMA FailureTold ==
  ASSUME TypeOK, EventsInv, NEW t \in Tasks, NEW reason \in Result \ {"ok"},
         Return(t, reason),
         abandoned' = Append(abandoned, [task |-> t, reason |-> reason])
  PROVE  EventsInv'
<1>1. PICK at \in [DOMAIN abandoned -> DOMAIN answers] : TellsOf(at)
  BY DEF EventsInv
<1>2. /\ Len(answers') = Len(answers) + 1 /\ Len(answers) \in Nat
      /\ answers'[Len(answers')] = [task |-> t, result |-> reason]
      /\ \A i \in DOMAIN answers : answers'[i] = answers[i]
      /\ DOMAIN answers = 1..Len(answers) /\ DOMAIN answers' = 1..Len(answers')
  BY AnswerAdded DEF TypeOK
<1>3. /\ Len(abandoned') = Len(abandoned) + 1 /\ Len(abandoned) \in Nat
      /\ abandoned'[Len(abandoned')] = [task |-> t, reason |-> reason]
      /\ \A i \in DOMAIN abandoned : abandoned'[i] = abandoned[i]
      /\ DOMAIN abandoned = 1..Len(abandoned) /\ DOMAIN abandoned' = 1..Len(abandoned')
  BY EventAdded DEF TypeOK
<1>4. PICK at2 \in [DOMAIN abandoned' -> DOMAIN answers'] :
        /\ at2[Len(abandoned')] = Len(answers')
        /\ \A i \in DOMAIN abandoned : at2[i] = at[i]
  <2> DEFINE f == [i \in DOMAIN abandoned' |-> IF i = Len(abandoned') THEN Len(answers')
                                               ELSE at[i]]
  <2>1. f \in [DOMAIN abandoned' -> DOMAIN answers']
    BY <1>2, <1>3
  <2>2. /\ f[Len(abandoned')] = Len(answers')
        /\ \A i \in DOMAIN abandoned : f[i] = at[i]
    BY <1>3
  <2> QED
    BY <2>1, <2>2
<1>5. \A i \in DOMAIN abandoned : at[i] \in DOMAIN answers
  OBVIOUS
<1>6. \A i, j \in DOMAIN abandoned' : i < j => at2[i] < at2[j]
  BY <1>1, <1>2, <1>3, <1>4, <1>5 DEF TellsOf
<1>7. \A i \in DOMAIN abandoned' :
        answers'[at2[i]] = [task |-> abandoned'[i].task, result |-> abandoned'[i].reason]
  BY <1>1, <1>2, <1>3, <1>4, <1>5 DEF TellsOf
<1>8. ASSUME NEW k \in DOMAIN answers'
      PROVE  answers'[k].result # "ok" <=> \E i \in DOMAIN abandoned' : at2[i] = k
  <2>1. CASE k = Len(answers')
    <3>1. Len(abandoned') \in DOMAIN abandoned' /\ at2[Len(abandoned')] = k
      BY <1>3, <1>4, <2>1
    <3>2. answers'[k].result # "ok"
      BY <1>2, <2>1
    <3> QED
      BY <3>1, <3>2
  <2>2. CASE k # Len(answers')
    <3>1. k \in DOMAIN answers /\ answers'[k] = answers[k]
      BY <1>2, <2>2
    <3>2. (\E i \in DOMAIN abandoned' : at2[i] = k) <=> \E i \in DOMAIN abandoned : at[i] = k
      BY <1>3, <1>4, <2>2
    <3> QED
      BY <1>1, <3>1, <3>2 DEF TellsOf
  <2> QED
    BY <2>1, <2>2
<1>9. TellsOf(at2)'
  BY <1>6, <1>7, <1>8 DEF TellsOf
<1> QED
  BY <1>4, <1>9 DEF EventsInv

-----------------------------------------------------------------------------
(* The steps. *)

(* A step that does not touch a task's lease, call, worker or answer, and  *)
(* removes no document, leaves what is said of the task as it is.          *)
LEMMA OthersStay ==
  ASSUME TaskInv, NEW s \in Tasks,
         ledger'[s] = ledger[s], call'[s] = call[s], worker'[s] = worker[s],
         docs \subseteq docs',
         \A results : Answered(s, results)' => Answered(s, results)
  PROVE  LeaseOf(s)' /\ WorkOf(s)'
  BY DEF TaskInv, LeaseOf, WorkOf

LEMMA FailureTyped ==
  ASSUME TypeOK, NEW t \in Tasks, NEW reason \in Result, handle_failure(t, reason)
  PROVE  /\ failures' \in [Agents -> Nat] /\ tripped' \in [Agents -> BOOLEAN]
         /\ abandoned' = Append(abandoned, [task |-> t, reason |-> reason])
         /\ abandoned' \in Seq([task : Tasks, reason : Result])
<1>1. AgentOf[t] \in Agents /\ FailureThreshold \in Nat
  BY Constants DEF SupervisionAssumption
<1>2. abandoned' = Append(abandoned, [task |-> t, reason |-> reason])
  BY DEF handle_failure
<1>3. failures' = [failures EXCEPT ![AgentOf[t]] = @ + 1]
  BY DEF handle_failure
<1>4. tripped' = [tripped EXCEPT ![AgentOf[t]] =
                    @ \/ failures[AgentOf[t]] + 1 >= FailureThreshold]
  BY DEF handle_failure
<1>5. failures' \in [Agents -> Nat]
  BY <1>1, <1>3 DEF TypeOK
<1>6. tripped' \in [Agents -> BOOLEAN]
  BY <1>4 DEF TypeOK
<1> QED
  BY <1>2, <1>5, <1>6, EventAdded DEF TypeOK

LEMMA InvInit == Init => IInv
<1> SUFFICES ASSUME Init PROVE IInv
  OBVIOUS
<1> USE DEF Init
<1>1. TypeOK
  BY Constants DEF TypeOK, SupervisionAssumption, Lease, Call, Worker
<1>2. ASSUME NEW t \in Tasks, NEW results PROVE ~Answered(t, results)
  <2>1. DOMAIN answers = {}
    OBVIOUS
  <2> QED
    BY <2>1 DEF Answered
<1>3. TaskInv
  BY <1>2 DEF TaskInv, LeaseOf, WorkOf
<1>4. EventsInv
  <2> DEFINE at == [i \in {} |-> 0]
  <2>1. DOMAIN abandoned = {} /\ DOMAIN answers = {}
    OBVIOUS
  <2>2. at \in [DOMAIN abandoned -> DOMAIN answers]
    BY <2>1
  <2>3. TellsOf(at)
    BY <2>1 DEF TellsOf
  <2> QED
    BY <2>2, <2>3 DEF EventsInv
<1> QED
  BY <1>1, <1>3, <1>4 DEF IInv

LEMMA RefuseInv ==
  ASSUME IInv, NEW t \in Tasks, Refuse(t)
  PROVE  IInv'
<1> USE DEF IInv
<1>1. /\ call[t].pc = "new" /\ call' = [call EXCEPT ![t].pc = "returned"]
      /\ abandoned' = Append(abandoned, [task |-> t, reason |-> "circuit_breaker_tripped"])
      /\ Return(t, "circuit_breaker_tripped")
      /\ UNCHANGED <<now, ledger, worker, docs, failures, tripped>>
  BY DEF Refuse, NextCall
<1>2. "circuit_breaker_tripped" \in Result \ {"ok"}
  BY DEF Result
<1>3. EventsInv'
  BY <1>1, <1>2, FailureTold
<1>4. TypeOK'
  BY <1>1, <1>2, AnswerAdded, EventAdded DEF TypeOK, Call
<1>5. \A results : \A s \in Tasks : Answered(s, results)' <=>
        Answered(s, results) \/ (s = t /\ "circuit_breaker_tripped" \in results)
  BY <1>1, <1>2, AnsweredAdded DEF TypeOK
<1>6. ASSUME NEW s \in Tasks, s # t PROVE LeaseOf(s)' /\ WorkOf(s)'
  BY <1>1, <1>5, <1>6, OthersStay DEF TypeOK
<1>7. LeaseOf(t)' /\ WorkOf(t)'
  BY <1>1, <1>5 DEF TaskInv, LeaseOf, WorkOf, TypeOK, Call
<1> QED
  BY <1>3, <1>4, <1>6, <1>7 DEF TaskInv

LEMMA DispatchInv ==
  ASSUME IInv, NEW t \in Tasks, Dispatch(t)
  PROVE  IInv'
<1> USE DEF IInv
<1>1. /\ call[t].pc = "new"
      /\ ledger' = [ledger EXCEPT ![t] = [kinds |-> {"issued"},
                                          expires_at |-> now + Deadline + Grace]]
      /\ call' = [call EXCEPT ![t] = [pc |-> "waiting", deadline_at |-> now + Deadline]]
      /\ worker' = [worker EXCEPT ![t].pc = "run"]
      /\ UNCHANGED <<now, docs, failures, tripped, abandoned, answers>>
  BY DEF Dispatch, NextCall, supervision
<1>2. Deadline \in Nat /\ Grace \in Nat
  BY Constants DEF SupervisionAssumption
<1>3. EventsInv'
  BY <1>1 DEF EventsInv, TellsOf
<1>4. TypeOK'
  <2>1. ledger' \in [Tasks -> Lease] /\ call' \in [Tasks -> Call]
    BY <1>1, <1>2 DEF TypeOK, Lease, Call
  <2>2. worker' \in [Tasks -> Worker]
    BY <1>1 DEF TypeOK, Worker
  <2> QED
    BY <1>1, <2>1, <2>2 DEF TypeOK
<1>5. \A results : \A s \in Tasks : Answered(s, results)' <=> Answered(s, results)
  BY <1>1 DEF Answered
<1>6. ASSUME NEW s \in Tasks, s # t PROVE LeaseOf(s)' /\ WorkOf(s)'
  BY <1>1, <1>5, <1>6, OthersStay DEF TypeOK
<1>7. /\ ledger'[t] = [kinds |-> {"issued"}, expires_at |-> now + Deadline + Grace]
      /\ call'[t] = [pc |-> "waiting", deadline_at |-> now + Deadline]
      /\ worker'[t].pc = "run" /\ worker'[t].todo = worker[t].todo
  BY <1>1 DEF TypeOK, Worker
<1>8. ~Answered(t, Result)
  BY <1>1 DEF TaskInv, LeaseOf
<1>9. ~Answered(t, {"ok"})
  BY <1>8 DEF Answered, Result
<1>10. LeaseOf(t)'
  BY <1>2, <1>5, <1>7, <1>8 DEF LeaseOf, TypeOK
<1>11. WorkOf(t)'
  BY <1>1, <1>5, <1>7, <1>9 DEF TaskInv, WorkOf
<1> QED
  BY <1>3, <1>4, <1>6, <1>10, <1>11 DEF TaskInv

(* The two ways the supervisor sees a call fail: the lease is revoked      *)
(* first, and nobody has been told.                                        *)
LEMMA RevokeInv ==
  ASSUME IInv, NEW t \in Tasks, TimeOut(t) \/ NoticeError(t)
  PROVE  IInv'
<1> USE DEF IInv
<1>1. PICK pc \in {"late", "failed"} :
        /\ call[t].pc = "waiting" /\ call' = [call EXCEPT ![t].pc = pc]
        /\ ledger' = [ledger EXCEPT ![t].kinds = @ \cup {"revoked"}]
        /\ UNCHANGED <<now, worker, docs, failures, tripped, abandoned, answers>>
  BY DEF TimeOut, NoticeError, Appended, supervision
<1>2. EventsInv'
  BY <1>1 DEF EventsInv, TellsOf
<1>3. TypeOK'
  <2>1. ledger' \in [Tasks -> Lease]
    <3>1. ledger[t] \in Lease
      BY DEF TypeOK
    <3>2. [ledger[t] EXCEPT !.kinds = @ \cup {"revoked"}] \in Lease
      BY <3>1 DEF Lease
    <3> QED
      BY <1>1, <3>2 DEF TypeOK
  <2>2. call' \in [Tasks -> Call]
    BY <1>1 DEF TypeOK, Call
  <2> QED
    BY <1>1, <2>1, <2>2 DEF TypeOK
<1>4. \A results : \A s \in Tasks : Answered(s, results)' <=> Answered(s, results)
  BY <1>1 DEF Answered
<1>5. ASSUME NEW s \in Tasks, s # t PROVE LeaseOf(s)' /\ WorkOf(s)'
  BY <1>1, <1>4, <1>5, OthersStay DEF TypeOK
<1>6. "revoked" \in ledger'[t].kinds /\ call'[t].pc = pc
  BY <1>1 DEF TypeOK, Lease, Call
<1>7. LeaseOf(t)' /\ WorkOf(t)'
  BY <1>1, <1>4, <1>6 DEF TaskInv, LeaseOf, WorkOf
<1> QED
  BY <1>2, <1>3, <1>5, <1>7 DEF TaskInv

LEMMA RaiseInv ==
  ASSUME IInv, NEW t \in Tasks, Raise(t)
  PROVE  IInv'
<1> USE DEF IInv
<1>1. PICK reason \in {"deadline_exceeded", "error"} :
        handle_failure(t, reason) /\ Return(t, reason)
  BY DEF Raise
<1>2. /\ call[t].pc \in {"late", "failed"}
      /\ call' = [call EXCEPT ![t].pc = "returned"]
      /\ UNCHANGED <<now, ledger, worker, docs>>
  BY DEF Raise
<1>3. reason \in Result \ {"ok"}
  BY DEF Result
<1>4. /\ failures' \in [Agents -> Nat] /\ tripped' \in [Agents -> BOOLEAN]
      /\ abandoned' = Append(abandoned, [task |-> t, reason |-> reason])
      /\ abandoned' \in Seq([task : Tasks, reason : Result])
  BY <1>1, <1>3, FailureTyped
<1>5. EventsInv'
  BY <1>1, <1>3, <1>4, FailureTold
<1>6. TypeOK'
  <2>1. call' \in [Tasks -> Call]
    BY <1>2 DEF TypeOK, Call
  <2>2. answers' \in Seq([task : Tasks, result : Result])
    BY <1>1, <1>3, AnswerAdded DEF TypeOK
  <2> QED
    BY <1>2, <1>4, <2>1, <2>2 DEF TypeOK
<1>7. \A results : \A s \in Tasks : Answered(s, results)' <=>
        Answered(s, results) \/ (s = t /\ reason \in results)
  BY <1>1, <1>3, AnsweredAdded DEF TypeOK
<1>8. ASSUME NEW s \in Tasks, s # t PROVE LeaseOf(s)' /\ WorkOf(s)'
  BY <1>2, <1>7, <1>8, OthersStay DEF TypeOK
<1>9. call'[t].pc = "returned"
  BY <1>2 DEF TypeOK, Call
<1>10. LeaseOf(t)' /\ WorkOf(t)'
  BY <1>2, <1>3, <1>7, <1>9 DEF TaskInv, LeaseOf, WorkOf
<1> QED
  BY <1>5, <1>6, <1>8, <1>10 DEF TaskInv

LEMMA SucceedInv ==
  ASSUME IInv, NEW t \in Tasks, Succeed(t)
  PROVE  IInv'
<1> USE DEF IInv
<1>1. /\ call[t].pc = "waiting" /\ worker[t].pc = "finished"
      /\ ledger' = [ledger EXCEPT ![t].kinds = @ \cup {"released"}]
      /\ call' = [call EXCEPT ![t].pc = "returned"]
      /\ failures' = [failures EXCEPT ![AgentOf[t]] = 0]
      /\ Return(t, "ok")
      /\ UNCHANGED <<now, worker, docs, tripped, abandoned>>
  BY DEF Succeed, Appended
<1>2. "ok" \in Result
  BY DEF Result
<1>3. EventsInv'
  BY <1>1, SuccessTold
<1>4. TypeOK'
  <2>1. ledger' \in [Tasks -> Lease]
    <3>1. ledger[t] \in Lease
      BY DEF TypeOK
    <3>2. [ledger[t] EXCEPT !.kinds = @ \cup {"released"}] \in Lease
      BY <3>1 DEF Lease
    <3> QED
      BY <1>1, <3>2 DEF TypeOK
  <2>2. call' \in [Tasks -> Call]
    BY <1>1 DEF TypeOK, Call
  <2>3. failures' \in [Agents -> Nat]
    BY <1>1 DEF TypeOK
  <2>4. answers' \in Seq([task : Tasks, result : Result])
    BY <1>1, <1>2, AnswerAdded DEF TypeOK
  <2> QED
    BY <1>1, <2>1, <2>2, <2>3, <2>4 DEF TypeOK
<1>5. \A results : \A s \in Tasks : Answered(s, results)' <=>
        Answered(s, results) \/ (s = t /\ "ok" \in results)
  BY <1>1, <1>2, AnsweredAdded DEF TypeOK
<1>6. ASSUME NEW s \in Tasks, s # t PROVE LeaseOf(s)' /\ WorkOf(s)'
  BY <1>1, <1>5, <1>6, OthersStay DEF TypeOK
<1>7. "released" \in ledger'[t].kinds /\ call'[t].pc = "returned"
  BY <1>1 DEF TypeOK, Lease, Call
<1>8. LeaseOf(t)' /\ WorkOf(t)'
  BY <1>1, <1>7 DEF TaskInv, LeaseOf, WorkOf
<1> QED
  BY <1>3, <1>4, <1>6, <1>8 DEF TaskInv

LEMMA DieInv ==
  ASSUME IInv, NEW t \in Tasks, Die(t)
  PROVE  IInv'
<1> USE DEF IInv
<1>1. /\ call[t].pc = "waiting" /\ call' = [call EXCEPT ![t].pc = "dead"]
      /\ UNCHANGED <<now, ledger, worker, docs, failures, tripped, abandoned, answers>>
  BY DEF Die, supervision
<1>2. EventsInv'
  BY <1>1 DEF EventsInv, TellsOf
<1>3. TypeOK'
  BY <1>1 DEF TypeOK, Call
<1>4. \A results : \A s \in Tasks : Answered(s, results)' <=> Answered(s, results)
  BY <1>1 DEF Answered
<1>5. ASSUME NEW s \in Tasks, s # t PROVE LeaseOf(s)' /\ WorkOf(s)'
  BY <1>1, <1>4, <1>5, OthersStay DEF TypeOK
<1>6. call'[t].pc = "dead"
  BY <1>1 DEF TypeOK, Call
<1>7. LeaseOf(t)' /\ WorkOf(t)'
  BY <1>1, <1>4, <1>6 DEF TaskInv, LeaseOf, WorkOf
<1> QED
  BY <1>2, <1>3, <1>5, <1>7 DEF TaskInv

LEMMA SubprocessInv ==
  ASSUME IInv, NEW t \in Tasks, RunSubprocess(t)
  PROVE  IInv'
<1> USE DEF IInv
<1>1. /\ call[t].pc = "new" /\ call' = [call EXCEPT ![t].pc = "returned"]
      /\ UNCHANGED <<now, ledger, worker, docs>>
  BY DEF RunSubprocess, NextCall
<1>2. PICK result \in {"ok", "error", "deadline_exceeded"} :
        /\ Return(t, result)
        /\ IF result = "ok" THEN UNCHANGED <<failures, tripped, abandoned>>
                           ELSE handle_failure(t, result)
  BY DEF RunSubprocess
<1>3. result \in Result
  BY DEF Result
<1>4. /\ EventsInv'
      /\ failures' \in [Agents -> Nat] /\ tripped' \in [Agents -> BOOLEAN]
      /\ abandoned' \in Seq([task : Tasks, reason : Result])
  <2>1. CASE result = "ok"
    BY <1>2, <2>1, SuccessTold DEF TypeOK
  <2>2. CASE result # "ok"
    BY <1>2, <1>3, <2>2, FailureTyped, FailureTold
  <2> QED
    BY <2>1, <2>2
<1>5. TypeOK'
  <2>1. call' \in [Tasks -> Call]
    BY <1>1 DEF TypeOK, Call
  <2>2. answers' \in Seq([task : Tasks, result : Result])
    BY <1>2, <1>3, AnswerAdded DEF TypeOK
  <2> QED
    BY <1>1, <1>4, <2>1, <2>2 DEF TypeOK
<1>6. \A results : \A s \in Tasks : Answered(s, results)' <=>
        Answered(s, results) \/ (s = t /\ result \in results)
  BY <1>2, <1>3, AnsweredAdded DEF TypeOK
<1>7. ASSUME NEW s \in Tasks, s # t PROVE LeaseOf(s)' /\ WorkOf(s)'
  BY <1>1, <1>6, <1>7, OthersStay DEF TypeOK
<1>8. call'[t].pc = "returned" /\ worker'[t].pc = "none" /\ ledger'[t].kinds = {}
  BY <1>1 DEF TypeOK, Call, TaskInv, LeaseOf
<1>9. LeaseOf(t)' /\ WorkOf(t)'
  BY <1>1, <1>8 DEF TaskInv, LeaseOf, WorkOf
<1> QED
  BY <1>4, <1>5, <1>7, <1>9 DEF TaskInv

(* A step of a worker, at any time, whether or not its call is over: it    *)
(* may stop before it finished, and what it no longer has to do is done.   *)
LEMMA WorkerInv ==
  ASSUME IInv, NEW t \in Tasks,
         CheckLease(t) \/ Create(t) \/ Finish(t) \/ Fault(t)
  PROVE  IInv'
<1> USE DEF IInv
<1>1. /\ worker[t].pc \in {"run", "checked"}
      /\ UNCHANGED <<now, ledger, call, failures, tripped, abandoned, answers>>
  BY DEF CheckLease, Create, Finish, Fault, Alive, supervision
<1>2. PICK w \in Worker :
        /\ worker' = [worker EXCEPT ![t] = w]
        /\ w.todo \subseteq worker[t].todo
        /\ w.pc = "finished" => w.todo = {}
        /\ \A d \in worker[t].todo : d \in w.todo \/ \E e \in docs' : e.doc = d
        /\ docs \subseteq docs' /\ docs' \subseteq [doc : Docs, by : Tasks]
  <2>1. worker[t] \in Worker
    BY DEF TypeOK
  <2>2. CASE CheckLease(t)
    <3>1. PICK pc \in {"checked", "error"} : worker' = [worker EXCEPT ![t].pc = pc]
      BY <2>2 DEF CheckLease
    <3>2. [worker[t] EXCEPT !.pc = pc] \in Worker
      BY <2>1 DEF Worker
    <3> QED
      BY <2>1, <2>2, <3>1, <3>2 DEF CheckLease, Worker, TypeOK
  <2>3. CASE Create(t)
    <3>1. PICK d \in worker[t].todo :
            /\ docs' = IF \E e \in docs : e.doc = d THEN docs
                       ELSE docs \cup {[doc |-> d, by |-> t]}
            /\ worker' = [worker EXCEPT ![t] = [pc |-> "run", todo |-> @.todo \ {d}]]
      BY <2>3 DEF Create
    <3>2. d \in Docs /\ [pc |-> "run", todo |-> worker[t].todo \ {d}] \in Worker
      BY <2>1 DEF Worker
    <3>3. \E e \in docs' : e.doc = d
      <4>1. CASE \E e \in docs : e.doc = d
        BY <3>1, <4>1
      <4>2. CASE ~\E e \in docs : e.doc = d
        <5>1. [doc |-> d, by |-> t] \in docs' /\ [doc |-> d, by |-> t].doc = d
          BY <3>1, <4>2
        <5> QED
          BY <5>1
      <4> QED
        BY <4>1, <4>2
    <3>4. docs \subseteq docs' /\ docs' \subseteq [doc : Docs, by : Tasks]
      BY <3>1, <3>2 DEF TypeOK
    <3> QED
      BY <3>1, <3>2, <3>3, <3>4 DEF TypeOK
  <2>4. CASE Finish(t)
    <3>1. [worker[t] EXCEPT !.pc = "finished"] \in Worker
      BY <2>1 DEF Worker
    <3> QED
      BY <2>1, <2>4, <3>1 DEF Finish, Worker, TypeOK
  <2>5. CASE Fault(t)
    <3>1. [worker[t] EXCEPT !.pc = "error"] \in Worker
      BY <2>1 DEF Worker
    <3> QED
      BY <2>1, <2>5, <3>1 DEF Fault, Worker, TypeOK
  <2> QED
    BY <2>2, <2>3, <2>4, <2>5
<1>3. EventsInv'
  BY <1>1 DEF EventsInv, TellsOf
<1>4. TypeOK'
  BY <1>1, <1>2 DEF TypeOK
<1>5. \A results : \A s \in Tasks : Answered(s, results)' <=> Answered(s, results)
  BY <1>1 DEF Answered
<1>6. ASSUME NEW s \in Tasks, s # t PROVE LeaseOf(s)' /\ WorkOf(s)'
  BY <1>1, <1>2, <1>5, <1>6, OthersStay DEF TypeOK
<1>7. call[t].pc # "new" /\ ~Answered(t, {"ok"}) /\ worker'[t] = w
  BY <1>1, <1>2 DEF TaskInv, LeaseOf, WorkOf, TypeOK
<1>8. LeaseOf(t)'
  BY <1>1, <1>5, <1>7 DEF TaskInv, LeaseOf
<1>9. WorkOf(t)'
  BY <1>1, <1>2, <1>5, <1>7 DEF TaskInv, WorkOf
<1> QED
  BY <1>3, <1>4, <1>6, <1>8, <1>9 DEF TaskInv

LEMMA InvStep == IInv /\ [Next]_vars => IInv'
<1> SUFFICES ASSUME IInv, [Next]_vars PROVE IInv'
  OBVIOUS
<1>1. CASE Tick \/ UNCHANGED vars
  <2>1. UNCHANGED <<ledger, call, worker, docs, failures, tripped, abandoned, answers>>
    BY <1>1 DEF Tick, vars, supervision
  <2>2. now' \in Nat
    BY <1>1 DEF Tick, vars, IInv, TypeOK
  <2>3. TypeOK' /\ EventsInv'
    BY <2>1, <2>2 DEF IInv, TypeOK, EventsInv, TellsOf
  <2>4. TaskInv'
    BY <2>1, OthersStay DEF IInv, TaskInv, Answered
  <2> QED
    BY <2>3, <2>4 DEF IInv
<1> QED
  BY <1>1, RefuseInv, DispatchInv, RevokeInv, RaiseInv, SucceedInv, DieInv, SubprocessInv,
     WorkerInv DEF Next, Supervise

-----------------------------------------------------------------------------
(* The properties. *)

LEMMA Invariance == Spec => []IInv
<1>1. IInv /\ [Next]_vars => IInv'
  BY InvStep
<1> QED
  BY InvInit, <1>1, PTL DEF Spec

(* The supervisor's variables keep their types.                            *)
THEOREM SupervisionTypes == Spec => []TypeOK
<1>1. IInv => TypeOK
  BY DEF IInv
<1> QED
  BY <1>1, Invariance, PTL

LEMMA Fenced == IInv => FenceFollowsCall
<1> SUFFICES ASSUME IInv, NEW t \in Tasks
             PROVE  /\ Answered(t, Result) => status(t) # "active"
                    /\ (worker[t].pc = "run" /\ call[t].pc = "waiting"
                          /\ now <= call[t].deadline_at) => status(t) = "active"
  BY DEF FenceFollowsCall
<1>1. LeaseOf(t) /\ call[t] \in Call /\ now \in Nat /\ Grace \in Nat
  BY Constants DEF IInv, TaskInv, TypeOK, SupervisionAssumption
<1>2. ASSUME Answered(t, Result) PROVE status(t) # "active"
  BY <1>1, <1>2 DEF LeaseOf, status
<1>3. ASSUME call[t].pc = "waiting", now <= call[t].deadline_at PROVE status(t) = "active"
  <2>1. ledger[t].kinds = {"issued"} /\ ~(now > ledger[t].expires_at)
    BY <1>1, <1>3 DEF LeaseOf, Call
  <2> QED
    BY <2>1 DEF status
<1> QED
  BY <1>2, <1>3

(* The fence closes when its call is over and not before: the ledger       *)
(* refuses the lease of every call that was answered, and grants the lease *)
(* of every worker that still has its time (LeaseOf).                      *)
THEOREM FenceIsExact == Spec => []FenceFollowsCall
  BY Fenced, Invariance, PTL

(* What is said of a task is so: a task reported done has its documents in *)
(* the store (WorkOf), and the TaskAbandoned events are those of the       *)
(* failures, each once and in the order told (EventsInv).                  *)
THEOREM OutcomesStayTrue == Spec => []OutcomesAreTrue
<1>1. IInv => OutcomesAreTrue
  BY DEF IInv, TaskInv, WorkOf, EventsInv, OutcomesAreTrue
<1> QED
  BY <1>1, Invariance, PTL

(* A worker whose call was answered begins no write, and no step of any    *)
(* worker replaces or removes a document that is there.                    *)
THEOREM LateWorkersAreHarmless == Spec => LateWorkerHarmless
<1> DEFINE Harmless == /\ \A t \in Tasks :
                            worker[t].pc # "checked" /\ worker'[t].pc = "checked"
                              => ~Answered(t, Result)
                       /\ docs \subseteq docs'
<1>1. ASSUME IInv, [Next]_vars PROVE Harmless
  <2>1. docs \subseteq docs'
    BY <1>1 DEF Next, Supervise, Refuse, Dispatch, TimeOut, NoticeError, Raise, Succeed, Die,
                RunSubprocess, CheckLease, Create, Finish, Fault, Tick, vars
  <2>2. ASSUME NEW t \in Tasks, worker[t].pc # "checked", worker'[t].pc = "checked"
        PROVE  status(t) = "active"
    <3>1. worker[t] \in Worker /\ worker' # worker /\ worker \in [Tasks -> Worker]
      BY <1>1, <2>2 DEF IInv, TypeOK
    <3>2. PICK s \in Tasks : \/ Dispatch(s) \/ CheckLease(s) \/ Create(s) \/ Finish(s)
                             \/ Fault(s)
      BY <1>1, <3>1 DEF Next, Supervise, Refuse, TimeOut, NoticeError, Raise, Succeed, Die,
                        RunSubprocess, Tick, vars
    <3>3. s = t
      BY <2>2, <3>1, <3>2 DEF Dispatch, CheckLease, Create, Finish, Fault
    <3>4. CheckLease(t)
      BY <2>2, <3>1, <3>2, <3>3 DEF Dispatch, Create, Finish, Fault, Worker
    <3> QED
      BY <2>2, <3>1, <3>4 DEF CheckLease, Worker
  <2> QED
    BY <1>1, <2>1, <2>2, Fenced DEF FenceFollowsCall
<1>2. IInv /\ [Next]_vars => [Harmless]_vars
  BY <1>1
<1> QED
  BY <1>2, Invariance, PTL DEF Spec, LateWorkerHarmless

-----------------------------------------------------------------------------
(* The circuit breaker.  The supervisor is in one call at a time, for an   *)
(* agent whose breaker is closed, so no count changes under a call.        *)

OneCallInv ==
  /\ \A s, t \in Tasks : InCall(s) /\ InCall(t) => s = t
  /\ \A t \in Tasks : InCall(t) => ~tripped[AgentOf[t]] /\ worker[t].pc # "none"

BreakerInv == OneCallInv /\ BreakerCountsFailures

(* The counted failures are finitely many.                                 *)
LEMMA FailuresFinite ==
  ASSUME NEW a, NEW k \in Nat
  PROVE  IsFiniteSet(FailuresUpTo(a, k))
<1>1. IsFiniteSet(1..k)
  BY FS_Interval
<1> QED
  BY <1>1, FS_Subset DEF FailuresUpTo

(* What was answered stays so, and so does whether it had a worker: the    *)
(* counts over the earlier answers are what they were.                     *)
LEMMA EarlierCounts ==
  ASSUME NEW n \in Nat, n <= Len(answers), DOMAIN answers = 1..Len(answers),
         Len(answers) \in Nat,
         \A i \in DOMAIN answers :
           /\ answers'[i] = answers[i]
           /\ worker'[answers[i].task].pc = "none"
                <=> worker[answers[i].task].pc = "none"
  PROVE  /\ \A a : \A k \in 0..n : FailuresUpTo(a, k)' = FailuresUpTo(a, k)
         /\ \A a : \A k \in 0..n : TrippedBy(a, k)' <=> TrippedBy(a, k)
<1>1. \A a : \A j \in 1..n : Clears(a, j)' <=> Clears(a, j)
  BY DEF Clears
<1>2. ASSUME NEW a, NEW k \in 0..n PROVE FailuresUpTo(a, k)' = FailuresUpTo(a, k)
  <2>1. \A i \in 1..k : \A j \in (i + 1)..k : Clears(a, j)' <=> Clears(a, j)
    BY <1>1
  <2> QED
    BY <2>1 DEF FailuresUpTo
<1>3. ASSUME NEW a, NEW k \in 0..n PROVE TrippedBy(a, k)' <=> TrippedBy(a, k)
  <2>1. \A j \in 0..k : FailuresUpTo(a, j)' = FailuresUpTo(a, j)
    BY <1>2
  <2> QED
    BY <2>1 DEF TrippedBy
<1> QED
  BY <1>2, <1>3

(* A step of no call's end: nothing is answered, nothing is counted.       *)
LEMMA NothingCounted ==
  ASSUME TypeOK, BreakerCountsFailures, UNCHANGED <<failures, tripped, answers>>,
         \A i \in DOMAIN answers :
           worker'[answers[i].task].pc = "none"
             <=> worker[answers[i].task].pc = "none"
  PROVE  BreakerCountsFailures'
<1>1. DOMAIN answers = 1..Len(answers) /\ Len(answers) \in Nat
  BY DEF TypeOK
<1>2. /\ \A a : \A k \in 0..Len(answers) : FailuresUpTo(a, k)' = FailuresUpTo(a, k)
      /\ \A a : \A k \in 0..Len(answers) : TrippedBy(a, k)' <=> TrippedBy(a, k)
  BY <1>1, EarlierCounts
<1>3. PICK n \in Nat : n = Len(answers) /\ n = Len(answers')
  BY <1>1
<1>4. ASSUME NEW a \in Agents
      PROVE  /\ failures'[a] = Cardinality(FailuresUpTo(a, n)')
             /\ tripped'[a] <=> TrippedBy(a, n)'
  <2>1. FailuresUpTo(a, n)' = FailuresUpTo(a, n) /\ (TrippedBy(a, n)' <=> TrippedBy(a, n))
    BY <1>2, <1>3
  <2> QED
    BY <1>3, <2>1 DEF BreakerCountsFailures
<1>5. ASSUME NEW k \in DOMAIN answers, NEW s, s = answers[k].task
      PROVE  /\ answers[k].result = "circuit_breaker_tripped"
                  => TrippedBy(AgentOf[s], k - 1)'
             /\ worker'[s].pc # "none" => ~TrippedBy(AgentOf[s], k - 1)'
  <2>1. k - 1 \in 0..Len(answers)
    BY <1>1
  <2> QED
    BY <1>2, <1>5, <2>1 DEF BreakerCountsFailures
<1> QED
  BY <1>3, <1>4, <1>5 DEF BreakerCountsFailures

(* An answer more, result r for task t: what it does to each agent's count *)
(* and breaker, and on what it was given.                                  *)
LEMMA OneCounted ==
  ASSUME IInv, BreakerCountsFailures, NEW t \in Tasks, NEW r \in Result,
         Return(t, r), UNCHANGED worker,
         failures' \in [Agents -> Nat], tripped' \in [Agents -> BOOLEAN],
         \A a \in Agents : a # AgentOf[t] =>
            failures'[a] = failures[a] /\ tripped'[a] = tripped[a],
         r \in {"error", "deadline_exceeded"} =>
            /\ failures'[AgentOf[t]] = failures[AgentOf[t]] + 1
            /\ tripped'[AgentOf[t]] <=>
                 \/ tripped[AgentOf[t]]
                 \/ failures[AgentOf[t]] + 1 >= FailureThreshold,
         r \notin {"error", "deadline_exceeded"} =>
            /\ tripped'[AgentOf[t]] = tripped[AgentOf[t]]
            /\ failures'[AgentOf[t]] =
                 IF r = "ok" /\ worker[t].pc # "none" THEN 0 ELSE failures[AgentOf[t]],
         r = "circuit_breaker_tripped" => tripped[AgentOf[t]],
         worker[t].pc # "none" => ~tripped[AgentOf[t]]
  PROVE  BreakerCountsFailures'
<1>0. PICK n \in Nat : n = Len(answers)
  BY DEF IInv, TypeOK
<1>1. /\ Len(answers) = n /\ DOMAIN answers = 1..n /\ DOMAIN answers' = 1..(n + 1)
      /\ Len(answers') = n + 1
      /\ answers'[n + 1].task = t /\ answers'[n + 1].result = r
      /\ \A i \in 1..n : answers'[i] = answers[i]
  <2>1. answers \in Seq([task : Tasks, result : Result])
    BY DEF IInv, TypeOK
  <2>2. answers' = Append(answers, [task |-> t, result |-> r])
    BY DEF Return
  <2> QED
    BY <1>0, <2>1, <2>2
<1>2. /\ \A a : \A k \in 0..n : FailuresUpTo(a, k)' = FailuresUpTo(a, k)
      /\ \A a : \A k \in 0..n : TrippedBy(a, k)' <=> TrippedBy(a, k)
  <2>1. /\ n <= Len(answers) /\ Len(answers) \in Nat
        /\ DOMAIN answers = 1..Len(answers)
    BY <1>1
  <2>2. \A i \in DOMAIN answers :
          /\ answers'[i] = answers[i]
          /\ worker'[answers[i].task].pc = "none"
               <=> worker[answers[i].task].pc = "none"
    BY <1>1
  <2> QED
    BY <2>1, <2>2, EarlierCounts
<1>3. FailureThreshold \in Nat \ {0} /\ AgentOf[t] \in Agents
  BY Constants DEF SupervisionAssumption
(* The failures that count after the new answer.                           *)
<1>4. ASSUME NEW a \in Agents
      PROVE  FailuresUpTo(a, n + 1)' =
               IF a = AgentOf[t] /\ r = "ok" /\ worker[t].pc # "none" THEN {}
               ELSE IF a = AgentOf[t] /\ r \in {"error", "deadline_exceeded"}
               THEN FailuresUpTo(a, n) \cup {n + 1}
               ELSE FailuresUpTo(a, n)
  <2>1. Clears(a, n + 1)' <=> a = AgentOf[t] /\ r = "ok" /\ worker[t].pc # "none"
    BY <1>1 DEF Clears
  <2>2. \A j \in 1..n : Clears(a, j)' <=> Clears(a, j)
    BY <1>1 DEF Clears
  <2>3. ASSUME NEW i \in 1..n
        PROVE  (\A j \in (i + 1)..(n + 1) : ~Clears(a, j)') <=>
                 (\A j \in (i + 1)..n : ~Clears(a, j)) /\ ~Clears(a, n + 1)'
    <3>1. (i + 1)..(n + 1) = ((i + 1)..n) \cup {n + 1}
      BY <1>1
    <3>2. \A j \in (i + 1)..n : Clears(a, j)' <=> Clears(a, j)
      BY <1>1, <2>2
    <3> QED
      BY <3>1, <3>2
  <2>4. ASSUME NEW i \in 1..n
        PROVE  i \in FailuresUpTo(a, n + 1)' <=>
                 i \in FailuresUpTo(a, n) /\ ~Clears(a, n + 1)'
    <3>1. i \in 1..(n + 1) /\ answers'[i] = answers[i]
      BY <1>1
    <3>2. i \in FailuresUpTo(a, n + 1)' <=>
            /\ AgentOf[answers[i].task] = a
            /\ answers[i].result \in {"error", "deadline_exceeded"}
            /\ (\A j \in (i + 1)..(n + 1) : ~Clears(a, j))'
      BY <3>1 DEF FailuresUpTo
    <3> QED
      BY <2>3, <3>2 DEF FailuresUpTo
  <2>5. n + 1 \in FailuresUpTo(a, n + 1)' <=>
          AgentOf[t] = a /\ r \in {"error", "deadline_exceeded"}
    <3>1. (n + 2)..(n + 1) = {}
      BY <1>1
    <3> QED
      BY <1>1, <3>1 DEF FailuresUpTo
  <2>6. FailuresUpTo(a, n + 1)' \subseteq 1..(n + 1) /\ FailuresUpTo(a, n) \subseteq 1..n
    BY DEF FailuresUpTo
  <2>7. 1..(n + 1) = (1..n) \cup {n + 1} /\ n + 1 \notin 1..n
    BY <1>1
  <2>8. FailuresUpTo(a, n + 1)' =
          {i \in FailuresUpTo(a, n) : ~Clears(a, n + 1)'}
            \cup {i \in {n + 1} : AgentOf[t] = a /\ r \in {"error", "deadline_exceeded"}}
    BY <2>4, <2>5, <2>6, <2>7
  <2>9. CASE a = AgentOf[t] /\ r = "ok" /\ worker[t].pc # "none"
    BY <2>1, <2>8, <2>9
  <2>10. CASE a = AgentOf[t] /\ r \in {"error", "deadline_exceeded"}
    BY <2>1, <2>8, <2>10
  <2>11. CASE /\ ~(a = AgentOf[t] /\ r = "ok" /\ worker[t].pc # "none")
              /\ ~(a = AgentOf[t] /\ r \in {"error", "deadline_exceeded"})
    BY <2>1, <2>8, <2>11
  <2> QED
    BY <2>9, <2>10, <2>11
<1>5. ASSUME NEW a \in Agents
      PROVE  /\ failures'[a] = Cardinality(FailuresUpTo(a, n + 1)')
             /\ tripped'[a] <=>
                  TrippedBy(a, n) \/ Cardinality(FailuresUpTo(a, n + 1)') >= FailureThreshold
  <2>1. /\ failures[a] = Cardinality(FailuresUpTo(a, n))
        /\ tripped[a] <=> TrippedBy(a, n)
        /\ failures[a] \in Nat
    BY <1>1 DEF BreakerCountsFailures, IInv, TypeOK
  <2>2. Cardinality(FailuresUpTo(a, n)) >= FailureThreshold => TrippedBy(a, n)
    BY <1>1 DEF TrippedBy
  <2>3. CASE a = AgentOf[t] /\ r = "ok" /\ worker[t].pc # "none"
    <3>1. Cardinality(FailuresUpTo(a, n + 1)') = 0
      BY <1>4, <2>3, FS_EmptySet
    <3> QED
      BY <1>3, <2>1, <2>3, <3>1
  <2>4. CASE a = AgentOf[t] /\ r \in {"error", "deadline_exceeded"}
    <3>1. FailuresUpTo(a, n + 1)' = FailuresUpTo(a, n) \cup {n + 1}
      BY <1>4, <2>4
    <3>2. IsFiniteSet(FailuresUpTo(a, n)) /\ n + 1 \notin FailuresUpTo(a, n)
      <4>1. FailuresUpTo(a, n) \subseteq 1..n /\ n + 1 \notin 1..n
        BY DEF FailuresUpTo
      <4> QED
        BY <4>1, FailuresFinite
    <3>3. Cardinality(FailuresUpTo(a, n + 1)') = failures[a] + 1
      BY <2>1, <3>1, <3>2, FS_AddElement
    <3> QED
      BY <2>1, <2>4, <3>3
  <2>5. CASE /\ ~(a = AgentOf[t] /\ r = "ok" /\ worker[t].pc # "none")
             /\ ~(a = AgentOf[t] /\ r \in {"error", "deadline_exceeded"})
    <3>1. FailuresUpTo(a, n + 1)' = FailuresUpTo(a, n)
      BY <1>4, <2>5
    <3>2. failures'[a] = failures[a] /\ tripped'[a] = tripped[a]
      BY <2>5
    <3> QED
      BY <2>1, <2>2, <3>1, <3>2
  <2> QED
    BY <2>3, <2>4, <2>5
<1>6. ASSUME NEW a \in Agents
      PROVE  TrippedBy(a, n + 1)' <=>
               TrippedBy(a, n) \/ Cardinality(FailuresUpTo(a, n + 1)') >= FailureThreshold
  <2>1. 0..(n + 1) = (0..n) \cup {n + 1}
    BY <1>1
  <2>2. \A j \in 0..n : FailuresUpTo(a, j)' = FailuresUpTo(a, j)
    BY <1>2
  <2> QED
    BY <2>1, <2>2 DEF TrippedBy
<1>7. ASSUME NEW k \in DOMAIN answers', NEW s, s = answers'[k].task
      PROVE  /\ answers'[k].result = "circuit_breaker_tripped"
                  => TrippedBy(AgentOf[s], k - 1)'
             /\ worker'[s].pc # "none" => ~TrippedBy(AgentOf[s], k - 1)'
  <2>1. CASE k = n + 1
    <3>1. TrippedBy(AgentOf[t], n)' <=> tripped[AgentOf[t]]
      BY <1>1, <1>2, <1>3 DEF BreakerCountsFailures
    <3>2. k - 1 = n /\ s = t
      BY <1>1, <1>7, <2>1
    <3> QED
      BY <1>1, <2>1, <3>1, <3>2
  <2>2. CASE k # n + 1
    <3>1. k \in DOMAIN answers /\ answers'[k] = answers[k] /\ k - 1 \in 0..n
      BY <1>1, <2>2
    <3> QED
      BY <1>2, <1>7, <3>1 DEF BreakerCountsFailures
  <2> QED
    BY <2>1, <2>2
<1> QED
  BY <1>1, <1>5, <1>6, <1>7 DEF BreakerCountsFailures

(* Whoever was answered is out of the call for good.                       *)
LEMMA AnsweredReturned ==
  ASSUME IInv, NEW i \in DOMAIN answers
  PROVE  answers[i].task \in Tasks /\ call[answers[i].task].pc = "returned"
<1>1. answers[i] \in [task : Tasks, result : Result]
  <2>1. answers \in Seq([task : Tasks, result : Result])
    BY DEF IInv, TypeOK
  <2>2. \A S : answers \in Seq(S) => answers[i] \in S
    OBVIOUS
  <2> QED
    BY <2>1, <2>2
<1>2. answers[i].task \in Tasks /\ answers[i].result \in Result
  BY <1>1
<1>3. Answered(answers[i].task, Result)
  BY <1>2 DEF Answered
<1> QED
  BY <1>2, <1>3 DEF IInv, TaskInv, LeaseOf

LEMMA BreakerInit == Init => BreakerInv
<1> SUFFICES ASSUME Init PROVE BreakerInv
  OBVIOUS
<1>1. OneCallInv
  BY DEF Init, OneCallInv, InCall
<1>2. Len(answers) = 0 /\ DOMAIN answers = {}
  BY DEF Init
<1>3. \A a : FailuresUpTo(a, 0) = {}
  BY DEF FailuresUpTo
<1>4. \A a : ~TrippedBy(a, 0)
  <2>1. FailureThreshold \in Nat \ {0} /\ Cardinality({}) = 0
    BY Constants, FS_EmptySet DEF SupervisionAssumption
  <2> QED
    BY <1>3, <2>1 DEF TrippedBy
<1>5. BreakerCountsFailures
  BY <1>2, <1>3, <1>4, FS_EmptySet DEF Init, BreakerCountsFailures
<1> QED
  BY <1>1, <1>5 DEF BreakerInv

(* A call that ends with a failure.                                        *)
LEMMA FailureCounted ==
  ASSUME IInv, BreakerCountsFailures, NEW t \in Tasks,
         NEW r \in {"error", "deadline_exceeded"},
         handle_failure(t, r), Return(t, r), UNCHANGED worker,
         worker[t].pc # "none" => ~tripped[AgentOf[t]]
  PROVE  BreakerCountsFailures'
<1>1. r \in Result /\ r # "circuit_breaker_tripped"
  BY DEF Result
<1>2. failures' \in [Agents -> Nat] /\ tripped' \in [Agents -> BOOLEAN]
  BY <1>1, FailureTyped DEF IInv
<1>3. AgentOf[t] \in Agents
  BY Constants DEF SupervisionAssumption
<1>4. /\ failures' = [failures EXCEPT ![AgentOf[t]] = @ + 1]
      /\ tripped' = [tripped EXCEPT ![AgentOf[t]] =
                       @ \/ failures[AgentOf[t]] + 1 >= FailureThreshold]
  BY DEF handle_failure
<1>5. failures \in [Agents -> Nat] /\ tripped \in [Agents -> BOOLEAN]
  BY DEF IInv, TypeOK
<1>6. \A a \in Agents : a # AgentOf[t] =>
        failures'[a] = failures[a] /\ tripped'[a] = tripped[a]
  BY <1>4, <1>5
<1>7. failures'[AgentOf[t]] = failures[AgentOf[t]] + 1
  BY <1>3, <1>4, <1>5
<1>8. tripped'[AgentOf[t]] <=>
        \/ tripped[AgentOf[t]]
        \/ failures[AgentOf[t]] + 1 >= FailureThreshold
  BY <1>3, <1>4, <1>5, Zenon
<1> QED
  BY <1>1, <1>2, <1>6, <1>7, <1>8, OneCounted

LEMMA BreakerStep == IInv /\ BreakerInv /\ [Next]_vars => BreakerInv'
<1> SUFFICES ASSUME IInv, BreakerInv, [Next]_vars PROVE BreakerInv'
  OBVIOUS
<1>T. /\ TypeOK /\ OneCallInv /\ BreakerCountsFailures
      /\ call \in [Tasks -> Call] /\ worker \in [Tasks -> Worker]
      /\ failures \in [Agents -> Nat] /\ tripped \in [Agents -> BOOLEAN]
  BY DEF IInv, TypeOK, BreakerInv
<1>A. \A t \in Tasks : AgentOf[t] \in Agents
  BY Constants DEF SupervisionAssumption
<1>1. ASSUME NEW t \in Tasks, Refuse(t) PROVE BreakerInv'
  <2>1. /\ call[t].pc = "new" /\ tripped[AgentOf[t]]
        /\ call' = [call EXCEPT ![t].pc = "returned"]
        /\ Return(t, "circuit_breaker_tripped")
        /\ UNCHANGED <<worker, failures, tripped>>
    BY <1>1 DEF Refuse, NextCall
  <2>2. worker[t].pc = "none"
    BY <2>1 DEF IInv, TaskInv, LeaseOf
  <2>3. BreakerCountsFailures'
    <3>1. "circuit_breaker_tripped" \in Result
      BY DEF Result
    <3> QED
      BY <1>T, <2>1, <2>2, <3>1, OneCounted
  <2>4. OneCallInv'
    BY <1>T, <2>1 DEF OneCallInv, InCall, Call
  <2> QED
    BY <2>3, <2>4 DEF BreakerInv
<1>2. ASSUME NEW t \in Tasks, Dispatch(t) PROVE BreakerInv'
  <2>1. /\ call[t].pc = "new" /\ ~tripped[AgentOf[t]]
        /\ \A s \in Tasks : ~InCall(s)
        /\ call' = [call EXCEPT ![t] = [pc |-> "waiting", deadline_at |-> now + Deadline]]
        /\ worker' = [worker EXCEPT ![t].pc = "run"]
        /\ UNCHANGED <<failures, tripped, answers>>
    BY <1>2 DEF Dispatch, NextCall, supervision
  <2>2. \A s \in Tasks \ {t} : call'[s] = call[s] /\ worker'[s] = worker[s]
    BY <1>T, <2>1
  <2>3. \A i \in DOMAIN answers :
          answers[i].task \in Tasks \ {t}
    BY <2>1, AnsweredReturned
  <2>4. BreakerCountsFailures'
    BY <1>T, <2>1, <2>2, <2>3, NothingCounted
  <2>5. worker'[t].pc = "run"
    BY <1>T, <2>1 DEF Worker
  <2>6. OneCallInv'
    BY <2>1, <2>2, <2>5 DEF OneCallInv, InCall
  <2> QED
    BY <2>4, <2>6 DEF BreakerInv
<1>3. ASSUME NEW t \in Tasks, TimeOut(t) \/ NoticeError(t) \/ Die(t) PROVE BreakerInv'
  <2>1. PICK pc \in {"late", "failed", "dead"} :
          /\ call[t].pc = "waiting" /\ call' = [call EXCEPT ![t].pc = pc]
          /\ UNCHANGED <<worker, failures, tripped, answers>>
    BY <1>3 DEF TimeOut, NoticeError, Die, supervision
  <2>2. BreakerCountsFailures'
    BY <1>T, <2>1, NothingCounted
  <2>3. \A s \in Tasks : InCall(s)' => InCall(s)
    BY <1>T, <2>1 DEF InCall, Call
  <2>4. OneCallInv'
    BY <1>T, <2>1, <2>3 DEF OneCallInv
  <2> QED
    BY <2>2, <2>4 DEF BreakerInv
<1>4. ASSUME NEW t \in Tasks, Raise(t) PROVE BreakerInv'
  <2>1. PICK r \in {"error", "deadline_exceeded"} : handle_failure(t, r) /\ Return(t, r)
    BY <1>4 DEF Raise
  <2>2. /\ InCall(t) /\ call' = [call EXCEPT ![t].pc = "returned"]
        /\ UNCHANGED worker
    BY <1>4 DEF Raise, InCall
  <2>3. ~tripped[AgentOf[t]]
    BY <1>T, <2>2 DEF OneCallInv
  <2>4. BreakerCountsFailures'
    BY <1>T, <2>1, <2>2, <2>3, FailureCounted
  <2>5. \A s \in Tasks : ~InCall(s)'
    <3>1. \A s \in Tasks \ {t} : ~InCall(s) /\ call'[s] = call[s]
      BY <1>T, <2>2 DEF OneCallInv
    <3>2. call'[t].pc = "returned"
      BY <1>T, <2>2 DEF Call
    <3> QED
      BY <3>1, <3>2 DEF InCall
  <2> QED
    BY <2>4, <2>5 DEF BreakerInv, OneCallInv
<1>5. ASSUME NEW t \in Tasks, Succeed(t) PROVE BreakerInv'
  <2>1. /\ InCall(t) /\ worker[t].pc = "finished"
        /\ call' = [call EXCEPT ![t].pc = "returned"]
        /\ failures' = [failures EXCEPT ![AgentOf[t]] = 0]
        /\ Return(t, "ok") /\ UNCHANGED <<worker, tripped>>
    BY <1>5 DEF Succeed, InCall
  <2>2. ~tripped[AgentOf[t]]
    BY <1>T, <2>1 DEF OneCallInv
  <2>3. BreakerCountsFailures'
    <3>1. "ok" \in Result
      BY DEF Result
    <3>2. /\ failures' \in [Agents -> Nat] /\ failures'[AgentOf[t]] = 0
          /\ \A a \in Agents : a # AgentOf[t] => failures'[a] = failures[a]
      BY <1>T, <1>A, <2>1
    <3> QED
      BY <1>T, <2>1, <2>2, <3>1, <3>2, OneCounted
  <2>4. \A s \in Tasks : ~InCall(s)'
    <3>1. \A s \in Tasks \ {t} : ~InCall(s) /\ call'[s] = call[s]
      BY <1>T, <2>1 DEF OneCallInv
    <3>2. call'[t].pc = "returned"
      BY <1>T, <2>1 DEF Call
    <3> QED
      BY <3>1, <3>2 DEF InCall
  <2> QED
    BY <2>3, <2>4 DEF BreakerInv, OneCallInv
<1>6. ASSUME NEW t \in Tasks, RunSubprocess(t) PROVE BreakerInv'
  <2>1. /\ call[t].pc = "new" /\ call' = [call EXCEPT ![t].pc = "returned"]
        /\ \A s \in Tasks : ~InCall(s)
        /\ UNCHANGED worker
    BY <1>6 DEF RunSubprocess, NextCall
  <2>2. worker[t].pc = "none"
    BY <2>1 DEF IInv, TaskInv, LeaseOf
  <2>3. ASSUME Return(t, "ok"), UNCHANGED <<failures, tripped>>
        PROVE  BreakerCountsFailures'
    <3>1. "ok" \in Result
      BY DEF Result
    <3> QED
      BY <1>T, <2>1, <2>2, <2>3, <3>1, OneCounted
  <2>4. ASSUME NEW r \in {"error", "deadline_exceeded"},
               handle_failure(t, r), Return(t, r)
        PROVE  BreakerCountsFailures'
    BY <1>T, <2>1, <2>2, <2>4, FailureCounted
  <2>5. \A s \in Tasks : ~InCall(s)'
    BY <1>T, <2>1 DEF InCall, Call
  <2>6. OneCallInv' /\ BreakerCountsFailures'
    <3>1. BreakerCountsFailures'
      BY <1>6, <2>3, <2>4 DEF RunSubprocess
    <3> QED
      BY <2>5, <3>1 DEF OneCallInv
  <2> QED
    BY <2>6 DEF BreakerInv
<1>7. ASSUME NEW t \in Tasks, CheckLease(t) \/ Create(t) \/ Finish(t) \/ Fault(t)
      PROVE  BreakerInv'
  <2>1. worker[t].pc # "none" /\ UNCHANGED <<call, failures, tripped, answers>>
    BY <1>7 DEF CheckLease, Create, Finish, Fault, Alive, supervision
  <2>2. /\ worker'[t].pc # "none"
        /\ \A s \in Tasks \ {t} : worker'[s] = worker[s]
    BY <1>7, <1>T DEF CheckLease, Create, Finish, Fault, Worker
  <2>3. \A i \in DOMAIN answers :
          worker'[answers[i].task].pc = "none" <=> worker[answers[i].task].pc = "none"
    BY <2>1, <2>2, AnsweredReturned
  <2>4. BreakerCountsFailures'
    BY <1>T, <2>1, <2>3, NothingCounted
  <2>5. OneCallInv'
    BY <1>T, <2>1, <2>2 DEF OneCallInv, InCall
  <2> QED
    BY <2>4, <2>5 DEF BreakerInv
<1>8. CASE Tick \/ UNCHANGED vars
  <2>1. UNCHANGED <<call, worker, failures, tripped, answers>>
    BY <1>8 DEF Tick, vars, supervision
  <2>2. BreakerCountsFailures'
    BY <1>T, <2>1, NothingCounted
  <2>3. OneCallInv'
    BY <1>T, <2>1 DEF OneCallInv, InCall
  <2> QED
    BY <2>2, <2>3 DEF BreakerInv
<1> QED
  BY <1>1, <1>2, <1>3, <1>4, <1>5, <1>6, <1>7, <1>8 DEF Next, Supervise

(* Over any sequence of supervised tasks, subprocesses and refusals of any *)
(* number of agents, the failure count is that of the failures since the   *)
(* agent's last good task, and the breaker opens at the threshold, never   *)
(* before, and refuses every later task (_handle_failure).                 *)
THEOREM BreakerIsExact == Spec => []BreakerCountsFailures
<1>1. Spec => [](IInv /\ BreakerInv)
  BY BreakerInit, BreakerStep, Invariance, PTL DEF Spec
<1>2. BreakerInv => BreakerCountsFailures
  BY DEF BreakerInv
<1> QED
  BY <1>1, <1>2, PTL
=============================================================================
