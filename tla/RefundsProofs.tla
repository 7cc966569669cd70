--------------------------- MODULE RefundsProofs ----------------------------
(***************************************************************************)
(* Proofs about Refunds and Returns for any number of orders, lines,       *)
(* refunds, requests and webhook deliveries: refundedCents stays within    *)
(* the total, is exactly what the claims not given back add up to, and     *)
(* therefore bounds the money that leaves; what fulfilment, a return and   *)
(* its refunds say of a line agrees, and its money goes back once.         *)
(***************************************************************************)
EXTENDS Returns, TallyProofs

-----------------------------------------------------------------------------
(***************************************************************************)
(* Sums of amounts                                                         *)
(***************************************************************************)
\* An order's total is a number.
LEMMA SubtotalType ==
    ASSUME NEW o \in Orders
    PROVE  Subtotal(o) \in Nat
<1> DEFINE S == {l \in Lines : OrderOf[l] = o}
<1>1. IsFiniteSet(S)
  BY RefundsAssumption, FS_Subset
<1>2. \A l \in S : Price[l] \in Nat
  BY RefundsAssumption
<1>3. IsFiniteSet(Tokens(S, Price))
  BY <1>1, <1>2, TokensFiniteRows
<1> QED
  BY <1>3, TallyType DEF Subtotal

\* The amounts of a set of refunds can be added up.
LEMMA AmountsFinite ==
    ASSUME NEW S \in SUBSET Refunds, NEW n, \A r \in S : n[r] \in Nat
    PROVE  IsFiniteSet(Tokens(S, n)) /\ Tally(S, n) \in Nat
<1>1. IsFiniteSet(S)
  BY RefundsAssumption, FS_Subset
<1>2. IsFiniteSet(Tokens(S, n))
  BY <1>1, TokensFiniteRows
<1> QED
  BY <1>2, TallyType

\* One refund more or less changes a sum by its amount.
LEMMA AmountsWithOne ==
    ASSUME NEW S \in SUBSET Refunds, NEW r \in Refunds \ S,
           NEW n, \A s \in S \cup {r} : n[s] \in Nat
    PROVE  Tally(S \cup {r}, n) = Tally(S, n) + n[r]
<1>1. IsFiniteSet(Tokens(S, n)) /\ IsFiniteSet(Tokens({r}, n))
  BY AmountsFinite
<1>2. Tally(S \cup {r}, n) = Tally(S, n) + Tally({r}, n)
  BY <1>1, TallySplit
<1>3. Tally({r}, n) = n[r]
  BY TallyOne
<1> QED
  BY <1>2, <1>3

-----------------------------------------------------------------------------
(***************************************************************************)
(* The invariant.  A job names the call it belongs to, and only a claimed  *)
(* call is recorded, sent, or given back.                                  *)
(***************************************************************************)
Claimed(r) == call[r].claimed

JobsFit ==
    /\ \A r \in Refunds : job[r] # Idle => job[r].refund = r
    /\ \A w \in Refunds \cup Hooks :
        Running(w) /\ job[w].task # "claim" => Claimed(job[w].refund)
    /\ \A w \in Refunds \cup Hooks :
        job[w].task = "claim" =>
            /\ w \in Refunds
            /\ call[w] # NoCall
            /\ ~Claimed(w)

OnlyClaimed ==
    \A r \in Refunds :
        refund[r].known \/ sent[r] # "none" \/ returned[r] > 0 => Claimed(r)

IInv == RefundTypeOK /\ JobsFit /\ OnlyClaimed /\ RefundedWithinTotal /\ HeadroomExact

\* What the invariant says of a claimed call.
LEMMA ClaimedIsCall ==
    ASSUME RefundTypeOK, NEW r \in Refunds, Claimed(r)
    PROVE  /\ call[r] \in Call
           /\ call[r].order \in Orders
           /\ call[r].amount \in Nat
           /\ Amounts[r] = call[r].amount
  BY DEF RefundTypeOK, Call, NoCall, Claimed, Amounts

\* An amount is a natural number.
LEMMA AmountsType ==
    ASSUME RefundTypeOK
    PROVE  \A r \in Refunds : Amounts[r] \in Nat
  BY DEF RefundTypeOK, Call, NoCall, Amounts

\* The invariant holds at the start.
LEMMA InitIInv == RefundInit => IInv
<1> SUFFICES ASSUME RefundInit PROVE IInv
  OBVIOUS
<1> USE DEF RefundInit
<1>1. RefundTypeOK
  BY DEF RefundTypeOK, Account, Row, RefundStatus
<1>2. JobsFit
  BY DEF JobsFit, Idle, Running
<1>3. OnlyClaimed
  BY DEF OnlyClaimed
<1>4. RefundedWithinTotal
  BY SubtotalType DEF RefundedWithinTotal
<1>5. HeadroomExact
  <2>1. \A o \in Orders : Kept(o) = {}
    BY DEF Kept, On, NoCall
  <2> QED
    BY <2>1, TallyEmpty DEF HeadroomExact
<1> QED
  BY <1>1, <1>2, <1>3, <1>4, <1>5 DEF IInv

-----------------------------------------------------------------------------
(***************************************************************************)
(* Jobs: what one statement of one job leaves true of all jobs.            *)
(***************************************************************************)
Workers == Refunds \cup Hooks
Tasks == CallTasks \cup HookTasks \cup SharedTasks \cup Ends

\* A worker that is not idle has a job, for a refund.
LEMMA JobIsJob ==
    ASSUME RefundTypeOK, NEW w \in Workers, job[w].task # "idle"
    PROVE  /\ job[w] # Idle
           /\ job[w] \in Job
           /\ job[w].refund \in Refunds
  BY DEF RefundTypeOK, Workers, Idle, Job

\* Job w goes on to task t.
LEMMA DoesOnly ==
    ASSUME RefundTypeOK, NEW w \in Workers, job[w].task # "idle",
           NEW t \in Tasks, Does(w, t)
    PROVE  /\ job' \in [Workers -> Job \cup {Idle}]
           /\ job'[w] = [task |-> t, refund |-> job[w].refund]
           /\ \A v \in Workers \ {w} : job'[v] = job[v]
<1>1. job[w] \in Job
  BY JobIsJob
<1>2. [job[w] EXCEPT !.task = t] = [task |-> t, refund |-> job[w].refund]
  BY <1>1 DEF Job
<1>3. [task |-> t, refund |-> job[w].refund] \in Job
  BY <1>1 DEF Job, Tasks
<1>4. job \in [Workers -> Job \cup {Idle}]
  BY DEF RefundTypeOK, Workers
<1>5. job' = [job EXCEPT ![w] = [task |-> t, refund |-> job[w].refund]]
  BY <1>2, <1>4 DEF Does
<1> QED
  BY <1>3, <1>4, <1>5

\* Job w is idle again.
LEMMA IdlesOnly ==
    ASSUME RefundTypeOK, NEW w \in Workers, job' = [job EXCEPT ![w] = Idle]
    PROVE  /\ job' \in [Workers -> Job \cup {Idle}]
           /\ job'[w] = Idle
           /\ \A v \in Workers \ {w} : job'[v] = job[v]
  BY DEF RefundTypeOK, Workers

\* What the step of a running job may leave behind.
Goes(w) ==
    /\ job' \in [Workers -> Job \cup {Idle}]
    /\ \A v \in Workers \ {w} : job'[v] = job[v]
    /\ \/ job'[w] = Idle
       \/ job'[w].refund = job[w].refund /\ job'[w].task # "claim" /\ job'[w] # Idle

\* A worker that takes up its next task goes on with its own refund.
LEMMA DoesGoes ==
    ASSUME RefundTypeOK, NEW w \in Workers, job[w].task # "idle",
           NEW t \in Tasks \ {"claim"}, Does(w, t)
    PROVE  Goes(w)
<1>1. /\ job' \in [Workers -> Job \cup {Idle}]
      /\ job'[w] = [task |-> t, refund |-> job[w].refund]
      /\ \A v \in Workers \ {w} : job'[v] = job[v]
  BY DoesOnly
<1>2. [task |-> t, refund |-> job[w].refund] # Idle
  BY DEF Tasks, CallTasks, HookTasks, SharedTasks, Ends, Idle
<1> QED
  BY <1>1, <1>2 DEF Goes

\* So does one that finishes.
LEMMA FinishGoes ==
    ASSUME RefundTypeOK, NEW w \in Workers, job[w].task # "idle", Finishes(w)
    PROVE  Goes(w)
<1>1. CASE w \in Hooks
  BY <1>1, IdlesOnly DEF Finishes, Goes
<1>2. CASE w \notin Hooks
  <2>1. Does(w, "returned")
    BY <1>2 DEF Finishes
  <2>2. "returned" \in Tasks \ {"claim"}
    BY DEF Tasks, Ends
  <2> QED
    BY <2>1, <2>2, DoesGoes
<1> QED
  BY <1>1, <1>2

\* A job that goes on after its claim, while no call changes, leaves jobs fit.
LEMMA GoesFits ==
    ASSUME RefundTypeOK, JobsFit, NEW w \in Workers, job[w].task # "idle",
           (Running(w) /\ job[w].task # "claim") \/ ~Running(w)',
           Goes(w), call' = call
    PROVE  JobsFit'
<1>1. ASSUME NEW r \in Refunds, job'[r] # Idle PROVE job'[r].refund = r
  BY <1>1, JobIsJob DEF JobsFit, Goes, Workers
<1>2. ASSUME NEW v \in Workers, Running(v)', job'[v].task # "claim"
      PROVE  Claimed(job[v].refund)'
  <2>1. CASE v = w
    BY <1>2, <2>1, JobIsJob DEF JobsFit, Goes, Workers, Running, Claimed
  <2>2. CASE v # w
    BY <1>2, <2>2 DEF JobsFit, Goes, Workers, Running, Claimed
  <2> QED
    BY <2>1, <2>2
<1>3. ASSUME NEW v \in Workers, job'[v].task = "claim"
      PROVE  v \in Refunds /\ call'[v] # NoCall /\ ~Claimed(v)'
  <2>1. v # w
    BY <1>3 DEF Goes, Idle
  <2> QED
    BY <1>3, <2>1 DEF JobsFit, Goes, Workers, Claimed
<1> QED
  BY <1>1, <1>2, <1>3 DEF JobsFit, Workers

\* The statements of a call or of a webhook delivery.
Runs(w) ==
    \/ w \in Refunds /\ CallStep(w)
    \/ w \in Hooks /\ HookStep(w)
    \/ SharedStep(w)
    \/ Crash(w)

\* A step of a worker is a step of one that has a job.
LEMMA StepsGo ==
    ASSUME RefundTypeOK, NEW w \in Workers, Runs(w)
    PROVE  /\ job[w].task # "idle"
           /\ job[w] \in Job
           /\ Goes(w)
<1> USE DEF Tasks, CallTasks, HookTasks, SharedTasks, Ends
<1>1. CASE Claim(w)
  BY <1>1, DoesGoes, JobIsJob DEF Claim
<1>2. CASE Record(w)
  BY <1>2, DoesGoes, JobIsJob DEF Record
<1>3. CASE Send(w)
  <2>1. PICK s \in {"none", "pending", "succeeded", "failed"}, heard \in BOOLEAN :
            Does(w, AfterSend(CASE ~heard -> "lost"
                                [] heard /\ s = "none" -> "failed"
                                [] OTHER -> s))
    BY <1>3 DEF Send
  <2>2. PICK t \in {"settle", "settlePending", "refuse", "threw"} : Does(w, t)
    BY <2>1 DEF AfterSend
  <2>3. job[w].task # "idle"
    BY <1>3 DEF Send
  <2> QED
    BY <2>2, <2>3, DoesGoes, JobIsJob
<1>4. CASE Settle(w)
  BY <1>4, DoesGoes, JobIsJob DEF Settle
<1>5. CASE SettleThrows(w)
  BY <1>5, DoesGoes, JobIsJob DEF SettleThrows
<1>6. CASE SettleHook(w)
  BY <1>6, DoesGoes, JobIsJob DEF SettleHook
<1>7. CASE Reread(w)
  BY <1>7, DoesGoes, FinishGoes, JobIsJob DEF Reread
<1>8. CASE Reopen(w)
  BY <1>8, FinishGoes, JobIsJob DEF Reopen
<1>9. CASE ReadSum(w)
  BY <1>9, DoesGoes, FinishGoes, JobIsJob DEF ReadSum
<1>10. CASE Mark(w)
  BY <1>10, FinishGoes, JobIsJob DEF Mark
<1>11. CASE Refuse(w)
  BY <1>11, DoesGoes, JobIsJob DEF Refuse
<1>12. CASE GiveBack(w)
  BY <1>12, DoesGoes, JobIsJob DEF GiveBack
<1>13. CASE Crash(w)
  <2>1. job[w].task # "idle"
    BY <1>13 DEF Crash, Running, RefundTypeOK, Workers, Job
  <2>2. CASE w \in Hooks
    BY <1>13, <2>1, <2>2, IdlesOnly, JobIsJob DEF Crash, Goes
  <2>3. CASE w \notin Hooks
    BY <1>13, <2>1, <2>3, DoesGoes, JobIsJob DEF Crash
  <2> QED
    BY <2>2, <2>3
<1> QED
  BY <1>1, <1>2, <1>3, <1>4, <1>5, <1>6, <1>7, <1>8, <1>9, <1>10, <1>11, <1>12, <1>13
     DEF Runs, CallStep, HookStep, SharedStep

\* Every step is a new call, a statement, an event's delivery, or the provider's.
Delivery ==
    \/ \E w \in Hooks, r \in Refunds, outcome \in {"succeeded", "failed"} :
        HookReads(w, r, outcome)
    \/ \E r \in Refunds, outcome \in {"succeeded", "failed"} : HookIgnores(r, outcome)

Asked ==
    \E r \in Refunds, o \in Orders, l \in Lines \cup {NoLine}, n \in Nat : Ask(r, o, l, n)

\* The steps, grouped by what they may change.
LEMMA Steps ==
    ASSUME RefundNext
    PROVE  \/ Asked
           \/ \E w \in Workers : Runs(w)
           \/ Delivery
           \/ \E r \in Refunds : ProviderDecides(r)
<1>1. CASE Asks
  <2>1. CASE \E r \in Refunds, l \in Lines : AskForLine(r, l)
    BY <2>1, RefundsAssumption DEF AskForLine, Asked
  <2>2. CASE \E r \in Refunds, o \in Orders, l \in Lines \cup {NoLine} :
                 \E n \in 1..Subtotal(o) : AskByHand(r, o, l, n)
    <3>1. PICK r \in Refunds, o \in Orders, l \in Lines \cup {NoLine} :
                 \E n \in 1..Subtotal(o) : AskByHand(r, o, l, n)
      BY <2>2
    <3>2. PICK n \in 1..Subtotal(o) : AskByHand(r, o, l, n)
      BY <3>1
    <3>3. n \in Nat
      BY SubtotalType
    <3> QED
      BY <3>2, <3>3 DEF AskByHand, Asked
  <2> QED
    BY <1>1, <2>1, <2>2 DEF Asks
<1>2. CASE RefundStep
  BY <1>2 DEF RefundStep, Runs, Delivery, Workers
<1> QED
  BY <1>1, <1>2 DEF RefundNext

-----------------------------------------------------------------------------
(***************************************************************************)
(* Each conjunct of the invariant is preserved.                            *)
(***************************************************************************)
LEMMA LessType ==
    ASSUME NEW a \in Nat, NEW b \in Nat
    PROVE  /\ Less(a, b) \in Nat
           /\ Less(a, b) <= a
           /\ b <= a => Less(a, b) = a - b
  BY DEF Less

\* A running job's call has been claimed, unless it is about to be.
LEMMA RunningCall ==
    ASSUME RefundTypeOK, JobsFit, NEW w \in Workers,
           job[w].task # "idle", job[w].task # "claim", job[w].task \notin Ends
    PROVE  /\ job[w].refund \in Refunds
           /\ Claimed(job[w].refund)
           /\ OrderId(job[w].refund) \in Orders
           /\ call[job[w].refund].amount \in Nat
<1>1. job[w] # Idle /\ job[w].refund \in Refunds
  BY JobIsJob
<1>2. Claimed(job[w].refund)
  BY <1>1 DEF JobsFit, Running, Workers
<1> QED
  BY <1>1, <1>2, ClaimedIsCall DEF OrderId

\* The call a job is about to claim has been made.
LEMMA ClaimingCall ==
    ASSUME RefundTypeOK, JobsFit, NEW r \in Workers, job[r].task = "claim"
    PROVE  /\ r \in Refunds
           /\ job[r].refund = r
           /\ ~Claimed(r)
           /\ call[r] \in Call
           /\ OrderId(r) \in Orders
           /\ call[r].amount \in Nat
<1>1. r \in Refunds /\ call[r] # NoCall /\ ~Claimed(r)
  BY DEF JobsFit, Workers
<1>2. job[r].refund = r
  BY <1>1 DEF JobsFit, Idle
<1>3. call[r] \in Call
  BY <1>1 DEF RefundTypeOK
<1> QED
  BY <1>1, <1>2, <1>3 DEF Call, OrderId

\* Types survive the statements of a job.
LEMMA RunsType ==
    ASSUME RefundTypeOK, JobsFit, NEW w \in Workers, Runs(w)
    PROVE  RefundTypeOK'
<1>j. job' \in [Refunds \cup Hooks -> Job \cup {Idle}]
  BY StepsGo DEF Goes, Workers
<1>1. CASE Claim(w)
  <2>1. /\ w \in Refunds
        /\ call[w] \in Call
        /\ OrderId(w) \in Orders
        /\ call[w].amount \in Nat
    BY <1>1, ClaimingCall DEF Claim
  <2>2. call' \in [Refunds -> Call \cup {NoCall}]
    <3>1. [call[w] EXCEPT !.claimed = TRUE] \in Call
      BY <2>1 DEF Call
    <3> QED
      BY <1>1, <2>1, <3>1 DEF Claim, RefundTypeOK
  <2>3. account' \in [Orders -> Account]
    BY <1>1, <2>1 DEF Claim, RefundTypeOK, Account
  <2> QED
    BY <1>j, <1>1, <2>2, <2>3 DEF Claim, RefundTypeOK
<1>2. CASE GiveBack(w)
  <2> DEFINE r == job[w].refund
  <2>1. r \in Refunds /\ OrderId(r) \in Orders /\ call[r].amount \in Nat
    BY <1>2, RunningCall DEF GiveBack, Ends
  <2>2. account[OrderId(r)].refunded \in Nat
    BY <2>1 DEF RefundTypeOK, Account
  <2>3. Less(account[OrderId(r)].refunded, call[r].amount) \in Nat
    BY <2>1, <2>2, LessType
  <2>4. account' \in [Orders -> Account]
    BY <1>2, <2>1, <2>3 DEF GiveBack, RefundTypeOK, Account
  <2>5. returned' \in [Refunds -> Nat]
    BY <1>2, <2>1 DEF GiveBack, RefundTypeOK
  <2> QED
    BY <1>j, <1>2, <2>4, <2>5 DEF GiveBack, RefundTypeOK
<1>3. CASE Mark(w) \/ Reopen(w)
  <2>1. account' \in [Orders -> Account]
    BY <1>3 DEF Mark, Reopen, RefundTypeOK, Account
  <2> QED
    BY <1>j, <1>3, <2>1 DEF Mark, Reopen, RefundTypeOK
<1>4. CASE Record(w) \/ Settle(w) \/ SettleHook(w) \/ Refuse(w)
  <2>1. refund' \in [Refunds -> Row]
    <3>1. ASSUME NEW r, NEW s \in RefundStatus, refund' = [refund EXCEPT ![r].status = s]
          PROVE  refund' \in [Refunds -> Row]
      BY <3>1 DEF RefundTypeOK, Row
    <3>2. CASE Settle(w)
      <4>1. [status |-> Settled(job[w].task), known |-> TRUE] \in Row
        BY DEF Settled, Row, RefundStatus
      <4> QED
        BY <3>2, <4>1 DEF Settle, RefundTypeOK
    <3> QED
      BY <1>4, <3>1, <3>2 DEF Record, SettleHook, Refuse, RefundStatus
  <2> QED
    BY <1>j, <1>4, <2>1 DEF Record, Settle, SettleHook, Refuse, RefundTypeOK
<1>5. CASE w \in Refunds /\ Send(w)
  <2>1. job[w].task = "send" /\ UNCHANGED <<account, call, refund, returned>>
    BY <1>5 DEF Send
  <2>2. PICK s \in {"none", "pending", "succeeded", "failed"}, heard \in BOOLEAN :
            /\ sent' = [sent EXCEPT ![w] = s]
            /\ IF s \in {"succeeded", "failed"} THEN Hears(s, w) ELSE UNCHANGED events
    BY <1>5 DEF Send
  <2>3. sent' \in [Refunds -> {"none", "pending", "succeeded", "failed"}]
    BY <2>2 DEF RefundTypeOK
  <2>5. events' \in SUBSET (Refunds \X {"succeeded", "failed"})
    BY <1>5, <2>2 DEF Hears, RefundTypeOK
  <2> QED
    BY <1>j, <2>1, <2>3, <2>5 DEF RefundTypeOK
<1>6. CASE SettleThrows(w) \/ ReadSum(w) \/ Reread(w) \/ Crash(w)
  BY <1>j, <1>6 DEF SettleThrows, ReadSum, Reread, Crash, RefundTypeOK
<1> QED
  BY <1>1, <1>2, <1>3, <1>4, <1>5, <1>6 DEF Runs, CallStep, HookStep, SharedStep

\* A worker always has the task its call has come to.
LEMMA RunsFits ==
    ASSUME RefundTypeOK, JobsFit, NEW w \in Workers, Runs(w)
    PROVE  JobsFit'
<1>1. job[w].task # "idle" /\ Goes(w)
  BY StepsGo
<1>2. CASE job[w].task = "claim" /\ ~Crash(w)
  <2>1. Claim(w)
    BY <1>2 DEF Runs, CallStep, HookStep, SharedStep, Record, Send, Settle, SettleThrows,
                SettleHook, Reread, Reopen, ReadSum, Mark, Refuse, GiveBack
  <2>2. w \in Refunds /\ job[w].refund = w /\ ~Claimed(w) /\ call[w] \in Call
    BY <1>2, ClaimingCall
  <2>3. CASE call' = call
    <3>1. ~Running(w)'
      <4>1. Does(w, "threw")
        <5>1. account[OrderId(w)].status = "PAID" /\ HasRoom(OrderId(w), call[w].amount)
                => call'[w].claimed
          <6>1. [call[w] EXCEPT !.claimed = TRUE].claimed
            BY <2>2 DEF Call
          <6> QED
            BY <2>1, <2>2, <6>1 DEF Claim, RefundTypeOK
        <5> QED
          BY <2>1, <2>2, <2>3, <5>1 DEF Claim, Claimed
      <4>2. job'[w].task = "threw"
        <5>1. "threw" \in Tasks
          BY DEF Tasks, Ends
        <5>2. job'[w] = [task |-> "threw", refund |-> job[w].refund]
          BY <1>1, <4>1, <5>1, DoesOnly
        <5> QED
          BY <5>2
      <4> QED
        BY <4>2 DEF Running, Ends
    <3> QED
      BY <1>1, <2>3, <3>1, GoesFits
  <2>4. CASE call' # call
    <3>1. call' = [call EXCEPT ![w].claimed = TRUE] /\ Does(w, "record")
      BY <2>1, <2>4 DEF Claim
    <3>2. /\ job'[w] = [task |-> "record", refund |-> w]
          /\ \A v \in Workers \ {w} : job'[v] = job[v]
      BY <1>1, <2>2, <3>1, DoesOnly DEF Tasks, CallTasks
    <3>3. \A r \in Refunds : Claimed(r) => Claimed(r)'
      BY <3>1 DEF RefundTypeOK, Claimed
    <3>4. Claimed(w)'
      BY <2>2, <3>1 DEF RefundTypeOK, Claimed
    <3>5. \A r \in Refunds \ {w} : call'[r] = call[r]
      BY <3>1 DEF RefundTypeOK
    <3>6. ASSUME NEW r \in Refunds, job'[r] # Idle PROVE job'[r].refund = r
      BY <3>2, <3>6 DEF JobsFit, Workers
    <3>7. ASSUME NEW v \in Workers, Running(v)', job'[v].task # "claim"
          PROVE  Claimed(job[v].refund)'
      <4>1. CASE v = w
        BY <3>2, <3>4, <4>1 DEF Claimed
      <4>2. CASE v # w
        <5>1. job'[v] = job[v] /\ Running(v)
          BY <3>2, <3>7, <4>2 DEF Running
        <5>2. job[v].refund \in Refunds
          BY <5>1 DEF Running, RefundTypeOK, Workers, Job
        <5>3. Claimed(job[v].refund)
          BY <3>7, <5>1 DEF JobsFit, Workers
        <5> QED
          BY <3>3, <5>1, <5>2, <5>3 DEF Claimed
      <4> QED
        BY <4>1, <4>2
    <3>8. ASSUME NEW v \in Workers, job'[v].task = "claim"
          PROVE  v \in Refunds /\ call'[v] # NoCall /\ ~Claimed(v)'
      BY <3>2, <3>5, <3>8 DEF JobsFit, Workers, Claimed
    <3> QED
      BY <3>6, <3>7, <3>8 DEF JobsFit, Workers
  <2> QED
    BY <2>3, <2>4
<1>3. CASE job[w].task # "claim" \/ Crash(w)
  <2>1. call' = call
    BY <1>3 DEF Runs, CallStep, HookStep, SharedStep, Claim, Record, Send, Settle,
       SettleThrows, SettleHook, Reread, Reopen, ReadSum, Mark, Refuse, GiveBack, Crash
  <2>2. CASE Running(w) /\ job[w].task # "claim"
    BY <1>1, <2>1, <2>2, GoesFits
  <2>3. CASE Crash(w)
    <3>1. CASE w \in Hooks
      <4>1. ~Running(w)'
        BY <1>1, <2>3, <3>1, IdlesOnly DEF Crash, Running
      <4> QED
        BY <1>1, <2>1, <4>1, GoesFits
    <3>2. CASE w \notin Hooks
      <4>1. ~Running(w)'
        <5>1. Does(w, "died") /\ "died" \in Tasks
          BY <2>3, <3>2 DEF Crash, Tasks, Ends
        <5>2. job'[w] = [task |-> "died", refund |-> job[w].refund]
          BY <1>1, <5>1, DoesOnly
        <5> QED
          BY <5>2 DEF Running, Ends
      <4> QED
        BY <1>1, <2>1, <4>1, GoesFits
    <3> QED
      BY <3>1, <3>2
  <2>4. CASE ~Running(w) /\ ~Crash(w)
    <3>1. job[w].task \in Ends
      BY <1>1, <2>4 DEF Running, Idle
    <3> QED
      BY <2>4, <3>1 DEF Ends, Runs, CallStep, HookStep, SharedStep, Claim, Record, Send, Settle,
         SettleThrows, SettleHook, Reread, Reopen, ReadSum, Mark, Refuse, GiveBack
  <2> QED
    BY <1>3, <2>2, <2>3, <2>4
<1> QED
  BY <1>2, <1>3

\* Only claimed calls are sent, known to the provider or given back.
LEMMA RunsClaimed ==
    ASSUME RefundTypeOK, JobsFit, OnlyClaimed, NEW w \in Workers, Runs(w)
    PROVE  OnlyClaimed'
<1>1. \A r \in Refunds : Claimed(r) => Claimed(r)'
  <2>1. CASE Claim(w)
    <3>1. \A r \in Refunds \ {w} : call'[r] = call[r]
      BY <2>1 DEF Claim, RefundTypeOK
    <3>2. ~Claimed(w)
      BY <2>1, ClaimingCall DEF Claim
    <3> QED
      BY <3>1, <3>2 DEF Claimed
  <2>2. CASE ~Claim(w)
    BY <2>2 DEF Runs, CallStep, HookStep, SharedStep, Record, Send, Settle, SettleThrows,
       SettleHook, Reread, Reopen, ReadSum, Mark, Refuse, GiveBack, Crash, Claimed
  <2> QED
    BY <2>1, <2>2
<1>2. CASE w \in Refunds /\ (Send(w) \/ Settle(w))
  <2>1. job[w].refund = w /\ Claimed(w)
    BY <1>2, RunningCall, JobIsJob DEF Send, Settle, JobsFit, Ends
  <2>2. \A r \in Refunds \ {w} :
            /\ sent'[r] = sent[r] /\ refund'[r] = refund[r] /\ returned'[r] = returned[r]
    BY <1>2 DEF Send, Settle, RefundTypeOK
  <2> QED
    BY <1>1, <2>1, <2>2 DEF OnlyClaimed
<1>3. CASE GiveBack(w)
  <2>1. job[w].refund \in Refunds /\ Claimed(job[w].refund)
    BY <1>3, RunningCall DEF GiveBack, Ends
  <2>2. \A r \in Refunds \ {job[w].refund} :
            /\ sent'[r] = sent[r] /\ refund'[r] = refund[r] /\ returned'[r] = returned[r]
    BY <1>3 DEF GiveBack, RefundTypeOK
  <2> QED
    BY <1>1, <2>1, <2>2 DEF OnlyClaimed
<1>4. CASE \/ Claim(w) \/ Record(w) \/ SettleThrows(w) \/ SettleHook(w) \/ Reread(w)
           \/ Reopen(w) \/ ReadSum(w) \/ Mark(w) \/ Refuse(w) \/ Crash(w)
  <2>1. \A r \in Refunds :
            /\ sent'[r] = sent[r]
            /\ refund'[r].known = refund[r].known
            /\ returned'[r] = returned[r]
    BY <1>4 DEF Claim, Record, SettleThrows, SettleHook, Reread, Reopen, ReadSum, Mark,
                Refuse, Crash, RefundTypeOK, Row
  <2> QED
    BY <1>1, <2>1 DEF OnlyClaimed
<1> QED
  BY <1>2, <1>3, <1>4 DEF Runs, CallStep, HookStep, SharedStep

\* A new call has claimed nothing yet.
LEMMA AskedKeeps ==
    ASSUME RefundTypeOK, JobsFit, OnlyClaimed, Asked
    PROVE  /\ RefundTypeOK' /\ JobsFit' /\ OnlyClaimed'
           /\ \A r \in Refunds : call'[r].claimed <=> call[r].claimed
           /\ \A r \in Refunds : Claimed(r) => call'[r] = call[r]
<1>1. PICK q \in Refunds, o \in Orders, l \in Lines \cup {NoLine}, n \in Nat :
          Ask(q, o, l, n)
  BY DEF Asked
<1> DEFINE new == [order |-> o, line |-> l, amount |-> n, claimed |-> FALSE]
<1>2. new \in Call /\ new # NoCall /\ ~new.claimed
  BY DEF Call, NoCall
<1>3. /\ call' = [call EXCEPT ![q] = new]
      /\ ~call[q].claimed
      /\ job' = [job EXCEPT ![q] = [task |-> "claim", refund |-> q]]
      /\ UNCHANGED <<account, refund, sent, events, returned>>
  BY <1>1 DEF Ask, NoCall
<1>4. [task |-> "claim", refund |-> q] \in Job
  BY DEF Job, CallTasks
<1>5. RefundTypeOK'
  BY <1>2, <1>3, <1>4 DEF RefundTypeOK
<1>6. \A r \in Refunds : call'[r].claimed <=> call[r].claimed
  BY <1>2, <1>3 DEF RefundTypeOK, NoCall
<1>7. \A r \in Refunds : Claimed(r) => call'[r] = call[r]
  BY <1>2, <1>3 DEF RefundTypeOK, Claimed
<1>8. OnlyClaimed'
  BY <1>3, <1>6 DEF OnlyClaimed, Claimed
<1>9. JobsFit'
  <2>1. /\ job'[q] = [task |-> "claim", refund |-> q]
        /\ \A v \in Workers \ {q} : job'[v] = job[v]
    BY <1>3 DEF RefundTypeOK, Workers
  <2>2. ASSUME NEW r \in Refunds, job'[r] # Idle PROVE job'[r].refund = r
    BY <2>1, <2>2 DEF JobsFit, Workers
  <2>3. ASSUME NEW v \in Workers, Running(v)', job'[v].task # "claim"
        PROVE  Claimed(job[v].refund)'
    <3>1. v # q /\ job'[v] = job[v] /\ Running(v)
      BY <2>1, <2>3 DEF Running
    <3>2. job[v].refund \in Refunds /\ Claimed(job[v].refund)
      BY <2>3, <3>1 DEF JobsFit, Workers, Running, RefundTypeOK, Job
    <3> QED
      BY <1>6, <3>1, <3>2 DEF Claimed
  <2>4. ASSUME NEW v \in Workers, job'[v].task = "claim"
        PROVE  v \in Refunds /\ call'[v] # NoCall /\ ~Claimed(v)'
    <3>1. CASE v = q
      BY <1>2, <1>3, <3>1 DEF RefundTypeOK, Claimed
    <3>2. CASE v # q
      BY <1>3, <2>1, <2>4, <3>2 DEF JobsFit, Workers, RefundTypeOK, Claimed
    <3> QED
      BY <3>1, <3>2
  <2> QED
    BY <2>2, <2>3, <2>4 DEF JobsFit, Workers
<1> QED
  BY <1>5, <1>6, <1>7, <1>8, <1>9

\* A delivery starts a job for a refund whose call was claimed.
LEMMA DeliveryKeeps ==
    ASSUME RefundTypeOK, JobsFit, OnlyClaimed, Delivery
    PROVE  /\ RefundTypeOK' /\ JobsFit' /\ OnlyClaimed'
           /\ UNCHANGED <<account, call, returned>>
<1>1. CASE \E r \in Refunds, outcome \in {"succeeded", "failed"} : HookIgnores(r, outcome)
  BY <1>1 DEF HookIgnores, RefundTypeOK, JobsFit, OnlyClaimed, Running, Claimed
<1>2. CASE \E w \in Hooks, r \in Refunds, outcome \in {"succeeded", "failed"} :
               HookReads(w, r, outcome)
  <2>1. PICK w \in Hooks, r \in Refunds, outcome \in {"succeeded", "failed"} :
            HookReads(w, r, outcome)
    BY <1>2
  <2>2. PICK t \in {"settleHook", "refuse"} :
            job' = [job EXCEPT ![w] = [task |-> t, refund |-> r]]
    BY <2>1 DEF HookReads
  <2>3. Claimed(r) /\ UNCHANGED <<account, call, refund, sent, events, returned>>
    BY <2>1 DEF HookReads, Applies, OnlyClaimed
  <2>4. [task |-> t, refund |-> r] \in Job
    BY DEF Job, HookTasks, SharedTasks
  <2>5. RefundTypeOK'
    BY <2>2, <2>3, <2>4 DEF RefundTypeOK
  <2>6. /\ job'[w] = [task |-> t, refund |-> r]
        /\ \A v \in Workers \ {w} : job'[v] = job[v]
    BY <2>2 DEF RefundTypeOK, Workers
  <2>7. w \notin Refunds
    BY RefundsAssumption
  <2>8. JobsFit'
    BY <2>3, <2>6, <2>7 DEF JobsFit, Workers, Running, Claimed
  <2> QED
    BY <2>3, <2>5, <2>8 DEF OnlyClaimed, Claimed
<1> QED
  BY <1>1, <1>2 DEF Delivery

\* The provider's decision on a refund touches no account.
LEMMA ProviderKeeps ==
    ASSUME RefundTypeOK, JobsFit, OnlyClaimed, NEW r \in Refunds, ProviderDecides(r)
    PROVE  /\ RefundTypeOK' /\ JobsFit' /\ OnlyClaimed'
           /\ UNCHANGED <<account, call, returned>>
<1>1. PICK s \in {"succeeded", "failed"} : sent' = [sent EXCEPT ![r] = s] /\ Hears(s, r)
  BY DEF ProviderDecides
<1>2. sent[r] = "pending" /\ UNCHANGED <<account, call, refund, job, returned>>
  BY DEF ProviderDecides
<1>3. RefundTypeOK'
  BY <1>1, <1>2 DEF RefundTypeOK, Hears
<1>4. JobsFit'
  BY <1>2 DEF JobsFit, Running, Claimed
<1>5. OnlyClaimed'
  BY <1>1, <1>2 DEF OnlyClaimed, RefundTypeOK, Claimed
<1> QED
  BY <1>2, <1>3, <1>4, <1>5

-----------------------------------------------------------------------------
(***************************************************************************)
(* The books                                                               *)
(***************************************************************************)
Books == RefundedWithinTotal /\ HeadroomExact

\* A step that neither claims nor gives back leaves the books as they are.
LEMMA QuietBooks ==
    ASSUME RefundTypeOK, Books,
           \A r \in Refunds : call'[r].claimed <=> call[r].claimed,
           \A r \in Refunds : Claimed(r) => call'[r] = call[r],
           returned' = returned,
           \A o \in Orders : account'[o].refunded = account[o].refunded
    PROVE  Books'
<1>1. \A o \in Orders : On(o)' = On(o) /\ Kept(o)' = Kept(o)
  BY DEF On, Kept, Claimed
<1>2. RefundedWithinTotal'
  BY DEF Books, RefundedWithinTotal, Subtotal
<1>3. ASSUME NEW o \in Orders, \A r \in On(o)' : returned'[r] <= 1
      PROVE  account'[o].refunded = Tally(Kept(o)', Amounts')
  <2>1. \A r \in Kept(o) : Amounts'[r] = Amounts[r]
    BY DEF Kept, On, Amounts, Claimed
  <2>2. Tally(Kept(o), Amounts') = Tally(Kept(o), Amounts)
    BY <2>1, TallySame
  <2>3. account[o].refunded = Tally(Kept(o), Amounts)
    BY <1>1, <1>3 DEF Books, HeadroomExact
  <2> QED
    BY <1>1, <2>2, <2>3
<1> QED
  BY <1>2, <1>3 DEF Books, HeadroomExact

\* A claim adds its amount to the order and to what is kept.
LEMMA ClaimBooks ==
    ASSUME RefundTypeOK, JobsFit, OnlyClaimed, Books, NEW w \in Workers, Claim(w)
    PROVE  Books'
<1>1. w \in Refunds /\ ~Claimed(w) /\ call[w] \in Call
  BY ClaimingCall DEF Claim
<1>o. PICK o \in Orders, n \in Nat : o = OrderId(w) /\ n = call[w].amount
  BY ClaimingCall DEF Claim
<1>2. CASE call' = call /\ account' = account
  BY <1>2, QuietBooks DEF Claim
<1>3. CASE /\ account[o].status = "PAID" /\ HasRoom(o, n)
           /\ account' = [account EXCEPT ![o].refunded = @ + n]
           /\ call' = [call EXCEPT ![w].claimed = TRUE]
  <2>1. /\ account[o].refunded \in Nat
        /\ account'[o].refunded = account[o].refunded + n
        /\ \A p \in Orders \ {o} : account'[p] = account[p]
    BY <1>1, <1>o, <1>3 DEF RefundTypeOK, Account
  <2>2. /\ call'[w] = [call[w] EXCEPT !.claimed = TRUE]
        /\ \A r \in Refunds \ {w} : call'[r] = call[r]
    BY <1>1, <1>3 DEF RefundTypeOK
  <2>3. call'[w].claimed /\ call'[w].order = o /\ call'[w].amount = n
    BY <1>1, <1>o, <2>2 DEF Call, OrderId
  <2>4. returned' = returned /\ returned[w] = 0
    BY <1>1 DEF Claim, OnlyClaimed, RefundTypeOK
  <2>5. RefundedWithinTotal'
    BY <1>3, <2>1, SubtotalType DEF Books, RefundedWithinTotal, HasRoom, Subtotal
  <2>6. w \notin Kept(o) /\ Kept(o)' = Kept(o) \cup {w} /\ On(o)' = On(o) \cup {w}
    BY <1>1, <2>2, <2>3, <2>4 DEF Kept, On, Claimed
  <2>7. \A p \in Orders \ {o} : Kept(p)' = Kept(p) /\ On(p)' = On(p)
    BY <1>1, <2>2, <2>3, <2>4 DEF Kept, On, Claimed
  <2>8. Amounts'[w] = n /\ \A r \in Refunds \ {w} : Amounts'[r] = Amounts[r]
    BY <1>1, <2>2, <2>3 DEF Amounts
  <2>9. \A r \in Refunds : Amounts'[r] \in Nat
    BY <1>1, <2>8, AmountsType
  <2>10. \A p \in Orders : Kept(p) \subseteq Refunds \ {w}
    BY <1>1 DEF Kept, On, Claimed
  <2>11. \A p \in Orders : Tally(Kept(p), Amounts') = Tally(Kept(p), Amounts)
    <3>1. ASSUME NEW p \in Orders
          PROVE  Tally(Kept(p), Amounts') = Tally(Kept(p), Amounts)
      BY <2>8, <2>10, TallySame
    <3> QED
      BY <3>1
  <2>12. ASSUME NEW p \in Orders, \A r \in On(p)' : returned'[r] <= 1
         PROVE  account'[p].refunded = Tally(Kept(p)', Amounts')
    <3>1. account[p].refunded = Tally(Kept(p), Amounts)
      BY <2>4, <2>6, <2>7, <2>12 DEF Books, HeadroomExact
    <3>2. CASE p = o
      <4>1. Kept(o) \in SUBSET Refunds /\ w \in Refunds \ Kept(o)
        BY <1>1, <2>6 DEF Kept, On
      <4>2. Tally(Kept(o) \cup {w}, Amounts') = Tally(Kept(o), Amounts') + Amounts'[w]
        BY <2>9, <4>1, AmountsWithOne
      <4> QED
        BY <2>1, <2>6, <2>8, <2>11, <3>1, <3>2, <4>2
    <3>3. CASE p # o
      BY <2>1, <2>7, <2>11, <3>1, <3>3
    <3> QED
      BY <3>2, <3>3
  <2> QED
    BY <2>5, <2>12 DEF Books, HeadroomExact
<1> QED
  BY <1>o, <1>2, <1>3 DEF Claim

\* Giving back takes an amount off the order and the refund out of what is kept.
LEMMA GiveBackBooks ==
    ASSUME RefundTypeOK, JobsFit, Books, NEW w \in Workers, GiveBack(w)
    PROVE  Books'
<1>r. PICK r \in Refunds : r = job[w].refund /\ Claimed(r)
  BY RunningCall DEF GiveBack, Ends
<1>o. PICK o \in Orders, n \in Nat : o = OrderId(r) /\ n = call[r].amount
  BY <1>r, RunningCall DEF GiveBack, Ends
<1>1. Claimed(r)
  BY <1>r
<1>2. /\ account[o].refunded \in Nat
      /\ account'[o].refunded = Less(account[o].refunded, n)
      /\ \A p \in Orders \ {o} : account'[p] = account[p]
  BY <1>r, <1>o DEF GiveBack, RefundTypeOK, Account
<1>3. /\ call' = call
      /\ returned[r] \in Nat
      /\ returned'[r] = returned[r] + 1
      /\ \A s \in Refunds \ {r} : returned'[s] = returned[s]
  BY <1>r, <1>o DEF GiveBack, RefundTypeOK
<1>4. RefundedWithinTotal'
  <2>1. Less(account[o].refunded, n) \in Nat /\ Less(account[o].refunded, n) <= account[o].refunded
    BY <1>2, LessType
  <2>2. account[o].refunded <= Subtotal(o) /\ Subtotal(o) \in Nat
    BY SubtotalType DEF Books, RefundedWithinTotal
  <2>3. account'[o].refunded <= Subtotal(o)
    BY <1>2, <2>1, <2>2
  <2>4. \A p \in Orders \ {o} : account'[p].refunded <= Subtotal(p)
    BY <1>2 DEF Books, RefundedWithinTotal
  <2>5. \A p \in Orders : account'[p].refunded <= Subtotal(p)
    BY <2>3, <2>4
  <2> QED
    BY <2>5 DEF RefundedWithinTotal, Subtotal
<1>5. Amounts' = Amounts /\ \A p \in Orders : On(p)' = On(p)
  BY <1>3 DEF Amounts, On
<1>6. \A p \in Orders \ {o} : r \notin On(p)
  BY <1>o DEF On, OrderId
<1>7. ASSUME NEW p \in Orders, \A s \in On(p)' : returned'[s] <= 1
      PROVE  account'[p].refunded = Tally(Kept(p)', Amounts')
  <2>1. CASE p # o
    <3>1. Kept(p)' = Kept(p)
      BY <1>3, <1>5, <1>6, <2>1 DEF Kept, On
    <3>2. \A s \in On(p) : returned[s] <= 1
      BY <1>3, <1>5, <1>6, <1>7, <2>1 DEF On
    <3> QED
      BY <1>2, <1>5, <2>1, <3>1, <3>2 DEF Books, HeadroomExact
  <2>2. CASE p = o
    <3>1. r \in On(o) /\ On(o) \subseteq Refunds
      BY <1>1, <1>o DEF On, OrderId, Claimed
    <3>2. returned[r] = 0
      BY <1>3, <1>5, <1>7, <2>2, <3>1
    <3>3. \A s \in On(o) : returned[s] <= 1
      BY <1>3, <1>5, <1>7, <2>2, <3>1, <3>2
    <3>4. account[o].refunded = Tally(Kept(o), Amounts)
      BY <1>1, <3>3 DEF Books, HeadroomExact
    <3>5. r \notin Kept(o)' /\ Kept(o) = Kept(o)' \cup {r} /\ Kept(o)' \subseteq Refunds
      BY <1>3, <1>5, <3>1, <3>2 DEF Kept
    <3>6. \A s \in Refunds : Amounts[s] \in Nat
      BY AmountsType
    <3>7. Tally(Kept(o), Amounts) = Tally(Kept(o)', Amounts) + Amounts[r]
      BY <1>1, <3>5, <3>6, AmountsWithOne
    <3>8. Amounts[r] = n
      BY <1>1, <1>o, ClaimedIsCall
    <3>9. Tally(Kept(o)', Amounts) \in Nat
      BY <3>5, <3>6, AmountsFinite
    <3>10. Less(account[o].refunded, n) = account[o].refunded - n
      BY <1>1, <1>2, <3>4, <3>7, <3>8, <3>9, LessType
    <3> QED
      BY <1>1, <1>2, <1>5, <2>2, <3>4, <3>7, <3>8, <3>9, <3>10
  <2> QED
    BY <2>1, <2>2
<1> QED
  BY <1>4, <1>7 DEF Books, HeadroomExact

-----------------------------------------------------------------------------
(***************************************************************************)
(* The theorems                                                            *)
(***************************************************************************)
LEMMA RunsBooks ==
    ASSUME RefundTypeOK, JobsFit, OnlyClaimed, Books, NEW w \in Workers, Runs(w)
    PROVE  Books'
<1>1. CASE Claim(w)
  BY <1>1, ClaimBooks
<1>2. CASE GiveBack(w)
  BY <1>2, GiveBackBooks
<1>3. CASE ~Claim(w) /\ ~GiveBack(w)
  <2>1. call' = call /\ returned' = returned
    BY <1>3 DEF Runs, CallStep, HookStep, SharedStep, Record, Send, Settle, SettleThrows,
       SettleHook, Reread, Reopen, ReadSum, Mark, Refuse, Crash
  <2>2. \A o \in Orders : account'[o].refunded = account[o].refunded
    <3>1. CASE Mark(w) \/ Reopen(w)
      BY <3>1 DEF Mark, Reopen, RefundTypeOK, Account
    <3>2. CASE ~Mark(w) /\ ~Reopen(w)
      BY <1>3, <3>2 DEF Runs, CallStep, HookStep, SharedStep, Record, Send, Settle,
         SettleThrows, SettleHook, Reread, ReadSum, Refuse, Crash
    <3> QED
      BY <3>1, <3>2
  <2> QED
    BY <2>1, <2>2, QuietBooks
<1> QED
  BY <1>1, <1>2, <1>3

\* Every step keeps the invariant.
LEMMA NextIInv ==
    ASSUME IInv, [RefundNext]_refundVars
    PROVE  IInv'
<1> USE DEF IInv
<1>1. CASE UNCHANGED refundVars
  BY <1>1 DEF refundVars, RefundTypeOK, JobsFit, OnlyClaimed, RefundedWithinTotal,
     HeadroomExact, Running, Claimed, Kept, On, Amounts, Subtotal
<1>2. CASE RefundNext
  <2>b. Books
    BY DEF Books
  <2>1. CASE Asked
    <3>1. account' = account /\ returned' = returned
      BY <2>1 DEF Asked, Ask
    <3> QED
      BY <2>b, <2>1, <3>1, AskedKeeps, QuietBooks DEF Books
  <2>2. CASE \E w \in Workers : Runs(w)
    BY <2>b, <2>2, RunsType, RunsFits, RunsClaimed, RunsBooks DEF Books
  <2>3. CASE Delivery
    BY <2>b, <2>3, DeliveryKeeps, QuietBooks DEF Books
  <2>4. CASE \E r \in Refunds : ProviderDecides(r)
    BY <2>b, <2>4, ProviderKeeps, QuietBooks DEF Books
  <2> QED
    BY <1>2, <2>1, <2>2, <2>3, <2>4, Steps
<1> QED
  BY <1>1, <1>2

\* The inductive invariant: shapes, tasks that fit their calls, and the books.
THEOREM InvariantHolds == RefundSpec => []IInv
<1>1. RefundInit => IInv
  BY InitIInv
<1>2. IInv /\ [RefundNext]_refundVars => IInv'
  BY NextIInv
<1> QED
  BY <1>1, <1>2, PTL DEF RefundSpec

\* Accounts, calls, rows and jobs keep their shape.
THEOREM RefundTypeCorrect == RefundSpec => []RefundTypeOK
<1>1. IInv => RefundTypeOK
  BY DEF IInv
<1> QED
  BY <1>1, InvariantHolds, PTL

\* refundedCents never exceeds subtotalCents.
THEOREM RefundedWithinTotalAlways == RefundSpec => []RefundedWithinTotal
<1>1. IInv => RefundedWithinTotal
  BY DEF IInv
<1> QED
  BY <1>1, InvariantHolds, PTL

\* refundedCents is what the claims not given back add up to.
THEOREM HeadroomExactAlways == RefundSpec => []HeadroomExact
<1>1. IInv => HeadroomExact
  BY DEF IInv
<1> QED
  BY <1>1, InvariantHolds, PTL

\* Where no headroom was given back wrongly, what is out is among what is kept,
\* and what is kept is within the total.
LEMMA OutWithinKept == IInv => SentWithinTotal
<1> SUFFICES ASSUME IInv, NEW o \in Orders, \A r \in On(o) : ~Slipped(r)
             PROVE  Tally(Out(o), Amounts) <= Subtotal(o)
  BY DEF SentWithinTotal
<1>1. \A r \in On(o) : returned[r] \in Nat /\ returned[r] <= 1
  BY DEF IInv, RefundTypeOK, On, Slipped
<1>2. Out(o) \subseteq Kept(o) /\ Kept(o) \subseteq Refunds
  BY <1>1 DEF Out, Kept, On, Slipped
<1>3. account[o].refunded = Tally(Kept(o), Amounts) /\ account[o].refunded <= Subtotal(o)
  BY <1>1 DEF IInv, HeadroomExact, RefundedWithinTotal
<1>4. \A r \in Refunds : Amounts[r] \in Nat
  BY AmountsType DEF IInv
<1>5. IsFiniteSet(Tokens(Kept(o), Amounts)) /\ Tally(Kept(o), Amounts) \in Nat
  BY <1>2, <1>4, AmountsFinite
<1>6. Tally(Out(o), Amounts) \in Nat
  BY <1>2, <1>4, AmountsFinite
<1>7. Tally(Out(o), Amounts) <= Tally(Kept(o), Amounts)
  BY <1>2, <1>5, TallyMonotone
<1> QED
  BY <1>3, <1>5, <1>6, <1>7, SubtotalType

\* No more money leaves for an order than was paid for it, except after a slip.
THEOREM SentWithinTotalAlways == RefundSpec => []SentWithinTotal
<1> QED
  BY InvariantHolds, OutWithinKept, PTL


-----------------------------------------------------------------------------
(***************************************************************************)
(* Lines and their returns                                                 *)
(***************************************************************************)

RefundsOf(l) == {r \in Refunds : call[r] # NoCall /\ call[r].line = l}
Busy(d, work, l) == desk[d].work = work /\ desk[d].line = l
Refunding(l) == {d \in Desks : Busy(d, "refunding", l)}

\* What a request remembers is what it could act on.  One that refunds holds
\* the return of its line alone.
DeskRight(d) ==
    /\ desk[d].work \in DOMAIN Accepts => desk[d].saw \in Accepts[desk[d].work]
    /\ desk[d].work \in {"approve", "refunding"} =>
           /\ desk[d].saw \in {"OPEN", "APPROVED", "REFUSED", "ESCALATED"}
           /\ ret[desk[d].line].status # "NONE"
    /\ desk[d].work = "refunding" =>
           /\ desk[d].refund \in RefundsOf(desk[d].line)
           /\ ret[desk[d].line].status = "APPROVED"
           /\ Refunding(desk[d].line) = {d}
           /\ desk[d].saw = "APPROVED" => desk[d].line \in stale

\* A refund that is over moves no money any more, or it is known that it did.
Over(r) == job[r].task = "threw" /\ (MoneyLeft(r) => r \in unheard)

\* The refund a return stands or falls with.
Current(l, r) ==
    \/ \E d \in Refunding(l) : desk[d].refund = r
    \/ Refunding(l) = {} /\ ret[l].status = "APPROVED" /\ ret[l].refund = r

\* A line nobody has delivered is not returned and not yet refunded; one that is
\* given up is refunded once; one that is delivered by its return, once at a time.
LineRight(l) ==
    l \notin crossed =>
        /\ fulfilment[l] # "DELIVERED" =>
               ret[l].status = "NONE" /\ \A d \in Desks : ~Busy(d, "open", l)
        /\ fulfilment[l] # "UNFULFILLABLE" => \A d \in Desks : ~Busy(d, "refundLine", l)
        /\ fulfilment[l] \in {"UNFULFILLED", "SHIPPED"} => RefundsOf(l) = {}
        /\ fulfilment[l] = "UNFULFILLABLE" =>
               /\ \A r, s \in RefundsOf(l) : r = s
               /\ \A d, e \in Desks :
                      Busy(d, "refundLine", l) /\ Busy(e, "refundLine", l) =>
                          d = e /\ RefundsOf(l) = {}
        /\ fulfilment[l] = "DELIVERED" /\ l \notin stranded =>
               \A r \in RefundsOf(l) : Over(r) \/ Current(l, r)

\* A return that is approved has a refund, or one is under way.
ReturnsHeld ==
    \A l \in Lines :
        ret[l].status = "APPROVED" /\ Refunding(l) = {} /\ l \notin stranded \cup stale =>
            ret[l].refund \in RefundsOf(l)

DesksRight == \A d \in Desks : DeskRight(d)
LinesRight == \A l \in Lines : LineRight(l)
CallsName == \A r \in Refunds : call[r] # NoCall => call[r].line \in Lines

LineInv ==
    IInv /\ ReturnsTypeOK /\ CallsName /\ DesksRight /\ LinesRight /\ ReturnsHeld

-----------------------------------------------------------------------------
\* The statuses a line is moved from, and to.
LEMMA AcceptsIs ==
    /\ DOMAIN Accepts = {"ship", "deliver", "giveUp"} /\ DOMAIN Writes = {"ship", "deliver", "giveUp"}
    /\ Accepts["ship"] = {"UNFULFILLED"} /\ Writes["ship"] = "SHIPPED"
    /\ Accepts["deliver"] = {"SHIPPED"} /\ Writes["deliver"] = "DELIVERED"
    /\ Accepts["giveUp"] = {"UNFULFILLED", "SHIPPED"} /\ Writes["giveUp"] = "UNFULFILLABLE"
BY DEF Accepts, Writes

\* A request in flight has a line of an order.
LEMMA DeskIs ==
    ASSUME ReturnsTypeOK, NEW d \in Desks, desk[d].work # "none"
    PROVE  /\ desk[d] \in Desk /\ desk[d].line \in Lines /\ desk[d].work \in Work
           /\ desk[d].saw \in Fulfilment \cup ReturnStatus
           /\ desk[d].refund \in Refunds \cup {NoRefund}
<1>1. desk[d] \in Desk
  BY DEF ReturnsTypeOK, NoWork
<1> QED
  BY <1>1 DEF Desk

\* What a request turns to.
LEMMA DeskMoves ==
    ASSUME ReturnsTypeOK, NEW d \in Desks, NEW new \in Desk \cup {NoWork},
           desk' = [desk EXCEPT ![d] = new]
    PROVE  /\ desk' \in [Desks -> Desk \cup {NoWork}] /\ desk'[d] = new
           /\ \A e \in Desks \ {d} : desk'[e] = desk[e]
BY DEF ReturnsTypeOK

\* The refunds stay right while nothing of them changes.
LEMMA RefundsRest == ASSUME IInv, UNCHANGED refundVars PROVE IInv'
BY NextIInv

\* A refund's own step keeps what was asked, and what is over stays over.
LEMMA RefundMoves ==
    ASSUME IInv, RefundStep
    PROVE  /\ IInv'
           /\ \A r \in Refunds :
                  /\ call'[r] = NoCall <=> call[r] = NoCall
                  /\ call[r] # NoCall => call'[r].line = call[r].line
                  /\ job[r].task = "threw" => job'[r].task = "threw" /\ (MoneyLeft(r)' => MoneyLeft(r))
<1>1. IInv'
  BY NextIInv DEF RefundNext
<1>2. (\E w \in Workers : Runs(w)) \/ Delivery \/ \E r \in Refunds : ProviderDecides(r)
  BY DEF RefundStep, Runs, Delivery, Workers
<1>3. ASSUME NEW w \in Workers, Runs(w), NEW r \in Refunds
      PROVE  /\ call'[r] = NoCall <=> call[r] = NoCall
             /\ call[r] # NoCall => call'[r].line = call[r].line
  <2>1. CASE w \in Refunds /\ Claim(w)
    <3>1. call[w] \in Call
      BY <2>1, ClaimingCall, <1>3 DEF IInv, Claim
    <3>2. call' = call \/ call' = [call EXCEPT ![w].claimed = TRUE]
      BY <2>1 DEF Claim
    <3>3. PICK new : new = [call[w] EXCEPT !.claimed = TRUE]
      OBVIOUS
    <3>4. new \in Call /\ new.line = call[w].line
      BY <3>1, <3>3 DEF Call
    <3>6. \A c \in Call : c # NoCall
      BY DEF Call, NoCall
    <3>5. call' = call \/ call' = [call EXCEPT ![w] = new]
      BY <3>2, <3>3
    <3> QED
      BY <3>1, <3>4, <3>5, <3>6 DEF IInv, RefundTypeOK
  <2>2. CASE ~(w \in Refunds /\ Claim(w))
    <3>1. call' = call
      BY <1>3, <2>2 DEF Runs, CallStep, HookStep, SharedStep, Record, Send, Settle, SettleThrows,
         SettleHook, Reread, Reopen, ReadSum, Mark, Refuse, GiveBack, Crash
    <3> QED
      BY <3>1
  <2> QED
    BY <2>1, <2>2
<1>4. ASSUME NEW w \in Workers, Runs(w), NEW r \in Refunds, job[r].task = "threw"
      PROVE  job'[r].task = "threw" /\ sent'[r] = sent[r]
  <2>1. w # r
    BY <1>4 DEF Runs, CallStep, HookStep, SharedStep, Claim, Record, Send, Settle, SettleThrows,
       SettleHook, Reread, Reopen, ReadSum, Mark, Refuse, GiveBack, Crash, Running, Ends
  <2>2. job'[r] = job[r]
    BY <1>4, <2>1, StepsGo DEF IInv, Goes, Workers
  <2>3. sent' = sent \/ \E s : sent' = [sent EXCEPT ![w] = s]
    BY <1>4 DEF Runs, CallStep, HookStep, SharedStep, Claim, Record, Send, Settle, SettleThrows,
       SettleHook, Reread, Reopen, ReadSum, Mark, Refuse, GiveBack, Crash
  <2> QED
    BY <1>4, <2>1, <2>2, <2>3 DEF IInv, RefundTypeOK
<1>5. ASSUME Delivery, NEW r \in Refunds
      PROVE  call' = call /\ job'[r] = job[r] /\ sent' = sent
  BY <1>5, RefundsAssumption DEF Delivery, HookReads, HookIgnores, IInv, RefundTypeOK
<1>6. ASSUME NEW q \in Refunds, ProviderDecides(q), NEW r \in Refunds
      PROVE  call' = call /\ job' = job /\ (MoneyLeft(r)' => MoneyLeft(r))
  BY <1>6 DEF ProviderDecides, MoneyLeft, IInv, RefundTypeOK
<1>7. ASSUME NEW r \in Refunds
      PROVE  /\ call'[r] = NoCall <=> call[r] = NoCall
             /\ call[r] # NoCall => call'[r].line = call[r].line
  BY <1>2, <1>3, <1>5, <1>6, <1>7
<1>8. ASSUME NEW r \in Refunds, job[r].task = "threw"
      PROVE  job'[r].task = "threw" /\ (MoneyLeft(r)' => MoneyLeft(r))
  BY <1>2, <1>4, <1>5, <1>6, <1>8 DEF MoneyLeft
<1> QED
  BY <1>1, <1>7, <1>8

\* A refund asked for is a new one of its line.
LEMMA AskMoves ==
    ASSUME IInv, CallsName, NEW r \in Refunds, NEW l \in Lines, Ask(r, OrderOf[l], l, Price[l])
    PROVE  /\ IInv' /\ CallsName'
           /\ RefundsOf(l)' = RefundsOf(l) \cup {r} /\ r \notin RefundsOf(l)
           /\ \A k \in Lines \ {l} : RefundsOf(k)' = RefundsOf(k) /\ r \notin RefundsOf(k)
           /\ \A q \in Refunds \ {r} : job'[q] = job[q] /\ sent'[q] = sent[q]
<1>1. PICK new : new = [order |-> OrderOf[l], line |-> l, amount |-> Price[l], claimed |-> FALSE]
  OBVIOUS
<1>2. new # NoCall /\ new.line = l
  BY <1>1 DEF NoCall
<1>3. /\ call[r] = NoCall /\ call' = [call EXCEPT ![r] = new]
      /\ job' = [job EXCEPT ![r] = [task |-> "claim", refund |-> r]] /\ sent' = sent
  BY <1>1 DEF Ask
<1>4. call'[r] = new /\ \A q \in Refunds \ {r} : call'[q] = call[q] /\ job'[q] = job[q]
  BY <1>3 DEF IInv, RefundTypeOK
<1>5. IInv'
  <2>1. OrderOf[l] \in Orders /\ Price[l] \in Nat
    BY RefundsAssumption
  <2>2. Asked
    BY <2>1 DEF Asked
  <2>3. account' = account /\ returned' = returned
    BY DEF Ask
  <2> QED
    BY <2>2, <2>3, AskedKeeps, QuietBooks DEF IInv, Books
<1>6. CallsName'
  BY <1>2, <1>4 DEF CallsName
<1>7. RefundsOf(l)' = RefundsOf(l) \cup {r} /\ r \notin RefundsOf(l)
  BY <1>2, <1>3, <1>4 DEF RefundsOf
<1>8. \A k \in Lines \ {l} : RefundsOf(k)' = RefundsOf(k) /\ r \notin RefundsOf(k)
  BY <1>2, <1>3, <1>4 DEF RefundsOf
<1> QED
  BY <1>3, <1>4, <1>5, <1>6, <1>7, <1>8

-----------------------------------------------------------------------------
\* A line nobody touches stays right.
LEMMA LineStays ==
    ASSUME NEW l \in Lines, LineRight(l),
           fulfilment'[l] = fulfilment[l], ret'[l] = ret[l],
           RefundsOf(l)' = RefundsOf(l), \A r \in RefundsOf(l) : Over(r) => Over(r)',
           Refunding(l)' = Refunding(l),
           \A d \in Refunding(l) : desk'[d].refund = desk[d].refund,
           \A d \in Desks : Busy(d, "open", l)' => Busy(d, "open", l),
           \A d \in Desks : Busy(d, "refundLine", l)' => Busy(d, "refundLine", l),
           l \in crossed => l \in crossed', l \in stranded => l \in stranded'
    PROVE  LineRight(l)'
<1> SUFFICES ASSUME l \notin crossed' PROVE LineRight(l)'
  BY DEF LineRight
<1>1. l \notin crossed
  OBVIOUS
<1>2. ASSUME NEW r \in RefundsOf(l), Current(l, r) PROVE Current(l, r)'
  BY <1>2 DEF Current
<1>3. fulfilment[l] = "DELIVERED" /\ l \notin stranded' => \A r \in RefundsOf(l) : Over(r)' \/ Current(l, r)'
  BY <1>1, <1>2 DEF LineRight
<1> QED
  BY <1>1, <1>3 DEF LineRight

\* A request that is not served stays right.
LEMMA DeskStays ==
    ASSUME NEW d \in Desks, DeskRight(d), desk'[d] = desk[d], NEW l, l = desk[d].line,
           desk[d].work \in {"approve", "refunding"} => ret'[l].status # "NONE",
           desk[d].work = "refunding" =>
               /\ ret'[l].status = "APPROVED"
               /\ RefundsOf(l) \subseteq RefundsOf(l)'
               /\ Refunding(l)' = Refunding(l)
               /\ l \in stale => l \in stale'
    PROVE  DeskRight(d)'
<1>1. DeskRight(d)' <=>
        /\ desk[d].work \in DOMAIN Accepts => desk[d].saw \in Accepts[desk[d].work]
        /\ desk[d].work \in {"approve", "refunding"} =>
               /\ desk[d].saw \in {"OPEN", "APPROVED", "REFUSED", "ESCALATED"}
               /\ ret'[l].status # "NONE"
        /\ desk[d].work = "refunding" =>
               /\ desk[d].refund \in RefundsOf(l)'
               /\ ret'[l].status = "APPROVED"
               /\ Refunding(l)' = {d}
               /\ desk[d].saw = "APPROVED" => l \in stale'
  BY DEF DeskRight, RefundsOf, Refunding, Busy, Accepts
<1> QED
  BY <1>1 DEF DeskRight

\* Who reads, or gives up, changes nothing but what a request remembers.
LEMMA ReadsRight ==
    ASSUME LineInv, NEW d \in Desks, NEW new \in Desk \cup {NoWork}, desk' = [desk EXCEPT ![d] = new],
           UNCHANGED <<refundVars, fulfilment, ret, mishaps, crossed, stale, stranded, unheard>>,
           desk[d].work # "refunding", new.work \notin {"refunding", "refundLine"},
           new.work = "open" => fulfilment[new.line] = "DELIVERED",
           new.work \in DOMAIN Accepts => new.saw \in Accepts[new.work],
           new.work = "approve" => /\ new.saw \in {"OPEN", "APPROVED", "REFUSED", "ESCALATED"}
                                   /\ ret[new.line].status # "NONE"
    PROVE  LineInv'
<1>1. /\ desk' \in [Desks -> Desk \cup {NoWork}] /\ desk'[d] = new
      /\ \A e \in Desks \ {d} : desk'[e] = desk[e]
  BY DeskMoves DEF LineInv
<1>2. IInv' /\ CallsName' /\ call' = call /\ job' = job /\ sent' = sent
  BY RefundsRest DEF LineInv, refundVars, CallsName
<1>3. ReturnsTypeOK'
  BY <1>1 DEF LineInv, ReturnsTypeOK
<1>4. \A l : RefundsOf(l)' = RefundsOf(l) /\ Refunding(l)' = Refunding(l)
  BY <1>1, <1>2 DEF RefundsOf, Refunding, Busy
<1>5. \A r : Over(r)' = Over(r)
  BY <1>2 DEF Over, MoneyLeft
<1>6. ASSUME NEW l \in Lines PROVE LineRight(l)'
  <2>1. LineRight(l)
    BY DEF LineInv, LinesRight
  <2>2. \A e \in Refunding(l) : desk'[e].refund = desk[e].refund
    BY <1>1 DEF Refunding, Busy
  <2>3. \A e \in Desks : Busy(e, "refundLine", l)' => Busy(e, "refundLine", l)
    BY <1>1 DEF Busy
  <2>4. CASE Busy(d, "open", l)'
    <3>1. fulfilment[l] = "DELIVERED"
      BY <1>1, <2>4 DEF Busy
    <3>2. ASSUME NEW r \in RefundsOf(l), Current(l, r) PROVE Current(l, r)'
      BY <1>4, <2>2, <3>2 DEF Current
    <3> QED
      BY <1>4, <1>5, <2>1, <2>3, <3>1, <3>2 DEF LineRight
  <2>5. CASE ~Busy(d, "open", l)'
    <3>1. \A e \in Desks : Busy(e, "open", l)' => Busy(e, "open", l)
      BY <1>1, <2>5 DEF Busy
    <3> QED
      BY <1>4, <1>5, <2>1, <2>2, <2>3, <3>1, LineStays
  <2> QED
    BY <2>4, <2>5
<1>7. ASSUME NEW e \in Desks PROVE DeskRight(e)'
  <2>1. CASE e = d
    BY <1>1, <2>1 DEF DeskRight, Accepts
  <2>2. CASE e # d
    <3>1. DeskRight(e) /\ desk'[e] = desk[e]
      BY <1>1, <2>2 DEF LineInv, DesksRight
    <3>2. PICK l : l = desk[e].line
      OBVIOUS
    <3>3. /\ desk[e].work \in {"approve", "refunding"} => ret'[l].status # "NONE"
          /\ desk[e].work = "refunding" => ret'[l].status = "APPROVED"
      BY <3>1, <3>2 DEF DeskRight
    <3> QED
      BY <1>4, <3>1, <3>2, <3>3, DeskStays
  <2> QED
    BY <2>1, <2>2
<1>8. ReturnsHeld'
  BY <1>4 DEF LineInv, ReturnsHeld
<1> QED
  BY <1>2, <1>3, <1>6, <1>7, <1>8 DEF LineInv, DesksRight, LinesRight

\* A request that takes up a line, for what it may do.
LEMMA TakesRight ==
    ASSUME LineInv, NEW d \in Desks, NEW work \in Work \ {"refunding", "refundLine"}, NEW l \in InPlay,
           NEW by \in Answerers, NEW saw \in Fulfilment \cup ReturnStatus, Takes(d, work, l, by, saw),
           UNCHANGED <<refundVars, fulfilment, ret, mishaps, crossed, stale, stranded, unheard>>,
           work = "open" => fulfilment[l] = "DELIVERED",
           work \in DOMAIN Accepts => saw \in Accepts[work],
           work = "approve" => /\ saw \in {"OPEN", "APPROVED", "REFUSED", "ESCALATED"}
                               /\ ret[l].status # "NONE"
    PROVE  LineInv'
<1>1. PICK new : new = [work |-> work, line |-> l, by |-> by, saw |-> saw, refund |-> NoRefund]
  OBVIOUS
<1>2. l \in Lines
  BY ReturnsAssumption
<1>3. new \in Desk /\ new.work = work /\ new.line = l /\ new.saw = saw
  BY <1>1, <1>2 DEF Desk
<1>4. desk' = [desk EXCEPT ![d] = new] /\ desk[d].work # "refunding"
  BY <1>1 DEF Takes, NoWork
<1> QED
  BY <1>3, <1>4, ReadsRight

\* The requests that read first.
LEMMA ReadFirstRight ==
    ASSUME LineInv, NEW d \in Desks, NEW l \in InPlay, NEW by \in Answerers,
           ReadLine(d, l) \/ ReadEligibility(d, l) \/ ReadReturn(d, l, by)
    PROVE  LineInv'
<1>1. l \in Lines /\ fulfilment[l] \in Fulfilment /\ ret[l].status \in ReturnStatus
  BY ReturnsAssumption DEF LineInv, ReturnsTypeOK
<1>2. "seller" \in Answerers
  BY DEF Answerers
<1>3. CASE ReadLine(d, l)
  <2>1. PICK work \in DOMAIN Accepts :
            fulfilment[l] \in Accepts[work] /\ Takes(d, work, l, "seller", fulfilment[l])
    BY <1>3 DEF ReadLine
  <2>2. work \in Work \ {"refunding", "refundLine"} /\ work # "open" /\ work # "approve"
    BY AcceptsIs DEF Work
  <2> QED
    BY <1>1, <1>2, <1>3, <2>1, <2>2, TakesRight DEF ReadLine
<1>4. CASE ReadEligibility(d, l)
  <2>1. "open" \in Work \ {"refunding", "refundLine"} /\ "open" \notin DOMAIN Accepts
    BY AcceptsIs DEF Work
  <2> QED
    BY <1>1, <1>2, <1>4, <2>1, TakesRight DEF ReadEligibility, Eligible
<1>5. CASE ReadReturn(d, l, by)
  <2>1. "approve" \in Work \ {"refunding", "refundLine"} /\ "approve" \notin DOMAIN Accepts
    BY AcceptsIs DEF Work
  <2> QED
    BY <1>1, <1>5, <2>1, TakesRight DEF ReadReturn
<1> QED
  BY <1>3, <1>4, <1>5

\* And who finds the return answered.
LEMMA LoseReturnRight ==
    ASSUME LineInv, NEW d \in Desks, LoseReturn(d)
    PROVE  LineInv'
<1>1. NoWork \in Desk \cup {NoWork} /\ NoWork.work = "none" /\ "none" \notin DOMAIN Accepts
  BY AcceptsIs DEF NoWork
<1> QED
  BY <1>1, ReadsRight DEF LoseReturn, Leaves

\* A line is written over with what the request wanted: from where it read it,
\* or it is crossed.  Nothing was refunded of it before.
LEMMA WriteLineRight ==
    ASSUME LineInv, NEW d \in Desks, WriteLine(d)
    PROVE  LineInv'
<1>0. PICK l, work : l = desk[d].line /\ work = desk[d].work
  OBVIOUS
<1>1. work \in {"ship", "deliver", "giveUp"} /\ Writes[work] \in Fulfilment
  BY <1>0, AcceptsIs DEF WriteLine, Fulfilment
<1>2. desk[d] \in Desk /\ l \in Lines
  BY <1>0, <1>1, DeskIs DEF LineInv
<1>3. PICK new : new = IF work = "giveUp" THEN [desk[d] EXCEPT !.work = "refundLine"] ELSE NoWork
  OBVIOUS
<1>4. desk' = [desk EXCEPT ![d] = new]
  BY <1>0, <1>3 DEF WriteLine, Leaves
<1>5. /\ new \in Desk \cup {NoWork} /\ new.work \in {"refundLine", "none"}
      /\ new.work = "refundLine" => work = "giveUp" /\ new.line = l
  BY <1>0, <1>2, <1>3 DEF Desk, Work, NoWork
<1>6. /\ desk' \in [Desks -> Desk \cup {NoWork}] /\ desk'[d] = new
      /\ \A e \in Desks \ {d} : desk'[e] = desk[e]
  BY <1>4, <1>5, DeskMoves DEF LineInv
<1>7. /\ fulfilment' = [fulfilment EXCEPT ![l] = Writes[work]]
      /\ crossed' = IF fulfilment[l] = desk[d].saw THEN crossed ELSE crossed \cup {l}
      /\ UNCHANGED <<refundVars, ret, mishaps, stale, stranded, unheard>>
  BY <1>0 DEF WriteLine
<1>8. IInv' /\ CallsName' /\ call' = call /\ job' = job /\ sent' = sent
  BY <1>7, RefundsRest DEF LineInv, refundVars, CallsName
<1>9. fulfilment' \in [Lines -> Fulfilment] /\ fulfilment'[l] = Writes[work]
      /\ \A k \in Lines \ {l} : fulfilment'[k] = fulfilment[k]
  BY <1>1, <1>2, <1>7 DEF LineInv, ReturnsTypeOK
<1>10. crossed \subseteq crossed' /\ crossed' \subseteq crossed \cup {l}
  BY <1>7
<1>11. ReturnsTypeOK'
  BY <1>2, <1>6, <1>7, <1>9, <1>10 DEF LineInv, ReturnsTypeOK
<1>12. \A k : RefundsOf(k)' = RefundsOf(k) /\ Refunding(k)' = Refunding(k)
  BY <1>0, <1>1, <1>5, <1>6, <1>8 DEF RefundsOf, Refunding, Busy
<1>13. \A r : Over(r)' = Over(r)
  BY <1>7, <1>8 DEF Over, MoneyLeft
<1>14. \A k : \A e \in Desks : Busy(e, "open", k)' => Busy(e, "open", k)
  BY <1>5, <1>6 DEF Busy
<1>15. ASSUME NEW k \in Lines \ {l} PROVE LineRight(k)'
  <2>1. LineRight(k) /\ fulfilment'[k] = fulfilment[k] /\ ret'[k] = ret[k]
    BY <1>7, <1>9 DEF LineInv, LinesRight
  <2>2. \A e \in Refunding(k) : desk'[e].refund = desk[e].refund
    BY <1>0, <1>1, <1>6 DEF Refunding, Busy
  <2>3. \A e \in Desks : Busy(e, "refundLine", k)' => Busy(e, "refundLine", k)
    BY <1>5, <1>6 DEF Busy
  <2> QED
    BY <1>7, <1>10, <1>12, <1>13, <1>14, <2>1, <2>2, <2>3, LineStays
<1>16. LineRight(l)'
  <2> SUFFICES ASSUME l \notin crossed' PROVE LineRight(l)'
    BY DEF LineRight
  <2>1. fulfilment[l] = desk[d].saw /\ l \notin crossed
    BY <1>7
  <2>2. desk[d].saw \in Accepts[work]
    BY <1>0, <1>1, AcceptsIs DEF LineInv, DesksRight, DeskRight
  <2>3. fulfilment[l] \in {"UNFULFILLED", "SHIPPED"}
    BY <1>1, <2>1, <2>2, AcceptsIs
  <2>4. /\ ret[l].status = "NONE" /\ RefundsOf(l) = {}
        /\ \A e \in Desks : ~Busy(e, "open", l) /\ ~Busy(e, "refundLine", l)
    BY <1>2, <2>1, <2>3 DEF LineInv, LinesRight, LineRight
  <2>5. \A e \in Desks : Busy(e, "refundLine", l)' => e = d /\ work = "giveUp"
    BY <1>5, <1>6, <2>4 DEF Busy
  <2>6. work = "giveUp" <=> fulfilment'[l] = "UNFULFILLABLE"
    BY <1>1, <1>9, AcceptsIs
  <2>7. ret'[l].status = "NONE" /\ RefundsOf(l)' = {} /\ \A e \in Desks : ~Busy(e, "open", l)'
    BY <1>7, <1>12, <1>14, <2>4
  <2> QED
    BY <2>5, <2>6, <2>7 DEF LineRight
<1>17. ASSUME NEW e \in Desks PROVE DeskRight(e)'
  <2>1. CASE e = d
    BY <1>5, <1>6, <2>1 DEF DeskRight, Accepts
  <2>2. CASE e # d
    <3>1. DeskRight(e) /\ desk'[e] = desk[e]
      BY <1>6, <2>2 DEF LineInv, DesksRight
    <3>2. PICK k : k = desk[e].line
      OBVIOUS
    <3>3. /\ desk[e].work \in {"approve", "refunding"} => ret'[k].status # "NONE"
          /\ desk[e].work = "refunding" => ret'[k].status = "APPROVED"
      BY <1>7, <3>1, <3>2 DEF DeskRight
    <3> QED
      BY <1>7, <1>12, <3>1, <3>2, <3>3, DeskStays
  <2> QED
    BY <2>1, <2>2
<1>18. ReturnsHeld'
  BY <1>7, <1>12 DEF LineInv, ReturnsHeld
<1> QED
  BY <1>8, <1>11, <1>15, <1>16, <1>17, <1>18 DEF LineInv, DesksRight, LinesRight

\* A line that is given up is refunded by one request, and that asks once.
LEMMA RefundLineRight ==
    ASSUME LineInv, NEW d \in Desks, RefundLine(d)
    PROVE  LineInv'
<1>0. PICK l : l = desk[d].line
  OBVIOUS
<1>1. /\ desk[d].work = "refundLine" /\ Busy(d, "refundLine", l)
      /\ UNCHANGED <<fulfilment, ret, mishaps, crossed, stale, stranded, unheard>>
      /\ desk' = [desk EXCEPT ![d] = NoWork]
  BY <1>0 DEF RefundLine, Leaves, Busy
<1>2. desk[d] \in Desk /\ l \in Lines /\ NoWork.work = "none" /\ "none" \notin DOMAIN Accepts
  BY <1>0, <1>1, DeskIs, AcceptsIs DEF LineInv, NoWork
<1>3. /\ desk' \in [Desks -> Desk \cup {NoWork}] /\ desk'[d] = NoWork
      /\ \A e \in Desks \ {d} : desk'[e] = desk[e]
  BY <1>1, DeskMoves DEF LineInv
<1>4. /\ IInv' /\ CallsName'
      /\ \A k \in Lines \ {l} : RefundsOf(k)' = RefundsOf(k)
      /\ RefundsOf(l) \subseteq RefundsOf(l)'
      /\ RefundsOf(l) = {} => \A r, s \in RefundsOf(l)' : r = s
      /\ \A k \in Lines : \A r \in RefundsOf(k) : job'[r] = job[r] /\ sent'[r] = sent[r]
  <2>1. CASE \E r \in Refunds : AskForLine(r, l)
    <3>1. PICK q \in Refunds : Ask(q, OrderOf[l], l, Price[l])
      BY <2>1 DEF AskForLine
    <3>2. /\ IInv' /\ CallsName'
          /\ RefundsOf(l)' = RefundsOf(l) \cup {q} /\ q \notin RefundsOf(l)
          /\ \A k \in Lines \ {l} : RefundsOf(k)' = RefundsOf(k) /\ q \notin RefundsOf(k)
          /\ \A r \in Refunds \ {q} : job'[r] = job[r] /\ sent'[r] = sent[r]
      BY <1>2, <3>1, AskMoves DEF LineInv
    <3>3. \A k \in Lines : RefundsOf(k) \subseteq Refunds \ {q}
      BY <3>2 DEF RefundsOf
    <3> QED
      BY <3>2, <3>3
  <2>2. CASE UNCHANGED refundVars
    BY <2>2, RefundsRest DEF LineInv, refundVars, CallsName, RefundsOf
  <2> QED
    BY <1>0, <2>1, <2>2 DEF RefundLine
<1>5. ReturnsTypeOK'
  BY <1>1, <1>3 DEF LineInv, ReturnsTypeOK
<1>6. \A k : Refunding(k)' = Refunding(k)
  BY <1>1, <1>2, <1>3 DEF Refunding, Busy
<1>7. ASSUME NEW k \in Lines, NEW r \in RefundsOf(k), Over(r) PROVE Over(r)'
  BY <1>1, <1>4, <1>7 DEF Over, MoneyLeft
<1>8. \A k : \A e \in Desks : /\ Busy(e, "open", k)' => Busy(e, "open", k)
                              /\ Busy(e, "refundLine", k)' => Busy(e, "refundLine", k)
  BY <1>2, <1>3 DEF Busy
<1>9. ASSUME NEW k \in Lines \ {l} PROVE LineRight(k)'
  <2>1. LineRight(k) /\ fulfilment'[k] = fulfilment[k] /\ ret'[k] = ret[k]
    BY <1>1 DEF LineInv, LinesRight
  <2>2. \A e \in Refunding(k) : desk'[e].refund = desk[e].refund
    BY <1>1, <1>3 DEF Refunding, Busy
  <2> QED
    BY <1>1, <1>4, <1>6, <1>7, <1>8, <2>1, <2>2, LineStays
<1>10. LineRight(l)'
  <2> SUFFICES ASSUME l \notin crossed' PROVE LineRight(l)'
    BY DEF LineRight
  <2>1. l \notin crossed /\ LineRight(l)
    BY <1>1, <1>2 DEF LineInv, LinesRight
  <2>2. fulfilment[l] = "UNFULFILLABLE"
    BY <1>1, <2>1 DEF LineRight
  <2>3. /\ ret[l].status = "NONE" /\ RefundsOf(l) = {}
        /\ \A e \in Desks : ~Busy(e, "open", l) /\ (Busy(e, "refundLine", l) => e = d)
    BY <1>1, <2>1, <2>2 DEF LineRight
  <2>4. \A e \in Desks : ~Busy(e, "open", l)' /\ ~Busy(e, "refundLine", l)'
    <3>1. ~Busy(d, "refundLine", l)'
      BY <1>2, <1>3 DEF Busy
    <3> QED
      BY <1>8, <2>3, <3>1
  <2> QED
    BY <1>1, <1>4, <2>2, <2>3, <2>4 DEF LineRight
<1>11. ASSUME NEW e \in Desks PROVE DeskRight(e)'
  <2>1. CASE e = d
    BY <1>2, <1>3, <2>1 DEF DeskRight, Accepts
  <2>2. CASE e # d
    <3>1. DeskRight(e) /\ desk'[e] = desk[e]
      BY <1>3, <2>2 DEF LineInv, DesksRight
    <3>2. PICK k : k = desk[e].line
      OBVIOUS
    <3>3. /\ desk[e].work \in {"approve", "refunding"} => ret'[k].status # "NONE"
          /\ desk[e].work = "refunding" => ret'[k].status = "APPROVED" /\ k \in Lines
      BY <1>1, <3>1, <3>2, DeskIs DEF DeskRight, LineInv
    <3>4. desk[e].work = "refunding" => RefundsOf(k) \subseteq RefundsOf(k)'
      BY <1>4, <3>3
    <3> QED
      BY <1>1, <1>6, <3>1, <3>2, <3>3, <3>4, DeskStays
  <2> QED
    BY <2>1, <2>2
<1>12. ReturnsHeld'
  BY <1>1, <1>4, <1>6 DEF LineInv, ReturnsHeld
<1> QED
  BY <1>4, <1>5, <1>9, <1>10, <1>11, <1>12 DEF LineInv, DesksRight, LinesRight

\* The lines and requests beside the line that moves.
LEMMA OthersStay ==
    ASSUME LineInv, NEW l \in Lines,
           \A k \in Lines \ {l} : /\ fulfilment'[k] = fulfilment[k] /\ ret'[k] = ret[k]
                                  /\ RefundsOf(k)' = RefundsOf(k)
                                  /\ k \in stale' => k \in stale
                                  /\ (k \in stranded' <=> k \in stranded),
           \A k \in Lines : \A r \in RefundsOf(k) : Over(r) => Over(r)',
           \A e \in Desks : desk'[e] = desk[e]
                \/ (desk[e].line = l /\ (desk'[e].line = l \/ desk'[e].work = "none")),
           crossed' = crossed, stale \subseteq stale'
    PROVE  /\ \A k \in Lines \ {l} : LineRight(k)'
           /\ \A k \in Lines \ {l} :
                ret'[k].status = "APPROVED" /\ Refunding(k)' = {} /\ k \notin stranded' \cup stale' =>
                    ret'[k].refund \in RefundsOf(k)'
           /\ \A e \in Desks :
                /\ desk'[e] = desk[e]
                /\ desk[e].work \in {"approve", "refunding"} => desk[e].line \in Lines \ {l}
                => DeskRight(e)'
<1>1. ASSUME NEW k \in Lines \ {l}, NEW e \in Desks
      PROVE  /\ Busy(e, "open", k)' <=> Busy(e, "open", k)
             /\ Busy(e, "refundLine", k)' <=> Busy(e, "refundLine", k)
             /\ Busy(e, "refunding", k)' <=> Busy(e, "refunding", k)
             /\ Busy(e, "refunding", k) => desk'[e] = desk[e]
  BY <1>1 DEF Busy
<1>2. ASSUME NEW k \in Lines \ {l} PROVE Refunding(k)' = Refunding(k)
  BY <1>1 DEF Refunding
<1>3. ASSUME NEW k \in Lines \ {l} PROVE LineRight(k)'
  <2>1. LineRight(k)
    BY DEF LineInv, LinesRight
  <2>2. \A e \in Refunding(k) : desk'[e].refund = desk[e].refund
    BY <1>1 DEF Refunding
  <2> QED
    BY <1>1, <1>2, <2>1, <2>2, LineStays
<1>4. ASSUME NEW k \in Lines \ {l}, ret'[k].status = "APPROVED", Refunding(k)' = {},
             k \notin stranded' \cup stale'
      PROVE  ret'[k].refund \in RefundsOf(k)'
  <2>1. ret[k].status = "APPROVED" /\ Refunding(k) = {} /\ k \notin stranded \cup stale
    BY <1>2, <1>4
  <2> QED
    BY <2>1 DEF LineInv, ReturnsHeld
<1>5. ASSUME NEW e \in Desks, desk'[e] = desk[e],
             desk[e].work \in {"approve", "refunding"} => desk[e].line \in Lines \ {l}
      PROVE  DeskRight(e)'
  <2>1. DeskRight(e)
    BY DEF LineInv, DesksRight
  <2>2. PICK k : k = desk[e].line
    OBVIOUS
  <2>3. CASE desk[e].work \in {"approve", "refunding"}
    <3>1. k \in Lines \ {l}
      BY <1>5, <2>2, <2>3
    <3>2. /\ desk[e].work \in {"approve", "refunding"} => ret'[k].status # "NONE"
          /\ desk[e].work = "refunding" => ret'[k].status = "APPROVED"
      BY <2>1, <2>2, <3>1 DEF DeskRight
    <3> QED
      BY <1>2, <1>5, <2>1, <2>2, <3>1, <3>2, DeskStays
  <2>4. CASE desk[e].work \notin {"approve", "refunding"}
    BY <1>5, <2>1, <2>4 DEF DeskRight, Accepts
  <2> QED
    BY <2>3, <2>4
<1> QED
  BY <1>3, <1>4, <1>5

\* Nobody refunds a return that is not approved.
LEMMA NobodyRefunds ==
    ASSUME LineInv, NEW l \in Lines, ret[l].status # "APPROVED"
    PROVE  Refunding(l) = {} /\ \A r : ~Current(l, r)
BY DEF LineInv, DesksRight, DeskRight, Refunding, Busy, Current

\* What is known of a request that refunds.
LEMMA RefundingIs ==
    ASSUME LineInv, NEW d \in Desks, NEW l, desk[d].work = "refunding", desk[d].line = l
    PROVE  /\ l \in Lines /\ desk[d] \in Desk /\ desk[d].refund \in RefundsOf(l)
           /\ ret[l].status = "APPROVED" /\ Refunding(l) = {d}
           /\ desk[d].saw \in {"OPEN", "APPROVED", "REFUSED", "ESCALATED"}
           /\ desk[d].saw = "APPROVED" => l \in stale
           /\ l \notin crossed => fulfilment[l] = "DELIVERED"
           /\ \A r : Current(l, r) => r = desk[d].refund
<1>1. l \in Lines /\ desk[d] \in Desk
  BY DeskIs DEF LineInv
<1>2. DeskRight(d) /\ LineRight(l)
  BY <1>1 DEF LineInv, DesksRight, LinesRight
<1>3. /\ desk[d].refund \in RefundsOf(l) /\ ret[l].status = "APPROVED" /\ Refunding(l) = {d}
      /\ desk[d].saw \in {"OPEN", "APPROVED", "REFUSED", "ESCALATED"}
      /\ desk[d].saw = "APPROVED" => l \in stale
  BY <1>2 DEF DeskRight
<1>4. l \notin crossed => fulfilment[l] = "DELIVERED"
  BY <1>2, <1>3 DEF LineRight
<1>5. \A r : Current(l, r) => r = desk[d].refund
  BY <1>3 DEF Current
<1> QED
  BY <1>1, <1>3, <1>4, <1>5

\* The row of a return.
ReturnRow == [status : ReturnStatus, refund : Refunds \cup {NoRefund}]
LEMMA ReturnMoves ==
    ASSUME ReturnsTypeOK, NEW l \in Lines, NEW row \in ReturnRow, ret' = [ret EXCEPT ![l] = row]
    PROVE  /\ ret' \in [Lines -> ReturnRow] /\ ret'[l] = row
           /\ \A k \in Lines \ {l} : ret'[k] = ret[k]
BY DEF ReturnsTypeOK, ReturnRow

\* A return that moves on, but is not approved, was not approved.
LEMMA StatusMoves ==
    ASSUME LineInv, NEW l \in Lines, NEW t \in ReturnStatus \ {"NONE", "APPROVED"},
           ret' = [ret EXCEPT ![l].status = t], ret[l].status # "APPROVED",
           l \in crossed \/ fulfilment[l] = "DELIVERED",
           UNCHANGED <<refundVars, fulfilment, mishaps, crossed, stale, stranded, unheard>>,
           desk' \in [Desks -> Desk \cup {NoWork}],
           \A e \in Desks : desk'[e] = desk[e]
                \/ (desk[e].work = "open" /\ desk[e].line = l /\ desk'[e] = NoWork)
    PROVE  LineInv'
<1>1. PICK row : row = [ret[l] EXCEPT !.status = t]
  OBVIOUS
<1>2. ret[l] \in ReturnRow
  BY DEF LineInv, ReturnsTypeOK, ReturnRow
<1>3. row \in ReturnRow /\ row.status = t /\ ret' = [ret EXCEPT ![l] = row]
  BY <1>1, <1>2 DEF ReturnRow
<1>4. /\ ret' \in [Lines -> ReturnRow] /\ ret'[l] = row
      /\ \A k \in Lines \ {l} : ret'[k] = ret[k]
  BY <1>3, ReturnMoves DEF LineInv
<1>5. IInv' /\ CallsName' /\ call' = call /\ job' = job /\ sent' = sent
  BY RefundsRest DEF LineInv, refundVars, CallsName
<1>6. ReturnsTypeOK'
  BY <1>4 DEF LineInv, ReturnsTypeOK, ReturnRow
<1>7. \A k : RefundsOf(k)' = RefundsOf(k)
  BY <1>5 DEF RefundsOf
<1>8. \A r : Over(r)' = Over(r)
  BY <1>5 DEF Over, MoneyLeft
<1>9. NoWork.work = "none"
  BY DEF NoWork
<1>10. /\ \A k \in Lines \ {l} : LineRight(k)'
       /\ \A k \in Lines \ {l} :
            ret'[k].status = "APPROVED" /\ Refunding(k)' = {} /\ k \notin stranded' \cup stale' =>
                ret'[k].refund \in RefundsOf(k)'
       /\ \A e \in Desks :
            /\ desk'[e] = desk[e]
            /\ desk[e].work \in {"approve", "refunding"} => desk[e].line \in Lines \ {l}
            => DeskRight(e)'
  BY <1>4, <1>7, <1>8, <1>9, OthersStay
<1>11. Refunding(l) = {} /\ \A r : ~Current(l, r)
  BY NobodyRefunds
<1>12. LineRight(l)'
  <2>1. LineRight(l)
    BY DEF LineInv, LinesRight
  <2>2. \A e \in Desks : /\ Busy(e, "refundLine", l)' => Busy(e, "refundLine", l)
    BY <1>9 DEF Busy
  <2> QED
    BY <1>7, <1>8, <1>11, <2>1, <2>2 DEF LineRight
<1>13. ASSUME NEW e \in Desks PROVE DeskRight(e)'
  <2>1. CASE desk'[e] = NoWork
    BY <2>1, <1>9 DEF DeskRight, Accepts
  <2>2. CASE desk'[e] = desk[e] /\ desk[e].line # l
    <3>1. desk[e].work \in {"approve", "refunding"} => desk[e].line \in Lines
      BY DeskIs DEF LineInv
    <3> QED
      BY <1>10, <2>2, <3>1
  <2>3. CASE desk'[e] = desk[e] /\ desk[e].line = l
    <3>1. desk[e].work # "refunding"
      BY <1>11, <2>3 DEF Refunding, Busy
    <3>2. DeskRight(e)
      BY DEF LineInv, DesksRight
    <3>3. ret'[l].status # "NONE"
      BY <1>3, <1>4
    <3> QED
      BY <2>3, <3>1, <3>2, <3>3, DeskStays
  <2> QED
    BY <2>1, <2>2, <2>3
<1>14. ReturnsHeld'
  BY <1>3, <1>4, <1>10 DEF ReturnsHeld
<1> QED
  BY <1>5, <1>6, <1>10, <1>12, <1>13, <1>14 DEF LineInv, DesksRight, LinesRight

\* What is answered, taken back or escalated was asked for.
LEMMA AnswersRight ==
    ASSUME LineInv, NEW l \in InPlay, NEW by \in Answerers,
           Withdraw(l) \/ Escalate(l) \/ RefuseReturn(l, by)
    PROVE  LineInv'
<1>1. l \in Lines
  BY ReturnsAssumption
<1>2. PICK t \in {"WITHDRAWN", "ESCALATED", "REFUSED", "REJECTED"} :
          /\ ret[l].status \in {"OPEN", "ESCALATED", "REFUSED"}
          /\ ret' = [ret EXCEPT ![l].status = t]
          /\ UNCHANGED <<refundVars, fulfilment, mishaps, desk, crossed, stale, stranded, unheard>>
  <2>1. Answerable(by) \subseteq {"OPEN", "ESCALATED", "REFUSED"}
    BY DEF Answerable
  <2>2. CASE Withdraw(l)
    BY <2>2 DEF Withdraw, Moves
  <2>3. CASE Escalate(l)
    BY <2>3 DEF Escalate, Moves
  <2>4. CASE RefuseReturn(l, by)
    BY <2>1, <2>4 DEF RefuseReturn, Moves
  <2> QED
    BY <2>2, <2>3, <2>4
<1>3. l \in crossed \/ fulfilment[l] = "DELIVERED"
  BY <1>1, <1>2 DEF LineInv, LinesRight, LineRight
<1>4. t \in ReturnStatus \ {"NONE", "APPROVED"} /\ desk \in [Desks -> Desk \cup {NoWork}]
  BY DEF ReturnStatus, LineInv, ReturnsTypeOK
<1> QED
  BY <1>1, <1>2, <1>3, <1>4, StatusMoves

\* A return is opened of a line that is delivered still, or was crossed.
LEMMA OpenReturnRight ==
    ASSUME LineInv, NEW d \in Desks, OpenReturn(d)
    PROVE  LineInv'
<1>0. PICK l : l = desk[d].line
  OBVIOUS
<1>1. /\ desk[d].work = "open" /\ desk' = [desk EXCEPT ![d] = NoWork]
      /\ ret' = IF ret[l].status = "NONE" THEN [ret EXCEPT ![l].status = "OPEN"] ELSE ret
      /\ UNCHANGED <<refundVars, fulfilment, mishaps, crossed, stale, stranded, unheard>>
  BY <1>0 DEF OpenReturn, Leaves
<1>2. l \in Lines /\ NoWork.work = "none" /\ "none" \notin DOMAIN Accepts
  BY <1>0, <1>1, DeskIs, AcceptsIs DEF LineInv, NoWork
<1>3. CASE ret[l].status = "NONE"
  <2>1. l \in crossed \/ fulfilment[l] = "DELIVERED"
    BY <1>0, <1>1, <1>2 DEF LineInv, LinesRight, LineRight, Busy
  <2>2. /\ desk' \in [Desks -> Desk \cup {NoWork}]
        /\ \A e \in Desks : desk'[e] = desk[e]
              \/ (desk[e].work = "open" /\ desk[e].line = l /\ desk'[e] = NoWork)
    BY <1>0, <1>1, DeskMoves DEF LineInv
  <2>3. "OPEN" \in ReturnStatus \ {"NONE", "APPROVED"} /\ ret[l].status # "APPROVED"
    BY <1>3 DEF ReturnStatus
  <2>4. ret' = [ret EXCEPT ![l].status = "OPEN"]
    BY <1>1, <1>3
  <2> QED
    BY <1>1, <1>2, <2>1, <2>2, <2>3, <2>4, StatusMoves
<1>4. CASE ret[l].status # "NONE"
  BY <1>1, <1>2, <1>4, ReadsRight
<1> QED
  BY <1>3, <1>4

\* Who moves a return to APPROVED asks for its refund; those asked for before
\* are over.
LEMMA ClaimReturnRight ==
    ASSUME LineInv, NEW d \in Desks, ClaimReturn(d)
    PROVE  LineInv'
<1>0. PICK l : l = desk[d].line
  OBVIOUS
<1>1. PICK q \in Refunds :
          /\ Ask(q, OrderOf[l], l, Price[l])
          /\ desk' = [desk EXCEPT ![d].work = "refunding", ![d].refund = q]
  BY <1>0 DEF ClaimReturn
<1>2. /\ desk[d].work = "approve" /\ ret[l].status \in Answerable(desk[d].by)
      /\ ret' = [ret EXCEPT ![l].status = "APPROVED"]
      /\ stale' = IF desk[d].saw = ret[l].status THEN stale ELSE stale \cup {l}
      /\ UNCHANGED <<fulfilment, mishaps, crossed, stranded, unheard>>
  BY <1>0 DEF ClaimReturn
<1>3. desk[d] \in Desk /\ l \in Lines
  BY <1>0, <1>2, DeskIs DEF LineInv
<1>4. PICK new : new = [[desk[d] EXCEPT !.work = "refunding"] EXCEPT !.refund = q]
  OBVIOUS
<1>5. /\ new \in Desk /\ new.work = "refunding" /\ new.line = l /\ new.refund = q
      /\ new.saw = desk[d].saw
  BY <1>0, <1>3, <1>4 DEF Desk, Work
<1>6. desk' = [desk EXCEPT ![d] = new]
  BY <1>1, <1>4
<1>7. /\ desk' \in [Desks -> Desk \cup {NoWork}] /\ desk'[d] = new
      /\ \A e \in Desks \ {d} : desk'[e] = desk[e]
  BY <1>5, <1>6, DeskMoves DEF LineInv
<1>8. ret[l].status # "APPROVED" /\ ret[l].status # "NONE"
  BY <1>2 DEF Answerable
<1>9. PICK row : row = [ret[l] EXCEPT !.status = "APPROVED"]
  OBVIOUS
<1>10. ret[l] \in ReturnRow
  BY <1>3 DEF LineInv, ReturnsTypeOK, ReturnRow
<1>11. row \in ReturnRow /\ row.status = "APPROVED" /\ ret' = [ret EXCEPT ![l] = row]
  BY <1>2, <1>9, <1>10 DEF ReturnRow, ReturnStatus
<1>12. /\ ret' \in [Lines -> ReturnRow] /\ ret'[l] = row
       /\ \A k \in Lines \ {l} : ret'[k] = ret[k]
  BY <1>3, <1>11, ReturnMoves DEF LineInv
<1>13. /\ IInv' /\ CallsName'
       /\ RefundsOf(l)' = RefundsOf(l) \cup {q} /\ q \notin RefundsOf(l)
       /\ \A k \in Lines \ {l} : RefundsOf(k)' = RefundsOf(k) /\ q \notin RefundsOf(k)
       /\ \A r \in Refunds \ {q} : job'[r] = job[r] /\ sent'[r] = sent[r]
  BY <1>1, <1>3, AskMoves DEF LineInv
<1>14. ASSUME NEW k \in Lines, NEW r \in RefundsOf(k), Over(r) PROVE Over(r)'
  <2>1. r \in Refunds \ {q}
    BY <1>13, <1>14 DEF RefundsOf
  <2> QED
    BY <1>2, <1>13, <1>14, <2>1 DEF Over, MoneyLeft
<1>15. stale \subseteq stale' /\ stale' \subseteq stale \cup {l}
  BY <1>2
<1>16. ReturnsTypeOK'
  BY <1>2, <1>3, <1>7, <1>12, <1>15 DEF LineInv, ReturnsTypeOK, ReturnRow
<1>17. /\ \A k \in Lines \ {l} : LineRight(k)'
       /\ \A k \in Lines \ {l} :
            ret'[k].status = "APPROVED" /\ Refunding(k)' = {} /\ k \notin stranded' \cup stale' =>
                ret'[k].refund \in RefundsOf(k)'
       /\ \A e \in Desks :
            /\ desk'[e] = desk[e]
            /\ desk[e].work \in {"approve", "refunding"} => desk[e].line \in Lines \ {l}
            => DeskRight(e)'
  <2>1. \A e \in Desks : desk'[e] = desk[e]
            \/ (desk[e].line = l /\ (desk'[e].line = l \/ desk'[e].work = "none"))
    BY <1>0, <1>5, <1>7
  <2>2. \A k \in Lines \ {l} : /\ fulfilment'[k] = fulfilment[k] /\ ret'[k] = ret[k]
                               /\ RefundsOf(k)' = RefundsOf(k)
                               /\ k \in stale' => k \in stale
                               /\ (k \in stranded' <=> k \in stranded)
    BY <1>2, <1>12, <1>13, <1>15
  <2> QED
    BY <1>2, <1>3, <1>14, <1>15, <2>1, <2>2, OthersStay
<1>18. Refunding(l) = {} /\ \A r : ~Current(l, r)
  BY <1>3, <1>8, NobodyRefunds
<1>19. Refunding(l)' = {d}
  BY <1>5, <1>7, <1>18 DEF Refunding, Busy
<1>20. LineRight(l)'
  <2> SUFFICES ASSUME l \notin crossed' PROVE LineRight(l)'
    BY DEF LineRight
  <2>1. LineRight(l) /\ l \notin crossed
    BY <1>2, <1>3 DEF LineInv, LinesRight
  <2>2. fulfilment'[l] = "DELIVERED" /\ fulfilment[l] = "DELIVERED"
    BY <1>2, <1>8, <2>1 DEF LineRight
  <2>3. \A e \in Desks : ~Busy(e, "refundLine", l)'
    BY <1>5, <1>7, <2>1, <2>2 DEF LineRight, Busy
  <2>4. Current(l, q)'
    BY <1>5, <1>7, <1>19 DEF Current
  <2>5. l \notin stranded' => \A r \in RefundsOf(l) : Over(r)'
    BY <1>2, <1>3, <1>14, <1>18, <2>1, <2>2 DEF LineRight
  <2> QED
    BY <1>13, <2>2, <2>3, <2>4, <2>5 DEF LineRight
<1>21. ASSUME NEW e \in Desks PROVE DeskRight(e)'
  <2>1. CASE e = d
    <3>1. desk[d].saw \in {"OPEN", "APPROVED", "REFUSED", "ESCALATED"}
      BY <1>2 DEF LineInv, DesksRight, DeskRight
    <3>2. desk[d].saw = "APPROVED" => l \in stale'
      BY <1>2, <1>8
    <3>3. new.work \notin DOMAIN Accepts
      BY <1>5, AcceptsIs
    <3>4. q \in RefundsOf(l)' /\ ret'[l].status = "APPROVED"
      BY <1>11, <1>12, <1>13
    <3>5. new.work \notin DOMAIN Accepts'
      BY <3>3 DEF Accepts
    <3> QED
      BY <1>5, <1>7, <1>19, <2>1, <3>1, <3>2, <3>4, <3>5 DEF DeskRight, RefundsOf, Refunding, Busy
  <2>2. CASE e # d /\ desk[e].line # l
    <3>1. desk[e].work \in {"approve", "refunding"} => desk[e].line \in Lines
      BY DeskIs DEF LineInv
    <3> QED
      BY <1>7, <1>17, <2>2, <3>1
  <2>3. CASE e # d /\ desk[e].line = l
    <3>1. desk[e].work # "refunding"
      BY <1>18, <2>3 DEF Refunding, Busy
    <3>2. DeskRight(e) /\ desk'[e] = desk[e]
      BY <1>7, <2>3 DEF LineInv, DesksRight
    <3>3. ret'[l].status # "NONE"
      BY <1>11, <1>12
    <3> QED
      BY <2>3, <3>1, <3>2, <3>3, DeskStays
  <2> QED
    BY <2>1, <2>2, <2>3
<1>22. ReturnsHeld'
  BY <1>17, <1>19 DEF ReturnsHeld
<1> QED
  BY <1>13, <1>16, <1>17, <1>20, <1>21, <1>22 DEF LineInv, DesksRight, LinesRight

\* A request that refunds ends: its refund is over, recorded, or stranded.
LEMMA RefundingEnds ==
    ASSUME LineInv, NEW d \in Desks, NEW l, desk[d].work = "refunding", desk[d].line = l,
           NEW q, q = desk[d].refund, desk' = [desk EXCEPT ![d] = NoWork],
           NEW row \in ReturnRow, ret' = [ret EXCEPT ![l] = row], row.status # "NONE",
           IInv', CallsName', \A k \in Lines : RefundsOf(k)' = RefundsOf(k),
           \A k \in Lines : \A r \in RefundsOf(k) : Over(r) => Over(r)',
           UNCHANGED <<fulfilment, crossed, stale>>,
           stranded \subseteq stranded', stranded' \subseteq stranded \cup {l},
           unheard' \subseteq Refunds, mishaps' \in 0..MaxMishaps,
           l \in stranded' \/ Over(q)' \/ (row.status = "APPROVED" /\ row.refund = q),
           row.status = "APPROVED" /\ l \notin stranded' \cup stale => row.refund = q
    PROVE  LineInv'
<1>1. /\ l \in Lines /\ q \in RefundsOf(l) /\ ret[l].status = "APPROVED" /\ Refunding(l) = {d}
      /\ l \notin crossed => fulfilment[l] = "DELIVERED"
      /\ \A r : Current(l, r) => r = q
  BY RefundingIs
<1>2. NoWork.work = "none" /\ "none" \notin DOMAIN Accepts
  BY AcceptsIs DEF NoWork
<1>3. /\ desk' \in [Desks -> Desk \cup {NoWork}] /\ desk'[d] = NoWork
      /\ \A e \in Desks \ {d} : desk'[e] = desk[e]
  BY DeskMoves DEF LineInv
<1>4. /\ ret' \in [Lines -> ReturnRow] /\ ret'[l] = row
      /\ \A k \in Lines \ {l} : ret'[k] = ret[k]
  BY <1>1, ReturnMoves DEF LineInv
<1>5. ReturnsTypeOK'
  BY <1>1, <1>3, <1>4 DEF LineInv, ReturnsTypeOK, ReturnRow
<1>6. /\ \A k \in Lines \ {l} : LineRight(k)'
      /\ \A k \in Lines \ {l} :
           ret'[k].status = "APPROVED" /\ Refunding(k)' = {} /\ k \notin stranded' \cup stale' =>
               ret'[k].refund \in RefundsOf(k)'
      /\ \A e \in Desks :
           /\ desk'[e] = desk[e]
           /\ desk[e].work \in {"approve", "refunding"} => desk[e].line \in Lines \ {l}
           => DeskRight(e)'
  <2>1. \A e \in Desks : desk'[e] = desk[e]
            \/ (desk[e].line = l /\ (desk'[e].line = l \/ desk'[e].work = "none"))
    BY <1>2, <1>3
  <2>2. \A k \in Lines \ {l} : /\ fulfilment'[k] = fulfilment[k] /\ ret'[k] = ret[k]
                               /\ RefundsOf(k)' = RefundsOf(k)
                               /\ k \in stale' => k \in stale
                               /\ (k \in stranded' <=> k \in stranded)
    BY <1>4
  <2> QED
    BY <1>1, <2>1, <2>2, OthersStay
<1>7. Refunding(l)' = {}
  BY <1>1, <1>2, <1>3 DEF Refunding, Busy
<1>8. LineRight(l)'
  <2> SUFFICES ASSUME l \notin crossed' PROVE LineRight(l)'
    BY DEF LineRight
  <2>1. LineRight(l) /\ fulfilment[l] = "DELIVERED" /\ fulfilment'[l] = "DELIVERED"
    BY <1>1 DEF LineInv, LinesRight
  <2>2. \A e \in Desks : ~Busy(e, "refundLine", l)'
    BY <1>2, <1>3, <2>1 DEF LineRight, Busy
  <2>3. ASSUME l \notin stranded', NEW r \in RefundsOf(l) PROVE Over(r)' \/ Current(l, r)'
    <3>1. Over(r) \/ r = q
      BY <1>1, <2>1, <2>3 DEF LineRight
    <3>2. row.status = "APPROVED" /\ row.refund = q => Current(l, q)'
      BY <1>4, <1>7 DEF Current
    <3> QED
      BY <1>1, <2>3, <3>1, <3>2
  <2> QED
    BY <1>1, <2>1, <2>2, <2>3 DEF LineRight
<1>9. ASSUME NEW e \in Desks PROVE DeskRight(e)'
  <2>1. CASE e = d
    BY <1>2, <1>3, <2>1 DEF DeskRight, Accepts
  <2>2. CASE e # d /\ desk[e].line # l
    <3>1. desk[e].work \in {"approve", "refunding"} => desk[e].line \in Lines
      BY DeskIs DEF LineInv
    <3> QED
      BY <1>3, <1>6, <2>2, <3>1
  <2>3. CASE e # d /\ desk[e].line = l
    <3>1. desk[e].work # "refunding"
      BY <1>1, <2>3 DEF Refunding, Busy
    <3>2. DeskRight(e) /\ desk'[e] = desk[e]
      BY <1>3, <2>3 DEF LineInv, DesksRight
    <3>3. ret'[l].status # "NONE"
      BY <1>4
    <3> QED
      BY <2>3, <3>1, <3>2, <3>3, DeskStays
  <2> QED
    BY <2>1, <2>2, <2>3
<1>10. ReturnsHeld'
  <2>1. ret'[l].status = "APPROVED" /\ l \notin stranded' \cup stale' => ret'[l].refund \in RefundsOf(l)'
    BY <1>1, <1>4
  <2> QED
    BY <1>6, <2>1 DEF ReturnsHeld
<1> QED
  BY <1>5, <1>6, <1>8, <1>9, <1>10 DEF LineInv, DesksRight, LinesRight

\* The refund was issued, and its return names it.
LEMMA RecordRefundRight ==
    ASSUME LineInv, NEW d \in Desks, RecordRefund(d)
    PROVE  LineInv'
<1>0. PICK l, q : l = desk[d].line /\ q = desk[d].refund
  OBVIOUS
<1>1. /\ desk[d].work = "refunding" /\ desk' = [desk EXCEPT ![d] = NoWork]
      /\ ret' = [ret EXCEPT ![l].refund = q]
      /\ UNCHANGED <<refundVars, fulfilment, mishaps, crossed, stale, stranded, unheard>>
  BY <1>0 DEF RecordRefund, Leaves
<1>2. l \in Lines /\ desk[d] \in Desk /\ q \in RefundsOf(l) /\ ret[l].status = "APPROVED"
  BY <1>0, <1>1, RefundingIs
<1>3. PICK row : row = [ret[l] EXCEPT !.refund = q]
  OBVIOUS
<1>4. ret[l] \in ReturnRow /\ q \in Refunds
  BY <1>2 DEF LineInv, ReturnsTypeOK, ReturnRow, RefundsOf
<1>5. row \in ReturnRow /\ row.status = "APPROVED" /\ row.refund = q /\ ret' = [ret EXCEPT ![l] = row]
  BY <1>1, <1>2, <1>3, <1>4 DEF ReturnRow
<1>6. IInv' /\ CallsName' /\ (\A k \in Lines : RefundsOf(k)' = RefundsOf(k))
      /\ \A r : Over(r)' = Over(r)
  BY <1>1, RefundsRest DEF LineInv, refundVars, CallsName, RefundsOf, Over, MoneyLeft
<1>7. unheard' \subseteq Refunds /\ mishaps' \in 0..MaxMishaps
  BY <1>1 DEF LineInv, ReturnsTypeOK
<1>8. /\ desk[d].work = "refunding" /\ desk[d].line = l /\ q = desk[d].refund
      /\ desk' = [desk EXCEPT ![d] = NoWork]
      /\ UNCHANGED <<fulfilment, crossed, stale>>
  BY <1>0, <1>1
<1>9. \A k \in Lines : \A r \in RefundsOf(k) : Over(r) => Over(r)'
  BY <1>6
<1>10. stranded \subseteq stranded' /\ stranded' \subseteq stranded \cup {l}
  BY <1>1
<1>11. row.status # "NONE"
  BY <1>5
<1>12. /\ IInv' /\ CallsName' /\ (\A k \in Lines : RefundsOf(k)' = RefundsOf(k))
       /\ row \in ReturnRow /\ ret' = [ret EXCEPT ![l] = row]
       /\ row.status = "APPROVED" /\ row.refund = q
  BY <1>5, <1>6
<1> QED
  BY ONLY LineInv, d \in Desks, <1>7, <1>8, <1>9, <1>10, <1>11, <1>12, RefundingEnds

\* The return is put back as it was read, if the refund failed or could not be
\* recorded.
LEMMA RevertsRight ==
    ASSUME LineInv, NEW d \in Desks, Revert(d) \/ RecordFails(d)
    PROVE  LineInv'
<1>0. PICK l, q : l = desk[d].line /\ q = desk[d].refund
  OBVIOUS
<1>1. /\ desk[d].work = "refunding" /\ desk' = [desk EXCEPT ![d] = NoWork]
      /\ ret' = [ret EXCEPT ![l] = PutBack(@, d)]
      /\ unheard' = IF MoneyLeft(q) THEN unheard \cup {q} ELSE unheard
      /\ UNCHANGED <<refundVars, fulfilment, crossed, stale>>
  BY <1>0 DEF Revert, RecordFails, Reverts, Leaves
<1>2. /\ l \in Lines /\ desk[d] \in Desk /\ q \in RefundsOf(l) /\ ret[l].status = "APPROVED"
      /\ desk[d].saw \in {"OPEN", "APPROVED", "REFUSED", "ESCALATED"}
      /\ desk[d].saw = "APPROVED" => l \in stale
  BY <1>0, <1>1, RefundingIs
<1>3. PICK row : row = [ret[l] EXCEPT !.status = desk[d].saw]
  OBVIOUS
<1>4. ret[l] \in ReturnRow /\ q \in Refunds /\ ret \in [Lines -> ReturnRow]
  BY <1>2 DEF LineInv, ReturnsTypeOK, ReturnRow, RefundsOf
<1>5. row \in ReturnRow /\ row.status = desk[d].saw
  BY <1>2, <1>3, <1>4 DEF ReturnRow, ReturnStatus
<1>6. ret' = [ret EXCEPT ![l] = row]
  BY <1>1, <1>2, <1>3, <1>4 DEF PutBack
<1>7. /\ IInv' /\ CallsName' /\ (\A k \in Lines : RefundsOf(k)' = RefundsOf(k))
      /\ call' = call /\ job' = job /\ sent' = sent
  BY <1>1, RefundsRest DEF LineInv, refundVars, CallsName, RefundsOf
<1>8. unheard \subseteq unheard' /\ unheard' \subseteq Refunds /\ mishaps \in 0..MaxMishaps
  BY <1>1, <1>4 DEF LineInv, ReturnsTypeOK
<1>9. \A r : Over(r) => Over(r)'
  BY <1>7, <1>8 DEF Over, MoneyLeft
<1>10. row.status # "NONE" /\ (row.status = "APPROVED" => l \in stale)
  BY <1>2, <1>5
<1>11. /\ desk[d].work = "refunding" /\ desk[d].line = l /\ q = desk[d].refund
       /\ desk' = [desk EXCEPT ![d] = NoWork]
       /\ UNCHANGED <<fulfilment, crossed, stale>> /\ unheard' \subseteq Refunds
  BY <1>0, <1>1, <1>8
<1>12. /\ IInv' /\ CallsName' /\ (\A k \in Lines : RefundsOf(k)' = RefundsOf(k))
       /\ \A k \in Lines : \A r \in RefundsOf(k) : Over(r) => Over(r)'
  BY <1>7, <1>9
<1>13. /\ row \in ReturnRow /\ ret' = [ret EXCEPT ![l] = row] /\ row.status # "NONE"
       /\ row.status = "APPROVED" /\ l \notin stranded' \cup stale => row.refund = q
  BY <1>5, <1>6, <1>10
<1>14. CASE Revert(d)
  <2>1. job[q].task = "threw" /\ mishaps' = mishaps /\ stranded' = stranded
    BY <1>0, <1>14 DEF Revert
  <2>2. Over(q)'
    BY <1>1, <1>4, <1>7, <2>1 DEF Over, MoneyLeft
  <2>3. /\ mishaps' \in 0..MaxMishaps
        /\ stranded \subseteq stranded' /\ stranded' \subseteq stranded \cup {l}
    BY <1>8, <2>1
  <2> QED
    BY ONLY LineInv, d \in Desks, <1>11, <1>12, <1>13, <2>2, <2>3, RefundingEnds
<1>15. CASE RecordFails(d)
  <2>1. mishaps' \in 0..MaxMishaps
    BY <1>8, <1>15, ReturnsAssumption DEF RecordFails, Mishap
  <2>2. stranded' = stranded \cup {l}
    BY <1>0, <1>15 DEF RecordFails
  <2>3. stranded \subseteq stranded' /\ stranded' \subseteq stranded \cup {l} /\ l \in stranded'
    BY <2>2
  <2> QED
    BY ONLY LineInv, d \in Desks, <1>11, <1>12, <1>13, <2>1, <2>3, RefundingEnds
<1> QED
  BY <1>14, <1>15

\* A line is right whatever its refunds do of their own.
LEMMA RefundStays ==
    ASSUME LineInv, RefundStep \/ UNCHANGED refundVars
    PROVE  /\ IInv' /\ CallsName' /\ \A k : RefundsOf(k)' = RefundsOf(k)
           /\ \A r \in Refunds : unheard \subseteq unheard' /\ Over(r) => Over(r)'
<1>1. CASE RefundStep
  <2>1. /\ IInv'
        /\ \A r \in Refunds :
               /\ call'[r] = NoCall <=> call[r] = NoCall
               /\ call[r] # NoCall => call'[r].line = call[r].line
               /\ job[r].task = "threw" => job'[r].task = "threw" /\ (MoneyLeft(r)' => MoneyLeft(r))
    BY <1>1, RefundMoves DEF LineInv
  <2> QED
    BY <2>1 DEF LineInv, CallsName, RefundsOf, Over
<1>2. CASE UNCHANGED refundVars
  BY <1>2, RefundsRest DEF LineInv, refundVars, CallsName, RefundsOf, Over, MoneyLeft
<1> QED
  BY <1>1, <1>2

\* A process that dies strands the return it was refunding.
LEMMA DeskDiesRight ==
    ASSUME LineInv, NEW d \in Desks, DeskDies(d)
    PROVE  LineInv'
<1>0. PICK l, q : l = desk[d].line /\ q = desk[d].refund
  OBVIOUS
<1>1. /\ desk[d].work = "refunding" /\ desk' = [desk EXCEPT ![d] = NoWork]
      /\ stranded' = stranded \cup {l} /\ mishaps < MaxMishaps /\ mishaps' = mishaps + 1
      /\ UNCHANGED <<fulfilment, ret, crossed, stale, unheard>>
  BY <1>0 DEF DeskDies, Leaves, Mishap
<1>2. l \in Lines /\ q \in RefundsOf(l) /\ q \in Refunds /\ ret[l].status = "APPROVED"
  BY <1>0, <1>1, RefundingIs DEF RefundsOf
<1>3. RefundStep \/ UNCHANGED refundVars
  BY <1>0, <1>2 DEF DeskDies, RefundStep
<1>4. PICK row : row = ret[l]
  OBVIOUS
<1>5. row \in ReturnRow /\ row.status # "NONE" /\ ret' = [ret EXCEPT ![l] = row]
  BY <1>1, <1>2, <1>4 DEF LineInv, ReturnsTypeOK, ReturnRow
<1>6. /\ IInv' /\ CallsName' /\ \A k : RefundsOf(k)' = RefundsOf(k)
      /\ \A k : \A r \in RefundsOf(k) : Over(r) => Over(r)'
  BY <1>1, <1>3, RefundStays DEF RefundsOf
<1>7. unheard' \subseteq Refunds /\ mishaps' \in 0..MaxMishaps
  BY <1>1, ReturnsAssumption DEF LineInv, ReturnsTypeOK
<1> QED
  BY <1>0, <1>1, <1>5, <1>6, <1>7, RefundingEnds

\* A refund goes on, or nothing does.
LEMMA RefundGoesOnRight ==
    ASSUME LineInv, RefundGoesOn \/ UNCHANGED vars
    PROVE  LineInv'
<1>1. /\ RefundStep \/ UNCHANGED refundVars
      /\ UNCHANGED <<fulfilment, ret, desk, crossed, stale, stranded, unheard>>
      /\ mishaps' \in 0..MaxMishaps
  BY ReturnsAssumption DEF RefundGoesOn, vars, returnVars, Mishap, LineInv, ReturnsTypeOK
<1>2. /\ IInv' /\ CallsName' /\ \A k : RefundsOf(k)' = RefundsOf(k)
      /\ \A k : \A r \in RefundsOf(k) : Over(r) => Over(r)'
  BY <1>1, RefundStays DEF RefundsOf
<1>3. ReturnsTypeOK'
  BY <1>1 DEF LineInv, ReturnsTypeOK
<1>4. \A k : Refunding(k)' = Refunding(k)
  BY <1>1 DEF Refunding, Busy
<1>5. ASSUME NEW k \in Lines PROVE LineRight(k)'
  <2>1. LineRight(k)
    BY DEF LineInv, LinesRight
  <2>2. \A e \in Desks : /\ Busy(e, "open", k)' => Busy(e, "open", k)
                         /\ Busy(e, "refundLine", k)' => Busy(e, "refundLine", k)
    BY <1>1 DEF Busy
  <2> QED
    BY <1>1, <1>2, <1>4, <2>1, <2>2, LineStays
<1>6. ASSUME NEW e \in Desks PROVE DeskRight(e)'
  <2>1. PICK k : k = desk[e].line
    OBVIOUS
  <2>2. DeskRight(e) /\ desk'[e] = desk[e]
    BY <1>1 DEF LineInv, DesksRight
  <2>3. /\ desk[e].work \in {"approve", "refunding"} => ret'[k].status # "NONE"
        /\ desk[e].work = "refunding" => ret'[k].status = "APPROVED"
    BY <1>1, <2>1, <2>2 DEF DeskRight
  <2> QED
    BY <1>1, <1>2, <1>4, <2>1, <2>2, <2>3, DeskStays
<1>7. ReturnsHeld'
  BY <1>1, <1>2, <1>4 DEF LineInv, ReturnsHeld
<1> QED
  BY <1>2, <1>3, <1>5, <1>6, <1>7 DEF LineInv, DesksRight, LinesRight

\* At the start nothing is sent, returned or refunded.
LEMMA LinesStart == ReturnsInit => LineInv
<1> SUFFICES ASSUME ReturnsInit PROVE LineInv
  OBVIOUS
<1>1. IInv /\ call = [r \in Refunds |-> NoCall]
  BY InitIInv DEF ReturnsInit, RefundInit
<1>2. NoWork.work = "none" /\ "none" \notin DOMAIN Accepts
  BY AcceptsIs DEF NoWork
<1>3. ReturnsTypeOK
  BY ReturnsAssumption DEF ReturnsInit, ReturnsTypeOK, Fulfilment, ReturnStatus
<1>4. CallsName /\ \A l \in Lines : RefundsOf(l) = {}
  BY <1>1 DEF CallsName, RefundsOf
<1>5. \A d \in Desks : desk[d] = NoWork
  BY DEF ReturnsInit
<1>6. DesksRight
  BY <1>2, <1>5 DEF DesksRight, DeskRight
<1>7. LinesRight
  <2>1. \A l \in Lines : fulfilment[l] = "UNFULFILLED" /\ ret[l].status = "NONE"
    BY DEF ReturnsInit
  <2>2. \A l : \A d \in Desks : ~Busy(d, "open", l) /\ ~Busy(d, "refundLine", l)
    BY <1>2, <1>5 DEF Busy
  <2> QED
    BY <1>4, <2>1, <2>2 DEF LinesRight, LineRight
<1>8. ReturnsHeld
  BY DEF ReturnsInit, ReturnsHeld
<1> QED
  BY <1>1, <1>3, <1>4, <1>6, <1>7, <1>8 DEF LineInv

\* Every step keeps the invariant.
LEMMA LinesKept == LineInv /\ [ReturnsNext]_vars => LineInv'
<1> SUFFICES ASSUME LineInv, [ReturnsNext]_vars PROVE LineInv'
  OBVIOUS
<1>1. "seller" \in Answerers
  BY DEF Answerers
<1>2. CASE LineStep
  BY <1>1, <1>2, ReadFirstRight, WriteLineRight, RefundLineRight DEF LineStep
<1>3. CASE ReturnStep
  BY <1>1, <1>3, ReadFirstRight, AnswersRight, OpenReturnRight, ClaimReturnRight, LoseReturnRight,
     RecordRefundRight, RevertsRight, DeskDiesRight DEF ReturnStep
<1>4. CASE RefundGoesOn \/ UNCHANGED vars
  BY <1>4, RefundGoesOnRight
<1> QED
  BY <1>2, <1>3, <1>4 DEF ReturnsNext

\* Of two refunds of a line that nothing crossed or stranded, one is over.
LEMMA LinesImply == LineInv => ReturnsInv
<1> SUFFICES ASSUME LineInv PROVE ApprovedHasRefund /\ ReturnedWasDelivered /\ LinePaidBackOnce
  BY DEF LineInv, ReturnsInv
<1>1. ApprovedHasRefund
  <2> SUFFICES ASSUME NEW l \in Lines, ret[l].status = "APPROVED", ~InHand(l), l \notin stranded \cup stale
               PROVE  ret[l].refund # NoRefund /\ call[ret[l].refund].line = l
    BY DEF ApprovedHasRefund
  <2>1. Refunding(l) = {}
    BY DEF InHand, Refunding, Busy
  <2>2. ret[l].refund \in RefundsOf(l)
    BY <2>1 DEF LineInv, ReturnsHeld
  <2> QED
    BY <2>2, ReturnsAssumption DEF RefundsOf
<1>2. ReturnedWasDelivered
  BY DEF LineInv, LinesRight, LineRight, ReturnedWasDelivered
<1>3. LinePaidBackOnce
  <2> SUFFICES ASSUME NEW r \in Refunds, NEW s \in Refunds, r # s,
                      call[r] # NoCall, call[s] # NoCall, call[r].line = call[s].line,
                      MoneyLeft(r), MoneyLeft(s),
                      call[r].line \notin crossed \cup stranded, {r, s} \cap unheard = {}
               PROVE  FALSE
    BY DEF LinePaidBackOnce
  <2>1. PICK l \in Lines : l = call[r].line
    BY DEF LineInv, CallsName
  <2>2. r \in RefundsOf(l) /\ s \in RefundsOf(l)
    BY <2>1 DEF RefundsOf
  <2>3. LineRight(l) /\ l \notin crossed /\ l \notin stranded /\ fulfilment[l] \in Fulfilment
    BY <2>1 DEF LineInv, LinesRight, ReturnsTypeOK
  <2>4. fulfilment[l] = "DELIVERED"
    BY <2>2, <2>3 DEF LineRight, Fulfilment
  <2>5. Current(l, r) /\ Current(l, s)
    BY <2>2, <2>3, <2>4 DEF LineRight, Over
  <2>6. \A d, e \in Refunding(l) : d = e
    BY DEF LineInv, DesksRight, DeskRight, Refunding, Busy
  <2> QED
    BY <2>5, <2>6 DEF Current
<1> QED
  BY <1>1, <1>2, <1>3

\* For any orders, lines, requests, refunds and webhook deliveries: an approved
\* return has the refund of its line, a line is returned only if it was
\* delivered, and its money goes back once (returns.ts:105, :331, sales.ts:442).
THEOREM ReturnsAreRight == ReturnsSpec => []ReturnsInv
<1>1. ReturnsSpec => []LineInv
  BY LinesStart, LinesKept, PTL DEF ReturnsSpec
<1> QED
  BY <1>1, LinesImply, PTL

\* A write that acts on the status it read moves the line forwards.
LEMMA WriteAdvances ==
    ASSUME LineInv, NEW d \in Desks, WriteLine(d)
    PROVE  \A l \in Lines : fulfilment'[l] = fulfilment[l]
              \/ Rank[fulfilment'[l]] > Rank[fulfilment[l]] \/ l \in crossed'
<1>0. PICK l, work : l = desk[d].line /\ work = desk[d].work
  OBVIOUS
<1>1. work \in {"ship", "deliver", "giveUp"}
  BY <1>0, AcceptsIs DEF WriteLine
<1>2. l \in Lines
  BY <1>0, <1>1, DeskIs DEF LineInv
<1>3. /\ fulfilment' = [fulfilment EXCEPT ![l] = Writes[work]]
      /\ crossed' = IF fulfilment[l] = desk[d].saw THEN crossed ELSE crossed \cup {l}
      /\ fulfilment \in [Lines -> Fulfilment]
  BY <1>0 DEF WriteLine, LineInv, ReturnsTypeOK
<1>4. desk[d].saw \in Accepts[work]
  BY <1>0, <1>1, AcceptsIs DEF LineInv, DesksRight, DeskRight
<1>5. \A saw \in Accepts[work] : Rank[Writes[work]] > Rank[saw]
  BY <1>1, AcceptsIs DEF Rank
<1> QED
  BY <1>2, <1>3, <1>4, <1>5

\* Only writes move a line.
LEMMA OnlyWritesMove ==
    ASSUME [ReturnsNext]_vars
    PROVE  fulfilment' = fulfilment \/ \E d \in Desks : WriteLine(d)
BY DEF ReturnsNext, LineStep, ReturnStep, RefundGoesOn, vars, returnVars, ReadLine, RefundLine,
   ReadEligibility, Withdraw, Escalate, RefuseReturn, Moves, ReadReturn, OpenReturn, ClaimReturn,
   LoseReturn, RecordRefund, Revert, RecordFails, Reverts, DeskDies

\* For the same: fulfilment only advances, unless a write acted on a status that
\* had changed (sales.ts:428).
THEOREM FulfilmentAlwaysAdvances == ReturnsSpec => FulfilmentAdvances
<1>1. LineInv /\ [ReturnsNext]_vars =>
        [\A l \in Lines :
            fulfilment'[l] = fulfilment[l] \/ Rank[fulfilment'[l]] > Rank[fulfilment[l]]
                \/ l \in crossed']_vars
  BY OnlyWritesMove, WriteAdvances
<1> QED
  BY <1>1, LinesStart, LinesKept, PTL DEF ReturnsSpec, FulfilmentAdvances
=============================================================================
