-------------------------- MODULE RunLedgerProofs --------------------------
(***************************************************************************)
(* The theorems of module RunLedger, for any number of keys and            *)
(* invocations and any timeout, lease and delays that satisfy its          *)
(* assumptions.                                                            *)
(***************************************************************************)
EXTENDS RunLedger, TLAPS

(* The actions, by name, for the case splits below.                        *)
LEMMA StepCases ==
  ASSUME [LedgerNext]_ledgerVars
  PROVE  \/ Tick
         \/ UNCHANGED ledgerVars
         \/ \E i \in Invocation :
              \/ \E k \in Key : Deliver(i, k) \/ RerunByHand(i, k)
              \/ Dispatch(i) \/ Retry(i) \/ ClaimRun(i) \/ SkipRun(i)
              \/ RefuseRun(i) \/ RaiseBeforeClaim(i) \/ FinishRun(i)
              \/ RefreshSummary(i) \/ PrunePartitions(i) \/ ReturnResult(i)
              \/ Raise(i) \/ FailRun(i) \/ Crash(i) \/ Kill(i)
  BY DEF LedgerNext, Worker, Lambda

(* The bound of the clocks is a number no smaller than either of them.     *)
LEMMA MaxElapsedBounds ==
  /\ MaxElapsed \in Nat
  /\ Timeout \in 0..MaxElapsed
  /\ RetryDelay \in 0..MaxElapsed
  BY LedgerAssumption DEF MaxElapsed, Larger

-----------------------------------------------------------------------------
(* Type correctness.                                                       *)

LEMMA TickType ==
  ASSUME TypeOK, Tick
  PROVE  claimAge' \in [Key -> 0..(Lease + 1)] /\ elapsed' \in [Invocation -> 0..MaxElapsed]
<1>1. ASSUME NEW k \in Key, claimAge[k] <= Lease
      PROVE  claimAge[k] + 1 \in 0..(Lease + 1)
  BY <1>1, LedgerAssumption DEF TypeOK
<1>2. ASSUME NEW i \in Invocation,
             pc[i] \in Live \/ (pc[i] = "backoff" /\ elapsed[i] < RetryDelay)
      PROVE  elapsed[i] + 1 \in 0..MaxElapsed
  BY <1>2, LedgerAssumption, MaxElapsedBounds DEF TypeOK, Tick
<1>3. claimAge' \in [Key -> 0..(Lease + 1)]
  BY <1>1 DEF TypeOK, Tick, Aged
<1>4. elapsed' \in [Invocation -> 0..MaxElapsed]
  BY <1>2, LedgerAssumption, MaxElapsedBounds DEF TypeOK, Tick, Aged
<1>5. QED
  BY <1>3, <1>4

LEMMA LoseAttemptType ==
  ASSUME TypeOK, NEW i \in Invocation, LoseAttempt(i)
  PROVE  /\ elapsed' \in [Invocation -> 0..MaxElapsed]
         /\ pc' \in [Invocation -> Step]
         /\ alarmed' \subseteq Key
<1>1. elapsed' \in [Invocation -> 0..MaxElapsed]
  BY MaxElapsedBounds DEF TypeOK, LoseAttempt
<1>2. pc' \in [Invocation -> Step]
  BY DEF TypeOK, LoseAttempt, Step, Pending
<1>3. alarmed' \subseteq Key
  BY DEF TypeOK, LoseAttempt
<1>4. QED
  BY <1>1, <1>2, <1>3

LEMMA InitType == LedgerInit => TypeOK
<1>1. (CHOOSE k \in Key : TRUE) \in Key
  BY LedgerAssumption
<1>2. LedgerInit => claimAge \in [Key -> 0..(Lease + 1)]
  BY LedgerAssumption DEF LedgerInit
<1>3. LedgerInit => elapsed \in [Invocation -> 0..MaxElapsed]
  BY MaxElapsedBounds DEF LedgerInit
<1>4. LedgerInit => job \in [Invocation -> Key]
  BY <1>1 DEF LedgerInit
<1>5. LedgerInit => manual \in [Invocation -> BOOLEAN] /\ timedOut \in [Invocation -> BOOLEAN]
  BY Zenon DEF LedgerInit
<1>6. LedgerInit => attempt \in [Invocation -> 1..2] /\ nextRunId \in Nat
  BY DEF LedgerInit
<1>7. LedgerInit => runId \in [Key -> Nat] /\ status \in [Key -> Status]
  BY DEF LedgerInit, Status
<1>8. LedgerInit => holder \in [Key -> Invocation \cup {NoInvocation}] /\ alarmed \subseteq Key
  BY DEF LedgerInit
<1>9. LedgerInit => pc \in [Invocation -> Step]
  BY DEF LedgerInit, Step
<1>10. QED
  BY <1>2, <1>3, <1>4, <1>5, <1>6, <1>7, <1>8, <1>9 DEF TypeOK

LEMMA TypeStep == TypeOK /\ [LedgerNext]_ledgerVars => TypeOK'
<1> SUFFICES ASSUME TypeOK, [LedgerNext]_ledgerVars PROVE TypeOK'
  OBVIOUS
<1> USE DEF TypeOK, runVars, eventVars, ledgerVars
<1>1. CASE Tick
  BY <1>1, TickType DEF Tick, Aged
<1>2. CASE UNCHANGED ledgerVars
  BY <1>2
<1>3. ASSUME NEW i \in Invocation, NEW k \in Key, Deliver(i, k) \/ RerunByHand(i, k)
      PROVE  TypeOK'
  BY <1>3 DEF Deliver, RerunByHand, Step, Pending, Live
<1>4. ASSUME NEW i \in Invocation, Dispatch(i) \/ Retry(i)
      PROVE  TypeOK'
  BY <1>4, MaxElapsedBounds DEF Dispatch, Retry, Step, Pending, Live
<1>5. ASSUME NEW i \in Invocation, ClaimRun(i)
      PROVE  TypeOK'
  <2>1. runId' \in [Key -> Nat] /\ nextRunId' \in Nat
    BY <1>5 DEF ClaimRun
  <2>2. claimAge' \in [Key -> 0..(Lease + 1)]
    BY <1>5, LedgerAssumption DEF ClaimRun
  <2>3. status' \in [Key -> Status] /\ pc' \in [Invocation -> Step]
    BY <1>5 DEF ClaimRun, Status, Step, Pending, Live, Owning
  <2>4. QED
    BY <1>5, <2>1, <2>2, <2>3 DEF ClaimRun
<1>6. ASSUME NEW i \in Invocation,
             SkipRun(i) \/ RefreshSummary(i) \/ PrunePartitions(i) \/ ReturnResult(i)
               \/ Raise(i) \/ FinishRun(i)
      PROVE  TypeOK'
  BY <1>6 DEF SkipRun, RefreshSummary, PrunePartitions, ReturnResult, Raise, FinishRun,
     Status, Step, Pending, Live, Owning
<1>7. ASSUME NEW i \in Invocation, RefuseRun(i) \/ RaiseBeforeClaim(i)
      PROVE  TypeOK'
  BY <1>7, LoseAttemptType DEF RefuseRun, RaiseBeforeClaim
<1>8. ASSUME NEW i \in Invocation, FailRun(i) \/ Crash(i) \/ Kill(i)
      PROVE  TypeOK'
  BY <1>8, LoseAttemptType DEF FailRun, Crash, Kill, Status
<1>9. QED
  BY <1>1, <1>2, <1>3, <1>4, <1>5, <1>6, <1>7, <1>8, StepCases

(* Every reachable state has the types of the table and of Lambda's queue. *)
THEOREM TypeCorrect == LedgerSpec => []TypeOK
  BY InitType, TypeStep, PTL DEF LedgerSpec

-----------------------------------------------------------------------------
(* The inductive invariant.                                                *)

(* A worker lives no longer than the timeout, and one that has not started *)
(* has spent nothing of it.                                                *)
ClockInv ==
  \A i \in Invocation :
    /\ pc[i] \in Live => elapsed[i] <= Timeout
    /\ pc[i] \in {"idle", "queued"} => elapsed[i] = 0

(* The worker between its claim and the end of run_process made the last   *)
(* claim on its key, the row shows how far it got, and the claim is no     *)
(* older than the attempt: a lease that covers the timeout cannot expire   *)
(* under a live worker.                                                    *)
ClaimInv ==
  \A i \in Invocation : pc[i] \in Owning =>
    /\ holder[job[i]] = i
    /\ status[job[i]] \in {"running", "succeeded"}
    /\ pc[i] = "claimed" => status[job[i]] = "running"
    /\ pc[i] \in {"stored", "refreshed", "pruned"} => status[job[i]] = "succeeded"
    /\ status[job[i]] = "running" => claimAge[job[i]] <= elapsed[i]

OwnerInv == TypeOK /\ ClockInv /\ ClaimInv

LEMMA OwnerInit == LedgerInit => OwnerInv
<1>1. LedgerInit => ClockInv /\ ClaimInv
  BY DEF LedgerInit, ClockInv, ClaimInv, Live, Owning
<1>2. QED
  BY <1>1, InitType DEF OwnerInv

(* Under the invariant a key that can be claimed has no live owner: the    *)
(* row of a live owner is neither absent nor failed, and while it is       *)
(* running its age is at most Timeout, hence within the lease.             *)
LEMMA ClaimableIsFree ==
  ASSUME OwnerInv, NEW k \in Key, Claimable(k), NEW j \in Invocation, pc[j] \in Owning
  PROVE  job[j] # k
<1>1. SUFFICES ASSUME job[j] = k PROVE FALSE
  OBVIOUS
<1>2. status[k] = "running" /\ Expired(k)
  BY <1>1 DEF OwnerInv, ClaimInv, Claimable
<1>3. claimAge[k] <= elapsed[j] /\ elapsed[j] <= Timeout
  BY <1>1, <1>2 DEF OwnerInv, ClaimInv, ClockInv, Live
<1>4. claimAge[k] \in Nat /\ elapsed[j] \in Nat
  BY MaxElapsedBounds, LedgerAssumption DEF OwnerInv, TypeOK
<1>5. QED
  BY <1>2, <1>3, <1>4, LedgerAssumption, LeaseCoversTimeout DEF Expired

(* Two live owners of a key are one.                                       *)
LEMMA OwnersAgree ==
  ASSUME OwnerInv, NEW i \in Invocation, NEW j \in Invocation,
         pc[i] \in Owning, pc[j] \in Owning, job[i] = job[j]
  PROVE  i = j
  BY DEF OwnerInv, ClaimInv

LEMMA OwnerStep == OwnerInv /\ [LedgerNext]_ledgerVars => OwnerInv'
<1> SUFFICES ASSUME OwnerInv, [LedgerNext]_ledgerVars PROVE OwnerInv'
  OBVIOUS
<1>1. TypeOK'
  BY TypeStep DEF OwnerInv
<1> USE DEF OwnerInv, TypeOK, Owning, Live, runVars, eventVars, ledgerVars
<1>2. CASE Tick
  <2>1. ClockInv'
    BY <1>2, LedgerAssumption, MaxElapsedBounds DEF Tick, Aged, ClockInv
  <2>2. ClaimInv'
    BY <1>2, LedgerAssumption, MaxElapsedBounds DEF Tick, Aged, ClaimInv
  <2>3. QED
    BY <1>1, <2>1, <2>2
<1>3. CASE UNCHANGED ledgerVars
  BY <1>1, <1>3 DEF ClockInv, ClaimInv
<1>4. ASSUME NEW i \in Invocation, NEW k \in Key, Deliver(i, k) \/ RerunByHand(i, k)
      PROVE  OwnerInv'
  <2>1. ClockInv' /\ ClaimInv'
    BY <1>4, LedgerAssumption DEF Deliver, RerunByHand, ClockInv, ClaimInv
  <2>2. QED
    BY <1>1, <2>1
<1>5. ASSUME NEW i \in Invocation, Dispatch(i) \/ Retry(i)
      PROVE  OwnerInv'
  <2>1. ClockInv' /\ ClaimInv'
    BY <1>5, LedgerAssumption DEF Dispatch, Retry, ClockInv, ClaimInv
  <2>2. QED
    BY <1>1, <2>1
<1>6. ASSUME NEW i \in Invocation, ClaimRun(i)
      PROVE  OwnerInv'
  <2>1. ClockInv'
    BY <1>6 DEF ClaimRun, ClockInv
  <2>2. \A j \in Invocation : pc[j] \in Owning => job[j] # job[i]
    BY <1>6, ClaimableIsFree DEF ClaimRun
  <2>3. 0 <= elapsed[i]
    BY MaxElapsedBounds
  <2>4. ClaimInv'
    BY <1>6, <2>2, <2>3 DEF ClaimRun, ClaimInv
  <2>5. QED
    BY <1>1, <2>1, <2>4
<1>7. ASSUME NEW i \in Invocation, FinishRun(i)
      PROVE  OwnerInv'
  <2>1. \A j \in Invocation : pc[j] \in Owning /\ job[j] = job[i] => j = i
    BY <1>7, OwnersAgree DEF FinishRun
  <2>2. ClockInv' /\ ClaimInv'
    BY <1>7, <2>1 DEF FinishRun, ClockInv, ClaimInv
  <2>3. QED
    BY <1>1, <2>2
<1>8. ASSUME NEW i \in Invocation,
             SkipRun(i) \/ RefreshSummary(i) \/ PrunePartitions(i) \/ ReturnResult(i) \/ Raise(i)
      PROVE  OwnerInv'
  <2>1. ClockInv' /\ ClaimInv'
    BY <1>8 DEF SkipRun, RefreshSummary, PrunePartitions, ReturnResult, Raise, ClockInv, ClaimInv
  <2>2. QED
    BY <1>1, <2>1
<1>9. ASSUME NEW i \in Invocation,
             RefuseRun(i) \/ RaiseBeforeClaim(i) \/ Crash(i) \/ Kill(i)
      PROVE  OwnerInv'
  <2>1. ClockInv' /\ ClaimInv'
    BY <1>9 DEF RefuseRun, RaiseBeforeClaim, Crash, Kill, LoseAttempt, ClockInv, ClaimInv
  <2>2. QED
    BY <1>1, <2>1
<1>10. ASSUME NEW i \in Invocation, FailRun(i)
       PROVE  OwnerInv'
  <2>1. \A j \in Invocation : pc[j] \in Owning /\ job[j] = job[i] => j = i
    BY <1>10, OwnersAgree DEF FailRun
  <2>2. ClockInv' /\ ClaimInv'
    BY <1>10, <2>1 DEF FailRun, LoseAttempt, ClockInv, ClaimInv
  <2>3. QED
    BY <1>1, <2>2
<1>11. QED
  BY <1>2, <1>3, <1>4, <1>5, <1>6, <1>7, <1>8, <1>9, <1>10, StepCases

LEMMA OwnerInvariant == LedgerSpec => []OwnerInv
  BY OwnerInit, OwnerStep, PTL DEF LedgerSpec

(* At most one live worker owns a key, however many events and re-runs of  *)
(* it are delivered: claim_run needs no fencing token because the lease    *)
(* covers the timeout.                                                     *)
THEOREM OneOwner == LedgerSpec => []OneLiveOwner
<1>1. OwnerInv => OneLiveOwner
  BY DEF OwnerInv, ClaimInv, OneLiveOwner, Owns
<1>2. QED
  BY <1>1, OwnerInvariant, PTL

(* A running row is settled by the worker that made its last claim.        *)
THEOREM SettledByItsHolder == LedgerSpec => SettledByHolder
<1>1. ASSUME OwnerInv, [LedgerNext]_ledgerVars, NEW k \in Key,
             status[k] = "running", status'[k] # "running"
      PROVE  holder[k] \in Invocation /\ Owns(holder[k], k)
  <2>1. PICK i \in Invocation : (FinishRun(i) \/ FailRun(i)) /\ job[i] = k
    <3> USE <1>1 DEF OwnerInv, TypeOK, runVars, eventVars, ledgerVars
    <3>1. ~Tick /\ ~UNCHANGED ledgerVars
      BY DEF Tick, Aged
    <3>2. ASSUME NEW i \in Invocation, NEW l \in Key
          PROVE  ~Deliver(i, l) /\ ~RerunByHand(i, l)
      BY DEF Deliver, RerunByHand
    <3>3. ASSUME NEW i \in Invocation
          PROVE  /\ ~Dispatch(i) /\ ~Retry(i) /\ ~SkipRun(i) /\ ~RefuseRun(i)
                 /\ ~RaiseBeforeClaim(i) /\ ~RefreshSummary(i) /\ ~PrunePartitions(i)
                 /\ ~ReturnResult(i) /\ ~Raise(i) /\ ~Crash(i) /\ ~Kill(i)
      BY DEF Dispatch, Retry, SkipRun, RefuseRun, RaiseBeforeClaim, RefreshSummary,
         PrunePartitions, ReturnResult, Raise, Crash, Kill
    <3>4. ASSUME NEW i \in Invocation
          PROVE  ~ClaimRun(i)
      BY DEF ClaimRun
    <3>5. PICK i \in Invocation : FinishRun(i) \/ FailRun(i)
      BY <3>1, <3>2, <3>3, <3>4, StepCases
    <3>6. job[i] = k
      BY <3>5 DEF FinishRun, FailRun
    <3>7. QED
      BY <3>5, <3>6
  <2>2. pc[i] \in Owning
    BY <2>1 DEF FinishRun, FailRun, Owning
  <2>3. QED
    BY <1>1, <2>1, <2>2 DEF OwnerInv, ClaimInv, Owns
<1>2. OwnerInv /\ [LedgerNext]_ledgerVars =>
        [\A k \in Key : status[k] = "running" /\ status'[k] # "running"
           => holder[k] \in Invocation /\ Owns(holder[k], k)]_ledgerVars
  BY <1>1
<1>3. QED
  BY <1>2, OwnerInvariant, PTL DEF LedgerSpec, SettledByHolder
-----------------------------------------------------------------------------
(* Nothing is abandoned in silence.                                        *)

(* An invocation that has not reached a claim holds nothing.               *)
FreshInv ==
  \A i \in Invocation :
    pc[i] \in {"idle", "queued"} \/ (pc[i] = "started" /\ attempt[i] = 1)
      => \A k \in Key : holder[k] # i

(* The holder of a key works for that key; it is done only if the key      *)
(* succeeded, and if it was dropped as an event its key has been alarmed.  *)
HolderInv ==
  \A k \in Key : holder[k] \in Invocation =>
    LET h == holder[k] IN
    /\ job[h] = k
    /\ pc[h] = "done" => status[k] = "succeeded"
    /\ pc[h] = "dropped" /\ ~manual[h] => k \in alarmed

SettleInv == OwnerInv /\ FreshInv /\ HolderInv

LEMMA SettleInit == LedgerInit => SettleInv
<1>1. LedgerInit => \A k \in Key : holder[k] = NoInvocation
  BY DEF LedgerInit
<1>2. LedgerInit => FreshInv
  BY <1>1, LedgerAssumption DEF FreshInv
<1>3. LedgerInit => HolderInv
  BY <1>1, LedgerAssumption DEF HolderInv
<1>4. QED
  BY <1>2, <1>3, OwnerInit DEF SettleInv

LEMMA SettleStep == SettleInv /\ [LedgerNext]_ledgerVars => SettleInv'
<1> SUFFICES ASSUME SettleInv, [LedgerNext]_ledgerVars PROVE SettleInv'
  OBVIOUS
<1>1. OwnerInv'
  BY OwnerStep DEF SettleInv
<1>2. SUFFICES FreshInv' /\ HolderInv'
  BY <1>1 DEF SettleInv
<1>3. OwnerInv /\ FreshInv /\ HolderInv
  BY DEF SettleInv
<1>4. TypeOK
  BY <1>3 DEF OwnerInv
<1> USE <1>3, <1>4, LedgerAssumption DEF TypeOK, FreshInv, HolderInv, runVars, eventVars, ledgerVars
<1>5. CASE Tick \/ UNCHANGED ledgerVars
  BY <1>5 DEF Tick, Aged
<1>6. ASSUME NEW i \in Invocation, NEW k \in Key, Deliver(i, k) \/ RerunByHand(i, k)
      PROVE  FreshInv' /\ HolderInv'
  BY <1>6 DEF Deliver, RerunByHand
<1>7. ASSUME NEW i \in Invocation, Dispatch(i) \/ Retry(i)
      PROVE  FreshInv' /\ HolderInv'
  BY <1>7 DEF Dispatch, Retry
<1>8. ASSUME NEW i \in Invocation, ClaimRun(i)
      PROVE  FreshInv' /\ HolderInv'
  <2>1. FreshInv'
    BY <1>8 DEF ClaimRun
  <2>2. HolderInv'
    BY <1>8 DEF ClaimRun
  <2>3. QED
    BY <2>1, <2>2
<1>9. ASSUME NEW i \in Invocation,
             FinishRun(i) \/ RefreshSummary(i) \/ PrunePartitions(i) \/ Raise(i)
      PROVE  FreshInv' /\ HolderInv'
  <2>1. CASE FinishRun(i)
    BY <2>1 DEF FinishRun
  <2>2. CASE RefreshSummary(i) \/ PrunePartitions(i) \/ Raise(i)
    BY <2>2 DEF RefreshSummary, PrunePartitions, Raise
  <2>3. QED
    BY <1>9, <2>1, <2>2
<1>10. ASSUME NEW i \in Invocation, SkipRun(i)
       PROVE  FreshInv' /\ HolderInv'
  BY <1>10 DEF SkipRun, AlreadyDone
<1>11. ASSUME NEW i \in Invocation, ReturnResult(i)
       PROVE  FreshInv' /\ HolderInv'
  <2>1. status[job[i]] = "succeeded"
    BY <1>11 DEF ReturnResult, OwnerInv, ClaimInv, Owning
  <2>2. QED
    BY <1>11, <2>1 DEF ReturnResult
<1>12. ASSUME NEW i \in Invocation, LoseAttempt(i),
              UNCHANGED <<holder, eventVars>>,
              \A k \in Key : holder[k] # i => status'[k] = status[k]
       PROVE  FreshInv' /\ HolderInv'
  <2>1. FreshInv'
    BY <1>12 DEF LoseAttempt
  <2>2. HolderInv'
    BY <1>12 DEF LoseAttempt
  <2>3. QED
    BY <2>1, <2>2
<1>13. ASSUME NEW i \in Invocation,
              RefuseRun(i) \/ RaiseBeforeClaim(i) \/ Crash(i) \/ Kill(i)
       PROVE  FreshInv' /\ HolderInv'
  BY <1>12, <1>13 DEF RefuseRun, RaiseBeforeClaim, Crash, Kill
<1>14. ASSUME NEW i \in Invocation, FailRun(i)
       PROVE  FreshInv' /\ HolderInv'
  <2>1. holder[job[i]] = i
    BY <1>14 DEF FailRun, OwnerInv, ClaimInv, Owning
  <2>2. QED
    BY <1>12, <1>14, <2>1 DEF FailRun
<1>15. QED
  BY <1>5, <1>6, <1>7, <1>8, <1>9, <1>10, <1>11, <1>13, <1>14, StepCases

LEMMA SettleInvariant == LedgerSpec => []SettleInv
  BY SettleInit, SettleStep, PTL DEF LedgerSpec

(* A run that an event left running or failed has an invocation in flight  *)
(* or has raised the alarm.                                                *)
THEOREM NothingAbandonedInSilence == LedgerSpec => []NoSilentlyAbandonedRun
<1>1. ASSUME SettleInv, NEW k \in Key, status[k] \in {"running", "failed"},
             holder[k] \in Invocation, ~manual[holder[k]], k \notin alarmed
      PROVE  InFlight(k)
  <2>1. pc[holder[k]] \in Pending
    BY <1>1 DEF SettleInv, OwnerInv, TypeOK, FreshInv, HolderInv, Step
  <2>2. job[holder[k]] = k
    BY <1>1 DEF SettleInv, HolderInv
  <2>3. QED
    BY <1>1, <2>1, <2>2 DEF InFlight
<1>2. SettleInv => NoSilentlyAbandonedRun
  BY <1>1 DEF NoSilentlyAbandonedRun
<1>3. QED
  BY <1>2, SettleInvariant, PTL
-----------------------------------------------------------------------------
(* The retry of a timed-out run.                                           *)

(* Enough time has gone by since the claim on k for `spent` ticks of its   *)
(* claimer, who claimed by ClaimDelay at the latest.                       *)
AgedBy(k, spent) == Expired(k) \/ claimAge[k] + ClaimDelay >= spent

(* The age of a running row keeps up with its claimer: through the attempt,*)
(* through the backoff that follows a kill, until the retry starts.        *)
RetryInv ==
  \A i \in Invocation :
    holder[job[i]] = i /\ status[job[i]] = "running" =>
      /\ pc[i] \in Owning => AgedBy(job[i], elapsed[i])
      /\ pc[i] = "backoff" /\ timedOut[i] => AgedBy(job[i], Timeout + elapsed[i])
      /\ pc[i] = "started" /\ attempt[i] = 2 /\ timedOut[i]
           => AgedBy(job[i], Timeout + RetryDelay)

TimeoutInv == SettleInv /\ RetryInv

LEMMA TimeoutInit == LedgerInit => TimeoutInv
<1>1. LedgerInit => RetryInv
  BY LedgerAssumption DEF LedgerInit, RetryInv, Owning
<1>2. QED
  BY <1>1, SettleInit DEF TimeoutInv

LEMMA TimeoutStep == TimeoutInv /\ [LedgerNext]_ledgerVars => TimeoutInv'
<1> SUFFICES ASSUME TimeoutInv, [LedgerNext]_ledgerVars PROVE TimeoutInv'
  OBVIOUS
<1>1. SettleInv'
  BY SettleStep DEF TimeoutInv
<1>2. SUFFICES RetryInv'
  BY <1>1 DEF TimeoutInv
<1>3. TypeOK /\ ClaimInv /\ FreshInv /\ RetryInv
  BY DEF TimeoutInv, SettleInv, OwnerInv
<1>4. /\ \A k \in Key : claimAge[k] \in Nat
      /\ \A i \in Invocation : elapsed[i] \in Nat
  BY <1>3, LedgerAssumption, MaxElapsedBounds DEF TypeOK
<1> USE <1>3, <1>4, LedgerAssumption
    DEF TypeOK, RetryInv, AgedBy, Expired, runVars, eventVars, ledgerVars
<1>5. CASE Tick
  BY <1>5 DEF Tick, Aged, Live
<1>6. CASE UNCHANGED ledgerVars
  BY <1>6
<1>7. ASSUME NEW i \in Invocation, NEW k \in Key, Deliver(i, k) \/ RerunByHand(i, k)
      PROVE  RetryInv'
  BY <1>7 DEF Deliver, RerunByHand, FreshInv, Owning
<1>8. ASSUME NEW i \in Invocation, Dispatch(i)
      PROVE  RetryInv'
  BY <1>8 DEF Dispatch, FreshInv, Owning
<1>9. ASSUME NEW i \in Invocation, Retry(i)
      PROVE  RetryInv'
  BY <1>9 DEF Retry, Owning
<1>10. ASSUME NEW i \in Invocation, ClaimRun(i)
       PROVE  RetryInv'
  BY <1>10 DEF ClaimRun, Owning
<1>11. ASSUME NEW i \in Invocation, FinishRun(i)
       PROVE  RetryInv'
  BY <1>11 DEF FinishRun, Owning
<1>12. ASSUME NEW i \in Invocation,
              SkipRun(i) \/ RefreshSummary(i) \/ PrunePartitions(i) \/ ReturnResult(i) \/ Raise(i)
       PROVE  RetryInv'
  BY <1>12 DEF SkipRun, RefreshSummary, PrunePartitions, ReturnResult, Raise, Owning
<1>13. ASSUME NEW i \in Invocation, RefuseRun(i) \/ RaiseBeforeClaim(i) \/ Crash(i)
       PROVE  RetryInv'
  BY <1>13 DEF RefuseRun, RaiseBeforeClaim, Crash, LoseAttempt, Owning
<1>14. ASSUME NEW i \in Invocation, FailRun(i)
       PROVE  RetryInv'
  BY <1>14 DEF FailRun, LoseAttempt, Owning
<1>15. ASSUME NEW i \in Invocation, Kill(i)
       PROVE  RetryInv'
  <2>1. pc[i] = "started" => attempt[i] = 2 \/ holder[job[i]] # i
    BY DEF FreshInv
  <2>2. QED
    BY <1>15, <2>1 DEF Kill, LoseAttempt, Retriable, Live, Owning
<1>16. QED
  BY <1>5, <1>6, <1>7, <1>8, <1>9, <1>10, <1>11, <1>12, <1>13, <1>14, <1>15, StepCases

LEMMA TimeoutInvariant == LedgerSpec => []TimeoutInv
  BY TimeoutInit, TimeoutStep, PTL DEF LedgerSpec

(* Whenever Lambda's retry delay makes up for the time an attempt may take *)
(* before it claims, the retry of an attempt killed at the timeout finds a *)
(* row it can reclaim.                                                     *)
THEOREM TimedOutRunWaitsForItsRetry ==
  ASSUME Timeout + RetryDelay > Lease + ClaimDelay
  PROVE  LedgerSpec => []TimedOutRunIsClaimable
<1>1. TimeoutInv => TimedOutRunIsClaimable
  <2> SUFFICES ASSUME TimeoutInv, NEW i \in Invocation,
                      pc[i] = "started", attempt[i] = 2, timedOut[i],
                      status[job[i]] = "running", holder[job[i]] = i
               PROVE  Claimable(job[i])
    BY DEF TimedOutRunIsClaimable
  <2>1. AgedBy(job[i], Timeout + RetryDelay)
    BY DEF TimeoutInv, RetryInv
  <2>2. claimAge[job[i]] \in Nat
    BY LedgerAssumption DEF TimeoutInv, SettleInv, OwnerInv, TypeOK
  <2>3. Expired(job[i])
    BY <2>1, <2>2, LedgerAssumption DEF AgedBy, Expired
  <2>4. QED
    BY <2>3 DEF Claimable
<1>2. QED
  BY <1>1, TimeoutInvariant, PTL
=============================================================================
