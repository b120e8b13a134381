----------------------------- MODULE RunLedger -----------------------------
(***************************************************************************)
(* The `ingestion_run` table as a lease, and the Lambda invocations that   *)
(* contend for it (services/ingest.py run_process, db/repo.py claim_run,   *)
(* finish_run, fail_run; infra/envs/dev/functions.tf).                     *)
(*                                                                         *)
(* One row per raw object key.  An invocation claims the row in its first  *)
(* transaction, stores its data and settles the row in the second, and     *)
(* post-processes outside both.  It may raise at any step, die at any      *)
(* step, or be killed at the function timeout; an event's first failed     *)
(* attempt is retried once by Lambda, its second raises the alarm.         *)
(*                                                                         *)
(* What the transactions do to products, observations, alerts and the      *)
(* summary is added by module Ingest, which conjoins it to these actions.  *)
(***************************************************************************)
EXTENDS Naturals

CONSTANTS
  Key,         \* raw object keys: UNIQUE (raw_object_key)
  Invocation,  \* deliveries of S3 events and manual re-runs; bounds their number
  Timeout,     \* the process Lambda's timeout, in ticks
  Lease,       \* settings.run_lease_s, in ticks
  ClaimDelay,  \* the latest tick of an invocation at which claim_run executes
  RetryDelay,  \* Lambda's wait before the retry of a failed attempt, in ticks
  NoInvocation

ASSUME LedgerAssumption ==
  /\ Timeout \in Nat \ {0}
  /\ Lease \in Nat
  /\ ClaimDelay \in Nat
  /\ RetryDelay \in Nat
  /\ NoInvocation \notin Invocation
  /\ Key # {}

(* config.py: "must equal the Lambda timeout: shorter double-processes".   *)
ASSUME LeaseCoversTimeout == Timeout <= Lease

VARIABLES
  status,    \* [Key -> Status]: ingestion_run.status, "absent" when there is no row
  runId,     \* [Key -> Nat]: ingestion_run.id, 0 when there is no row
  nextRunId, \* Nat: the identity column (values burnt by conflicts are left out)
  claimAge,  \* [Key -> 0..Lease+1]: now() - started_at, saturated once expired
  holder,    \* [Key -> Invocation or none]: who made the last claim (history)
  pc,        \* [Invocation -> Step]
  job,       \* [Invocation -> Key]: the key of the event or re-run
  manual,    \* [Invocation -> BOOLEAN]: a re-run by hand, neither retried nor chained
  attempt,   \* [Invocation -> 1..2]: Lambda's attempt number
  elapsed,   \* [Invocation -> Nat]: ticks since the attempt started or failed
  timedOut,  \* [Invocation -> BOOLEAN]: the last attempt ended at the timeout (history)
  alarmed    \* SUBSET Key: keys whose event went to the on_failure topic

runVars == <<status, runId, nextRunId, claimAge, holder>>
eventVars == <<job, manual, attempt>>
ledgerVars == <<runVars, eventVars, pc, elapsed, timedOut, alarmed>>

Status == {"absent", "running", "succeeded", "failed"}

(* Where a live worker is in run_process: `started` before the claim,      *)
(* `claimed` before the main transaction, `stored` after it, `refreshed`   *)
(* and `pruned` after the two autocommit statements, `failing` in the      *)
(* except block.                                                           *)
Owning == {"claimed", "stored", "refreshed", "pruned", "failing"}
Live == {"started"} \cup Owning
Pending == {"queued", "backoff"} \cup Live
Step == {"idle", "done", "dropped"} \cup Pending

Owns(i, k) == pc[i] \in Owning /\ job[i] = k
InFlight(k) == \E i \in Invocation : pc[i] \in Pending /\ job[i] = k

Larger(m, n) == IF m >= n THEN m ELSE n
MaxElapsed == Larger(Timeout, RetryDelay)

TypeOK ==
  /\ status \in [Key -> Status]
  /\ runId \in [Key -> Nat]
  /\ nextRunId \in Nat
  /\ claimAge \in [Key -> 0..(Lease + 1)]
  /\ holder \in [Key -> Invocation \cup {NoInvocation}]
  /\ pc \in [Invocation -> Step]
  /\ job \in [Invocation -> Key]
  /\ manual \in [Invocation -> BOOLEAN]
  /\ attempt \in [Invocation -> 1..2]
  /\ elapsed \in [Invocation -> 0..MaxElapsed]
  /\ timedOut \in [Invocation -> BOOLEAN]
  /\ alarmed \subseteq Key

LedgerInit ==
  /\ status = [k \in Key |-> "absent"]
  /\ runId = [k \in Key |-> 0]
  /\ nextRunId = 1
  /\ claimAge = [k \in Key |-> 0]
  /\ holder = [k \in Key |-> NoInvocation]
  /\ pc = [i \in Invocation |-> "idle"]
  /\ job = [i \in Invocation |-> CHOOSE k \in Key : TRUE]
  /\ manual = [i \in Invocation |-> FALSE]
  /\ attempt = [i \in Invocation |-> 1]
  /\ elapsed = [i \in Invocation |-> 0]
  /\ timedOut = [i \in Invocation |-> FALSE]
  /\ alarmed = {}

-----------------------------------------------------------------------------
(* The environment: S3 events, the operator, Lambda's dispatch and retry.  *)

(* S3 delivers the ObjectCreated event of k, at least once.                *)
Deliver(i, k) ==
  /\ pc[i] = "idle"
  /\ pc' = [pc EXCEPT ![i] = "queued"]
  /\ job' = [job EXCEPT ![i] = k]
  /\ UNCHANGED <<runVars, manual, attempt, elapsed, timedOut, alarmed>>

(* The runbook's `aws lambda invoke ... {"raw_object_key": k}`: synchronous. *)
RerunByHand(i, k) ==
  /\ pc[i] = "idle"
  /\ pc' = [pc EXCEPT ![i] = "started"]
  /\ job' = [job EXCEPT ![i] = k]
  /\ manual' = [manual EXCEPT ![i] = TRUE]
  /\ UNCHANGED <<runVars, attempt, elapsed, timedOut, alarmed>>

Dispatch(i) ==
  /\ pc[i] = "queued"
  /\ pc' = [pc EXCEPT ![i] = "started"]
  /\ UNCHANGED <<runVars, eventVars, elapsed, timedOut, alarmed>>

Retry(i) ==
  /\ pc[i] = "backoff"
  /\ elapsed[i] >= RetryDelay
  /\ pc' = [pc EXCEPT ![i] = "started"]
  /\ attempt' = [attempt EXCEPT ![i] = 2]
  /\ elapsed' = [elapsed EXCEPT ![i] = 0]
  /\ UNCHANGED <<runVars, job, manual, timedOut, alarmed>>

(* The runbook's "To force it": the operator marks a succeeded row failed. *)
ForceFailed(k) ==
  /\ status[k] = "succeeded"
  /\ status' = [status EXCEPT ![k] = "failed"]
  /\ UNCHANGED <<runId, nextRunId, claimAge, holder, eventVars, pc, elapsed, timedOut,
                 alarmed>>

-----------------------------------------------------------------------------
(* Transaction 1: claim_run.  INSERT ... ON CONFLICT DO UPDATE locks the   *)
(* row whether or not its WHERE holds, so the claim and the SELECT that    *)
(* explains a refused one see the same row.                                *)

(* Mutants: a lease shorter than the timeout, and one longer.              *)
ExpiredEarly(k) == claimAge[k] + 2 > Lease
ExpiredLate(k) == claimAge[k] > Lease + 1

Expired(k) == claimAge[k] > Lease

(* Mutant: the lease condition dropped from the ON CONFLICT ... WHERE.     *)
ClaimableWhileRunning(k) == status[k] \in {"absent", "failed", "running"}

Claimable(k) ==
  \/ status[k] = "absent"
  \/ status[k] = "failed"
  \/ status[k] = "running" /\ Expired(k)

ClaimRun(i) ==
  LET k == job[i] IN
  /\ pc[i] = "started"
  /\ elapsed[i] <= ClaimDelay
  /\ Claimable(k)
  /\ status' = [status EXCEPT ![k] = "running"]
  /\ \/ /\ status[k] = "absent"
        /\ runId' = [runId EXCEPT ![k] = nextRunId]
        /\ nextRunId' = nextRunId + 1
     \/ /\ status[k] # "absent"
        /\ UNCHANGED <<runId, nextRunId>>
  /\ claimAge' = [claimAge EXCEPT ![k] = 0]
  /\ holder' = [holder EXCEPT ![k] = i]
  /\ pc' = [pc EXCEPT ![i] = "claimed"]
  /\ UNCHANGED <<eventVars, elapsed, timedOut, alarmed>>

(* Mutant: a running row reported as a duplicate instead of raising.       *)
DoneOrRunning(k) == status[k] \in {"succeeded", "running"}

(* claim_run returned None: the key already succeeded, skipped=True.       *)
AlreadyDone(k) == status[k] = "succeeded"

SkipRun(i) ==
  /\ pc[i] = "started"
  /\ elapsed[i] <= ClaimDelay
  /\ AlreadyDone(job[i])
  /\ pc' = [pc EXCEPT ![i] = "done"]
  /\ UNCHANGED <<runVars, eventVars, elapsed, timedOut, alarmed>>

-----------------------------------------------------------------------------
(* The end of a failed attempt, seen from Lambda's asynchronous queue:     *)
(* maximum_retry_attempts = 1, then on_failure -> SNS.                     *)

(* Mutant: Lambda's retries not limited to one.                            *)
RetriableForever(i) == ~manual[i]

Retriable(i) == ~manual[i] /\ attempt[i] = 1

LoseAttempt(i) ==
  /\ elapsed' = [elapsed EXCEPT ![i] = 0]
  /\ \/ /\ Retriable(i)
        /\ pc' = [pc EXCEPT ![i] = "backoff"]
        /\ UNCHANGED alarmed
     \/ /\ ~Retriable(i)
        /\ pc' = [pc EXCEPT ![i] = "dropped"]
        /\ alarmed' = IF manual[i] THEN alarmed ELSE alarmed \cup {job[i]}

(* RunInProgressError: another worker holds the claim and its lease runs.  *)
RefuseRun(i) ==
  /\ pc[i] = "started"
  /\ elapsed[i] <= ClaimDelay
  /\ ~Claimable(job[i])
  /\ ~AlreadyDone(job[i])
  /\ timedOut' = [timedOut EXCEPT ![i] = FALSE]
  /\ LoseAttempt(i)
  /\ UNCHANGED <<runVars, eventVars>>

(* The object, the adapter or the database is not there: raised before the *)
(* try block, so no row is touched.                                        *)
RaiseBeforeClaim(i) ==
  /\ pc[i] = "started"
  /\ timedOut' = [timedOut EXCEPT ![i] = FALSE]
  /\ LoseAttempt(i)
  /\ UNCHANGED <<runVars, eventVars>>

-----------------------------------------------------------------------------
(* The try block.                                                          *)

(* Transaction 2 commits; finish_run is its last statement.                *)
FinishRun(i) ==
  /\ pc[i] = "claimed"
  /\ pc' = [pc EXCEPT ![i] = "stored"]
  /\ status' = [status EXCEPT ![job[i]] = "succeeded"]
  /\ UNCHANGED <<runId, nextRunId, claimAge, holder, eventVars, elapsed, timedOut, alarmed>>

RefreshSummary(i) ==
  /\ pc[i] = "stored"
  /\ pc' = [pc EXCEPT ![i] = "refreshed"]
  /\ UNCHANGED <<runVars, eventVars, elapsed, timedOut, alarmed>>

PrunePartitions(i) ==
  /\ pc[i] = "refreshed"
  /\ pc' = [pc EXCEPT ![i] = "pruned"]
  /\ UNCHANGED <<runVars, eventVars, elapsed, timedOut, alarmed>>

(* Mutant: the result returned without waiting for the refresh.            *)
ReturnUnrefreshed(i) ==
  /\ pc[i] \in {"stored", "refreshed", "pruned"}
  /\ pc' = [pc EXCEPT ![i] = "done"]
  /\ UNCHANGED <<runVars, eventVars, elapsed, timedOut, alarmed>>

ReturnResult(i) ==
  /\ pc[i] = "pruned"
  /\ pc' = [pc EXCEPT ![i] = "done"]
  /\ UNCHANGED <<runVars, eventVars, elapsed, timedOut, alarmed>>

(* An exception inside the try block; an open transaction rolls back.      *)
Raise(i) ==
  /\ pc[i] \in {"claimed", "stored", "refreshed"}
  /\ pc' = [pc EXCEPT ![i] = "failing"]
  /\ UNCHANGED <<runVars, eventVars, elapsed, timedOut, alarmed>>

(* fail_run commits in a transaction of its own, then the error re-raises. *)
FailRun(i) ==
  /\ pc[i] = "failing"
  /\ status' = [status EXCEPT ![job[i]] = "failed"]
  /\ timedOut' = [timedOut EXCEPT ![i] = FALSE]
  /\ LoseAttempt(i)
  /\ UNCHANGED <<runId, nextRunId, claimAge, holder, eventVars>>

(* The process ends without running its except block, or fail_run itself   *)
(* could not reach the database: the row stays as it is.                   *)
Crash(i) ==
  /\ pc[i] \in Live
  /\ timedOut' = [timedOut EXCEPT ![i] = FALSE]
  /\ LoseAttempt(i)
  /\ UNCHANGED <<runVars, eventVars>>

(* Lambda kills the sandbox at the function timeout.                       *)
Kill(i) ==
  /\ pc[i] \in Live
  /\ elapsed[i] = Timeout
  /\ timedOut' = [timedOut EXCEPT ![i] = TRUE]
  /\ LoseAttempt(i)
  /\ UNCHANGED <<runVars, eventVars>>

Aged ==
  /\ claimAge' = [k \in Key |-> IF status[k] = "running" /\ claimAge[k] <= Lease
                                THEN claimAge[k] + 1 ELSE claimAge[k]]
  /\ elapsed' = [i \in Invocation |->
                   IF \/ pc[i] \in Live
                      \/ pc[i] = "backoff" /\ elapsed[i] < RetryDelay
                   THEN elapsed[i] + 1 ELSE elapsed[i]]
  /\ UNCHANGED <<status, runId, nextRunId, holder, pc, eventVars, timedOut, alarmed>>

(* Mutant: a worker that the timeout does not stop.                        *)
TickForever == Aged

(* Time passes for rows, workers and waiting retries; no worker outlives   *)
(* its timeout.                                                            *)
Tick ==
  /\ \A i \in Invocation : pc[i] \in Live => elapsed[i] < Timeout
  /\ Aged

-----------------------------------------------------------------------------
Worker(i) ==
  \/ ClaimRun(i) \/ SkipRun(i) \/ RefuseRun(i) \/ RaiseBeforeClaim(i)
  \/ FinishRun(i) \/ RefreshSummary(i) \/ PrunePartitions(i) \/ ReturnResult(i)
  \/ Raise(i) \/ FailRun(i)

Lambda(i) == Dispatch(i) \/ Retry(i) \/ Kill(i)

LedgerNext ==
  \/ Tick
  \/ \E i \in Invocation :
       \/ Worker(i) \/ Lambda(i) \/ Crash(i)
       \/ \E k \in Key : Deliver(i, k) \/ RerunByHand(i, k)

LedgerSpec == LedgerInit /\ [][LedgerNext]_ledgerVars

(* Time passes, and Lambda dispatches queued events, kills at the timeout  *)
(* and retries; nothing is assumed of the worker, which may hang.          *)
LedgerFairness ==
  /\ WF_ledgerVars(Tick)
  /\ \A i \in Invocation : WF_ledgerVars(Lambda(i))

FairLedgerSpec == LedgerSpec /\ LedgerFairness

-----------------------------------------------------------------------------
(* Two workers never work on the same key at once, although claim_run only *)
(* compares started_at with the lease and finish_run / fail_run do not     *)
(* check who holds the claim (repo.py claim_run, finish_run, fail_run).    *)
OneLiveOwner ==
  \A i, j \in Invocation : \A k \in Key : Owns(i, k) /\ Owns(j, k) => i = j

(* A running row is settled (succeeded or failed) only by the worker that  *)
(* made the row's last claim, never by one whose lease was taken over.     *)
SettledByHolder ==
  [][\A k \in Key : status[k] = "running" /\ status'[k] # "running"
                      => holder[k] \in Invocation /\ Owns(holder[k], k)]_ledgerVars

(* functions.tf: "a lease longer than the timeout leaves a killed run      *)
(* unclaimable by its retry".  When the retry of an attempt killed at the  *)
(* timeout starts and the row still carries that attempt's claim, the row  *)
(* can be reclaimed.                                                       *)
TimedOutRunIsClaimable ==
  \A i \in Invocation :
    (/\ pc[i] = "started" /\ attempt[i] = 2 /\ timedOut[i]
     /\ status[job[i]] = "running" /\ holder[job[i]] = i)
    => Claimable(job[i])

(* A run that an event left unfinished is never forgotten: while its row   *)
(* is running or failed, an invocation for the key is in flight, or the    *)
(* alarm has been raised (claim_run: raising instead of returning None     *)
(* keeps "Lambda's retry/failure path honest").                            *)
NoSilentlyAbandonedRun ==
  \A k \in Key :
    (/\ status[k] \in {"running", "failed"}
     /\ holder[k] \in Invocation /\ ~manual[holder[k]])
    => InFlight(k) \/ k \in alarmed

(* Every event delivered ends: its key was processed, reported as already  *)
(* processed, or its failure reached the alarms topic, whatever crashes or *)
(* hangs in between.                                                       *)
EveryEventSettles ==
  \A i \in Invocation : pc[i] = "queued" ~> pc[i] \in {"done", "dropped"}
=============================================================================
