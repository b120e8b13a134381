------------------------------ MODULE Watches ------------------------------
(***************************************************************************)
(* Watch requests with double opt-in: services/watches.py request_watch,   *)
(* db/watches.py, the routes of api/routes/watches.py and dashboard.py,    *)
(* the outbox and the mailer.                                              *)
(*                                                                         *)
(* A request is one transaction under a global advisory lock, followed by  *)
(* a put to the outbox.  Its statements are separate actions: the          *)
(* transaction is READ COMMITTED, and confirmations and deletions, which   *)
(* do not take the lock, may commit between any two of them.  A write and  *)
(* its commit are one action, because the row lock of the write makes      *)
(* others wait for the commit.                                             *)
(***************************************************************************)
EXTENDS Naturals, FiniteSets

CONSTANTS
  Product, Known,   \* product ids requested; those of the product table
  Email, Client,    \* addresses; hashed client identifiers
  Percent,          \* thresholds requested
  Request,          \* POST /v1/watches calls; bounds their number
  MaxUnconfirmed,   \* MAX_UNCONFIRMED_PER_EMAIL
  MaxPerClient,     \* MAX_CONFIRMATIONS_PER_CLIENT_PER_HOUR
  MaxPerHour,       \* MAX_CONFIRMATIONS_PER_HOUR
  ResendAfter,      \* 10 minutes, in ticks
  Window,           \* 1 hour, in ticks
  Nobody            \* no request, no client, no token

ASSUME WatchAssumption ==
  /\ Known \subseteq Product
  /\ MaxUnconfirmed \in Nat /\ MaxPerClient \in Nat /\ MaxPerHour \in Nat
  /\ ResendAfter \in Nat /\ Window \in Nat \ {0}
  /\ Nobody \notin Request \cup Client

VARIABLES
  rows,    \* watch: set of [product, email, min, token, age, client, confirmed]
  lock,    \* who holds the advisory lock
  pc,      \* [Request -> Step], an answer once the request is over
  form,    \* [Request -> the request's product, email, min and client]
  pending, \* [Request -> token of the pending watch it read, or Nobody]
  outbox,  \* messages put: set of [request, product, email, min, token, age]
  links    \* the tokens mailed, in links and in one-click headers

vars == <<rows, lock, pc, form, pending, outbox, links>>

(* A token is named after the request that drew it.                        *)
Form == [product : Product, email : Email, min : Percent, client : Client \cup {Nobody}]
Watch == [product : Product, email : Email, min : Percent, token : Request,
          age : 0..Window, client : Client \cup {Nobody}, confirmed : BOOLEAN]
Message == [request : Request, product : Product, email : Email, min : Percent,
            token : Request, age : 0..Window]

Open == {"begun", "locked", "read", "allowed", "insertable"}
Answer == {"accepted", "notFound", "tooManyRequests", "tooManyPending", "alreadyWatching",
           "error"}
Step == {"idle", "committed"} \cup Open \cup Answer

Init ==
  /\ rows = {}
  /\ lock = Nobody
  /\ pc = [r \in Request |-> "idle"]
  /\ form = [r \in Request |-> Nobody]
  /\ pending = [r \in Request |-> Nobody]
  /\ outbox = {}
  /\ links = {}

-----------------------------------------------------------------------------
(* The queries.                                                            *)

WatchOf(p, e) == {w \in rows : w.product = p /\ w.email = e}
PendingWatch(p, e) == {w \in WatchOf(p, e) : ~w.confirmed}
PendingCount(e) == Cardinality({w \in rows : w.email = e /\ ~w.confirmed})

(* confirmation_sent_at < now() - 10 minutes.                              *)
ResendOk(w) == w.age > ResendAfter

(* confirmation_sent_at > now() - 1 hour, ages saturating at the hour.     *)
SentLastHour(S) == {w \in S : w.age < Window}

(* Mutant: one mail over the budget.                                       *)
OverBudgetByOne(c) ==
  \/ Cardinality(SentLastHour(rows)) > MaxPerHour
  \/ c # Nobody /\ Cardinality(SentLastHour({w \in rows : w.client = c})) > MaxPerClient

OverBudget(c) ==
  \/ Cardinality(SentLastHour(rows)) >= MaxPerHour
  \/ c # Nobody /\ Cardinality(SentLastHour({w \in rows : w.client = c})) >= MaxPerClient

-----------------------------------------------------------------------------
(* request_watch.                                                          *)

(* Mutants: a lock of the session, not released when the transaction ends, *)
(* and no lock at all.                                                     *)
KeptBySession(r) == lock
Unlocked(r) == TRUE

(* The lock belongs to the transaction: any end of it releases the lock.   *)
Released(r) == IF lock = r THEN Nobody ELSE lock

LockFree(r) == lock = Nobody

End(r, answer) ==
  /\ pc' = [pc EXCEPT ![r] = answer]
  /\ lock' = Released(r)

Begin(r, f) ==
  /\ pc[r] = "idle"
  /\ form' = [form EXCEPT ![r] = f]
  /\ pc' = [pc EXCEPT ![r] = IF f.product \in Known THEN "begun" ELSE "notFound"]
  /\ UNCHANGED <<rows, lock, pending, outbox, links>>

LockRequests(r) ==
  /\ pc[r] = "begun"
  /\ LockFree(r)
  /\ lock' = r
  /\ pc' = [pc EXCEPT ![r] = "locked"]
  /\ UNCHANGED <<rows, form, pending, outbox, links>>

(* pending_token: a confirmation that went out minutes ago is not repeated. *)
ReadPending(r) ==
  LET seen == PendingWatch(form[r].product, form[r].email) IN
  /\ pc[r] = "locked"
  /\ \/ /\ \E w \in seen : ~ResendOk(w)
        /\ End(r, "accepted")
        /\ UNCHANGED pending
     \/ /\ \A w \in seen : ResendOk(w)
        /\ pc' = [pc EXCEPT ![r] = "read"]
        /\ pending' = [pending EXCEPT ![r] =
                         IF seen = {} THEN Nobody ELSE (CHOOSE w \in seen : TRUE).token]
        /\ UNCHANGED lock
  /\ UNCHANGED <<rows, form, outbox, links>>

CheckBudget(r) ==
  /\ pc[r] = "read"
  /\ \/ OverBudget(form[r].client) /\ End(r, "tooManyRequests")
     \/ /\ ~OverBudget(form[r].client)
        /\ pc' = [pc EXCEPT ![r] = "allowed"]
        /\ UNCHANGED lock
  /\ UNCHANGED <<rows, form, pending, outbox, links>>

(* touch_confirmation and commit: UPDATE ... WHERE token = the token read,  *)
(* whatever became of the watch since.                                     *)
TouchConfirmation(r) ==
  /\ pc[r] = "allowed"
  /\ pending[r] # Nobody
  /\ rows' = {IF w.token = pending[r]
              THEN [w EXCEPT !.age = 0, !.client = form[r].client] ELSE w : w \in rows}
  /\ End(r, "committed")
  /\ UNCHANGED <<form, pending, outbox, links>>

CheckPending(r) ==
  /\ pc[r] = "allowed"
  /\ pending[r] = Nobody
  /\ \/ PendingCount(form[r].email) >= MaxUnconfirmed /\ End(r, "tooManyPending")
     \/ /\ PendingCount(form[r].email) < MaxUnconfirmed
        /\ pc' = [pc EXCEPT ![r] = "insertable"]
        /\ UNCHANGED lock
  /\ UNCHANGED <<rows, form, pending, outbox, links>>

(* Mutant: no token drawn for the watch.                                   *)
EmptyToken(r) == Nobody

DrawToken(r) == r

(* insert and commit, or the IntegrityError of UNIQUE (product_id, email).  *)
InsertWatch(r) ==
  LET f == form[r] IN
  /\ pc[r] = "insertable"
  /\ \/ /\ WatchOf(f.product, f.email) # {}
        /\ End(r, "alreadyWatching")
        /\ UNCHANGED <<rows, pending>>
     \/ /\ WatchOf(f.product, f.email) = {}
        /\ rows' = rows \cup
             {[product |-> f.product, email |-> f.email, min |-> f.min,
               token |-> DrawToken(r), age |-> 0, client |-> f.client, confirmed |-> FALSE]}
        /\ pending' = [pending EXCEPT ![r] = DrawToken(r)]
        /\ End(r, "committed")
  /\ UNCHANGED <<form, outbox, links>>

(* outbox.put: the threshold is the request's, the token the watch's.      *)
Publish(r) ==
  /\ pc[r] = "committed"
  /\ outbox' = outbox \cup
       {[request |-> r, product |-> form[r].product, email |-> form[r].email,
         min |-> form[r].min, token |-> pending[r], age |-> 0]}
  /\ pc' = [pc EXCEPT ![r] = "accepted"]
  /\ UNCHANGED <<rows, lock, form, pending, links>>

(* The API dies or a statement or the put fails: an open transaction rolls *)
(* back, a committed watch stays without its mail.                         *)
Break(r) ==
  /\ pc[r] \in Open \cup {"committed"}
  /\ End(r, "error")
  /\ UNCHANGED <<rows, form, pending, outbox, links>>

-----------------------------------------------------------------------------
(* The mails, and what their links do.                                     *)

(* The mailer sends a message, perhaps more than once.                     *)
SendOutboxMessage(m) ==
  /\ links' = links \cup {m.token}
  /\ UNCHANGED <<rows, lock, pc, form, pending, outbox>>

(* A run's digest: unsubscribe links for the hits, and the one-click       *)
(* header of the first of them, all for tokens of confirmed watches.       *)
SendDigest(w) ==
  /\ w.confirmed
  /\ links' = links \cup {w.token}
  /\ UNCHANGED <<rows, lock, pc, form, pending, outbox>>

Confirm(t) ==
  /\ rows' = {IF w.token = t THEN [w EXCEPT !.confirmed = TRUE, !.client = Nobody] ELSE w :
                w \in rows}
  /\ UNCHANGED <<lock, pc, form, pending, outbox, links>>

Unsubscribe(t) ==
  /\ rows' = {w \in rows : w.token # t}
  /\ UNCHANGED <<lock, pc, form, pending, outbox, links>>

(* delete_all_for_token: every watch of the address that owns the token.   *)
WithoutOwnerOf(t) == {w \in rows : ~\E o \in rows : o.token = t /\ o.email = w.email}

UnsubscribeAll(t) ==
  /\ rows' = WithoutOwnerOf(t)
  /\ UNCHANGED <<lock, pc, form, pending, outbox, links>>

(* The administrator's DELETE /v1/watches/{id}.                            *)
DeleteWatch(w) ==
  /\ rows' = rows \ {w}
  /\ UNCHANGED <<lock, pc, form, pending, outbox, links>>

Older(S) == {[x EXCEPT !.age = IF @ < Window THEN @ + 1 ELSE @] : x \in S}

Tick ==
  /\ rows' = Older(rows)
  /\ outbox' = Older(outbox)
  /\ UNCHANGED <<lock, pc, form, pending, links>>

-----------------------------------------------------------------------------
RequestStep(r) ==
  \/ LockRequests(r) \/ ReadPending(r) \/ CheckBudget(r) \/ TouchConfirmation(r)
  \/ CheckPending(r) \/ InsertWatch(r) \/ Publish(r)

Reader ==
  \E t \in links : Confirm(t) \/ Unsubscribe(t) \/ UnsubscribeAll(t)

Next ==
  \/ \E r \in Request : RequestStep(r) \/ Break(r) \/ \E f \in Form : Begin(r, f)
  \/ \E m \in outbox : SendOutboxMessage(m)
  \/ \E w \in rows : SendDigest(w) \/ DeleteWatch(w)
  \/ Reader
  \/ Tick

Spec == Init /\ [][Next]_vars

-----------------------------------------------------------------------------
(* Properties.                                                             *)

TypeOK ==
  /\ rows \subseteq Watch
  /\ lock \in Request \cup {Nobody}
  /\ pc \in [Request -> Step]
  /\ form \in [Request -> Form \cup {Nobody}]
  /\ pending \in [Request -> Request \cup {Nobody}]
  /\ outbox \subseteq Message
  /\ links \subseteq Request

(* No interleaving of requests, confirmations and deletions gives an       *)
(* address more unconfirmed watches than the quota (request_watch: counts  *)
(* "under a transaction-scoped lock, so concurrent requests cannot both    *)
(* pass a count that only one of them should").                            *)
PendingQuota == \A e \in Email : PendingCount(e) <= MaxUnconfirmed

(* The rows whose confirmation was queued within the hour stay within the  *)
(* global budget and each client's, with resends and repeated clients.     *)
RowBudget ==
  /\ Cardinality(SentLastHour(rows)) <= MaxPerHour
  /\ \A c \in Client : Cardinality(SentLastHour({w \in rows : w.client = c})) <= MaxPerClient

(* The answer "already watching" is given only for a confirmed watch: a    *)
(* pending one is never reported, even when it appeared while the request  *)
(* waited (request_watch: "a confirmed duplicate raises                    *)
(* AlreadyWatchingError").                                                 *)
ConflictMeansConfirmed ==
  [][\A r \in Request :
       pc[r] # "alreadyWatching" /\ pc'[r] = "alreadyWatching" =>
         \E w \in WatchOf(form[r].product, form[r].email) : w.confirmed]_vars

(* Every request is answered: nobody waits for the advisory lock for ever, *)
(* however the requests before it ended.                                   *)
EveryRequestAnswered == \A r \in Request : pc[r] = "begun" ~> pc[r] \in Answer

(* services/watches.py client_hash: "Only unconfirmed rows carry it".      *)
ClientHashOnlyPending == \A w \in rows : w.confirmed => w.client = Nobody

(* confirm.txt: "You asked to be emailed when ... drops by at least        *)
(* {{ min_discount_pct }}%".  The threshold of a confirmation mail is that *)
(* of the watch its link confirms.                                         *)
MailStatesThreshold == \A m \in outbox : \A w \in rows : w.token = m.token => w.min = m.min
=============================================================================
