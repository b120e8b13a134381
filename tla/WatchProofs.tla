---------------------------- MODULE WatchProofs ----------------------------
(***************************************************************************)
(* The theorems of module Watches, for any products, addresses, clients,   *)
(* requests and quotas.                                                    *)
(***************************************************************************)
EXTENDS Watches, FiniteSetTheorems, TLAPS

FormInv ==
  \A r \in Request :
    /\ pc[r] # "idle" => form[r] \in Form
    /\ pc[r] = "committed" => pending[r] \in Request

TypeInv == TypeOK /\ FormInv

LEMMA TypeInit == Init => TypeInv
  BY DEF Init, TypeInv, TypeOK, FormInv, Step

(* The actions that leave the request's transaction alone, by name.        *)
Mails == (\E m \in outbox : SendOutboxMessage(m)) \/ (\E w \in rows : SendDigest(w))

Edits ==
  \/ \E t \in links : Confirm(t) \/ Unsubscribe(t) \/ UnsubscribeAll(t)
  \/ \E w \in rows : DeleteWatch(w)

LEMMA StepCases ==
  ASSUME [Next]_vars
  PROVE  \/ UNCHANGED vars \/ Mails \/ Edits \/ Tick
         \/ \E r \in Request :
              \/ \E f \in Form : Begin(r, f)
              \/ LockRequests(r) \/ ReadPending(r) \/ CheckBudget(r) \/ TouchConfirmation(r)
              \/ CheckPending(r) \/ InsertWatch(r) \/ Publish(r) \/ Break(r)
  BY DEF Next, RequestStep, Reader, Mails, Edits

(* What the three updates do to a row.                                     *)
Confirmed(w) == [w EXCEPT !.confirmed = TRUE, !.client = Nobody]
Touched(w, c) == [w EXCEPT !.age = 0, !.client = c]
Aged(w) == [w EXCEPT !.age = IF @ < Window THEN @ + 1 ELSE @]
NewWatch(r) ==
  [product |-> form[r].product, email |-> form[r].email, min |-> form[r].min,
   token |-> r, age |-> 0, client |-> form[r].client, confirmed |-> FALSE]

LEMMA UpdatedRows ==
  ASSUME NEW w \in Watch, NEW c \in Client \cup {Nobody}
  PROVE  /\ Confirmed(w) \in Watch /\ Touched(w, c) \in Watch /\ Aged(w) \in Watch
         /\ \A v \in {Confirmed(w), Touched(w, c), Aged(w)} :
              v.product = w.product /\ v.email = w.email /\ v.token = w.token
         /\ Confirmed(w).confirmed /\ Confirmed(w).client = Nobody /\ Confirmed(w).age = w.age
         /\ Touched(w, c).confirmed = w.confirmed /\ Touched(w, c).client = c
         /\ Aged(w).confirmed = w.confirmed /\ Aged(w).client = w.client
         /\ Aged(w).age < Window => w.age < Window
<1>1. w.age \in 0..Window /\ 0 \in 0..Window
  BY WatchAssumption DEF Watch
<1>2. (IF w.age < Window THEN w.age + 1 ELSE w.age) \in 0..Window
  BY <1>1, WatchAssumption
<1>3. Confirmed(w) \in Watch
  BY DEF Confirmed, Watch
<1>4. Touched(w, c) \in Watch
  BY <1>1 DEF Touched, Watch
<1>5. Aged(w) \in Watch
  BY <1>2 DEF Aged, Watch
<1>6. \A v \in {Confirmed(w), Touched(w, c), Aged(w)} :
        v.product = w.product /\ v.email = w.email /\ v.token = w.token
  BY DEF Confirmed, Touched, Aged, Watch
<1>7. /\ Confirmed(w).confirmed /\ Confirmed(w).client = Nobody /\ Confirmed(w).age = w.age
      /\ Touched(w, c).confirmed = w.confirmed /\ Touched(w, c).client = c
      /\ Aged(w).confirmed = w.confirmed /\ Aged(w).client = w.client
  BY DEF Confirmed, Touched, Aged, Watch
<1>8. Aged(w).age < Window => w.age < Window
  BY <1>1, WatchAssumption DEF Aged, Watch
<1>9. QED
  BY <1>3, <1>4, <1>5, <1>6, <1>7, <1>8

LEMMA InsertedRow ==
  ASSUME NEW r \in Request, form[r] \in Form
  PROVE  NewWatch(r) \in Watch
  BY WatchAssumption DEF NewWatch, Form, Watch

LEMMA TypeStep == TypeInv /\ [Next]_vars => TypeInv'
<1> SUFFICES ASSUME TypeInv, [Next]_vars
             PROVE  TypeInv'
  OBVIOUS
<1> USE WatchAssumption DEF TypeInv, TypeOK, FormInv, Step, Open, Answer, End, Released
<1>1. CASE UNCHANGED vars
  BY <1>1 DEF vars
<1>2. CASE Mails
  BY <1>2 DEF Mails, SendOutboxMessage, SendDigest, Message, Watch
<1>3. CASE Edits
  <2>1. ASSUME NEW t \in links, Confirm(t)
        PROVE  rows' \subseteq Watch
    <3>1. rows' = {IF w.token = t THEN Confirmed(w) ELSE w : w \in rows}
      BY <2>1 DEF Confirm, Confirmed
    <3>2. QED
      BY <3>1, UpdatedRows
  <2>2. ASSUME Edits
        PROVE  rows' \subseteq Watch /\ UNCHANGED <<lock, pc, form, pending, outbox, links>>
    BY <2>1, <2>2 DEF Edits, Confirm, Unsubscribe, UnsubscribeAll, DeleteWatch, WithoutOwnerOf
  <2>3. QED
    BY <1>3, <2>2
<1>4. CASE Tick
  <2>1. Older(rows) \subseteq Watch
    BY DEF Older, Watch
  <2>2. Older(outbox) \subseteq Message
    BY DEF Older, Message
  <2>3. QED
    BY <1>4, <2>1, <2>2 DEF Tick
<1>5. ASSUME NEW r \in Request, NEW f \in Form, Begin(r, f)
      PROVE  TypeInv'
  BY <1>5 DEF Begin
<1>6. ASSUME NEW r \in Request, LockRequests(r) \/ CheckBudget(r) \/ CheckPending(r) \/ Break(r)
      PROVE  TypeInv'
  BY <1>6 DEF LockRequests, CheckBudget, CheckPending, Break
<1>7. ASSUME NEW r \in Request, ReadPending(r)
      PROVE  TypeInv'
  <2> DEFINE seen == PendingWatch(form[r].product, form[r].email)
  <2>1. seen # {} => (CHOOSE w \in seen : TRUE).token \in Request
    BY DEF PendingWatch, WatchOf, Watch
  <2>2. QED
    BY <1>7, <2>1 DEF ReadPending
<1>8. ASSUME NEW r \in Request, TouchConfirmation(r)
      PROVE  TypeInv'
  <2>1. form[r] \in Form
    BY <1>8 DEF TouchConfirmation
  <2>2. rows' \subseteq Watch
    <3>1. rows' = {IF w.token = pending[r] THEN Touched(w, form[r].client) ELSE w : w \in rows}
      BY <1>8 DEF TouchConfirmation, Touched
    <3>2. form[r].client \in Client \cup {Nobody}
      BY <2>1 DEF Form
    <3>3. QED
      BY <3>1, <3>2, UpdatedRows
  <2>3. QED
    BY <1>8, <2>2 DEF TouchConfirmation
<1>9. ASSUME NEW r \in Request, InsertWatch(r)
      PROVE  TypeInv'
  <2>1. form[r] \in Form
    BY <1>9 DEF InsertWatch
  <2>2. rows' \subseteq Watch
    <3>1. rows' \subseteq rows \cup {NewWatch(r)}
      BY <1>9 DEF InsertWatch, NewWatch, DrawToken
    <3>2. QED
      BY <2>1, <3>1, InsertedRow
  <2>3. QED
    BY <1>9, <2>2 DEF InsertWatch, DrawToken
<1>10. ASSUME NEW r \in Request, Publish(r)
       PROVE  TypeInv'
  <2>1. form[r] \in Form /\ pending[r] \in Request
    BY <1>10 DEF Publish
  <2>2. outbox' \subseteq Message
    BY <1>10, <2>1 DEF Publish, Message, Form
  <2>3. QED
    BY <1>10, <2>2 DEF Publish
<1>11. QED
  BY <1>1, <1>2, <1>3, <1>4, <1>5, <1>6, <1>7, <1>8, <1>9, <1>10, StepCases

THEOREM TypeCorrect == Spec => []TypeOK
<1>1. TypeInv => TypeOK
  BY DEF TypeInv
<1>2. QED
  BY <1>1, TypeInit, TypeStep, PTL DEF Spec

-----------------------------------------------------------------------------
(* Who holds the lock, and what each row owes to the request that wrote it. *)

Holding == {"locked", "read", "allowed", "insertable"}

LockInv == \A r \in Request : pc[r] \in Holding => lock = r

(* A request inserts at most one row, under its own token.                 *)
Spent == {"committed", "accepted", "error"}

TokenInv ==
  /\ \A w \in rows : pc[w.token] \in Spent
  /\ \A v, w \in rows : v.token = w.token => v = w

(* How the rows change: f gives what became of each row, and one request   *)
(* may insert or touch a row.                                              *)
Descend(f) ==
  /\ f \in [rows -> Watch]
  /\ rows' \subseteq {f[w] : w \in rows}
  /\ \A w \in rows :
       /\ f[w].product = w.product /\ f[w].email = w.email /\ f[w].token = w.token
       /\ ~f[w].confirmed => ~w.confirmed

(* No row looks younger than it did, or gains a client.                    *)
NotRenewed(f) ==
  \A w \in rows :
    /\ f[w].age < Window => w.age < Window
    /\ f[w].client \in {w.client, Nobody}

Touch(r) == TouchConfirmation(r) /\ \E f : Descend(f)

Insert(r) ==
  /\ pc[r] = "insertable" /\ pc' = [pc EXCEPT ![r] = "committed"] /\ lock' = Released(r)
  /\ WatchOf(form[r].product, form[r].email) = {}
  /\ rows' = rows \cup {NewWatch(r)}
  /\ UNCHANGED form

LEMMA UnchangedRows ==
  ASSUME TypeInv, rows' \subseteq rows
  PROVE  \E f : Descend(f) /\ NotRenewed(f)
<1> DEFINE f == [w \in rows |-> w]
<1>1. Descend(f) /\ NotRenewed(f)
  BY DEF Descend, NotRenewed, TypeInv, TypeOK
<1>2. QED
  BY <1>1

LEMMA EditedRows ==
  ASSUME TypeInv, Edits \/ Tick
  PROVE  \E f : Descend(f) /\ NotRenewed(f)
<1>1. rows \subseteq Watch
  BY DEF TypeInv, TypeOK
<1>2. ASSUME NEW t, Confirm(t)
      PROVE  \E f : Descend(f) /\ NotRenewed(f)
  <2> DEFINE f == [w \in rows |-> IF w.token = t THEN Confirmed(w) ELSE w]
  <2>1. rows' = {IF w.token = t THEN Confirmed(w) ELSE w : w \in rows}
    BY <1>2 DEF Confirm, Confirmed
  <2>2. f \in [rows -> Watch] /\ rows' \subseteq {f[w] : w \in rows}
    BY <1>1, <2>1, UpdatedRows
  <2>3. Descend(f) /\ NotRenewed(f)
    BY <1>1, <2>2, UpdatedRows DEF Descend, NotRenewed
  <2>4. QED
    BY <2>3
<1>3. ASSUME Tick
      PROVE  \E f : Descend(f) /\ NotRenewed(f)
  <2> DEFINE f == [w \in rows |-> Aged(w)]
  <2>1. rows' = {Aged(w) : w \in rows}
    BY <1>3 DEF Tick, Older, Aged
  <2>2. f \in [rows -> Watch] /\ rows' \subseteq {f[w] : w \in rows}
    BY <1>1, <2>1, UpdatedRows
  <2>3. Descend(f) /\ NotRenewed(f)
    BY <1>1, <2>2, UpdatedRows DEF Descend, NotRenewed
  <2>4. QED
    BY <2>3
<1>4. ASSUME \/ \E t \in links : Unsubscribe(t) \/ UnsubscribeAll(t)
             \/ \E w \in rows : DeleteWatch(w)
      PROVE  \E f : Descend(f) /\ NotRenewed(f)
  <2>1. rows' \subseteq rows
    BY <1>4 DEF Unsubscribe, UnsubscribeAll, WithoutOwnerOf, DeleteWatch
  <2>2. QED
    BY <2>1, UnchangedRows
<1>5. QED
  BY <1>2, <1>3, <1>4 DEF Edits

LEMMA TouchedRows ==
  ASSUME TypeInv, NEW r \in Request, TouchConfirmation(r)
  PROVE  Touch(r)
<1> DEFINE f == [w \in rows |-> IF w.token = pending[r] THEN Touched(w, form[r].client) ELSE w]
<1>1. rows \subseteq Watch /\ form[r].client \in Client \cup {Nobody}
  BY DEF TypeInv, TypeOK, FormInv, TouchConfirmation, Form
<1>2. rows' = {IF w.token = pending[r] THEN Touched(w, form[r].client) ELSE w : w \in rows}
  BY DEF TouchConfirmation, Touched
<1>3. f \in [rows -> Watch] /\ rows' \subseteq {f[w] : w \in rows}
  BY <1>1, <1>2, UpdatedRows
<1>4. Descend(f)
  BY <1>1, <1>3, UpdatedRows DEF Descend
<1>5. QED
  BY <1>4 DEF Touch

LEMMA RowSteps ==
  ASSUME TypeInv, [Next]_vars
  PROVE  \/ \E f : Descend(f) /\ NotRenewed(f)
         \/ \E r \in Request : Touch(r) \/ Insert(r)
<1>1. CASE UNCHANGED vars \/ Mails
  BY <1>1, UnchangedRows DEF vars, Mails, SendOutboxMessage, SendDigest
<1>2. CASE Edits \/ Tick
  BY <1>2, EditedRows
<1>3. ASSUME NEW r \in Request,
             \/ \E f \in Form : Begin(r, f)
             \/ LockRequests(r) \/ ReadPending(r) \/ CheckBudget(r) \/ CheckPending(r)
             \/ Publish(r) \/ Break(r)
      PROVE  \E f : Descend(f) /\ NotRenewed(f)
  <2>1. rows' = rows
    BY <1>3 DEF Begin, LockRequests, ReadPending, CheckBudget, CheckPending, Publish, Break
  <2>2. QED
    BY <2>1, UnchangedRows
<1>4. ASSUME NEW r \in Request, InsertWatch(r)
      PROVE  Insert(r) \/ \E f : Descend(f) /\ NotRenewed(f)
  <2>1. CASE WatchOf(form[r].product, form[r].email) # {}
    BY <1>4, <2>1, UnchangedRows DEF InsertWatch
  <2>2. CASE WatchOf(form[r].product, form[r].email) = {}
    BY <1>4, <2>2 DEF InsertWatch, Insert, NewWatch, DrawToken, End
  <2>3. QED
    BY <2>1, <2>2
<1>5. QED
  BY <1>1, <1>2, <1>3, <1>4, TouchedRows, StepCases

-----------------------------------------------------------------------------
(* Counting.                                                               *)

LEMMA ImageBound ==
  ASSUME NEW S, IsFiniteSet(S), NEW f, NEW T, \A t \in T : \E s \in S : f[s] = t
  PROVE  /\ IsFiniteSet(T)
         /\ Cardinality(T) \in Nat /\ Cardinality(S) \in Nat
         /\ Cardinality(T) <= Cardinality(S)
<1> DEFINE U == {s \in S : f[s] \in T}
           g == [s \in U |-> f[s]]
<1>1. IsFiniteSet(U) /\ Cardinality(U) <= Cardinality(S)
  BY FS_Subset
<1>2. g \in Surjection(U, T)
  BY DEF Surjection
<1>3. IsFiniteSet(T) /\ Cardinality(T) <= Cardinality(U)
  <2> HIDE DEF U, g
  <2>1. QED
    BY <1>1, <1>2, FS_Surjection
<1>4. QED
  BY <1>1, <1>3, FS_CardinalityType

LEMMA OneMore ==
  ASSUME NEW S, IsFiniteSet(S), NEW x, NEW T, T \subseteq S \cup {x}
  PROVE  /\ IsFiniteSet(T)
         /\ Cardinality(T) \in Nat /\ Cardinality(S) \in Nat
         /\ Cardinality(T) <= Cardinality(S) + 1
<1>1. IsFiniteSet(S \cup {x}) /\ Cardinality(S \cup {x}) <= Cardinality(S) + 1
  <2>1. Cardinality(S) \in Nat
    BY FS_CardinalityType
  <2>2. /\ IsFiniteSet(S \cup {x})
        /\ Cardinality(S \cup {x}) = IF x \in S THEN Cardinality(S) ELSE Cardinality(S) + 1
    BY FS_AddElement
  <2>3. QED
    BY <2>1, <2>2
<1>2. IsFiniteSet(T) /\ Cardinality(T) <= Cardinality(S \cup {x})
  BY <1>1, FS_Subset
<1>3. QED
  BY <1>1, <1>2, FS_CardinalityType

UnconfirmedOf(e) == {w \in rows : w.email = e /\ ~w.confirmed}
SentTo(c) == SentLastHour({w \in rows : w.client = c})

LEMMA CountsAreFinite ==
  ASSUME IsFiniteSet(rows), NEW e, NEW c
  PROVE  IsFiniteSet(UnconfirmedOf(e)) /\ IsFiniteSet(SentTo(c)) /\ IsFiniteSet(SentLastHour(rows))
  BY FS_Subset DEF UnconfirmedOf, SentTo, SentLastHour

(* What only descends does not multiply.                                   *)
LEMMA PendingDescends ==
  ASSUME IsFiniteSet(rows), NEW f, Descend(f), NEW e
  PROVE  /\ IsFiniteSet(rows')
         /\ PendingCount(e)' <= PendingCount(e)
         /\ PendingCount(e) \in Nat /\ PendingCount(e)' \in Nat
<1>1. IsFiniteSet(rows')
  <2>1. \A v \in rows' : \E w \in rows : f[w] = v
    BY DEF Descend
  <2>2. QED
    BY <2>1, ImageBound
<1>2. \A v \in UnconfirmedOf(e)' : \E w \in UnconfirmedOf(e) : f[w] = v
  BY DEF Descend, UnconfirmedOf
<1>3. /\ Cardinality(UnconfirmedOf(e)') <= Cardinality(UnconfirmedOf(e))
      /\ Cardinality(UnconfirmedOf(e)') \in Nat /\ Cardinality(UnconfirmedOf(e)) \in Nat
  BY <1>2, CountsAreFinite, ImageBound
<1>4. QED
  BY <1>1, <1>3 DEF PendingCount, UnconfirmedOf

LEMMA BudgetDescends ==
  ASSUME IsFiniteSet(rows), NEW f, Descend(f), NotRenewed(f)
  PROVE  /\ Cardinality(SentLastHour(rows)') <= Cardinality(SentLastHour(rows))
         /\ Cardinality(SentLastHour(rows)) \in Nat /\ Cardinality(SentLastHour(rows)') \in Nat
         /\ \A c \in Client :
              /\ Cardinality(SentTo(c)') <= Cardinality(SentTo(c))
              /\ Cardinality(SentTo(c)) \in Nat /\ Cardinality(SentTo(c)') \in Nat
<1>1. \A v \in SentLastHour(rows)' : \E w \in SentLastHour(rows) : f[w] = v
  BY DEF Descend, NotRenewed, SentLastHour
<1>2. ASSUME NEW c \in Client, NEW v \in SentTo(c)'
      PROVE  \E w \in SentTo(c) : f[w] = v
  <2>1. v \in rows' /\ v.client = c /\ v.age < Window
    BY DEF SentTo, SentLastHour
  <2>2. PICK w \in rows : f[w] = v
    BY <2>1 DEF Descend
  <2>3. w.age < Window /\ w.client = c
    BY <2>1, <2>2, WatchAssumption DEF NotRenewed
  <2>4. QED
    BY <2>2, <2>3 DEF SentTo, SentLastHour
<1>3. /\ Cardinality(SentLastHour(rows)') <= Cardinality(SentLastHour(rows))
      /\ Cardinality(SentLastHour(rows)) \in Nat /\ Cardinality(SentLastHour(rows)') \in Nat
  BY <1>1, CountsAreFinite, ImageBound
<1>4. ASSUME NEW c \in Client
      PROVE  /\ Cardinality(SentTo(c)') <= Cardinality(SentTo(c))
             /\ Cardinality(SentTo(c)) \in Nat /\ Cardinality(SentTo(c)') \in Nat
  BY <1>2, CountsAreFinite, ImageBound
<1>5. QED
  BY <1>3, <1>4

-----------------------------------------------------------------------------
(* The advisory lock serializes the requests from their lock to their end. *)

Own(r) ==
  LockRequests(r) \/ ReadPending(r) \/ CheckBudget(r) \/ CheckPending(r)

(* A request that holds the lock after a step has taken a step of its own, *)
(* and the rows are as they were, or it has stayed where it was.           *)
LEMMA HolderSteps ==
  ASSUME TypeInv, [Next]_vars, NEW r \in Request, pc'[r] \in Holding
  PROVE  \/ pc'[r] = pc[r] /\ form'[r] = form[r] /\ pending'[r] = pending[r]
         \/ Own(r) /\ rows' = rows /\ form'[r] = form[r]
<1> USE DEF TypeInv, TypeOK, Holding
<1>1. CASE UNCHANGED vars \/ Mails \/ Edits \/ Tick
  BY <1>1 DEF vars, Mails, SendOutboxMessage, SendDigest, Edits, Confirm, Unsubscribe,
     UnsubscribeAll, DeleteWatch, Tick
<1>2. ASSUME NEW m \in Request, Own(m)
      PROVE  /\ rows' = rows /\ form' = form
             /\ m # r => pc'[r] = pc[r] /\ pending'[r] = pending[r]
  BY <1>2 DEF Own, LockRequests, ReadPending, CheckBudget, CheckPending, End
<1>3. ASSUME NEW m \in Request,
             \/ \E f \in Form : Begin(m, f)
             \/ TouchConfirmation(m) \/ InsertWatch(m) \/ Publish(m) \/ Break(m)
      PROVE  pc'[r] = pc[r] /\ form'[r] = form[r] /\ pending'[r] = pending[r]
  BY <1>3 DEF Begin, TouchConfirmation, InsertWatch, Publish, Break, End, Open, Answer
<1>4. QED
  BY <1>1, <1>2, <1>3, StepCases DEF Own

LEMMA LockStep ==
  ASSUME TypeInv, LockInv, [Next]_vars
  PROVE  LockInv'
<1> SUFFICES ASSUME NEW r \in Request, pc'[r] \in Holding
             PROVE  lock' = r
  BY DEF LockInv
<1> USE WatchAssumption DEF TypeInv, TypeOK, Holding, LockInv
<1>1. ASSUME NEW m \in Request, m # r,
             \/ \E f \in Form : Begin(m, f)
             \/ LockRequests(m) \/ ReadPending(m) \/ CheckBudget(m) \/ TouchConfirmation(m)
             \/ CheckPending(m) \/ InsertWatch(m) \/ Publish(m) \/ Break(m)
      PROVE  lock' = r
  <2>1. pc[r] \in Holding /\ lock = r
    BY <1>1 DEF Begin, LockRequests, ReadPending, CheckBudget, TouchConfirmation,
       CheckPending, InsertWatch, Publish, Break, End
  <2>2. QED
    BY <1>1, <2>1 DEF Begin, LockRequests, LockFree, ReadPending, CheckBudget,
       TouchConfirmation, CheckPending, InsertWatch, Publish, Break, End, Released
<1>2. CASE UNCHANGED vars \/ Mails \/ Edits \/ Tick
  BY <1>2 DEF vars, Mails, SendOutboxMessage, SendDigest, Edits, Confirm, Unsubscribe,
     UnsubscribeAll, DeleteWatch, Tick
<1>3. CASE LockRequests(r) \/ ReadPending(r) \/ CheckBudget(r) \/ CheckPending(r)
  BY <1>3 DEF LockRequests, ReadPending, CheckBudget, CheckPending, End
<1>4. CASE \/ \E f \in Form : Begin(r, f)
           \/ TouchConfirmation(r) \/ InsertWatch(r) \/ Publish(r) \/ Break(r)
  BY <1>4 DEF Begin, TouchConfirmation, InsertWatch, Publish, Break, End, Open, Answer
<1>5. QED
  BY <1>1, <1>2, <1>3, <1>4, StepCases

(* Nobody inserts, or touches, beside a request that holds the lock.       *)
LEMMA OneWriter ==
  ASSUME TypeInv, LockInv, NEW r \in Request, NEW s \in Request,
         Insert(r) \/ Touch(r), pc'[s] \in Holding
  PROVE  pc[s] \notin Holding
<1>1. pc[r] \in Holding /\ lock = r
  BY DEF Insert, Touch, TouchConfirmation, LockInv, Holding
<1>2. s # r
  BY DEF Insert, Touch, TouchConfirmation, End, TypeInv, TypeOK, Holding
<1>3. QED
  BY <1>1, <1>2 DEF LockInv

-----------------------------------------------------------------------------
(* The quota of unconfirmed watches.                                       *)

(* What a request has seen since it took the lock is still so: confirming  *)
(* and deleting only lower the counts.                                     *)
ClearPath ==
  \A r \in Request, p \in Product, e \in Email :
    form[r].product = p /\ form[r].email = e =>
      /\ pc[r] \in {"read", "allowed", "insertable"} /\ pending[r] = Nobody =>
           PendingWatch(p, e) = {}
      /\ pc[r] = "insertable" => pending[r] = Nobody /\ PendingCount(e) < MaxUnconfirmed

QuotaInv == TypeInv /\ LockInv /\ IsFiniteSet(rows) /\ ClearPath /\ PendingQuota

LEMMA QuotaInit == Init => QuotaInv
<1> SUFFICES ASSUME Init
             PROVE  QuotaInv
  OBVIOUS
<1>1. rows = {} /\ \A r \in Request : pc[r] = "idle"
  BY DEF Init
<1>2. \A e : PendingCount(e) = 0
  BY <1>1, FS_EmptySet DEF PendingCount
<1>3. LockInv /\ IsFiniteSet(rows) /\ ClearPath
  BY <1>1, FS_EmptySet DEF LockInv, Holding, ClearPath
<1>4. PendingQuota
  BY <1>2, WatchAssumption DEF PendingQuota
<1>5. QED
  BY <1>3, <1>4, TypeInit DEF QuotaInv

LEMMA NoPendingDescends ==
  ASSUME NEW f, Descend(f), NEW p, NEW e, PendingWatch(p, e) = {}
  PROVE  PendingWatch(p, e)' = {}
<1>1. \A v \in PendingWatch(p, e)' : \E w \in PendingWatch(p, e) : f[w] = v
  BY DEF Descend, PendingWatch, WatchOf
<1>2. QED
  BY <1>1

(* A step that inserts nothing.                                            *)
LEMMA QuotaDescends ==
  ASSUME QuotaInv, [Next]_vars, NEW f, Descend(f)
  PROVE  IsFiniteSet(rows)' /\ ClearPath' /\ PendingQuota'
<1>1. IsFiniteSet(rows')
  BY PendingDescends DEF QuotaInv
<1>2. PendingQuota'
  <2> SUFFICES ASSUME NEW e \in Email
               PROVE  PendingCount(e)' <= MaxUnconfirmed
    BY DEF PendingQuota
  <2>1. PendingCount(e) <= MaxUnconfirmed
    BY DEF QuotaInv, PendingQuota
  <2>2. QED
    BY <2>1, PendingDescends, WatchAssumption DEF QuotaInv
<1>3. \A p, e : /\ PendingWatch(p, e) = {} => PendingWatch(p, e)' = {}
                /\ PendingCount(e) < MaxUnconfirmed => PendingCount(e)' < MaxUnconfirmed
  BY NoPendingDescends, PendingDescends, WatchAssumption DEF QuotaInv
<1>4. ASSUME NEW r \in Request, NEW p \in Product, NEW e \in Email,
             form'[r].product = p, form'[r].email = e,
             pc'[r] \in {"read", "allowed", "insertable"}
      PROVE  /\ pending'[r] = Nobody => PendingWatch(p, e)' = {}
             /\ pc'[r] = "insertable" => pending'[r] = Nobody /\ PendingCount(e)' < MaxUnconfirmed
  <2>1. CASE pc'[r] = pc[r] /\ form'[r] = form[r] /\ pending'[r] = pending[r]
    <3>1. /\ pending[r] = Nobody => PendingWatch(p, e) = {}
          /\ pc[r] = "insertable" => pending[r] = Nobody /\ PendingCount(e) < MaxUnconfirmed
      BY <1>4, <2>1 DEF QuotaInv, ClearPath
    <3>2. QED
      BY <1>3, <2>1, <3>1
  <2>2. CASE Own(r) /\ rows' = rows /\ form'[r] = form[r]
    <3>1. /\ pending'[r] = Nobody => PendingWatch(p, e) = {}
          /\ pc'[r] = "insertable" => pending'[r] = Nobody /\ PendingCount(e) < MaxUnconfirmed
      <4>1. CASE LockRequests(r) \/ CheckBudget(r)
        BY <1>4, <2>2, <4>1 DEF QuotaInv, ClearPath, TypeInv, TypeOK, LockRequests,
           CheckBudget, End, Answer
      <4>2. CASE CheckPending(r)
        BY <1>4, <2>2, <4>2, WatchAssumption, CountsAreFinite
           DEF QuotaInv, ClearPath, TypeInv, TypeOK, CheckPending, End
      <4>3. CASE ReadPending(r)
        <5> DEFINE seen == PendingWatch(p, e)
        <5>1. seen # {} => (CHOOSE w \in seen : TRUE).token # Nobody
          BY WatchAssumption DEF QuotaInv, TypeInv, TypeOK, PendingWatch, WatchOf, Watch
        <5>2. form[r].product = p /\ form[r].email = e /\ pc'[r] # "accepted"
          BY <1>4, <2>2
        <5>3. pc'[r] = "read"
              /\ pending'[r] = IF seen = {} THEN Nobody ELSE (CHOOSE w \in seen : TRUE).token
          BY <4>3, <5>2 DEF QuotaInv, TypeInv, TypeOK, ReadPending, End
        <5>4. QED
          BY <5>1, <5>3
      <4>4. QED
        BY <2>2, <4>1, <4>2, <4>3 DEF Own
    <3>2. QED
      BY <1>3, <3>1
  <2>3. QED
    BY <1>4, <2>1, <2>2, HolderSteps DEF QuotaInv, Holding
<1>5. QED
  BY <1>1, <1>2, <1>4 DEF ClearPath

LEMMA QuotaInsert ==
  ASSUME QuotaInv, [Next]_vars, NEW r \in Request, Insert(r)
  PROVE  IsFiniteSet(rows)' /\ ClearPath' /\ PendingQuota'
<1> USE WatchAssumption DEF QuotaInv
<1>1. form[r] \in Form /\ IsFiniteSet(rows')
  BY OneMore DEF TypeInv, FormInv, Insert
<1>2. PendingQuota'
  <2> SUFFICES ASSUME NEW e \in Email
               PROVE  PendingCount(e)' <= MaxUnconfirmed
    BY DEF PendingQuota
  <2>1. PendingCount(e) <= MaxUnconfirmed
    BY DEF PendingQuota
  <2>2. IsFiniteSet(UnconfirmedOf(e))
    BY CountsAreFinite
  <2>3. CASE e = form[r].email
    <3>1. PendingCount(e) < MaxUnconfirmed
      BY <1>1, <2>3 DEF ClearPath, Insert, Form
    <3>2. UnconfirmedOf(e)' \subseteq UnconfirmedOf(e) \cup {NewWatch(r)}
      BY DEF UnconfirmedOf, Insert
    <3>3. Cardinality(UnconfirmedOf(e)') <= Cardinality(UnconfirmedOf(e)) + 1
          /\ Cardinality(UnconfirmedOf(e)') \in Nat /\ Cardinality(UnconfirmedOf(e)) \in Nat
      BY <2>2, <3>2, OneMore
    <3>4. QED
      BY <3>1, <3>3 DEF PendingCount, UnconfirmedOf
  <2>4. CASE e # form[r].email
    <3>1. UnconfirmedOf(e)' = UnconfirmedOf(e)
      BY <2>4 DEF UnconfirmedOf, Insert, NewWatch
    <3>2. QED
      BY <2>1, <3>1 DEF PendingCount, UnconfirmedOf
  <2>5. QED
    BY <2>3, <2>4
<1>3. ASSUME NEW s \in Request, pc'[s] \in {"read", "allowed", "insertable"}
      PROVE  FALSE
  <2>1. pc[s] \notin Holding
    BY <1>3, OneWriter DEF Holding
  <2>2. pc'[s] = pc[s]
    BY <1>3 DEF Insert, TypeInv, TypeOK
  <2>3. QED
    BY <1>3, <2>1, <2>2 DEF Holding
<1>4. QED
  BY <1>1, <1>2, <1>3 DEF ClearPath

LEMMA QuotaStep == QuotaInv /\ [Next]_vars => QuotaInv'
<1> SUFFICES ASSUME QuotaInv, [Next]_vars
             PROVE  QuotaInv'
  OBVIOUS
<1>1. TypeInv' /\ LockInv'
  BY TypeStep, LockStep DEF QuotaInv
<1>2. \/ \E f : Descend(f)
      \/ \E r \in Request : Insert(r)
  BY RowSteps DEF QuotaInv, Touch
<1>3. QED
  BY <1>1, <1>2, QuotaDescends, QuotaInsert DEF QuotaInv

(* No interleaving of requests, resends, confirmations, deletions and      *)
(* crashes gives an address more unconfirmed watches than the quota: the   *)
(* count request_watch took under the lock is an upper bound until it      *)
(* inserts, because only the holder of the lock inserts.                   *)
THEOREM QuotaHolds == Spec => []PendingQuota
<1>1. QuotaInv => PendingQuota
  BY DEF QuotaInv
<1>2. QED
  BY <1>1, QuotaInit, QuotaStep, PTL DEF Spec

(* The answer "already watching" speaks of a confirmed watch: nobody else  *)
(* inserted since the request saw no pending one.                          *)
THEOREM ConflictsAreConfirmed == Spec => ConflictMeansConfirmed
<1> DEFINE A == \A r \in Request :
                  pc[r] # "alreadyWatching" /\ pc'[r] = "alreadyWatching" =>
                    \E w \in WatchOf(form[r].product, form[r].email) : w.confirmed
<1>1. ASSUME QuotaInv, [Next]_vars
      PROVE  A
  <2> SUFFICES ASSUME NEW r \in Request,
                      pc[r] # "alreadyWatching", pc'[r] = "alreadyWatching"
               PROVE  \E w \in WatchOf(form[r].product, form[r].email) : w.confirmed
    OBVIOUS
  <2>1. pc \in [Request -> Step]
    BY <1>1 DEF QuotaInv, TypeInv, TypeOK
  <2>2. ~ (UNCHANGED vars \/ Mails \/ Edits \/ Tick)
    BY DEF vars, Mails, SendOutboxMessage, SendDigest, Edits, Confirm, Unsubscribe,
       UnsubscribeAll, DeleteWatch, Tick
  <2>3. ASSUME NEW m \in Request,
               \/ \E f \in Form : Begin(m, f)
               \/ LockRequests(m) \/ ReadPending(m) \/ CheckBudget(m) \/ TouchConfirmation(m)
               \/ CheckPending(m) \/ Publish(m) \/ Break(m)
        PROVE  FALSE
    BY <2>1, <2>3 DEF Begin, LockRequests, ReadPending, CheckBudget, TouchConfirmation,
       CheckPending, Publish, Break, End
  <2>4. ASSUME NEW m \in Request, InsertWatch(m)
        PROVE  pc[r] = "insertable" /\ WatchOf(form[r].product, form[r].email) # {}
    <3>1. m = r
      BY <2>1, <2>4 DEF InsertWatch, End
    <3>2. QED
      BY <2>1, <2>4, <3>1 DEF InsertWatch, End
  <2>5. pc[r] = "insertable" /\ WatchOf(form[r].product, form[r].email) # {}
    BY <1>1, <2>2, <2>3, <2>4, StepCases
  <2>6. form[r].product \in Product /\ form[r].email \in Email
    BY <1>1, <2>5 DEF QuotaInv, TypeInv, FormInv, Form
  <2>7. pending[r] = Nobody
    BY <1>1, <2>5, <2>6 DEF QuotaInv, ClearPath
  <2>8. PendingWatch(form[r].product, form[r].email) = {}
    BY <1>1, <2>5, <2>6, <2>7 DEF QuotaInv, ClearPath
  <2>9. QED
    BY <2>5, <2>8 DEF PendingWatch
<1>2. QED
  BY <1>1, QuotaInit, QuotaStep, PTL DEF Spec, ConflictMeansConfirmed

-----------------------------------------------------------------------------
(* The budget of confirmations per hour.                                   *)

(* A request that got past the budget is still within it: nobody else      *)
(* renews a row while it holds the lock.                                   *)
Afforded ==
  \A r \in Request, c \in Client \cup {Nobody} :
    pc[r] \in {"allowed", "insertable"} /\ form[r].client = c => ~OverBudget(c)

BudgetInv == TypeInv /\ LockInv /\ TokenInv /\ IsFiniteSet(rows) /\ Afforded /\ RowBudget

LEMMA BudgetInit == Init => BudgetInv
<1> SUFFICES ASSUME Init
             PROVE  BudgetInv
  OBVIOUS
<1>1. rows = {} /\ \A r \in Request : pc[r] = "idle"
  BY DEF Init
<1>2. SentLastHour(rows) = {} /\ \A c : SentLastHour({w \in rows : w.client = c}) = {}
  BY <1>1 DEF SentLastHour
<1>3. LockInv /\ TokenInv /\ IsFiniteSet(rows) /\ Afforded
  BY <1>1, FS_EmptySet DEF LockInv, Holding, TokenInv, Afforded
<1>4. RowBudget
  <2> DEFINE Count(S) == Cardinality(S)
  <2>1. Count({}) <= MaxPerHour /\ Count({}) <= MaxPerClient
    BY FS_EmptySet, WatchAssumption
  <2> HIDE DEF Count
  <2>2. Count(SentLastHour(rows)) <= MaxPerHour
        /\ \A c : Count(SentLastHour({w \in rows : w.client = c})) <= MaxPerClient
    BY <1>2, <2>1, Zenon
  <2>3. QED
    BY <2>2, Zenon DEF RowBudget, Count
<1>5. QED
  BY <1>3, <1>4, TypeInit DEF BudgetInv

(* A request that has written its row, or failed, does not start again.    *)
LEMMA SpentStays ==
  ASSUME TypeInv, [Next]_vars, NEW t \in Request, pc[t] \in Spent
  PROVE  pc'[t] \in Spent
<1> USE DEF TypeInv, TypeOK, Spent
<1>1. CASE UNCHANGED vars \/ Mails \/ Edits \/ Tick
  BY <1>1 DEF vars, Mails, SendOutboxMessage, SendDigest, Edits, Confirm, Unsubscribe,
     UnsubscribeAll, DeleteWatch, Tick
<1>2. ASSUME NEW m \in Request,
             \/ \E f \in Form : Begin(m, f)
             \/ LockRequests(m) \/ ReadPending(m) \/ CheckBudget(m) \/ TouchConfirmation(m)
             \/ CheckPending(m) \/ InsertWatch(m) \/ Publish(m) \/ Break(m)
      PROVE  pc'[t] \in Spent
  <2>1. CASE m # t
    BY <1>2, <2>1 DEF Begin, LockRequests, ReadPending, CheckBudget,
       TouchConfirmation, CheckPending, InsertWatch, Publish, Break, End
  <2>2. CASE m = t
    BY <1>2, <2>2 DEF Begin, LockRequests, ReadPending, CheckBudget,
       TouchConfirmation, CheckPending, InsertWatch, Publish, Break, End, Open
  <2>3. QED
    BY <2>1, <2>2
<1>3. QED
  BY <1>1, <1>2, StepCases

(* Tokens stay unique, and belong to requests that have committed.         *)
LEMMA TokenStep ==
  ASSUME TypeInv, TokenInv, [Next]_vars
  PROVE  TokenInv'
<1> USE DEF TypeInv, TypeOK
<1>1. ASSUME NEW t \in Request, pc[t] \in Spent
      PROVE  pc'[t] \in Spent
  BY <1>1, SpentStays
<1>2. ASSUME NEW f, Descend(f)
      PROVE  TokenInv'
  <2>1. \A v \in rows' : \E w \in rows : v = f[w] /\ v.token = w.token
    BY <1>2 DEF Descend
  <2>2. \A v \in rows' : v.token \in Request /\ pc[v.token] \in Spent
    BY <2>1 DEF TokenInv, Watch
  <2>3. \A u, v \in rows' : u.token = v.token => u = v
    BY <2>1 DEF TokenInv
  <2>4. QED
    BY <1>1, <2>2, <2>3 DEF TokenInv
<1>3. ASSUME NEW r \in Request, Insert(r)
      PROVE  TokenInv'
  <2>1. \A w \in rows : w.token \in Request /\ w.token # r
    BY <1>3 DEF Insert, TokenInv, Watch, Spent
  <2>2. NewWatch(r).token = r /\ pc'[r] = "committed" /\ rows' = rows \cup {NewWatch(r)}
    BY <1>3 DEF Insert, NewWatch
  <2>3. QED
    BY <1>1, <2>1, <2>2 DEF TokenInv, Spent
<1>4. QED
  BY <1>2, <1>3, RowSteps DEF Touch

LEMMA UnderBudget ==
  ASSUME IsFiniteSet(rows), NEW c \in Client \cup {Nobody}, ~OverBudget(c)
  PROVE  /\ Cardinality(SentLastHour(rows)) < MaxPerHour
         /\ c # Nobody => Cardinality(SentTo(c)) < MaxPerClient
<1>1. Cardinality(SentLastHour(rows)) \in Nat /\ Cardinality(SentTo(c)) \in Nat
  BY CountsAreFinite, FS_CardinalityType
<1>2. QED
  BY <1>1, WatchAssumption DEF OverBudget, SentTo

(* One row more, charged to a client within the budget.                    *)
LEMMA OneRenewed ==
  ASSUME BudgetInv, NEW x, rows' \subseteq rows \cup {x},
         x.client \in Client \cup {Nobody}, ~OverBudget(x.client)
  PROVE  IsFiniteSet(rows') /\ RowBudget'
<1> USE WatchAssumption DEF BudgetInv
<1>1. IsFiniteSet(rows')
  BY OneMore
<1>2. Cardinality(SentLastHour(rows)') <= MaxPerHour
  <2>1. SentLastHour(rows)' \subseteq SentLastHour(rows) \cup {x}
    BY DEF SentLastHour
  <2>2. QED
    BY <2>1, OneMore, CountsAreFinite, UnderBudget
<1>3. ASSUME NEW c \in Client
      PROVE  Cardinality(SentTo(c)') <= MaxPerClient
  <2>1. IsFiniteSet(SentTo(c)) /\ Cardinality(SentTo(c)) <= MaxPerClient
    BY CountsAreFinite DEF RowBudget, SentTo
  <2>2. CASE x.client = c
    <3>1. SentTo(c)' \subseteq SentTo(c) \cup {x}
      BY DEF SentTo, SentLastHour
    <3>2. Cardinality(SentTo(c)) < MaxPerClient
      BY <2>2, UnderBudget
    <3>3. QED
      BY <2>1, <3>1, <3>2, OneMore
  <2>3. CASE x.client # c
    <3>1. SentTo(c)' \subseteq SentTo(c)
      BY <2>3 DEF SentTo, SentLastHour
    <3>2. QED
      BY <2>1, <3>1, FS_Subset, FS_CardinalityType
  <2>4. QED
    BY <2>2, <2>3
<1>4. QED
  BY <1>1, <1>2, <1>3 DEF RowBudget, SentTo

LEMMA NoneRenewed ==
  ASSUME BudgetInv, NEW f, Descend(f), NotRenewed(f)
  PROVE  /\ IsFiniteSet(rows') /\ RowBudget'
         /\ \A c \in Client \cup {Nobody} : ~OverBudget(c) => ~OverBudget(c)'
<1> USE WatchAssumption DEF BudgetInv
<1>1. IsFiniteSet(rows')
  BY PendingDescends
<1>2. RowBudget'
  <2>1. Cardinality(SentLastHour(rows)') <= MaxPerHour
    BY BudgetDescends DEF RowBudget
  <2>2. ASSUME NEW c \in Client
        PROVE  Cardinality(SentTo(c)') <= MaxPerClient
    <3>1. Cardinality(SentTo(c)) <= MaxPerClient
      BY DEF RowBudget, SentTo
    <3>2. QED
      BY <3>1, BudgetDescends
  <2>3. QED
    BY <2>1, <2>2 DEF RowBudget, SentTo
<1>3. ASSUME NEW c \in Client \cup {Nobody}, ~OverBudget(c)
      PROVE  ~OverBudget(c)'
  BY <1>3, BudgetDescends DEF OverBudget, SentTo
<1>4. QED
  BY <1>1, <1>2, <1>3

LEMMA RenewingStep ==
  ASSUME BudgetInv, [Next]_vars, NEW r \in Request, Touch(r) \/ Insert(r)
  PROVE  IsFiniteSet(rows)' /\ Afforded' /\ RowBudget'
<1> USE DEF BudgetInv
<1>1. form[r] \in Form /\ pc[r] \in {"allowed", "insertable"}
  BY DEF Touch, TouchConfirmation, Insert, TypeInv, FormInv
<1>2. form[r].client \in Client \cup {Nobody} /\ ~OverBudget(form[r].client)
  BY <1>1 DEF Form, Afforded
<1>3. \E x : rows' \subseteq rows \cup {x} /\ (rows' \subseteq rows \/ x.client = form[r].client)
  <2>1. CASE Insert(r)
    <3>1. rows' \subseteq rows \cup {NewWatch(r)} /\ NewWatch(r).client = form[r].client
      BY <2>1 DEF Insert, NewWatch
    <3>2. QED
      BY <3>1
  <2>2. ASSUME TouchConfirmation(r), NEW w \in rows, w.token = pending[r]
        PROVE  /\ rows' \subseteq rows \cup {Touched(w, form[r].client)}
               /\ Touched(w, form[r].client).client = form[r].client
    <3>1. rows' = {IF v.token = pending[r] THEN Touched(v, form[r].client) ELSE v : v \in rows}
      BY <2>2 DEF TouchConfirmation, Touched
    <3>2. \A v \in rows : v.token = pending[r] => v = w
      BY <2>2 DEF TokenInv
    <3>3. w \in Watch
      BY DEF TypeInv, TypeOK
    <3>4. QED
      BY <1>2, <3>1, <3>2, <3>3, UpdatedRows
  <2>3. ASSUME TouchConfirmation(r), ~\E w \in rows : w.token = pending[r]
        PROVE  rows' \subseteq rows
    BY <2>3 DEF TouchConfirmation
  <2>4. QED
    BY <2>1, <2>2, <2>3 DEF Touch
<1>4. IsFiniteSet(rows') /\ RowBudget'
  <2>1. PICK x : rows' \subseteq rows \cup {x} /\ (rows' \subseteq rows \/ x.client = form[r].client)
    BY <1>3
  <2>2. CASE x.client = form[r].client
    BY <1>2, <2>1, <2>2, OneRenewed
  <2>3. CASE rows' \subseteq rows
    <3>1. PICK f : Descend(f) /\ NotRenewed(f)
      BY <2>3, UnchangedRows
    <3>2. QED
      BY <3>1, NoneRenewed
  <2>4. QED
    BY <2>1, <2>2, <2>3
<1>5. Afforded'
  <2> SUFFICES ASSUME NEW s \in Request, pc'[s] \in {"allowed", "insertable"}
               PROVE  FALSE
    BY DEF Afforded
  <2>1. pc[s] \notin Holding
    BY OneWriter DEF Holding
  <2>2. pc'[s] = pc[s]
    BY DEF Insert, Touch, TouchConfirmation, End, TypeInv, TypeOK
  <2>3. QED
    BY <2>1, <2>2 DEF Holding
<1>6. QED
  BY <1>4, <1>5

LEMMA SpendingNothing ==
  ASSUME BudgetInv, [Next]_vars, NEW f, Descend(f), NotRenewed(f)
  PROVE  IsFiniteSet(rows)' /\ Afforded' /\ RowBudget'
<1>1. ASSUME NEW r \in Request, NEW c \in Client \cup {Nobody},
             pc'[r] \in {"allowed", "insertable"}, form'[r].client = c
      PROVE  ~OverBudget(c)'
  <2>1. CASE pc'[r] = pc[r] /\ form'[r] = form[r]
    BY <1>1, <2>1, NoneRenewed DEF BudgetInv, Afforded
  <2>2. CASE Own(r) /\ rows' = rows /\ form'[r] = form[r]
    <3>1. CASE LockRequests(r) \/ ReadPending(r)
      BY <1>1, <3>1 DEF BudgetInv, TypeInv, TypeOK, LockRequests, ReadPending, End
    <3>2. CASE CheckBudget(r)
      <4>1. ~OverBudget(c)
        BY <1>1, <2>2, <3>2 DEF BudgetInv, TypeInv, TypeOK, CheckBudget, End
      <4>2. QED
        BY <4>1, NoneRenewed
    <3>3. CASE CheckPending(r)
      <4>1. ~OverBudget(c)
        BY <1>1, <2>2, <3>3 DEF BudgetInv, Afforded, CheckPending
      <4>2. QED
        BY <4>1, NoneRenewed
    <3>4. QED
      BY <2>2, <3>1, <3>2, <3>3 DEF Own
  <2>3. QED
    BY <1>1, <2>1, <2>2, HolderSteps DEF BudgetInv, Holding
<1>2. IsFiniteSet(rows') /\ RowBudget'
  BY NoneRenewed
<1>3. QED
  BY <1>1, <1>2 DEF Afforded

LEMMA BudgetStep == BudgetInv /\ [Next]_vars => BudgetInv'
<1> SUFFICES ASSUME BudgetInv, [Next]_vars
             PROVE  BudgetInv'
  OBVIOUS
<1>1. TypeInv' /\ LockInv' /\ TokenInv'
  BY TypeStep, LockStep, TokenStep DEF BudgetInv
<1>2. \/ \E f : Descend(f) /\ NotRenewed(f)
      \/ \E r \in Request : Touch(r) \/ Insert(r)
  BY RowSteps DEF BudgetInv
<1>3. QED
  BY <1>1, <1>2, SpendingNothing, RenewingStep DEF BudgetInv

(* The rows renewed within the hour never exceed the global budget, nor a  *)
(* client's: the lock is held from the count to the write, tokens are      *)
(* unique so a resend renews one row, and confirming takes the client off  *)
(* the row.                                                                *)
THEOREM BudgetHolds == Spec => []RowBudget
<1>1. BudgetInv => RowBudget
  BY DEF BudgetInv
<1>2. QED
  BY <1>1, BudgetInit, BudgetStep, PTL DEF Spec
=============================================================================
