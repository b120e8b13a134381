------------------------- MODULE WatchBackupProofs -------------------------
(***************************************************************************)
(* The theorems of module WatchBackup: what a token means survives the     *)
(* loss of the database, for any names, ids, requests and number of        *)
(* losses and restores.                                                    *)
(***************************************************************************)
EXTENDS WatchBackup, WatchProofs

Entries == [key : Name, email : Email, min : Percent, token : Request,
            age : 0..Window, confirmed : BOOLEAN]

(* Ids of the table name one product each.                                 *)
NamesInv ==
  /\ named \in [Known -> Name \cup {Nobody}]
  /\ \A p, q \in Known : named[p] = named[q] /\ named[p] # Nobody => p = q

(* A request under way is for a product of the table.                      *)
AskedInv ==
  \A r \in Request :
    pc[r] \in Open => form[r].product \in Known /\ named[form[r].product] # Nobody

(* A row, or an entry of the dump, is what its token was drawn for.        *)
RowsInv ==
  \A w \in rows :
    /\ w.product \in Known /\ named[w.product] # Nobody
    /\ origin[w.token] = [key |-> named[w.product], email |-> w.email]
    /\ pc[w.token] \in Spent
    /\ w.confirmed => w.token \in consented

UniqueRows == \A v, w \in rows : v.token = w.token => v = w

DumpInv ==
  /\ dump \subseteq Entries
  /\ \A e \in dump :
       /\ origin[e.token] = [key |-> e.key, email |-> e.email]
       /\ pc[e.token] \in Spent
       /\ e.confirmed => e.token \in consented
  /\ \A d, e \in dump : d.token = e.token => d = e

HistoryInv == DOMAIN origin = Request

BackupInv ==
  /\ TypeInv /\ HistoryInv /\ NamesInv /\ AskedInv /\ RowsInv /\ UniqueRows /\ DumpInv
LEMMA BackupInitial == BackupInit => BackupInv
<1> SUFFICES ASSUME BackupInit
             PROVE  BackupInv
  OBVIOUS
<1>1. TypeInv
  BY TypeInit DEF BackupInit
<1>2. rows = {} /\ dump = {} /\ \A r \in Request : pc[r] = "idle"
  BY DEF BackupInit, Init
<1>3. NamesInv /\ HistoryInv
  BY DEF BackupInit, Assignments, NamesInv, HistoryInv
<1>4. QED
  BY <1>1, <1>2, <1>3 DEF BackupInv, AskedInv, Open, RowsInv, UniqueRows, DumpInv

(* A step of the requests, the mails or the readers is one of Watches; it  *)
(* carries the rows over, confirming only what has been clicked.           *)
Attested(f) == \A w \in rows : f[w].confirmed => w.confirmed \/ w.token \in consented'

Carried ==
  /\ [Next]_vars
  /\ UNCHANGED <<named, losses>>
  /\ consented \subseteq consented'

LEMMA CarriedRows ==
  ASSUME BackupInv, Carried, NEW f, Descend(f), Attested(f), origin' = origin
  PROVE  RowsInv' /\ UniqueRows'
<1> USE DEF BackupInv, RowsInv, UniqueRows, Carried
<1>1. ASSUME NEW v \in rows'
      PROVE  \E w \in rows :
               /\ v = f[w] /\ w \in Watch /\ v.product = w.product /\ v.email = w.email
               /\ v.token = w.token
               /\ v.confirmed => w.confirmed \/ w.token \in consented'
  BY DEF Descend, Attested, TypeInv, TypeOK
<1>2. RowsInv'
  <2> SUFFICES ASSUME NEW v \in rows'
               PROVE  /\ v.product \in Known /\ named'[v.product] # Nobody
                      /\ origin'[v.token] = [key |-> named'[v.product], email |-> v.email]
                      /\ pc'[v.token] \in Spent
                      /\ v.confirmed => v.token \in consented'
    OBVIOUS
  <2>1. PICK w \in rows :
          /\ v = f[w] /\ w \in Watch /\ v.product = w.product /\ v.email = w.email
          /\ v.token = w.token
          /\ v.confirmed => w.confirmed \/ w.token \in consented'
    BY <1>1
  <2>2. w.token \in Request
    BY <2>1 DEF Watch
  <2>3. pc'[w.token] \in Spent
    BY <2>2, SpentStays
  <2>4. QED
    BY <2>1, <2>3
<1>3. UniqueRows'
  BY <1>1
<1>4. QED
  BY <1>2, <1>3

LEMMA CarriedDump ==
  ASSUME BackupInv, Carried, dump' = dump \/ dump' = Older(dump),
         \A t \in Request : pc[t] \in Spent => origin'[t] = origin[t]
  PROVE  DumpInv'
<1> USE DEF BackupInv, DumpInv, Carried
<1>1. ASSUME NEW e \in dump
      PROVE  /\ Aged(e) \in Entries /\ e \in Entries
             /\ Aged(e).key = e.key /\ Aged(e).email = e.email /\ Aged(e).token = e.token
             /\ Aged(e).confirmed = e.confirmed
  <2>1. e \in Entries /\ (IF e.age < Window THEN e.age + 1 ELSE e.age) \in 0..Window
    BY WatchAssumption DEF Entries
  <2>2. QED
    BY <2>1 DEF Aged, Entries
<1>2. CASE dump' = dump
  <2>1. \A e \in dump : e.token \in Request
    BY DEF Entries
  <2>2. QED
    BY <1>2, <2>1, SpentStays
<1>3. CASE dump' = Older(dump)
  <2>1. dump' = {Aged(e) : e \in dump}
    BY <1>3 DEF Older, Aged
  <2>2. dump' \subseteq Entries
    BY <1>1, <2>1
  <2>3. \A e \in dump :
          /\ e.token \in Request /\ pc'[e.token] \in Spent
          /\ origin'[e.token] = [key |-> e.key, email |-> e.email]
          /\ e.confirmed => e.token \in consented'
    BY SpentStays DEF Entries
  <2>4. ASSUME NEW d \in dump'
        PROVE  /\ origin'[d.token] = [key |-> d.key, email |-> d.email]
               /\ pc'[d.token] \in Spent
               /\ d.confirmed => d.token \in consented'
    <3>1. PICK e \in dump : d = Aged(e)
      BY <2>1
    <3>2. d.key = e.key /\ d.email = e.email /\ d.token = e.token /\ d.confirmed = e.confirmed
      BY <1>1, <3>1
    <3>3. QED
      BY <2>3, <3>2
  <2>5. \A d, e \in dump' : d.token = e.token => d = e
    BY <1>1, <2>1
  <2>6. QED
    BY <2>2, <2>4, <2>5
<1>4. QED
  BY <1>2, <1>3

LEMMA CarriedAsked ==
  ASSUME BackupInv, named' = named,
         \A r \in Request : pc'[r] \in Open => pc[r] \in Open /\ form'[r] = form[r]
  PROVE  AskedInv'
  BY DEF BackupInv, AskedInv

LEMMA SameNames ==
  ASSUME NamesInv, named' = named
  PROVE  NamesInv'
  BY DEF NamesInv

-----------------------------------------------------------------------------
(* The steps of Watches.                                                   *)

LEMMA OutsideStep ==
  ASSUME BackupInv,
         \/ Outside /\ UNCHANGED backupVars
         \/ BackupTick
         \/ \E t \in links : ConfirmClicked(t)
  PROVE  BackupInv'
<1>1. Carried /\ origin' = origin
  BY DEF Outside, backupVars, BackupTick, ConfirmClicked, Carried, Next, Reader
<1>2. dump' = dump \/ dump' = Older(dump)
  BY DEF Outside, backupVars, BackupTick, ConfirmClicked
<1>3. \A r \in Request : pc'[r] \in Open => pc[r] \in Open /\ form'[r] = form[r]
  <2>1. CASE \E r \in Request : Break(r)
    BY <2>1 DEF Break, End, Open, BackupInv, TypeInv, TypeOK
  <2>2. CASE ~\E r \in Request : Break(r)
    BY <2>2 DEF Outside, BackupTick, Tick, ConfirmClicked, Confirm, Unsubscribe, UnsubscribeAll,
       SendOutboxMessage, SendDigest, DeleteWatch
  <2>3. QED
    BY <2>1, <2>2
<1>4. \E f : Descend(f) /\ Attested(f)
  <2>1. rows \subseteq Watch
    BY DEF BackupInv, TypeInv, TypeOK
  <2>2. ASSUME NEW t, ConfirmClicked(t)
        PROVE  \E f : Descend(f) /\ Attested(f)
    <3> DEFINE f == [w \in rows |-> IF w.token = t THEN Confirmed(w) ELSE w]
    <3>1. rows' = {IF w.token = t THEN Confirmed(w) ELSE w : w \in rows}
      BY <2>2 DEF ConfirmClicked, Confirm, Confirmed
    <3>2. f \in [rows -> Watch] /\ rows' \subseteq {f[w] : w \in rows}
      BY <2>1, <3>1, UpdatedRows
    <3>3. Descend(f)
      BY <2>1, <3>2, UpdatedRows DEF Descend
    <3>4. Attested(f)
      BY <2>2 DEF Attested, ConfirmClicked
    <3>5. QED
      BY <3>3, <3>4
  <2>3. CASE Tick
    <3> DEFINE f == [w \in rows |-> Aged(w)]
    <3>1. rows' = {Aged(w) : w \in rows}
      BY <2>3 DEF Tick, Older, Aged
    <3>2. f \in [rows -> Watch] /\ rows' \subseteq {f[w] : w \in rows}
      BY <2>1, <3>1, UpdatedRows
    <3>3. Descend(f) /\ Attested(f)
      BY <2>1, <3>2, UpdatedRows DEF Descend, Attested
    <3>4. QED
      BY <3>3
  <2>4. CASE rows' \subseteq rows
    <3> DEFINE f == [w \in rows |-> w]
    <3>1. Descend(f) /\ Attested(f)
      BY <2>1, <2>4 DEF Descend, Attested
    <3>2. QED
      BY <3>1
  <2>5. QED
    BY <2>2, <2>3, <2>4 DEF Outside, BackupTick, Unsubscribe, UnsubscribeAll, WithoutOwnerOf,
       SendOutboxMessage, SendDigest, DeleteWatch, Break
<1>5. TypeInv'
  BY <1>1, TypeStep DEF Carried, BackupInv
<1>6. HistoryInv' /\ NamesInv' /\ AskedInv'
  BY <1>1, <1>3, SameNames, CarriedAsked DEF BackupInv, HistoryInv, Carried
<1>7. RowsInv' /\ UniqueRows'
  BY <1>1, <1>4, CarriedRows
<1>8. DumpInv'
  BY <1>1, <1>2, CarriedDump
<1>9. QED
  BY <1>5, <1>6, <1>7, <1>8 DEF BackupInv

LEMMA OtherRequestStep ==
  ASSUME BackupInv, NEW r \in Request, OtherStep(r) \/ \E f \in Form : BeginKnown(r, f)
  PROVE  BackupInv'
<1>1. Carried /\ origin' = origin /\ dump' = dump
  BY DEF OtherStep, BeginKnown, backupVars, Carried, Next, RequestStep
<1>2. \A s \in Request : pc'[s] \in Open =>
        form'[s].product \in Known /\ named'[form'[s].product] # Nobody
  <2>1. ASSUME NEW f \in Form, BeginKnown(r, f)
        PROVE  \A s \in Request : pc'[s] \in Open =>
                 form'[s].product \in Known /\ named'[form'[s].product] # Nobody
    BY <1>1, <2>1 DEF BeginKnown, Begin, BackupInv, TypeInv, TypeOK, AskedInv, Open, Carried
  <2>2. CASE OtherStep(r)
    <3>1. \A s \in Request : pc'[s] \in Open => pc[s] \in Open /\ form'[s] = form[s]
      BY <2>2 DEF OtherStep, LockRequests, ReadPending, CheckBudget, TouchConfirmation,
         CheckPending, Publish, End, BackupInv, TypeInv, TypeOK, Open
    <3>2. QED
      BY <1>1, <3>1 DEF Carried, BackupInv, AskedInv
  <2>3. QED
    BY <2>1, <2>2
<1>3. \E f : Descend(f) /\ Attested(f)
  <2>1. rows \subseteq Watch
    BY DEF BackupInv, TypeInv, TypeOK
  <2>2. CASE TouchConfirmation(r)
    <3> DEFINE f == [w \in rows |->
                       IF w.token = pending[r] THEN Touched(w, form[r].client) ELSE w]
    <3>1. form[r].client \in Client \cup {Nobody}
      BY <2>2 DEF BackupInv, TypeInv, TypeOK, FormInv, TouchConfirmation, Form
    <3>2. rows' = {IF w.token = pending[r] THEN Touched(w, form[r].client) ELSE w : w \in rows}
      BY <2>2 DEF TouchConfirmation, Touched
    <3>3. f \in [rows -> Watch] /\ rows' \subseteq {f[w] : w \in rows}
      BY <2>1, <3>1, <3>2, UpdatedRows
    <3>4. Descend(f) /\ Attested(f)
      BY <2>1, <3>1, <3>3, UpdatedRows DEF Descend, Attested
    <3>5. QED
      BY <3>4
  <2>3. CASE rows' = rows
    <3> DEFINE f == [w \in rows |-> w]
    <3>1. Descend(f) /\ Attested(f)
      BY <2>1, <2>3 DEF Descend, Attested
    <3>2. QED
      BY <3>1
  <2>4. QED
    BY <2>2, <2>3 DEF OtherStep, BeginKnown, Begin, LockRequests, ReadPending, CheckBudget,
       CheckPending, Publish
<1>4. TypeInv'
  BY <1>1, TypeStep DEF Carried, BackupInv
<1>5. HistoryInv' /\ NamesInv' /\ AskedInv'
  BY <1>1, <1>2, SameNames DEF BackupInv, HistoryInv, Carried, AskedInv
<1>6. RowsInv' /\ UniqueRows'
  BY <1>1, <1>3, CarriedRows
<1>7. DumpInv'
  BY <1>1, CarriedDump
<1>8. QED
  BY <1>4, <1>5, <1>6, <1>7 DEF BackupInv

(* The token drawn is fresh: neither a row nor an entry of the dump bears  *)
(* it.                                                                     *)
LEMMA InsertNamedStep ==
  ASSUME BackupInv, NEW r \in Request, InsertNamed(r)
  PROVE  BackupInv'
<1>1. /\ Carried /\ dump' = dump /\ consented' = consented
      /\ pc[r] = "insertable" /\ form' = form /\ form[r] \in Form
      /\ form[r].product \in Known /\ named[form[r].product] # Nobody
  BY DEF InsertNamed, InsertWatch, Carried, Next, RequestStep, BackupInv, AskedInv, Open,
     TypeInv, FormInv
<1>2. \A s \in Request : pc'[s] \in Open => pc[s] \in Open /\ form'[s] = form[s]
  BY <1>1 DEF InsertNamed, InsertWatch, End, Open, BackupInv, TypeInv, TypeOK
<1>3. \A t \in Request : pc[t] \in Spent => t # r /\ origin'[t] = origin[t]
  BY <1>1 DEF InsertNamed, BackupInv, HistoryInv, Spent
<1>4. TypeInv'
  BY <1>1, TypeStep DEF Carried, BackupInv
<1>5. HistoryInv' /\ NamesInv' /\ AskedInv'
  BY <1>1, <1>2, SameNames, CarriedAsked DEF BackupInv, HistoryInv, Carried, InsertNamed
<1>6. DumpInv'
  BY <1>1, <1>3, CarriedDump
<1>7. RowsInv' /\ UniqueRows'
  <2>1. CASE WatchOf(form[r].product, form[r].email) # {}
    <3>1. rows' = rows /\ pc'[r] = "alreadyWatching"
      BY <2>1 DEF InsertNamed, InsertWatch, End, BackupInv, TypeInv, TypeOK
    <3>2. origin' = origin
      BY <3>1 DEF InsertNamed
    <3> DEFINE f == [w \in rows |-> w]
    <3>3. Descend(f) /\ Attested(f)
      BY <3>1 DEF Descend, Attested, BackupInv, TypeInv, TypeOK
    <3>4. QED
      BY <1>1, <3>2, <3>3, CarriedRows
  <2>2. CASE WatchOf(form[r].product, form[r].email) = {}
    <3>1. rows' = rows \cup {NewWatch(r)} /\ pc'[r] = "committed"
      BY <2>2 DEF InsertNamed, InsertWatch, NewWatch, DrawToken, End, BackupInv, TypeInv, TypeOK
    <3>2. origin'[r] = [key |-> named[form[r].product], email |-> form[r].email]
      BY <3>1 DEF InsertNamed, BackupInv, HistoryInv
    <3>3. \A w \in rows : w.token \in Request /\ pc[w.token] \in Spent
      BY DEF BackupInv, RowsInv, TypeInv, TypeOK, Watch
    <3>4. \A w \in rows : /\ w.token # r /\ origin'[w.token] = origin[w.token]
                          /\ pc'[w.token] \in Spent
      BY <1>1, <1>3, <3>3, SpentStays DEF BackupInv, Carried
    <3>5. /\ NewWatch(r).product = form[r].product /\ NewWatch(r).email = form[r].email
          /\ NewWatch(r).token = r /\ ~NewWatch(r).confirmed
      BY DEF NewWatch
    <3>6. RowsInv'
      BY <1>1, <3>1, <3>2, <3>4, <3>5 DEF BackupInv, RowsInv, Carried, Spent
    <3>7. UniqueRows'
      BY <3>1, <3>4, <3>5 DEF BackupInv, UniqueRows
    <3>8. QED
      BY <3>6, <3>7
  <2>3. QED
    BY <2>1, <2>2
<1>8. QED
  BY <1>4, <1>5, <1>6, <1>7 DEF BackupInv

-----------------------------------------------------------------------------
(* The dump, the loss, the new ids and the restore.                        *)

LEMMA SameWatches ==
  ASSUME TypeInv, UNCHANGED vars
  PROVE  TypeInv'
  BY TypeStep

LEMMA DumpStep ==
  ASSUME BackupInv, Dump
  PROVE  BackupInv'
<1> USE DEF Dump
<1>1. ASSUME NEW w \in rows
      PROVE  /\ Entry(w) \in Entries
             /\ Entry(w).key = named[w.product] /\ Entry(w).email = w.email
             /\ Entry(w).token = w.token /\ Entry(w).confirmed = w.confirmed
  <2>1. w \in Watch /\ w.product \in Known /\ named[w.product] \in Name
    BY DEF BackupInv, TypeInv, TypeOK, RowsInv, NamesInv
  <2>2. QED
    BY <2>1 DEF Entry, KeyOf, Entries, Watch
<1>2. dump' \subseteq Entries
  BY <1>1
<1>3. ASSUME NEW e \in dump'
      PROVE  /\ origin[e.token] = [key |-> e.key, email |-> e.email]
             /\ pc[e.token] \in Spent
             /\ e.confirmed => e.token \in consented
  <2>1. PICK w \in rows : e = Entry(w)
    OBVIOUS
  <2>2. QED
    BY <1>1, <2>1 DEF BackupInv, RowsInv
<1>4. \A d, e \in dump' : d.token = e.token => d = e
  BY <1>1 DEF BackupInv, UniqueRows
<1>5. DumpInv'
  BY <1>2, <1>3, <1>4 DEF DumpInv, vars
<1>6. TypeInv'
  BY SameWatches DEF BackupInv
<1>7. QED
  BY <1>5, <1>6 DEF BackupInv, HistoryInv, NamesInv, AskedInv, RowsInv, UniqueRows, vars

LEMMA LoseStep ==
  ASSUME BackupInv, LoseDatabase
  PROVE  BackupInv'
<1> USE DEF LoseDatabase
<1>1. \A r \in Request : pc'[r] \notin Open /\ (pc[r] \in Spent => pc'[r] \in Spent)
  BY DEF Open, Spent
<1>2. TypeInv'
  BY DEF BackupInv, TypeInv, TypeOK, FormInv, Open, Step, Answer
<1>3. NamesInv' /\ HistoryInv'
  BY DEF BackupInv, NamesInv, HistoryInv
<1>4. AskedInv' /\ RowsInv' /\ UniqueRows'
  BY <1>1 DEF AskedInv, RowsInv, UniqueRows
<1>5. DumpInv'
  BY <1>1 DEF BackupInv, DumpInv, Entries
<1>6. QED
  BY <1>2, <1>3, <1>4, <1>5 DEF BackupInv

LEMMA ReingestStep ==
  ASSUME BackupInv, NEW p \in Known, NEW n \in Name, Reingest(p, n)
  PROVE  BackupInv'
<1> USE DEF Reingest
<1>1. TypeInv'
  BY SameWatches DEF BackupInv
<1>2. \A q \in Known : named[q] # Nobody => named'[q] = named[q]
  BY DEF BackupInv, NamesInv
<1>3. NamesInv'
  BY DEF BackupInv, NamesInv
<1>4. UNCHANGED <<rows, pc, form, dump, origin, consented>>
  BY DEF vars
<1>5. AskedInv'
  BY <1>2, <1>4 DEF BackupInv, AskedInv
<1>6. RowsInv'
  <2> SUFFICES ASSUME NEW w \in rows
               PROVE  /\ w.product \in Known /\ named'[w.product] # Nobody
                      /\ origin[w.token] = [key |-> named'[w.product], email |-> w.email]
                      /\ pc[w.token] \in Spent
                      /\ w.confirmed => w.token \in consented
    BY <1>4 DEF RowsInv
  <2>1. w.product \in Known /\ named'[w.product] = named[w.product] /\ named[w.product] # Nobody
    BY <1>2 DEF BackupInv, RowsInv
  <2>2. QED
    BY <2>1 DEF BackupInv, RowsInv
<1>7. HistoryInv' /\ UniqueRows' /\ DumpInv'
  BY <1>4 DEF BackupInv, HistoryInv, UniqueRows, DumpInv
<1>8. QED
  BY <1>1, <1>3, <1>5, <1>6, <1>7 DEF BackupInv

(* A restored watch takes the id that bears its name now; were there a row *)
(* with its token, it would be the watch of that id and address, and the   *)
(* insertion would have met the conflict.                                  *)
LEMMA RestoreStep ==
  ASSUME BackupInv, Restore
  PROVE  BackupInv'
<1> USE DEF Restore, RowsKept, backupVars
<1>1. ASSUME NEW v \in Insertions
      PROVE  \E e \in dump, p \in Known :
               /\ named[p] = e.key /\ WatchOf(p, e.email) = {} /\ v = Restored(e, p)
  BY DEF Insertions, Matches, KeyOf
<1>2. ASSUME NEW e \in dump, NEW p \in Known, named[p] = e.key
      PROVE  /\ Restored(e, p) \in Watch
             /\ Restored(e, p).product = p /\ Restored(e, p).email = e.email
             /\ Restored(e, p).token = e.token /\ Restored(e, p).confirmed = e.confirmed
             /\ named[p] # Nobody
  <2>1. e \in Entries
    BY DEF BackupInv, DumpInv
  <2>2. QED
    BY <1>2, <2>1, WatchAssumption, BackupAssumption DEF Restored, WasConfirmed, Watch, Entries
<1>3. ASSUME NEW v \in Insertions
      PROVE  /\ v \in Watch
             /\ v.product \in Known /\ named[v.product] # Nobody
             /\ origin[v.token] = [key |-> named[v.product], email |-> v.email]
             /\ pc[v.token] \in Spent
             /\ v.confirmed => v.token \in consented
             /\ WatchOf(v.product, v.email) = {}
  <2>1. PICK e \in dump, p \in Known :
          named[p] = e.key /\ WatchOf(p, e.email) = {} /\ v = Restored(e, p)
    BY <1>1
  <2>2. QED
    BY <1>2, <2>1 DEF BackupInv, DumpInv
<1>4. TypeInv'
  BY <1>3 DEF BackupInv, TypeInv, TypeOK, FormInv
<1>5. RowsInv'
  BY <1>3 DEF BackupInv, RowsInv
<1>6. UniqueRows'
  <2>1. ASSUME NEW v \in Insertions, NEW w \in rows, v.token = w.token
        PROVE  FALSE
    <3>1. [key |-> named[v.product], email |-> v.email] = [key |-> named[w.product], email |-> w.email]
      BY <1>3, <2>1 DEF BackupInv, RowsInv
    <3>2. named[v.product] = named[w.product] /\ v.email = w.email
      BY <3>1
    <3>3. v.product = w.product
      <4>1. /\ v.product \in Known /\ w.product \in Known /\ named[v.product] # Nobody
            /\ \A p, q \in Known : named[p] = named[q] /\ named[p] # Nobody => p = q
        BY <1>3 DEF BackupInv, RowsInv, NamesInv
      <4>2. QED
        BY <3>2, <4>1
    <3>4. QED
      BY <1>3, <3>2, <3>3 DEF WatchOf
  <2>2. ASSUME NEW v \in Insertions, NEW w \in Insertions, v.token = w.token
        PROVE  v = w
    <3>1. PICK d \in dump, p \in Known : named[p] = d.key /\ v = Restored(d, p)
      BY <1>1
    <3>2. PICK e \in dump, q \in Known : named[q] = e.key /\ w = Restored(e, q)
      BY <1>1
    <3>3. d = e
      BY <1>2, <2>2, <3>1, <3>2 DEF BackupInv, DumpInv
    <3>4. p = q
      BY <1>2, <3>1, <3>2, <3>3 DEF BackupInv, NamesInv
    <3>5. QED
      BY <3>1, <3>2, <3>3, <3>4
  <2>3. QED
    BY <2>1, <2>2 DEF BackupInv, UniqueRows
<1>7. HistoryInv' /\ NamesInv' /\ AskedInv' /\ DumpInv'
  BY DEF BackupInv, HistoryInv, NamesInv, AskedInv, DumpInv
<1>8. QED
  BY <1>4, <1>5, <1>6, <1>7 DEF BackupInv

LEMMA BackupStep == BackupInv /\ [BackupNext]_allVars => BackupInv'
<1> SUFFICES ASSUME BackupInv, [BackupNext]_allVars
             PROVE  BackupInv'
  OBVIOUS
<1>1. CASE UNCHANGED allVars
  <2>1. TypeInv'
    BY <1>1, SameWatches DEF allVars, BackupInv
  <2>2. QED
    BY <1>1, <2>1 DEF allVars, vars, backupVars, BackupInv, HistoryInv, NamesInv, AskedInv,
       RowsInv, UniqueRows, DumpInv
<1>2. CASE BackupNext
  BY <1>2, OutsideStep, OtherRequestStep, InsertNamedStep, DumpStep, LoseStep, ReingestStep,
     RestoreStep DEF BackupNext, BackupRequestStep
<1>3. QED
  BY <1>1, <1>2

(* Through losses, new ids, dumps and restores a token keeps naming one    *)
(* watch, of the product and the address it was drawn for.                 *)
THEOREM TokensKeepTheirMeaning == BackupSpec => []TokensKeepTheirWatch
<1>1. BackupInv => TokensKeepTheirWatch
  BY DEF BackupInv, RowsInv, UniqueRows, TokensKeepTheirWatch
<1>2. QED
  BY <1>1, BackupInitial, BackupStep, PTL DEF BackupSpec

(* A watch is confirmed only if the confirmation of its token was clicked: *)
(* a dump carries the fact, a restore does not invent it.                  *)
THEOREM OptInSurvivesRestore == BackupSpec => []ConfirmedByClick
<1>1. BackupInv => ConfirmedByClick
  BY DEF BackupInv, RowsInv, ConfirmedByClick
<1>2. QED
  BY <1>1, BackupInitial, BackupStep, PTL DEF BackupSpec

-----------------------------------------------------------------------------
(* What a restore adds.  The requests made so far are finitely many, and   *)
(* an entry of the dump has a token of its own, so the dump can be counted *)
(* and its restorable entries matched with the watches inserted.           *)

Requested == {r \in Request : pc[r] # "idle"}

CountInv == BackupInv /\ IsFiniteSet(Requested)

LEMMA OneRequest ==
  ASSUME BackupInv, [BackupNext]_allVars
  PROVE  \E r : Requested' \subseteq Requested \cup {r}
<1> USE DEF Requested
<1>1. pc \in [Request -> Step \cup Answer]
  BY DEF BackupInv, TypeInv, TypeOK
<1>2. CASE \E r \in Request : BackupRequestStep(r) \/ \E f \in Form : BeginKnown(r, f)
  BY <1>1, <1>2 DEF BackupRequestStep, InsertNamed, InsertWatch, OtherStep, BeginKnown, Begin,
     LockRequests, ReadPending, CheckBudget, TouchConfirmation, CheckPending, Publish, End
<1>3. CASE \E r \in Request : Break(r)
  BY <1>1, <1>3 DEF Break, End
<1>4. CASE LoseDatabase
  BY <1>4 DEF LoseDatabase, Open
<1>5. CASE UNCHANGED pc
  BY <1>5
<1>6. QED
  BY <1>2, <1>3, <1>4, <1>5 DEF BackupNext, Outside, allVars, vars, backupVars, ConfirmClicked,
     Confirm, BackupTick, Tick, Dump, Restore, Reingest, Unsubscribe, UnsubscribeAll,
     SendOutboxMessage, SendDigest, DeleteWatch

LEMMA CountInitial == BackupInit => CountInv
<1> SUFFICES ASSUME BackupInit
             PROVE  CountInv
  OBVIOUS
<1>1. Requested = {}
  BY DEF BackupInit, Init, Requested
<1>2. QED
  BY <1>1, BackupInitial, FS_EmptySet DEF CountInv

LEMMA CountStep == CountInv /\ [BackupNext]_allVars => CountInv'
<1> SUFFICES ASSUME CountInv, [BackupNext]_allVars
             PROVE  CountInv'
  OBVIOUS
<1>1. PICK r : Requested' \subseteq Requested \cup {r}
  BY OneRequest DEF CountInv
<1>2. IsFiniteSet(Requested')
  BY <1>1, OneMore DEF CountInv
<1>3. QED
  BY <1>2, BackupStep DEF CountInv

LEMMA DumpIsFinite ==
  ASSUME CountInv
  PROVE  IsFiniteSet(dump)
<1> DEFINE f == [e \in dump |-> e.token]
<1>1. \A e \in dump : e.token \in Requested
  BY DEF CountInv, BackupInv, DumpInv, Entries, Requested, Spent
<1>2. \A d, e \in dump : d.token = e.token => d = e
  BY DEF CountInv, BackupInv, DumpInv
<1>3. f \in Injection(dump, Requested)
  BY <1>1, <1>2 DEF Injection, IsInjective
<1>4. QED
  <2> HIDE DEF f
  <2>1. QED
    BY <1>3, FS_Injection DEF CountInv

(* The entries of the dump whose product exists and is not watched by      *)
(* their address; those without a product; those already watched.          *)
Restorable == {e \in dump \ {d \in dump : Matches(d) = {}} :
                 \A p \in Matches(e) : WatchOf(p, e.email) = {}}
Missing == {e \in dump : Matches(e) = {}}
Existing == {e \in dump : \E p \in Matches(e) : WatchOf(p, e.email) # {}}

LEMMA DryRunCounts ==
  /\ DryRun.restored = Cardinality(Restorable)
  /\ DryRun.missing = Cardinality(Missing)
  /\ DryRun.existing = Cardinality(Existing)
  BY DEF DryRun, Restorable, Missing, Existing

LEMMA DisjointCount ==
  ASSUME NEW S, NEW T, IsFiniteSet(S), IsFiniteSet(T), S \cap T = {}
  PROVE  /\ IsFiniteSet(S \cup T)
         /\ Cardinality(S \cup T) = Cardinality(S) + Cardinality(T)
         /\ Cardinality(S) \in Nat /\ Cardinality(T) \in Nat
<1>1. Cardinality(S) \in Nat /\ Cardinality(T) \in Nat
  BY FS_CardinalityType
<1>2. Cardinality(S \cap T) = 0
  BY FS_EmptySet
<1>3. /\ IsFiniteSet(S \cup T)
      /\ Cardinality(S \cup T) = Cardinality(S) + Cardinality(T) - Cardinality(S \cap T)
  BY FS_Union
<1>4. Cardinality(S \cup T) = Cardinality(S) + Cardinality(T)
  BY <1>1, <1>2, <1>3
<1>5. QED
  BY <1>1, <1>3, <1>4

(* Every entry falls under one count.                                      *)
LEMMA CountsAddUp ==
  ASSUME IsFiniteSet(dump)
  PROVE  DryRun.restored + DryRun.missing + DryRun.existing = Cardinality(dump)
<1>1. /\ Restorable \subseteq dump /\ Missing \subseteq dump /\ Existing \subseteq dump
      /\ dump = Restorable \cup (Missing \cup Existing)
      /\ Restorable \cap (Missing \cup Existing) = {} /\ Missing \cap Existing = {}
  BY DEF Restorable, Missing, Existing
<1>2. IsFiniteSet(Restorable) /\ IsFiniteSet(Missing) /\ IsFiniteSet(Existing)
  BY <1>1, FS_Subset
<1>3. /\ IsFiniteSet(Missing \cup Existing)
      /\ Cardinality(Missing \cup Existing) = Cardinality(Missing) + Cardinality(Existing)
      /\ Cardinality(Missing) \in Nat /\ Cardinality(Existing) \in Nat
  BY <1>1, <1>2, DisjointCount
<1>4. /\ Cardinality(Restorable \cup (Missing \cup Existing))
           = Cardinality(Restorable) + Cardinality(Missing \cup Existing)
      /\ Cardinality(Restorable) \in Nat
  BY <1>1, <1>2, <1>3, DisjointCount
<1>5. QED
  BY <1>1, <1>3, <1>4, DryRunCounts

(* The product an entry goes back to: names are unique.                    *)
TheMatch(e) == CHOOSE p \in Known : named[p] = e.key

LEMMA OneMatch ==
  ASSUME BackupInv, NEW e \in dump
  PROVE  Matches(e) = IF Matches(e) = {} THEN {} ELSE {TheMatch(e)}
<1>1. e.key # Nobody
  BY BackupAssumption DEF BackupInv, DumpInv, Entries
<1>2. ASSUME NEW p \in Matches(e)
      PROVE  /\ TheMatch(e) \in Known /\ named[TheMatch(e)] = e.key
             /\ TheMatch(e) = p
  <2>1. p \in Known /\ named[p] = e.key
    BY DEF Matches, KeyOf
  <2>2. TheMatch(e) \in Known /\ named[TheMatch(e)] = e.key
    BY <2>1 DEF TheMatch
  <2>3. QED
    BY <1>1, <2>1, <2>2 DEF BackupInv, NamesInv
<1>3. QED
  BY <1>2

LEMMA InsertionsOfEntries ==
  ASSUME BackupInv
  PROVE  /\ Insertions = {Restored(e, TheMatch(e)) : e \in Restorable}
         /\ \A d, e \in Restorable :
              Restored(d, TheMatch(d)) = Restored(e, TheMatch(e)) => d = e
<1>1. \A e \in Restorable :
        /\ e \in dump /\ TheMatch(e) \in Matches(e) /\ WatchOf(TheMatch(e), e.email) = {}
  BY OneMatch DEF Restorable
<1>2. \A e \in dump : \A p \in Matches(e) :
        WatchOf(p, e.email) = {} => e \in Restorable /\ p = TheMatch(e)
  BY OneMatch DEF Restorable
<1>3. ASSUME NEW v
      PROVE  v \in Insertions <=> \E e \in dump : \E p \in Matches(e) :
                                    WatchOf(p, e.email) = {} /\ v = Restored(e, p)
  BY DEF Insertions
<1>4. Insertions = {Restored(e, TheMatch(e)) : e \in Restorable}
  BY <1>1, <1>2, <1>3
<1>5. \A e \in dump : \A p : Restored(e, p).token = e.token
  BY DEF Restored
<1>6. QED
  BY <1>1, <1>4, <1>5 DEF BackupInv, DumpInv

LEMMA InsertionsAreCounted ==
  ASSUME CountInv
  PROVE  Cardinality(Insertions) = DryRun.restored
<1> DEFINE f == [e \in Restorable |-> Restored(e, TheMatch(e))]
<1>1. IsFiniteSet(Restorable)
  BY DumpIsFinite, FS_Subset DEF Restorable
<1>2. f \in Bijection(Restorable, Insertions)
  BY InsertionsOfEntries DEF CountInv, Bijection, Injection, Surjection, IsInjective
<1>3. ExistsBijection(Restorable, Insertions)
  BY <1>2 DEF ExistsBijection
<1>4. QED
  BY <1>1, <1>3, FS_Bijection, DryRunCounts

LEMMA RestoreAddsTheCount ==
  ASSUME CountInv, Restore
  PROVE  /\ rows \subseteq rows'
         /\ Cardinality(rows' \ rows) = DryRun.restored
         /\ DryRun.restored + DryRun.missing + DryRun.existing = Cardinality(dump)
         /\ \A e \in dump : \A p \in Matches(e) :
              \E w \in rows' : w.product = p /\ w.email = e.email
<1>1. rows' = rows \cup Insertions
  BY DEF Restore, RowsKept
<1>2. \A v \in Insertions : WatchOf(v.product, v.email) = {}
  BY DEF Insertions, Restored
<1>3. rows' \ rows = Insertions
  BY <1>1, <1>2 DEF WatchOf
<1>4. ASSUME NEW e \in dump, NEW p \in Matches(e)
      PROVE  \E w \in rows' : w.product = p /\ w.email = e.email
  <2>1. CASE WatchOf(p, e.email) = {}
    <3>1. Restored(e, p) \in Insertions
      BY <2>1 DEF Insertions
    <3>2. Restored(e, p).product = p /\ Restored(e, p).email = e.email
      BY DEF Restored
    <3>3. QED
      BY <1>1, <3>1, <3>2
  <2>2. CASE WatchOf(p, e.email) # {}
    BY <1>1, <2>2 DEF WatchOf
  <2>3. QED
    BY <2>1, <2>2
<1>5. QED
  BY <1>1, <1>3, <1>4, InsertionsAreCounted, DumpIsFinite, CountsAddUp

(* A restore changes no watch, adds as many as --dry-run announces, its    *)
(* three counts cover the dump, and every entry whose product exists is    *)
(* watched afterwards.                                                     *)
THEOREM RestoreAddsWhatItAnnounces == BackupSpec => RestoreIsExact
<1>1. CountInv /\ [BackupNext]_allVars =>
        [Restore =>
           /\ rows \subseteq rows'
           /\ Cardinality(rows' \ rows) = DryRun.restored
           /\ DryRun.restored + DryRun.missing + DryRun.existing = Cardinality(dump)
           /\ \A e \in dump : \A p \in Matches(e) :
                \E w \in rows' : w.product = p /\ w.email = e.email]_allVars
  BY RestoreAddsTheCount
<1>2. QED
  BY <1>1, CountInitial, CountStep, PTL DEF BackupSpec, RestoreIsExact
=============================================================================
