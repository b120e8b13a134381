---------------------------- MODULE WatchBackup ----------------------------
(***************************************************************************)
(* services/backup.py beside the watch requests: the daily dump, the loss  *)
(* of the database, ingestion that gives products new ids, and a restore   *)
(* over whatever has been written since.                                   *)
(*                                                                         *)
(* Only the last dump is restored; an older one is the last of a behaviour *)
(* with fewer dumps.  The dump is one SELECT and the restore one           *)
(* statement, each a snapshot of its own.                                  *)
(***************************************************************************)
EXTENDS Watches

CONSTANTS
  Name,       \* (source code, external id) of the products
  MaxLosses   \* bound: databases lost

ASSUME BackupAssumption == Nobody \notin Name /\ MaxLosses \in Nat

VARIABLES
  named,      \* product: [Known -> name of the product with that id, or Nobody]
  dump,       \* the last payload under backup/watch/: set of entries
  losses,
  origin,     \* history: the name and address each token was drawn for
  consented   \* history: tokens whose confirmation was clicked

backupVars == <<named, dump, losses, origin, consented>>
allVars == <<vars, backupVars>>

Assignments ==
  {f \in [Known -> Name \cup {Nobody}] :
     \A p, q \in Known : p # q /\ f[p] = f[q] => f[p] = Nobody}

BackupInit ==
  /\ Init
  /\ named \in {f \in Assignments : \A n \in Name : \E p \in Known : f[p] = n}
  /\ dump = {}
  /\ losses = 0
  /\ origin = [t \in Request |-> Nobody]
  /\ consented = {}

-----------------------------------------------------------------------------
(* dump_watches and restore_watches.                                       *)

(* Mutant: entries keyed by product id.                                    *)
IdOf(p) == p

(* s.code, p.external_id.                                                  *)
KeyOf(p) == named[p]

(* The client hash is not dumped.                                          *)
Entry(w) == [key |-> KeyOf(w.product), email |-> w.email, min |-> w.min, token |-> w.token,
             age |-> w.age, confirmed |-> w.confirmed]

Dump ==
  /\ dump' = {Entry(w) : w \in rows}
  /\ UNCHANGED <<vars, named, losses, origin, consented>>

(* LEFT JOIN source, product: the id that has the entry's key now.         *)
Matches(e) == {p \in Known : KeyOf(p) = e.key}

(* Mutant: a restored watch is taken to be confirmed.                      *)
ConfirmedEntry(e) == TRUE

(* confirmed_at of the entry.                                              *)
WasConfirmed(e) == e.confirmed

Restored(e, p) == [product |-> p, email |-> e.email, min |-> e.min, token |-> e.token,
                   age |-> e.age, client |-> Nobody, confirmed |-> WasConfirmed(e)]

(* Mutant: an entry replaces the live watch of its product and address.    *)
RowsOutsideDump == {w \in rows : ~\E e \in dump : w.product \in Matches(e) /\ w.email = e.email}

RowsKept == rows

(* INSERT ... ON CONFLICT (product_id, email) DO NOTHING.                  *)
Insertions ==
  UNION {{Restored(e, p) : p \in {q \in Matches(e) : WatchOf(q, e.email) = {}}} : e \in dump}

Restore ==
  /\ dump # {}
  /\ rows' = RowsKept \cup Insertions
  /\ UNCHANGED <<lock, pc, form, pending, outbox, links, backupVars>>

(* The counts of --dry-run: restored, missing product, existing.           *)
DryRun ==
  LET missing == {e \in dump : Matches(e) = {}}
  IN  [restored |-> Cardinality({e \in dump \ missing :
                                   \A p \in Matches(e) : WatchOf(p, e.email) = {}}),
       missing |-> Cardinality(missing),
       existing |-> Cardinality({e \in dump : \E p \in Matches(e) : WatchOf(p, e.email) # {}})]

-----------------------------------------------------------------------------
(* The database is replaced: tables empty, connections broken.  Objects in *)
(* the bucket and mails in inboxes stay.                                   *)
LoseDatabase ==
  /\ losses < MaxLosses
  /\ losses' = losses + 1
  /\ rows' = {}
  /\ lock' = Nobody
  /\ pc' = [r \in Request |-> IF pc[r] \in Open THEN "error" ELSE pc[r]]
  /\ named' = [p \in Known |-> Nobody]
  /\ UNCHANGED <<form, pending, outbox, links, dump, origin, consented>>

(* Ingestion of the raw payloads inserts a product again, with the next id *)
(* of a new sequence.                                                      *)
Reingest(p, n) ==
  /\ named[p] = Nobody
  /\ \A q \in Known : named[q] # n
  /\ named' = [named EXCEPT ![p] = n]
  /\ UNCHANGED <<vars, dump, losses, origin, consented>>

(* The steps of Watches, with what they mean for the history variables.    *)
InsertNamed(r) ==
  /\ InsertWatch(r)
  /\ origin' = IF pc'[r] = "committed"
               THEN [origin EXCEPT ![r] = [key |-> named[form[r].product], email |-> form[r].email]]
               ELSE origin
  /\ UNCHANGED <<named, dump, losses, consented>>

BeginKnown(r, f) ==
  /\ f.product \in Known => named[f.product] # Nobody
  /\ Begin(r, f)
  /\ UNCHANGED backupVars

ConfirmClicked(t) ==
  /\ Confirm(t)
  /\ consented' = consented \cup {t}
  /\ UNCHANGED <<named, dump, losses, origin>>

OtherStep(r) ==
  /\ LockRequests(r) \/ ReadPending(r) \/ CheckBudget(r) \/ TouchConfirmation(r)
       \/ CheckPending(r) \/ Publish(r)
  /\ UNCHANGED backupVars

BackupTick ==
  /\ Tick
  /\ dump' = Older(dump)
  /\ UNCHANGED <<named, losses, origin, consented>>

BackupRequestStep(r) == InsertNamed(r) \/ OtherStep(r)

Outside ==
  \/ \E t \in links : Unsubscribe(t) \/ UnsubscribeAll(t)
  \/ \E m \in outbox : SendOutboxMessage(m)
  \/ \E w \in rows : SendDigest(w) \/ DeleteWatch(w)
  \/ \E r \in Request : Break(r)

BackupNext ==
  \/ \E r \in Request : BackupRequestStep(r) \/ \E f \in Form : BeginKnown(r, f)
  \/ \E t \in links : ConfirmClicked(t)
  \/ Outside /\ UNCHANGED backupVars
  \/ BackupTick
  \/ Dump \/ Restore \/ LoseDatabase
  \/ \E p \in Known, n \in Name : Reingest(p, n)

(* The database and the API run; readers, time, failures and operators     *)
(* need not.                                                               *)
BackupSpec ==
  /\ BackupInit /\ [][BackupNext]_allVars
  /\ \A r \in Request : WF_allVars(BackupRequestStep(r))

-----------------------------------------------------------------------------
(* Properties.                                                             *)

(* Whatever is lost, re-ingested under other ids and restored, a token     *)
(* still names the product and the address it was drawn for, and no two    *)
(* watches share it (RUNBOOK.md: "Rows are re-keyed on (retailer, external *)
(* id, email), so a restore works after a product-id reset").              *)
TokensKeepTheirWatch ==
  \A w \in rows :
    /\ origin[w.token] = [key |-> named[w.product], email |-> w.email]
    /\ \A v \in rows : v.token = w.token => v = w

(* Double opt-in survives the loss of its table: a watch is confirmed only *)
(* if somebody clicked the confirmation of its token, before or after the  *)
(* dump that brought it back.                                              *)
ConfirmedByClick == \A w \in rows : w.confirmed => w.token \in consented

(* "A restore never overwrites a live subscription" (backup.py): it keeps  *)
(* every row as it is, adds exactly the number of watches that --dry-run   *)
(* announced, and afterwards each entry of the dump whose product exists   *)
(* is watched by its address.                                              *)
RestoreIsExact ==
  [][Restore =>
       /\ rows \subseteq rows'
       /\ Cardinality(rows' \ rows) = DryRun.restored
       /\ DryRun.restored + DryRun.missing + DryRun.existing = Cardinality(dump)
       /\ \A e \in dump : \A p \in Matches(e) :
            \E w \in rows' : w.product = p /\ w.email = e.email]_allVars
=============================================================================
