------------------------------- MODULE Notify -------------------------------
(***************************************************************************)
(* The notify Lambda: services/notify.py run_notify, services/mail.py      *)
(* send_digests, services/digest.py build_digests and the delivery markers *)
(* of storage/delivery.py.                                                 *)
(*                                                                         *)
(* process's return value reaches notify through Lambda Destinations, at   *)
(* least once; the operator may replay one by hand (`pricepulse notify     *)
(* --key-json`).  Each recipient costs three steps that another invocation *)
(* or a crash may separate: the marker is looked up, SES is called, the    *)
(* marker is written.  A recipient SES rejects goes to the alarms topic.   *)
(***************************************************************************)
EXTENDS Naturals, FiniteSets

CONSTANTS
  Key,           \* raw object keys, which name the runs
  Result,        \* results returned by process, each a delivery's payload
  KeyOf,         \* [Result -> Key]: result.raw_object_key
  Skipped,       \* SUBSET Result: result.skipped
  AlertsOf,      \* [Result -> set of [kind, emails]]: result.alerts
  Default,       \* settings.alert_recipients
  Address,       \* every address, default recipients and watchers
  FoldCase,      \* [Address -> folded address]: what marker_key hashes
  Notification,  \* invocations of notify; bounds their number
  NoAddress, NoResult

ASSUME NotifyAssumption ==
  /\ KeyOf \in [Result -> Key]
  /\ Skipped \subseteq Result
  /\ Default \subseteq Address
  /\ \A r \in Result : \A a \in AlertsOf[r] : a.emails \subseteq Address
  /\ \A r \in Skipped : AlertsOf[r] = {}
  /\ NoAddress \notin Address /\ NoResult \notin Result

VARIABLES
  pc,        \* [Notification -> Step]
  payload,   \* [Notification -> Result]: responsePayload
  byHand,    \* [Notification -> BOOLEAN]: the operator's, neither retried nor alarmed
  attempt,   \* [Notification -> 1..2]
  todo,      \* [Notification -> SUBSET Address]: digests not yet handled
  current,   \* [Notification -> Address]: `to` between the look-up and the marker
  failed,    \* [Notification -> SUBSET Address]: SES rejected them in this attempt
  marked,    \* set of <<key, folded address>>: the objects under sent/
  delivered, \* [Key \X Address -> Nat]: mails SES accepted (history)
  inFlight,  \* set of <<key, address>>: an attempt ended with the mail out, the marker not (history)
  raced,     \* set of <<key, address>>: looked up while another invocation was mailing it (history)
  reported,  \* set of <<key, address>>: listed in an alarms message
  alarmed    \* SUBSET Result: sent to the on_failure topic

workVars == <<pc, attempt, todo, current, failed>>
inputVars == <<payload, byHand>>
effectVars == <<marked, delivered, inFlight, raced, reported, alarmed>>
vars == <<workVars, inputVars, effectVars>>

Live == {"started", "invalidated", "sending", "checked", "sent", "reporting"}
Step == {"idle", "queued", "backoff", "done", "dropped"} \cup Live

TypeOK ==
  /\ pc \in [Notification -> Step]
  /\ payload \in [Notification -> Result \cup {NoResult}]
  /\ byHand \in [Notification -> BOOLEAN]
  /\ attempt \in [Notification -> 1..2]
  /\ todo \in [Notification -> SUBSET Address]
  /\ current \in [Notification -> Address \cup {NoAddress}]
  /\ failed \in [Notification -> SUBSET Address]
  /\ marked \subseteq Key \X {FoldCase[a] : a \in Address}
  /\ delivered \in [Key \X Address -> Nat]
  /\ inFlight \subseteq Key \X Address
  /\ raced \subseteq Key \X Address
  /\ reported \subseteq Key \X Address
  /\ alarmed \subseteq Result

Init ==
  /\ pc = [n \in Notification |-> "idle"]
  /\ payload = [n \in Notification |-> NoResult]
  /\ byHand = [n \in Notification |-> FALSE]
  /\ attempt = [n \in Notification |-> 1]
  /\ todo = [n \in Notification |-> {}]
  /\ current = [n \in Notification |-> NoAddress]
  /\ failed = [n \in Notification |-> {}]
  /\ marked = {}
  /\ delivered = [d \in Key \X Address |-> 0]
  /\ inFlight = {}
  /\ raced = {}
  /\ reported = {}
  /\ alarmed = {}

RunKey(n) == KeyOf[payload[n]]

-----------------------------------------------------------------------------
(* build_digests: default recipients get every alert but the watch hits,   *)
(* each watcher its own hits; an empty digest is dropped.                  *)
Content(r, to) ==
  {a \in AlertsOf[r] : IF a.kind = "watch_hit" THEN to \in a.emails ELSE to \in Default}

(* Mutant: watchers left out when the run has default recipients' news.    *)
DefaultRecipientsFirst(r) ==
  LET shared == {to \in Default : Content(r, to) # {}}
  IN  IF shared # {} THEN shared ELSE {to \in Address : Content(r, to) # {}}

Recipients(r) == {to \in Address : Content(r, to) # {}}

(* Mutant: a marker that does not name the run.                            *)
MarkerWithoutRun(k, to) == <<CHOOSE any \in Key : TRUE, FoldCase[to]>>

(* marker_key strips and lower-cases the address before hashing it.        *)
Marker(k, to) == <<k, FoldCase[to]>>

-----------------------------------------------------------------------------
Deliver(n, r) ==
  /\ pc[n] = "idle"
  /\ pc' = [pc EXCEPT ![n] = "queued"]
  /\ payload' = [payload EXCEPT ![n] = r]
  /\ UNCHANGED <<byHand, attempt, todo, current, failed, effectVars>>

NotifyByHand(n, r) ==
  /\ pc[n] = "idle"
  /\ pc' = [pc EXCEPT ![n] = "started"]
  /\ payload' = [payload EXCEPT ![n] = r]
  /\ byHand' = [byHand EXCEPT ![n] = TRUE]
  /\ UNCHANGED <<attempt, todo, current, failed, effectVars>>

Dispatch(n) ==
  /\ pc[n] = "queued"
  /\ pc' = [pc EXCEPT ![n] = "started"]
  /\ UNCHANGED <<inputVars, attempt, todo, current, failed, effectVars>>

Retry(n) ==
  /\ pc[n] = "backoff"
  /\ pc' = [pc EXCEPT ![n] = "started"]
  /\ attempt' = [attempt EXCEPT ![n] = @ + 1]
  /\ UNCHANGED <<inputVars, todo, current, failed, effectVars>>

-----------------------------------------------------------------------------
(* run_notify.                                                             *)

InvalidateCdn(n) ==
  /\ pc[n] = "started"
  /\ payload[n] \notin Skipped
  /\ pc' = [pc EXCEPT ![n] = "invalidated"]
  /\ UNCHANGED <<inputVars, attempt, todo, current, failed, effectVars>>

NothingToSend(n) ==
  /\ \/ pc[n] = "started" /\ payload[n] \in Skipped
     \/ pc[n] = "invalidated" /\ AlertsOf[payload[n]] = {}
  /\ pc' = [pc EXCEPT ![n] = "done"]
  /\ UNCHANGED <<inputVars, attempt, todo, current, failed, effectVars>>

BuildDigests(n) ==
  /\ pc[n] = "invalidated"
  /\ AlertsOf[payload[n]] # {}
  /\ pc' = [pc EXCEPT ![n] = "sending"]
  /\ todo' = [todo EXCEPT ![n] = Recipients(payload[n])]
  /\ UNCHANGED <<inputVars, attempt, current, failed, effectVars>>

(* delivery.was_sent, answered yes and no.  The digests are taken in any   *)
(* order.                                                                  *)
SkipMarked(n, to) ==
  /\ pc[n] = "sending"
  /\ to \in todo[n]
  /\ Marker(RunKey(n), to) \in marked
  /\ todo' = [todo EXCEPT ![n] = @ \ {to}]
  /\ UNCHANGED <<inputVars, pc, attempt, current, failed, effectVars>>

(* The recipient, if another invocation is between its look-up and marker. *)
Racing(k, to) ==
  {d \in {<<k, to>>} :
     \E o \in Notification : pc[o] \in {"checked", "sent"} /\ RunKey(o) = k /\ current[o] = to}

(* Mutant: the marker not consulted.                                       *)
CheckNothing(n, to) ==
  /\ pc[n] = "sending"
  /\ to \in todo[n]
  /\ pc' = [pc EXCEPT ![n] = "checked"]
  /\ current' = [current EXCEPT ![n] = to]
  /\ todo' = [todo EXCEPT ![n] = @ \ {to}]
  /\ raced' = raced \cup Racing(RunKey(n), to)
  /\ UNCHANGED <<inputVars, attempt, failed, marked, delivered, inFlight, reported, alarmed>>

CheckUnmarked(n, to) ==
  /\ pc[n] = "sending"
  /\ to \in todo[n]
  /\ Marker(RunKey(n), to) \notin marked
  /\ pc' = [pc EXCEPT ![n] = "checked"]
  /\ current' = [current EXCEPT ![n] = to]
  /\ todo' = [todo EXCEPT ![n] = @ \ {to}]
  /\ raced' = raced \cup Racing(RunKey(n), to)
  /\ UNCHANGED <<inputVars, attempt, failed, marked, delivered, inFlight, reported, alarmed>>

SesAccepts(n) ==
  /\ pc[n] = "checked"
  /\ pc' = [pc EXCEPT ![n] = "sent"]
  /\ delivered' = [delivered EXCEPT ![<<RunKey(n), current[n]>>] = @ + 1]
  /\ UNCHANGED <<inputVars, attempt, todo, current, failed, marked, inFlight, raced,
                 reported, alarmed>>

(* Mutants: a rejected recipient marked, or not remembered.                *)
RejectMarked(n) ==
  /\ pc[n] = "checked"
  /\ pc' = [pc EXCEPT ![n] = "sending"]
  /\ failed' = [failed EXCEPT ![n] = @ \cup {current[n]}]
  /\ marked' = marked \cup {Marker(RunKey(n), current[n])}
  /\ current' = [current EXCEPT ![n] = NoAddress]
  /\ UNCHANGED <<inputVars, attempt, todo, delivered, inFlight, raced, reported, alarmed>>

RejectForgotten(n) ==
  /\ pc[n] = "checked"
  /\ pc' = [pc EXCEPT ![n] = "sending"]
  /\ current' = [current EXCEPT ![n] = NoAddress]
  /\ UNCHANGED <<inputVars, attempt, todo, failed, effectVars>>

SesRejects(n) ==
  /\ pc[n] = "checked"
  /\ pc' = [pc EXCEPT ![n] = "sending"]
  /\ failed' = [failed EXCEPT ![n] = @ \cup {current[n]}]
  /\ current' = [current EXCEPT ![n] = NoAddress]
  /\ UNCHANGED <<inputVars, attempt, todo, effectVars>>

(* The mail is accepted but the answer is lost: an exception like any      *)
(* other to send_digests.                                                  *)
LoseSesReply(n) ==
  /\ pc[n] = "checked"
  /\ pc' = [pc EXCEPT ![n] = "sending"]
  /\ delivered' = [delivered EXCEPT ![<<RunKey(n), current[n]>>] = @ + 1]
  /\ inFlight' = inFlight \cup {<<RunKey(n), current[n]>>}
  /\ failed' = [failed EXCEPT ![n] = @ \cup {current[n]}]
  /\ current' = [current EXCEPT ![n] = NoAddress]
  /\ UNCHANGED <<inputVars, attempt, todo, marked, raced, reported, alarmed>>

MarkSent(n) ==
  /\ pc[n] = "sent"
  /\ pc' = [pc EXCEPT ![n] = "sending"]
  /\ marked' = marked \cup {Marker(RunKey(n), current[n])}
  /\ current' = [current EXCEPT ![n] = NoAddress]
  /\ UNCHANGED <<inputVars, attempt, todo, failed, delivered, inFlight, raced, reported,
                 alarmed>>

EndBatch(n) ==
  /\ pc[n] = "sending"
  /\ todo[n] = {}
  /\ pc' = [pc EXCEPT ![n] = IF failed[n] = {} THEN "done" ELSE "reporting"]
  /\ UNCHANGED <<inputVars, attempt, todo, current, failed, effectVars>>

ReportFailures(n) ==
  /\ pc[n] = "reporting"
  /\ pc' = [pc EXCEPT ![n] = "done"]
  /\ reported' = reported \cup {<<RunKey(n), to>> : to \in failed[n]}
  /\ failed' = [failed EXCEPT ![n] = {}]
  /\ UNCHANGED <<inputVars, attempt, todo, current, marked, delivered, inFlight, raced,
                 alarmed>>

(* Mutant: Lambda's retries not limited to one.                            *)
RetriableForever(n) == ~byHand[n]

Retriable(n) == ~byHand[n] /\ attempt[n] = 1

(* The invocation ends in an exception (CloudFront, the marker store or    *)
(* the alarms topic does not answer) or dies: its memory is lost, and      *)
(* Lambda retries an event once before the on_failure topic.               *)
Die(n) ==
  /\ pc[n] \in Live
  /\ \/ /\ Retriable(n)
        /\ pc' = [pc EXCEPT ![n] = "backoff"]
        /\ UNCHANGED alarmed
     \/ /\ ~Retriable(n)
        /\ pc' = [pc EXCEPT ![n] = "dropped"]
        /\ alarmed' = IF byHand[n] THEN alarmed ELSE alarmed \cup {payload[n]}
  /\ inFlight' = inFlight \cup
       {<<RunKey(n), to>> : to \in {t \in {current[n]} : pc[n] = "sent"}}
  /\ todo' = [todo EXCEPT ![n] = {}]
  /\ current' = [current EXCEPT ![n] = NoAddress]
  /\ failed' = [failed EXCEPT ![n] = {}]
  /\ UNCHANGED <<inputVars, attempt, marked, delivered, raced, reported>>

Next ==
  \E n \in Notification :
    \/ \E r \in Result : Deliver(n, r) \/ NotifyByHand(n, r)
    \/ Dispatch(n) \/ Retry(n) \/ Die(n)
    \/ InvalidateCdn(n) \/ NothingToSend(n) \/ BuildDigests(n)
    \/ \E to \in Address : SkipMarked(n, to) \/ CheckUnmarked(n, to)
    \/ SesAccepts(n) \/ SesRejects(n) \/ LoseSesReply(n) \/ MarkSent(n)
    \/ EndBatch(n) \/ ReportFailures(n)

Spec == Init /\ [][Next]_vars

-----------------------------------------------------------------------------
(* Properties.                                                             *)

Mailed(k, to) == \E t \in Address : FoldCase[t] = FoldCase[to] /\ delivered[<<k, t>>] > 0

(* delivery.py: a marker is the durable record of "this recipient already  *)
(* got this run's digest".  Whoever was_sent answers yes for was mailed    *)
(* for that run, under this address or one that differs in case only.      *)
MarkedMeansDelivered ==
  \A k \in Key : \A to \in Address : Marker(k, to) \in marked => Mailed(k, to)

(* Nobody a result concerns is forgotten, whatever crashes, retries,       *)
(* overlaps and replays happen: when the result's event has ended, each    *)
(* recipient was mailed (up to the case of the address), or is listed in   *)
(* an alarm, or the event itself was alarmed.                              *)
NobodyForgotten ==
  \A n \in Notification :
    pc[n] \in {"done", "dropped"} /\ ~byHand[n] =>
      \A a \in AlertsOf[payload[n]] :
        \A to \in IF a.kind = "watch_hit" THEN a.emails ELSE Default :
          \/ Mailed(RunKey(n), to)
          \/ <<RunKey(n), to>> \in reported
          \/ payload[n] \in alarmed

(* architecture.md: "nothing is resent except the one recipient in flight  *)
(* when a worker died".  A second mail of a run goes only to a recipient   *)
(* whose first was out when an attempt ended or SES's answer was lost, or  *)
(* whom two invocations handled at the same time.                          *)
ResentOnlyInFlight ==
  \A d \in Key \X Address : delivered[d] > 1 => d \in inFlight \cup raced
=============================================================================
