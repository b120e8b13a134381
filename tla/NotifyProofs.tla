---------------------------- MODULE NotifyProofs ----------------------------
(***************************************************************************)
(* The theorems of module Notify, for any results, addresses and number of *)
(* invocations.                                                            *)
(***************************************************************************)
EXTENDS Notify, TLAPS

(* Whom invocation n is mailing, between its look-up and its marker.       *)
Handling(n, k, to) == pc[n] \in {"checked", "sent"} /\ RunKey(n) = k /\ current[n] = to

(* What holds of every invocation: it has a payload once it has begun, it  *)
(* has not been retried while it waits for its retry, and it has a         *)
(* recipient between the look-up and the marker.                           *)
WorkInv ==
  \A n \in Notification :
    /\ pc[n] # "idle" => payload[n] \in Result
    /\ pc[n] = "backoff" => attempt[n] = 1
    /\ pc[n] \in {"checked", "sent"} <=> current[n] \in Address

TypeInv == TypeOK /\ WorkInv

LEMMA TypeInit == Init => TypeInv
  BY NotifyAssumption DEF Init, TypeInv, TypeOK, WorkInv, Step, Live

LEMMA RunKeyType ==
  ASSUME TypeInv, NEW n \in Notification, pc[n] # "idle"
  PROVE  RunKey(n) \in Key
  BY NotifyAssumption DEF TypeInv, WorkInv, RunKey

(* The actions, by name, for the case splits below.                        *)
Enter(n) == \E r \in Result : Deliver(n, r) \/ NotifyByHand(n, r)

Prepare(n) ==
  Dispatch(n) \/ Retry(n) \/ InvalidateCdn(n) \/ NothingToSend(n) \/ BuildDigests(n)

LEMMA StepCases ==
  ASSUME [Next]_vars
  PROVE  \/ UNCHANGED vars
         \/ \E n \in Notification :
              \/ Enter(n) \/ Prepare(n) \/ Die(n)
              \/ \E to \in Address : SkipMarked(n, to) \/ CheckUnmarked(n, to)
              \/ SesAccepts(n) \/ SesRejects(n) \/ LoseSesReply(n) \/ MarkSent(n)
              \/ EndBatch(n) \/ ReportFailures(n)
  BY DEF Next, Enter, Prepare

LEMMA TypeStep == TypeInv /\ [Next]_vars => TypeInv'
<1> SUFFICES ASSUME TypeInv, [Next]_vars
             PROVE  TypeInv'
  OBVIOUS
<1> USE NotifyAssumption DEF TypeInv, TypeOK, WorkInv, Step, Live, workVars, inputVars,
        effectVars
<1>1. CASE UNCHANGED vars
  BY <1>1 DEF vars
<1>2. ASSUME NEW n \in Notification, Enter(n)
      PROVE  TypeInv'
  <2>1. PICK r \in Result : Deliver(n, r) \/ NotifyByHand(n, r)
    BY <1>2 DEF Enter
  <2>2. CASE Deliver(n, r)
    BY <2>2 DEF Deliver
  <2>3. CASE NotifyByHand(n, r)
    BY <2>3 DEF NotifyByHand
  <2>4. QED
    BY <2>1, <2>2, <2>3
<1>3. ASSUME NEW n \in Notification, Prepare(n)
      PROVE  TypeInv'
  <2>1. CASE Dispatch(n) \/ InvalidateCdn(n) \/ NothingToSend(n)
    BY <2>1 DEF Dispatch, InvalidateCdn, NothingToSend
  <2>2. CASE Retry(n)
    BY <2>2 DEF Retry
  <2>3. CASE BuildDigests(n)
    BY <2>3 DEF BuildDigests, Recipients
  <2>4. QED
    BY <1>3, <2>1, <2>2, <2>3 DEF Prepare
<1>4. ASSUME NEW n \in Notification, NEW to \in Address, SkipMarked(n, to)
      PROVE  TypeInv'
  BY <1>4 DEF SkipMarked
<1>5. ASSUME NEW n \in Notification, NEW to \in Address, CheckUnmarked(n, to)
      PROVE  TypeInv'
  BY <1>5, RunKeyType DEF CheckUnmarked, Racing
<1>6. ASSUME NEW n \in Notification, SesAccepts(n)
      PROVE  TypeInv'
  BY <1>6, RunKeyType DEF SesAccepts
<1>7. ASSUME NEW n \in Notification, SesRejects(n)
      PROVE  TypeInv'
  BY <1>7 DEF SesRejects
<1>8. ASSUME NEW n \in Notification, LoseSesReply(n)
      PROVE  TypeInv'
  BY <1>8, RunKeyType DEF LoseSesReply
<1>9. ASSUME NEW n \in Notification, MarkSent(n)
      PROVE  TypeInv'
  BY <1>9, RunKeyType DEF MarkSent, Marker
<1>10. ASSUME NEW n \in Notification, EndBatch(n)
      PROVE  TypeInv'
  BY <1>10 DEF EndBatch
<1>11. ASSUME NEW n \in Notification, ReportFailures(n)
      PROVE  TypeInv'
  BY <1>11, RunKeyType DEF ReportFailures
<1>12. ASSUME NEW n \in Notification, Die(n)
      PROVE  TypeInv'
  BY <1>12, RunKeyType DEF Die, Retriable
<1>13. QED
  BY <1>1, <1>2, <1>3, <1>4, <1>5, <1>6, <1>7, <1>8, <1>9, <1>10, <1>11, <1>12, StepCases

THEOREM TypeCorrect == Spec => []TypeOK
<1>1. TypeInv => TypeOK
  BY DEF TypeInv
<1>2. QED
  BY <1>1, TypeInit, TypeStep, PTL DEF Spec

-----------------------------------------------------------------------------
(* Markers.                                                                *)

MarkInv ==
  /\ TypeInv
  /\ \A n \in Notification : pc[n] = "sent" => delivered[<<RunKey(n), current[n]>>] > 0
  /\ MarkedMeansDelivered

(* What one step does to the mails and the markers: nothing, one more mail *)
(* of a worker at `checked`, or the marker of a worker at `sent`.          *)
LEMMA MailSteps ==
  ASSUME TypeInv, [Next]_vars
  PROVE  \/ UNCHANGED <<delivered, marked>>
         \/ \E n \in Notification :
              /\ pc[n] = "checked"
              /\ delivered' = [delivered EXCEPT ![<<RunKey(n), current[n]>>] = @ + 1]
              /\ UNCHANGED marked
         \/ \E n \in Notification :
              /\ pc[n] = "sent"
              /\ marked' = marked \cup {Marker(RunKey(n), current[n])}
              /\ UNCHANGED delivered
<1> USE DEF effectVars
<1>1. ASSUME NEW n \in Notification, Enter(n) \/ Prepare(n)
      PROVE  UNCHANGED <<delivered, marked>>
  BY <1>1 DEF Enter, Prepare, Deliver, NotifyByHand, Dispatch, Retry, InvalidateCdn,
     NothingToSend, BuildDigests
<1>2. ASSUME NEW n \in Notification,
             \/ \E to \in Address : SkipMarked(n, to) \/ CheckUnmarked(n, to)
             \/ SesRejects(n) \/ EndBatch(n) \/ ReportFailures(n) \/ Die(n)
      PROVE  UNCHANGED <<delivered, marked>>
  BY <1>2 DEF SkipMarked, CheckUnmarked, SesRejects, EndBatch, ReportFailures, Die
<1>3. ASSUME NEW n \in Notification, SesAccepts(n) \/ LoseSesReply(n)
      PROVE  /\ pc[n] = "checked"
             /\ delivered' = [delivered EXCEPT ![<<RunKey(n), current[n]>>] = @ + 1]
             /\ UNCHANGED marked
  BY <1>3 DEF SesAccepts, LoseSesReply
<1>4. ASSUME NEW n \in Notification, MarkSent(n)
      PROVE  /\ pc[n] = "sent"
             /\ marked' = marked \cup {Marker(RunKey(n), current[n])}
             /\ UNCHANGED delivered
  BY <1>4 DEF MarkSent
<1>5. UNCHANGED vars => UNCHANGED <<delivered, marked>>
  BY DEF vars
<1>6. QED
  BY <1>1, <1>2, <1>3, <1>4, <1>5, StepCases

(* A mail, once sent, stays sent.                                          *)
LEMMA MailedForever ==
  ASSUME TypeInv, [Next]_vars, NEW d \in Key \X Address
  PROVE  /\ delivered[d] \in Nat /\ delivered'[d] \in Nat
         /\ delivered'[d] >= delivered[d]
<1>1. delivered \in [Key \X Address -> Nat] /\ delivered' \in [Key \X Address -> Nat]
  BY TypeStep DEF TypeInv, TypeOK
<1>2. delivered[d] \in Nat /\ delivered'[d] \in Nat
  BY <1>1
<1>3. delivered'[d] \in {delivered[d], delivered[d] + 1}
  <2>1. ASSUME NEW e, delivered' = [delivered EXCEPT ![e] = @ + 1]
        PROVE  delivered'[d] \in {delivered[d], delivered[d] + 1}
    BY <1>1, <2>1
  <2>2. QED
    BY <2>1, MailSteps
<1>4. QED
  BY <1>2, <1>3

(* How a worker comes to be where it is while it mails a recipient.        *)
LEMMA HandlingSteps ==
  ASSUME TypeInv, [Next]_vars, NEW n \in Notification, pc'[n] \in {"checked", "sent"}
  PROVE  /\ RunKey(n)' = RunKey(n)
         /\ \/ pc'[n] = pc[n] /\ current'[n] = current[n]
            \/ \E to \in Address : CheckUnmarked(n, to)
            \/ SesAccepts(n)
<1> USE DEF TypeInv, TypeOK, RunKey, inputVars, effectVars, workVars
<1>1. ASSUME NEW m \in Notification, Enter(m) \/ Prepare(m)
      PROVE  /\ pc'[n] = pc[n] /\ current'[n] = current[n]
             /\ payload'[n] = payload[n]
  BY <1>1 DEF Enter, Prepare, Deliver, NotifyByHand, Dispatch, Retry, InvalidateCdn,
     NothingToSend, BuildDigests
<1>2. ASSUME NEW m \in Notification,
             \/ \E to \in Address : SkipMarked(m, to)
             \/ SesRejects(m) \/ LoseSesReply(m) \/ MarkSent(m)
             \/ EndBatch(m) \/ ReportFailures(m) \/ Die(m)
      PROVE  /\ pc'[n] = pc[n] /\ current'[n] = current[n]
             /\ payload'[n] = payload[n]
  BY <1>2 DEF SkipMarked, SesRejects, LoseSesReply, MarkSent, EndBatch, ReportFailures, Die
<1>3. ASSUME NEW m \in Notification,
             (\E to \in Address : CheckUnmarked(m, to)) \/ SesAccepts(m)
      PROVE  /\ payload'[n] = payload[n]
             /\ m # n => pc'[n] = pc[n] /\ current'[n] = current[n]
  BY <1>3 DEF CheckUnmarked, SesAccepts
<1>4. QED
  BY <1>1, <1>2, <1>3, StepCases DEF vars

LEMMA MarkInit == Init => MarkInv
  BY TypeInit DEF Init, MarkInv, MarkedMeansDelivered

LEMMA MarkStep == MarkInv /\ [Next]_vars => MarkInv'
<1> SUFFICES ASSUME MarkInv, [Next]_vars
             PROVE  MarkInv'
  OBVIOUS
<1>1. TypeInv /\ TypeInv'
  BY TypeStep DEF MarkInv
<1>2. ASSUME NEW n \in Notification, pc[n] \in {"checked", "sent"}
      PROVE  RunKey(n) \in Key /\ current[n] \in Address
  BY <1>1, <1>2, RunKeyType DEF TypeInv, WorkInv
<1>3. ASSUME NEW n \in Notification, pc'[n] = "sent"
      PROVE  delivered'[<<RunKey(n)', current'[n]>>] > 0
  <2>1. RunKey(n)' = RunKey(n)
    BY <1>1, <1>3, HandlingSteps
  <2>2. CASE pc[n] = "sent" /\ current'[n] = current[n]
    <3> DEFINE d == <<RunKey(n), current[n]>>
    <3>1. d \in Key \X Address /\ delivered[d] > 0
      BY <1>2, <2>2 DEF MarkInv
    <3>2. delivered'[d] > 0
      <4> HIDE DEF d
      <4>1. QED
        BY <1>1, <3>1, MailedForever
    <3>3. QED
      BY <2>1, <2>2, <3>2
  <2>3. CASE SesAccepts(n)
    <3> DEFINE d == <<RunKey(n), current[n]>>
    <3>1. d \in Key \X Address /\ delivered[d] \in Nat
      BY <1>1, <1>2, <2>3 DEF SesAccepts, TypeInv, TypeOK
    <3>2. delivered'[d] = delivered[d] + 1 /\ current' = current
      BY <1>1, <2>3, <3>1 DEF SesAccepts, TypeInv, TypeOK
    <3>3. QED
      BY <2>1, <3>1, <3>2
  <2>4. QED
    BY <1>1, <1>3, <2>2, <2>3, HandlingSteps DEF CheckUnmarked, TypeInv, TypeOK
<1>4. ASSUME NEW k \in Key, NEW to \in Address, Marker(k, to) \in marked'
      PROVE  Mailed(k, to)'
  <2>1. ASSUME NEW t \in Address, FoldCase[t] = FoldCase[to], delivered[<<k, t>>] > 0
        PROVE  Mailed(k, to)'
    <3> DEFINE d == <<k, t>>
    <3>1. delivered'[d] > 0
      <4>1. d \in Key \X Address /\ delivered[d] > 0
        BY <2>1
      <4> HIDE DEF d
      <4>2. QED
        BY <1>1, <4>1, MailedForever
    <3>2. QED
      BY <2>1, <3>1 DEF Mailed
  <2>2. CASE Marker(k, to) \in marked
    BY <2>1, <2>2 DEF MarkInv, MarkedMeansDelivered, Mailed
  <2>3. CASE Marker(k, to) \notin marked
    <3>1. PICK n \in Notification :
            pc[n] = "sent" /\ Marker(k, to) = Marker(RunKey(n), current[n])
      <4>1. PICK n \in Notification :
              pc[n] = "sent" /\ marked' = marked \cup {Marker(RunKey(n), current[n])}
        BY <1>1, <1>4, <2>3, MailSteps
      <4>2. QED
        BY <1>4, <2>3, <4>1
    <3>2. k = RunKey(n) /\ FoldCase[to] = FoldCase[current[n]] /\ current[n] \in Address
      BY <1>2, <3>1 DEF Marker
    <3>3. delivered[<<k, current[n]>>] > 0
      BY <3>1, <3>2 DEF MarkInv
    <3>4. QED
      BY <2>1, <3>2, <3>3
  <2>4. QED
    BY <2>2, <2>3
<1>5. QED
  BY <1>1, <1>3, <1>4 DEF MarkInv, MarkedMeansDelivered, Marker

(* A marker stands for a mail of that run to that address, up to its case, *)
(* however invocations overlap and die.                                    *)
THEOREM MarkersAreTrue == Spec => []MarkedMeansDelivered
<1>1. MarkInv => MarkedMeansDelivered
  BY DEF MarkInv
<1>2. QED
  BY <1>1, MarkInit, MarkStep, PTL DEF Spec

-----------------------------------------------------------------------------
(* Nobody is forgotten: while an invocation works through its digests,     *)
(* each recipient is ahead of it, in its hands, remembered as failed,      *)
(* mailed, or in an alarms message.                                        *)

Answered(n, to) == Mailed(RunKey(n), to) \/ <<RunKey(n), to>> \in reported

InHand(n, to) ==
  \/ to \in todo[n]
  \/ pc[n] \in {"checked", "sent"} /\ current[n] = to
  \/ to \in failed[n]

CoverOf(n) ==
  /\ pc[n] \in {"sending", "checked", "sent", "reporting"} =>
       \A to \in Recipients(payload[n]) : InHand(n, to) \/ Answered(n, to)
  /\ pc[n] = "reporting" => todo[n] = {}
  /\ pc[n] = "done" => \A to \in Recipients(payload[n]) : Answered(n, to)
  /\ pc[n] = "dropped" /\ ~byHand[n] => payload[n] \in alarmed

CoverInv == MarkInv /\ \A n \in Notification : CoverOf(n)

LEMMA CoverInit == Init => CoverInv
  BY MarkInit DEF Init, CoverInv, CoverOf

LEMMA MailedStays ==
  ASSUME TypeInv, [Next]_vars, NEW k \in Key, NEW to, Mailed(k, to)
  PROVE  Mailed(k, to)'
<1>1. PICK t \in Address : FoldCase[t] = FoldCase[to] /\ delivered[<<k, t>>] > 0
  BY DEF Mailed
<1> DEFINE d == <<k, t>>
<1>2. d \in Key \X Address /\ delivered[d] > 0
  BY <1>1
<1>3. delivered'[d] > 0
  <2> HIDE DEF d
  <2>1. QED
    BY <1>2, MailedForever
<1>4. QED
  BY <1>1, <1>3 DEF Mailed

LEMMA ReportsStay ==
  ASSUME [Next]_vars
  PROVE  reported \subseteq reported' /\ alarmed \subseteq alarmed'
<1> USE DEF effectVars
<1>1. ASSUME NEW n \in Notification,
             \/ Enter(n) \/ Prepare(n)
             \/ \E to \in Address : SkipMarked(n, to) \/ CheckUnmarked(n, to)
             \/ SesAccepts(n) \/ SesRejects(n) \/ LoseSesReply(n) \/ MarkSent(n) \/ EndBatch(n)
      PROVE  UNCHANGED <<reported, alarmed>>
  BY <1>1 DEF Enter, Prepare, Deliver, NotifyByHand, Dispatch, Retry, InvalidateCdn,
     NothingToSend, BuildDigests, SkipMarked, CheckUnmarked, SesAccepts, SesRejects,
     LoseSesReply, MarkSent, EndBatch
<1>2. ASSUME NEW n \in Notification, ReportFailures(n) \/ Die(n)
      PROVE  reported \subseteq reported' /\ alarmed \subseteq alarmed'
  BY <1>2 DEF ReportFailures, Die
<1>3. QED
  BY <1>1, <1>2, StepCases DEF vars

(* What an invocation keeps in memory changes in its own steps only.       *)
Untouched(n) ==
  /\ pc'[n] = pc[n] /\ payload'[n] = payload[n] /\ byHand'[n] = byHand[n]
  /\ todo'[n] = todo[n] /\ current'[n] = current[n] /\ failed'[n] = failed[n]

LEMMA OthersUntouched ==
  ASSUME TypeInv, [Next]_vars
  PROVE  \/ \A n \in Notification : Untouched(n)
         \/ \E m \in Notification :
              /\ \A n \in Notification \ {m} : Untouched(n)
              /\ \/ Enter(m) \/ Prepare(m) \/ Die(m)
                 \/ \E to \in Address : SkipMarked(m, to) \/ CheckUnmarked(m, to)
                 \/ SesAccepts(m) \/ SesRejects(m) \/ LoseSesReply(m) \/ MarkSent(m)
                 \/ EndBatch(m) \/ ReportFailures(m)
<1> USE DEF TypeInv, TypeOK, Untouched, workVars, inputVars, effectVars
<1>1. ASSUME NEW m \in Notification, Enter(m) \/ Prepare(m)
      PROVE  \A n \in Notification \ {m} : Untouched(n)
  BY <1>1 DEF Enter, Prepare, Deliver, NotifyByHand, Dispatch, Retry, InvalidateCdn,
     NothingToSend, BuildDigests
<1>2. ASSUME NEW m \in Notification,
             \E to \in Address : SkipMarked(m, to) \/ CheckUnmarked(m, to)
      PROVE  \A n \in Notification \ {m} : Untouched(n)
  BY <1>2 DEF SkipMarked, CheckUnmarked
<1>3. ASSUME NEW m \in Notification,
             SesAccepts(m) \/ SesRejects(m) \/ LoseSesReply(m) \/ MarkSent(m)
      PROVE  \A n \in Notification \ {m} : Untouched(n)
  BY <1>3 DEF SesAccepts, SesRejects, LoseSesReply, MarkSent
<1>4. ASSUME NEW m \in Notification, EndBatch(m) \/ ReportFailures(m) \/ Die(m)
      PROVE  \A n \in Notification \ {m} : Untouched(n)
  BY <1>4 DEF EndBatch, ReportFailures, Die
<1>5. UNCHANGED vars => \A n \in Notification : Untouched(n)
  BY DEF vars
<1>6. QED
  BY <1>1, <1>2, <1>3, <1>4, <1>5, StepCases

LEMMA AnsweredStays ==
  ASSUME TypeInv, [Next]_vars, NEW n \in Notification, pc[n] # "idle", NEW to,
         payload'[n] = payload[n], Answered(n, to)
  PROVE  Answered(n, to)'
<1>1. RunKey(n)' = RunKey(n) /\ RunKey(n) \in Key
  BY RunKeyType DEF RunKey
<1>2. CASE Mailed(RunKey(n), to)
  <2> DEFINE k == RunKey(n)
  <2>1. Mailed(k, to) /\ k \in Key
    BY <1>1, <1>2
  <2>2. \E t \in Address : FoldCase[t] = FoldCase[to] /\ delivered'[<<k, t>>] > 0
    <3> HIDE DEF k
    <3>1. QED
      BY <2>1, MailedStays DEF Mailed
  <2>3. QED
    BY <1>1, <2>2 DEF Answered, Mailed
<1>3. CASE <<RunKey(n), to>> \in reported
  BY <1>1, <1>3, ReportsStay DEF Answered
<1>4. QED
  BY <1>2, <1>3 DEF Answered

(* A step of the invocation itself that ends the look-up, the send or the  *)
(* marker of one recipient.                                                *)
LEMMA CoverSending ==
  ASSUME CoverInv, [Next]_vars, NEW n \in Notification,
         \/ \E to \in Address : SkipMarked(n, to) \/ CheckUnmarked(n, to)
         \/ SesAccepts(n) \/ SesRejects(n) \/ LoseSesReply(n) \/ MarkSent(n)
  PROVE  CoverOf(n)'
<1>1. /\ TypeInv /\ TypeOK /\ WorkInv /\ MarkInv /\ MarkedMeansDelivered
      /\ pc[n] \in {"sending", "checked", "sent"}
  BY DEF CoverInv, MarkInv, TypeInv, SkipMarked, CheckUnmarked, SesAccepts, SesRejects,
     LoseSesReply, MarkSent
<1>2. /\ payload'[n] = payload[n] /\ RunKey(n) \in Key
      /\ pc'[n] \in {"sending", "checked", "sent"}
  BY <1>1, RunKeyType DEF TypeOK, SkipMarked, CheckUnmarked, SesAccepts, SesRejects,
     LoseSesReply, MarkSent, inputVars, effectVars
<1>3. ASSUME NEW to \in Recipients(payload[n]), Answered(n, to)
      PROVE  Answered(n, to)'
  BY <1>1, <1>2, <1>3, AnsweredStays
<1>4. ASSUME NEW to \in Recipients(payload[n]), InHand(n, to)
      PROVE  InHand(n, to)' \/ Answered(n, to)
  <2> USE <1>1, <1>2, <1>4 DEF InHand, TypeOK, inputVars, effectVars
  <2>1. CASE \E t \in Address : SkipMarked(n, t)
    <3>1. PICK t \in Address : SkipMarked(n, t)
      BY <2>1
    <3>2. Mailed(RunKey(n), t)
      BY <3>1 DEF SkipMarked, MarkedMeansDelivered
    <3>3. QED
      BY <3>1, <3>2 DEF SkipMarked, Answered
  <2>2. CASE \E t \in Address : CheckUnmarked(n, t)
    BY <2>2 DEF CheckUnmarked
  <2>3. CASE SesAccepts(n)
    BY <2>3 DEF SesAccepts
  <2>4. CASE SesRejects(n)
    BY <2>4 DEF SesRejects
  <2>5. CASE LoseSesReply(n)
    BY <2>5 DEF LoseSesReply
  <2>6. CASE MarkSent(n)
    <3>1. Mailed(RunKey(n), current[n])
      BY <2>6 DEF MarkSent, MarkInv, Mailed, WorkInv
    <3>2. QED
      BY <2>6, <3>1 DEF MarkSent, Answered
  <2>7. QED
    BY <2>1, <2>2, <2>3, <2>4, <2>5, <2>6
<1>5. \A to \in Recipients(payload[n]) : InHand(n, to) \/ Answered(n, to)
  BY <1>1 DEF CoverInv, CoverOf
<1>6. \A to \in Recipients(payload'[n]) : InHand(n, to)' \/ Answered(n, to)'
  BY <1>2, <1>3, <1>4, <1>5
<1>7. QED
  BY <1>2, <1>6 DEF CoverOf, Recipients, Content

LEMMA CoverStep == CoverInv /\ [Next]_vars => CoverInv'
<1> SUFFICES ASSUME CoverInv, [Next]_vars, NEW n \in Notification
             PROVE  CoverOf(n)'
  BY MarkStep DEF CoverInv
<1>1. TypeInv /\ TypeOK /\ WorkInv /\ CoverOf(n)
  BY DEF CoverInv, MarkInv, TypeInv
<1>2. CASE Untouched(n)
  <2>1. ASSUME NEW to \in Address, Answered(n, to), pc[n] # "idle"
        PROVE  Answered(n, to)'
    BY <1>1, <1>2, <2>1, AnsweredStays DEF Untouched
  <2>2. ASSUME NEW to \in Address, InHand(n, to)
        PROVE  InHand(n, to)'
    BY <1>2, <2>2 DEF Untouched, InHand
  <2>3. Recipients(payload'[n]) = Recipients(payload[n]) /\ Recipients(payload[n]) \subseteq Address
    BY <1>2 DEF Untouched, Recipients
  <2>4. QED
    BY <1>1, <1>2, <2>1, <2>2, <2>3, ReportsStay DEF Untouched, CoverOf
<1>3. CASE \/ \E to \in Address : SkipMarked(n, to) \/ CheckUnmarked(n, to)
           \/ SesAccepts(n) \/ SesRejects(n) \/ LoseSesReply(n) \/ MarkSent(n)
  BY <1>3, CoverSending
<1>4. CASE Enter(n) \/ Prepare(n)
  <2> USE <1>1 DEF TypeOK, CoverOf, inputVars, effectVars
  <2>1. CASE Enter(n) \/ Dispatch(n) \/ Retry(n) \/ InvalidateCdn(n)
    BY <2>1 DEF Enter, Deliver, NotifyByHand, Dispatch, Retry, InvalidateCdn
  <2>2. CASE NothingToSend(n)
    <3>1. payload[n] \in Result /\ AlertsOf[payload[n]] = {} /\ payload'[n] = payload[n]
      BY <2>2, NotifyAssumption DEF NothingToSend, WorkInv
    <3>2. Recipients(payload[n]) = {}
      BY <3>1 DEF Recipients, Content
    <3>3. QED
      BY <2>2, <3>1, <3>2 DEF NothingToSend
  <2>3. CASE BuildDigests(n)
    BY <2>3 DEF BuildDigests, InHand
  <2>4. QED
    BY <1>4, <2>1, <2>2, <2>3 DEF Prepare
<1>5. CASE EndBatch(n)
  <2>1. /\ payload'[n] = payload[n] /\ todo[n] = {} /\ todo' = todo /\ pc[n] = "sending"
        /\ failed' = failed
        /\ pc'[n] = IF failed[n] = {} THEN "done" ELSE "reporting"
    BY <1>1, <1>5 DEF EndBatch, TypeOK, inputVars
  <2>2. ASSUME NEW to \in Recipients(payload[n])
        PROVE  to \in failed[n] \/ Answered(n, to)'
    BY <1>1, <2>1, AnsweredStays DEF CoverOf, InHand
  <2>3. QED
    BY <2>1, <2>2 DEF CoverOf, InHand
<1>6. CASE ReportFailures(n)
  <2>1. /\ payload'[n] = payload[n] /\ todo[n] = {} /\ pc[n] = "reporting" /\ pc'[n] = "done"
        /\ reported' = reported \cup {<<RunKey(n), to>> : to \in failed[n]}
        /\ RunKey(n)' = RunKey(n)
    BY <1>1, <1>6 DEF ReportFailures, TypeOK, inputVars, CoverOf, RunKey
  <2>2. ASSUME NEW to \in Recipients(payload[n])
        PROVE  Answered(n, to)'
    <3>1. to \in failed[n] \/ Answered(n, to)
      BY <1>1, <2>1 DEF CoverOf, InHand
    <3>2. QED
      BY <1>1, <2>1, <3>1, AnsweredStays DEF Answered
  <2>3. QED
    BY <2>1, <2>2 DEF CoverOf
<1>7. CASE Die(n)
  BY <1>1, <1>7 DEF Die, TypeOK, CoverOf, inputVars
<1>8. QED
  BY <1>1, <1>2, <1>3, <1>4, <1>5, <1>6, <1>7, OthersUntouched

(* When an event has ended, everybody its result concerns was mailed or is *)
(* named in an alarm, for any schedule of deliveries, retries and deaths.  *)
THEOREM EverybodyIsCovered == Spec => []NobodyForgotten
<1>1. ASSUME CoverInv, NEW n \in Notification, pc[n] \in {"done", "dropped"}, ~byHand[n],
             NEW a \in AlertsOf[payload[n]],
             NEW to \in IF a.kind = "watch_hit" THEN a.emails ELSE Default
      PROVE  \/ Mailed(RunKey(n), to)
             \/ <<RunKey(n), to>> \in reported
             \/ payload[n] \in alarmed
  <2>1. payload[n] \in Result
    BY <1>1 DEF CoverInv, MarkInv, TypeInv, WorkInv
  <2>2. to \in Address
    BY <1>1, <2>1, NotifyAssumption
  <2>3. a \in Content(payload[n], to)
    BY <1>1 DEF Content
  <2>4. to \in Recipients(payload[n])
    BY <2>2, <2>3 DEF Recipients
  <2>5. QED
    BY <1>1, <2>4 DEF CoverInv, CoverOf, Answered
<1>2. CoverInv => NobodyForgotten
  BY <1>1 DEF NobodyForgotten
<1>3. QED
  BY <1>2, CoverInit, CoverStep, PTL DEF Spec

-----------------------------------------------------------------------------
(* Second mails.                                                           *)

(* A mail that is out has its marker, or is in the hands of the worker     *)
(* that sent it, or was left without by an attempt that ended.             *)
MailKnown(d) ==
  \/ d \in inFlight
  \/ Marker(d[1], d[2]) \in marked
  \/ \E n \in Notification : pc[n] = "sent" /\ Handling(n, d[1], d[2])

(* Whoever found no marker of a mail that was out met one in flight or     *)
(* another worker, and two workers on one recipient are a race.            *)
OnceInv ==
  /\ MarkInv
  /\ \A d \in Key \X Address : delivered[d] > 0 => MailKnown(d)
  /\ \A d \in Key \X Address : \A n \in Notification :
       pc[n] = "checked" /\ Handling(n, d[1], d[2]) /\ delivered[d] > 0
         => d \in inFlight \cup raced
  /\ \A d \in Key \X Address : \A m, n \in Notification :
       m # n /\ Handling(m, d[1], d[2]) /\ Handling(n, d[1], d[2]) => d \in raced
  /\ ResentOnlyInFlight

LEMMA OnceInit == Init => OnceInv
  BY MarkInit DEF Init, OnceInv, ResentOnlyInFlight, Handling

LEMMA RecordsStay ==
  ASSUME TypeInv, [Next]_vars
  PROVE  marked \subseteq marked' /\ inFlight \subseteq inFlight' /\ raced \subseteq raced'
<1> USE DEF effectVars
<1>1. ASSUME NEW n \in Notification, Enter(n) \/ Prepare(n)
      PROVE  UNCHANGED <<marked, inFlight, raced>>
  BY <1>1 DEF Enter, Prepare, Deliver, NotifyByHand, Dispatch, Retry, InvalidateCdn,
     NothingToSend, BuildDigests
<1>2. ASSUME NEW n \in Notification,
             \/ \E to \in Address : SkipMarked(n, to)
             \/ SesAccepts(n) \/ SesRejects(n) \/ EndBatch(n) \/ ReportFailures(n)
      PROVE  UNCHANGED <<marked, inFlight, raced>>
  BY <1>2 DEF SkipMarked, SesAccepts, SesRejects, EndBatch, ReportFailures
<1>3. ASSUME NEW n \in Notification,
             \/ \E to \in Address : CheckUnmarked(n, to)
             \/ LoseSesReply(n) \/ MarkSent(n) \/ Die(n)
      PROVE  marked \subseteq marked' /\ inFlight \subseteq inFlight' /\ raced \subseteq raced'
  BY <1>3 DEF CheckUnmarked, LoseSesReply, MarkSent, Die
<1>4. QED
  BY <1>1, <1>2, <1>3, StepCases DEF vars

(* A worker that is mailing d was mailing d before the step, or has just   *)
(* found it unmarked.                                                      *)
LEMMA HandlingBefore ==
  ASSUME TypeInv, [Next]_vars, NEW d \in Key \X Address, NEW n \in Notification,
         Handling(n, d[1], d[2])'
  PROVE  \/ /\ Handling(n, d[1], d[2])
            /\ pc'[n] = pc[n] \/ SesAccepts(n)
         \/ /\ CheckUnmarked(n, d[2])
            /\ RunKey(n) = d[1]
<1>1. pc'[n] \in {"checked", "sent"} /\ RunKey(n)' = d[1] /\ current'[n] = d[2]
  BY DEF Handling
<1>2. RunKey(n) = d[1]
  BY <1>1, HandlingSteps
<1>3. CASE pc'[n] = pc[n] /\ current'[n] = current[n]
  BY <1>1, <1>2, <1>3 DEF Handling
<1>4. CASE \E to \in Address : CheckUnmarked(n, to)
  BY <1>1, <1>2, <1>4 DEF CheckUnmarked, TypeInv, TypeOK
<1>5. CASE SesAccepts(n)
  BY <1>1, <1>2, <1>5 DEF SesAccepts, Handling
<1>6. QED
  BY <1>1, <1>3, <1>4, <1>5, HandlingSteps

(* A mail more is one a worker at `checked` was about to send; its worker  *)
(* goes on to the marker, or leaves the mail in flight.                    *)
LEMMA MailSentBy ==
  ASSUME TypeInv, [Next]_vars, NEW d \in Key \X Address, delivered'[d] # delivered[d]
  PROVE  /\ delivered'[d] = delivered[d] + 1
         /\ \E n \in Notification :
              /\ pc[n] = "checked" /\ Handling(n, d[1], d[2])
              /\ \/ SesAccepts(n)
                 \/ d \in inFlight' /\ pc'[n] = "sending"
<1> USE DEF effectVars, TypeInv, TypeOK
<1>1. PICK n \in Notification : SesAccepts(n) \/ LoseSesReply(n)
  <2>1. ASSUME NEW n \in Notification, Enter(n) \/ Prepare(n)
        PROVE  UNCHANGED delivered
    BY <2>1 DEF Enter, Prepare, Deliver, NotifyByHand, Dispatch, Retry, InvalidateCdn,
       NothingToSend, BuildDigests
  <2>2. ASSUME NEW n \in Notification,
               \/ \E to \in Address : SkipMarked(n, to) \/ CheckUnmarked(n, to)
               \/ SesRejects(n) \/ MarkSent(n) \/ EndBatch(n) \/ ReportFailures(n) \/ Die(n)
        PROVE  UNCHANGED delivered
    BY <2>2 DEF SkipMarked, CheckUnmarked, SesRejects, MarkSent, EndBatch, ReportFailures, Die
  <2>3. QED
    BY <2>1, <2>2, StepCases DEF vars
<1> DEFINE e == <<RunKey(n), current[n]>>
<1>2. /\ pc[n] = "checked" /\ delivered' = [delivered EXCEPT ![e] = @ + 1]
      /\ SesAccepts(n) \/ (e \in inFlight' /\ pc'[n] = "sending")
  BY <1>1 DEF SesAccepts, LoseSesReply
<1>3. d = e
  <2> HIDE DEF e
  <2>1. QED
    BY <1>2
<1>4. d[1] = RunKey(n) /\ d[2] = current[n]
  BY <1>3
<1>5. delivered'[d] = delivered[d] + 1
  <2> HIDE DEF e
  <2>1. QED
    BY <1>2, <1>3
<1>6. QED
  BY <1>2, <1>3, <1>4, <1>5 DEF Handling

(* A mail that is known of stays known of: its worker marks it or leaves   *)
(* it in flight.                                                           *)
LEMMA SentIsSettled ==
  ASSUME TypeInv, [Next]_vars, NEW d \in Key \X Address, MailKnown(d)
  PROVE  MailKnown(d)'
<1>1. CASE d \in inFlight \/ Marker(d[1], d[2]) \in marked
  BY <1>1, RecordsStay DEF MailKnown, Marker
<1>2. ASSUME NEW n \in Notification, pc[n] = "sent", Handling(n, d[1], d[2])
      PROVE  MailKnown(d)'
  <2>1. d = <<RunKey(n), current[n]>>
    BY <1>2 DEF Handling
  <2>2. CASE Untouched(n)
    BY <1>2, <2>2 DEF Untouched, MailKnown, Handling, RunKey
  <2>3. CASE MarkSent(n)
    BY <2>1, <2>3 DEF MarkSent, MailKnown, Marker
  <2>4. CASE Die(n)
    BY <1>2, <2>1, <2>4 DEF Die, MailKnown
  <2>5. ASSUME \/ Enter(n) \/ Prepare(n)
               \/ \E to \in Address : SkipMarked(n, to) \/ CheckUnmarked(n, to)
               \/ SesAccepts(n) \/ SesRejects(n) \/ LoseSesReply(n)
               \/ EndBatch(n) \/ ReportFailures(n)
        PROVE  FALSE
    BY <1>2, <2>5 DEF Enter, Prepare, Deliver, NotifyByHand, Dispatch, Retry, InvalidateCdn,
       NothingToSend, BuildDigests, SkipMarked, CheckUnmarked, SesAccepts, SesRejects,
       LoseSesReply, EndBatch, ReportFailures
  <2>6. QED
    BY <2>2, <2>3, <2>4, <2>5, OthersUntouched
<1>3. QED
  BY <1>1, <1>2 DEF MailKnown

(* To look a recipient up while another worker mails it is recorded.       *)
LEMMA LateLookUpIsRaced ==
  ASSUME NEW d \in Key \X Address, NEW m \in Notification, NEW n \in Notification,
         Handling(m, d[1], d[2]), CheckUnmarked(n, d[2]), RunKey(n) = d[1]
  PROVE  d \in raced'
<1>1. d = <<RunKey(n), d[2]>>
  OBVIOUS
<1>2. d \in Racing(RunKey(n), d[2])
  BY <1>1 DEF Racing, Handling
<1>3. QED
  BY <1>2 DEF CheckUnmarked

LEMMA OnceStep == OnceInv /\ [Next]_vars => OnceInv'
<1> SUFFICES ASSUME OnceInv, [Next]_vars
             PROVE  OnceInv'
  OBVIOUS
<1>1. MarkInv' /\ TypeInv /\ TypeOK
  BY MarkStep DEF OnceInv, MarkInv, TypeInv
<1>2. ASSUME NEW d \in Key \X Address
      PROVE  delivered[d] \in Nat /\ delivered'[d] \in Nat
  BY <1>1, MailedForever
<1>3. ASSUME NEW d \in Key \X Address, delivered'[d] > 0
      PROVE  MailKnown(d)'
  <2>1. CASE delivered'[d] = delivered[d]
    BY <1>1, <1>3, <2>1, SentIsSettled DEF OnceInv
  <2>2. CASE delivered'[d] # delivered[d]
    <3>1. PICK n \in Notification :
            /\ pc[n] = "checked" /\ Handling(n, d[1], d[2])
            /\ SesAccepts(n) \/ (d \in inFlight' /\ pc'[n] = "sending")
      BY <1>1, <2>2, MailSentBy
    <3>2. SesAccepts(n) => pc'[n] = "sent" /\ Handling(n, d[1], d[2])'
      BY <1>1, <3>1 DEF SesAccepts, Handling, TypeOK, RunKey, inputVars
    <3>3. QED
      BY <3>1, <3>2 DEF MailKnown
  <2>3. QED
    BY <2>1, <2>2
<1>4. ASSUME NEW d \in Key \X Address, NEW n \in Notification,
             pc'[n] = "checked", Handling(n, d[1], d[2])', delivered'[d] > 0
      PROVE  d \in inFlight' \cup raced'
  <2>1. CASE CheckUnmarked(n, d[2]) /\ RunKey(n) = d[1]
    <3>1. delivered[d] > 0 /\ Marker(d[1], d[2]) \notin marked
      BY <1>4, <2>1 DEF CheckUnmarked
    <3>2. MailKnown(d)
      BY <3>1 DEF OnceInv
    <3>3. QED
      BY <1>1, <2>1, <3>1, <3>2, LateLookUpIsRaced, RecordsStay DEF MailKnown
  <2>2. CASE Handling(n, d[1], d[2]) /\ pc'[n] = pc[n]
    <3>1. CASE delivered'[d] = delivered[d]
      BY <1>1, <1>4, <2>2, <3>1, RecordsStay DEF OnceInv
    <3>2. CASE delivered'[d] # delivered[d]
      <4>1. PICK m \in Notification :
              /\ pc[m] = "checked" /\ Handling(m, d[1], d[2])
              /\ SesAccepts(m) \/ pc'[m] = "sending"
        BY <1>1, <3>2, MailSentBy
      <4>2. m # n
        BY <1>1, <1>4, <4>1 DEF SesAccepts, TypeOK
      <4>3. QED
        BY <1>1, <2>2, <4>1, <4>2, RecordsStay DEF OnceInv
    <3>3. QED
      BY <3>1, <3>2
  <2>3. QED
    BY <1>1, <1>4, <2>1, <2>2, HandlingBefore DEF SesAccepts, TypeOK
<1>5. ASSUME NEW d \in Key \X Address, NEW m \in Notification, NEW n \in Notification, m # n,
             Handling(m, d[1], d[2])', Handling(n, d[1], d[2])'
      PROVE  d \in raced'
  <2>1. CASE Handling(m, d[1], d[2]) /\ Handling(n, d[1], d[2])
    BY <1>1, <1>5, <2>1, RecordsStay DEF OnceInv
  <2>2. ~(CheckUnmarked(m, d[2]) /\ CheckUnmarked(n, d[2]))
    BY <1>1, <1>5 DEF CheckUnmarked, TypeOK
  <2>3. QED
    BY <1>1, <1>5, <2>1, <2>2, HandlingBefore, LateLookUpIsRaced
<1>6. ASSUME NEW d \in Key \X Address, delivered'[d] > 1
      PROVE  d \in inFlight' \cup raced'
  <2>1. CASE delivered'[d] = delivered[d]
    BY <1>1, <1>6, <2>1, RecordsStay DEF OnceInv, ResentOnlyInFlight
  <2>2. CASE delivered'[d] # delivered[d]
    <3>1. delivered[d] > 0
      BY <1>1, <1>2, <1>6, <2>2, MailSentBy
    <3>2. \E n \in Notification : pc[n] = "checked" /\ Handling(n, d[1], d[2])
      BY <1>1, <2>2, MailSentBy
    <3>3. QED
      BY <1>1, <3>1, <3>2, RecordsStay DEF OnceInv
  <2>3. QED
    BY <2>1, <2>2
<1>7. QED
  BY <1>1, <1>3, <1>4, <1>5, <1>6 DEF OnceInv, ResentOnlyInFlight

(* A second mail of a run needs a mail left in flight or two invocations   *)
(* on one recipient at once.                                               *)
THEOREM NoOtherSecondMail == Spec => []ResentOnlyInFlight
<1>1. OnceInv => ResentOnlyInFlight
  BY DEF OnceInv
<1>2. QED
  BY <1>1, OnceInit, OnceStep, PTL DEF Spec
=============================================================================
