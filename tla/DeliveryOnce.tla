---------------------------- MODULE DeliveryOnce ----------------------------
(***************************************************************************)
(* What the delivery log promises a subscriber: for one event, at most one *)
(* message, sent only while the claim is pending, and an outcome that is   *)
(* decided once.                                                           *)
(***************************************************************************)
EXTENDS Naturals

CONSTANTS Subs, Events, None

VARIABLES
  record,  \* record[s][e]: status of the delivery log's row
  sent     \* sent[s][e]: messages about e that went out to s

vars == <<record, sent>>

Init ==
  /\ record = [s \in Subs |-> [e \in Events |-> None]]
  /\ sent = [s \in Subs |-> [e \in Events |-> 0]]

Claim(s, e) ==
  /\ record[s][e] = None
  /\ record' = [record EXCEPT ![s][e] = "PENDING"]
  /\ UNCHANGED sent

Send(s, e) ==
  /\ record[s][e] = "PENDING" /\ sent[s][e] = 0
  /\ sent' = [sent EXCEPT ![s][e] = 1]
  /\ UNCHANGED record

\* FAILED says nothing: the channel may have failed after the message left.
Resolve(s, e) ==
  /\ record[s][e] = "PENDING"
  /\ \/ sent[s][e] = 1 /\ record' = [record EXCEPT ![s][e] = "DELIVERED"]
     \/ sent[s][e] = 0 /\ record' = [record EXCEPT ![s][e] = "SKIPPED"]
     \/ record' = [record EXCEPT ![s][e] = "FAILED"]
  /\ UNCHANGED sent

Next == \E s \in Subs, e \in Events : Claim(s, e) \/ Send(s, e) \/ Resolve(s, e)

Spec == Init /\ [][Next]_vars
=============================================================================
