------------------------------ MODULE Delivery ------------------------------
(***************************************************************************)
(* What the mailbox layer promises its agent loops, with no scheduler in    *)
(* sight: the messages of a mailbox are given to turns in order and without *)
(* a gap, at most one turn of a mailbox is open at a time, and a message is *)
(* done with only when the turn it was given to has ended.  A turn may be   *)
(* abandoned, in which case its messages are given out again: delivery is   *)
(* at least once.                                                           *)
(***************************************************************************)
EXTENDS Naturals

CONSTANT Mailbox      \* mailbox addresses

VARIABLES mail,       \* mail[m]: the messages posted to m, as log positions
          done,       \* done[m]: every message of m up to here is done with
          turn        \* turn[m]: the messages of the open turn, {} when none

dvars == <<mail, done, turn>>

TypeOK ==
  /\ mail \in [Mailbox -> SUBSET (Nat \ {0})]
  /\ done \in [Mailbox -> Nat]
  /\ turn \in [Mailbox -> SUBSET (Nat \ {0})]

Waiting(m) == {s \in mail[m] : s > done[m]}

Init ==
  /\ mail = [m \in Mailbox |-> {}]
  /\ done = [m \in Mailbox |-> 0]
  /\ turn = [m \in Mailbox |-> {}]

\* One message arrives, at the end of a mailbox.  (The new position is read off
\* the new value of mail, so that the action can be evaluated on a given step.)
Post(m) ==
  /\ \E s \in mail'[m] :
       /\ \A t \in mail[m] : t < s
       /\ mail' = [mail EXCEPT ![m] = @ \cup {s}]
  /\ UNCHANGED <<done, turn>>

\* A turn takes the oldest waiting messages, with no gap.
Begin(m, batch) ==
  /\ turn[m] = {}
  /\ batch # {}
  /\ \A s \in batch : \A t \in Waiting(m) : t < s => t \in batch
  /\ turn' = [turn EXCEPT ![m] = batch]
  /\ UNCHANGED <<mail, done>>

Finish(m) ==
  /\ \E last \in turn[m] :
       /\ \A s \in turn[m] : s <= last
       /\ done' = [done EXCEPT ![m] = last]
  /\ turn' = [turn EXCEPT ![m] = {}]
  /\ UNCHANGED mail

Abandon(m) ==
  /\ turn[m] # {}
  /\ turn' = [turn EXCEPT ![m] = {}]
  /\ UNCHANGED <<mail, done>>

\* The process died: every open turn is abandoned at once.
AbandonAll ==
  /\ turn' = [m \in Mailbox |-> {}]
  /\ UNCHANGED <<mail, done>>

Next ==
  \/ \E m \in Mailbox :
       \/ Post(m)
       \/ \E batch \in SUBSET Waiting(m) : Begin(m, batch)
       \/ Finish(m)
       \/ Abandon(m)
  \/ AbandonAll

Spec == Init /\ [][Next]_dvars
=============================================================================
