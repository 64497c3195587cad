--------------------------- MODULE DeliveryPromise ---------------------------
(***************************************************************************)
(* What the outbox promises for each notice it owes, without workers,      *)
(* leases, copies or clocks: a delivery is recorded as told only when it    *)
(* went out or there was nowhere to send it, and it is dropped only after   *)
(* the permitted number of real attempts or because nobody ever proved the  *)
(* address theirs.  A recorded outcome may be taken back (a worker that     *)
(* overran its lease saves last), and then the same two rules apply again.  *)
(***************************************************************************)
EXTENDS Integers

CONSTANTS
    Deliveries,     \* the (notice, channel) pairs that can be owed
    MaxAttempts     \* attempts before a delivery is left alone

VARIABLES
    state,          \* what the outbox says of each delivery
    tries,          \* attempts really made, counted up to MaxAttempts
    reached,        \* deliveries a sender accepted at least once
    excused         \* deliveries that had nowhere to go, or an unproven address

promiseVars == <<state, tries, reached, excused>>

PromiseInit ==
    /\ state = [d \in Deliveries |-> "absent"]
    /\ tries = [d \in Deliveries |-> 0]
    /\ reached = {}
    /\ excused = {}

\* An outcome is taken back and the delivery is owed again.
Reopen(d) ==
    /\ state[d] # "absent"
    /\ state' = [state EXCEPT ![d] = "owed"]
    /\ UNCHANGED <<tries, reached, excused>>

\* The deliveries of a notice come to be owed, all of them at once.
OweAll(D) ==
    /\ D # {}
    /\ \A d \in D : state[d] = "absent"
    /\ state' = [d \in Deliveries |-> IF d \in D THEN "owed" ELSE state[d]]
    /\ UNCHANGED <<tries, reached, excused>>

\* An attempt on something owed once: it goes out, is excused or fails.
Try(d) ==
    /\ state[d] # "absent"
    /\ tries' = [tries EXCEPT ![d] = IF @ < MaxAttempts THEN @ + 1 ELSE @]
    /\ reached' \in {reached, reached \cup {d}}
    /\ excused' \in {excused, excused \cup {d}}
    /\ UNCHANGED state

\* A message went out although its attempt is not over yet.
Reach(d) ==
    /\ state[d] # "absent"
    /\ reached' = reached \cup {d}
    /\ UNCHANGED <<state, tries, excused>>

RecordTold(d) ==
    /\ d \in reached \cup excused
    /\ state' = [state EXCEPT ![d] = "sent"]
    /\ UNCHANGED <<tries, reached, excused>>

RecordDropped(d) ==
    /\ tries[d] = MaxAttempts \/ d \in excused
    /\ state' = [state EXCEPT ![d] = "gaveUp"]
    /\ UNCHANGED <<tries, reached, excused>>

PromiseNext ==
    \/ \E D \in SUBSET Deliveries : OweAll(D)
    \/ \E d \in Deliveries :
           Reopen(d) \/ Try(d) \/ Reach(d) \/ RecordTold(d) \/ RecordDropped(d)

Promise == PromiseInit /\ [][PromiseNext]_promiseVars

\* What it comes to for a reader of the table: a delivery marked sent went out or
\* had nowhere to go, and one given up was tried as often as it may be or had
\* nowhere to go.
RecordsAreTrue ==
    \A d \in Deliveries :
        /\ state[d] = "sent" => d \in reached \cup excused
        /\ state[d] = "gaveUp" => tries[d] = MaxAttempts \/ d \in excused
=============================================================================
