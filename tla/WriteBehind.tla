---------------------------- MODULE WriteBehind ----------------------------
(***************************************************************************)
(* What the database half of the program promises to the other: a table    *)
(* that changes only by one job at a time, every job taken from what is    *)
(* owed.  At most one row and one deletion are owed per key; a newer one   *)
(* replaces the older, also when the newer one is a job put back.  Nothing *)
(* here knows of queues, deadlines, locks or threads.                      *)
(***************************************************************************)
EXTENDS Naturals

CONSTANTS Keys, Data,
          Blank     \* no row

VARIABLES
  row,      \* the table
  open,     \* the table exists
  next,     \* the row owed to a key, if any: a set of at most one
  doomed,   \* the keys that are owed a deletion
  hand,     \* the job being executed
  faults    \* how often the program died or its database failed it

owed == <<next, doomed>>
vars == <<row, open, owed, hand, faults>>

NoJob     == [kind |-> "none"]
Set(k, d) == [kind |-> "set", key |-> k, row |-> d]
Del(k)    == [kind |-> "del", key |-> k]

NothingOwed == next = [k \in Keys |-> {}] /\ doomed = {}

Init ==
  /\ open \in BOOLEAN
  /\ row \in [Keys -> IF open THEN Data ELSE {Blank}]
  /\ NothingOwed /\ hand = NoJob /\ faults = 0

\* Requests leave work behind.
Owe(k, d) ==
  /\ next' = [next EXCEPT ![k] = {d}]
  /\ UNCHANGED <<row, open, doomed, hand, faults>>
Doom(k) ==
  /\ doomed' = doomed \cup {k}
  /\ UNCHANGED <<row, open, next, hand, faults>>
Spare(k) ==
  /\ doomed' = doomed \ {k}
  /\ UNCHANGED <<row, open, next, hand, faults>>

\* What is owed is taken in hand, or lost for want of a table.
TakeSet(k) ==
  /\ hand = NoJob
  /\ next' = [next EXCEPT ![k] = {}]
  /\ \E d \in next[k] : hand' = IF open THEN Set(k, d) ELSE NoJob
  /\ UNCHANGED <<row, open, doomed, faults>>
TakeDel(k) ==
  /\ hand = NoJob /\ k \in doomed
  /\ doomed' = doomed \ {k}
  /\ hand' = IF open THEN Del(k) ELSE NoJob
  /\ UNCHANGED <<row, open, next, faults>>

\* A job ends by changing its row, by going back, or by an error.
Write(k, d) ==
  /\ hand = Set(k, d) /\ hand' = NoJob
  /\ row' = [row EXCEPT ![k] = d]
  /\ UNCHANGED <<open, owed, faults>>
Erase(k) ==
  /\ hand = Del(k) /\ hand' = NoJob
  /\ row' = [row EXCEPT ![k] = Blank]
  /\ UNCHANGED <<open, owed, faults>>
PutBackSet(k, d) ==
  /\ hand = Set(k, d) /\ hand' = NoJob
  /\ next' = [next EXCEPT ![k] = {d}]
  /\ UNCHANGED <<row, open, doomed, faults>>
PutBackDel(k) ==
  /\ hand = Del(k) /\ hand' = NoJob
  /\ doomed' = doomed \cup {k}
  /\ UNCHANGED <<row, open, next, faults>>
Fail ==
  /\ hand' = NoJob /\ faults' = faults + 1
  /\ UNCHANGED <<row, open, owed>>

\* Between jobs the table may be created, and lose rows that have a deadline.
Create ==
  /\ hand = NoJob /\ open' = TRUE
  /\ UNCHANGED <<row, owed, hand, faults>>
Purge ==
  /\ hand = NoJob /\ open
  /\ row' \in [Keys -> Data]
  /\ \A k \in Keys : row'[k] # row[k] => row[k].expires_at # 0 /\ row'[k] = Blank
  /\ UNCHANGED <<open, owed, hand, faults>>

\* Only what is in the table outlives the process.
Crash ==
  /\ next' = [k \in Keys |-> {}] /\ doomed' = {}
  /\ hand' = NoJob /\ faults' = faults + 1
  /\ UNCHANGED <<row, open>>

Next ==
  \/ \E k \in Keys :
       \/ Doom(k) \/ Spare(k) \/ TakeSet(k) \/ TakeDel(k)
       \/ Erase(k) \/ PutBackDel(k)
       \/ \E d \in Data : Owe(k, d) \/ Write(k, d) \/ PutBackSet(k, d)
  \/ Fail \/ Create \/ Purge \/ Crash

Spec == Init /\ [][Next]_vars

=============================================================================
