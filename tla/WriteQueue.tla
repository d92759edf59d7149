----------------------------- MODULE WriteQueue -----------------------------
(***************************************************************************)
(* write_query_queue_t and the two operations the program offers on it:    *)
(* enqueue_write_query and remove_query.  A queue is a sequence of records *)
(* with at least the fields id and ts.  The queue is a deque in arrival    *)
(* order; the one that runs next is the earliest timestamp, and the first  *)
(* of equals.                                                              *)
(***************************************************************************)
EXTENDS Integers, SequencesExt

\* Some query with this id is in the queue (operator== compares ids).
Queued(w, id) == \E i \in DOMAIN w : w[i].id = id

\* remove_query: std::find and erase, so only the first match goes.
RemoveQuery(w, id) == RemoveFirstMatch(w, LAMBDA q : q.id = id)

\* Faulty forms of the next definition: the older query stays as well, or
\* stays instead.
EnqueueDuplicate(w, q) == Append(w, q)
EnqueueOnce(w, q)      == IF Queued(w, q.id) THEN w ELSE Append(w, q)

\* enqueue_write_query: an older query with the same id gives way.
Enqueue(w, q) == Append(RemoveQuery(w, q.id), q)

\* Faulty forms of the next definition: the last of equal timestamps, and no
\* top at all when timestamps are equal.
IsTopLast(w, i) ==
  /\ \A j \in DOMAIN w : w[i].ts <= w[j].ts
  /\ \A j \in DOMAIN w : j > i => w[i].ts < w[j].ts
IsTopStrict(w, i) == \A j \in DOMAIN w : j # i => w[i].ts < w[j].ts

\* The index get_top_iter() finds.
IsTop(w, i) ==
  /\ \A j \in DOMAIN w : w[i].ts <= w[j].ts
  /\ \A j \in DOMAIN w : j < i => w[i].ts < w[j].ts

\* pop(), for the index of the top.
PopAt(w, i) == RemoveAt(w, i)

UniqueIds(w) == \A i, j \in DOMAIN w : w[i].id = w[j].id => i = j

=============================================================================
