----------------------------- MODULE CacheData -----------------------------
(***************************************************************************)
(* cache::data_t: the record every part of the program passes around, one  *)
(* value and the time it expires at.  Values are abstract; NoValue is the  *)
(* empty string.  Timestamps are unsigned 64 bit milliseconds in the code; *)
(* here they wrap at TsMod, so that the arithmetic on them can be checked  *)
(* at a small width.                                                       *)
(***************************************************************************)
EXTENDS Integers

CONSTANTS Values,   \* what a client may store
          NoValue,  \* the empty string
          TsMod,    \* 2^64 in the code
          CText     \* what is left of a text that is read as a C string

ASSUME NoValueAssumption == NoValue \notin Values
ASSUME CTextAssumption ==
  /\ CText \in [Values \cup {NoValue} -> Values \cup {NoValue}]
  /\ CText[NoValue] = NoValue
\* wide enough for the magic timestamp 1
ASSUME TsModAssumption   == TsMod \in Nat \ {0, 1}

Data == [value : Values \cup {NoValue}, expires_at : 0 .. TsMod - 1]

\* data_t(), and what clear() leaves behind.
Blank == [value |-> NoValue, expires_at |-> 0]

IsEmpty(d) == d.value = NoValue /\ d.expires_at = 0

\* mark_cached() on an empty record: "known to not exist in db".
MarkCached(d) == IF d.expires_at = 0 THEN [d EXCEPT !.expires_at = 1] ELSE d

IsCached(d) == d.expires_at # 0 \/ d.value # NoValue

IsMarker(d) == d.expires_at = 1

ExpiresAt(d) == IF d.expires_at = 1 THEN 0 ELSE d.expires_at

\* The row set_cache binds for d.
Stored(d) == [d EXCEPT !.expires_at = ExpiresAt(d)]

\* The record a SELECT makes of a row: the text is bound with its length and
\* read back up to its first NUL.
AsRead(d) == [d EXCEPT !.value = CText[d.value]]

\* Faulty form of the next definition: a sum that cannot wrap.
DeadlineUnbounded(base, ttl) == IF ttl = 0 THEN 0 ELSE base + ttl

\* parse_to_cache_data: unsigned addition of the clock and the ttl.
Deadline(base, ttl) == IF ttl = 0 THEN 0 ELSE (base + ttl) % TsMod

\* The row's column is a signed 64 bit integer.
AsSigned(t) == IF 2 * t >= TsMod THEN t - TsMod ELSE t

=============================================================================
