------------------------------ MODULE Origins -------------------------------
(***************************************************************************)
(* server_config_t::set_cors_enabled_origins and util::trim: a list        *)
(* separated by commas, each part stripped, the empty ones dropped.        *)
(* Module Http compares Origin headers with the result.                    *)
(***************************************************************************)
EXTENDS Integers, Sequences, FiniteSets

CONSTANTS Characters, Space, Comma   \* every other character is a letter

ASSUME CharAssumption == {Space, Comma} \subseteq Characters /\ Space # Comma

Least(S)    == CHOOSE i \in S : \A j \in S : i <= j
Greatest(S) == CHOOSE i \in S : \A j \in S : i >= j
Solid(s)    == {i \in DOMAIN s : s[i] # Space}

\* Faulty form of the next definition: only the front is stripped.
TrimFront(s) ==
  IF Solid(s) = {} THEN <<>> ELSE SubSeq(s, Least(Solid(s)), Len(s))

trim(s) ==
  IF Solid(s) = {} THEN <<>> ELSE SubSeq(s, Least(Solid(s)), Greatest(Solid(s)))

\* Where getline stops reading: the next comma, or past the end.
Stop(s, from) == Least({i \in from .. Len(s) : s[i] = Comma} \cup {Len(s) + 1})

\* What the loop over getline, which fails once nothing is left, makes of the
\* text from there on, when after[i] is what it makes from i on.
Remaining(text, after, from) ==
  IF from > Len(text) THEN <<>>
  ELSE LET stop == Stop(text, from)
           v    == trim(SubSeq(text, from, stop - 1))
       IN  (IF v = <<>> THEN <<>> ELSE <<v>>)
             \o (IF stop > Len(text) THEN <<>> ELSE after[stop + 1])

OriginsIn(text) ==
  LET list[from \in 1 .. Len(text) + 1] == Remaining(text, list, from)
  IN  list[1]

-----------------------------------------------------------------------------
(* What that list is to hold, without a loop.                              *)

\* An origin of the text: from its first to its last letter, with nothing but
\* blanks to the commas or ends on both sides.
Letter(text, i) == text[i] \notin {Space, Comma}
Blanks(text, i, j) == \A m \in i .. j : text[m] = Space
Origin(text, i, j) ==
  /\ i <= j /\ Letter(text, i) /\ Letter(text, j)
  /\ \A m \in i .. j : text[m] # Comma
  /\ \E m \in 0 .. i - 1 :
       Blanks(text, m + 1, i - 1) /\ (m = 0 \/ text[m] = Comma)
  /\ \E m \in j + 1 .. Len(text) + 1 :
       Blanks(text, j + 1, m - 1) /\ (m = Len(text) + 1 \/ text[m] = Comma)
Spans(text) == {p \in (DOMAIN text) \X (DOMAIN text) : Origin(text, p[1], p[2])}

Holds(list, text) ==
  /\ Len(list) = Cardinality(Spans(text))
  /\ \A p \in Spans(text) :
       list[Cardinality({q \in Spans(text) : q[1] <= p[1]})] = SubSeq(text, p[1], p[2])
=============================================================================
