-------------------------- MODULE MCStatementCache --------------------------
(* Small instances of StatementCache. *)
EXTENDS StatementCache

CONSTANTS s1, s2, h1, h2, h3, h4
=============================================================================
