------------------------------- MODULE MCHttp -------------------------------
(* A small instance of Http. *)
EXTENDS Http

CONSTANTS c1, c2, k1, site, other, host

\* Only the third origin is what the host begins with.
MCStartsWith == {<<host, other>>}
=============================================================================
