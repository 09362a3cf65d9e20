------------------------------ MODULE MCServer ------------------------------
(* Request ids: the HTML request has one of its own; the others came with the *)
(* same X-Request-ID, as from a client that retries.                          *)
EXTENDS Server
ClientIds == [r \in Requests |-> IF r \in Html THEN r ELSE CHOOSE q \in Requests \ Html : TRUE]
=============================================================================
