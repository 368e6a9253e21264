--------------------------- MODULE MCWorkBuilder ---------------------------
(***************************************************************************)
(* An instance of WorkBuilder for TLC.                                     *)
(***************************************************************************)
EXTENDS WorkBuilder

CONSTANTS deployment, service, secret

M(k, n) == [key |-> k, size |-> n]

\* With a limit of three: two small manifests share a work, one of them grows
\* where it is and a third comes with it, one as large as the limit does not
\* even fit alone.
Needs == {{M(deployment, 1), M(service, 1)}, {M(deployment, 1), M(service, 2), M(secret, 1)},
          {M(service, 3), M(secret, 1)}}
=============================================================================
