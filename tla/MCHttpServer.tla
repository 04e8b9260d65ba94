---------------------------- MODULE MCHttpServer ----------------------------
(***************************************************************************)
(* HttpServer with a base worker and up to two dynamic ones.               *)
(***************************************************************************)
EXTENDS HttpServer, TLC

CONSTANTS c1, c2, c3, b1, d1, d2

=============================================================================
