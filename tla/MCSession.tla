----------------------------- MODULE MCSession -----------------------------
(* Every script of the repository's root that talks to the server, with    *)
(* loops of two rounds and up to two requests that go wrong.               *)
EXTENDS Session
=============================================================================
