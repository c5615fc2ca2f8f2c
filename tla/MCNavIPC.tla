------------------------------ MODULE MCNavIPC ------------------------------
(***************************************************************************)
(* NavIPC with two clients of one shell that may overlap or follow each    *)
(* other, and others; a queue of one datagram, so that a send can block.   *)
(***************************************************************************)
EXTENDS NavIPC, TLC

CONSTANTS c1, c2, c3, p1, p2

ThreeClients == (c1 :> p1) @@ (c2 :> p1) @@ (c3 :> p2)
OneShell == (c1 :> p1) @@ (c2 :> p1) @@ (c3 :> p1)
=============================================================================
