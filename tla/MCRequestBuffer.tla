---------------------------- MODULE MCRequestBuffer ----------------------------
(***************************************************************************)
(* RequestBuffer with commands and words of one to three letters, so that  *)
(* a request can be shorter than, as long as, and longer than what an      *)
(* earlier one left behind, with its spaces in other places.               *)
(***************************************************************************)
EXTENDS RequestBuffer

CONSTANTS s, r, g, a, p, x, y

MCLetter == {s, r, g, a, p, x, y}

Shell == <<s>>

(* One command of each kind: register takes no words, get (and delete) one *)
(* and add three (the third to find it is too many); push peeks.           *)
Register == <<r, r, r>>
Get == <<g>>
Add == <<a, a>>
Push == <<p, p>>
MCCuts == (Register :> 0) @@ (Get :> 1) @@ (Add :> 3) @@ (Push :> 1)
MCPeeks == {Push}

Short == <<x>>
Long  == <<y, x>>

(* A client may also be called with a pid alone, and with a word that is   *)
(* no command or only begins like one.                                     *)
Bodies ==
  {<<>>, <<Register>>, <<Get>>, <<Push>>, <<Register, Long>>, <<Get \o Short>>}
    \union {<<Long, Short>>}
    \union {<<c, w>> : c \in {Get, Push}, w \in {Short, Long}}
    \union {<<Add, Short>>, <<Add, Short, Long>>, <<Add, Long, Short>>}

MCRequests == {<<Shell>> \o b : b \in Bodies}
=============================================================================
