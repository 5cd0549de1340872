-------------------------- MODULE MCProtectedState --------------------------
(***************************************************************************)
(* Six candidates of two sources: c5 and c6 share their nonce with c1, c6  *)
(* also its source, and c3 is c1 with its nonce spelled differently.       *)
(***************************************************************************)
EXTENDS ProtectedState, MCActs

MCAct ==
  [ c1 |-> BaseAct,
    c2 |-> [BaseAct EXCEPT !.nonce = "nonce-2"],
    c3 |-> [BaseAct EXCEPT !.nonce = "nonce-1~"],
    c4 |-> [BaseAct EXCEPT !.nonce = "nonce-4", !.source = "agent-B"],
    c5 |-> [BaseAct EXCEPT !.nonce = "nonce-1", !.source = "agent-B"],
    c6 |-> [BaseAct EXCEPT !.payload = "amount-9000"] ]
=============================================================================
