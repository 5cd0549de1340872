------------------------- MODULE MCPortableVerifier -------------------------
(***************************************************************************)
(* An act, another one with its own payload and nonce, and the first one   *)
(* with its nonce, its payload and destination, or its sink spelled        *)
(* differently; two sinks, one of them under two spellings.                *)
(***************************************************************************)
EXTENDS PortableVerifier, MCActs

TheActs ==
  [ c1 |-> BaseAct,
    c2 |-> [BaseAct EXCEPT !.payload = "amount-9000", !.nonce = "nonce-2"],
    c3 |-> [BaseAct EXCEPT !.nonce = "nonce-1~"],
    c4 |-> [BaseAct EXCEPT !.destination = "payments~", !.payload = "amount-1000~"],
    c5 |-> [BaseAct EXCEPT !.sink_id = "sink-A~"] ]

CasesActs == TheActs

TheContexts ==
  {SinkA, [SinkA EXCEPT !.sink_id = "sink-A~"], [SinkA EXCEPT !.sink_id = "sink-B"]}

MCContexts == TheContexts
=============================================================================
