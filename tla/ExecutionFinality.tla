-------------------------- MODULE ExecutionFinality -------------------------
(***************************************************************************)
(* What the finality protocol promises, without authorities, evidence,     *)
(* threads or clocks: an authorised act may be consumed once at a store,   *)
(* and what is consumed has one external effect, or fails, or neither.     *)
(* "No valid authority, no protected external effect."                     *)
(***************************************************************************)
EXTENDS Sequences

CONSTANT Stores  \* where authority is consumed

VARIABLES
  authorised,  \* identities of the capabilities issued
  consumed,    \* <<store, identity>> pairs that are used up
  effective,   \* the pairs whose effect has happened, in order
  failed       \* the pairs whose effect has failed

abstractVars == <<authorised, consumed, effective, failed>>

Happened == {effective[i] : i \in DOMAIN effective}

AbstractInit ==
  /\ authorised = {} /\ consumed = {} /\ failed = {}
  /\ effective = << >>

AuthoriseAct ==
  /\ \E id \in authorised' \ authorised : authorised' = authorised \cup {id}
  /\ UNCHANGED <<consumed, effective, failed>>

Consume ==
  /\ \E st \in Stores, id \in authorised :
       /\ <<st, id>> \notin consumed
       /\ consumed' = consumed \cup {<<st, id>>}
  /\ UNCHANGED <<authorised, effective, failed>>

TakeEffect ==
  /\ \E p \in consumed \ (Happened \cup failed) : effective' = Append(effective, p)
  /\ UNCHANGED <<authorised, consumed, failed>>

Fail ==
  /\ \E p \in consumed \ (Happened \cup failed) : failed' = failed \cup {p}
  /\ UNCHANGED <<authorised, consumed, effective>>

AbstractNext == AuthoriseAct \/ Consume \/ TakeEffect \/ Fail

AbstractSpec == AbstractInit /\ [][AbstractNext]_abstractVars
=============================================================================
