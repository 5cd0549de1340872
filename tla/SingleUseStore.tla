--------------------------- MODULE SingleUseStore ---------------------------
(***************************************************************************)
(* What a consumption store promises its callers, without databases: every *)
(* identity is granted to at most one call of claim, and stays taken.      *)
(* The claim of FinalityCore is this atomic step.                          *)
(***************************************************************************)
CONSTANTS Ids, Threads

VARIABLES
  taken,  \* identities that are used up
  told    \* thread -> what its call of claim has come to

storeVars == <<taken, told>>

Nothing == [state |-> "free"]

Told(t, state, id) == told' = [told EXCEPT ![t] = [state |-> state, id |-> id]]

StoreInit == taken = {} /\ told = [t \in Threads |-> Nothing]

Ask(t, id) ==
  /\ told[t].state # "asking"
  /\ Told(t, "asking", id)
  /\ UNCHANGED taken

Grant(t) ==
  /\ told[t].state = "asking"
  /\ told[t].id \notin taken
  /\ taken' = taken \cup {told[t].id}
  /\ Told(t, "granted", told[t].id)

RefuseReplay(t) ==
  /\ told[t].state = "asking"
  /\ told[t].id \in taken
  /\ Told(t, "replayed", told[t].id)
  /\ UNCHANGED taken

\* The claim fails without having happened.
GiveUp(t) ==
  /\ told[t].state = "asking"
  /\ Told(t, "failed", told[t].id)
  /\ UNCHANGED taken

\* A process dies with its calls; what they took stays taken.
Die ==
  /\ \E dead \in SUBSET Threads :
       told' = [t \in Threads |-> IF t \in dead THEN Nothing ELSE told[t]]
  /\ UNCHANGED taken

StoreNext ==
  \/ \E t \in Threads, id \in Ids : Ask(t, id)
  \/ \E t \in Threads : Grant(t) \/ RefuseReplay(t) \/ GiveUp(t)
  \/ Die

StoreSpec == StoreInit /\ [][StoreNext]_storeVars
=============================================================================
