----------------------- MODULE ConsumptionStoreProofs -----------------------
(***************************************************************************)
(* Theorems about ConsumptionStore for any number of processes, threads,   *)
(* capability ids and crashes: a claim is granted once, for ever, and the  *)
(* transactions implement an atomic claim.                                 *)
(***************************************************************************)
EXTENDS ConsumptionStore, TLAPS

-----------------------------------------------------------------------------
(* The inductive invariant *)

LEMMA InvInit == Init => StoreInv
<1> SUFFICES ASSUME Init PROVE StoreInv
  OBVIOUS
<1>1. \A t \in Threads : claim[t].pc = "free" /\ claim[t].id = NoId
  BY DEF Init, Outside
<1>2. claim \in [Threads -> [pc : Rest \cup Inside, id : Ids \cup {NoId}]]
  BY DEF Init, Outside, Rest
<1>3. Rows = {} /\ table \in [Rows -> Threads]
  BY DEF Init, Empty, Rows
<1>4. /\ created \in BOOLEAN /\ opened = {} /\ writer \in Threads \cup {NoThread}
      /\ granted \in [Ids -> Nat] /\ crashes \in 0 .. MaxCrashes
  <2>1. granted \in [Ids -> Nat] /\ crashes = 0 /\ created \in BOOLEAN
    BY DEF Init
  <2> QED BY <2>1, CrashesAreCounted DEF Init
<1>5. StoreTypeOK
  BY <1>1, <1>2, <1>3, <1>4 DEF StoreTypeOK
<1>6. TransactionsAreExclusive
  BY <1>1, NoThreadIsNone DEF Init, TransactionsAreExclusive, Holding
<1>7. GrantsFollowCommits /\ GrantedOnce
  BY <1>1 DEF Init, GrantsFollowCommits, GrantedOnce
<1> QED BY <1>5, <1>6, <1>7 DEF StoreInv

\* Of the calls of claim only t's moves.
LEMMA GoesMovesOne ==
  ASSUME StoreTypeOK, NEW t \in Threads, NEW pc \in Rest \cup Inside, NEW id \in Ids,
         Goes(t, pc, id)
  PROVE  /\ claim' \in [Threads -> [pc : Rest \cup Inside, id : Ids \cup {NoId}]]
         /\ claim'[t].pc = pc /\ claim'[t].id = id
         /\ \A u \in Threads : u # t => claim'[u] = claim[u]
  BY DEF StoreTypeOK, Goes

\* A thread inside claim has an id.
LEMMA CallsHaveIds ==
  ASSUME StoreTypeOK, NEW t \in Threads, claim[t].pc # "free"
  PROVE  claim[t].id \in Ids
  BY DEF StoreTypeOK

LEMMA OpenKeepsInv ==
  ASSUME StoreInv, NEW p \in Processes, Open(p)
  PROVE  StoreInv'
<1>1. Rows' = Rows /\ table' \in [Rows' -> Threads] /\ (created => table' = table)
  BY DEF StoreInv, StoreTypeOK, Open, Rows, Empty
<1>2. UNCHANGED <<writer, claim, granted, crashes>>
  BY DEF Open
<1>3. StoreTypeOK'
  BY <1>1 DEF StoreInv, StoreTypeOK, Open
<1> QED
  BY <1>1, <1>2, <1>3 DEF StoreInv, TransactionsAreExclusive, GrantsFollowCommits, GrantedOnce

LEMMA ConnectKeepsInv ==
  ASSUME StoreInv, NEW t \in Threads, NEW id \in Ids, Connect(t, id)
  PROVE  StoreInv'
<1>1. Goes(t, "connected", id) /\ "connected" \in Rest \cup Inside /\ StoreTypeOK
  BY DEF Connect, StoreInv, Inside
<1>2. /\ claim' \in [Threads -> [pc : Rest \cup Inside, id : Ids \cup {NoId}]]
      /\ claim'[t].pc = "connected" /\ claim'[t].id = id
      /\ \A u \in Threads : u # t => claim'[u] = claim[u]
  BY <1>1, GoesMovesOne
<1>3. StoreTypeOK'
  BY <1>2 DEF Connect, StoreInv, StoreTypeOK, Rows
<1> QED
  BY <1>2, <1>3
     DEF Connect, StoreInv, TransactionsAreExclusive, GrantsFollowCommits, GrantedOnce,
         Rows, Holding, Rest

LEMMA BeginKeepsInv ==
  ASSUME StoreInv, NEW t \in Threads, Begin(t)
  PROVE  StoreInv'
<1> DEFINE id == claim[t].id
<1>1. Goes(t, "begun", id) /\ StoreTypeOK /\ claim[t].pc = "connected"
  BY DEF Begin, StoreInv
<1>2. "begun" \in Rest \cup Inside /\ id \in Ids
  BY <1>1, CallsHaveIds DEF Rest, Inside
<1>3. /\ claim' \in [Threads -> [pc : Rest \cup Inside, id : Ids \cup {NoId}]]
      /\ claim'[t].pc = "begun" /\ claim'[t].id = id
      /\ \A u \in Threads : u # t => claim'[u] = claim[u]
  BY <1>1, <1>2, GoesMovesOne
<1>4. StoreTypeOK'
  BY <1>1, <1>2, <1>3 DEF Begin, StoreTypeOK, Rows
<1> QED
  BY <1>1, <1>3, <1>4, NoThreadIsNone
     DEF Begin, StoreInv, TransactionsAreExclusive, GrantsFollowCommits, GrantedOnce, Rows, Holding

LEMMA BeginTimesOutKeepsInv ==
  ASSUME StoreInv, NEW t \in Threads, BeginTimesOut(t)
  PROVE  StoreInv'
<1> DEFINE id == claim[t].id
<1>1. Goes(t, "raised", id) /\ StoreTypeOK /\ claim[t].pc = "connected"
  BY DEF BeginTimesOut, StoreInv
<1>2. "raised" \in Rest \cup Inside /\ id \in Ids
  BY <1>1, CallsHaveIds DEF Rest, Inside
<1>3. /\ claim' \in [Threads -> [pc : Rest \cup Inside, id : Ids \cup {NoId}]]
      /\ claim'[t].pc = "raised" /\ claim'[t].id = id
      /\ \A u \in Threads : u # t => claim'[u] = claim[u]
  BY <1>1, <1>2, GoesMovesOne
<1>4. StoreTypeOK'
  BY <1>1, <1>2, <1>3 DEF BeginTimesOut, StoreTypeOK, Rows
<1> QED
  BY <1>1, <1>3, <1>4, NoThreadIsNone
     DEF BeginTimesOut, StoreInv, TransactionsAreExclusive, GrantsFollowCommits, GrantedOnce, Rows, Holding

\* The lock of a failed transaction is left to the closing of its connection.
LEMMA StatementFailsKeepsInv ==
  ASSUME StoreInv, NEW t \in Threads, StatementFails(t)
  PROVE  StoreInv'
<1> DEFINE id == claim[t].id
<1>1. Goes(t, "raised", id) /\ StoreTypeOK /\ claim[t].pc \in {"begun", "inserted"}
  BY DEF StatementFails, StoreInv
<1>2. "raised" \in Rest \cup Inside /\ id \in Ids
  BY <1>1, CallsHaveIds DEF Rest, Inside
<1>3. /\ claim' \in [Threads -> [pc : Rest \cup Inside, id : Ids \cup {NoId}]]
      /\ claim'[t].pc = "raised" /\ claim'[t].id = id
      /\ \A u \in Threads : u # t => claim'[u] = claim[u]
  BY <1>1, <1>2, GoesMovesOne
<1>4. StoreTypeOK'
  BY <1>1, <1>2, <1>3 DEF StatementFails, StoreTypeOK, Rows
<1> QED
  BY <1>1, <1>3, <1>4, NoThreadIsNone
     DEF StatementFails, StoreInv, TransactionsAreExclusive, GrantsFollowCommits, GrantedOnce,
         Rows, Holding

LEMMA RollbackKeepsInv ==
  ASSUME StoreInv, NEW t \in Threads, Rollback(t)
  PROVE  StoreInv'
<1> DEFINE id == claim[t].id
<1>1. Goes(t, "refused", id) /\ StoreTypeOK /\ claim[t].pc = "conflict"
  BY DEF Rollback, StoreInv
<1>2. "refused" \in Rest \cup Inside /\ id \in Ids
  BY <1>1, CallsHaveIds DEF Rest, Inside
<1>3. /\ claim' \in [Threads -> [pc : Rest \cup Inside, id : Ids \cup {NoId}]]
      /\ claim'[t].pc = "refused" /\ claim'[t].id = id
      /\ \A u \in Threads : u # t => claim'[u] = claim[u]
  BY <1>1, <1>2, GoesMovesOne
<1>4. StoreTypeOK'
  BY <1>1, <1>2, <1>3 DEF Rollback, StoreTypeOK, Rows
<1> QED
  BY <1>1, <1>3, <1>4, NoThreadIsNone
     DEF Rollback, StoreInv, TransactionsAreExclusive, GrantsFollowCommits, GrantedOnce, Rows, Holding

LEMMA InsertKeepsInv ==
  ASSUME StoreInv, NEW t \in Threads, Insert(t)
  PROVE  StoreInv'
<1> DEFINE id == claim[t].id
           pc == IF id \in Rows THEN "conflict" ELSE "inserted"
<1>1. Goes(t, pc, id) /\ StoreTypeOK /\ claim[t].pc = "begun"
  BY DEF Insert, StoreInv
<1>2. pc \in Rest \cup Inside /\ id \in Ids
  BY <1>1, CallsHaveIds DEF Rest, Inside
<1>3. /\ claim' \in [Threads -> [pc : Rest \cup Inside, id : Ids \cup {NoId}]]
      /\ claim'[t].pc = pc /\ claim'[t].id = id
      /\ \A u \in Threads : u # t => claim'[u] = claim[u]
  BY <1>1, <1>2, GoesMovesOne
<1>4. StoreTypeOK'
  BY <1>1, <1>2, <1>3 DEF Insert, StoreTypeOK, Rows
<1> QED
  BY <1>1, <1>3, <1>4
     DEF Insert, StoreInv, TransactionsAreExclusive, GrantsFollowCommits, GrantedOnce, Rows, Holding

\* A commit adds one row, and only the holder of the lock commits.
LEMMA CommitKeepsInv ==
  ASSUME StoreInv, NEW t \in Threads, Commit(t)
  PROVE  StoreInv'
<1> DEFINE id == claim[t].id
<1>1. Goes(t, "committed", id) /\ StoreTypeOK /\ claim[t].pc = "inserted"
  BY DEF Commit, StoreInv
<1>2. "committed" \in Rest \cup Inside /\ id \in Ids
  BY <1>1, CallsHaveIds DEF Inside
<1>3. /\ claim' \in [Threads -> [pc : Rest \cup Inside, id : Ids \cup {NoId}]]
      /\ claim'[t].pc = "committed" /\ claim'[t].id = id
      /\ \A u \in Threads : u # t => claim'[u] = claim[u]
  BY <1>1, <1>2, GoesMovesOne
<1>4. Rows' = Rows \cup {id} /\ table' \in [Rows' -> Threads]
  BY <1>1 DEF Commit, StoreTypeOK, Rows
<1>5. created
  BY <1>1 DEF StoreTypeOK
<1>6. StoreTypeOK'
  BY <1>1, <1>2, <1>3, <1>4, <1>5 DEF Commit, StoreTypeOK
<1>7. writer = t /\ id \notin Rows /\ \A u \in Threads : u # t => claim[u].pc \notin Holding
  BY <1>1 DEF StoreInv, TransactionsAreExclusive, Holding
<1>8. TransactionsAreExclusive'
  BY <1>3, <1>4, <1>7, NoThreadIsNone DEF Commit, StoreInv, TransactionsAreExclusive, Holding
<1>9. granted[id] = 0 /\ granted' = granted
  BY <1>1, <1>2, <1>7 DEF Commit, StoreInv, GrantsFollowCommits, StoreTypeOK
<1>10. \A u \in Threads : claim[u].pc = "committed" => claim[u].id # id
  BY <1>7 DEF StoreInv, GrantsFollowCommits
<1>11. GrantsFollowCommits' /\ GrantedOnce'
  BY <1>3, <1>4, <1>9, <1>10 DEF StoreInv, GrantsFollowCommits, GrantedOnce
<1> QED BY <1>6, <1>8, <1>11 DEF StoreInv

\* A caller is told of its own commit, once.
LEMMA CloseKeepsInv ==
  ASSUME StoreInv, NEW t \in Threads, Close(t)
  PROVE  StoreInv'
<1> DEFINE id == claim[t].id
           pc == Outcome[claim[t].pc]
<1>1. Goes(t, pc, id) /\ StoreTypeOK /\ claim[t].pc \in {"committed", "refused", "raised"}
  BY DEF Close, Returns, StoreInv, Outcome
<1>2. /\ pc \in {"granted", "replayed", "failed"} /\ id \in Ids
  BY <1>1, CallsHaveIds DEF Outcome
<1>3. /\ claim' \in [Threads -> [pc : Rest \cup Inside, id : Ids \cup {NoId}]]
      /\ claim'[t].pc = pc /\ claim'[t].id = id
      /\ \A u \in Threads : u # t => claim'[u] = claim[u]
  <2>1. pc \in Rest \cup Inside
    BY <1>2 DEF Rest
  <2> HIDE DEF pc
  <2> QED BY <1>1, <1>2, <2>1, GoesMovesOne
<1>4. /\ UNCHANGED <<created, table, opened, crashes>>
      /\ writer' = IF writer = t THEN NoThread ELSE writer
      /\ granted' = IF claim[t].pc = "committed" THEN [granted EXCEPT ![id] = @ + 1] ELSE granted
  BY DEF Close, Returns
<1> HIDE DEF pc
<1>5. granted' \in [Ids -> Nat]
  BY <1>1, <1>2, <1>4 DEF StoreTypeOK
<1>6. StoreTypeOK'
  BY <1>1, <1>2, <1>3, <1>4, <1>5 DEF StoreTypeOK, Rows
<1>7. TransactionsAreExclusive'
  BY <1>1, <1>2, <1>3, <1>4, NoThreadIsNone DEF StoreInv, TransactionsAreExclusive, Rows, Holding
<1>8. CASE claim[t].pc # "committed"
  BY <1>2, <1>3, <1>4, <1>6, <1>7, <1>8 DEF StoreInv, GrantsFollowCommits, GrantedOnce, Rows
<1>9. CASE claim[t].pc = "committed"
  <2>1. id \in Rows /\ granted[id] = 0
    BY <1>9 DEF StoreInv, GrantsFollowCommits
  <2>2. granted'[id] = 1 /\ \A other \in Ids : other # id => granted'[other] = granted[other]
    BY <1>1, <1>2, <1>4, <1>9, <2>1 DEF StoreTypeOK
  <2>3. \A u \in Threads : u # t /\ claim[u].pc = "committed" => claim[u].id # id
    BY <1>9 DEF StoreInv, GrantsFollowCommits
  <2>4. \A u \in Threads : claim[u].pc = "committed" => claim[u].id \in Ids
    BY <1>1, CallsHaveIds
  <2>5. GrantsFollowCommits' /\ GrantedOnce'
    BY <1>2, <1>3, <1>4, <2>1, <2>2, <2>3, <2>4
       DEF StoreInv, GrantsFollowCommits, GrantedOnce, Rows
  <2> QED BY <1>6, <1>7, <2>5 DEF StoreInv
<1> QED BY <1>8, <1>9

\* A process that dies takes its calls and its lock with it, and no row.
LEMMA DieKeepsInv ==
  ASSUME StoreInv, NEW p \in Processes, Die(p)
  PROVE  StoreInv'
<1>1. \A t \in Threads : claim'[t] = IF ProcessOf[t] = p THEN Outside ELSE claim[t]
  BY DEF Die
<1>2. claim' \in [Threads -> [pc : Rest \cup Inside, id : Ids \cup {NoId}]]
  BY DEF Die, StoreInv, StoreTypeOK, Outside, Rest
<1>3. /\ UNCHANGED <<created, table, granted>> /\ crashes' \in 0 .. MaxCrashes
      /\ opened' = opened \ {p}
  BY CrashesAreCounted DEF Die, StoreInv, StoreTypeOK
<1>4. \A t \in Threads : claim'[t].pc # "free" => ProcessOf[t] # p /\ claim'[t] = claim[t]
  BY <1>1 DEF Outside
<1>5. writer' = IF writer # NoThread /\ ProcessOf[writer] = p THEN NoThread ELSE writer
  BY DEF Die
<1>6. StoreTypeOK'
  BY <1>2, <1>3, <1>4, <1>5 DEF StoreInv, StoreTypeOK, Rows
<1>7. \A t \in Threads :
        /\ claim'[t].pc \in Holding => writer' = t
        /\ writer' = t => claim'[t].pc \in Holding \cup {"raised"}
  BY <1>1, <1>5, NoThreadIsNone DEF StoreInv, StoreTypeOK, TransactionsAreExclusive, Outside, Holding
<1>8. TransactionsAreExclusive'
  BY <1>3, <1>4, <1>7 DEF StoreInv, TransactionsAreExclusive, Rows
<1>9. GrantsFollowCommits' /\ GrantedOnce'
  BY <1>3, <1>4 DEF StoreInv, GrantsFollowCommits, GrantedOnce, Rows
<1> QED BY <1>6, <1>8, <1>9 DEF StoreInv

LEMMA NextKeepsInv == StoreInv /\ [Next]_vars => StoreInv'
<1> SUFFICES ASSUME StoreInv, [Next]_vars PROVE StoreInv'
  OBVIOUS
<1>1. ASSUME NEW p \in Processes, Open(p) PROVE StoreInv'
  BY <1>1, OpenKeepsInv
<1>2. ASSUME NEW p \in Processes, Die(p) PROVE StoreInv'
  BY <1>2, DieKeepsInv
<1>3. ASSUME NEW t \in Threads, NEW id \in Ids, Connect(t, id) PROVE StoreInv'
  BY <1>3, ConnectKeepsInv
<1>4. ASSUME NEW t \in Threads, Step(t) PROVE StoreInv'
  BY <1>4, BeginKeepsInv, BeginTimesOutKeepsInv, InsertKeepsInv,
     StatementFailsKeepsInv, RollbackKeepsInv, CommitKeepsInv, CloseKeepsInv DEF Step
<1>5. CASE UNCHANGED vars
  BY <1>5 DEF vars, StoreInv, StoreTypeOK, TransactionsAreExclusive, GrantsFollowCommits,
              GrantedOnce, Rows
<1> QED BY <1>1, <1>2, <1>3, <1>4, <1>5 DEF Next

\* The whole invariant: the write lock and the rows are in order in every
\* reachable state of the database.
THEOREM StoreInvAlways == Spec => []StoreInv
<1>1. Init => StoreInv
  BY InvInit
<1>2. StoreInv /\ [Next]_vars => StoreInv'
  BY NextKeepsInv
<1> QED BY <1>1, <1>2, PTL DEF Spec

\* No id is granted to two calls of claim, in whatever processes they run and
\* whenever those die.
THEOREM GrantedOnceAlways == Spec => []GrantedOnce
<1>1. StoreInv => GrantedOnce
  BY DEF StoreInv
<1> QED BY <1>1, StoreInvAlways, PTL

\* A committed row is never removed or overwritten.
THEOREM RowsNeverLost == Spec => RowsAreKept
<1> DEFINE Kept == \A id \in Rows : id \in Rows' /\ table'[id] = table[id]
<1>1. ASSUME StoreInv, [Next]_vars PROVE Kept
  <2>1. ASSUME NEW p \in Processes, Open(p) PROVE Kept
    BY <1>1, <2>1 DEF Open, StoreInv, StoreTypeOK, Rows
  <2>2. ASSUME NEW t \in Threads, Commit(t) PROVE Kept
    <3>1. claim[t].id \notin Rows
      BY <1>1, <2>2 DEF Commit, StoreInv, TransactionsAreExclusive
    <3> QED BY <2>2, <3>1 DEF Commit, Rows
  <2>3. CASE UNCHANGED table
    BY <2>3 DEF Rows
  <2> QED
    BY <1>1, <2>1, <2>2, <2>3
       DEF Next, Step, Die, Connect, Begin, BeginTimesOut, Insert, StatementFails,
           Rollback, Close, Returns, vars
<1>2. StoreInv /\ [Next]_vars => [Kept]_vars
  BY <1>1
<1> QED BY <1>2, StoreInvAlways, PTL DEF Spec, RowsAreKept

-----------------------------------------------------------------------------
(* The transactions implement the atomic store *)

\* What the callers of a thread t see when its call is at pc with id.
Seen(pc, id) ==
  CASE pc \in {"connected", "begun", "inserted"} -> [state |-> "asking", id |-> id]
    [] pc \in {"committed", "granted"} -> [state |-> "granted", id |-> id]
    [] pc \in {"conflict", "refused", "replayed"} -> [state |-> "replayed", id |-> id]
    [] pc \in {"raised", "failed"} -> [state |-> "failed", id |-> id]
    [] OTHER -> [state |-> "free"]

\* A step of one call changes what is seen of that call only.
LEMMA GoesIsSeen ==
  ASSUME StoreTypeOK, NEW t \in Threads, NEW pc \in Rest \cup Inside, NEW id \in Ids,
         Goes(t, pc, id)
  PROVE  Told' = [Told EXCEPT ![t] = Seen(pc, id)]
<1>1. /\ claim'[t].pc = pc /\ claim'[t].id = id
      /\ \A u \in Threads : u # t => claim'[u] = claim[u]
  BY GoesMovesOne
<1>2. \A u \in Threads : Told[u] = Seen(claim[u].pc, claim[u].id)
  BY DEF Told, Seen
<1>3. \A u \in Threads : Told'[u] = Seen(claim'[u].pc, claim'[u].id)
  BY DEF Told, Seen
<1>4. /\ DOMAIN Told = Threads /\ DOMAIN Told' = Threads
      /\ Told = [u \in Threads |-> Told[u]] /\ Told' = [u \in Threads |-> Told'[u]]
  BY DEF Told
<1> HIDE DEF Seen, Told
<1>5. \A u \in Threads : Told'[u] = [Told EXCEPT ![t] = Seen(pc, id)][u]
  BY <1>1, <1>2, <1>3, <1>4
<1> QED BY <1>4, <1>5

\* Every step of a claim is a step of the atomic claim or is not seen.
LEMMA ClaimStepSimulates ==
  ASSUME StoreInv, NEW t \in Threads, Step(t)
  PROVE  [Abstract!StoreNext]_(Abstract!storeVars)
<1> DEFINE id == claim[t].id
<1>1. StoreTypeOK /\ TransactionsAreExclusive
  BY DEF StoreInv
<1>2. Told[t] = Seen(claim[t].pc, id)
  BY DEF Told, Seen
<1>3. /\ DOMAIN Told = Threads
      /\ \A v : Told[t] = v => Told = [Told EXCEPT ![t] = v]
  BY DEF Told
<1>4. claim[t].pc # "free" => id \in Ids
  BY <1>1, CallsHaveIds
<1>5. CASE Begin(t)
  <2>1. Told' = [Told EXCEPT ![t] = Seen("begun", id)]
    BY <1>1, <1>4, <1>5, GoesIsSeen DEF Begin, Inside
  <2>2. Told[t] = Seen("begun", id) /\ Rows' = Rows
    BY <1>2, <1>5 DEF Begin, Seen, Rows
  <2> QED BY <1>3, <2>1, <2>2 DEF Abstract!storeVars
<1>6. CASE BeginTimesOut(t) \/ StatementFails(t)
  <2>1. Told' = [Told EXCEPT ![t] = Seen("raised", id)]
    BY <1>1, <1>4, <1>6, GoesIsSeen DEF BeginTimesOut, StatementFails, Inside
  <2>2. Told[t] = [state |-> "asking", id |-> id] /\ Rows' = Rows
    BY <1>2, <1>6 DEF BeginTimesOut, StatementFails, Seen, Rows
  <2>3. Seen("raised", id) = [state |-> "failed", id |-> id]
    BY DEF Seen
  <2>4. Abstract!GiveUp(t)
    <3>1. Told[t].state = "asking" /\ Told[t].id = id
      BY <2>2
    <3> HIDE DEF id
    <3> QED BY <2>1, <2>2, <2>3, <3>1 DEF Abstract!GiveUp, Abstract!Told
  <2> QED BY <2>4 DEF Abstract!StoreNext
<1>7. CASE Insert(t) /\ id \in Rows
  <2>1. Told' = [Told EXCEPT ![t] = Seen("conflict", id)]
    BY <1>1, <1>4, <1>7, GoesIsSeen DEF Insert, Inside
  <2>2. Told[t] = [state |-> "asking", id |-> id] /\ Rows' = Rows
    BY <1>2, <1>7 DEF Insert, Seen, Rows
  <2>3. Seen("conflict", id) = [state |-> "replayed", id |-> id]
    BY DEF Seen
  <2>4. Abstract!RefuseReplay(t)
    <3>1. Told[t].state = "asking" /\ Told[t].id = id
      BY <2>2
    <3> HIDE DEF id
    <3> QED BY <1>7, <2>1, <2>2, <2>3, <3>1 DEF Abstract!RefuseReplay, Abstract!Told
  <2> QED BY <2>4 DEF Abstract!StoreNext
<1>8. CASE Insert(t) /\ id \notin Rows
  <2>1. Told' = [Told EXCEPT ![t] = Seen("inserted", id)]
    BY <1>1, <1>4, <1>8, GoesIsSeen DEF Insert, Inside
  <2>2. Told[t] = Seen("inserted", id) /\ Rows' = Rows
    BY <1>2, <1>8 DEF Insert, Seen, Rows
  <2> QED BY <1>3, <2>1, <2>2 DEF Abstract!storeVars
<1>9. CASE Rollback(t)
  <2>1. Told' = [Told EXCEPT ![t] = Seen("refused", id)]
    BY <1>1, <1>4, <1>9, GoesIsSeen DEF Rollback, Inside
  <2>2. Told[t] = Seen("refused", id) /\ Rows' = Rows
    BY <1>2, <1>9 DEF Rollback, Seen, Rows
  <2> QED BY <1>3, <2>1, <2>2 DEF Abstract!storeVars
<1>10. CASE Commit(t)
  <2>1. Told' = [Told EXCEPT ![t] = Seen("committed", id)]
    BY <1>1, <1>4, <1>10, GoesIsSeen DEF Commit, Inside
  <2>2. Told[t] = [state |-> "asking", id |-> id] /\ Rows' = Rows \cup {id}
    BY <1>2, <1>10 DEF Commit, Seen, Rows
  <2>3. Seen("committed", id) = [state |-> "granted", id |-> id] /\ id \notin Rows
    BY <1>1, <1>10 DEF Seen, Commit, TransactionsAreExclusive
  <2>4. Abstract!Grant(t)
    <3>1. Told[t].state = "asking" /\ Told[t].id = id
      BY <2>2
    <3> HIDE DEF id
    <3> QED BY <2>1, <2>2, <2>3, <3>1 DEF Abstract!Grant, Abstract!Told
  <2> QED BY <2>4 DEF Abstract!StoreNext
<1>11. CASE Close(t)
  <2>1. /\ Goes(t, Outcome[claim[t].pc], id) /\ Rows' = Rows
        /\ claim[t].pc \in {"committed", "refused", "raised"}
    BY <1>11 DEF Close, Returns, Outcome, Rows
  <2>2. /\ Outcome[claim[t].pc] \in Rest \cup Inside
        /\ Seen(Outcome[claim[t].pc], id) = Seen(claim[t].pc, id)
    BY <2>1 DEF Outcome, Rest, Seen
  <2>3. Told' = [Told EXCEPT ![t] = Seen(Outcome[claim[t].pc], id)]
    BY <1>1, <1>4, <2>1, <2>2, GoesIsSeen
  <2> QED BY <1>2, <1>3, <2>1, <2>2, <2>3 DEF Abstract!storeVars
<1> QED BY <1>5, <1>6, <1>7, <1>8, <1>9, <1>10, <1>11 DEF Step

\* Seen from its callers, the database is one atomic set of taken ids: claims
\* that wait, fail or are cut off add nothing a caller could tell.
THEOREM StoreRefines == Spec => ImplementsSingleUseStore
<1>1. Init => Abstract!StoreInit
  BY DEF Init, Abstract!StoreInit, Told, Rows, Empty, Outside, Abstract!Nothing
<1>2. ASSUME StoreInv, [Next]_vars PROVE [Abstract!StoreNext]_(Abstract!storeVars)
  <2>1. ASSUME NEW p \in Processes, Open(p) PROVE UNCHANGED <<Rows, Told>>
    BY <1>2, <2>1 DEF Open, StoreInv, StoreTypeOK, Rows, Told, Empty
  <2>2. ASSUME NEW p \in Processes, Die(p) PROVE Abstract!Die
    <3>1. Rows' = Rows
      BY <2>2 DEF Die, Rows
    <3> DEFINE dead == {t \in Threads : ProcessOf[t] = p}
    <3>2. \A t \in Threads : claim'[t] = IF t \in dead THEN Outside ELSE claim[t]
      BY <2>2 DEF Die
    <3>3. Told' = [t \in Threads |-> IF t \in dead THEN Abstract!Nothing ELSE Told[t]]
      BY <3>2 DEF Told, Outside, Abstract!Nothing
    <3> QED BY <3>1, <3>3 DEF Abstract!Die
  <2>3. ASSUME NEW t \in Threads, NEW id \in Ids, Connect(t, id) PROVE Abstract!Ask(t, id)
    <3>1. Told' = [Told EXCEPT ![t] = Seen("connected", id)]
      BY <1>2, <2>3, GoesIsSeen DEF Connect, StoreInv, Inside
    <3>2. Seen("connected", id) = [state |-> "asking", id |-> id]
      BY DEF Seen
    <3>3. Told[t].state # "asking"
      BY <2>3 DEF Connect, Rest, Told
    <3> QED BY <2>3, <3>1, <3>2, <3>3 DEF Connect, Rows, Abstract!Ask, Abstract!Told
  <2>4. ASSUME NEW t \in Threads, Step(t)
        PROVE  [Abstract!StoreNext]_(Abstract!storeVars)
    BY <1>2, <2>4, ClaimStepSimulates
  <2>5. CASE UNCHANGED vars
    BY <2>5 DEF vars, Told, Rows, Abstract!storeVars
  <2> QED
    BY <1>2, <2>1, <2>2, <2>3, <2>4, <2>5 DEF Next, Abstract!StoreNext, Abstract!storeVars
<1> QED
  BY <1>1, <1>2, StoreInvAlways, PTL
     DEF Spec, ImplementsSingleUseStore, Abstract!StoreSpec
=============================================================================
