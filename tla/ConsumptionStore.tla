-------------------------- MODULE ConsumptionStore --------------------------
(***************************************************************************)
(* SQLiteConsumptionStore (state.py): the durable table of consumed        *)
(* capabilities, shared by the threads of several processes. A claim opens *)
(* a connection of its own, begins an immediate transaction (which waits   *)
(* for the database's one write lock), inserts, commits or rolls back, and *)
(* closes. Any of these statements may fail, and a process may die at any  *)
(* point: SQLite then discards what was not committed and frees the lock,  *)
(* at the latest when the connection is closed.                            *)
(***************************************************************************)
EXTENDS Naturals

CONSTANTS
  Ids,         \* capability ids
  Processes,   \* operating-system processes that share the file
  Threads,     \* their threads
  ProcessOf,   \* [Threads -> Processes]
  MaxCrashes,  \* bound on the number of processes that die
  NoThread,    \* nobody holds the write lock
  NoId         \* the locals of a thread outside claim

ASSUME ThreadsHaveProcesses == ProcessOf \in [Threads -> Processes]

ASSUME NoThreadIsNone == NoThread \notin Threads

ASSUME CrashesAreCounted == MaxCrashes \in Nat

VARIABLES
  created,  \* whether the database file has the table
  table,    \* its committed rows: capability id -> the thread that claimed it
  writer,   \* the thread whose connection holds the write lock
  opened,   \* processes that have constructed the store
  claim,    \* thread -> its call of claim
  granted,  \* history: how many calls were told that they claimed the id
  crashes   \* number of processes that died so far

vars == <<created, table, writer, opened, claim, granted, crashes>>

Outside == [pc |-> "free", id |-> NoId]

Empty == [id \in {} |-> NoThread]

Rows == DOMAIN table

Init ==
  /\ created = FALSE
  /\ table = Empty
  /\ writer = NoThread
  /\ opened = {}
  /\ claim = [t \in Threads |-> Outside]
  /\ granted = [id \in Ids |-> 0]
  /\ crashes = 0

-----------------------------------------------------------------------------

\* A CREATE TABLE that replaces the table that is there.
OpenAfresh(p) ==
  /\ p \notin opened
  /\ opened' = opened \cup {p}
  /\ created' = TRUE
  /\ table' = Empty
  /\ UNCHANGED <<writer, claim, granted, crashes>>

\* __init__: CREATE TABLE IF NOT EXISTS.
Open(p) ==
  /\ p \notin opened
  /\ opened' = opened \cup {p}
  /\ created' = TRUE
  /\ table' = IF created THEN table ELSE Empty
  /\ UNCHANGED <<writer, claim, granted, crashes>>

Goes(t, pc, id) == claim' = [claim EXCEPT ![t] = [pc |-> pc, id |-> id]]

\* Where a thread is outside claim.
Rest == {"free", "granted", "replayed", "failed"}

\* A new call of claim connects.
Connect(t, id) ==
  /\ ProcessOf[t] \in opened
  /\ claim[t].pc \in Rest
  /\ Goes(t, "connected", id)
  /\ UNCHANGED <<created, table, writer, opened, granted, crashes>>

\* BEGIN IMMEDIATE gets the write lock.
Begin(t) ==
  /\ claim[t].pc = "connected"
  /\ writer = NoThread
  /\ writer' = t
  /\ Goes(t, "begun", claim[t].id)
  /\ UNCHANGED <<created, table, opened, granted, crashes>>

\* The lock stayed taken for the whole time-out: the error leaves through the
\* finally clause, which closes the connection.
BeginTimesOut(t) ==
  /\ claim[t].pc = "connected"
  /\ writer # NoThread
  /\ Goes(t, "raised", claim[t].id)
  /\ UNCHANGED <<created, table, writer, opened, granted, crashes>>

\* An INSERT that lets an existing row be.
InsertOrIgnore(t) ==
  /\ claim[t].pc = "begun"
  /\ Goes(t, "inserted", claim[t].id)
  /\ UNCHANGED <<created, table, writer, opened, granted, crashes>>

\* The UNIQUE key decides between the transaction's pending row and an
\* IntegrityError.
Insert(t) ==
  /\ claim[t].pc = "begun"
  /\ Goes(t, IF claim[t].id \in Rows THEN "conflict" ELSE "inserted", claim[t].id)
  /\ UNCHANGED <<created, table, writer, opened, granted, crashes>>

\* INSERT or COMMIT fails with anything but an IntegrityError (the disk is full,
\* the file cannot be written): no handler ends the transaction, and the error
\* leaves through the finally clause with the row not committed.
StatementFails(t) ==
  /\ claim[t].pc \in {"begun", "inserted"}
  /\ Goes(t, "raised", claim[t].id)
  /\ UNCHANGED <<created, table, writer, opened, granted, crashes>>

Rollback(t) ==
  /\ claim[t].pc = "conflict"
  /\ writer' = NoThread
  /\ Goes(t, "refused", claim[t].id)
  /\ UNCHANGED <<created, table, opened, granted, crashes>>

\* COMMIT writes the pending row and gives up the lock in one step.
Commit(t) ==
  /\ claim[t].pc = "inserted"
  /\ table' = [id \in DOMAIN table \cup {claim[t].id} |->
                 IF id = claim[t].id THEN t ELSE table[id]]
  /\ writer' = NoThread
  /\ Goes(t, "committed", claim[t].id)
  /\ UNCHANGED <<created, opened, granted, crashes>>

\* What the caller of claim sees when the connection is closed: a return,
\* ReplayDetected, or the operational error of a statement.
Outcome == [committed |-> "granted", refused |-> "replayed", raised |-> "failed"]

Returns(t) ==
  /\ claim[t].pc \in DOMAIN Outcome
  /\ Goes(t, Outcome[claim[t].pc], claim[t].id)
  /\ granted' = IF claim[t].pc = "committed"
                THEN [granted EXCEPT ![claim[t].id] = @ + 1] ELSE granted
  /\ UNCHANGED <<created, table, opened, crashes>>

\* A connection that is kept for later claims instead of being closed.
KeepConnection(t) == Returns(t) /\ UNCHANGED writer

\* conn.close() in the finally clause rolls back what is still open.
Close(t) ==
  /\ Returns(t)
  /\ writer' = IF writer = t THEN NoThread ELSE writer

\* A process dies; its uncommitted row and its lock go with it.
Die(p) ==
  /\ crashes < MaxCrashes
  /\ p \in opened
  /\ crashes' = crashes + 1
  /\ opened' = opened \ {p}
  /\ claim' = [t \in Threads |-> IF ProcessOf[t] = p THEN Outside ELSE claim[t]]
  /\ writer' = IF writer # NoThread /\ ProcessOf[writer] = p THEN NoThread ELSE writer
  /\ UNCHANGED <<created, table, granted>>

-----------------------------------------------------------------------------

Step(t) ==
  \/ Begin(t) \/ BeginTimesOut(t) \/ Insert(t) \/ StatementFails(t)
  \/ Rollback(t) \/ Commit(t) \/ Close(t)

Next ==
  \/ \E p \in Processes : Open(p) \/ Die(p)
  \/ \E t \in Threads, id \in Ids : Connect(t, id)
  \/ \E t \in Threads : Step(t)

Spec == Init /\ [][Next]_vars

\* A thread inside claim keeps running while its process lives.
FairSpec == Spec /\ \A t \in Threads : WF_vars(Step(t))

-----------------------------------------------------------------------------

Inside == {"connected", "raised", "begun", "inserted", "conflict", "refused", "committed"}

\* The states the store and its calls can be in: a call runs only in a process
\* that has constructed the store, so it always finds the table.
StoreTypeOK ==
  /\ created \in BOOLEAN /\ (opened # {} => created) /\ (~created => Rows = {})
  /\ Rows \subseteq Ids /\ table \in [Rows -> Threads]
  /\ writer \in Threads \cup {NoThread}
  /\ opened \subseteq Processes
  /\ claim \in [Threads -> [pc : Rest \cup Inside, id : Ids \cup {NoId}]]
  /\ \A t \in Threads :
       claim[t].pc # "free" => claim[t].id \in Ids /\ ProcessOf[t] \in opened
  /\ granted \in [Ids -> Nat]
  /\ crashes \in 0 .. MaxCrashes

\* Where a call of claim holds the database's write lock.
Holding == {"begun", "inserted", "conflict"}

\* The write lock belongs to exactly the call that is between BEGIN and the end
\* of its transaction, or that has failed in between; an inserted row is in the
\* table only once committed; a conflict is with a committed row.
TransactionsAreExclusive ==
  /\ \A t \in Threads :
       /\ claim[t].pc \in Holding => writer = t
       /\ writer = t => claim[t].pc \in Holding \cup {"raised"}
  /\ \A t \in Threads : claim[t].pc = "inserted" => claim[t].id \notin Rows
  /\ \A t \in Threads : claim[t].pc \in {"conflict", "refused"} => claim[t].id \in Rows

\* At most one call ever is told that it claimed an id: at most one sink goes on
\* to the effect.
GrantedOnce ==
  \A id \in Ids : granted[id] <= 1

\* Why that holds: a grant is of a committed row, and the one call that
\* committed it is told once.
GrantsFollowCommits ==
  /\ \A id \in Ids : granted[id] > 0 => id \in Rows
  /\ \A t \in Threads :
       claim[t].pc = "committed" => claim[t].id \in Rows /\ granted[claim[t].id] = 0
  /\ \A t, u \in Threads :
       /\ claim[t].pc = "committed" /\ claim[u].pc = "committed"
       /\ claim[t].id = claim[u].id
       => t = u

\* However the threads of all processes interleave, wait, fail and die, the write
\* lock, pending rows and committed rows agree, and at most one call is told that
\* it claimed an id. The invariant is inductive.
StoreInv == StoreTypeOK /\ TransactionsAreExclusive /\ GrantsFollowCommits /\ GrantedOnce

\* A claim is for ever: no restart, rollback or later claim removes a row or
\* gives it to another claimant.
RowsAreKept ==
  [][\A id \in Rows : id \in Rows' /\ table'[id] = table[id]]_vars

\* The write lock is always given up, by whichever way a claim ends: a statement
\* that fails with anything but a replay leaves its transaction to the closing of
\* the connection, and a lock that stayed taken would let every later claim at
\* every sink time out.
LockIsReleased == \A t \in Threads : writer = t ~> writer # t

\* The store as its callers see it: a grant happens at COMMIT, a refusal at the
\* failed INSERT, and a claim cut off in between has happened or has not.
Told ==
  [t \in Threads |->
     CASE claim[t].pc \in {"connected", "begun", "inserted"} ->
            [state |-> "asking", id |-> claim[t].id]
       [] claim[t].pc \in {"committed", "granted"} ->
            [state |-> "granted", id |-> claim[t].id]
       [] claim[t].pc \in {"conflict", "refused", "replayed"} ->
            [state |-> "replayed", id |-> claim[t].id]
       [] claim[t].pc \in {"raised", "failed"} ->
            [state |-> "failed", id |-> claim[t].id]
       [] OTHER -> [state |-> "free"]]

Abstract == INSTANCE SingleUseStore WITH taken <- Rows, told <- Told

\* The transactions implement the atomic claim FinalityCore builds on.
ImplementsSingleUseStore == Abstract!StoreSpec
=============================================================================
