------------------------------ MODULE TaskStore ------------------------------
(***************************************************************************)
(* The task dictionary and its table (src/server/task_db.py): the records  *)
(* in memory that every reader sees, and the rows of tasks.db that a new   *)
(* process starts from.                                                    *)
(*                                                                         *)
(* A write puts the record into memory under one lock and the row into the *)
(* table under another, with neither held in between.  The event loop, the *)
(* builders' worker threads and the detector all write; whatever the loop  *)
(* runs is one thread, and only it creates and deletes tasks.  A           *)
(* TrackedDict is a copy: it goes on being written after the record it was *)
(* taken from has changed or is gone.                                      *)
(*                                                                         *)
(* What a record says is a number, the write that made it; 0 where there   *)
(* is no record.  The agent answers a request with a message, so the A2A   *)
(* library has no task to save in the same rows and SQLiteTaskStore stays  *)
(* unused.                                                                 *)
(***************************************************************************)
EXTENDS Integers

CONSTANTS
    Tasks,
    Threads,
    EventLoop,    \* the thread of the event loop
    MaxChanges,   \* bound on the writes
    MaxStarts     \* bound on the restarts

ASSUME StoreAssumption ==
    EventLoop \in Threads /\ MaxChanges \in Nat /\ MaxStarts \in Nat

VARIABLES
    memory,       \* PersistentTaskDict._cache
    row,          \* the table tasks
    copies,       \* the TrackedDict each thread works on
    writing,      \* the row each thread has still to write, the lock released
    changes,      \* writes so far
    starts,       \* restarts so far
    clash         \* history: tasks with writes that overlapped, see WriteMemory

storeVars == <<memory, row, copies, writing, changes, starts, clash>>

Data == 0 .. MaxChanges
Held == [task : Tasks, data : Data]
Nothing == [data |-> 0]   \* nothing fetched, nothing to write

StoreTypeOK ==
    /\ memory \in [Tasks -> Data]
    /\ row \in [Tasks -> Data]
    /\ copies \in [Threads -> Held \cup {Nothing}]
    /\ writing \in [Threads -> Held \cup {Nothing}]
    /\ changes \in Data /\ starts \in 0 .. MaxStarts
    /\ clash \subseteq Tasks

StoreInit ==
    /\ memory = [t \in Tasks |-> 0]
    /\ row = [t \in Tasks |-> 0]
    /\ copies = [w \in Threads |-> Nothing]
    /\ writing = [w \in Threads |-> Nothing]
    /\ changes = 0 /\ starts = 0
    /\ clash = {}

-----------------------------------------------------------------------------
(* A variant with a plausible bug, used to test the properties.            *)

\* Out of memory only.
DeleteCached(t) ==
    /\ writing[EventLoop] = Nothing /\ memory[t] # 0
    /\ memory' = [memory EXCEPT ![t] = 0]
    /\ UNCHANGED <<row, copies, writing, changes, starts, clash>>

-----------------------------------------------------------------------------
(* Writes.                                                                 *)

Writers(t) == {w \in Threads : writing[w] # Nothing /\ writing[w].task = t}

\* The first half of a write of t by w: memory, under _lock.
WriteMemory(w, t, data) ==
    /\ writing[w] = Nothing
    /\ memory' = [memory EXCEPT ![t] = data]
    /\ writing' = [writing EXCEPT ![w] = [task |-> t, data |-> data]]
    /\ clash' = IF Writers(t) = {} THEN clash \ {t} ELSE clash \cup {t}

\* The second half: the row, under _write_lock.
WriteRow(w) ==
    /\ writing[w] # Nothing
    /\ row' = [row EXCEPT ![writing[w].task] = writing[w].data]
    /\ writing' = [writing EXCEPT ![w] = Nothing]
    /\ UNCHANGED <<memory, copies, changes, starts, clash>>

\* execute and ideas_create put a whole record; a second message for a task
\* replaces the record of the first.
Create(t) ==
    /\ changes < MaxChanges
    /\ changes' = changes + 1
    /\ WriteMemory(EventLoop, t, changes')
    /\ UNCHANGED <<row, copies, starts>>

\* d = task_meta[t], task_meta.get(t)
Fetch(w, t) ==
    /\ writing[w] = Nothing
    /\ memory[t] # 0
    /\ copies' = [copies EXCEPT ![w] = [task |-> t, data |-> memory[t]]]
    /\ UNCHANGED <<memory, row, writing, changes, starts, clash>>

\* d[field] = ..., d.pop(field), task_meta[t] = dict(d)
Change(w) ==
    /\ copies[w] # Nothing /\ changes < MaxChanges
    /\ changes' = changes + 1
    /\ copies' = [copies EXCEPT ![w].data = changes']
    /\ WriteMemory(w, copies[w].task, changes')
    /\ UNCHANGED <<row, starts>>

\* task_delete
Delete(t) ==
    /\ memory[t] # 0
    /\ WriteMemory(EventLoop, t, 0)
    /\ UNCHANGED <<row, copies, changes, starts>>

\* The process ends, at any moment, and the next one loads the rows.
Reload ==
    /\ starts < MaxStarts
    /\ starts' = starts + 1
    /\ memory' = row
    /\ copies' = [w \in Threads |-> Nothing]
    /\ writing' = [w \in Threads |-> Nothing]
    /\ clash' = {}
    /\ UNCHANGED <<row, changes>>

StoreNext ==
    \/ \E t \in Tasks : Create(t) \/ Delete(t)
    \/ \E w \in Threads : Change(w) \/ WriteRow(w) \/ (\E t \in Tasks : Fetch(w, t))
    \/ Reload

StoreSpec == StoreInit /\ [][StoreNext]_storeVars

-----------------------------------------------------------------------------
(* Properties.                                                             *)

Quiet(t) == Writers(t) = {}

\* With no write of a task under way its row says what memory says, so that a
\* new process finds the task as it was left, or finds it deleted; unless two
\* threads wrote it at once and nobody has written it alone since (the two
\* locks of task_db.py:229-237 and 267-273).
RowsCurrent == \A t \in Tasks : Quiet(t) /\ t \notin clash => row[t] = memory[t]

\* "All writes persist to SQLite immediately (durable)" (task_db.py:214): with
\* no write of a task under way its row says what memory says, whoever wrote.
WritesPersist == \A t \in Tasks : Quiet(t) => row[t] = memory[t]
=============================================================================
