-------------------------------- MODULE Tasks --------------------------------
(***************************************************************************)
(* Tasks: coroutines of Lua that a player in the lobby starts. The main    *)
(* thread creates, attaches and removes them; a room's thread runs them;   *)
(* their delays and queries of the database come back later; the last      *)
(* reference that Lua drops posts the removal to the main thread.          *)
(***************************************************************************)
EXTENDS Integers, Sequences, SequencesExt

CONSTANTS
    Users,   \* connIds of players
    Tasks,   \* tasks, each with an id of its own
    None     \* no task

ASSUME NoneIsNoTask == None \notin Tasks /\ None \notin [user : Users, ref : Int]

VARIABLES
    lobby,      \* players in the lobby
    task,       \* task_map: user and count of a task
    listed,     \* task_conn_id_map
    starting,   \* the task whose start() the main thread is in
    jobs,       \* signals waiting on the room's thread
    lua,        \* the coroutine of a task
    away,       \* tasks with a delay or a query under way
    posts       \* removals posted to the main thread

vars == <<lobby, task, listed, starting, jobs, lua, away, posts>>

\* The main thread and the room's thread may run another handler.
MainFree == starting = None
LuaFree == \A k \in Tasks : lua[k] \notin {"running", "ending"}

-----------------------------------------------------------------------------
Init ==
    /\ lobby = Users
    /\ task = [k \in Tasks |-> None]
    /\ listed = [u \in Users |-> {}]
    /\ starting = None
    /\ jobs = <<>>
    /\ lua = [k \in Tasks |-> "none"]
    /\ away = {}
    /\ posts = <<>>

-----------------------------------------------------------------------------
(* The main thread *)

\* handleTask: createTask, attachTaskToUser, and the signal of start().
HandleTask(u, k) ==
    /\ MainFree /\ u \in lobby
    /\ task[k] = None /\ lua[k] = "none"
    /\ \A j \in DOMAIN jobs : jobs[j][2] # k
    /\ task' = [task EXCEPT ![k] = [user |-> u, ref |-> 0]]
    /\ listed' = [listed EXCEPT ![u] = @ \cup {k}]
    /\ jobs' = Append(jobs, <<"newtask", k>>)
    /\ starting' = k
    /\ UNCHANGED <<lobby, lua, away, posts>>

\* The rest of start(): the count is raised when the task may be over already.
IncreaseRefCount ==
    /\ starting # None
    /\ task' = [task EXCEPT ![starting].ref = @ + 1]
    /\ starting' = None
    /\ UNCHANGED <<lobby, listed, jobs, lua, away, posts>>

\* A removeTask whose destructor does not abort the coroutine.
RemoveWithoutAbort(ks) ==
    /\ task' = [k \in Tasks |-> IF k \in ks THEN None ELSE task[k]]
    /\ listed' = [u \in Users |-> listed[u] \ ks]
    /\ UNCHANGED jobs

\* removeTask, of all tasks of ks that exist, and ~Task: the coroutine is aborted.
RemoveTasks(ks) ==
    LET gone == {k \in ks : task[k] # None}
    IN  /\ task' = [k \in Tasks |-> IF k \in gone THEN None ELSE task[k]]
        /\ listed' = [u \in Users |-> listed[u] \ gone]
        /\ \E order \in SetToSeqs(gone) :
            jobs' = jobs \o [i \in DOMAIN order |-> <<"abort", order[i]>>]

\* A removePlayer that leaves the tasks alone.
LeaveLobbyOnly(u) ==
    /\ MainFree /\ u \in lobby
    /\ lobby' = lobby \ {u}
    /\ UNCHANGED <<task, listed, starting, jobs, lua, away, posts>>

\* Lobby::removePlayer: the player enters a room or logs out.
LeaveLobby(u) ==
    /\ MainFree /\ u \in lobby
    /\ lobby' = lobby \ {u}
    /\ RemoveTasks(listed[u])
    /\ UNCHANGED <<starting, lua, away, posts>>

EnterLobby(u) ==
    /\ MainFree /\ u \notin lobby
    /\ lobby' = lobby \cup {u}
    /\ UNCHANGED <<task, listed, starting, jobs, lua, away, posts>>

\* A posted removal runs; the task may be gone.
RunPost ==
    /\ MainFree /\ posts # <<>>
    /\ RemoveTasks({Head(posts)})
    /\ posts' = Tail(posts)
    /\ UNCHANGED <<lobby, starting, lua, away>>

\* The answer of a query arrives at the main thread, which wakes the task up if
\* it still exists.
QueryDone(k) ==
    /\ MainFree /\ k \in away
    /\ away' = away \ {k}
    /\ jobs' = IF task[k] = None THEN jobs ELSE Append(jobs, <<"resume", k>>)
    /\ UNCHANGED <<lobby, task, listed, starting, lua, posts>>

-----------------------------------------------------------------------------
(* The room's thread *)

\* What Lua does with a signal for task k: a new task looks its data up
\* (Server_getTask), and one that is gone is not begun; a yielded coroutine is
\* resumed or closed; any other signal finds no coroutine.
After(kind, k) ==
    CASE kind = "newtask" -> IF task[k] = None THEN "closed" ELSE "running"
      [] kind = "resume"  -> IF lua[k] = "yielded" THEN "running" ELSE lua[k]
      [] kind = "abort"   -> IF lua[k] = "yielded" THEN "closed" ELSE lua[k]

RunJob ==
    /\ LuaFree /\ jobs # <<>>
    /\ lua' = [lua EXCEPT ![Head(jobs)[2]] = After(Head(jobs)[1], Head(jobs)[2])]
    /\ jobs' = Tail(jobs)
    /\ UNCHANGED <<lobby, task, listed, starting, away, posts>>

\* The task begins a delay or a query and yields. Both are refused for a task
\* that is gone (Lua then goes on, as if it had not asked).
Yield(k) ==
    /\ lua[k] = "running" /\ task[k] # None
    /\ lua' = [lua EXCEPT ![k] = "yielded"]
    /\ away' = away \cup {k}
    /\ UNCHANGED <<lobby, task, listed, starting, jobs, posts>>

\* The timer of a delay resumes the task on the room's thread, whether or not it
\* still exists.
DelayDone(k) ==
    /\ LuaFree /\ k \in away
    /\ away' = away \ {k}
    /\ lua' = [lua EXCEPT ![k] = After("resume", k)]
    /\ UNCHANGED <<lobby, task, listed, starting, jobs, posts>>

\* The coroutine is over and drops its reference.
DecreaseRefCount(k) ==
    /\ lua[k] = "running"
    /\ IF task[k] = None
       THEN lua' = [lua EXCEPT ![k] = "closed"] /\ UNCHANGED task
       ELSE /\ lua' = [lua EXCEPT ![k] = "ending"]
            /\ task' = [task EXCEPT ![k].ref = @ - 1]
    /\ UNCHANGED <<lobby, listed, starting, jobs, away, posts>>

\* decreaseRefCount looks at the count again, without the lock. If the main
\* thread has removed the task in between, it looks at freed memory.
CheckRefCount(k) ==
    /\ lua[k] = "ending"
    /\ lua' = [lua EXCEPT ![k] = "closed"]
    /\ \/ /\ task[k] # None => task[k].ref = 0
          /\ posts' = Append(posts, k)
       \/ /\ task[k] # None => task[k].ref # 0
          /\ UNCHANGED posts
    /\ UNCHANGED <<lobby, task, listed, starting, jobs, away>>

-----------------------------------------------------------------------------
Next ==
    \/ \E u \in Users :
        \/ \E k \in Tasks : HandleTask(u, k)
        \/ LeaveLobby(u)
        \/ EnterLobby(u)
    \/ IncreaseRefCount
    \/ RunPost
    \/ RunJob
    \/ \E k \in Tasks :
        \/ QueryDone(k)
        \/ DelayDone(k)
        \/ Yield(k)
        \/ DecreaseRefCount(k)
        \/ CheckRefCount(k)

Spec == Init /\ [][Next]_vars

-----------------------------------------------------------------------------
(* Properties *)

\* The list of a user names exactly the user's tasks, and only players in the
\* lobby have any: a task never outlives its user's stay there, whether it
\* ends by itself, is ending at that moment, or waits for a query.
TasksOfTheLobby ==
    \A u \in Users :
        /\ listed[u] = {k \in Tasks : task[k] # None /\ task[k].user = u}
        /\ u \notin lobby => listed[u] = {}

\* A coroutine whose task was removed and that waits is about to be closed: an
\* abort is on its way, whatever other signals come first, so none waits for ever.
NoStrayCoroutine ==
    \A k \in Tasks :
        task[k] = None /\ lua[k] = "yielded" => \E j \in DOMAIN jobs : jobs[j] = <<"abort", k>>

=============================================================================
