---------------------------- MODULE RoomThreads -----------------------------
(***************************************************************************)
(* The threads that run the games: which thread a room or a lobby task     *)
(* uses, the reference count that keeps a thread, how threads and rooms    *)
(* become outdated when the packages on disk change, and what happens when *)
(* the Lua process of a thread dies.                                       *)
(***************************************************************************)
EXTENDS Integers, Sequences, FiniteSets

CONSTANTS
    Threads,              \* thread ids (bound: threads at a time)
    Rooms,                \* room ids (bound: rooms at a time)
    Tasks,                \* task ids (bound: tasks at a time)
    Md5s,                 \* md5 sums the packages may have
    Outdated,             \* the empty md5: outdated for good
    RoomCountPerThread,   \* configured capacity of a thread
    None

ASSUME NoneIsNoId == None \notin Threads

ASSUME OutdatedIsNoMd5 == Outdated \notin Md5s /\ None \notin Md5s

ASSUME CapacityPositive == RoomCountPerThread \in Nat \ {0}

VARIABLES
    md5,      \* Server::md5
    thread,   \* Server::m_threads
    rooms,    \* RoomThread::m_rooms of each thread, oldest first
    room,     \* RoomManager::rooms: the room's thread and md5
    task,     \* TaskManager::task_map: the task's thread
    posts     \* removeThread calls posted to the main io_context, oldest first

vars == <<md5, thread, rooms, room, task, posts>>

\* lua: its process lives, is dead, or is dead and the thread has noticed.
Thread == [md5 : Md5s \cup {Outdated}, ref : Int, lua : {"alive", "dead", "down"}]

Room == [thread : Threads, md5 : Md5s \cup {Outdated}]

ASSUME NoneIsNoThread == None \notin Thread /\ None \notin Room

Now == [thread |-> thread, rooms |-> rooms, room |-> room, task |-> task, posts |-> posts]

Becomes(w) ==
    /\ thread' = w.thread
    /\ rooms' = w.rooms
    /\ room' = w.room
    /\ task' = w.task
    /\ posts' = w.posts

RoomsOn(w, t) == {r \in Rooms : w.room[r] # None /\ w.room[r].thread = t}

TasksOn(w, t) == {k \in Tasks : w.task[k] = t}

-----------------------------------------------------------------------------
(* Outdated threads and rooms *)

\* An isOutdated that does not remember its answer.
AgedForgets(own, server) == own

\* isOutdated of a thread or a room: an md5 that differs from the server's once
\* is emptied, so that it differs for good, even if the packages change back.
Aged(own, server) == IF own = server THEN own ELSE Outdated

Idle(w, t) == w.thread[t] # None /\ w.thread[t].ref = 0

RemoveThreads(w, ts) ==
    [w EXCEPT !.thread = [t \in Threads |-> IF t \in ts THEN None ELSE @[t]],
              !.rooms = [t \in Threads |-> IF t \in ts THEN <<>> ELSE @[t]]]

-----------------------------------------------------------------------------
(* References to a thread *)

\* A decreaseRefCount that leaves the thread to the next refresh.
DecreaseRefCountOnly(w, t, n) == [w EXCEPT !.thread[t].ref = @ - n]

\* n references to thread t go; the last one of an outdated thread posts its
\* removal.
DecreaseRefCount(w, t, n) ==
    LET x == [w EXCEPT !.thread[t].ref = @ - n]
    IN  IF n > 0 /\ x.thread[t].ref <= 0 /\ x.thread[t].md5 # md5
        THEN [x EXCEPT !.posts = Append(@, t), !.thread[t].md5 = Aged(@, md5)]
        ELSE x

\* ~Room, of every room of rs on thread t.
DropRooms(w, t, rs) ==
    DecreaseRefCount(
        [w EXCEPT !.room = [r \in Rooms |-> IF r \in rs THEN None ELSE @[r]],
                  !.rooms[t] = SelectSeq(@, LAMBDA r : r \notin rs)],
        t, Cardinality(rs))

IsFull(t) == RoomCountPerThread <= thread[t].ref

\* getAvailableThread: a thread that is neither outdated nor full, or a new one.
\* The number of a new thread was never used before.
AvailableThreads ==
    LET old == {t \in Threads : thread[t] # None /\ thread[t].md5 = md5 /\ ~IsFull(t)}
        new == {t \in Threads : thread[t] = None /\ \A i \in DOMAIN posts : posts[i] # t}
    IN  IF old # {} THEN old ELSE new

\* The thread as getAvailableThread leaves it.
Opened(t) ==
    IF thread[t] = None
    THEN [md5 |-> md5, ref |-> 0, lua |-> "alive"] ELSE thread[t]

-----------------------------------------------------------------------------
(* Signals to a thread *)

\* Which rooms the loop of shutdown visits. ~Room takes the visited room out of
\* the vector the loop walks, so the next one slides under the iterator and is
\* passed over; the last is always met, in the stale tail of the vector. The
\* room whose handler sends the signal is destroyed only after the loop.
Visited(list, caller) ==
    LET visited[i \in 1..Len(list)] ==
            \/ i = 1
            \/ i = Len(list)
            \/ ~(visited[i - 1] /\ list[i - 1] # caller)
    IN  {list[i] : i \in {j \in 1..Len(list) : visited[j]}}

\* emit_signal, from a handler of room caller or of none: the thread whose Lua
\* process is dead shuts down, that is, it is outdated and its rooms, those
\* that the room manager still finds, are removed. A room with observers signals
\* again while it is destroyed, and that second loop may meet rooms the first
\* one passes over.
EmitSignal(w, t, caller) ==
    IF w.thread[t].lua = "alive" THEN {w}
    ELSE LET list  == w.rooms[t]
             found == {list[i] : i \in DOMAIN list} \cap RoomsOn(w, t)
             met   == Visited(list, caller) \cap found
             x     == [w EXCEPT !.thread[t].lua = "down", !.thread[t].md5 = Outdated]
         IN  {DropRooms(x, t, met \cup more) : more \in SUBSET (found \ met)}

-----------------------------------------------------------------------------
(* Handlers *)

Init ==
    /\ md5 \in Md5s
    /\ thread = [t \in Threads |-> None]
    /\ rooms = [t \in Threads |-> <<>>]
    /\ room = [r \in Rooms |-> None]
    /\ task = [k \in Tasks |-> None]
    /\ posts = <<>>

\* A setThread that does not count the room.
CreateRoomUncounted(r) ==
    /\ room[r] = None
    /\ \E t \in AvailableThreads :
        Becomes([Now EXCEPT
            !.room[r] = [thread |-> t, md5 |-> Opened(t).md5],
            !.rooms[t] = Append(@, r),
            !.thread[t] = Opened(t)])
    /\ UNCHANGED md5

\* RoomManager::createRoom and Room::setThread.
CreateRoom(r) ==
    /\ room[r] = None
    /\ \E t \in AvailableThreads :
        Becomes([Now EXCEPT
            !.room[r] = [thread |-> t, md5 |-> Opened(t).md5],
            !.rooms[t] = Append(@, r),
            !.thread[t] = [Opened(t) EXCEPT !.ref = @ + 1]])
    /\ UNCHANGED md5

\* An abandoned room is removed.
RemoveRoom(r) ==
    /\ room[r] # None
    /\ Becomes(DropRooms(Now, room[r].thread, {r}))
    /\ UNCHANGED md5

\* A handler of a room (wakeUp, pushRequest, setPlayerState...) or of a task
\* signals the thread it uses. Without a death this only reaches Lua.
SignalThread(t, caller) ==
    /\ thread[t] # None
    /\ thread[t].lua # "alive"
    /\ IF caller = None THEN TasksOn(Now, t) # {} ELSE caller \in RoomsOn(Now, t)
    /\ \E x \in EmitSignal(Now, t, caller) : Becomes(x)
    /\ UNCHANGED md5

\* handleTask: the task takes a thread and is started by a signal.
CreateTask(k) ==
    /\ task[k] = None
    /\ \E t \in AvailableThreads :
        LET w == [Now EXCEPT !.task[k] = t,
                             !.thread[t] = [Opened(t) EXCEPT !.ref = @ + 1]]
        IN  \E x \in EmitSignal(w, t, None) : Becomes(x)
    /\ UNCHANGED md5

\* ~Task: the thread is signalled to abort the task, then let go.
RemoveTask(k) ==
    /\ task[k] # None
    /\ \E x \in EmitSignal(Now, task[k], None) :
        Becomes(DecreaseRefCount([x EXCEPT !.task[k] = None], task[k], 1))
    /\ UNCHANGED md5

LuaDies(t) ==
    /\ thread[t] # None
    /\ thread[t].lua = "alive"
    /\ Becomes([Now EXCEPT !.thread[t].lua = "dead"])
    /\ UNCHANGED md5

\* _refreshMd5: every room and thread looks at the new md5, and outdated threads
\* without references are removed.
RefreshMd5(m) ==
    /\ md5' = m
    /\ LET Look(x) == IF x = None THEN None ELSE [x EXCEPT !.md5 = Aged(@, m)]
           w == [Now EXCEPT !.room = [r \in Rooms |-> Look(@[r])],
                            !.thread = [t \in Threads |-> Look(@[t])]]
       IN  Becomes(RemoveThreads(w, {t \in Threads : Idle(w, t) /\ w.thread[t].md5 # m}))

\* The stat command removes such threads too.
ServerStat ==
    LET idle == {t \in Threads : Idle(Now, t) /\ thread[t].md5 # md5}
    IN  /\ idle # {}
        /\ Becomes(RemoveThreads(Now, idle))
        /\ UNCHANGED md5

\* A posted removal runs, without a second look at the count. The thread may be
\* gone by then: its number is then read from freed memory, where it still
\* stands unless the memory was reused, and is found nowhere.
RunPost ==
    /\ posts # <<>>
    /\ Becomes([RemoveThreads(Now, {Head(posts)}) EXCEPT !.posts = Tail(@)])
    /\ UNCHANGED md5

Next ==
    \/ \E r \in Rooms : CreateRoom(r) \/ RemoveRoom(r)
    \/ \E t \in Threads, c \in Rooms \cup {None} : SignalThread(t, c)
    \/ \E k \in Tasks : CreateTask(k) \/ RemoveTask(k)
    \/ \E t \in Threads : LuaDies(t)
    \/ \E m \in Md5s : RefreshMd5(m)
    \/ ServerStat
    \/ RunPost

Spec == Init /\ [][Next]_vars

-----------------------------------------------------------------------------
(* Properties *)

\* roomthread.h: the count of a thread is the number of its rooms plus that of
\* its tasks, also after a shutdown that passes rooms over.
RefCountExact ==
    \A t \in Threads : thread[t] # None =>
        thread[t].ref = Cardinality(RoomsOn(Now, t)) + Cardinality(TasksOn(Now, t))

\* The thread of a room or a task is never removed under it, although a removal
\* is posted once and carried out later, whatever became of the thread, and the
\* packages may have changed back in between. (A task holds a bare pointer.)
ThreadsStay ==
    /\ \A r \in Rooms : room[r] # None => thread[room[r].thread] # None
    /\ \A k \in Tasks : task[k] # None => thread[task[k]] # None

\* An outdated thread that nobody uses is on its way out: no order of refreshes,
\* deaths and last references leaves one behind with its Lua process.
IdleThreadsGo ==
    \A t \in Threads : Idle(Now, t) /\ thread[t].md5 = Outdated =>
        \E i \in DOMAIN posts : posts[i] = t

=============================================================================
