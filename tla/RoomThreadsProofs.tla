------------------------- MODULE RoomThreadsProofs --------------------------
(***************************************************************************)
(* The properties of RoomThreads, proved for any number of threads, rooms  *)
(* and tasks, and any capacity. That no thread is removed under a user     *)
(* needs to be said together with the exact counts and with what a posted  *)
(* removal finds: a thread that is gone, or one nobody can use any more.   *)
(***************************************************************************)
EXTENDS RoomThreads, FiniteSetTheorems, SequenceTheorems, TLAPS

(* The inductive invariant, of a world w with n references of thread t that *)
(* are let go but not yet counted                                           *)

\* What the variables hold, as one record. Nothing depends on the vectors: the
\* room manager, not the vector, says which rooms a shutdown removes.
World(w) ==
    /\ w = [thread |-> w.thread, rooms |-> w.rooms, room |-> w.room,
            task |-> w.task, posts |-> w.posts]
    /\ w.thread \in [Threads -> Thread \cup {None}]
    /\ w.room \in [Rooms -> Room \cup {None}]
    /\ w.task \in [Tasks -> Threads \cup {None}]
    /\ w.posts \in Seq(Threads)

\* There are finitely many rooms and tasks, however many ids there are.
Finite(w) ==
    /\ IsFiniteSet({r \in Rooms : w.room[r] # None})
    /\ IsFiniteSet({k \in Tasks : w.task[k] # None})

Users(w, t) == Cardinality(RoomsOn(w, t)) + Cardinality(TasksOn(w, t))

Counted(w, t, n) ==
    \A s \in Threads : w.thread[s] # None =>
        w.thread[s].ref = Users(w, s) + (IF s = t THEN n ELSE 0)

Stay(w) ==
    /\ \A r \in Rooms : w.room[r] # None => w.thread[w.room[r].thread] # None
    /\ \A k \in Tasks : w.task[k] # None => w.thread[w.task[k]] # None

\* A posted removal finds no thread, or one that is idle and outdated for good.
PostsHarmless(w) ==
    \A i \in DOMAIN w.posts :
        \/ w.thread[w.posts[i]] = None
        \/ w.thread[w.posts[i]].ref = 0 /\ w.thread[w.posts[i]].md5 = Outdated

IdleGo(w) ==
    \A t \in Threads : Idle(w, t) /\ w.thread[t].md5 = Outdated =>
        \E i \in DOMAIN w.posts : w.posts[i] = t

Sound(w, t, n) ==
    World(w) /\ Finite(w) /\ Counted(w, t, n) /\ Stay(w) /\ PostsHarmless(w) /\ IdleGo(w)

IInv == md5 \in Md5s /\ Sound(Now, None, 0)

-----------------------------------------------------------------------------
(* Records *)

\* A thread after one of its fields was assigned.
LEMMA ThreadFields ==
    ASSUME NEW x \in Thread
    PROVE  /\ x # None /\ x.md5 \in Md5s \cup {Outdated} /\ x.ref \in Int
           /\ x.lua \in {"alive", "dead", "down"}
BY NoneIsNoThread DEF Thread

\* The fields of a thread whose reference count changes.
LEMMA WithRef ==
    ASSUME NEW x \in Thread, NEW n \in Int
    PROVE  /\ [x EXCEPT !.ref = n] \in Thread
           /\ [x EXCEPT !.ref = n].md5 = x.md5
           /\ [x EXCEPT !.ref = n].ref = n
           /\ [x EXCEPT !.ref = n].lua = x.lua
BY DEF Thread

\* And of one whose md5 changes.
LEMMA WithMd5 ==
    ASSUME NEW x \in Thread, NEW m \in Md5s \cup {Outdated}
    PROVE  /\ [x EXCEPT !.md5 = m] \in Thread
           /\ [x EXCEPT !.md5 = m].md5 = m
           /\ [x EXCEPT !.md5 = m].ref = x.ref
           /\ [x EXCEPT !.md5 = m].lua = x.lua
BY DEF Thread

\* And of one whose Lua process changes.
LEMMA WithLua ==
    ASSUME NEW x \in Thread, NEW l \in {"alive", "dead", "down"}
    PROVE  /\ [x EXCEPT !.lua = l] \in Thread
           /\ [x EXCEPT !.lua = l].md5 = x.md5
           /\ [x EXCEPT !.lua = l].ref = x.ref
           /\ [x EXCEPT !.lua = l].lua = l
BY DEF Thread

\* A room after it looked at the md5.
LEMMA RoomFields ==
    ASSUME NEW x \in Room
    PROVE  /\ x # None /\ x.thread \in Threads /\ x.md5 \in Md5s \cup {Outdated}
           /\ \A m \in Md5s \cup {Outdated} : LET y == [x EXCEPT !.md5 = m] IN
                y \in Room /\ y.thread = x.thread
BY NoneIsNoThread DEF Room

\* The counts of a thread are of finite sets, and n is counted for one thread.
LEMMA UsersFinite ==
    ASSUME NEW w, Finite(w), NEW t \in Threads
    PROVE  /\ IsFiniteSet(RoomsOn(w, t)) /\ IsFiniteSet(TasksOn(w, t))
           /\ Cardinality(RoomsOn(w, t)) \in Nat /\ Cardinality(TasksOn(w, t)) \in Nat
           /\ Users(w, t) \in Nat
<1>1. RoomsOn(w, t) \in SUBSET {r \in Rooms : w.room[r] # None}
  BY DEF RoomsOn
<1>2. TasksOn(w, t) \in SUBSET {k \in Tasks : w.task[k] # None}
  BY NoneIsNoId DEF TasksOn
<1>3. IsFiniteSet(RoomsOn(w, t)) /\ IsFiniteSet(TasksOn(w, t))
  BY <1>1, <1>2, FS_Subset DEF Finite
<1> QED
  BY <1>3, FS_CardinalityType DEF Users

\* A thread without users is used by no room and no task.
LEMMA NoUsers ==
    ASSUME NEW w, Finite(w), NEW t \in Threads, Users(w, t) = 0
    PROVE  RoomsOn(w, t) = {} /\ TasksOn(w, t) = {}
BY UsersFinite, FS_EmptySet DEF Users

-----------------------------------------------------------------------------
(* References to a thread *)

\* Counting the references that were let go makes the count exact again, and
\* the last of them posts the removal of an outdated thread.
LEMMA DecreaseRefCountSound ==
    ASSUME md5 \in Md5s, NEW w, NEW t \in Threads, NEW n \in Nat, Sound(w, t, n),
           w.thread[t] # None
    PROVE  /\ Sound(DecreaseRefCount(w, t, n), None, 0)
           /\ DecreaseRefCount(w, t, n).room = w.room
           /\ DecreaseRefCount(w, t, n).task = w.task
           /\ \A s \in Threads : DecreaseRefCount(w, t, n).thread[s] = None <=> w.thread[s] = None
<1> DEFINE v == DecreaseRefCount(w, t, n)
           th == w.thread[t]
           x == [w EXCEPT !.thread[t].ref = @ - n]
           posted == n > 0 /\ th.ref - n <= 0 /\ th.md5 # md5
<1>1. th \in Thread /\ th.ref \in Int /\ th.md5 \in Md5s \cup {Outdated}
  BY DEF Sound, World, Thread
<1>2. /\ x = [thread |-> [w.thread EXCEPT ![t] = [th EXCEPT !.ref = th.ref - n]],
              rooms |-> w.rooms, room |-> w.room, task |-> w.task, posts |-> w.posts]
      /\ x.thread[t].ref = th.ref - n /\ x.thread[t].md5 = th.md5
      /\ x.thread = [w.thread EXCEPT ![t] = [th EXCEPT !.ref = th.ref - n]]
  BY <1>1, WithRef DEF Sound, World
<1>a. /\ [th EXCEPT !.ref = th.ref - n] \in Thread
      /\ [th EXCEPT !.ref = th.ref - n].ref = th.ref - n
      /\ [th EXCEPT !.ref = th.ref - n].md5 = th.md5
  <2> DEFINE m == th.ref - n
  <2>1. m \in Int
    BY <1>1
  <2> HIDE DEF m, th
  <2>2. [th EXCEPT !.ref = m] \in Thread /\ [th EXCEPT !.ref = m].ref = m
        /\ [th EXCEPT !.ref = m].md5 = th.md5
    BY <1>1, <2>1, WithRef
  <2> QED
    BY <2>2 DEF m
<1>3. \E y \in Thread :
        /\ v = [thread |-> [w.thread EXCEPT ![t] = y], rooms |-> w.rooms, room |-> w.room,
                task |-> w.task, posts |-> IF posted THEN Append(w.posts, t) ELSE w.posts]
        /\ y.ref = th.ref - n
        /\ y.md5 = IF posted THEN Outdated ELSE th.md5
  <2>1. CASE posted
    <3>1. v = [x EXCEPT !.posts = Append(@, t), !.thread[t].md5 = Outdated]
      BY <1>2, <2>1 DEF DecreaseRefCount, Aged
    <3> DEFINE y == [[th EXCEPT !.ref = th.ref - n] EXCEPT !.md5 = Outdated]
    <3>2. y \in Thread /\ y.ref = th.ref - n /\ y.md5 = Outdated
      <4> DEFINE z == [th EXCEPT !.ref = th.ref - n]
      <4>1. z \in Thread /\ z.ref = th.ref - n
        BY <1>a
      <4> HIDE DEF z
      <4>2. [z EXCEPT !.md5 = Outdated] \in Thread /\ [z EXCEPT !.md5 = Outdated].ref = z.ref
            /\ [z EXCEPT !.md5 = Outdated].md5 = Outdated
        BY <4>1, WithMd5
      <4> QED
        BY <4>1, <4>2 DEF z
    <3>3. v = [thread |-> [w.thread EXCEPT ![t] = y], rooms |-> w.rooms, room |-> w.room,
               task |-> w.task, posts |-> Append(w.posts, t)]
      <4>1. x.posts = w.posts /\ x.thread[t] = [th EXCEPT !.ref = th.ref - n]
        BY <1>2 DEF Sound, World
      <4>2. [x.thread EXCEPT ![t] = y] = [w.thread EXCEPT ![t] = y]
        BY <1>2 DEF Sound, World
      <4> HIDE DEF v, x, y
      <4>3. [x.thread[t] EXCEPT !.md5 = Outdated] = y
        BY <4>1 DEF y
      <4>4. v = [x EXCEPT !.posts = Append(x.posts, t),
                          !.thread = [x.thread EXCEPT ![t] = y]]
        BY <1>2, <3>1, <4>3
      <4> QED
        BY <1>2, <4>1, <4>2, <4>4
    <3> QED
      BY <2>1, <3>2, <3>3
  <2>2. CASE ~posted
    <3>1. v = x
      BY <1>2, <2>2 DEF DecreaseRefCount
    <3> QED
      <4> HIDE DEF v, x, posted
      <4> QED
        BY <1>2, <1>a, <2>2, <3>1
  <2> QED
    BY <2>1, <2>2
<1>4. PICK y \in Thread :
        /\ v = [thread |-> [w.thread EXCEPT ![t] = y], rooms |-> w.rooms, room |-> w.room,
                task |-> w.task, posts |-> IF posted THEN Append(w.posts, t) ELSE w.posts]
        /\ y.ref = th.ref - n
        /\ y.md5 = IF posted THEN Outdated ELSE th.md5
  BY <1>3
<1>5. /\ v.thread = [w.thread EXCEPT ![t] = y] /\ v.rooms = w.rooms /\ v.room = w.room
      /\ v.task = w.task /\ v.posts = IF posted THEN Append(w.posts, t) ELSE w.posts
  BY <1>4
<1>6. y # None /\ v.thread[t] = y /\ \A s \in Threads : s # t => v.thread[s] = w.thread[s]
  BY <1>5, ThreadFields DEF Sound, World
<1>7. th.ref = Users(w, t) + n /\ Users(w, t) \in Nat
  BY UsersFinite DEF Sound, Counted
<1>8. \A s \in Threads : Users(v, s) = Users(w, s)
  BY <1>5 DEF Users, RoomsOn, TasksOn
<1>9. w.posts \in Seq(Threads) /\ Len(w.posts) \in Nat /\ DOMAIN w.posts = 1..Len(w.posts)
  BY DEF Sound, World
<1>10. /\ \A i \in DOMAIN v.posts :
             (v.posts[i] = t /\ posted) \/ (i \in DOMAIN w.posts /\ v.posts[i] = w.posts[i])
       /\ \A i \in DOMAIN w.posts : i \in DOMAIN v.posts /\ v.posts[i] = w.posts[i]
       /\ posted => \E i \in DOMAIN v.posts : v.posts[i] = t
       /\ v.posts \in Seq(Threads)
  <2>1. CASE posted
    <3>1. v.posts = Append(w.posts, t)
      BY <1>5, <2>1
    <3>2. /\ v.posts \in Seq(Threads) /\ DOMAIN v.posts = 1..(Len(w.posts) + 1)
          /\ v.posts[Len(w.posts) + 1] = t
          /\ \A i \in 1..Len(w.posts) : v.posts[i] = w.posts[i]
      BY <1>9, <3>1
    <3> HIDE DEF v
    <3>3. /\ Len(w.posts) + 1 \in 1..(Len(w.posts) + 1)
          /\ Len(w.posts) + 1 \in DOMAIN v.posts
          /\ \A i \in DOMAIN v.posts : i = Len(w.posts) + 1 \/ i \in 1..Len(w.posts)
          /\ \A i \in 1..Len(w.posts) : i \in DOMAIN v.posts
      BY <1>9, <3>2
    <3>4. \A i \in DOMAIN v.posts :
              v.posts[i] = t \/ (i \in DOMAIN w.posts /\ v.posts[i] = w.posts[i])
      <4> TAKE i \in DOMAIN v.posts
      <4>1. CASE i = Len(w.posts) + 1
        BY <3>2, <4>1
      <4>2. CASE i \in 1..Len(w.posts)
        BY <1>9, <3>2, <4>2
      <4> QED
        BY <3>3, <4>1, <4>2
    <3>5. \A i \in DOMAIN w.posts : i \in DOMAIN v.posts /\ v.posts[i] = w.posts[i]
      BY <1>9, <3>2, <3>3
    <3>6. \E i \in DOMAIN v.posts : v.posts[i] = t
      BY <3>2, <3>3
    <3> QED
      BY <2>1, <3>2, <3>4, <3>5, <3>6
  <2>2. CASE ~posted
    BY <1>5, <1>9, <2>2
  <2> QED
    BY <2>1, <2>2
<1> HIDE DEF v, posted
<1>11. World(v)
  BY <1>4, <1>5, <1>10 DEF Sound, World
<1>12. Finite(v)
  BY <1>5 DEF Sound, Finite
<1>13. Counted(v, None, 0)
  <2> SUFFICES ASSUME NEW s \in Threads, v.thread[s] # None
               PROVE  v.thread[s].ref = Users(v, s)
    BY NoneIsNoId, UsersFinite, <1>12 DEF Counted
  <2>1. CASE s = t
    <3>1. Users(v, t) = Users(w, t) /\ y.ref = Users(w, t)
      <4> HIDE DEF th
      <4>1. y.ref = th.ref - n
        BY <1>4
      <4> QED
        BY <1>1, <1>7, <1>8, <4>1
    <3> QED
      BY <1>6, <2>1, <3>1
  <2>2. CASE s # t
    <3>1. w.thread[s].ref = Users(w, s) + 0
      BY <1>6, <2>2 DEF Sound, Counted
    <3> QED
      BY <1>6, <1>8, <2>2, <3>1, UsersFinite DEF Sound
  <2> QED
    BY <2>1, <2>2
<1>14. Stay(v)
  <2>1. \A r \in Rooms : w.room[r] # None => w.room[r].thread \in Threads
    BY RoomFields DEF Sound, World
  <2>2. \A k \in Tasks : w.task[k] # None => w.task[k] \in Threads
    BY DEF Sound, World
  <2> QED
    BY <1>5, <1>6, <2>1, <2>2 DEF Sound, Stay
<1>15. PostsHarmless(v)
  <2> SUFFICES ASSUME NEW i \in DOMAIN v.posts, v.thread[v.posts[i]] # None
               PROVE  v.thread[v.posts[i]].ref = 0 /\ v.thread[v.posts[i]].md5 = Outdated
    BY DEF PostsHarmless
  <2>1. CASE v.posts[i] = t /\ posted
    BY <1>4, <1>6, <1>7, <2>1 DEF posted
  <2>2. CASE i \in DOMAIN w.posts /\ v.posts[i] = w.posts[i]
    <3>1. w.posts[i] \in Threads
      BY <1>9, <2>2
    <3>2. CASE w.posts[i] = t
      <4>1. th.ref = 0 /\ th.md5 = Outdated
        BY <2>2, <3>2 DEF Sound, PostsHarmless
      <4>2. n = 0 /\ y.md5 = Outdated
        BY <1>4, <1>7, <4>1 DEF posted
      <4> QED
        BY <1>4, <1>6, <2>2, <3>2, <4>1, <4>2
    <3>3. CASE w.posts[i] # t
      BY <1>6, <2>2, <3>1, <3>3 DEF Sound, PostsHarmless
    <3> QED
      BY <3>2, <3>3
  <2> QED
    BY <1>10, <2>1, <2>2
<1>16. IdleGo(v)
  <2> SUFFICES ASSUME NEW s \in Threads, Idle(v, s), v.thread[s].md5 = Outdated
               PROVE  \E i \in DOMAIN v.posts : v.posts[i] = s
    BY DEF IdleGo
  <2>1. CASE s # t
    <3>1. \E i \in DOMAIN w.posts : w.posts[i] = s
      BY <1>6, <2>1 DEF Sound, IdleGo, Idle
    <3> QED
      BY <1>10, <3>1
  <2>2. CASE s = t /\ n = 0
    <3>1. th.md5 = Outdated /\ th.ref = 0
      BY <1>4, <1>6, <1>7, <2>2 DEF Idle, posted
    <3>2. \E i \in DOMAIN w.posts : w.posts[i] = s
      BY <2>2, <3>1 DEF Sound, IdleGo, Idle
    <3> QED
      BY <1>10, <3>2
  <2>3. CASE s = t /\ n # 0
    <3>1. n > 0 /\ th.ref - n = 0 /\ y.md5 = Outdated
      BY <1>4, <1>6, <2>3 DEF Idle
    <3>2. posted
      BY <1>4, <3>1, OutdatedIsNoMd5 DEF posted
    <3> QED
      BY <1>10, <2>3, <3>2
  <2> QED
    BY <2>1, <2>2, <2>3
<1> QED
  BY <1>5, <1>6, <1>11, <1>12, <1>13, <1>14, <1>15, <1>16 DEF Sound, v

\* Destroying rooms of a thread.
LEMMA DropRoomsSound ==
    ASSUME md5 \in Md5s, NEW w, Sound(w, None, 0), NEW t \in Threads, w.thread[t] # None,
           NEW rs, rs \subseteq RoomsOn(w, t)
    PROVE  /\ Sound(DropRooms(w, t, rs), None, 0)
           /\ DropRooms(w, t, rs).task = w.task
           /\ \A s \in Threads : DropRooms(w, t, rs).thread[s] = None <=> w.thread[s] = None
<1> DEFINE left == [r \in Rooms |-> IF r \in rs THEN None ELSE w.room[r]]
           v == [w EXCEPT !.room = [r \in Rooms |-> IF r \in rs THEN None ELSE @[r]],
                          !.rooms[t] = SelectSeq(@, LAMBDA r : r \notin rs)]
           n == Cardinality(rs)
<1>1. DropRooms(w, t, rs) = DecreaseRefCount(v, t, n)
  BY DEF DropRooms
<1>2. n \in Nat /\ rs \in SUBSET Rooms /\ IsFiniteSet(rs)
  <2>1. IsFiniteSet(RoomsOn(w, t))
    BY UsersFinite DEF Sound
  <2>2. IsFiniteSet(rs)
    BY <2>1, FS_Subset
  <2> QED
    BY <2>2, FS_CardinalityType DEF RoomsOn
<1>3. \E q : v = [thread |-> w.thread, rooms |-> q, room |-> left, task |-> w.task,
                  posts |-> w.posts]
  <2> DEFINE q == [w.rooms EXCEPT ![t] = SelectSeq(@, LAMBDA r : r \notin rs)]
  <2>1. v = [w EXCEPT !.room = left, !.rooms = q]
    BY DEF Sound, World
  <2> HIDE DEF v, q, left
  <2>2. v = [thread |-> w.thread, rooms |-> q, room |-> left, task |-> w.task,
             posts |-> w.posts]
    BY <2>1 DEF Sound, World
  <2> QED
    BY <2>2
<1> HIDE DEF v, n
<1>4. /\ v.thread = w.thread /\ v.task = w.task /\ v.posts = w.posts /\ v.room = left
  BY <1>3
<1>5. World(v)
  <2>1. left \in [Rooms -> Room \cup {None}]
    BY DEF Sound, World
  <2> HIDE DEF left
  <2> QED
    BY <1>3, <2>1 DEF Sound, World
<1>6. \A r \in Rooms : v.room[r] = IF r \in rs THEN None ELSE w.room[r]
  BY <1>4
<1> HIDE DEF left
<1>7. Finite(v)
  <2>1. {r \in Rooms : v.room[r] # None} \in SUBSET {r \in Rooms : w.room[r] # None}
    BY <1>6
  <2> QED
    BY <1>4, <2>1, FS_Subset DEF Sound, Finite
<1>8. /\ RoomsOn(v, t) = RoomsOn(w, t) \ rs
      /\ \A s \in Threads : s # t => RoomsOn(v, s) = RoomsOn(w, s)
      /\ \A s \in Threads : TasksOn(v, s) = TasksOn(w, s)
  BY <1>4, <1>6 DEF RoomsOn, TasksOn
<1>9. Counted(v, t, n)
  <2> SUFFICES ASSUME NEW s \in Threads, v.thread[s] # None
               PROVE  v.thread[s].ref = Users(v, s) + (IF s = t THEN n ELSE 0)
    BY DEF Counted
  <2>1. w.thread[s].ref = Users(w, s) + 0 /\ Users(w, s) \in Nat /\ Users(v, s) \in Nat
    BY <1>4, <1>7, UsersFinite, NoneIsNoId DEF Sound, Counted
  <2>2. CASE s = t
    <3>1. RoomsOn(w, t) \cap rs = rs
      OBVIOUS
    <3>2. Cardinality(RoomsOn(w, t) \ rs) = Cardinality(RoomsOn(w, t)) - n
      BY <3>1, UsersFinite, FS_Difference DEF Sound, n
    <3>3. Users(v, t) = Cardinality(RoomsOn(w, t)) - n + Cardinality(TasksOn(w, t))
      BY <1>8, <3>2 DEF Users
    <3>4. Cardinality(RoomsOn(w, t)) \in Nat /\ Cardinality(TasksOn(w, t)) \in Nat
      BY UsersFinite DEF Sound
    <3>5. Users(w, t) = Users(v, t) + n
      BY <1>2, <3>3, <3>4 DEF Users
    <3> QED
      BY <1>4, <2>1, <2>2, <3>5
  <2>3. CASE s # t
    <3>1. Users(v, s) = Users(w, s)
      BY <1>8, <2>3 DEF Users
    <3> QED
      BY <1>4, <2>1, <2>3, <3>1
  <2> QED
    BY <2>2, <2>3
<1>10. Stay(v) /\ PostsHarmless(v) /\ IdleGo(v)
  BY <1>4, <1>6 DEF Sound, Stay, PostsHarmless, IdleGo, Idle
<1>11. Sound(v, t, n) /\ v.thread[t] # None
  BY <1>4, <1>5, <1>7, <1>9, <1>10 DEF Sound
<1> QED
  BY <1>1, <1>2, <1>4, <1>11, DecreaseRefCountSound

\* A thread in use may become outdated, and its Lua process may be in any state.
LEMMA ThreadChangeSound ==
    ASSUME md5 \in Md5s, NEW w, Sound(w, None, 0), NEW t \in Threads, w.thread[t] # None,
           NEW y \in Thread, y.ref = w.thread[t].ref,
           y.md5 = w.thread[t].md5 \/ (y.md5 = Outdated /\ w.thread[t].ref > 0)
    PROVE  LET v == [w EXCEPT !.thread[t] = y]
           IN  Sound(v, None, 0) /\ v.room = w.room /\ v.task = w.task
               /\ v.rooms = w.rooms /\ v.thread = [w.thread EXCEPT ![t] = y]
<1> DEFINE v == [w EXCEPT !.thread[t] = y]
<1>1. v = [thread |-> [w.thread EXCEPT ![t] = y], rooms |-> w.rooms, room |-> w.room,
           task |-> w.task, posts |-> w.posts]
  BY DEF Sound, World
<1> HIDE DEF v
<1>2. /\ v.thread = [w.thread EXCEPT ![t] = y] /\ v.rooms = w.rooms /\ v.room = w.room
      /\ v.task = w.task /\ v.posts = w.posts
  BY <1>1
<1>3. World(v) /\ Finite(v)
  BY <1>1, <1>2 DEF Sound, World, Finite
<1>4. v.thread[t] = y /\ y # None /\ \A s \in Threads : s # t => v.thread[s] = w.thread[s]
  BY <1>2, ThreadFields DEF Sound, World
<1>5. \A s \in Threads : /\ v.thread[s] = None <=> w.thread[s] = None
                         /\ v.thread[s] # None => v.thread[s].ref = w.thread[s].ref
  BY <1>4
<1>6. \A s \in Threads : Users(v, s) = Users(w, s)
  BY <1>2 DEF Users, RoomsOn, TasksOn
<1>7. Counted(v, None, 0)
  BY <1>5, <1>6 DEF Sound, Counted
<1>8. Stay(v)
  <2>1. \A r \in Rooms : w.room[r] # None => w.room[r].thread \in Threads
    BY RoomFields DEF Sound, World
  <2>2. \A k \in Tasks : w.task[k] # None => w.task[k] \in Threads
    BY DEF Sound, World
  <2> QED
    BY <1>2, <1>5, <2>1, <2>2 DEF Sound, Stay
<1>9. PostsHarmless(v)
  <2>1. \A i \in DOMAIN w.posts : w.posts[i] \in Threads
    BY DEF Sound, World
  <2> QED
    BY <1>2, <1>4, <1>5, <2>1 DEF Sound, PostsHarmless
<1>10. IdleGo(v)
  <2>1. w.thread[t].ref > 0 => ~(w.thread[t].ref = 0)
    BY ThreadFields DEF Sound, World
  <2> QED
    BY <1>2, <1>4, <1>5, <2>1 DEF Sound, IdleGo, Idle
<1> QED
  BY <1>2, <1>3, <1>7, <1>8, <1>9, <1>10 DEF Sound, v

\* A signal to a thread in use, whatever the state of its Lua process.
LEMMA EmitSignalSound ==
    ASSUME md5 \in Md5s, NEW w, Sound(w, None, 0), NEW t \in Threads, w.thread[t] # None,
           w.thread[t].ref > 0, NEW caller, NEW x \in EmitSignal(w, t, caller)
    PROVE  /\ Sound(x, None, 0) /\ x.task = w.task
           /\ \A s \in Threads : x.thread[s] = None <=> w.thread[s] = None
<1>1. CASE w.thread[t].lua = "alive"
  BY <1>1 DEF EmitSignal
<1>2. CASE w.thread[t].lua # "alive"
  <2> DEFINE th == w.thread[t]
             y == [[th EXCEPT !.lua = "down"] EXCEPT !.md5 = Outdated]
             v == [w EXCEPT !.thread[t] = y]
  <2>1. PICK rs \in SUBSET RoomsOn(w, t) :
            x = DropRooms([w EXCEPT !.thread[t].lua = "down", !.thread[t].md5 = Outdated], t, rs)
    BY <1>2 DEF EmitSignal
  <2>2. th \in Thread
    BY DEF Sound, World
  <2>3. y \in Thread /\ y.ref = th.ref /\ y.md5 = Outdated
    <3> DEFINE z == [th EXCEPT !.lua = "down"]
    <3>1. z \in Thread /\ z.ref = th.ref
      BY <2>2, WithLua
    <3> HIDE DEF z
    <3>2. /\ [z EXCEPT !.md5 = Outdated] \in Thread /\ [z EXCEPT !.md5 = Outdated].ref = z.ref
          /\ [z EXCEPT !.md5 = Outdated].md5 = Outdated
      BY <3>1, WithMd5
    <3> QED
      BY <3>1, <3>2 DEF z
  <2>4. [w EXCEPT !.thread[t].lua = "down", !.thread[t].md5 = Outdated] = v
    BY DEF Sound, World
  <2> HIDE DEF y
  <2>5. /\ Sound(v, None, 0) /\ v.room = w.room /\ v.task = w.task
        /\ v.thread = [w.thread EXCEPT ![t] = y]
    BY <2>2, <2>3, ThreadChangeSound
  <2>6. x = DropRooms(v, t, rs)
    BY <2>1, <2>4
  <2> HIDE DEF v
  <2>7. rs \subseteq RoomsOn(v, t)
    BY <2>5 DEF RoomsOn
  <2>8. v.thread[t] # None /\ \A s \in Threads : v.thread[s] = None <=> w.thread[s] = None
    BY <2>3, <2>5, ThreadFields DEF Sound, World
  <2>9. /\ Sound(DropRooms(v, t, rs), None, 0) /\ DropRooms(v, t, rs).task = v.task
        /\ \A s \in Threads : DropRooms(v, t, rs).thread[s] = None <=> v.thread[s] = None
    <3>1. Sound(v, None, 0) /\ v.thread[t] # None /\ rs \subseteq RoomsOn(v, t)
      BY <2>5, <2>7, <2>8
    <3>2. Sound(DropRooms(v, t, rs), None, 0)
      BY <3>1, DropRoomsSound
    <3>3. DropRooms(v, t, rs).task = v.task
      BY <3>1, DropRoomsSound
    <3>4. \A s \in Threads : DropRooms(v, t, rs).thread[s] = None <=> v.thread[s] = None
      BY <3>1, DropRoomsSound
    <3> QED
      BY <3>2, <3>3, <3>4
  <2> QED
    BY <2>5, <2>6, <2>8, <2>9
<1> QED
  BY <1>1, <1>2

-----------------------------------------------------------------------------
(* Handlers *)

\* Removing threads nobody uses, the idle outdated ones among them that no post
\* awaits.
LEMMA RemoveThreadsSound ==
    ASSUME NEW w, World(w), Finite(w), Counted(w, None, 0), Stay(w), PostsHarmless(w),
           NEW ts, \A t \in ts : t \in Threads /\ (w.thread[t] = None \/ Idle(w, t)),
           \A t \in Threads : t \notin ts /\ Idle(w, t) /\ w.thread[t].md5 = Outdated =>
               \E i \in DOMAIN w.posts : w.posts[i] = t
    PROVE  /\ Sound(RemoveThreads(w, ts), None, 0)
           /\ RemoveThreads(w, ts).posts = w.posts
           /\ \A t \in Threads : RemoveThreads(w, ts).thread[t] =
                 IF t \in ts THEN None ELSE w.thread[t]
<1> DEFINE left == [t \in Threads |-> IF t \in ts THEN None ELSE w.thread[t]]
           v == RemoveThreads(w, ts)
<1>1. \E q : v = [thread |-> left, rooms |-> q, room |-> w.room, task |-> w.task,
                  posts |-> w.posts]
  <2> DEFINE q == [t \in Threads |-> IF t \in ts THEN <<>> ELSE w.rooms[t]]
  <2>1. v = [w EXCEPT !.thread = left, !.rooms = q]
    BY DEF RemoveThreads, World
  <2> HIDE DEF v, left, q
  <2>2. v = [thread |-> left, rooms |-> q, room |-> w.room, task |-> w.task,
             posts |-> w.posts]
    BY <2>1 DEF World
  <2> QED
    BY <2>2
<1> HIDE DEF v
<1>2. v.thread = left /\ v.room = w.room /\ v.task = w.task /\ v.posts = w.posts
  BY <1>1
<1>3. left \in [Threads -> Thread \cup {None}]
  BY DEF World
<1>4. \A t \in Threads : left[t] = IF t \in ts THEN None ELSE w.thread[t]
  OBVIOUS
<1> HIDE DEF left
<1>5. World(v) /\ Finite(v)
  BY <1>1, <1>2, <1>3 DEF World, Finite
<1>6. \A t \in Threads : Users(v, t) = Users(w, t)
  BY <1>2 DEF Users, RoomsOn, TasksOn
<1>7. Counted(v, None, 0)
  BY <1>2, <1>4, <1>6 DEF Counted
<1>8. \A t \in ts : RoomsOn(w, t) = {} /\ TasksOn(w, t) = {}
  <2> TAKE t \in ts
  <2>1. t \in Threads /\ t # None
    BY NoneIsNoId
  <2>2. CASE w.thread[t] = None
    BY <2>1, <2>2 DEF Stay, RoomsOn, TasksOn
  <2>3. CASE w.thread[t] # None
    <3>1. w.thread[t].ref = 0
      BY <2>3 DEF Idle
    <3>2. 0 = Users(w, t) + 0 /\ Users(w, t) \in Nat
      BY <2>1, <2>3, <3>1, UsersFinite DEF Counted
    <3> QED
      BY <2>1, <3>2, NoUsers
  <2> QED
    BY <2>2, <2>3
<1>9. Stay(v)
  <2>1. \A r \in Rooms : w.room[r] # None => w.room[r].thread \in Threads \ ts
    BY <1>8, RoomFields DEF World, RoomsOn
  <2>2. \A k \in Tasks : w.task[k] # None => w.task[k] \in Threads \ ts
    BY <1>8 DEF World, TasksOn
  <2> QED
    BY <1>2, <1>4, <2>1, <2>2 DEF Stay
<1>10. PostsHarmless(v)
  <2>1. \A i \in DOMAIN w.posts : w.posts[i] \in Threads
    BY DEF World
  <2> QED
    BY <1>2, <1>4, <2>1 DEF PostsHarmless
<1>11. IdleGo(v)
  BY <1>2, <1>4 DEF IdleGo, Idle
<1> QED
  BY <1>2, <1>4, <1>5, <1>7, <1>9, <1>10, <1>11 DEF Sound, v

\* A world that the variables take makes a step of the invariant.
LEMMA BecomesSound ==
    ASSUME NEW w, Sound(w, None, 0), Becomes(w), md5' \in Md5s
    PROVE  IInv'
<1>1. Now' = w
  BY DEF Now, Becomes, Sound, World
<1> QED
  BY <1>1 DEF IInv, Sound, World, Finite, Counted, Users, RoomsOn, TasksOn, Stay,
              PostsHarmless, IdleGo, Idle

\* The fields of the current world.
LEMMA NowFields ==
    /\ Now.thread = thread /\ Now.rooms = rooms /\ Now.room = room /\ Now.task = task
    /\ Now.posts = posts
BY DEF Now

\* The thread a room or a task is given: up to date, with an exact count, and
\* awaited by no posted removal.
LEMMA AvailableThread ==
    ASSUME IInv, NEW t \in AvailableThreads
    PROVE  /\ t \in Threads
           /\ Opened(t) \in Thread /\ Opened(t).md5 = md5
           /\ Opened(t).ref = Users(Now, t) /\ Users(Now, t) \in Nat
           /\ \A i \in DOMAIN posts : posts[i] # t
<1>1. Sound(Now, None, 0) /\ md5 \in Md5s
  BY DEF IInv
<1>2. t \in Threads /\ t # None
  BY NoneIsNoId DEF AvailableThreads
<1>3. Users(Now, t) \in Nat
  BY <1>1, <1>2, UsersFinite DEF Sound
<1>4. CASE thread[t] = None
  <2>1. RoomsOn(Now, t) = {}
    BY <1>1, <1>4, NowFields DEF Sound, Stay, RoomsOn
  <2>2. TasksOn(Now, t) = {}
    BY <1>1, <1>2, <1>4, NowFields DEF Sound, Stay, TasksOn
  <2>3. Users(Now, t) = 0
    BY <2>1, <2>2, FS_EmptySet DEF Users
  <2>4. /\ Opened(t) \in Thread /\ Opened(t).md5 = md5 /\ Opened(t).ref = 0
    BY <1>1, <1>4 DEF Opened, Thread
  <2>5. \A i \in DOMAIN posts : posts[i] # t
    BY <1>4, NoneIsNoThread DEF AvailableThreads
  <2> QED
    BY <1>2, <1>3, <2>3, <2>4, <2>5
<1>5. CASE thread[t] # None
  <2>1. thread[t] \in Thread /\ Opened(t) = thread[t]
    BY <1>1, <1>2, <1>5, NowFields DEF Opened, Sound, World
  <2>2. thread[t].md5 = md5
    BY <1>5 DEF AvailableThreads
  <2>3. thread[t].ref = Users(Now, t)
    BY <1>1, <1>2, <1>3, <1>5, NowFields DEF Sound, Counted
  <2>4. \A i \in DOMAIN posts : posts[i] # t
    BY <1>1, <1>5, <2>2, OutdatedIsNoMd5, NowFields DEF Sound, PostsHarmless
  <2> QED
    BY <1>2, <1>3, <2>1, <2>2, <2>3, <2>4
<1> QED
  BY <1>4, <1>5

\* A thread that gains a user and is counted for it.
LEMMA UserSound ==
    ASSUME IInv, NEW t \in AvailableThreads, NEW w, World(w), Finite(w), w.posts = posts,
           w.thread = [thread EXCEPT ![t] = [Opened(t) EXCEPT !.ref = @ + 1]],
           Users(w, t) = Users(Now, t) + 1,
           \A s \in Threads : s # t => Users(w, s) = Users(Now, s),
           \A r \in Rooms : w.room[r] # None =>
              w.room[r].thread = t \/ (room[r] # None /\ w.room[r].thread = room[r].thread),
           \A k \in Tasks : w.task[k] # None => w.task[k] = t \/ w.task[k] = task[k]
    PROVE  Sound(w, None, 0) /\ w.thread[t] # None /\ w.thread[t].ref > 0
<1>1. Sound(Now, None, 0) /\ md5 \in Md5s
  BY DEF IInv
<1>2. /\ t \in Threads /\ Opened(t) \in Thread /\ Opened(t).md5 = md5
      /\ Opened(t).ref = Users(Now, t) /\ Users(Now, t) \in Nat
      /\ \A i \in DOMAIN posts : posts[i] # t
  BY AvailableThread
<1> DEFINE y == [Opened(t) EXCEPT !.ref = @ + 1]
<1>3. y \in Thread /\ y # None /\ y.ref = Users(w, t) /\ y.ref > 0 /\ y.md5 = md5
  <2> DEFINE m == Opened(t).ref + 1
  <2>1. m \in Int /\ m > 0 /\ m = Users(w, t)
    BY <1>2
  <2> HIDE DEF m
  <2>2. /\ [Opened(t) EXCEPT !.ref = m] \in Thread /\ [Opened(t) EXCEPT !.ref = m].ref = m
        /\ [Opened(t) EXCEPT !.ref = m].md5 = Opened(t).md5
    BY <1>2, <2>1, WithRef
  <2>3. y = [Opened(t) EXCEPT !.ref = m]
    BY DEF m
  <2> HIDE DEF y
  <2> QED
    BY <1>2, <2>1, <2>2, <2>3, ThreadFields
<1>4. w.thread = [thread EXCEPT ![t] = y]
  OBVIOUS
<1> HIDE DEF y
<1>5. w.thread[t] = y /\ \A s \in Threads : s # t => w.thread[s] = thread[s]
  BY <1>1, <1>2, <1>4, NowFields DEF Sound, World
<1>6. Counted(w, None, 0)
  <2> SUFFICES ASSUME NEW s \in Threads, w.thread[s] # None
               PROVE  w.thread[s].ref = Users(w, s)
    BY NoneIsNoId, UsersFinite DEF Counted
  <2>1. CASE s = t
    BY <1>3, <1>5, <2>1
  <2>2. CASE s # t
    <3>1. thread[s].ref = Users(Now, s) + 0 /\ Users(Now, s) \in Nat
      BY <1>1, <1>5, <2>2, UsersFinite, NowFields, NoneIsNoId DEF Sound, Counted
    <3> QED
      BY <1>5, <2>2, <3>1
  <2> QED
    BY <2>1, <2>2
<1>7. Stay(w)
  <2>1. \A r \in Rooms : room[r] # None => room[r].thread \in Threads /\ thread[room[r].thread] # None
    BY <1>1, RoomFields, NowFields DEF Sound, World, Stay
  <2>2. \A k \in Tasks : task[k] # None => task[k] \in Threads /\ thread[task[k]] # None
    BY <1>1, NowFields DEF Sound, World, Stay
  <2> QED
    BY <1>3, <1>5, <2>1, <2>2 DEF Stay
<1>8. PostsHarmless(w)
  <2>1. \A i \in DOMAIN posts : posts[i] \in Threads
    BY <1>1, NowFields DEF Sound, World
  <2> QED
    BY <1>1, <1>2, <1>5, <2>1, NowFields DEF Sound, PostsHarmless
<1>9. IdleGo(w)
  <2>1. y.md5 # Outdated
    BY <1>1, <1>3, OutdatedIsNoMd5
  <2> QED
    <3> SUFFICES ASSUME NEW s \in Threads, Idle(w, s), w.thread[s].md5 = Outdated
                 PROVE  \E i \in DOMAIN posts : posts[i] = s
      BY DEF IdleGo
    <3>1. s # t
      BY <1>5, <2>1
    <3>2. w.thread[s] = thread[s]
      BY <1>5, <3>1
    <3>3. Idle(Now, s) /\ thread[s].md5 = Outdated
      BY <3>2, NowFields DEF Idle
    <3> QED
      BY <1>1, <3>3, NowFields DEF Sound, IdleGo
<1> QED
  BY <1>3, <1>5, <1>6, <1>7, <1>8, <1>9 DEF Sound

\* A room is created on a thread, which takes one reference more.
LEMMA CreateRoomStep ==
    ASSUME IInv, NEW r \in Rooms, CreateRoom(r)
    PROVE  IInv'
<1>1. Sound(Now, None, 0) /\ md5 \in Md5s /\ room[r] = None
  BY DEF IInv, CreateRoom
<1>2. PICK t \in AvailableThreads : Becomes([Now EXCEPT
            !.room[r] = [thread |-> t, md5 |-> Opened(t).md5],
            !.rooms[t] = Append(@, r),
            !.thread[t] = [Opened(t) EXCEPT !.ref = @ + 1]])
  BY DEF CreateRoom
<1> DEFINE w == [Now EXCEPT
            !.room[r] = [thread |-> t, md5 |-> Opened(t).md5],
            !.rooms[t] = Append(@, r),
            !.thread[t] = [Opened(t) EXCEPT !.ref = @ + 1]]
           new == [thread |-> t, md5 |-> Opened(t).md5]
           y == [Opened(t) EXCEPT !.ref = @ + 1]
           q == [rooms EXCEPT ![t] = Append(@, r)]
<1>3. t \in Threads /\ Opened(t) \in Thread /\ Opened(t).md5 = md5
      /\ Opened(t).ref \in Nat
  BY AvailableThread
<1>4. y \in Thread
  BY <1>3 DEF Thread
<1>5. new \in Room /\ new # None /\ new.thread = t
  BY <1>1, <1>3, NoneIsNoThread DEF Room
<1>6. w = [thread |-> [thread EXCEPT ![t] = y], rooms |-> q, room |-> [room EXCEPT ![r] = new],
           task |-> task, posts |-> posts]
  <2>1. w = [Now EXCEPT !.room = [room EXCEPT ![r] = new], !.rooms = q,
                        !.thread = [thread EXCEPT ![t] = y]]
    BY NowFields DEF Now
  <2> HIDE DEF w, y, q, new
  <2> QED
    BY <2>1 DEF Now
<1> HIDE DEF w, y, q, new
<1>7. /\ w.thread = [thread EXCEPT ![t] = y] /\ w.room = [room EXCEPT ![r] = new]
      /\ w.task = task /\ w.posts = posts
  BY <1>6
<1>8. World(w)
  <2>1. /\ thread \in [Threads -> Thread \cup {None}] /\ room \in [Rooms -> Room \cup {None}]
        /\ task \in [Tasks -> Threads \cup {None}] /\ posts \in Seq(Threads)
    BY <1>1, NowFields DEF Sound, World
  <2> QED
    BY <1>3, <1>4, <1>5, <1>6, <1>7, <2>1 DEF World
<1>9. \A s \in Rooms : w.room[s] = IF s = r THEN new ELSE room[s]
  BY <1>1, <1>7, NowFields DEF Sound, World
<1>10. Finite(w)
  <2>1. {s \in Rooms : w.room[s] # None} = {s \in Rooms : room[s] # None} \cup {r}
    BY <1>5, <1>9
  <2> QED
    BY <1>1, <1>7, <2>1, FS_AddElement, NowFields DEF Sound, Finite
<1>11. /\ RoomsOn(w, t) = RoomsOn(Now, t) \cup {r}
       /\ \A s \in Threads : s # t => RoomsOn(w, s) = RoomsOn(Now, s)
       /\ \A s \in Threads : TasksOn(w, s) = TasksOn(Now, s)
       /\ r \notin RoomsOn(Now, t)
  BY <1>1, <1>5, <1>7, <1>9, NowFields DEF RoomsOn, TasksOn
<1>12. Users(w, t) = Users(Now, t) + 1
  <2>1. Cardinality(RoomsOn(w, t)) = Cardinality(RoomsOn(Now, t)) + 1
    BY <1>1, <1>3, <1>11, UsersFinite, FS_AddElement DEF Sound
  <2>2. Cardinality(RoomsOn(Now, t)) \in Nat /\ Cardinality(TasksOn(Now, t)) \in Nat
    BY <1>1, <1>3, UsersFinite DEF Sound
  <2> QED
    BY <1>3, <1>11, <2>1, <2>2 DEF Users
<1>13. \A s \in Threads : s # t => Users(w, s) = Users(Now, s)
  BY <1>11 DEF Users
<1>14. Sound(w, None, 0)
  BY <1>5, <1>7, <1>8, <1>9, <1>10, <1>12, <1>13, UserSound DEF y
<1>15. Becomes(w) /\ md5' \in Md5s
  BY <1>1, <1>2 DEF w, CreateRoom
<1> QED
  BY <1>14, <1>15, BecomesSound

\* A room is destroyed, and its thread dropped if it was the last on an old one.
LEMMA RemoveRoomStep ==
    ASSUME IInv, NEW r \in Rooms, RemoveRoom(r)
    PROVE  IInv'
<1>1. Sound(Now, None, 0) /\ md5 \in Md5s /\ room[r] # None /\ md5' = md5
      /\ Becomes(DropRooms(Now, room[r].thread, {r}))
  BY DEF IInv, RemoveRoom
<1>2. room[r].thread \in Threads /\ thread[room[r].thread] # None
  BY <1>1, RoomFields, NowFields DEF Sound, World, Stay
<1>3. {r} \subseteq RoomsOn(Now, room[r].thread)
  BY <1>1, NowFields DEF RoomsOn
<1>4. Sound(DropRooms(Now, room[r].thread, {r}), None, 0)
  BY <1>1, <1>2, <1>3, NowFields, DropRoomsSound
<1> QED
  BY <1>1, <1>4, BecomesSound

\* A signal finds out that Lua is dead and shuts the thread down.
LEMMA SignalThreadStep ==
    ASSUME IInv, NEW t \in Threads, NEW caller \in Rooms \cup {None}, SignalThread(t, caller)
    PROVE  IInv'
<1>1. Sound(Now, None, 0) /\ md5 \in Md5s /\ thread[t] # None /\ md5' = md5
  BY DEF IInv, SignalThread
<1>2. PICK x \in EmitSignal(Now, t, caller) : Becomes(x)
  BY DEF SignalThread
<1>3. thread[t].ref > 0
  <2>1. RoomsOn(Now, t) # {} \/ TasksOn(Now, t) # {}
    BY DEF SignalThread
  <2>2. Users(Now, t) # 0 /\ Users(Now, t) \in Nat
    BY <1>1, <2>1, NoUsers, UsersFinite DEF Sound
  <2>3. thread[t].ref = Users(Now, t) + 0
    BY <1>1, NowFields, NoneIsNoId DEF Sound, Counted
  <2> QED
    BY <2>2, <2>3
<1>4. Sound(x, None, 0)
  BY <1>1, <1>3, NowFields, EmitSignalSound
<1> QED
  BY <1>1, <1>2, <1>4, BecomesSound

\* A task takes a reference like a room.
LEMMA CreateTaskStep ==
    ASSUME IInv, NEW k \in Tasks, CreateTask(k)
    PROVE  IInv'
<1>1. Sound(Now, None, 0) /\ md5 \in Md5s /\ task[k] = None /\ md5' = md5
  BY DEF IInv, CreateTask
<1>2. PICK t \in AvailableThreads :
        \E x \in EmitSignal([Now EXCEPT !.task[k] = t,
                                        !.thread[t] = [Opened(t) EXCEPT !.ref = @ + 1]], t, None) :
            Becomes(x)
  BY DEF CreateTask
<1> DEFINE w == [Now EXCEPT !.task[k] = t, !.thread[t] = [Opened(t) EXCEPT !.ref = @ + 1]]
           y == [Opened(t) EXCEPT !.ref = @ + 1]
<1>3. t \in Threads /\ t # None /\ Opened(t) \in Thread /\ Opened(t).ref \in Nat
  BY AvailableThread, NoneIsNoId
<1>4. y \in Thread
  BY <1>3 DEF Thread
<1>5. w = [thread |-> [thread EXCEPT ![t] = y], rooms |-> rooms, room |-> room,
           task |-> [task EXCEPT ![k] = t], posts |-> posts]
  <2>1. w = [Now EXCEPT !.task = [task EXCEPT ![k] = t], !.thread = [thread EXCEPT ![t] = y]]
    BY NowFields DEF Now
  <2> HIDE DEF w, y
  <2> QED
    BY <2>1 DEF Now
<1>6. \E x \in EmitSignal(w, t, None) : Becomes(x)
  BY <1>2
<1> HIDE DEF w, y
<1>7. /\ w.thread = [thread EXCEPT ![t] = y] /\ w.room = room
      /\ w.task = [task EXCEPT ![k] = t] /\ w.posts = posts
  BY <1>5
<1>8. World(w)
  <2>1. /\ thread \in [Threads -> Thread \cup {None}] /\ room \in [Rooms -> Room \cup {None}]
        /\ task \in [Tasks -> Threads \cup {None}] /\ posts \in Seq(Threads)
    BY <1>1, NowFields DEF Sound, World
  <2> QED
    BY <1>3, <1>4, <1>5, <1>7, <2>1 DEF World
<1>9. \A j \in Tasks : w.task[j] = IF j = k THEN t ELSE task[j]
  BY <1>1, <1>7, NowFields DEF Sound, World
<1>10. Finite(w)
  <2>1. {j \in Tasks : w.task[j] # None} = {j \in Tasks : task[j] # None} \cup {k}
    BY <1>3, <1>9
  <2> QED
    BY <1>1, <1>7, <2>1, FS_AddElement, NowFields DEF Sound, Finite
<1>11. /\ TasksOn(w, t) = TasksOn(Now, t) \cup {k}
       /\ \A s \in Threads : s # t => TasksOn(w, s) = TasksOn(Now, s)
       /\ \A s \in Threads : RoomsOn(w, s) = RoomsOn(Now, s)
       /\ k \notin TasksOn(Now, t)
  BY <1>1, <1>3, <1>7, <1>9, NowFields, NoneIsNoId DEF RoomsOn, TasksOn
<1>12. Users(w, t) = Users(Now, t) + 1
  <2>1. Cardinality(TasksOn(w, t)) = Cardinality(TasksOn(Now, t)) + 1
    BY <1>1, <1>3, <1>11, UsersFinite, FS_AddElement DEF Sound
  <2>2. Cardinality(RoomsOn(Now, t)) \in Nat /\ Cardinality(TasksOn(Now, t)) \in Nat
    BY <1>1, <1>3, UsersFinite DEF Sound
  <2> QED
    BY <1>3, <1>11, <2>1, <2>2 DEF Users
<1>13. \A s \in Threads : s # t => Users(w, s) = Users(Now, s)
  BY <1>11 DEF Users
<1>14. \A r \in Rooms : w.room[r] # None => room[r] # None /\ w.room[r].thread = room[r].thread
  BY <1>7
<1>15. Sound(w, None, 0) /\ w.thread[t] # None /\ w.thread[t].ref > 0
  BY <1>7, <1>8, <1>9, <1>10, <1>12, <1>13, <1>14, UserSound DEF y
<1>16. \A x \in EmitSignal(w, t, None) : Sound(x, None, 0)
  BY <1>1, <1>3, <1>15, EmitSignalSound
<1> QED
  BY <1>1, <1>6, <1>16, BecomesSound

\* A task gives it back.
LEMMA RemoveTaskStep ==
    ASSUME IInv, NEW k \in Tasks, RemoveTask(k)
    PROVE  IInv'
<1> DEFINE t == task[k]
<1>1. Sound(Now, None, 0) /\ md5 \in Md5s /\ t # None /\ md5' = md5
  BY DEF IInv, RemoveTask
<1>2. PICK x \in EmitSignal(Now, t, None) :
        Becomes(DecreaseRefCount([x EXCEPT !.task[k] = None], t, 1))
  BY DEF RemoveTask
<1>3. t \in Threads /\ thread[t] # None
  BY <1>1, NowFields DEF Sound, World, Stay
<1>4. thread[t].ref > 0
  <2>1. TasksOn(Now, t) # {}
    BY NowFields DEF TasksOn
  <2>2. Users(Now, t) # 0 /\ Users(Now, t) \in Nat
    BY <1>1, <1>3, <2>1, NoUsers, UsersFinite DEF Sound
  <2>3. thread[t].ref = Users(Now, t) + 0
    BY <1>1, <1>3, NowFields, NoneIsNoId DEF Sound, Counted
  <2> QED
    BY <2>2, <2>3
<1> HIDE DEF t
<1>5. Sound(x, None, 0) /\ x.task = task /\ x.thread[t] # None
  BY <1>1, <1>3, <1>4, NowFields, EmitSignalSound
<1> DEFINE v == [x EXCEPT !.task[k] = None]
<1>6. v = [thread |-> x.thread, rooms |-> x.rooms, room |-> x.room,
           task |-> [x.task EXCEPT ![k] = None], posts |-> x.posts]
  BY <1>5 DEF Sound, World
<1>7. Becomes(DecreaseRefCount(v, t, 1))
  BY <1>2
<1> HIDE DEF v
<1>8. /\ v.thread = x.thread /\ v.room = x.room
      /\ v.task = [x.task EXCEPT ![k] = None] /\ v.posts = x.posts
  BY <1>6
<1>9. World(v)
  BY <1>5, <1>6, <1>8 DEF Sound, World
<1>10. \A j \in Tasks : v.task[j] = IF j = k THEN None ELSE x.task[j]
  BY <1>5, <1>8 DEF Sound, World
<1>11. Finite(v)
  <2>1. {j \in Tasks : v.task[j] # None} = {j \in Tasks : x.task[j] # None} \ {k}
    BY <1>10
  <2> QED
    BY <1>5, <1>8, <2>1, FS_RemoveElement DEF Sound, Finite
<1>12. /\ TasksOn(v, t) = TasksOn(x, t) \ {k}
       /\ \A s \in Threads : s # t => TasksOn(v, s) = TasksOn(x, s)
       /\ \A s \in Threads : RoomsOn(v, s) = RoomsOn(x, s)
       /\ k \in TasksOn(x, t)
  BY <1>1, <1>3, <1>5, <1>8, <1>10, NoneIsNoId DEF RoomsOn, TasksOn, t
<1>13. Counted(v, t, 1)
  <2> SUFFICES ASSUME NEW s \in Threads, v.thread[s] # None
               PROVE  v.thread[s].ref = Users(v, s) + (IF s = t THEN 1 ELSE 0)
    BY DEF Counted
  <2>1. /\ x.thread[s].ref = Users(x, s) + 0 /\ Users(x, s) \in Nat
        /\ Cardinality(RoomsOn(x, s)) \in Nat /\ Cardinality(TasksOn(x, s)) \in Nat
    BY <1>5, <1>8, UsersFinite, NoneIsNoId DEF Sound, Counted
  <2>2. CASE s = t
    <3>1. Cardinality(TasksOn(v, s)) = Cardinality(TasksOn(x, s)) - 1
      BY <1>5, <1>12, <2>2, UsersFinite, FS_RemoveElement DEF Sound
    <3>2. Cardinality(RoomsOn(v, s)) = Cardinality(RoomsOn(x, s))
      BY <1>12
    <3>3. Users(x, s) = Users(v, s) + 1
      BY <2>1, <3>1, <3>2 DEF Users
    <3> QED
      BY <1>8, <2>1, <2>2, <3>3
  <2>3. CASE s # t
    <3>1. Users(v, s) = Users(x, s)
      BY <1>12, <2>3 DEF Users
    <3> QED
      BY <1>8, <2>1, <2>3, <3>1
  <2> QED
    BY <2>2, <2>3
<1>14. Stay(v) /\ PostsHarmless(v) /\ IdleGo(v)
  BY <1>5, <1>8, <1>10 DEF Sound, Stay, PostsHarmless, IdleGo, Idle
<1>15. Sound(v, t, 1) /\ v.thread[t] # None
  BY <1>5, <1>8, <1>9, <1>11, <1>13, <1>14 DEF Sound
<1>16. Sound(DecreaseRefCount(v, t, 1), None, 0)
  BY <1>1, <1>3, <1>15, DecreaseRefCountSound
<1> QED
  BY <1>1, <1>7, <1>16, BecomesSound

\* Lua dies, which changes nothing that is counted.
LEMMA LuaDiesStep ==
    ASSUME IInv, NEW t \in Threads, LuaDies(t)
    PROVE  IInv'
<1> DEFINE y == [thread[t] EXCEPT !.lua = "dead"]
<1>1. Sound(Now, None, 0) /\ md5 \in Md5s /\ thread[t] # None /\ md5' = md5
      /\ Becomes([Now EXCEPT !.thread[t].lua = "dead"])
  BY DEF IInv, LuaDies
<1>2. thread[t] \in Thread
  BY <1>1, NowFields DEF Sound, World
<1>3. y \in Thread /\ y.ref = thread[t].ref /\ y.md5 = thread[t].md5
  BY <1>2, WithLua
<1>4. Becomes([Now EXCEPT !.thread[t] = y])
  BY <1>1, NowFields DEF Now
<1> HIDE DEF y
<1>5. Sound([Now EXCEPT !.thread[t] = y], None, 0)
  BY <1>1, <1>3, NowFields, ThreadChangeSound
<1> QED
  BY <1>1, <1>4, <1>5, BecomesSound

\* A refresh makes threads old and removes those that nobody uses.
LEMMA RefreshMd5Step ==
    ASSUME IInv, NEW m \in Md5s, RefreshMd5(m)
    PROVE  IInv'
<1> DEFINE Look(x) == IF x = None THEN None ELSE [x EXCEPT !.md5 = Aged(@, m)]
           ths == [t \in Threads |-> Look(thread[t])]
           rms == [r \in Rooms |-> Look(room[r])]
           w == [thread |-> ths, rooms |-> rooms, room |-> rms, task |-> task, posts |-> posts]
           idle == {t \in Threads : Idle(w, t) /\ w.thread[t].md5 # m}
<1>1. Sound(Now, None, 0) /\ md5' = m
  BY DEF IInv, RefreshMd5
<1>2. Becomes(RemoveThreads(w, idle))
  <2>1. w = [Now EXCEPT !.room = [r \in Rooms |-> Look(@[r])],
                        !.thread = [t \in Threads |-> Look(@[t])]]
    <3> DEFINE x == [Now EXCEPT !.room = rms, !.thread = ths]
    <3>1. x = [Now EXCEPT !.room = [r \in Rooms |-> Look(@[r])],
                          !.thread = [t \in Threads |-> Look(@[t])]]
      BY NowFields DEF Now
    <3>2. x = w
      <4>1. x = [Now EXCEPT !.room = rms, !.thread = ths]
        OBVIOUS
      <4> HIDE DEF x, ths, rms
      <4> QED
        BY <4>1 DEF Now
    <3> QED
      BY <3>1, <3>2
  <2> QED
    BY <2>1 DEF RefreshMd5
<1>3. \A n \in Md5s \cup {Outdated} : Aged(n, m) \in {m, Outdated} /\ Aged(Outdated, m) = Outdated
  BY OutdatedIsNoMd5 DEF Aged
<1>4. \A t \in Threads :
        /\ thread[t] = None <=> ths[t] = None
        /\ thread[t] # None => /\ ths[t] \in Thread /\ ths[t].ref = thread[t].ref
                               /\ ths[t].md5 \in {m, Outdated}
                               /\ thread[t].md5 = Outdated => ths[t].md5 = Outdated
  <2> SUFFICES ASSUME NEW t \in Threads, thread[t] # None
               PROVE  /\ ths[t] \in Thread /\ ths[t].ref = thread[t].ref
                      /\ ths[t].md5 \in {m, Outdated}
                      /\ thread[t].md5 = Outdated => ths[t].md5 = Outdated
    BY ThreadFields
  <2> DEFINE n == Aged(thread[t].md5, m)
  <2>1. thread[t] \in Thread
    BY <1>1, NowFields DEF Sound, World
  <2>2. /\ n \in {m, Outdated} /\ n \in Md5s \cup {Outdated}
        /\ thread[t].md5 = Outdated => n = Outdated
    BY <1>3, <2>1, ThreadFields
  <2>3. ths[t] = [thread[t] EXCEPT !.md5 = n]
    OBVIOUS
  <2> DEFINE th == thread[t]
             y == [th EXCEPT !.md5 = n]
  <2>4. y = ths[t] /\ th \in Thread
    BY <2>1, <2>3
  <2> HIDE DEF n, ths, th
  <2>5. y \in Thread /\ y.md5 = n /\ y.ref = th.ref
    BY <2>2, <2>4, WithMd5
  <2> HIDE DEF y
  <2>6. ths[t].ref = thread[t].ref
    BY <2>4, <2>5 DEF th
  <2> QED
    BY <2>2, <2>4, <2>5, <2>6
<1>5. \A r \in Rooms :
        /\ room[r] = None <=> rms[r] = None
        /\ room[r] # None => rms[r] \in Room /\ rms[r].thread = room[r].thread
  <2> SUFFICES ASSUME NEW r \in Rooms, room[r] # None
               PROVE  rms[r] \in Room /\ rms[r].thread = room[r].thread
    BY RoomFields
  <2> DEFINE n == Aged(room[r].md5, m)
  <2>1. room[r] \in Room
    BY <1>1, NowFields DEF Sound, World
  <2>2. n \in Md5s \cup {Outdated}
    BY <1>3, <2>1, RoomFields
  <2>3. rms[r] = [room[r] EXCEPT !.md5 = n]
    OBVIOUS
  <2> HIDE DEF n, rms
  <2> QED
    BY <2>1, <2>2, <2>3 DEF Room
<1>6. ths = [t \in Threads |-> ths[t]] /\ rms = [r \in Rooms |-> rms[r]]
  OBVIOUS
<1> HIDE DEF ths, rms
<1>7. World(w)
  <2>1. ths \in [Threads -> Thread \cup {None}] /\ rms \in [Rooms -> Room \cup {None}]
    BY <1>4, <1>5, <1>6
  <2>2. task \in [Tasks -> Threads \cup {None}] /\ posts \in Seq(Threads)
    BY <1>1, NowFields DEF Sound, World
  <2> QED
    BY <2>1, <2>2 DEF World
<1>8. w.thread = ths /\ w.room = rms /\ w.task = task /\ w.posts = posts
  OBVIOUS
<1> HIDE DEF w
<1>9. Finite(w)
  <2>1. {r \in Rooms : w.room[r] # None} = {r \in Rooms : room[r] # None}
    BY <1>5, <1>8
  <2> QED
    BY <1>1, <1>8, <2>1, NowFields DEF Sound, Finite
<1>10. \A t \in Threads : Users(w, t) = Users(Now, t)
  <2> TAKE t \in Threads
  <2>1. RoomsOn(w, t) = RoomsOn(Now, t) /\ TasksOn(w, t) = TasksOn(Now, t)
    BY <1>5, <1>8, NowFields DEF RoomsOn, TasksOn
  <2> QED
    BY <2>1 DEF Users
<1>11. Counted(w, None, 0)
  BY <1>1, <1>4, <1>8, <1>10, NowFields DEF Sound, Counted
<1>12. Stay(w)
  <2>1. \A r \in Rooms : room[r] # None => room[r].thread \in Threads
    BY <1>1, RoomFields, NowFields DEF Sound, World
  <2>2. \A k \in Tasks : task[k] # None => task[k] \in Threads
    BY <1>1, NowFields DEF Sound, World
  <2> QED
    BY <1>1, <1>4, <1>5, <1>8, <2>1, <2>2, NowFields DEF Sound, Stay
<1>13. PostsHarmless(w)
  <2>1. \A i \in DOMAIN posts : posts[i] \in Threads
    BY <1>1, NowFields DEF Sound, World
  <2> QED
    BY <1>1, <1>4, <1>8, <2>1, NowFields DEF Sound, PostsHarmless
<1>14. \A t \in idle : t \in Threads /\ Idle(w, t)
  OBVIOUS
<1>15. \A t \in Threads : t \notin idle /\ Idle(w, t) => w.thread[t].md5 = m
  OBVIOUS
<1> HIDE DEF idle
<1>16. Sound(RemoveThreads(w, idle), None, 0)
  BY <1>7, <1>9, <1>11, <1>12, <1>13, <1>14, <1>15, OutdatedIsNoMd5, RemoveThreadsSound
<1> QED
  BY <1>1, <1>2, <1>16, BecomesSound

\* The statistics remove old threads that nobody uses.
LEMMA ServerStatStep ==
    ASSUME IInv, ServerStat
    PROVE  IInv'
<1> DEFINE idle == {t \in Threads : Idle(Now, t) /\ thread[t].md5 # md5}
<1>1. Sound(Now, None, 0) /\ md5 \in Md5s /\ md5' = md5 /\ Becomes(RemoveThreads(Now, idle))
  BY DEF IInv, ServerStat
<1>2. \A t \in idle : t \in Threads /\ Idle(Now, t)
  OBVIOUS
<1> HIDE DEF idle
<1>3. Sound(RemoveThreads(Now, idle), None, 0)
  BY <1>1, <1>2, RemoveThreadsSound DEF Sound, IdleGo
<1> QED
  BY <1>1, <1>3, BecomesSound

\* A posted removal runs.
LEMMA RunPostStep ==
    ASSUME IInv, RunPost
    PROVE  IInv'
<1> DEFINE h == Head(posts)
           x == RemoveThreads(Now, {h})
           v == [x EXCEPT !.posts = Tail(@)]
<1>1. Sound(Now, None, 0) /\ md5 \in Md5s /\ md5' = md5 /\ posts # <<>>
      /\ Becomes(v)
  BY DEF IInv, RunPost
<1>2. posts \in Seq(Threads)
  BY <1>1, NowFields DEF Sound, World
<1>3. h = posts[1] /\ 1 \in DOMAIN posts /\ h \in Threads
  BY <1>1, <1>2
<1>4. thread[h] = None \/ Idle(Now, h)
  BY <1>1, <1>3, NowFields DEF Sound, PostsHarmless, Idle
<1> HIDE DEF h
<1>5. /\ Sound(x, None, 0) /\ x.posts = posts
      /\ \A t \in Threads : x.thread[t] = IF t \in {h} THEN None ELSE thread[t]
  <2>1. /\ World(Now) /\ Finite(Now) /\ Counted(Now, None, 0) /\ Stay(Now) /\ PostsHarmless(Now)
        /\ \A t \in {h} : t \in Threads /\ (Now.thread[t] = None \/ Idle(Now, t))
        /\ \A t \in Threads : t \notin {h} /\ Idle(Now, t) /\ Now.thread[t].md5 = Outdated =>
               \E i \in DOMAIN Now.posts : Now.posts[i] = t
    BY <1>1, <1>3, <1>4, NowFields DEF Sound, IdleGo
  <2>2. Sound(x, None, 0)
    BY <2>1, RemoveThreadsSound
  <2>3. x.posts = Now.posts
    BY <2>1, RemoveThreadsSound
  <2>4. \A t \in Threads : x.thread[t] = IF t \in {h} THEN None ELSE Now.thread[t]
    BY <2>1, RemoveThreadsSound
  <2> QED
    BY <2>2, <2>3, <2>4, NowFields
<1> HIDE DEF x
<1>6. v = [thread |-> x.thread, rooms |-> x.rooms, room |-> x.room, task |-> x.task,
           posts |-> Tail(posts)]
  <2>1. v = [x EXCEPT !.posts = Tail(posts)]
    BY <1>5
  <2> HIDE DEF v
  <2> QED
    BY <1>5, <2>1 DEF Sound, World
<1> HIDE DEF v
<1>7. /\ v.thread = x.thread /\ v.room = x.room /\ v.task = x.task /\ v.posts = Tail(posts)
  BY <1>6
<1>8. /\ Tail(posts) \in Seq(Threads)
      /\ \A i \in DOMAIN Tail(posts) : i + 1 \in DOMAIN posts /\ Tail(posts)[i] = posts[i + 1]
      /\ \A i \in DOMAIN posts : i # 1 => i - 1 \in DOMAIN Tail(posts) /\ Tail(posts)[i - 1] = posts[i]
  BY <1>1, <1>2
<1>9. World(v) /\ Finite(v) /\ Stay(v)
  BY <1>5, <1>6, <1>7, <1>8 DEF Sound, World, Finite, Stay
<1>10. \A t \in Threads : Users(v, t) = Users(x, t)
  BY <1>7 DEF Users, RoomsOn, TasksOn
<1>11. Counted(v, None, 0)
  BY <1>5, <1>7, <1>10 DEF Sound, Counted
<1>12. PostsHarmless(v)
  BY <1>5, <1>7, <1>8 DEF Sound, PostsHarmless
<1>13. IdleGo(v)
  <2> SUFFICES ASSUME NEW t \in Threads, Idle(x, t), x.thread[t].md5 = Outdated
               PROVE  \E i \in DOMAIN Tail(posts) : Tail(posts)[i] = t
    BY <1>7 DEF IdleGo, Idle
  <2>1. t # h
    BY <1>5 DEF Idle
  <2>2. PICK i \in DOMAIN posts : posts[i] = t
    BY <1>5 DEF Sound, IdleGo
  <2>3. i # 1
    BY <1>3, <2>1, <2>2
  <2> QED
    BY <1>8, <2>2, <2>3
<1>14. Sound(v, None, 0)
  BY <1>9, <1>11, <1>12, <1>13 DEF Sound
<1> QED
  BY <1>1, <1>14, BecomesSound

-----------------------------------------------------------------------------
(* The theorems *)

\* The invariant says what the runs check.
LEMMA IInvImplies ==
    ASSUME IInv
    PROVE  RefCountExact /\ ThreadsStay /\ IdleThreadsGo
<1>1. Sound(Now, None, 0)
  BY DEF IInv
<1>2. RefCountExact
  <2> SUFFICES ASSUME NEW t \in Threads, thread[t] # None
               PROVE  thread[t].ref = Users(Now, t)
    BY DEF RefCountExact, Users
  <2>1. thread[t].ref = Users(Now, t) + 0 /\ Users(Now, t) \in Nat
    BY <1>1, UsersFinite, NowFields, NoneIsNoId DEF Sound, Counted
  <2> QED
    BY <2>1
<1>3. ThreadsStay
  BY <1>1, NowFields DEF Sound, Stay, ThreadsStay
<1>4. IdleThreadsGo
  BY <1>1, NowFields DEF Sound, IdleGo, IdleThreadsGo
<1> QED
  BY <1>2, <1>3, <1>4

\* The server starts without threads, rooms or tasks.
LEMMA InitSound ==
    ASSUME Init
    PROVE  IInv
<1>1. /\ md5 \in Md5s
      /\ thread = [t \in Threads |-> None] /\ room = [r \in Rooms |-> None]
      /\ task = [k \in Tasks |-> None] /\ posts = <<>>
  BY DEF Init
<1>2. World(Now)
  BY <1>1 DEF Now, World
<1>3. Finite(Now)
  <2>1. {r \in Rooms : room[r] # None} = {} /\ {k \in Tasks : task[k] # None} = {}
    BY <1>1
  <2> QED
    BY <2>1, FS_EmptySet, NowFields DEF Finite
<1>4. Counted(Now, None, 0) /\ Stay(Now) /\ PostsHarmless(Now) /\ IdleGo(Now)
  BY <1>1, NowFields DEF Counted, Stay, PostsHarmless, IdleGo, Idle
<1> QED
  BY <1>1, <1>2, <1>3, <1>4 DEF IInv, Sound

\* Every handler keeps the invariant, and so does a step of none.
LEMMA NextSound ==
    ASSUME IInv, [Next]_vars
    PROVE  IInv'
<1>1. CASE Next
  <2>1. ASSUME NEW r \in Rooms, CreateRoom(r) \/ RemoveRoom(r)
        PROVE  IInv'
    BY <2>1, CreateRoomStep, RemoveRoomStep
  <2>2. ASSUME NEW t \in Threads, NEW c \in Rooms \cup {None}, SignalThread(t, c)
        PROVE  IInv'
    BY <2>2, SignalThreadStep
  <2>3. ASSUME NEW k \in Tasks, CreateTask(k) \/ RemoveTask(k)
        PROVE  IInv'
    BY <2>3, CreateTaskStep, RemoveTaskStep
  <2>4. ASSUME NEW t \in Threads, LuaDies(t)
        PROVE  IInv'
    BY <2>4, LuaDiesStep
  <2>5. ASSUME NEW m \in Md5s, RefreshMd5(m)
        PROVE  IInv'
    BY <2>5, RefreshMd5Step
  <2> QED
    BY <1>1, <2>1, <2>2, <2>3, <2>4, <2>5, ServerStatStep, RunPostStep DEF Next
<1>2. CASE UNCHANGED vars
  <2>1. Becomes(Now) /\ md5' = md5
    BY <1>2, NowFields DEF vars, Becomes
  <2> QED
    BY <2>1, BecomesSound DEF IInv
<1> QED
  BY <1>1, <1>2

\* The inductive invariant holds of every reachable state.
THEOREM Invariance == Spec => []IInv
<1>1. Init => IInv
  BY InitSound
<1>2. IInv /\ [Next]_vars => IInv'
  BY NextSound
<1> QED
  BY <1>1, <1>2, PTL DEF Spec

\* roomthread.h: the reference count of every thread is the number of the rooms
\* and tasks that use it, whatever a shutdown passes over.
THEOREM CountsAreExact == Spec => []RefCountExact
<1>1. IInv => RefCountExact
  BY IInvImplies
<1> QED
  BY <1>1, Invariance, PTL

\* removeThread, posted without a second look at the count, never takes the
\* thread of a room or of a task.
THEOREM NoThreadIsTaken == Spec => []ThreadsStay
<1>1. IInv => ThreadsStay
  BY IInvImplies
<1> QED
  BY <1>1, Invariance, PTL

\* No outdated thread without users is left behind: its removal is posted.
THEOREM NoThreadIsLeft == Spec => []IdleThreadsGo
<1>1. IInv => IdleThreadsGo
  BY IInvImplies
<1> QED
  BY <1>1, Invariance, PTL

=============================================================================
