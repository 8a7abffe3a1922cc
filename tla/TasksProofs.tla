---------------------------- MODULE TasksProofs ----------------------------
(***************************************************************************)
(* The properties of Tasks, proved for any users and any tasks. Both are   *)
(* inductive once it is known that only finitely many tasks exist at a     *)
(* time, so that removing all tasks of a user sends each of them an abort, *)
(* and that the task which start() still uses is not removed meanwhile.    *)
(***************************************************************************)
EXTENDS Tasks, FiniteSetTheorems, SequenceTheorems, TLAPS

(* The inductive invariant *)

Entries == [user : Users, ref : Int]
Signals == {"newtask", "resume", "abort"} \X Tasks
Existing == {k \in Tasks : task[k] # None}

Typed ==
    /\ lobby \subseteq Users
    /\ task \in [Tasks -> Entries \cup {None}]
    /\ listed \in [Users -> SUBSET Tasks]
    /\ starting \in Tasks \cup {None}
    /\ jobs \in Seq(Signals)
    /\ lua \in [Tasks -> {"none", "running", "yielded", "ending", "closed"}]
    /\ away \subseteq Tasks
    /\ posts \in Seq(Tasks)

\* start() has its task until it is done with it.
StartingExists == starting # None => starting \in Existing

IInv ==
    /\ Typed
    /\ IsFiniteSet(Existing)
    /\ StartingExists
    /\ TasksOfTheLobby
    /\ NoStrayCoroutine

-----------------------------------------------------------------------------
(* Removing tasks *)

\* A sequence of the elements of a finite set has all of them.
LEMMA SeqsCover ==
    ASSUME NEW S, IsFiniteSet(S), NEW order \in SetToSeqs(S)
    PROVE  /\ order \in Seq(S)
           /\ \A x \in S : \E i \in DOMAIN order : order[i] = x
<1> DEFINE D == 1..Cardinality(S)
<1>1. Cardinality(S) \in Nat
  BY FS_CardinalityType
<1>2. /\ order \in [D -> S]
      /\ \A i, j \in D : i # j => order[i] # order[j]
  BY DEF SetToSeqs
<1>3. order \in Injection(D, S)
  BY <1>2 DEF Injection, IsInjective
<1>4. Cardinality(D) = Cardinality(S)
  BY <1>1, FS_Interval
<1>5. order \in Surjection(D, S)
  BY <1>3, <1>4, FS_Injection
<1>6. \A x \in S : \E i \in D : order[i] = x
  BY <1>5 DEF Surjection
<1>7. order \in Seq(S)
  BY <1>1, <1>2
<1> QED
  BY <1>2, <1>6, <1>7

\* removeTask: the map and the lists lose the same tasks, no other task changes,
\* and each of those removed has an abort waiting behind the signals before.
LEMMA Removed ==
    ASSUME Typed, IsFiniteSet(Existing), NEW ks \in SUBSET Tasks, RemoveTasks(ks)
    PROVE  /\ task' = [k \in Tasks |-> IF k \in ks THEN None ELSE task[k]]
           /\ listed' = [u \in Users |-> listed[u] \ (ks \cap Existing)]
           /\ jobs' \in Seq(Signals)
           /\ \A j \in DOMAIN jobs : j \in DOMAIN jobs' /\ jobs'[j] = jobs[j]
           /\ \A k \in ks \cap Existing : \E j \in DOMAIN jobs' : jobs'[j] = <<"abort", k>>
<1> DEFINE gone == {k \in ks : task[k] # None}
<1>1. gone = ks \cap Existing
  BY DEF Existing
<1>2. IsFiniteSet(gone)
  BY <1>1, FS_Subset
<1>3. PICK order \in SetToSeqs(gone) :
          jobs' = jobs \o [i \in DOMAIN order |-> <<"abort", order[i]>>]
  BY DEF RemoveTasks
<1>4. /\ task' = [k \in Tasks |-> IF k \in gone THEN None ELSE task[k]]
      /\ listed' = [u \in Users |-> listed[u] \ gone]
  BY DEF RemoveTasks
<1> HIDE DEF gone
<1>5. order \in Seq(gone) /\ \A x \in gone : \E i \in DOMAIN order : order[i] = x
  BY <1>2, SeqsCover
<1> DEFINE aborts == [i \in DOMAIN order |-> <<"abort", order[i]>>]
<1>6. aborts \in Seq(Signals) /\ DOMAIN aborts = DOMAIN order
  <2>1. gone \subseteq Tasks
    BY <1>1
  <2>2. Len(order) \in Nat /\ DOMAIN order = 1..Len(order)
    BY <1>5
  <2>3. \A i \in 1..Len(order) : <<"abort", order[i]>> \in Signals
    BY <1>5, <2>1 DEF Signals
  <2> QED
    BY <2>2, <2>3
<1>7. \A k \in gone : \E i \in DOMAIN aborts : aborts[i] = <<"abort", k>>
  BY <1>5, <1>6
<1>8. jobs \in Seq(Signals) /\ jobs' = jobs \o aborts
  BY <1>3 DEF Typed
<1> HIDE DEF aborts
<1>9. jobs' \in Seq(Signals)
  BY <1>6, <1>8
<1>10. \A j \in DOMAIN jobs : j \in DOMAIN jobs' /\ jobs'[j] = jobs[j]
  BY <1>6, <1>8
<1>11. \A i \in DOMAIN aborts : Len(jobs) + i \in DOMAIN jobs' /\ jobs'[Len(jobs) + i] = aborts[i]
  BY <1>6, <1>8
<1>12. \A k \in gone : \E j \in DOMAIN jobs' : jobs'[j] = <<"abort", k>>
  BY <1>7, <1>11
<1>13. task' = [k \in Tasks |-> IF k \in ks THEN None ELSE task[k]]
  BY <1>1, <1>4 DEF Existing
<1> QED
  BY <1>1, <1>4, <1>9, <1>10, <1>12, <1>13

\* So that the invariant survives it, whoever calls it on the free main thread.
LEMMA RemovedKept ==
    ASSUME IInv, NEW ks \in SUBSET Tasks, RemoveTasks(ks), MainFree,
           UNCHANGED <<starting, lua, away>>, lobby' \subseteq Users, posts' \in Seq(Tasks),
           \A u \in Users : u \notin lobby' => u \notin lobby \/ listed[u] \subseteq ks
    PROVE  IInv'
<1> USE DEF IInv
<1> DEFINE gone == ks \cap Existing
<1>1. /\ task' = [k \in Tasks |-> IF k \in ks THEN None ELSE task[k]]
      /\ listed' = [u \in Users |-> listed[u] \ gone]
      /\ jobs' \in Seq(Signals)
  BY Removed
<1>2. /\ \A j \in DOMAIN jobs : j \in DOMAIN jobs' /\ jobs'[j] = jobs[j]
      /\ \A k \in gone : \E j \in DOMAIN jobs' : jobs'[j] = <<"abort", k>>
  BY Removed
<1>3. Typed'
  BY <1>1 DEF Typed
<1>4. Existing' = Existing \ ks
  BY <1>1 DEF Existing
<1>5. IsFiniteSet(Existing')
  BY <1>4, FS_Subset
<1>6. StartingExists'
  BY DEF StartingExists, MainFree
<1>7. TasksOfTheLobby'
  <2> SUFFICES ASSUME NEW u \in Users
               PROVE  /\ listed'[u] = {k \in Tasks : task'[k] # None /\ task'[k].user = u}
                      /\ u \notin lobby' => listed'[u] = {}
    BY DEF TasksOfTheLobby
  <2>1. /\ listed[u] = {k \in Tasks : task[k] # None /\ task[k].user = u}
        /\ u \notin lobby => listed[u] = {}
    BY DEF TasksOfTheLobby
  <2>2. listed'[u] = listed[u] \ gone /\ listed[u] \subseteq Existing
    BY <1>1, <2>1 DEF Existing
  <2>3. u \notin lobby' => listed'[u] = {}
    BY <2>1, <2>2
  <2>4. {k \in Tasks : task'[k] # None /\ task'[k].user = u} = listed[u] \ ks
    BY <1>1, <2>1
  <2> QED
    BY <2>2, <2>3, <2>4
<1>8. NoStrayCoroutine'
  <2> SUFFICES ASSUME NEW k \in Tasks, task'[k] = None, lua'[k] = "yielded"
               PROVE  \E j \in DOMAIN jobs' : jobs'[j] = <<"abort", k>>
    BY DEF NoStrayCoroutine
  <2>1. CASE k \in gone
    BY <1>2, <2>1
  <2>2. CASE k \notin gone
    <3>1. task[k] = None
      BY <1>1, <2>2 DEF Existing
    <3> QED
      BY <1>2, <3>1 DEF NoStrayCoroutine
  <2> QED
    BY <2>1, <2>2
<1> QED
  BY <1>3, <1>5, <1>6, <1>7, <1>8

-----------------------------------------------------------------------------
(* The steps *)

\* A new signal goes behind those that wait.
LEMMA Appended ==
    ASSUME jobs \in Seq(Signals), NEW x \in Signals, jobs' = Append(jobs, x)
    PROVE  /\ jobs' \in Seq(Signals)
           /\ \A j \in DOMAIN jobs : j \in DOMAIN jobs' /\ jobs'[j] = jobs[j]
OBVIOUS

\* Aborts that wait still do so.
Kept(k) == (\E j \in DOMAIN jobs : jobs[j] = <<"abort", k>>)
               => \E j \in DOMAIN jobs' : jobs'[j] = <<"abort", k>>

\* What is left of the invariant when the tasks and the lists stay as they are
\* but for the counts.
LEMMA CountsOnly ==
    ASSUME IInv, Typed', UNCHANGED <<lobby, listed>>, starting' \in {starting, None},
           \A k \in Tasks : /\ task'[k] = None <=> task[k] = None
                            /\ task[k] # None => task'[k].user = task[k].user,
           \A k \in Tasks : (lua'[k] = "yielded" /\ task[k] = None) =>
                                lua[k] = "yielded" /\ Kept(k)
    PROVE  IInv'
<1>1. Existing' = Existing
  BY DEF Existing
<1>2. StartingExists'
  BY <1>1 DEF IInv, StartingExists
<1>3. TasksOfTheLobby'
  BY DEF IInv, TasksOfTheLobby
<1>4. NoStrayCoroutine'
  BY DEF IInv, NoStrayCoroutine, Kept
<1> QED
  BY <1>1, <1>2, <1>3, <1>4 DEF IInv

\* Every step keeps the invariant.
LEMMA NextIInv == IInv /\ [Next]_vars => IInv'
<1> SUFFICES ASSUME IInv, [Next]_vars
             PROVE  IInv'
  OBVIOUS
<1>t. Typed
  BY DEF IInv
<1>1. ASSUME NEW u \in Users, NEW k \in Tasks, HandleTask(u, k)
      PROVE  IInv'
  <2> DEFINE new == [user |-> u, ref |-> 0]
  <2>1. new \in Entries /\ new # None /\ new.user = u
    BY NoneIsNoTask DEF Entries
  <2> HIDE DEF new
  <2>2. /\ UNCHANGED <<lobby, lua, away, posts>> /\ u \in lobby /\ task[k] = None
        /\ task' = [task EXCEPT ![k] = new]
        /\ listed' = [listed EXCEPT ![u] = @ \cup {k}]
        /\ jobs' = Append(jobs, <<"newtask", k>>)
        /\ starting' = k
    BY <1>1 DEF HandleTask, new
  <2>3. /\ jobs' \in Seq(Signals)
        /\ \A j \in DOMAIN jobs : j \in DOMAIN jobs' /\ jobs'[j] = jobs[j]
    BY <1>t, <2>2, Appended DEF Typed, Signals
  <2>4. Typed'
    BY <1>t, <2>1, <2>2, <2>3 DEF Typed
  <2>5. Existing' = Existing \cup {k}
    BY <1>t, <2>1, <2>2 DEF Existing, Typed
  <2>6. IsFiniteSet(Existing')
    BY <2>5, FS_AddElement DEF IInv
  <2>7. StartingExists'
    BY <2>2, <2>5 DEF StartingExists
  <2>8. TasksOfTheLobby'
    <3> SUFFICES ASSUME NEW v \in Users
                 PROVE  /\ listed'[v] = {i \in Tasks : task'[i] # None /\ task'[i].user = v}
                        /\ v \notin lobby' => listed'[v] = {}
      BY DEF TasksOfTheLobby
    <3>1. /\ listed[v] = {i \in Tasks : task[i] # None /\ task[i].user = v}
          /\ v \notin lobby => listed[v] = {}
      BY DEF IInv, TasksOfTheLobby
    <3>2. listed'[v] = IF v = u THEN listed[v] \cup {k} ELSE listed[v]
      BY <1>t, <2>2 DEF Typed
    <3>3. \A i \in Tasks : task'[i] = IF i = k THEN new ELSE task[i]
      BY <1>t, <2>2 DEF Typed
    <3> QED
      BY <2>1, <2>2, <3>1, <3>2, <3>3
  <2>9. NoStrayCoroutine'
    <3>1. \A i \in Tasks : task'[i] = IF i = k THEN new ELSE task[i]
      BY <1>t, <2>2 DEF Typed
    <3> QED
      BY <2>1, <2>2, <2>3, <3>1 DEF IInv, NoStrayCoroutine
  <2> QED
    BY <2>4, <2>6, <2>7, <2>8, <2>9 DEF IInv
<1>2. ASSUME NEW u \in Users, LeaveLobby(u)
      PROVE  IInv'
  <2>1. listed[u] \in SUBSET Tasks /\ MainFree /\ RemoveTasks(listed[u])
    BY <1>2, <1>t DEF LeaveLobby, Typed
  <2>2. /\ UNCHANGED <<starting, lua, away>> /\ lobby' \subseteq Users /\ posts' \in Seq(Tasks)
        /\ \A v \in Users : v \notin lobby' => v \notin lobby \/ listed[v] \subseteq listed[u]
    BY <1>2, <1>t DEF LeaveLobby, Typed
  <2> QED
    BY <2>1, <2>2, RemovedKept
<1>3. ASSUME NEW u \in Users, EnterLobby(u)
      PROVE  IInv'
  <2>1. /\ UNCHANGED <<task, listed, starting, jobs, lua, away, posts>>
        /\ lobby' = lobby \cup {u}
    BY <1>3 DEF EnterLobby
  <2> QED
    BY <2>1 DEF IInv, Typed, Existing, StartingExists, TasksOfTheLobby, NoStrayCoroutine
<1>4. CASE IncreaseRefCount
  <2> DEFINE k == starting
             new == [task[k] EXCEPT !.ref = @ + 1]
  <2>1. k \in Tasks /\ task[k] # None /\ task[k] \in Entries
    BY <1>4, <1>t DEF IncreaseRefCount, IInv, StartingExists, Existing, Typed
  <2>2. new \in Entries /\ new.user = task[k].user /\ new # None
    BY <2>1, NoneIsNoTask DEF Entries
  <2>3. /\ UNCHANGED <<lobby, listed, jobs, lua, away, posts>> /\ starting' = None
        /\ task' = [task EXCEPT ![k] = new]
    BY <1>4 DEF IncreaseRefCount
  <2> HIDE DEF new, k
  <2>4. Typed'
    BY <1>t, <2>1, <2>2, <2>3 DEF Typed
  <2>5. \A i \in Tasks : /\ task'[i] = None <=> task[i] = None
                         /\ task[i] # None => task'[i].user = task[i].user
    BY <1>t, <2>1, <2>2, <2>3 DEF Typed
  <2>6. \A i \in Tasks : Kept(i)
    BY <2>3 DEF Kept
  <2> QED
    BY <2>3, <2>4, <2>5, <2>6, CountsOnly
<1>5. CASE RunPost
  <2>1. /\ {Head(posts)} \in SUBSET Tasks /\ MainFree /\ RemoveTasks({Head(posts)})
        /\ posts' \in Seq(Tasks)
    BY <1>5, <1>t DEF RunPost, Typed
  <2>2. /\ UNCHANGED <<starting, lua, away>> /\ lobby' \subseteq Users
        /\ \A v \in Users : v \notin lobby' => v \notin lobby \/ listed[v] \subseteq {Head(posts)}
    BY <1>5, <1>t DEF RunPost, Typed
  <2> QED
    BY <2>1, <2>2, RemovedKept
<1>6. CASE RunJob
  <2> DEFINE kind == Head(jobs)[1]
             k == Head(jobs)[2]
  <2>1. /\ jobs # <<>> /\ LuaFree /\ UNCHANGED <<lobby, task, listed, starting, away, posts>>
        /\ lua' = [lua EXCEPT ![k] = After(kind, k)] /\ jobs' = Tail(jobs)
    BY <1>6 DEF RunJob
  <2>2. Head(jobs) \in Signals /\ Head(jobs) = jobs[1] /\ jobs' \in Seq(Signals)
    BY <1>t, <2>1 DEF Typed
  <2>3. k \in Tasks /\ kind \in {"newtask", "resume", "abort"} /\ Head(jobs) = <<kind, k>>
    BY <2>2 DEF Signals
  <2> HIDE DEF kind, k
  <2>4. /\ After(kind, k) \in {"none", "running", "yielded", "ending", "closed"}
        /\ After(kind, k) = "yielded" => lua[k] = "yielded" /\ kind # "abort"
    BY <1>t, <2>3 DEF After, Typed
  <2>5. Typed'
    BY <1>t, <2>1, <2>2, <2>3, <2>4 DEF Typed
  <2>6. \A i \in Tasks : i # k \/ kind # "abort" => Kept(i)
    <3> SUFFICES ASSUME NEW i \in Tasks, i # k \/ kind # "abort",
                        NEW j \in DOMAIN jobs, jobs[j] = <<"abort", i>>
                 PROVE  \E l \in DOMAIN jobs' : jobs'[l] = <<"abort", i>>
      BY DEF Kept
    <3>1. j # 1
      BY <2>2, <2>3
    <3>2. j - 1 \in DOMAIN jobs' /\ jobs'[j - 1] = jobs[j]
      BY <1>t, <2>1, <3>1 DEF Typed
    <3> QED
      BY <3>2
  <2>7. \A i \in Tasks : (lua'[i] = "yielded" /\ task[i] = None) =>
                              lua[i] = "yielded" /\ Kept(i)
    BY <1>t, <2>1, <2>3, <2>4, <2>6 DEF Typed
  <2> QED
    BY <2>1, <2>5, <2>7, CountsOnly
<1>7. ASSUME NEW k \in Tasks, QueryDone(k)
      PROVE  IInv'
  <2>1. /\ UNCHANGED <<lobby, task, listed, starting, lua, posts>> /\ away' \subseteq Tasks
        /\ jobs' = jobs \/ jobs' = Append(jobs, <<"resume", k>>)
    BY <1>7, <1>t DEF QueryDone, Typed
  <2>2. <<"resume", k>> \in Signals
    BY DEF Signals
  <2>3. jobs' \in Seq(Signals) /\ \A j \in DOMAIN jobs : j \in DOMAIN jobs' /\ jobs'[j] = jobs[j]
    BY <1>t, <2>1, <2>2, Appended DEF Typed
  <2>4. Typed' /\ \A i \in Tasks : Kept(i)
    BY <1>t, <2>1, <2>3 DEF Typed, Kept
  <2> QED
    BY <2>1, <2>4, CountsOnly
<1>8. ASSUME NEW k \in Tasks, DelayDone(k)
      PROVE  IInv'
  <2>1. /\ UNCHANGED <<lobby, task, listed, starting, jobs, posts>> /\ away' \subseteq Tasks
        /\ lua' = [lua EXCEPT ![k] = After("resume", k)]
    BY <1>8, <1>t DEF DelayDone, Typed
  <2>2. After("resume", k) = IF lua[k] = "yielded" THEN "running" ELSE lua[k]
    BY DEF After
  <2>3. Typed' /\ \A i \in Tasks : Kept(i) /\ (lua'[i] = "yielded" => lua[i] = "yielded")
    BY <1>t, <2>1, <2>2 DEF Typed, Kept
  <2> QED
    BY <2>1, <2>3, CountsOnly
<1>9. ASSUME NEW k \in Tasks, Yield(k)
      PROVE  IInv'
  <2>1. /\ UNCHANGED <<lobby, task, listed, starting, jobs, posts>> /\ away' \subseteq Tasks
        /\ lua' = [lua EXCEPT ![k] = "yielded"] /\ task[k] # None
    BY <1>9, <1>t DEF Yield, Typed
  <2>2. /\ Typed'
        /\ \A i \in Tasks : Kept(i) /\ (lua'[i] = "yielded" => lua[i] = "yielded" \/ i = k)
    BY <1>t, <2>1 DEF Typed, Kept
  <2> QED
    BY <2>1, <2>2, CountsOnly
<1>10. ASSUME NEW k \in Tasks, DecreaseRefCount(k)
      PROVE  IInv'
  <2>1. /\ UNCHANGED <<lobby, listed, starting, jobs, away, posts>>
        /\ \E s \in {"closed", "ending"} : lua' = [lua EXCEPT ![k] = s]
    BY <1>10 DEF DecreaseRefCount
  <2>2. \A i \in Tasks : Kept(i) /\ (lua'[i] = "yielded" => lua[i] = "yielded")
    BY <1>t, <2>1 DEF Typed, Kept
  <2>3. CASE task[k] = None
    <3>1. task' = task
      BY <1>10, <2>3 DEF DecreaseRefCount
    <3>2. Typed'
      BY <1>t, <2>1, <3>1 DEF Typed
    <3> QED
      BY <2>1, <2>2, <3>1, <3>2, CountsOnly
  <2>4. CASE task[k] # None
    <3> DEFINE new == [task[k] EXCEPT !.ref = @ - 1]
    <3>1. task[k] \in Entries
      BY <1>t, <2>4 DEF Typed
    <3>2. new \in Entries /\ new.user = task[k].user /\ new # None
      BY <3>1, NoneIsNoTask DEF Entries
    <3>3. task' = [task EXCEPT ![k] = new]
      BY <1>10, <2>4 DEF DecreaseRefCount
    <3> HIDE DEF new
    <3>4. Typed'
      BY <1>t, <2>1, <3>2, <3>3 DEF Typed
    <3>5. \A i \in Tasks : /\ task'[i] = None <=> task[i] = None
                           /\ task[i] # None => task'[i].user = task[i].user
      BY <1>t, <2>4, <3>2, <3>3 DEF Typed
    <3> QED
      BY <2>1, <2>2, <3>4, <3>5, CountsOnly
  <2> QED
    BY <2>3, <2>4
<1>11. ASSUME NEW k \in Tasks, CheckRefCount(k)
      PROVE  IInv'
  <2>1. /\ UNCHANGED <<lobby, task, listed, starting, jobs, away>>
        /\ lua' = [lua EXCEPT ![k] = "closed"] /\ posts' \in Seq(Tasks)
    BY <1>11, <1>t DEF CheckRefCount, Typed
  <2>2. Typed' /\ \A i \in Tasks : Kept(i) /\ (lua'[i] = "yielded" => lua[i] = "yielded")
    BY <1>t, <2>1 DEF Typed, Kept
  <2> QED
    BY <2>1, <2>2, CountsOnly
<1>12. CASE UNCHANGED vars
  BY <1>12 DEF vars, IInv, Typed, Existing, StartingExists, TasksOfTheLobby, NoStrayCoroutine
<1> QED
  BY <1>1, <1>2, <1>3, <1>4, <1>5, <1>6, <1>7, <1>8, <1>9, <1>10, <1>11, <1>12 DEF Next

\* Nothing exists at the start.
LEMMA InitIInv == Init => IInv
<1> SUFFICES ASSUME Init PROVE IInv
  OBVIOUS
<1>1. Typed /\ StartingExists
  BY DEF Init, Typed, StartingExists
<1>2. Existing = {}
  BY DEF Init, Existing
<1>3. IsFiniteSet(Existing)
  BY <1>2, FS_EmptySet
<1>4. TasksOfTheLobby /\ NoStrayCoroutine
  BY DEF Init, TasksOfTheLobby, NoStrayCoroutine
<1> QED
  BY <1>1, <1>3, <1>4 DEF IInv

-----------------------------------------------------------------------------
(* The theorems *)

\* The inductive invariant holds of every state of the system.
THEOREM Invariance == Spec => []IInv
BY InitIInv, NextIInv, PTL DEF Spec

\* The list of a user names exactly the user's tasks, and nobody outside the
\* lobby has any (attachTaskToUser, removeTask, Lobby::removePlayer).
THEOREM ListsAreExact == Spec => []TasksOfTheLobby
<1>1. IInv => TasksOfTheLobby
  BY DEF IInv
<1> QED
  BY <1>1, Invariance, PTL

\* A coroutine that waits has its task, or an abort on its way (~Task, abort and
\* the room thread's queue of signals).
THEOREM NoCoroutineIsLeft == Spec => []NoStrayCoroutine
<1>1. IInv => NoStrayCoroutine
  BY DEF IInv
<1> QED
  BY <1>1, Invariance, PTL

=============================================================================
