------------------------------- MODULE LuaLink -------------------------------
(***************************************************************************)
(* A room's thread and its Lua process. The thread calls Lua and waits for *)
(* the answer; meanwhile it serves what Lua asks for, which may need the   *)
(* main loop. Packets travel over two pipes and may be read in pieces, and *)
(* Lua may write what is no packet. Lua may die at any moment, and the     *)
(* server may quit: the main thread then joins the thread, says goodbye to *)
(* Lua itself, and joins the thread that answers the administrator's HTTP  *)
(* requests.                                                               *)
(***************************************************************************)
EXTENDS Integers, Sequences

CONSTANTS
    MaxJobs,    \* signals waiting on the thread's io_ctx
    MaxId,      \* the last request id, after which they start again
    MaxSent,    \* packets Lua sends during one call before it answers
    MaxAstray   \* waits that end on the wrong bytes

ASSUME Bounds ==
    MaxJobs \in Nat \ {0} /\ MaxId \in Nat \ {0} /\ MaxSent \in Nat /\ MaxAstray \in Nat

VARIABLES
    main,       \* where the main thread is
    jobs,       \* number of signals waiting on io_ctx
    pc,         \* what the thread that is in a call does next
    callId,     \* the id of that call, or of the last one
    serves,     \* the packet of Lua that it serves
    toLua,      \* the child's stdin
    toServer,   \* the child's stdout
    half,       \* the first part of Head(toServer) was read already
    buf,        \* cborBuffer: whole packets that were read and not decoded
    astray,     \* how often bytes that are no packet, or the wrong one, were acted on
    alive,      \* the Lua process runs
    http,       \* the HTTP thread waits for the main loop
    lua         \* what Lua does, for which call, and how much more it may send

thread == <<pc, callId, serves, astray>>
link == <<toLua, toServer, half, buf>>
vars == <<main, jobs, thread, link, alive, lua, http>>

\* A packet is its kind and its id, which is 0 where it has none.
None == [k |-> "none", id |-> 0]

\* Lua's greeting, its other notifications, and an error that names no request.
Hello == [k |-> "hello", id |-> 0]
Note == [k |-> "note", id |-> 0]
NoId == [k |-> "err", id |-> 0]

\* Bytes that are no packet: text that Lua prints, the rest of a packet whose first
\* part was thrown away.
Junk == [k |-> "junk", id |-> 0]

\* What such bytes may be taken for: a response with another id is served like Hello.
Packets == {Hello, Note, NoId, [k |-> "req", id |-> 1], [k |-> "res", id |-> callId]}

-----------------------------------------------------------------------------
\* RpcLua::RpcLua, on the main thread: the process is forked, and wait() is
\* entered for its hello. RoomThread::start follows.
Init ==
    /\ main = "start" /\ jobs = 0
    /\ pc = "wait" /\ callId = 0 /\ serves = None
    /\ toLua = <<>> /\ toServer = <<>> /\ half = FALSE /\ buf = <<>>
    /\ astray = 0 /\ alive = TRUE /\ http = FALSE
    /\ lua = [does |-> "run", left |-> MaxSent, call |-> 0]

-----------------------------------------------------------------------------
(* A call, and its wait *)

\* emit_signal, from the main thread or from a timer of the thread.
Signal ==
    /\ main = "run" /\ alive /\ jobs < MaxJobs
    /\ jobs' = jobs + 1
    /\ UNCHANGED <<main, thread, link, alive, lua, http>>

\* io_ctx hands the thread a signal, which calls Lua.
TakeJob ==
    /\ main = "run" /\ pc = "idle" /\ jobs > 0
    /\ jobs' = jobs - 1
    /\ pc' = "call"
    /\ UNCHANGED <<main, callId, serves, astray, link, alive, lua, http>>

\* The call is over, and with it what the main thread waited for.
Return ==
    /\ pc' = "idle"
    /\ main' = CASE main = "start" -> "run"
                 [] main = "bye" -> "reap"
                 [] OTHER -> main

\* call(): nothing is sent to a process that is known to be dead.
CallDead ==
    /\ pc = "call" /\ ~alive
    /\ Return
    /\ UNCHANGED <<jobs, callId, serves, astray, link, alive, lua, http>>

\* call(): the request gets the next id; alive() was asked before the write.
CallAlive ==
    /\ pc = "call" /\ alive
    /\ callId' = IF callId = MaxId THEN 1 ELSE callId + 1
    /\ pc' = "send"
    /\ UNCHANGED <<main, jobs, serves, astray, link, alive, lua, http>>

\* write_some to the pipe of a dead process ends the whole server: SIGPIPE is
\* not caught, and were it ignored nobody would catch the exception.
Broken ==
    /\ main' = "crashed"
    /\ UNCHANGED <<jobs, thread, link, alive, lua, http>>

\* sendRequest
Send ==
    /\ pc = "send"
    /\ IF alive
       THEN /\ toLua' = Append(toLua, [k |-> "req", id |-> callId])
            /\ pc' = "wait"
            /\ UNCHANGED <<main, jobs, callId, serves, astray, toServer, half, buf>>
            /\ UNCHANGED <<alive, lua, http>>
       ELSE Broken

\* wait() asks whether the process is still there, and enters read_some.
WaitLoop ==
    /\ pc = "wait"
    /\ IF alive THEN pc' = "read" /\ UNCHANGED main ELSE Return
    /\ UNCHANGED <<jobs, callId, serves, astray, link, alive, lua, http>>

\* read_some reports the end of the output of a process that has died.
ReadEnd ==
    /\ pc = "read" /\ ~alive /\ toServer = <<>>
    /\ Return
    /\ UNCHANGED <<jobs, callId, serves, astray, link, alive, lua, http>>

\* A wait that takes whatever is no request for its answer.
AnswersAnyhow(p) == p.k # "req"

\* A wait that takes an error for one more request of Lua.
AnswersResultOnly(p) ==
    IF main = "start" THEN p = Hello ELSE p = [k |-> "res", id |-> callId]

\* wait(): the notification or response it waits for, or any error.
Answers(p) ==
    \/ p.k = "err"
    \/ IF main = "start" THEN p = Hello ELSE p = [k |-> "res", id |-> callId]

\* What readJsonRpcPacket can decode once n more packets were read to their end:
\* a part of a packet is kept until the rest has come.
Whole(n) == buf \o SubSeq(toServer, 1, n)

Unread(n) == SubSeq(toServer, n + 1, Len(toServer))

\* The method of a packet is a view of cborBuffer, to whose front wait() moves what
\* follows the packet before it looks at the method: it may then read like another.
Seen(p, more) == IF more /\ p \in {Hello, Note} THEN {Hello, Note} ELSE {p}

\* wait() returns, or goes on to serve p.
Take(p) ==
    IF Answers(p) THEN Return /\ UNCHANGED serves
    ELSE pc' = "serve" /\ serves' = p /\ UNCHANGED main

\* Lua and the thread do not agree any more on who waits for what.
GoesAstray == astray < MaxAstray /\ astray' = astray + 1

\* The first packet of got is decoded, and the rest kept for after the next read.
TakeFirst(got, more) ==
    \E p \in Seen(Head(got), more) :
        /\ buf' = Tail(got)
        /\ Take(p)
        /\ IF Answers(p) /\ ~Answers(Head(got)) THEN GoesAstray ELSE UNCHANGED astray

\* Not yet a packet: CBOR_DECODER_NEDATA. After items that no packet has, that is the
\* answer to everything that follows.
Await(got) == buf' = got /\ pc' = "wait" /\ UNCHANGED <<main, serves, astray>>

\* Bytes that are no packet, but hold something that reads like one, or swallow what
\* comes before the next packet that is one.
Mistake(got) ==
    \E k \in 1..Len(got), left \in {<<>>, <<Junk>>} :
        \E p \in (Packets \cup {got[k]}) \ {Junk} :
            /\ buf' = left \o SubSeq(got, k + 1, Len(got))
            /\ Take(p)
            /\ GoesAstray

\* CBOR_DECODER_ERROR: what was read is thrown away and the wait given up.
GiveUp(n, h) ==
    /\ buf' = <<>> /\ half' = FALSE
    /\ toServer' = IF h THEN <<Junk>> \o Unread(n + 1) ELSE Unread(n)
    /\ Return
    /\ GoesAstray
    /\ UNCHANGED serves

\* read_some returns n packets to the end, and perhaps a part of the next; then
\* readJsonRpcPacket looks for one packet.
Read(n, h) ==
    /\ pc = "read" /\ n <= Len(toServer)
    /\ h => n < Len(toServer)
    /\ n > 0 \/ (h /\ ~half)
    /\ LET got == Whole(n)
           junk == got # <<>> /\ Head(got) = Junk
       IN  \/ /\ toServer' = Unread(n) /\ half' = h
              /\ \/ (got = <<>> \/ junk) /\ Await(got)
                 \/ got # <<>> /\ ~junk /\ TakeFirst(got, Len(got) > 1 \/ h)
                 \/ junk /\ Mistake(got)
           \/ junk /\ GiveUp(n, h)
    /\ UNCHANGED <<jobs, callId, toLua, alive, lua, http>>

-----------------------------------------------------------------------------
(* Serving what Lua asks for *)

\* handleRequest runs a dispatcher that needs nobody else.
ServeHere ==
    /\ pc = "serve"
    /\ pc' = "reply"
    /\ UNCHANGED <<main, jobs, callId, serves, astray, link, alive, lua, http>>

\* doNotify and gameOver hand a function to the main loop and wait; so does
\* emitKicked, unless the loop is known to have stopped.
ServeOnMain ==
    /\ pc = "serve" /\ main \in {"run", "join"}
    /\ pc' = "main"
    /\ UNCHANGED <<main, jobs, callId, serves, astray, link, alive, lua, http>>

\* The main loop runs the function.
RunOnMain ==
    /\ pc = "main" /\ main = "run"
    /\ pc' = "reply"
    /\ UNCHANGED <<main, jobs, callId, serves, astray, link, alive, lua, http>>

\* A handleRequest that says nothing where the dispatcher has failed.
RepliesUnlessFailed(p) == IF p.k = "req" THEN {<<>>, <<[k |-> "res", id |-> p.id]>>} ELSE {<<>>}

\* handleRequest: the result of a request, or its error, which ends it alike. A
\* notification gets an error without id if its method is unknown or fails, and so
\* does an answer that nobody waits for: it has no method at all.
Replies(p) ==
    CASE p.k = "req" -> {<<[k |-> "res", id |-> p.id]>>}
      [] p.k = "note" -> {<<>>, <<NoId>>}
      [] OTHER -> {<<NoId>>}

\* sendResponse or sendError
Reply ==
    /\ pc = "reply"
    /\ \E r \in Replies(serves) :
        IF r # <<>> /\ ~alive THEN Broken
        ELSE /\ toLua' = toLua \o r
             /\ serves' = None
             /\ pc' = "wait"
             /\ UNCHANGED <<main, jobs, callId, astray, toServer, half, buf, alive, lua, http>>

-----------------------------------------------------------------------------
(* Lua: the packages' code, of which the server knows the packets only *)

LuaRuns == alive /\ lua.does = "run"
LuaWaits == alive /\ lua.does \in {"listen", "ask"} /\ toLua = <<>>

LuaSends(p, does) ==
    /\ LuaRuns
    /\ toServer' = Append(toServer, p)
    /\ lua' = [lua EXCEPT !.does = does, !.left = IF does = "listen" THEN 0 ELSE @ - 1]
    /\ UNCHANGED <<main, jobs, thread, toLua, half, buf, alive, http>>

\* A notification: no answer is awaited.
LuaNotifies == lua.left > 0 /\ LuaSends(Note, "run")

\* A package prints, to the pipe that is its stdout.
LuaPrints == astray < MaxAstray /\ lua.left > 0 /\ LuaSends(Junk, "run")

\* A request, whose answer Lua waits for.
LuaAsks == lua.left > 0 /\ LuaSends([k |-> "req", id |-> lua.left], "ask")

\* The packages are loaded, or the function called has ended, with a result or an
\* error.
LuaAnswers ==
    IF lua.call = 0 THEN LuaSends(Hello, "listen")
    ELSE \E k \in {"res", "err"} : LuaSends([k |-> k, id |-> lua.call], "listen")

\* Lua reads a call, or the answer to its request, and passes over anything else.
LuaReceives ==
    /\ alive /\ lua.does \in {"listen", "ask"} /\ toLua # <<>>
    /\ toLua' = Tail(toLua)
    /\ lua' = LET p == Head(toLua)
              IN  CASE lua.does = "listen" /\ p.k = "req" ->
                         [does |-> "run", left |-> MaxSent, call |-> p.id]
                    [] lua.does = "ask" /\ p = [k |-> "res", id |-> lua.left + 1] ->
                         [lua EXCEPT !.does = "run"]
                    [] OTHER -> lua
    /\ UNCHANGED <<main, jobs, thread, toServer, half, buf, alive, http>>

\* The process is killed, or ends.
Dies ==
    /\ alive /\ alive' = FALSE
    /\ lua' = [does |-> "listen", left |-> 0, call |-> 0]
    /\ toLua' = <<>>
    /\ UNCHANGED <<main, jobs, thread, toServer, half, buf, http>>

LuaDies == main # "reap" /\ Dies

\* After bye has been answered the script ends.
LuaExits ==
    /\ main = "reap" /\ lua.does = "listen"
    /\ \A i \in DOMAIN toLua : toLua[i].k # "req"
    /\ Dies

-----------------------------------------------------------------------------
(* The main thread quits *)

\* Server::stop ends the main loop; ~RoomThread stops io_ctx and joins.
Quit ==
    /\ main = "run"
    /\ main' = "join"
    /\ UNCHANGED <<jobs, thread, link, alive, lua, http>>

\* A join of a thread whose io_ctx was not stopped: it must run empty first.
JoinedWhenDrained ==
    /\ main = "join" /\ pc = "idle" /\ jobs = 0
    /\ IF alive THEN main' = "bye" /\ pc' = "call"
                ELSE main' = "http" /\ UNCHANGED pc
    /\ UNCHANGED <<jobs, callId, serves, astray, link, alive, lua, http>>

\* The thread has ended; ~RpcLua calls bye on the main thread.
Joined ==
    /\ main = "join" /\ pc = "idle"
    /\ jobs' = 0
    /\ IF alive THEN main' = "bye" /\ pc' = "call"
                ELSE main' = "http" /\ UNCHANGED pc
    /\ UNCHANGED <<callId, serves, astray, link, alive, lua, http>>

\* waitpid returns.
Reap ==
    /\ main = "reap" /\ ~alive
    /\ main' = "http"
    /\ UNCHANGED <<jobs, thread, link, alive, lua, http>>

\* ~AdminHttpServer stops its io_ctx and joins, after everything else.
JoinHttp ==
    /\ main = "http" /\ ~http
    /\ main' = "done"
    /\ UNCHANGED <<jobs, thread, link, alive, lua, http>>

-----------------------------------------------------------------------------
(* The HTTP thread *)

\* An authorised request: its handler gives a function to the main loop and waits
\* for the result, whether the loop still runs or not (runOnMain).
HttpAsks ==
    /\ main \in {"start", "run", "join", "bye", "reap"} /\ ~http
    /\ http' = TRUE
    /\ UNCHANGED <<main, jobs, thread, link, alive, lua>>

\* The main loop runs that function.
HttpRuns ==
    /\ main = "run" /\ http
    /\ http' = FALSE
    /\ UNCHANGED <<main, jobs, thread, link, alive, lua>>

-----------------------------------------------------------------------------
\* The threads of the server go on whenever they can.
Work ==
    /\ main # "crashed"
    /\ \/ TakeJob \/ CallDead \/ CallAlive \/ Send \/ WaitLoop \/ ReadEnd
       \/ \E n \in 0..Len(toServer), h \in BOOLEAN : Read(n, h)
       \/ ServeHere \/ ServeOnMain \/ RunOnMain \/ Reply
       \/ Joined \/ Reap \/ JoinHttp

\* A function of Lua ends after finitely many packets.
LuaWork ==
    /\ main # "crashed"
    /\ LuaNotifies \/ LuaPrints \/ LuaAsks \/ LuaAnswers \/ LuaReceives \/ LuaExits

Next ==
    \/ Work \/ LuaWork \/ HttpRuns
    \/ main # "crashed" /\ (Signal \/ Quit \/ LuaDies \/ HttpAsks)

Spec == Init /\ [][Next]_vars /\ WF_vars(Work) /\ WF_vars(LuaWork) /\ WF_vars(HttpRuns)

-----------------------------------------------------------------------------
(* Properties *)

\* Between two calls nothing is on its way that a later wait would take for something
\* else: no byte is left in the pipe from Lua or in cborBuffer, Lua is in no call that
\* the thread has given up, and all that Lua may still have to read are errors that
\* answer notifications. After a wait that ended on the wrong bytes this is lost.
NothingStray ==
    (pc = "idle" /\ alive /\ astray = 0) =>
        /\ toServer = <<>> /\ ~half /\ buf = <<>>
        /\ lua.does = "listen"
        /\ \A i \in DOMAIN toLua : toLua[i] = NoId

\* The thread is in read_some, and Lua waits for the thread.
MutualWait == pc = "read" /\ toServer = <<>> /\ LuaWaits

\* wait() has left bytes undecoded in cborBuffer, or acted on the wrong bytes before.
Mislaid == buf # <<>> \/ astray > 0

\* Lua and the thread wait for each other only if packets were mislaid: every request
\* of Lua is answered, failed ones too, and every end of a call is noticed.
WaitsHaveCause == MutualWait => Mislaid

\* A call comes back although Lua may die under it, unless the server quits or
\* crashes, or its answer is mislaid: it was read together with a notification before
\* it and lies in cborBuffer, or what Lua printed is in its way.
CallReturns ==
    (pc # "idle" /\ main \in {"start", "run"})
        ~> (pc = "idle" \/ (MutualWait /\ Mislaid) \/ main \notin {"start", "run"})

\* Quitting ends, unless the room's thread or the HTTP thread, which are joined,
\* wait for the main loop, which does not run any more, the room's thread for an
\* answer that is mislaid, or waitpid for a Lua whose request nobody answers.
QuitEnds ==
    main = "join" ~>
        \/ main \in {"done", "crashed"}
        \/ pc = "main" \/ http \/ (MutualWait /\ Mislaid)
        \/ main = "reap" /\ LuaWaits /\ lua.does = "ask"

=============================================================================
