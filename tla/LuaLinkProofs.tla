--------------------------- MODULE LuaLinkProofs ---------------------------
(***************************************************************************)
(* The properties of LuaLink, proved for any bounds. Both follow from what *)
(* the two processes know of each other: while Lua lives, and no wait has  *)
(* ended on the wrong bytes, the two pipes and the buffer hold what one of *)
(* seven phases allows, and each phase says whose turn it is. A packet     *)
(* that is read whole and not decoded keeps its place before those that    *)
(* are still in the pipe, so that the proofs speak of both as one          *)
(* sequence.                                                               *)
(***************************************************************************)
EXTENDS LuaLink, SequenceTheorems, TLAPS

(* The inductive invariant *)

Wire == [k : {"none", "req", "res", "err", "note", "hello", "junk"}, id : Int]

LuaState == [does : {"listen", "run", "ask"}, left : Int, call : Int]

Typed ==
    /\ toLua \in Seq(Wire) /\ toServer \in Seq(Wire) /\ buf \in Seq(Wire)
    /\ half \in BOOLEAN
    /\ callId \in Nat /\ astray \in Nat
    /\ serves \in Wire
    /\ lua \in LuaState

\* Part of a packet was read only if the packet is still in the pipe.
HalfOfAPacket == half => toServer # <<>>

\* What the server has yet to decode.
Input == buf \o toServer

\* Nothing but members of F.
Only(q, F) == \A i \in 1..Len(q) : q[i] \in F

\* Members of F, and then p.
EndsWith(q, p, F) ==
    /\ q # <<>>
    /\ q[Len(q)] = p
    /\ \A i \in 1..(Len(q) - 1) : q[i] \in F

\* What Lua sends on the way to its next request or answer, and what it may find
\* before the packet that it waits for.
Asides == {Note, Junk}
Errors == {NoId}

NotARequest == serves \in {None, Note, Hello}

\* No call is under way.
Resting == serves = None /\ lua.does = "listen" /\ Only(toLua, Errors) /\ Input = <<>>

\* Lua works for the call that the thread is in; loading the packages has no id.
ForThisCall == IF main = "start" THEN lua.call = 0 ELSE lua.call = callId /\ callId # 0

\* The call is on its way to Lua.
Called ==
    /\ serves = None /\ main # "start" /\ callId # 0
    /\ lua.does = "listen" /\ Input = <<>>
    /\ EndsWith(toLua, [k |-> "req", id |-> callId], Errors)

\* Lua loads its packages or runs the function that was called.
Running ==
    /\ NotARequest /\ ForThisCall
    /\ lua.does = "run" /\ Only(toLua, Errors) /\ Only(Input, Asides)

\* Lua waits for the answer to a request, which is the last packet it has sent.
Asking ==
    /\ NotARequest /\ ForThisCall
    /\ lua.does = "ask" /\ Only(toLua, Errors)
    /\ EndsWith(Input, [k |-> "req", id |-> lua.left + 1], Asides)

\* The thread serves the request.
Served ==
    /\ serves = [k |-> "req", id |-> lua.left + 1] /\ ForThisCall
    /\ lua.does = "ask" /\ Only(toLua, Errors) /\ Input = <<>>

\* The answer to the request is on its way to Lua.
Replied ==
    /\ serves = None /\ ForThisCall
    /\ lua.does = "ask" /\ Input = <<>>
    /\ EndsWith(toLua, [k |-> "res", id |-> lua.left + 1], Errors)

\* The end of the call is the last packet that Lua has sent.
Answered ==
    /\ NotARequest
    /\ lua.does = "listen" /\ Only(toLua, Errors)
    /\ \E p \in Wire : Answers(p) /\ EndsWith(Input, p, Asides)

Phase == Called \/ Running \/ Asking \/ Served \/ Replied \/ Answered

\* The thread is in no call, or has not sent its request yet.
OutOfCall ==
    /\ pc \in {"idle", "call", "send"} /\ main # "start"
    /\ pc = "send" => callId # 0
    /\ Resting

\* The thread is in a call, or the main thread waits for hello.
InCall ==
    /\ \/ pc \in {"wait", "read"} /\ serves = None
       \/ pc \in {"serve", "main", "reply"} /\ serves # None
    /\ Phase

Protocol == OutOfCall \/ InCall

IInv ==
    /\ Typed
    /\ HalfOfAPacket
    /\ alive /\ astray = 0 => Protocol

-----------------------------------------------------------------------------
(* Sequences of packets *)

\* A packet that Lua sends becomes the last one of the input.
LEMMA SentIsLast ==
    ASSUME NEW S, NEW b \in Seq(S), NEW t \in Seq(S), NEW p \in S
    PROVE  b \o Append(t, p) = Append(b \o t, p)
<1>1. b \o Append(t, p) \in Seq(S) /\ Append(b \o t, p) \in Seq(S)
  OBVIOUS
<1>2. Len(b \o Append(t, p)) = Len(Append(b \o t, p))
  OBVIOUS
<1>3. \A i \in 1..Len(b \o Append(t, p)) : (b \o Append(t, p))[i] = Append(b \o t, p)[i]
  OBVIOUS
<1> QED
  BY <1>1, <1>2, <1>3, SeqEqual

\* There is no input if the buffer and the pipe are empty, and only then.
LEMMA NoInput ==
    ASSUME NEW S, NEW b \in Seq(S), NEW t \in Seq(S)
    PROVE  b \o t = <<>> <=> b = <<>> /\ t = <<>>
  OBVIOUS

\* The head and the tail of a concatenation.
LEMMA HeadTailConcat ==
    ASSUME NEW S, NEW s \in Seq(S), s # <<>>, NEW t \in Seq(S)
    PROVE  /\ s \o t # <<>>
           /\ Head(s \o t) = Head(s)
           /\ Tail(s \o t) = Tail(s) \o t
<1> DEFINE all == s \o t  left == Tail(s)  tail == Tail(all)  cat == left \o t
<1>1. /\ Len(s) \in Nat /\ Len(s) > 0 /\ Len(t) \in Nat
  OBVIOUS
<1>2. /\ all \in Seq(S) /\ Len(all) = Len(s) + Len(t)
      /\ \A i \in 1..(Len(s) + Len(t)) : all[i] = IF i <= Len(s) THEN s[i] ELSE t[i - Len(s)]
  BY ConcatProperties
<1>3. /\ left \in Seq(S) /\ Len(left) = Len(s) - 1
      /\ \A i \in 1..Len(left) : left[i] = s[i + 1]
  BY HeadTailProperties
<1>4. /\ cat \in Seq(S) /\ Len(cat) = Len(left) + Len(t)
      /\ \A i \in 1..(Len(left) + Len(t)) :
           cat[i] = IF i <= Len(left) THEN left[i] ELSE t[i - Len(left)]
  BY <1>3, ConcatProperties
<1>5. all # <<>>
  BY <1>1, <1>2
<1>6. /\ tail \in Seq(S) /\ Len(tail) = Len(all) - 1
      /\ \A i \in 1..Len(tail) : tail[i] = all[i + 1]
  BY <1>2, <1>5, HeadTailProperties
<1>7. Head(all) = Head(s)
  <2>1. Head(all) = all[1] /\ Head(s) = s[1]
    BY <1>2, <1>5
  <2> HIDE DEF all
  <2> QED
    BY <1>1, <1>2, <2>1
<1> HIDE DEF all, left, tail, cat
<1>8. ASSUME NEW i \in 1..Len(tail)
      PROVE  tail[i] = cat[i]
  <2>1. tail[i] = all[i + 1] /\ i \in Nat /\ i >= 1 /\ i < Len(s) + Len(t)
    BY <1>1, <1>2, <1>6
  <2>2. CASE i < Len(s)
    <3>1. all[i + 1] = s[i + 1]
      BY <1>1, <1>2, <2>1, <2>2
    <3>2. cat[i] = left[i] /\ left[i] = s[i + 1]
      BY <1>1, <1>3, <1>4, <2>1, <2>2
    <3> QED
      BY <2>1, <3>1, <3>2
  <2>3. CASE i >= Len(s)
    <3>1. all[i + 1] = t[i + 1 - Len(s)]
      BY <1>1, <1>2, <2>1, <2>3
    <3>2. cat[i] = t[i - Len(left)]
      BY <1>1, <1>3, <1>4, <2>1, <2>3
    <3>3. i - Len(left) = i + 1 - Len(s)
      BY <1>1, <1>3, <2>1
    <3> QED
      BY <2>1, <3>1, <3>2, <3>3
  <2> QED
    BY <1>1, <2>1, <2>2, <2>3
<1>9. Len(tail) = Len(cat)
  BY <1>1, <1>2, <1>3, <1>4, <1>6
<1>10. tail = cat
  BY <1>4, <1>6, <1>8, <1>9, SeqEqual
<1> QED
  BY <1>5, <1>7, <1>10 DEF all, left, tail, cat

\* Read moves packets from the pipe to the buffer, which leaves the input what it is,
\* and looks at the first one of the input, whatever the number of packets it gets.
LEMMA ReadTakesTheHead ==
    ASSUME NEW b \in Seq(Wire), NEW t \in Seq(Wire), NEW n \in 0..Len(t)
    PROVE  LET got == b \o SubSeq(t, 1, n)
               rest == SubSeq(t, n + 1, Len(t))
           IN  /\ rest \in Seq(Wire)
               /\ n < Len(t) => rest # <<>>
               /\ got = <<>> => b = <<>> /\ n = 0 /\ rest = t
               /\ got \in Seq(Wire) /\ got \o rest = b \o t
               /\ got # <<>> => /\ Tail(got) \in Seq(Wire)
                                /\ b \o t # <<>>
                                /\ Head(got) = Head(b \o t)
                                /\ Tail(got) \o rest = Tail(b \o t)
<1> DEFINE got == b \o SubSeq(t, 1, n)
           rest == SubSeq(t, n + 1, Len(t))
           front == SubSeq(t, 1, n)
<1>1. /\ front \in Seq(Wire) /\ Len(front) = n
      /\ rest \in Seq(Wire) /\ Len(rest) = Len(t) - n
  OBVIOUS
<1>2. front \o rest = t
  <2>1. SubSeq(t, 1, n) \o SubSeq(t, n + 1, Len(t)) = SubSeq(t, 1, Len(t))
    <3>1. 1 \in 1..(Len(t) + 1) /\ n \in (1 - 1)..Len(t) /\ Len(t) \in n..Len(t)
      OBVIOUS
    <3> QED
      BY <3>1, ConcatAdjacentSubSeq
  <2> QED
    BY <2>1, SubSeqFull
<1>3. got = b \o front /\ got \in Seq(Wire)
  BY <1>1
<1> HIDE DEF front, got, rest
<1>4. n < Len(t) => rest # <<>>
  <2>1. Len(rest) = Len(t) - n /\ Len(t) \in Nat /\ n \in Nat
    BY <1>1
  <2>2. rest = <<>> => Len(rest) = 0
    OBVIOUS
  <2> QED
    BY <2>1, <2>2
<1>5. ASSUME got = <<>>
      PROVE  b = <<>> /\ n = 0 /\ rest = t
  <2>1. b = <<>> /\ front = <<>>
    BY <1>1, <1>3, <1>5, NoInput
  <2>2. n = 0
    BY <1>1, <2>1
  <2>3. rest = t
    BY <1>1, <1>2, <2>1, ConcatEmptySeq
  <2> QED
    BY <2>1, <2>2, <2>3
<1>6. got \o rest = b \o t
  <2>1. \A x, y, z \in Seq(Wire) : (x \o y) \o z = x \o (y \o z)
    OBVIOUS
  <2>2. (b \o front) \o rest = b \o (front \o rest)
    BY <1>1, <2>1
  <2> QED
    BY <1>2, <1>3, <2>2
<1>7. ASSUME got # <<>>
      PROVE  /\ Tail(got) \in Seq(Wire)
             /\ b \o t # <<>>
             /\ Head(got) = Head(b \o t)
             /\ Tail(got) \o rest = Tail(b \o t)
  <2>1. Tail(got) \in Seq(Wire)
    BY <1>3, <1>7, HeadTailProperties
  <2>2. got \o rest # <<>> /\ Head(got \o rest) = Head(got) /\ Tail(got \o rest) = Tail(got) \o rest
    BY <1>1, <1>3, <1>7, HeadTailConcat
  <2> QED
    BY <1>6, <2>1, <2>2
<1> QED
  BY <1>1, <1>3, <1>4, <1>5, <1>6, <1>7 DEF got, rest

\* What comes after members of F only.
LEMMA OnlyAppend ==
    ASSUME NEW q \in Seq(Wire), NEW F, Only(q, F), NEW p \in Wire
    PROVE  /\ EndsWith(Append(q, p), p, F)
           /\ p \in F => Only(Append(q, p), F)
  BY DEF Only, EndsWith

\* What comes first among members of F is one.
LEMMA OnlyHead ==
    ASSUME NEW q \in Seq(Wire), NEW F, Only(q, F), q # <<>>
    PROVE  Head(q) \in F /\ Only(Tail(q), F)
  BY HeadTailProperties DEF Only

\* The empty sequence holds members of anything.
LEMMA OnlyEmpty ==
    ASSUME NEW F
    PROVE  Only(<<>>, F)
  BY DEF Only

\* The last packet is decoded when it is the only one.
LEMMA EndsWithHead ==
    ASSUME NEW q \in Seq(Wire), NEW p \in Wire, NEW F, EndsWith(q, p, F)
    PROVE  \/ Head(q) = p /\ Tail(q) = <<>>
           \/ Head(q) \in F /\ EndsWith(Tail(q), p, F)
<1> DEFINE tail == Tail(q)
<1>1. q # <<>> /\ q[Len(q)] = p /\ \A i \in 1..(Len(q) - 1) : q[i] \in F
  BY DEF EndsWith
<1>2. /\ tail \in Seq(Wire) /\ Len(tail) = Len(q) - 1
      /\ \A i \in 1..Len(tail) : tail[i] = q[i + 1]
  BY <1>1, HeadTailProperties
<1>3. Head(q) = q[1] /\ Len(q) \in Nat /\ Len(q) > 0
  BY <1>1
<1> HIDE DEF tail
<1>4. CASE Len(q) = 1
  <2>1. tail = <<>>
    BY <1>2, <1>4
  <2> QED
    BY <1>1, <1>3, <1>4, <2>1 DEF tail
<1>5. CASE Len(q) > 1
  <2>1. Head(q) \in F
    BY <1>1, <1>3, <1>5
  <2>2. tail # <<>>
    BY <1>2, <1>3, <1>5
  <2>3. tail[Len(tail)] = p
    <3>1. Len(tail) \in 1..Len(tail) /\ Len(tail) + 1 = Len(q)
      BY <1>2, <1>3, <1>5
    <3> QED
      BY <1>1, <1>2, <3>1
  <2>4. \A i \in 1..(Len(tail) - 1) : tail[i] \in F
    <3>1. ASSUME NEW i \in 1..(Len(tail) - 1)
          PROVE  tail[i] \in F
      <4>1. i \in 1..Len(tail) /\ i + 1 \in 1..(Len(q) - 1)
        BY <1>2, <1>3, <1>5
      <4> QED
        BY <1>1, <1>2, <4>1
    <3> QED
      BY <3>1
  <2> QED
    BY <2>1, <2>2, <2>3, <2>4 DEF EndsWith, tail
<1>6. Len(q) = 1 \/ Len(q) > 1
  <2>1. \A n \in Nat : n > 0 => n = 1 \/ n > 1
    OBVIOUS
  <2> QED
    BY <1>3, <2>1
<1> QED
  BY <1>4, <1>5, <1>6

-----------------------------------------------------------------------------
(* The server's steps *)

\* A phase speaks of the link, of Lua, of what is served and of which call it is.
LEMMA PhaseStays ==
    ASSUME UNCHANGED <<callId, serves, lua, toLua, Input>>, main' = "start" <=> main = "start"
    PROVE  Phase => Phase'
<1>1. ForThisCall => ForThisCall'
  BY DEF ForThisCall
<1>2. NotARequest' = NotARequest
  BY DEF NotARequest
<1>3. \A p : Answers(p)' = Answers(p)
  BY DEF Answers
<1>4. Called => Called'
  BY DEF Called
<1>5. Running => Running'
  BY <1>1, <1>2 DEF Running
<1>6. Asking => Asking'
  BY <1>1, <1>2 DEF Asking
<1>7. Served => Served'
  BY <1>1 DEF Served
<1>8. Replied => Replied'
  BY <1>1 DEF Replied
<1>9. Answered => Answered'
  BY <1>2, <1>3 DEF Answered
<1> QED
  BY <1>4, <1>5, <1>6, <1>7, <1>8, <1>9 DEF Phase

\* What neither reads nor writes a packet nor takes one from the buffer.
LEMMA NothingMoves ==
    ASSUME IInv, UNCHANGED <<callId, serves, astray, link, lua>>
    PROVE  /\ Typed' /\ HalfOfAPacket'
           /\ Input' = Input
           /\ Resting => Resting'
  BY DEF link, IInv, Typed, HalfOfAPacket, Input, Resting

\* Where the threads are, after such a step.
LEMMA OnlyThreadsMove ==
    ASSUME IInv, alive' = alive, UNCHANGED <<callId, serves, astray, link, lua>>,
           OutOfCall => /\ pc' \in {"idle", "call", "send"} /\ main' # "start"
                        /\ pc' = "send" => pc = "send",
           InCall /\ pc \in {"wait", "read"} =>
               \/ pc' \in {"wait", "read"} /\ (main' = "start" <=> main = "start")
               \/ ~alive,
           InCall /\ pc \in {"serve", "main", "reply"} =>
               pc' \in {"serve", "main", "reply"} /\ (main' = "start" <=> main = "start")
    PROVE  IInv'
<1>1. Typed' /\ HalfOfAPacket' /\ Input' = Input /\ (Resting => Resting') /\ toLua' = toLua
  BY NothingMoves DEF link
<1>2. ASSUME alive', astray' = 0
      PROVE  Protocol'
  <2>1. alive /\ Protocol
    BY <1>2 DEF IInv
  <2>2. CASE OutOfCall
    BY <1>1, <2>2 DEF OutOfCall, Protocol
  <2>3. CASE InCall
    <3>1. (main' = "start" <=> main = "start") => Phase'
      BY <1>1, <2>3, PhaseStays DEF InCall
    <3>2. CASE pc \in {"wait", "read"}
      BY <2>1, <2>3, <3>1, <3>2 DEF InCall, Protocol
    <3>3. CASE pc \in {"serve", "main", "reply"}
      BY <2>1, <2>3, <3>1, <3>3 DEF InCall, Protocol
    <3> QED
      BY <2>3, <3>2, <3>3 DEF InCall
  <2> QED
    BY <2>1, <2>2, <2>3 DEF Protocol
<1> QED
  BY <1>1, <1>2 DEF IInv

\* The program starts in the inductive invariant: Lua loads its packages.
LEMMA InitIInv == Init => IInv
<1> SUFFICES ASSUME Init
             PROVE  IInv
  OBVIOUS
<1>1. Typed /\ HalfOfAPacket
  <2>1. None \in Wire
    BY DEF None, Wire
  <2>2. lua \in LuaState
    BY Bounds DEF Init, LuaState
  <2>3. toLua \in Seq(Wire) /\ toServer \in Seq(Wire) /\ buf \in Seq(Wire)
    BY DEF Init
  <2>4. half = FALSE /\ callId = 0 /\ serves = None /\ astray = 0
    BY DEF Init
  <2> QED
    BY <2>1, <2>2, <2>3, <2>4 DEF Typed, HalfOfAPacket
<1>2. Input = <<>>
  BY DEF Init, Input
<1>3. Running
  <2>1. Only(<<>>, Errors) /\ Only(<<>>, Asides)
    BY OnlyEmpty
  <2> QED
    BY <1>2, <2>1 DEF Init, Running, NotARequest, ForThisCall
<1> QED
  BY <1>1, <1>3 DEF Init, InCall, Phase, IInv, Protocol

\* The steps of the threads which do not touch the link.
LEMMA ThreadsKeepIInv ==
    ASSUME IInv,
           \/ Signal \/ TakeJob \/ CallDead \/ WaitLoop \/ ReadEnd
           \/ ServeHere \/ ServeOnMain \/ RunOnMain
           \/ Quit \/ Joined \/ Reap \/ JoinHttp \/ HttpAsks \/ HttpRuns
           \/ UNCHANGED vars
    PROVE  IInv'
<1> USE DEF thread, link
<1>1. CASE Signal
  BY <1>1, OnlyThreadsMove DEF Signal, OutOfCall
<1>2. CASE TakeJob
  BY <1>2, OnlyThreadsMove DEF TakeJob, OutOfCall
<1>3. CASE CallDead
  BY <1>3, OnlyThreadsMove DEF CallDead, Return, OutOfCall
<1>4. CASE WaitLoop
  BY <1>4, OnlyThreadsMove DEF WaitLoop, Return, OutOfCall
<1>5. CASE ReadEnd
  BY <1>5, OnlyThreadsMove DEF ReadEnd, Return, OutOfCall
<1>6. CASE ServeHere
  BY <1>6, OnlyThreadsMove DEF ServeHere, OutOfCall
<1>7. CASE ServeOnMain
  BY <1>7, OnlyThreadsMove DEF ServeOnMain, OutOfCall
<1>8. CASE RunOnMain
  BY <1>8, OnlyThreadsMove DEF RunOnMain, OutOfCall
<1>9. CASE Quit
  BY <1>9, OnlyThreadsMove DEF Quit, OutOfCall
<1>10. CASE Joined
  BY <1>10, OnlyThreadsMove DEF Joined, OutOfCall
<1>11. CASE Reap
  BY <1>11, OnlyThreadsMove DEF Reap, OutOfCall
<1>12. CASE JoinHttp
  BY <1>12, OnlyThreadsMove DEF JoinHttp, OutOfCall
<1>13. CASE HttpAsks
  BY <1>13, OnlyThreadsMove DEF HttpAsks, OutOfCall
<1>14. CASE HttpRuns
  BY <1>14, OnlyThreadsMove DEF HttpRuns, OutOfCall
<1>15. CASE UNCHANGED vars
  BY <1>15, OnlyThreadsMove DEF vars, OutOfCall
<1> QED
  BY <1>1, <1>2, <1>3, <1>4, <1>5, <1>6, <1>7, <1>8, <1>9, <1>10, <1>11, <1>12, <1>13,
     <1>14, <1>15

\* A call begins: nothing is on its way but errors, and the request is sent.
LEMMA CallKeepsIInv ==
    ASSUME IInv, CallAlive \/ Send
    PROVE  IInv'
<1> USE DEF link
<1>1. CASE CallAlive
  <2>1. callId' \in Nat /\ callId' # 0
    BY <1>1, Bounds DEF CallAlive, IInv, Typed
  <2>2. Typed' /\ HalfOfAPacket'
    BY <1>1, <2>1 DEF CallAlive, IInv, Typed, HalfOfAPacket
  <2>3. astray = 0 => OutOfCall
    BY <1>1 DEF CallAlive, IInv, Protocol, InCall
  <2>4. astray = 0 => OutOfCall'
    BY <1>1, <2>1, <2>3 DEF CallAlive, OutOfCall, Resting, Input
  <2> QED
    BY <1>1, <2>2, <2>4 DEF CallAlive, IInv, Protocol
<1>2. CASE Send /\ alive
  <2> DEFINE p == [k |-> "req", id |-> callId]
  <2>1. astray = 0 => OutOfCall
    BY <1>2 DEF Send, IInv, Protocol, InCall
  <2>2. p \in Wire
    BY DEF IInv, Typed, Wire
  <2>3. /\ toLua' = Append(toLua, p) /\ pc = "send" /\ pc' = "wait"
        /\ UNCHANGED <<main, callId, serves, astray, toServer, half, buf, alive, lua>>
    BY <1>2 DEF Send
  <2>4. toLua \in Seq(Wire)
    BY DEF IInv, Typed
  <2> HIDE DEF p
  <2>5. Typed' /\ HalfOfAPacket'
    <3>1. Append(toLua, p) \in Seq(Wire)
      BY <2>2, <2>4
    <3> QED
      BY <2>3, <3>1 DEF IInv, Typed, HalfOfAPacket
  <2>6. astray = 0 => Called'
    <3> SUFFICES ASSUME OutOfCall
                 PROVE  Called'
      BY <2>1
    <3>1. Only(toLua, Errors)
      BY DEF OutOfCall, Resting
    <3>2. EndsWith(toLua', p, Errors)
      BY <2>2, <2>3, <2>4, <3>1, OnlyAppend
    <3> QED
      BY <2>3, <3>2 DEF OutOfCall, Resting, Called, Input, p
  <2>7. astray = 0 => serves = None
    BY <2>1 DEF OutOfCall, Resting
  <2> QED
    BY <2>3, <2>5, <2>6, <2>7 DEF InCall, Phase, IInv, Protocol
<1>3. CASE Send /\ ~alive
  <2>1. ~alive /\ UNCHANGED <<callId, serves, astray, link, lua, alive>>
    BY <1>3 DEF Send, Broken, thread
  <2> QED
    BY <2>1, NothingMoves DEF IInv
<1> QED
  BY <1>1, <1>2, <1>3

\* What is served is answered by a packet or by nothing.
LEMMA RepliesTyped ==
    ASSUME IInv, NEW r \in Replies(serves)
    PROVE  r \in Seq(Wire)
<1>1. NoId \in Wire /\ [k |-> "res", id |-> serves.id] \in Wire
  BY DEF IInv, Typed, Wire, NoId
<1>2. \/ r = <<>>
      \/ r = <<NoId>>
      \/ r = <<[k |-> "res", id |-> serves.id]>>
  BY DEF Replies
<1>3. ASSUME NEW x \in Wire
      PROVE  <<x>> \in Seq(Wire)
  OBVIOUS
<1>4. CASE r = <<>>
  BY <1>4
<1>5. CASE r = <<NoId>>
  BY <1>1, <1>3, <1>5
<1>6. CASE r = <<[k |-> "res", id |-> serves.id]>>
  <2> DEFINE x == [k |-> "res", id |-> serves.id]
  <2>1. x \in Wire /\ r = <<x>>
    BY <1>1, <1>6
  <2> HIDE DEF x
  <2> QED
    BY <1>3, <2>1
<1> QED
  BY <1>2, <1>4, <1>5, <1>6

\* A sequence and one more.
LEMMA OneMore ==
    ASSUME NEW q \in Seq(Wire), NEW x \in Wire
    PROVE  q \o <<x>> = Append(q, x)
  OBVIOUS

\* The dispatcher's answer goes to Lua if it has sent a request, and then that is the
\* last packet of the input, so that the input is empty; a notification brings at
\* most an error, which comes before the packet that Lua waits for.
LEMMA ReplyKeepsIInv ==
    ASSUME IInv, Reply
    PROVE  IInv'
<1>1. PICK r \in Replies(serves) :
        IF r # <<>> /\ ~alive THEN Broken
        ELSE /\ toLua' = toLua \o r
             /\ serves' = None
             /\ pc' = "wait"
             /\ UNCHANGED <<main, jobs, callId, astray, toServer, half, buf, alive, lua, http>>
  BY DEF Reply
<1>2. CASE r # <<>> /\ ~alive
  <2>1. ~alive /\ UNCHANGED <<callId, serves, astray, link, lua, alive>>
    BY <1>1, <1>2 DEF Broken, thread
  <2> QED
    BY <2>1, NothingMoves DEF IInv
<1>3. CASE ~(r # <<>> /\ ~alive)
  <2>1. /\ toLua' = toLua \o r /\ serves' = None
        /\ pc = "reply" /\ pc' = "wait"
        /\ UNCHANGED <<main, callId, astray, toServer, half, buf, alive, lua>>
    BY <1>1, <1>3 DEF Reply
  <2>2. r \in Seq(Wire) /\ None \in Wire /\ toLua \in Seq(Wire)
    BY RepliesTyped DEF Wire, None, IInv, Typed
  <2>3. Typed' /\ HalfOfAPacket'
    <3>1. toLua \o r \in Seq(Wire)
      BY <2>2
    <3> QED
      BY <2>1, <2>2, <3>1 DEF IInv, Typed, HalfOfAPacket
  <2>4. ASSUME alive, astray = 0
        PROVE  InCall'
    <3>1. Phase /\ serves # None
      BY <2>1, <2>4 DEF IInv, Protocol, OutOfCall, InCall
    <3>2. Input' = Input
      BY <2>1 DEF Input
    <3>3. (ForThisCall => ForThisCall') /\ NotARequest' /\ \A p : Answers(p)' = Answers(p)
      BY <2>1 DEF ForThisCall, NotARequest, Answers
    <3>4. CASE serves \in {Note, Hello}
      <4>1. Running \/ Asking \/ Answered
        BY <3>1, <3>4 DEF Phase, Called, Served, Replied, Note, Hello
      <4>2. Only(toLua, Errors)
        BY <4>1 DEF Running, Asking, Answered
      <4>3. Only(toLua', Errors)
        <5>1. r = <<>> \/ r = <<NoId>>
          BY <3>4 DEF Replies, Note, Hello
        <5>2. NoId \in Wire /\ NoId \in Errors
          BY DEF NoId, Wire, Errors
        <5>3. toLua' = toLua \/ toLua' = Append(toLua, NoId)
          <6>1. toLua \o <<>> = toLua
            BY <2>2, ConcatEmptySeq
          <6> QED
            BY <2>1, <2>2, <5>1, <5>2, <6>1, OneMore
        <5> QED
          BY <2>2, <4>2, <5>2, <5>3, OnlyAppend
      <4>4. Running => Running'
        BY <2>1, <3>2, <3>3, <4>3 DEF Running
      <4>5. Asking => Asking'
        BY <2>1, <3>2, <3>3, <4>3 DEF Asking
      <4>6. Answered => Answered'
        BY <2>1, <3>2, <3>3, <4>3 DEF Answered
      <4> QED
        BY <2>1, <4>1, <4>4, <4>5, <4>6 DEF InCall, Phase
    <3>5. CASE serves \notin {Note, Hello}
      <4> DEFINE p == [k |-> "res", id |-> lua.left + 1]
      <4>1. Served
        BY <3>1, <3>5
        DEF Phase, Called, Running, Asking, Replied, Answered, NotARequest
      <4>2. r = <<p>> /\ p \in Wire
        BY <4>1 DEF Served, Replies, IInv, Typed, LuaState, Wire
      <4> HIDE DEF p
      <4>3. EndsWith(toLua', p, Errors)
        BY <2>1, <2>2, <4>1, <4>2, OneMore, OnlyAppend DEF Served
      <4>4. Replied'
        BY <2>1, <3>2, <3>3, <4>1, <4>3 DEF Served, Replied, p
      <4> QED
        BY <2>1, <4>4 DEF InCall, Phase
    <3> QED
      BY <3>4, <3>5
  <2> QED
    BY <2>1, <2>3, <2>4 DEF IInv, Protocol
<1> QED
  BY <1>2, <1>3

\* What such bytes are taken for is typed, and so is what is left of them.
LEMMA MistakeTyped ==
    ASSUME IInv, NEW got \in Seq(Wire), Mistake(got)
    PROVE  buf' \in Seq(Wire) /\ serves' \in Wire /\ astray' \in Nat /\ astray' # 0
<1>1. PICK k \in 1..Len(got), left \in {<<>>, <<Junk>>} :
        \E p \in (Packets \cup {got[k]}) \ {Junk} :
            /\ buf' = left \o SubSeq(got, k + 1, Len(got))
            /\ Take(p)
            /\ GoesAstray
  BY DEF Mistake
<1>2. SubSeq(got, k + 1, Len(got)) \in Seq(Wire) /\ got[k] \in Wire
  OBVIOUS
<1>3. Junk \in Wire /\ Packets \subseteq Wire /\ serves \in Wire /\ astray \in Nat
  BY DEF Junk, Packets, Hello, Note, NoId, Wire, IInv, Typed
<1>4. left \in Seq(Wire)
  <2>1. CASE left = <<>>
    BY <2>1
  <2>2. CASE left = <<Junk>>
    BY <1>3, <2>2
  <2> QED
    BY <2>1, <2>2
<1>5. buf' \in Seq(Wire)
  <2> DEFINE more == SubSeq(got, k + 1, Len(got))
  <2>1. more \in Seq(Wire) /\ buf' = left \o more
    BY <1>1, <1>2
  <2> HIDE DEF more
  <2> QED
    BY <1>4, <2>1
<1>6. serves' \in Wire
  BY <1>1, <1>2, <1>3 DEF Take
<1>7. astray' = astray + 1
  BY <1>1 DEF GoesAstray
<1> QED
  BY <1>3, <1>5, <1>6, <1>7

\* What a read that does not go astray does to the input: nothing, or it takes its
\* first packet, whose method may be overwritten by those that follow.
LEMMA ReadTakesOne ==
    ASSUME IInv, NEW n \in 0..Len(toServer), NEW h \in BOOLEAN, Read(n, h)
    PROVE  /\ Typed' /\ HalfOfAPacket'
           /\ UNCHANGED <<callId, toLua, alive, lua>>
           /\ pc = "read"
           /\ astray' = 0 =>
                /\ astray = 0
                /\ \/ /\ Input' = Input
                      /\ pc' = "wait" /\ UNCHANGED <<main, serves>>
                   \/ /\ Input # <<>> /\ Head(Input) # Junk
                      /\ Input' = Tail(Input)
                      /\ \E p \in Seen(Head(Input), Input' # <<>>) :
                            Take(p) /\ (Answers(p) => Answers(Head(Input)))
<1> DEFINE got == Whole(n)  rest == Unread(n)
<1>1. /\ toLua \in Seq(Wire) /\ toServer \in Seq(Wire) /\ buf \in Seq(Wire)
      /\ callId \in Nat /\ serves \in Wire /\ astray \in Nat
      /\ lua \in LuaState
  BY DEF IInv, Typed
<1>2. /\ pc = "read" /\ (h => n < Len(toServer))
      /\ UNCHANGED <<callId, toLua, alive, lua>>
  BY DEF Read
<1>3. \/ /\ toServer' = rest /\ half' = h
         /\ \/ Await(got)
            \/ got # <<>> /\ Head(got) # Junk /\ TakeFirst(got, Len(got) > 1 \/ h)
            \/ Mistake(got)
      \/ GiveUp(n, h)
  BY DEF Read
<1>4. /\ rest \in Seq(Wire)
      /\ n < Len(toServer) => rest # <<>>
      /\ got \in Seq(Wire) /\ got \o rest = buf \o toServer
      /\ got # <<>> => /\ Tail(got) \in Seq(Wire)
                       /\ buf \o toServer # <<>>
                       /\ Head(got) = Head(buf \o toServer)
                       /\ Tail(got) \o rest = Tail(buf \o toServer)
  BY <1>1, ReadTakesTheHead DEF Whole, Unread
<1> HIDE DEF got
<1>5. CASE GiveUp(n, h)
  <2>1. /\ buf' = <<>> /\ half' = FALSE /\ serves' = serves /\ astray' = astray + 1
        /\ toServer' = IF h THEN <<Junk>> \o Unread(n + 1) ELSE rest
    BY <1>5 DEF GiveUp, GoesAstray
  <2>2. Unread(n + 1) \in Seq(Wire) /\ <<Junk>> \in Seq(Wire)
    <3>1. h => n + 1 \in Nat
      OBVIOUS
    <3>2. Junk \in Wire
      BY DEF Junk, Wire
    <3> QED
      BY <1>1, <3>1, <3>2 DEF Unread
  <2> HIDE DEF rest
  <2>3. toServer' \in Seq(Wire)
    <3> DEFINE a == <<Junk>>  b == Unread(n + 1)
    <3>1. a \in Seq(Wire) /\ b \in Seq(Wire)
      BY <2>2
    <3>2. toServer' = IF h THEN a \o b ELSE rest
      BY <2>1
    <3> HIDE DEF a, b
    <3>3. a \o b \in Seq(Wire)
      BY <3>1
    <3> QED
      BY <1>4, <3>2, <3>3
  <2>4. Typed'
    <3>0. buf' = <<>> /\ half' = FALSE /\ astray' = astray + 1
      BY <2>1
    <3>1. buf' \in Seq(Wire)
      BY <3>0
    <3>2. half' \in BOOLEAN
      BY <3>0
    <3>3. astray' \in Nat
      BY <1>1, <3>0
    <3> QED
      BY <1>1, <1>2, <2>1, <2>3, <3>1, <3>2, <3>3 DEF Typed
  <2>6. HalfOfAPacket'
    BY <2>1 DEF HalfOfAPacket
  <2>5. astray' # 0
    BY <1>1, <2>1
  <2> QED
    BY <1>2, <2>4, <2>5, <2>6
<1> HIDE DEF rest
<1>6. CASE toServer' = rest /\ half' = h /\ Await(got)
  <2>1. /\ buf' = got /\ pc' = "wait" /\ UNCHANGED <<main, serves, astray>>
    BY <1>6 DEF Await
  <2>2. Input' = Input
    BY <1>4, <1>6, <2>1 DEF Input
  <2>3. Typed' /\ HalfOfAPacket'
    BY <1>1, <1>2, <1>4, <1>6, <2>1 DEF Typed, HalfOfAPacket
  <2> QED
    BY <1>2, <2>1, <2>2, <2>3
<1>7. CASE toServer' = rest /\ half' = h /\ Mistake(got)
  <2>1. buf' \in Seq(Wire) /\ serves' \in Wire /\ astray' \in Nat /\ astray' # 0
    BY <1>4, <1>7, MistakeTyped
  <2>2. Typed' /\ HalfOfAPacket'
    BY <1>1, <1>2, <1>4, <1>7, <2>1 DEF Typed, HalfOfAPacket
  <2> QED
    BY <1>2, <2>1, <2>2
<1>8. CASE /\ toServer' = rest /\ half' = h
           /\ got # <<>> /\ Head(got) # Junk /\ TakeFirst(got, Len(got) > 1 \/ h)
  <2> DEFINE more == Len(got) > 1 \/ h
  <2>1. PICK p \in Seen(Head(got), more) :
          /\ buf' = Tail(got)
          /\ Take(p)
          /\ IF Answers(p) /\ ~Answers(Head(got)) THEN GoesAstray ELSE UNCHANGED astray
    BY <1>8 DEF TakeFirst
  <2>2. Head(got) = Head(Input) /\ Input # <<>> /\ Input' = Tail(Input)
    BY <1>4, <1>8, <2>1 DEF Input
  <2>3. Head(got) \in Wire
    BY <1>4, <1>8, HeadTailProperties
  <2>4. p \in Wire
    BY <2>3 DEF Seen, Hello, Note, Wire
  <2>5. serves' \in Wire /\ astray' \in Nat
    <3>1. serves' = serves \/ serves' = p
      BY <2>1 DEF Take
    <3>2. astray' = astray \/ astray' = astray + 1
      BY <2>1 DEF GoesAstray
    <3> QED
      BY <1>1, <2>4, <3>1, <3>2
  <2>6. Typed' /\ HalfOfAPacket'
    BY <1>1, <1>2, <1>4, <1>8, <2>1, <2>5 DEF Typed, HalfOfAPacket
  <2>7. more => Input' # <<>>
    <3>1. ASSUME Len(got) > 1
          PROVE  Tail(got) # <<>>
      <4> DEFINE t == Tail(got)  m == Len(got)
      <4>1. Len(t) = m - 1 /\ m \in Nat /\ m > 1
        BY <1>4, <1>8, <3>1, HeadTailProperties
      <4> HIDE DEF t, m
      <4>2. Len(t) # 0
        BY <4>1
      <4>3. t # <<>>
        BY <4>2
      <4> QED
        BY <4>3 DEF t
    <3>2. h => rest # <<>>
      BY <1>2, <1>4
    <3>3. Tail(got) \in Seq(Wire) /\ rest \in Seq(Wire) /\ Input' = Tail(got) \o rest
      BY <1>4, <1>8, <2>1 DEF Input
    <3>4. Input' = <<>> => Tail(got) = <<>> /\ rest = <<>>
      BY <3>3, NoInput
    <3> QED
      BY <3>1, <3>2, <3>4
  <2> HIDE DEF more
  <2>8. p \in Seen(Head(Input), Input' # <<>>)
    BY <2>1, <2>2, <2>7 DEF Seen
  <2>9. astray' = 0 => astray = 0 /\ (Answers(p) => Answers(Head(Input)))
    <3>1. Answers(p) /\ ~Answers(Head(got)) => astray' = astray + 1
      BY <2>1 DEF GoesAstray
    <3>2. ~(Answers(p) /\ ~Answers(Head(got))) => astray' = astray
      BY <2>1
    <3> QED
      BY <1>1, <2>2, <3>1, <3>2
  <2> QED
    BY <1>2, <1>8, <2>1, <2>2, <2>6, <2>8, <2>9
<1> QED
  BY <1>3, <1>5, <1>6, <1>7, <1>8

\* A read never takes a request of Lua for the answer, nor an answer for a request:
\* the thread serves what comes before the end of the input, and its wait ends
\* with the last packet, so that nothing is left. Text that Lua prints stays.
LEMMA ReadKeepsIInv ==
    ASSUME IInv, NEW n \in 0..Len(toServer), NEW h \in BOOLEAN, Read(n, h)
    PROVE  IInv'
<1> DEFINE first == Head(Input)
<1>1. /\ Typed' /\ HalfOfAPacket'
      /\ UNCHANGED <<callId, toLua, alive, lua>>
      /\ pc = "read"
      /\ astray' = 0 =>
           /\ astray = 0
           /\ \/ /\ Input' = Input
                 /\ pc' = "wait" /\ UNCHANGED <<main, serves>>
              \/ /\ Input # <<>> /\ first # Junk
                 /\ Input' = Tail(Input)
                 /\ \E p \in Seen(first, Input' # <<>>) :
                       Take(p) /\ (Answers(p) => Answers(first))
  BY ReadTakesOne
<1>2. Input \in Seq(Wire)
  BY DEF IInv, Typed, Input
<1> HIDE DEF first
<1>3. SUFFICES ASSUME alive, astray' = 0
               PROVE  Protocol'
  BY <1>1 DEF IInv
<1>4. InCall /\ Phase /\ serves = None
  BY <1>1, <1>3 DEF IInv, Protocol, OutOfCall, InCall
<1>5. CASE Input' = Input /\ pc' = "wait" /\ UNCHANGED <<main, serves>>
  <2>1. Phase'
    BY <1>1, <1>4, <1>5, PhaseStays
  <2> QED
    BY <1>4, <1>5, <2>1 DEF InCall, Protocol
<1>6. ASSUME Input # <<>>, first # Junk, Input' = Tail(Input),
             NEW p \in Seen(first, Input' # <<>>), Take(p), Answers(p) => Answers(first)
      PROVE  Protocol'
  <2>1. Answers(p) => /\ pc' = "idle" /\ main' # "start" /\ serves' = serves
    BY <1>6 DEF Take, Return
  <2>2. ~Answers(p) => /\ pc' = "serve" /\ serves' = p /\ main' = main
    BY <1>6 DEF Take
  <2>3. ~Answers(Note) /\ Note # None /\ Hello # None
    BY DEF Answers, Note, Hello, None
  <2>4. main' = main => (ForThisCall => ForThisCall') /\ \A q : Answers(q)' = Answers(q)
    BY <1>1 DEF ForThisCall, Answers
  <2>5. ASSUME first = Note
        PROVE  /\ pc' = "serve" /\ serves' \in {Note, Hello} /\ main' = main
               /\ serves' # None /\ NotARequest'
    <3>1. p \in {Note, Hello}
      BY <1>6, <2>5 DEF Seen
    <3> QED
      BY <1>6, <2>2, <2>3, <2>5, <3>1 DEF NotARequest
  <2>6. first \in Asides => first = Note
    BY <1>6 DEF Asides
  <2>7. CASE Running
    <3>1. first \in Asides /\ Only(Tail(Input), Asides)
      BY <1>2, <1>6, <2>7, OnlyHead DEF Running, first
    <3>2. Running'
      BY <1>1, <1>6, <2>4, <2>5, <2>6, <2>7, <3>1 DEF Running
    <3> QED
      BY <2>5, <2>6, <3>1, <3>2 DEF InCall, Phase, Protocol
  <2>8. CASE Asking
    <3> DEFINE r == [k |-> "req", id |-> lua.left + 1]
    <3>1. r \in Wire /\ EndsWith(Input, r, Asides)
      BY <2>8 DEF Asking, IInv, Typed, LuaState, Wire
    <3>2. ~Answers(r) /\ r # None /\ r \notin {Note, Hello}
      BY DEF Answers, None, Note, Hello
    <3> HIDE DEF r
    <3>3. CASE first = r /\ Tail(Input) = <<>>
      <4>1. p = r
        BY <1>6, <3>2, <3>3 DEF Seen
      <4>2. pc' = "serve" /\ serves' = r /\ main' = main
        BY <2>2, <3>2, <4>1
      <4>3. Served'
        BY <1>1, <1>6, <2>4, <2>8, <3>3, <4>2 DEF Asking, Served, r
      <4> QED
        BY <3>2, <4>2, <4>3 DEF InCall, Phase, Protocol
    <3>4. CASE first \in Asides /\ EndsWith(Tail(Input), r, Asides)
      <4>1. Asking'
        BY <1>1, <1>6, <2>4, <2>5, <2>6, <2>8, <3>4 DEF Asking, r
      <4> QED
        BY <2>5, <2>6, <3>4, <4>1 DEF InCall, Phase, Protocol
    <3> QED
      BY <1>2, <3>1, <3>3, <3>4, EndsWithHead DEF first
  <2>9. CASE Answered
    <3>1. PICK r \in Wire : Answers(r) /\ EndsWith(Input, r, Asides)
      BY <2>9 DEF Answered
    <3>2. CASE first = r /\ Tail(Input) = <<>>
      <4>1. p = r
        BY <1>6, <3>2 DEF Seen
      <4>2. pc' = "idle" /\ main' # "start" /\ serves' = serves
        BY <2>1, <3>1, <4>1
      <4>3. OutOfCall'
        BY <1>1, <1>4, <1>6, <2>9, <3>2, <4>2 DEF Answered, OutOfCall, Resting
      <4> QED
        BY <4>3 DEF Protocol
    <3>3. CASE first \in Asides /\ EndsWith(Tail(Input), r, Asides)
      <4>1. Answers(r)'
        BY <2>4, <2>5, <2>6, <3>1, <3>3
      <4>2. Answered'
        BY <1>1, <1>6, <2>5, <2>6, <2>9, <3>3, <4>1 DEF Answered
      <4> QED
        BY <2>5, <2>6, <3>3, <4>2 DEF InCall, Phase, Protocol
    <3> QED
      BY <1>2, <3>1, <3>2, <3>3, EndsWithHead DEF first
  <2>10. CASE Called \/ Served \/ Replied
    BY <1>6, <2>10 DEF Called, Served, Replied
  <2> QED
    BY <1>4, <2>7, <2>8, <2>9, <2>10 DEF Phase
<1> QED
  BY <1>1, <1>3, <1>5, <1>6

-----------------------------------------------------------------------------
(* Lua's steps *)

\* What Lua sends becomes the last packet of the input.
LEMMA LuaSendsLast ==
    ASSUME IInv, NEW p \in Wire, NEW does \in {"listen", "run", "ask"}, LuaSends(p, does)
    PROVE  /\ Typed' /\ HalfOfAPacket'
           /\ Input' = Append(Input, p)
           /\ lua'.does = does /\ lua'.call = lua.call
           /\ does # "listen" => lua'.left = lua.left - 1
           /\ UNCHANGED <<main, pc, callId, serves, astray, toLua, alive>>
<1>1. /\ toServer' = Append(toServer, p)
      /\ UNCHANGED <<main, pc, callId, serves, astray, toLua, half, buf, alive>>
  BY DEF LuaSends, thread
<1>2. lua' = [lua EXCEPT !.does = does, !.left = IF does = "listen" THEN 0 ELSE @ - 1]
  BY DEF LuaSends
<1>3. toServer \in Seq(Wire) /\ buf \in Seq(Wire) /\ lua \in LuaState
  BY DEF IInv, Typed
<1>4. /\ lua' \in LuaState /\ lua'.does = does /\ lua'.call = lua.call
      /\ does # "listen" => lua'.left = lua.left - 1
  <2> DEFINE l == IF does = "listen" THEN 0 ELSE lua.left - 1
  <2>1. lua' = [lua EXCEPT !.does = does, !.left = l]
    BY <1>2, <1>3 DEF LuaState
  <2>2. l \in Int
    BY <1>3 DEF LuaState
  <2>3. does # "listen" => l = lua.left - 1
    OBVIOUS
  <2> HIDE DEF l
  <2> QED
    BY <1>3, <2>1, <2>2, <2>3 DEF LuaState
<1>5. toServer' \in Seq(Wire) /\ toServer' # <<>>
  BY <1>1, <1>3
<1>6. Typed' /\ HalfOfAPacket'
  BY <1>1, <1>4, <1>5 DEF IInv, Typed, HalfOfAPacket
<1>7. Input' = Append(Input, p)
  BY <1>1, <1>3, SentIsLast DEF Input
<1> QED
  BY <1>1, <1>4, <1>6, <1>7

\* While Lua runs, it is its turn: nothing but asides is on its way.
LEMMA LuasTurn ==
    ASSUME IInv, LuaRuns, astray = 0
    PROVE  InCall /\ Running
<1>1. alive /\ lua.does = "run"
  BY DEF LuaRuns
<1>2. ~OutOfCall
  BY <1>1 DEF OutOfCall, Resting
<1>3. InCall => Running
  BY <1>1 DEF InCall, Phase, Called, Asking, Served, Replied, Answered
<1> QED
  BY <1>1, <1>2, <1>3 DEF IInv, Protocol

\* A notification or printed text.
LEMMA AsideKeepsIInv ==
    ASSUME IInv, NEW p \in Asides, LuaSends(p, "run")
    PROVE  IInv'
<1>1. p \in Wire
  BY DEF Asides, Note, Junk, Wire
<1>2. Input \in Seq(Wire)
  BY DEF IInv, Typed, Input
<1>3. /\ Typed' /\ HalfOfAPacket'
      /\ Input' = Append(Input, p)
      /\ lua'.does = "run" /\ lua'.call = lua.call
      /\ UNCHANGED <<main, pc, callId, serves, astray, toLua, alive>>
  BY <1>1, LuaSendsLast
<1>4. ASSUME astray = 0
      PROVE  InCall'
  <2>1. InCall /\ Running
    BY <1>4, LuasTurn DEF LuaSends
  <2>2. Only(Input', Asides)
    BY <1>1, <1>2, <1>3, <2>1, OnlyAppend DEF Running
  <2>3. Running'
    BY <1>3, <2>1, <2>2 DEF Running, NotARequest, ForThisCall
  <2> QED
    BY <1>3, <2>1, <2>3 DEF InCall, Phase
<1> QED
  BY <1>3, <1>4 DEF IInv, Protocol

\* The packets of a call, and hello.
LEMMA LuaSendsKeepIInv ==
    ASSUME IInv, LuaNotifies \/ LuaPrints \/ LuaAsks \/ LuaAnswers
    PROVE  IInv'
<1>1. Input \in Seq(Wire) /\ callId \in Nat /\ lua \in LuaState
  BY DEF IInv, Typed, Input
<1>2. CASE LuaNotifies \/ LuaPrints
  <2>1. \E p \in Asides : LuaSends(p, "run")
    BY <1>2 DEF LuaNotifies, LuaPrints, Asides
  <2> QED
    BY <2>1, AsideKeepsIInv
<1>3. CASE LuaAsks
  <2> DEFINE p == [k |-> "req", id |-> lua.left]
  <2>1. p \in Wire
    BY <1>1 DEF LuaState, Wire
  <2>2. LuaSends(p, "ask")
    BY <1>3 DEF LuaAsks
  <2> HIDE DEF p
  <2>3. /\ Typed' /\ HalfOfAPacket'
        /\ Input' = Append(Input, p)
        /\ lua'.does = "ask" /\ lua'.call = lua.call /\ lua'.left = lua.left - 1
        /\ UNCHANGED <<main, pc, callId, serves, astray, toLua, alive>>
    BY <2>1, <2>2, LuaSendsLast
  <2>4. p = [k |-> "req", id |-> lua'.left + 1]
    <3>1. lua.left = lua'.left + 1
      BY <1>1, <2>3 DEF LuaState
    <3> QED
      BY <3>1 DEF p
  <2>5. ASSUME astray = 0
        PROVE  InCall'
    <3>1. InCall /\ Running
      BY <2>2, <2>5, LuasTurn DEF LuaSends
    <3>2. EndsWith(Input', p, Asides)
      BY <1>1, <2>1, <2>3, <3>1, OnlyAppend DEF Running
    <3>3. Asking'
      BY <2>3, <2>4, <3>1, <3>2 DEF Running, Asking, NotARequest, ForThisCall
    <3> QED
      BY <2>3, <3>1, <3>3 DEF InCall, Phase
  <2> QED
    BY <2>3, <2>5 DEF IInv, Protocol
<1>4. CASE LuaAnswers
  <2>1. PICK p \in Wire :
          /\ LuaSends(p, "listen")
          /\ IF lua.call = 0 THEN p = Hello
             ELSE p.k = "err" \/ p = [k |-> "res", id |-> lua.call]
    <3>1. CASE lua.call = 0
      <4>1. Hello \in Wire
        BY DEF Hello, Wire
      <4> QED
        BY <1>4, <3>1, <4>1 DEF LuaAnswers
    <3>2. CASE lua.call # 0
      <4>1. PICK k \in {"res", "err"} : LuaSends([k |-> k, id |-> lua.call], "listen")
        BY <1>4, <3>2 DEF LuaAnswers
      <4> DEFINE q == [k |-> k, id |-> lua.call]
      <4>2. q \in Wire /\ (q.k = "err" \/ q = [k |-> "res", id |-> lua.call])
        BY <1>1 DEF LuaState, Wire
      <4>3. LuaSends(q, "listen")
        BY <4>1
      <4> HIDE DEF q
      <4> QED
        BY <3>2, <4>2, <4>3
    <3> QED
      BY <3>1, <3>2
  <2>2. /\ Typed' /\ HalfOfAPacket'
        /\ Input' = Append(Input, p)
        /\ lua'.does = "listen"
        /\ UNCHANGED <<main, pc, callId, serves, astray, toLua, alive>>
    BY <2>1, LuaSendsLast
  <2>3. ASSUME astray = 0
        PROVE  InCall'
    <3>1. InCall /\ Running
      BY <2>1, <2>3, LuasTurn DEF LuaSends
    <3>2. EndsWith(Input', p, Asides)
      BY <1>1, <2>2, <3>1, OnlyAppend DEF Running
    <3>3. Answers(p)'
      BY <2>1, <2>2, <3>1 DEF Running, ForThisCall, Answers
    <3>4. Answered'
      BY <2>2, <3>1, <3>2, <3>3 DEF Running, Answered, NotARequest
    <3> QED
      BY <2>2, <3>1, <3>4 DEF InCall, Phase
  <2> QED
    BY <2>2, <2>3 DEF IInv, Protocol
<1> QED
  BY <1>2, <1>3, <1>4

\* Lua reads the packet that it waits for, and runs, or passes over an error.
LEMMA ReceivingKeepsIInv ==
    ASSUME IInv, LuaReceives
    PROVE  IInv'
<1> DEFINE p == Head(toLua)
<1>1. /\ alive /\ lua.does \in {"listen", "ask"} /\ toLua # <<>>
      /\ toLua' = Tail(toLua)
      /\ UNCHANGED <<main, pc, callId, serves, astray, toServer, half, buf, alive>>
  BY DEF LuaReceives, thread
<1>2. toLua \in Seq(Wire) /\ lua \in LuaState /\ callId \in Nat
  BY DEF IInv, Typed
<1>3. p \in Wire /\ toLua' \in Seq(Wire)
  BY <1>1, <1>2, HeadTailProperties
<1>4. /\ lua.does = "listen" /\ p.k = "req" =>
            lua' = [does |-> "run", left |-> MaxSent, call |-> p.id]
      /\ lua.does = "ask" /\ p = [k |-> "res", id |-> lua.left + 1] =>
            lua' = [lua EXCEPT !.does = "run"]
      /\ ~(lua.does = "listen" /\ p.k = "req")
           /\ ~(lua.does = "ask" /\ p = [k |-> "res", id |-> lua.left + 1]) => lua' = lua
  BY DEF LuaReceives
<1> HIDE DEF p
<1>5. lua' \in LuaState
  <2>1. CASE lua.does = "listen" /\ p.k = "req"
    BY <1>3, <1>4, <2>1, Bounds DEF LuaState, Wire
  <2>2. CASE lua.does = "ask" /\ p = [k |-> "res", id |-> lua.left + 1]
    BY <1>2, <1>4, <2>2 DEF LuaState
  <2> QED
    BY <1>2, <1>4, <2>1, <2>2
<1>6. Typed' /\ HalfOfAPacket'
  BY <1>1, <1>3, <1>5 DEF IInv, Typed, HalfOfAPacket
<1>7. Input' = Input
  BY <1>1 DEF Input
<1>8. SUFFICES ASSUME astray = 0
               PROVE  Protocol'
  BY <1>1, <1>6 DEF IInv
<1>9. p \in Errors => lua' = lua
  BY <1>4 DEF Errors, NoId
<1>10. CASE Only(toLua, Errors)
  <2>1. p \in Errors /\ Only(toLua', Errors)
    BY <1>1, <1>2, <1>10, OnlyHead DEF p
  <2>2. CASE OutOfCall
    BY <1>1, <1>7, <1>9, <2>1, <2>2 DEF OutOfCall, Resting, Protocol
  <2>3. CASE InCall
    <3>1. NotARequest' = NotARequest /\ ForThisCall' = ForThisCall /\ \A q : Answers(q)' = Answers(q)
      BY <1>1, <1>9, <2>1 DEF NotARequest, ForThisCall, Answers
    <3>2. ASSUME NEW q \in Wire, EndsWith(toLua, q, Errors)
          PROVE  q \in Errors
      <4>1. Len(toLua) \in 1..Len(toLua)
        BY <1>1, <1>2
      <4> QED
        BY <1>10, <3>2, <4>1 DEF Only, EndsWith
    <3>3. ~Called
      <4>1. [k |-> "req", id |-> callId] \in Wire /\ [k |-> "req", id |-> callId] \notin Errors
        BY <1>2 DEF Wire, Errors, NoId
      <4> QED
        BY <3>2, <4>1 DEF Called
    <3>4. ~Replied
      <4>1. /\ [k |-> "res", id |-> lua.left + 1] \in Wire
            /\ [k |-> "res", id |-> lua.left + 1] \notin Errors
        BY <1>2 DEF Wire, Errors, NoId, LuaState
      <4> QED
        BY <3>2, <4>1 DEF Replied
    <3>5. ~Running
      BY <1>1 DEF Running
    <3>6. Asking => Asking'
      BY <1>7, <1>9, <2>1, <3>1 DEF Asking
    <3>7. Served => Served'
      BY <1>1, <1>7, <1>9, <2>1, <3>1 DEF Served
    <3>8. Answered => Answered'
      BY <1>7, <1>9, <2>1, <3>1 DEF Answered
    <3>9. Phase'
      BY <2>3, <3>3, <3>4, <3>5, <3>6, <3>7, <3>8 DEF InCall, Phase
    <3> QED
      BY <1>1, <2>3, <3>9 DEF InCall, Protocol
  <2> QED
    BY <1>1, <1>8, <2>2, <2>3 DEF IInv, Protocol
<1>11. CASE ~Only(toLua, Errors)
  <2>1. InCall /\ (Called \/ Replied)
    <3>1. ~OutOfCall
      BY <1>11 DEF OutOfCall, Resting
    <3>2. ~Running /\ ~Asking /\ ~Served /\ ~Answered
      BY <1>11 DEF Running, Asking, Served, Answered
    <3> QED
      BY <1>1, <1>8, <3>1, <3>2 DEF IInv, Protocol, InCall, Phase
  <2>2. Input' = <<>> /\ Only(<<>>, Asides) /\ Only(<<>>, Errors) /\ serves' = None
    BY <1>1, <1>7, <2>1, OnlyEmpty DEF Called, Replied
  <2>3. CASE Called
    <3> DEFINE q == [k |-> "req", id |-> callId]
    <3>1. q \in Wire /\ EndsWith(toLua, q, Errors) /\ lua.does = "listen"
      BY <1>2, <2>3 DEF Called, Wire
    <3> HIDE DEF q
    <3>2. CASE p = q /\ Tail(toLua) = <<>>
      <4>1. lua' = [does |-> "run", left |-> MaxSent, call |-> callId]
        BY <1>4, <3>1, <3>2 DEF q
      <4>2. lua'.does = "run" /\ lua'.call = callId
        BY <4>1
      <4>3. Running'
        BY <1>1, <2>2, <2>3, <3>2, <4>2 DEF Called, Running, NotARequest, ForThisCall
      <4> QED
        BY <1>1, <2>1, <4>3 DEF InCall, Phase, Protocol
    <3>3. CASE p \in Errors /\ EndsWith(Tail(toLua), q, Errors)
      <4>1. Called'
        BY <1>1, <1>7, <1>9, <2>3, <3>3 DEF Called, q
      <4> QED
        BY <1>1, <2>1, <4>1 DEF InCall, Phase, Protocol
    <3> QED
      BY <1>2, <3>1, <3>2, <3>3, EndsWithHead DEF p
  <2>4. CASE Replied
    <3> DEFINE q == [k |-> "res", id |-> lua.left + 1]
    <3>1. q \in Wire /\ EndsWith(toLua, q, Errors) /\ lua.does = "ask"
      BY <1>2, <2>4 DEF Replied, Wire, LuaState
    <3> HIDE DEF q
    <3>2. CASE p = q /\ Tail(toLua) = <<>>
      <4>1. lua' = [lua EXCEPT !.does = "run"]
        BY <1>4, <3>1, <3>2 DEF q
      <4>2. lua'.does = "run" /\ lua'.call = lua.call
        BY <1>2, <4>1 DEF LuaState
      <4>3. Running'
        BY <1>1, <2>2, <2>4, <3>2, <4>2 DEF Replied, Running, NotARequest, ForThisCall
      <4> QED
        BY <1>1, <2>1, <4>3 DEF InCall, Phase, Protocol
    <3>3. CASE p \in Errors /\ EndsWith(Tail(toLua), q, Errors)
      <4>1. Replied'
        BY <1>1, <1>7, <1>9, <2>4, <3>3 DEF Replied, ForThisCall, q
      <4> QED
        BY <1>1, <2>1, <4>1 DEF InCall, Phase, Protocol
    <3> QED
      BY <1>2, <3>1, <3>2, <3>3, EndsWithHead DEF p
  <2> QED
    BY <2>1, <2>3, <2>4
<1> QED
  BY <1>10, <1>11

\* After Lua has died nothing more is claimed than the types.
LEMMA DyingKeepsIInv ==
    ASSUME IInv, Dies
    PROVE  IInv'
<1>1. /\ alive' = FALSE
      /\ lua' = [does |-> "listen", left |-> 0, call |-> 0]
      /\ toLua' = <<>>
      /\ UNCHANGED <<callId, serves, astray, toServer, half, buf>>
  BY DEF Dies, thread
<1>2. lua' \in LuaState /\ toLua' \in Seq(Wire)
  BY <1>1 DEF LuaState
<1>3. Typed' /\ HalfOfAPacket'
  BY <1>1, <1>2 DEF IInv, Typed, HalfOfAPacket
<1> QED
  BY <1>1, <1>3 DEF IInv

-----------------------------------------------------------------------------
(* The theorems *)

\* Every step of the threads, of Lua and of the administrator's requests keeps the
\* inductive invariant.
LEMMA NextKeepsIInv == IInv /\ [Next]_vars => IInv'
<1> SUFFICES ASSUME IInv, [Next]_vars
             PROVE  IInv'
  OBVIOUS
<1>1. CASE Work
  <2>1. \/ TakeJob \/ CallDead \/ WaitLoop \/ ReadEnd
        \/ ServeHere \/ ServeOnMain \/ RunOnMain \/ Joined \/ Reap \/ JoinHttp
        \/ CallAlive \/ Send \/ Reply
        \/ \E n \in 0..Len(toServer), h \in BOOLEAN : Read(n, h)
    BY <1>1 DEF Work
  <2> QED
    BY <2>1, ThreadsKeepIInv, CallKeepsIInv, ReplyKeepsIInv, ReadKeepsIInv
<1>2. CASE LuaWork
  <2>1. LuaNotifies \/ LuaPrints \/ LuaAsks \/ LuaAnswers \/ LuaReceives \/ Dies
    BY <1>2 DEF LuaWork, LuaExits
  <2> QED
    BY <2>1, LuaSendsKeepIInv, ReceivingKeepsIInv, DyingKeepsIInv
<1>3. CASE HttpRuns \/ Signal \/ Quit \/ HttpAsks \/ UNCHANGED vars
  BY <1>3, ThreadsKeepIInv
<1>4. CASE LuaDies
  BY <1>4, DyingKeepsIInv DEF LuaDies
<1> QED
  BY <1>1, <1>2, <1>3, <1>4 DEF Next

\* The phases of the link hold in every reachable state in which Lua lives and no wait
\* of RpcLua has ended on the wrong bytes.
THEOREM Invariance == Spec => []IInv
<1> QED
  BY InitIInv, NextKeepsIInv, PTL DEF Spec

\* When the thread of the room is idle, nothing of an earlier wait of RpcLua is left
\* but errors without id that Lua has yet to read, unless bytes that are no packet, or
\* an overwritten method, have ended a wait.
THEOREM NothingIsStray == Spec => []NothingStray
<1>1. IInv => NothingStray
  <2> SUFFICES ASSUME IInv, pc = "idle", alive, astray = 0
               PROVE  /\ toServer = <<>> /\ ~half /\ buf = <<>> /\ lua.does = "listen"
                      /\ \A i \in DOMAIN toLua : toLua[i] = NoId
    BY DEF NothingStray
  <2>1. Resting
    BY DEF IInv, Protocol, OutOfCall, InCall
  <2>2. buf = <<>> /\ toServer = <<>>
    <3>1. buf \in Seq(Wire) /\ toServer \in Seq(Wire)
      BY DEF IInv, Typed
    <3> QED
      BY <2>1, <3>1, NoInput DEF Resting, Input
  <2>3. \A i \in DOMAIN toLua : toLua[i] = NoId
    <3>1. DOMAIN toLua = 1..Len(toLua)
      BY DEF IInv, Typed
    <3> QED
      BY <2>1, <3>1 DEF Resting, Only, Errors
  <2> QED
    BY <2>1, <2>2, <2>3 DEF Resting, IInv, HalfOfAPacket
<1> QED
  BY <1>1, Invariance, PTL

\* While the thread reads and Lua waits for it, packets are mislaid: if the pipes are
\* empty, bytes lie in the buffer, where wait() has left them, or a wait has ended on
\* the wrong bytes before.
THEOREM WaitsAreCaused == Spec => []WaitsHaveCause
<1>1. IInv => WaitsHaveCause
  <2> SUFFICES ASSUME IInv, MutualWait, astray = 0
               PROVE  buf # <<>>
    BY DEF WaitsHaveCause, Mislaid, IInv, Typed
  <2>1. /\ pc = "read" /\ toServer = <<>> /\ alive
        /\ lua.does \in {"listen", "ask"} /\ toLua = <<>>
    BY DEF MutualWait, LuaWaits
  <2>2. serves = None /\ Phase
    BY <2>1 DEF IInv, Protocol, OutOfCall, InCall
  <2>3. Input # <<>>
    <3>1. ~Called /\ ~Running /\ ~Served /\ ~Replied
      BY <2>1, <2>2 DEF Called, Running, Served, Replied, None, EndsWith
    <3>2. Asking => Input # <<>>
      BY DEF Asking, EndsWith
    <3>3. Answered => Input # <<>>
      BY DEF Answered, EndsWith
    <3> QED
      BY <2>2, <3>1, <3>2, <3>3 DEF Phase
  <2> QED
    BY <2>1, <2>3 DEF Input
<1> QED
  BY <1>1, Invariance, PTL


=============================================================================
