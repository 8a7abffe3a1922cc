--------------------------- MODULE RequestsProofs ---------------------------
(***************************************************************************)
(* The safety properties of Requests, proved for any players and bounds.   *)
(* No wake-up is lost because whoever changes what a poll has seen already *)
(* sends one, and the room runs one only when it is not polling. No reply  *)
(* is taken twice because every request has an id of its own, a client     *)
(* loses a request when it answers it, and a router forgets its reply      *)
(* before a player is polled for a new request.                            *)
(***************************************************************************)
EXTENDS Requests, SequenceTheorems, TLAPS

(* The inductive invariant *)

Typed ==
    /\ pc \in {"idle", "ask", "push", "raced", "send", "poll", "wait"}
    /\ at \in Players \cup {None}
    /\ todo \subseteq pending /\ pending \subseteq Players
    /\ asked \in [Players -> Nat]
    /\ lastId \in Nat
    /\ wakeups \in Nat
    /\ state \in [Players -> {"Online", "Trust", "Offline"}]
    /\ thinking \in [Players -> BOOLEAN]
    /\ expected \in [Players -> SUBSET Nat]
    /\ reply \in [Players -> Int]
    /\ client \in [Players -> SUBSET Nat]
    /\ taken \in [Players -> Seq(Nat)]

\* The id of the request that Router::request is about.
InFlight == pc \in {"push", "raced", "send"}

\* The room's thread asks one player at a time, and nobody between two rounds.
Rounds ==
    /\ InFlight => at \in Players /\ lastId > 0
    /\ pc = "idle" => pending = {} /\ \A p \in Players : asked[p] = 0

\* Whoever is waited for is marked as thinking.
Thinkers == pc \in {"poll", "wait"} => \A p \in pending : thinking[p]

\* What a poll has seen still holds, or a wake-up is on its way.
Polled ==
    pc \in {"poll", "wait"} =>
        \/ wakeups > 0
        \/ \A p \in pending \ todo : state[p] = "Online" /\ reply[p] = NotReady

\* A poll sees everybody, and the end of the time too.
Waiting == pc = "wait" => todo = {} /\ (late => wakeups > 0)

\* The ids of the requests that were sent out.
SentIds == {i \in 1..lastId : ~(InFlight /\ i = lastId)}

\* A client has only requests that were sent to it; what a router has, or Lua has
\* taken, was answered by a client, which does not have that request any more.
AnsweredOnce ==
    \A p \in Players :
        /\ client[p] \subseteq SentIds
        /\ \A n \in 1..Len(taken[p]) : taken[p][n] \in SentIds /\ taken[p][n] \notin client[p]
        /\ reply[p] > 0 => reply[p] \in SentIds /\ reply[p] \notin client[p]

\* Router::request of player p has not yet reset its reply.
Resetting(p) == pc \in {"push", "raced"} /\ at = p

\* The reply to be taken next was not taken before.
NewReplies ==
    \A p \in pending :
        (asked[p] > 0 /\ reply[p] > 0 /\ ~Resetting(p)) =>
            \A n \in 1..Len(taken[p]) : taken[p][n] # reply[p]

IInv ==
    /\ Typed /\ Rounds /\ Thinkers /\ Polled /\ Waiting
    /\ AnsweredOnce /\ NewReplies /\ TakenOnce

-----------------------------------------------------------------------------
(* What many steps have in common *)

\* A program step that lets nobody answer and takes nothing: ids stay sent, and
\* clients get no requests.
LEMMA NobodyAnswers ==
    ASSUME AnsweredOnce, UNCHANGED <<taken, reply>>,
           \A p \in Players : client'[p] \subseteq client[p],
           SentIds \subseteq SentIds'
    PROVE  AnsweredOnce'
  BY DEF AnsweredOnce

\* The program starts in the inductive invariant.
LEMMA InitIInv == Init => IInv
<1> SUFFICES ASSUME Init
             PROVE  IInv
  OBVIOUS
<1> USE DEF Init
<1>1. Typed
  <2>1. taken \in [Players -> Seq(Nat)] /\ expected \in [Players -> SUBSET Nat]
    OBVIOUS
  <2>2. client \in [Players -> SUBSET Nat] /\ reply \in [Players -> Int]
    BY DEF Nothing
  <2> QED
    BY <2>1, <2>2 DEF Typed
<1>2. Rounds /\ Thinkers /\ Polled /\ Waiting
  BY DEF Rounds, InFlight, Thinkers, Polled, Waiting
<1>3. AnsweredOnce
  BY DEF AnsweredOnce, Nothing
<1>4. NewReplies
  BY DEF NewReplies
<1>5. TakenOnce
  BY DEF TakenOnce, IsInjective
<1> QED
  BY <1>1, <1>2, <1>3, <1>4, <1>5 DEF IInv

-----------------------------------------------------------------------------
(* The room's thread *)

\* A round begins with players that have not been asked.
LEMMA StartRoundKeepsIInv ==
    ASSUME IInv, NEW ps \in SUBSET Players, StartRound(ps)
    PROVE  IInv'
<1> USE DEF StartRound
<1>1. Typed'
  BY DEF IInv, Typed
<1>2. Rounds' /\ Thinkers' /\ Polled' /\ Waiting'
  BY DEF IInv, Typed, Rounds, InFlight, Thinkers, Polled, Waiting
<1>3. AnsweredOnce'
  BY NobodyAnswers DEF IInv, Typed, SentIds, InFlight
<1>4. NewReplies'
  BY DEF IInv, Typed, Rounds, NewReplies
<1>5. TakenOnce'
  BY DEF IInv, TakenOnce
<1> QED
  BY <1>1, <1>2, <1>3, <1>4, <1>5 DEF IInv

\* The next id is given to the request of one player, or a player is passed over.
LEMMA DoRequestKeepsIInv ==
    ASSUME IInv, NEW p \in Players, DoRequest(p)
    PROVE  IInv'
<1> USE DEF DoRequest
<1>1. Typed'
  <2>1. asked \in [Players -> Nat] /\ lastId \in Nat
    BY DEF IInv, Typed
  <2>2. asked' \in [Players -> Nat] /\ lastId' \in Nat
    BY <2>1
  <2> QED
    BY <2>2 DEF IInv, Typed
<1>2. Rounds' /\ Thinkers' /\ Polled' /\ Waiting'
  BY DEF IInv, Typed, Rounds, InFlight, Thinkers, Polled, Waiting
<1>3. AnsweredOnce'
  <2>1. SentIds \subseteq SentIds'
    BY DEF IInv, Typed, SentIds, InFlight
  <2> QED
    BY <2>1, NobodyAnswers DEF IInv
<1>4. NewReplies'
  BY DEF IInv, Typed, NewReplies, Resetting
<1>5. TakenOnce'
  BY DEF IInv, TakenOnce
<1> QED
  BY <1>1, <1>2, <1>3, <1>4, <1>5 DEF IInv

\* Router::request resets the reply before the request is sent.
LEMMA PushKeepsIInv ==
    ASSUME IInv, Push
    PROVE  IInv'
<1>1. at \in Players
  BY DEF Push, IInv, Rounds, InFlight
<1>2. reply' = [reply EXCEPT ![at] = 0]
  BY DEF Push, NotReady
<1>3. reply' \in [Players -> Int]
  <2>1. reply \in [Players -> Int] /\ 0 \in Int
    BY DEF IInv, Typed
  <2> DEFINE zero == 0
  <2> HIDE DEF zero
  <2>2. zero \in Int /\ reply' = [reply EXCEPT ![at] = zero]
    BY <1>2, <2>1 DEF zero
  <2> QED
    BY <2>1, <2>2
<1> USE DEF Push
<1>4. Typed'
  <2>1. expected \in [Players -> SUBSET Nat] /\ lastId \in Nat
    BY DEF IInv, Typed
  <2>2. expected' \in [Players -> SUBSET Nat]
    BY <1>1, <2>1 DEF Extended
  <2> QED
    BY <1>3, <2>2 DEF IInv, Typed
<1>5. Rounds' /\ Thinkers' /\ Polled' /\ Waiting'
  BY DEF IInv, Typed, Rounds, InFlight, Thinkers, Polled, Waiting
<1>6. /\ \A q \in Players : reply'[q] > 0 => reply'[q] = reply[q]
      /\ ~(reply'[at] > 0)
  BY <1>1 DEF IInv, Typed, NotReady
<1>7. AnsweredOnce'
  <2>1. SentIds \subseteq SentIds'
    BY DEF SentIds, InFlight
  <2> QED
    BY <1>6, <2>1 DEF IInv, AnsweredOnce
<1>8. NewReplies'
  BY <1>6 DEF IInv, NewReplies, Resetting
<1>9. TakenOnce'
  BY DEF IInv, TakenOnce
<1> QED
  BY <1>4, <1>5, <1>7, <1>8, <1>9 DEF IInv

\* The poll begins: everybody it is about is thinking.
LEMMA SetThinkingKeepsIInv ==
    ASSUME IInv, SetThinking
    PROVE  IInv'
<1> USE DEF SetThinking
<1>1. Typed'
  BY DEF IInv, Typed
<1>2. Rounds' /\ Thinkers' /\ Polled' /\ Waiting'
  BY DEF IInv, Typed, Rounds, InFlight, Thinkers, Polled, Waiting
<1>3. AnsweredOnce'
  BY NobodyAnswers DEF IInv, Typed, SentIds, InFlight
<1>4. NewReplies'
  BY DEF IInv, Typed, NewReplies, Resetting
<1>5. TakenOnce'
  BY DEF IInv, TakenOnce
<1> QED
  BY <1>1, <1>2, <1>3, <1>4, <1>5 DEF IInv

\* A player who is left in the round by its poll is Online and has no reply; a reply
\* that is taken ends the round for its player.
LEMMA WaitForReplyKeepsIInv ==
    ASSUME IInv, NEW p \in Players, WaitForReply(p)
    PROVE  IInv'
<1> DEFINE answer == IF state[p] = "Online" THEN reply[p] ELSE Nothing
           takes == answer > 0 /\ asked[p] > 0
<1>1. /\ pc = "poll" /\ p \in todo
      /\ todo' = todo \ {p}
      /\ pending' = IF answer = NotReady THEN pending ELSE pending \ {p}
      /\ taken' = IF takes THEN [taken EXCEPT ![p] = Append(@, answer)] ELSE taken
      /\ UNCHANGED <<pc, at, asked, late, lastId, wakeups, state, thinking, reply, client, expected>>
  BY DEF WaitForReply
<1>2. /\ reply[p] \in Int /\ asked[p] \in Nat /\ taken \in [Players -> Seq(Nat)]
      /\ p \in pending
  BY <1>1 DEF IInv, Typed
<1>3. /\ answer = NotReady => state[p] = "Online" /\ reply[p] = NotReady
      /\ takes => answer = reply[p] /\ answer \in Nat /\ reply[p] > 0 /\ answer # NotReady
  BY <1>2 DEF NotReady, Nothing
<1> HIDE DEF answer, takes
<1>4. /\ \A q \in Players \ {p} : taken'[q] = taken[q]
      /\ takes => taken'[p] = Append(taken[p], answer)
      /\ ~takes => taken' = taken
      /\ taken' \in [Players -> Seq(Nat)]
  BY <1>1, <1>2, <1>3
<1>5. Typed'
  BY <1>1, <1>4 DEF IInv, Typed
<1>6. Rounds' /\ Thinkers' /\ Waiting'
  BY <1>1 DEF IInv, Rounds, InFlight, Thinkers, Waiting
<1>7. Polled'
  BY <1>1, <1>3 DEF IInv, Polled
<1>8. takes => \A n \in 1..Len(taken[p]) : taken[p][n] # answer
  <2>1. ~Resetting(p)
    BY <1>1 DEF Resetting
  <2>2. takes => asked[p] > 0 /\ reply[p] > 0 /\ answer = reply[p]
    BY <1>3 DEF takes
  <2> QED
    BY <1>2, <2>1, <2>2 DEF IInv, NewReplies
<1>9. AnsweredOnce'
  <2>1. SentIds \subseteq SentIds'
    BY <1>1 DEF SentIds, InFlight
  <2>2. \A q \in Players : client'[q] \subseteq SentIds'
    BY <1>1, <2>1 DEF IInv, AnsweredOnce
  <2>3. \A q \in Players : reply'[q] > 0 => reply'[q] \in SentIds' /\ reply'[q] \notin client'[q]
    BY <1>1, <2>1 DEF IInv, AnsweredOnce
  <2>4. ASSUME NEW q \in Players, NEW n \in 1..Len(taken'[q])
        PROVE  taken'[q][n] \in SentIds' /\ taken'[q][n] \notin client'[q]
    <3>1. CASE taken'[q] = taken[q]
      BY <1>1, <2>1, <2>4, <3>1 DEF IInv, AnsweredOnce
    <3>2. CASE q = p /\ takes
      <4>1. taken'[q] = Append(taken[q], answer) /\ taken[q] \in Seq(Nat)
        BY <1>2, <1>4, <3>2
      <4>2. n \in 1..Len(taken[q]) \/ n = Len(taken[q]) + 1
        BY <1>3, <3>2, <4>1
      <4>3. CASE n \in 1..Len(taken[q])
        <5>1. taken'[q][n] = taken[q][n]
          BY <1>3, <3>2, <4>1, <4>3
        <5> QED
          BY <1>1, <2>1, <4>3, <5>1 DEF IInv, AnsweredOnce
      <4>4. CASE n = Len(taken[q]) + 1
        <5>1. taken'[q][n] = reply[p]
          BY <1>3, <3>2, <4>1, <4>4
        <5> QED
          BY <1>1, <1>3, <2>1, <3>2, <5>1 DEF IInv, AnsweredOnce
      <4> QED
        BY <4>2, <4>3, <4>4
    <3> QED
      BY <1>4, <3>1, <3>2
  <2> QED
    BY <2>2, <2>3, <2>4 DEF AnsweredOnce
<1>10. NewReplies'
  <2>1. CASE takes
    <3>1. p \notin pending' /\ pending' \subseteq pending /\ pending \subseteq Players
      BY <1>1, <1>3, <2>1 DEF IInv, Typed
    <3> QED
      BY <1>1, <1>4, <3>1 DEF IInv, NewReplies, Resetting
  <2>2. CASE ~takes
    BY <1>1, <1>4, <2>2 DEF IInv, NewReplies, Resetting
  <2> QED
    BY <2>1, <2>2
<1>11. TakenOnce'
  <2>1. CASE takes
    <3> DEFINE old == taken[p]
    <3>1. old \in Seq(Nat) /\ taken'[p] = Append(old, answer) /\ IsInjective(old)
      BY <1>2, <1>4, <2>1 DEF IInv, TakenOnce
    <3>2. \A n \in 1..Len(old) : old[n] # answer
      BY <1>8, <2>1
    <3>3. answer \in Nat
      BY <1>3, <2>1
    <3> HIDE DEF old
    <3>4. IsInjective(Append(old, answer))
      BY <3>1, <3>2, <3>3 DEF IsInjective
    <3>5. \A q \in Players \ {p} : taken'[q] = taken[q]
      BY <1>4
    <3> QED
      BY <3>1, <3>4, <3>5 DEF IInv, TakenOnce
  <2>2. CASE ~takes
    BY <1>4, <2>2 DEF IInv, TakenOnce
  <2> QED
    BY <2>1, <2>2
<1> QED
  BY <1>5, <1>6, <1>7, <1>9, <1>10, <1>11 DEF IInv

\* Whoever is still waited for after a poll was seen without a reply.
LEMMA EndPollKeepsIInv ==
    ASSUME IInv, EndPoll
    PROVE  IInv'
<1>1. CASE pending = {} \/ late
  <2>1. /\ pc = "poll" /\ pc' = "idle" /\ pending' = {} /\ todo = {}
        /\ asked' = [p \in Players |-> 0] /\ thinking' = [p \in Players |-> FALSE]
        /\ UNCHANGED <<at, todo, lastId, wakeups, state, expected, reply, client, taken>>
    BY <1>1 DEF EndPoll
  <2>2. Typed'
    BY <2>1 DEF IInv, Typed
  <2>3. Rounds' /\ Thinkers' /\ Polled' /\ Waiting'
    BY <2>1 DEF Rounds, InFlight, Thinkers, Polled, Waiting
  <2>4. AnsweredOnce'
    BY <2>1, NobodyAnswers DEF IInv, Typed, SentIds, InFlight
  <2>5. NewReplies' /\ TakenOnce'
    BY <2>1 DEF IInv, NewReplies, TakenOnce
  <2> QED
    BY <2>2, <2>3, <2>4, <2>5 DEF IInv
<1>2. CASE ~(pending = {} \/ late)
  <2>1. /\ pc = "poll" /\ pc' = "wait" /\ todo = {} /\ ~late
        /\ UNCHANGED <<pending, asked, late, thinking>>
        /\ UNCHANGED <<at, todo, lastId, wakeups, state, expected, reply, client, taken>>
    BY <1>2 DEF EndPoll
  <2>2. Typed'
    BY <2>1 DEF IInv, Typed
  <2>3. Rounds' /\ Thinkers' /\ Polled' /\ Waiting'
    BY <2>1 DEF IInv, Rounds, InFlight, Thinkers, Polled, Waiting
  <2>4. AnsweredOnce'
    BY <2>1, NobodyAnswers DEF IInv, Typed, SentIds, InFlight
  <2>5. NewReplies'
    BY <2>1 DEF IInv, NewReplies, Resetting
  <2>6. TakenOnce'
    BY <2>1 DEF IInv, TakenOnce
  <2> QED
    BY <2>2, <2>3, <2>4, <2>5, <2>6 DEF IInv
<1> QED
  BY <1>1, <1>2

\* A wake-up is used up only by a room that polls everybody again.
LEMMA ResumeRoomKeepsIInv ==
    ASSUME IInv, ResumeRoom
    PROVE  IInv'
<1> USE DEF ResumeRoom
<1>1. Typed'
  BY DEF IInv, Typed
<1>2. Rounds' /\ Thinkers' /\ Polled' /\ Waiting'
  BY DEF IInv, Typed, Rounds, InFlight, Thinkers, Polled, Waiting
<1>3. AnsweredOnce'
  BY NobodyAnswers DEF IInv, Typed, SentIds, InFlight
<1>4. NewReplies'
  BY DEF IInv, NewReplies, Resetting
<1>5. TakenOnce'
  BY DEF IInv, TakenOnce
<1> QED
  BY <1>1, <1>2, <1>3, <1>4, <1>5 DEF IInv

-----------------------------------------------------------------------------
(* The timer and the main thread *)

\* The end of the time is told by a wake-up.
LEMMA TimerKeepsIInv ==
    ASSUME IInv, TimerExpires
    PROVE  IInv'
<1> USE DEF TimerExpires
<1>1. Typed'
  BY DEF IInv, Typed
<1>2. Rounds' /\ Thinkers' /\ Polled' /\ Waiting'
  BY DEF IInv, Typed, Rounds, InFlight, Thinkers, Polled, Waiting
<1>3. AnsweredOnce'
  BY NobodyAnswers DEF IInv, Typed, SentIds, InFlight
<1>4. NewReplies'
  BY DEF IInv, NewReplies, Resetting
<1>5. TakenOnce'
  BY DEF IInv, TakenOnce
<1> QED
  BY <1>1, <1>2, <1>3, <1>4, <1>5 DEF IInv

\* The id of a request is new to everybody when the request is sent.
LEMMA SendMessageKeepsIInv ==
    ASSUME IInv, SendMessage
    PROVE  IInv'
<1>1. /\ pc = "send" /\ pc' = "ask" /\ at' = None
      /\ client' = IF via THEN [client EXCEPT ![at] = @ \cup {lastId}] ELSE client
      /\ UNCHANGED <<todo, pending, asked, lastId, wakeups, late, state, thinking, expected, reply, taken>>
  BY DEF SendMessage
<1>2. /\ at \in Players /\ lastId \in Nat /\ lastId > 0
      /\ client \in [Players -> SUBSET Nat]
  BY <1>1 DEF IInv, Typed, Rounds, InFlight
<1>3. /\ client' \in [Players -> SUBSET Nat]
      /\ \A q \in Players : client'[q] \subseteq client[q] \cup {lastId}
  BY <1>1, <1>2
<1>4. Typed'
  BY <1>1, <1>3 DEF IInv, Typed
<1>5. Rounds' /\ Thinkers' /\ Polled' /\ Waiting'
  BY <1>1 DEF IInv, Rounds, InFlight, Thinkers, Polled, Waiting
<1>6. SentIds' = SentIds \cup {lastId} /\ lastId \notin SentIds
  BY <1>1, <1>2 DEF SentIds, InFlight
<1>7. AnsweredOnce'
  BY <1>1, <1>3, <1>6 DEF IInv, AnsweredOnce
<1>8. NewReplies'
  BY <1>1 DEF IInv, NewReplies, Resetting
<1>9. TakenOnce'
  BY <1>1 DEF IInv, TakenOnce
<1> QED
  BY <1>4, <1>5, <1>7, <1>8, <1>9 DEF IInv

\* A reply changes what the room is to see only together with a wake-up; a client
\* that answers a request does not have it any more.
LEMMA HandleReplyKeepsIInv ==
    ASSUME IInv, NEW p \in Players, NEW i \in client[p], HandleReply(p, i)
    PROVE  IInv'
<1>1. /\ client' = [client EXCEPT ![p] = @ \ {i}]
      /\ UNCHANGED <<at, todo, pending, asked, lastId, late, taken, state, thinking>>
  BY DEF HandleReply
<1>2. /\ pc' = pc \/ (pc' = "raced" /\ pc \in {"push", "raced"})
      /\ \/ UNCHANGED expected
         \/ expected' = [expected EXCEPT ![p] = @ \ {i}]
  BY DEF HandleReply, Erased, Extending
<1>3. \/ UNCHANGED <<reply, wakeups>>
      \/ reply' = [reply EXCEPT ![p] = i] /\ wakeups' = wakeups + 1
  BY DEF HandleReply
<1>4. /\ client \in [Players -> SUBSET Nat] /\ expected \in [Players -> SUBSET Nat]
      /\ reply \in [Players -> Int] /\ i \in Nat /\ wakeups \in Nat
  BY DEF IInv, Typed
<1>5. /\ client' \in [Players -> SUBSET Nat]
      /\ \A q \in Players : client'[q] \subseteq client[q]
      /\ i \notin client'[p]
  BY <1>1, <1>4
<1>6. /\ reply' \in [Players -> Int]
      /\ \A q \in Players \ {p} : reply'[q] = reply[q]
      /\ reply'[p] \in {reply[p], i}
  BY <1>3, <1>4
<1>7. /\ wakeups' \in Nat
      /\ wakeups' > 0 \/ UNCHANGED <<reply, wakeups>>
      /\ wakeups > 0 => wakeups' > 0
  BY <1>3, <1>4
<1>8. Typed'
  <2>1. expected' \in [Players -> SUBSET Nat]
    BY <1>2, <1>4
  <2> QED
    BY <1>1, <1>2, <1>5, <1>6, <1>7, <2>1 DEF IInv, Typed
<1>9. Rounds' /\ Thinkers'
  BY <1>1, <1>2 DEF IInv, Rounds, InFlight, Thinkers
<1>10. Polled' /\ Waiting'
  BY <1>1, <1>2, <1>7 DEF IInv, Polled, Waiting
<1>11. SentIds' = SentIds
  BY <1>1, <1>2 DEF SentIds, InFlight
<1>12. i \in SentIds /\ \A n \in 1..Len(taken[p]) : taken[p][n] # i
  BY DEF IInv, AnsweredOnce
<1>13. AnsweredOnce'
  <2>1. \A q \in Players : reply'[q] > 0 => reply'[q] \in SentIds' /\ reply'[q] \notin client'[q]
    BY <1>5, <1>6, <1>11, <1>12 DEF IInv, AnsweredOnce
  <2> QED
    BY <1>1, <1>5, <1>11, <2>1 DEF IInv, AnsweredOnce
<1>14. NewReplies'
  <2>1. \A q : Resetting(q)' <=> Resetting(q)
    BY <1>1, <1>2 DEF Resetting
  <2>2. pending \subseteq Players
    BY DEF IInv, Typed
  <2> QED
    BY <1>1, <1>6, <1>12, <2>1, <2>2 DEF IInv, NewReplies
<1>15. TakenOnce'
  BY <1>1 DEF IInv, TakenOnce
<1> QED
  BY <1>8, <1>9, <1>10, <1>13, <1>14, <1>15 DEF IInv

\* A player's state changes, with a wake-up if the player is waited for and does not
\* come back Online.
LEMMA StateChangeKeepsIInv ==
    ASSUME IInv, NEW p \in Players, Trust(p) \/ Leave(p) \/ Reconnect(p)
    PROVE  IInv'
<1>1. /\ UNCHANGED <<pc, at, todo, pending, asked, lastId, late, taken, thinking, expected, reply>>
      /\ \/ UNCHANGED client
         \/ client' = [client EXCEPT ![p] = {}]
  BY DEF Trust, Leave, Reconnect, roomVars
<1>2. \E new \in {"Online", "Trust", "Offline"} :
        /\ state' = [state EXCEPT ![p] = new]
        /\ wakeups' = wakeups \/ wakeups' = wakeups + 1
        /\ new # "Online" /\ thinking[p] => wakeups' = wakeups + 1
  BY DEF Trust, Leave, Reconnect, Woken
<1>3. PICK new \in {"Online", "Trust", "Offline"} :
        /\ state' = [state EXCEPT ![p] = new]
        /\ wakeups' = wakeups \/ wakeups' = wakeups + 1
        /\ new # "Online" /\ thinking[p] => wakeups' = wakeups + 1
  BY <1>2
<1>4. /\ client \in [Players -> SUBSET Nat]
      /\ state \in [Players -> {"Online", "Trust", "Offline"}]
      /\ wakeups \in Nat
  BY DEF IInv, Typed
<1>5. /\ client' \in [Players -> SUBSET Nat]
      /\ \A q \in Players : client'[q] \subseteq client[q]
  BY <1>1, <1>4
<1>6. /\ state' \in [Players -> {"Online", "Trust", "Offline"}]
      /\ \A q \in Players \ {p} : state'[q] = state[q]
      /\ state'[p] = new
  BY <1>3, <1>4
<1>7. /\ wakeups' \in Nat
      /\ wakeups > 0 => wakeups' > 0
      /\ new # "Online" /\ thinking[p] => wakeups' > 0
  BY <1>3, <1>4
<1>8. Typed'
  BY <1>1, <1>5, <1>6, <1>7 DEF IInv, Typed
<1>9. Rounds' /\ Thinkers' /\ Waiting'
  BY <1>1, <1>7 DEF IInv, Rounds, InFlight, Thinkers, Waiting
<1>10. Polled'
  BY <1>1, <1>6, <1>7 DEF IInv, Typed, Thinkers, Polled
<1>11. AnsweredOnce'
  <2>1. SentIds \subseteq SentIds'
    BY <1>1 DEF SentIds, InFlight
  <2> QED
    BY <1>1, <1>5, <2>1, NobodyAnswers DEF IInv
<1>12. NewReplies'
  BY <1>1 DEF IInv, NewReplies, Resetting
<1>13. TakenOnce'
  BY <1>1 DEF IInv, TakenOnce
<1> QED
  BY <1>8, <1>9, <1>10, <1>11, <1>12, <1>13 DEF IInv

-----------------------------------------------------------------------------
(* The theorems *)

\* Every step of the room's thread, of the timer, of the main loop and of the
\* players keeps the inductive invariant.
LEMMA NextKeepsIInv == IInv /\ [Next]_vars => IInv'
<1> SUFFICES ASSUME IInv, [Next]_vars
             PROVE  IInv'
  OBVIOUS
<1>1. CASE \E ps \in SUBSET Players \ {{}} : StartRound(ps)
  BY <1>1, StartRoundKeepsIInv
<1>2. CASE RoomStep
  BY <1>2, DoRequestKeepsIInv, WaitForReplyKeepsIInv, PushKeepsIInv, SetThinkingKeepsIInv,
     EndPollKeepsIInv, ResumeRoomKeepsIInv
  DEF RoomStep
<1>3. CASE TimerExpires
  BY <1>3, TimerKeepsIInv
<1>4. CASE SendMessage
  BY <1>4, SendMessageKeepsIInv
<1>5. CASE \E p \in Players : \E i \in client[p] : HandleReply(p, i)
  BY <1>5, HandleReplyKeepsIInv
<1>6. CASE \E p \in Players : Trust(p) \/ Leave(p) \/ Reconnect(p)
  BY <1>6, StateChangeKeepsIInv
<1>7. CASE UNCHANGED vars
  <2> USE <1>7 DEF vars, roomVars
  <2>1. Typed'
    BY DEF IInv, Typed
  <2>2. Rounds' /\ Thinkers' /\ Polled' /\ Waiting'
    BY DEF IInv, Rounds, InFlight, Thinkers, Polled, Waiting
  <2>3. AnsweredOnce'
    BY NobodyAnswers DEF IInv, SentIds, InFlight
  <2>4. NewReplies' /\ TakenOnce'
    BY DEF IInv, NewReplies, Resetting, TakenOnce
  <2> QED
    BY <2>1, <2>2, <2>3, <2>4 DEF IInv
<1> QED
  BY <1>1, <1>2, <1>3, <1>4, <1>5, <1>6, <1>7 DEF Next

\* The inductive invariant holds in every reachable state.
THEOREM Invariance == Spec => []IInv
<1> QED
  BY InitIInv, NextKeepsIInv, PTL DEF Spec

\* While the coroutine of a room waits, everything that should end its wait has a
\* wake-up on its way, however the poll, the replies, the timer and the players'
\* departures interleave.
THEOREM WakeUpsAreKept == Spec => []NoLostWakeUp
<1>1. IInv => NoLostWakeUp
  BY DEF IInv, Polled, Waiting, NoLostWakeUp
<1> QED
  BY <1>1, Invariance, PTL

\* Lua takes no reply for two requests: not a late one, nor one that was left in the
\* router of a player who was passed over or has come back.
THEOREM RepliesAreTakenOnce == Spec => []TakenOnce
<1>1. IInv => TakenOnce
  BY DEF IInv
<1> QED
  BY <1>1, Invariance, PTL

=============================================================================
