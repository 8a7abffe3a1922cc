------------------------- MODULE ClientSocketProofs -------------------------
(***************************************************************************)
(* The properties of ClientSocket, proved for any sockets, players and     *)
(* number of packets. What a socket has to send, writes and has written is *)
(* one run of numbers; the callbacks of a socket and the router that uses  *)
(* it name each other. Both are kept by every function of the source, so   *)
(* also where one handler calls several of them, and by the end of a       *)
(* handler, where the sockets nobody holds are destroyed.                  *)
(*                                                                         *)
(* And those of PacketStream, for any number of packets, lengths of data   *)
(* and reads: buffer and wire are the rest of a stream with a grammar, and *)
(* what the builder makes of a piece of it is known for each of its bytes. *)
(***************************************************************************)
EXTENDS ClientSocket, PacketStream, SequenceTheorems, WellFoundedInduction, TLAPS

(* The inductive invariant, on a state within a handler *)

Worlds == [sock : [Sockets -> Sock], holder : [Players -> Sockets \cup {None}],
           grabbed : SUBSET Sockets]

\* What is written is the head of the queue; the queue ends with the last packet
\* that was sent, and the wire ends where it begins, unless a write has failed.
Flow(x) ==
    /\ x.writing = IF x.queue = <<>> THEN <<>> ELSE <<Head(x.queue)>>
    /\ \A i \in 1..Len(x.queue) : x.queue[i] + Len(x.queue) = x.sent + i
    /\ \A i \in 1..Len(x.wire) : x.wire[i] = i
    /\ x.up => Len(x.wire) + Len(x.queue) = x.sent

\* A socket that is bound to a player or to the sign-up is open and read, and one
\* told to close has something left to write.
Local(x) ==
    /\ x.fd = "free" => x = Free
    /\ x.fd = "closed" => /\ x.queue = <<>> /\ x.writing = <<>>
                          /\ x.onMessage = "none" /\ x.onLost = "none"
    /\ (x.closing /\ x.fd = "open") => x.queue # <<>>
    /\ (x.onMessage \in Players \/ x.onLost \in Players) => x.onMessage = x.onLost
    /\ x.onMessage \in Players \cup {"auth"} => x.fd = "open" /\ x.reader

Sound(w) ==
    /\ w \in Worlds
    /\ \A s \in Sockets : Flow(w.sock[s]) /\ Local(w.sock[s])
    /\ \A p \in Players, s \in Sockets : w.holder[p] = s <=> w.sock[s].onLost = p
    /\ \A s \in w.grabbed : w.sock[s].fd # "free"

\* Between handlers, whoever is not free is open and held.
IInv ==
    /\ Sound(Now)
    /\ \A s \in Sockets : sock[s].fd = "free" \/ (sock[s].fd = "open" /\ Referenced(Now, s))

-----------------------------------------------------------------------------
(* Worlds *)

\* A state in which socket s is y.
Put(w, s, y) == [w EXCEPT !.sock = [@ EXCEPT ![s] = y]]

\* The parts of a world.
LEMMA WorldParts ==
    ASSUME NEW w \in Worlds
    PROVE  /\ w.sock \in [Sockets -> Sock]
           /\ w.holder \in [Players -> Sockets \cup {None}]
           /\ w.grabbed \subseteq Sockets
           /\ w = [sock |-> w.sock, holder |-> w.holder, grabbed |-> w.grabbed]
BY DEF Worlds

\* Put changes one socket and nothing else.
LEMMA PutAt ==
    ASSUME NEW w \in Worlds, NEW s \in Sockets, NEW y
    PROVE  Put(w, s, y).sock[s] = y
BY DEF Put, Worlds

\* The other sockets stay as they are.
LEMMA PutOthers ==
    ASSUME NEW w \in Worlds, NEW s \in Sockets, NEW y
    PROVE  \A k \in Sockets : k # s => Put(w, s, y).sock[k] = w.sock[k]
BY DEF Put, Worlds

\* So do the routers and the sockets grabbed.
LEMMA PutRest ==
    ASSUME NEW w \in Worlds, NEW s \in Sockets, NEW y
    PROVE  /\ Put(w, s, y).holder = w.holder
           /\ Put(w, s, y).grabbed = w.grabbed
           /\ y \in Sock => Put(w, s, y) \in Worlds
BY DEF Put, Worlds

\* The later of two changes counts.
LEMMA PutTwice ==
    ASSUME NEW w \in Worlds, NEW s \in Sockets, NEW x, NEW y
    PROVE  Put(Put(w, s, x), s, y) = Put(w, s, y)
BY DEF Put, Worlds

\* The free socket is in order.
LEMMA FreeIsSound ==
    Free \in Sock /\ Flow(Free) /\ Local(Free) /\ Free.onLost \notin Players
BY NoneIsNoName DEF Free, Sock, Callbacks, Flow, Local

\* A socket may change as long as it stays bound to the same player or to none.
LEMMA PutKeeps ==
    ASSUME NEW w, Sound(w), NEW s \in Sockets, NEW y \in Sock, Flow(y), Local(y),
           y.onLost = w.sock[s].onLost \/ (y.onLost \notin Players /\ w.sock[s].onLost \notin Players),
           y.fd # "free"
    PROVE  Sound(Put(w, s, y))
<1> DEFINE v == Put(w, s, y)
<1>1. w \in Worlds
  BY DEF Sound
<1>2. v.holder = w.holder /\ v.grabbed = w.grabbed /\ v \in Worlds
  BY <1>1, PutRest
<1>p. v.sock[s] = y /\ \A k \in Sockets : k # s => v.sock[k] = w.sock[k]
  BY <1>1, PutAt, PutOthers
<1> HIDE DEF v
<1>3. \A k \in Sockets : Flow(v.sock[k]) /\ Local(v.sock[k])
  BY <1>p DEF Sound
<1>4. \A p \in Players, k \in Sockets : v.holder[p] = k <=> v.sock[k].onLost = p
  BY <1>2, <1>p DEF Sound
<1>5. \A k \in v.grabbed : v.sock[k].fd # "free"
  BY <1>1, <1>2, <1>p, WorldParts DEF Sound
<1>6. Sound(v)
  BY <1>2, <1>3, <1>4, <1>5 DEF Sound
<1> QED
  BY <1>6 DEF v

\* A router's socket is bound to it, open and read; nobody else has it.
LEMMA HeldIsHeard ==
    ASSUME NEW w, Sound(w), NEW p \in Players, w.holder[p] # None
    PROVE  /\ w.holder[p] \in Sockets
           /\ w.sock[w.holder[p]].onLost = p /\ w.sock[w.holder[p]].onMessage = p
           /\ w.sock[w.holder[p]].fd = "open" /\ w.sock[w.holder[p]].reader
<1>1. w.holder[p] \in Sockets
  BY WorldParts DEF Sound
<1> QED
  BY <1>1 DEF Sound, Local

-----------------------------------------------------------------------------
(* The end of a handler *)

\* Whoever is not referenced is neither bound nor written to.
LEMMA Unreferenced ==
    ASSUME NEW w, Sound(w), NEW s \in Sockets, ~Referenced(w, s)
    PROVE  /\ w.sock[s].onLost \notin Players /\ w.sock[s].onMessage \notin Players \cup {"auth"}
           /\ w.sock[s].queue = <<>> /\ \A p \in Players : w.holder[p] # s
<1>1. w.sock[s].onLost \notin Players /\ w.sock[s].onMessage # "auth" /\ w.sock[s].writing = <<>>
  BY DEF Referenced
<1>2. \A p \in Players : w.holder[p] # s
  BY DEF Referenced
<1>3. w.sock[s].onMessage \notin Players
  BY <1>1 DEF Sound, Local
<1>4. w.sock[s].queue = <<>>
  <2>1. w.sock[s].writing = IF w.sock[s].queue = <<>> THEN <<>> ELSE <<Head(w.sock[s].queue)>>
    BY DEF Sound, Flow
  <2>2. <<Head(w.sock[s].queue)>> # <<>>
    OBVIOUS
  <2> QED
    BY <1>1, <2>1, <2>2
<1> QED
  BY <1>1, <1>2, <1>3, <1>4

\* The end of a handler keeps the invariant and destroys what is closed.
LEMMA BecomesKeeps ==
    ASSUME NEW w, Sound(w), Becomes(w)
    PROVE  IInv'
<1> DEFINE dead == {s \in Sockets : ~Referenced(w, s)}
<1>1. /\ sock' = [s \in Sockets |-> IF s \in dead THEN Free ELSE w.sock[s]]
      /\ holder' = w.holder /\ grabbed' = w.grabbed \ dead
  BY DEF Becomes
<1>2. w.sock \in [Sockets -> Sock] /\ w.holder \in [Players -> Sockets \cup {None}]
      /\ w.grabbed \subseteq Sockets
  BY WorldParts DEF Sound
<1>3. \A s \in dead : s \in Sockets /\ w.sock[s].onLost \notin Players
  BY Unreferenced
<1>4. \A s \in Sockets \ dead : Referenced(w, s) /\ w.sock[s].fd \in {"free", "open", "closed"}
  BY <1>2 DEF Sock
<1> HIDE DEF dead
<1>5. \A s \in Sockets : sock'[s] = IF s \in dead THEN Free ELSE w.sock[s]
  BY <1>1
<1>6. Now' \in Worlds
  BY <1>1, <1>2, FreeIsSound DEF Now, Worlds
<1>7. \A s \in Sockets : Flow(sock'[s]) /\ Local(sock'[s])
  BY <1>5, FreeIsSound DEF Sound
<1>8. \A p \in Players, s \in Sockets : holder'[p] = s <=> sock'[s].onLost = p
  BY <1>1, <1>3, <1>5, FreeIsSound DEF Sound
<1>9. \A s \in grabbed' : sock'[s].fd # "free"
  BY <1>1, <1>2, <1>5 DEF Sound
<1>10. Sound(Now')
  BY <1>6, <1>7, <1>8, <1>9 DEF Sound, Now
<1>11. ASSUME NEW s \in Sockets
       PROVE  sock'[s].fd = "free" \/ (sock'[s].fd = "open" /\ Referenced(Now', s))
  <2>1. CASE s \in dead
    BY <1>5, <2>1 DEF Free
  <2>2. CASE s \notin dead
    <3>1. Referenced(w, s) /\ sock'[s] = w.sock[s] /\ holder' = w.holder
      BY <1>1, <1>4, <1>5, <2>2
    <3>2. Referenced(Now', s)
      BY <3>1 DEF Referenced, Now
    <3>3. w.sock[s].fd # "closed"
      BY <3>1, NoneIsNoName DEF Referenced, Sound, Local
    <3> QED
      BY <1>4, <2>2, <3>1, <3>2, <3>3
  <2> QED
    BY <2>1, <2>2
<1> QED
  BY <1>10, <1>11 DEF IInv

-----------------------------------------------------------------------------
(* Sending *)

\* A socket after one more packet: only one that finds the queue empty is written.
Sent(x) == [x EXCEPT !.sent = x.sent + 1, !.queue = Append(x.queue, x.sent + 1),
                     !.writing = IF x.queue = <<>> THEN <<x.sent + 1>> ELSE x.writing]

\* Appending, in the form used here.
LEMMA AppendLen ==
    ASSUME NEW q \in Seq(Nat), NEW n \in Nat
    PROVE  /\ Append(q, n) \in Seq(Nat) /\ Len(q) \in Nat
           /\ Len(Append(q, n)) = Len(q) + 1
           /\ Append(q, n)[Len(q) + 1] = n
           /\ \A i \in 1..Len(q) : Append(q, n)[i] = q[i]
OBVIOUS

\* A queue to which something was added is not empty.
LEMMA AppendNotEmpty ==
    ASSUME NEW q \in Seq(Nat), NEW n \in Nat
    PROVE  Append(q, n) # <<>>
OBVIOUS

\* The fields of a socket.
LEMMA SockFields ==
    ASSUME NEW x \in Sock
    PROVE  /\ x.sent \in Nat /\ x.queue \in Seq(Nat) /\ x.writing \in Seq(Nat) /\ x.wire \in Seq(Nat)
           /\ x.up \in BOOLEAN /\ x.reader \in BOOLEAN /\ x.closing \in BOOLEAN
           /\ x.onMessage \in Callbacks /\ x.onLost \in Callbacks
           /\ x.fd \in {"free", "open", "closed"}
BY DEF Sock

\* What a packet changes and what it leaves alone.
LEMMA SentFields ==
    ASSUME NEW x \in Sock
    PROVE  /\ Sent(x) \in Sock
           /\ Sent(x).fd = x.fd /\ Sent(x).reader = x.reader /\ Sent(x).closing = x.closing
           /\ Sent(x).onMessage = x.onMessage /\ Sent(x).onLost = x.onLost
           /\ Sent(x).up = x.up /\ Sent(x).wire = x.wire
           /\ Sent(x).sent = x.sent + 1 /\ Sent(x).queue = Append(x.queue, x.sent + 1)
           /\ Sent(x).writing = IF x.queue = <<>> THEN <<x.sent + 1>> ELSE x.writing
<1>1. x.sent \in Nat /\ x.queue \in Seq(Nat) /\ x.writing \in Seq(Nat)
  BY SockFields
<1> DEFINE n == x.sent + 1
           q == Append(x.queue, n)
           wr == IF x.queue = <<>> THEN <<n>> ELSE x.writing
<1>2. n \in Nat /\ q \in Seq(Nat) /\ wr \in Seq(Nat)
  BY <1>1
<1>3. Sent(x) = [x EXCEPT !.sent = n, !.queue = q, !.writing = wr]
  BY DEF Sent
<1> HIDE DEF n, q, wr
<1>4. /\ Sent(x) \in Sock
      /\ Sent(x).fd = x.fd /\ Sent(x).reader = x.reader /\ Sent(x).closing = x.closing
      /\ Sent(x).onMessage = x.onMessage /\ Sent(x).onLost = x.onLost
      /\ Sent(x).up = x.up /\ Sent(x).wire = x.wire
      /\ Sent(x).sent = n /\ Sent(x).queue = q /\ Sent(x).writing = wr
  BY <1>2, <1>3 DEF Sock
<1> QED
  BY <1>4 DEF n, q, wr

\* A packet behind the others keeps the order.
LEMMA SentIsSound ==
    ASSUME NEW x \in Sock, Flow(x), Local(x), x.fd = "open"
    PROVE  Flow(Sent(x)) /\ Local(Sent(x)) /\ Sent(x).queue # <<>> /\ Sent(x).writing # <<>>
<1>1. /\ x.sent \in Nat /\ x.queue \in Seq(Nat) /\ x.wire \in Seq(Nat)
  BY SockFields
<1> DEFINE y == Sent(x)
<1>2. /\ y.fd = x.fd /\ y.reader = x.reader /\ y.closing = x.closing
      /\ y.onMessage = x.onMessage /\ y.onLost = x.onLost
      /\ y.up = x.up /\ y.wire = x.wire
  BY SentFields
<1>3. /\ y.sent = x.sent + 1 /\ y.queue = Append(x.queue, x.sent + 1)
      /\ y.writing = IF x.queue = <<>> THEN <<x.sent + 1>> ELSE x.writing
  BY SentFields
<1> HIDE DEF y
<1>n. x.sent + 1 \in Nat /\ Len(x.queue) \in Nat /\ Len(x.wire) \in Nat
  BY <1>1
<1>4. y.queue # <<>> /\ Len(y.queue) = Len(x.queue) + 1
  <2>1. y.queue # <<>>
    BY <1>1, <1>3, <1>n, AppendNotEmpty
  <2>2. Len(y.queue) = Len(x.queue) + 1
    BY <1>1, <1>3, <1>n, AppendLen
  <2> QED
    BY <2>1, <2>2
<1>5. y.writing = <<Head(y.queue)>>
  <2>1. CASE x.queue = <<>>
    BY <1>1, <1>3, <2>1
  <2>2. CASE x.queue # <<>>
    <3>1. Head(y.queue) = Head(x.queue)
      BY <1>1, <1>3, <2>2
    <3> QED
      BY <1>3, <2>2, <3>1 DEF Flow
  <2> QED
    BY <2>1, <2>2
<1>6. \A i \in 1..Len(y.queue) : y.queue[i] + Len(y.queue) = y.sent + i
  <2> SUFFICES ASSUME NEW i \in 1..Len(y.queue)
               PROVE  y.queue[i] + Len(y.queue) = y.sent + i
    OBVIOUS
  <2>1. CASE i = Len(y.queue)
    BY <1>1, <1>3, <1>4, <2>1
  <2>2. CASE i # Len(y.queue)
    <3>1. i \in 1..Len(x.queue) /\ y.queue[i] = x.queue[i] /\ x.queue[i] \in Nat
      BY <1>1, <1>3, <1>4, <2>2
    <3>2. x.queue[i] + Len(x.queue) = x.sent + i
      BY <3>1 DEF Flow
    <3>3. y.sent = x.sent + 1 /\ Len(y.queue) = Len(x.queue) + 1
      BY <1>3, <1>4
    <3>4. i \in Nat
      BY <1>n, <3>1
    <3> DEFINE a == x.queue[i]
               l == Len(x.queue)
               t == x.sent
    <3>5. a \in Nat /\ l \in Nat /\ t \in Nat /\ a + l = t + i
      BY <1>1, <1>n, <3>1, <3>2
    <3> HIDE DEF a, l, t
    <3>6. a + (l + 1) = (t + 1) + i
      BY <3>4, <3>5
    <3> QED
      BY <3>1, <3>3, <3>6 DEF a, l, t
  <2> QED
    BY <2>1, <2>2
<1>7. y.up => Len(y.wire) + Len(y.queue) = y.sent
  <2>1. x.up => Len(x.wire) + Len(x.queue) = x.sent
    BY DEF Flow
  <2>2. y.sent = x.sent + 1 /\ Len(y.queue) = Len(x.queue) + 1 /\ y.up = x.up /\ y.wire = x.wire
    BY <1>2, <1>3, <1>4
  <2> SUFFICES ASSUME y.up
               PROVE  Len(y.wire) + Len(y.queue) = y.sent
    OBVIOUS
  <2>3. Len(x.wire) + Len(x.queue) = x.sent
    BY <2>1, <2>2
  <2> DEFINE a == Len(x.wire)
             l == Len(x.queue)
             t == x.sent
  <2>4. a \in Nat /\ l \in Nat /\ t \in Nat /\ a + l = t
    BY <1>1, <1>n, <2>3
  <2> HIDE DEF a, l, t
  <2>5. a + (l + 1) = t + 1
    BY <2>4
  <2> QED
    BY <2>2, <2>5 DEF a, l, t
<1>8. Flow(y)
  BY <1>2, <1>4, <1>5, <1>6, <1>7 DEF Flow
<1>9. Local(y)
  BY <1>2, <1>4 DEF Local
<1>10. y.writing # <<>>
  BY <1>5
<1> QED
  BY <1>4, <1>8, <1>9, <1>10 DEF y

\* send and its send_loop are one change of the socket.
LEMMA SendIs ==
    ASSUME NEW w, Sound(w), NEW s \in Sockets
    PROVE  Send(w, s) = Put(w, s, Sent(w.sock[s]))
<1> DEFINE x == w.sock[s]
           n == x.sent + 1
           q == Append(x.queue, n)
           y == [x EXCEPT !.sent = n, !.queue = q]
           v == [w EXCEPT !.sock[s].sent = n, !.sock[s].queue = Append(@, n)]
<1>1. w \in Worlds /\ x \in Sock /\ Flow(x)
  BY WorldParts DEF Sound
<1>2. x.sent \in Nat /\ x.queue \in Seq(Nat) /\ x.writing \in Seq(Nat)
  BY <1>1, SockFields
<1>n. n \in Nat /\ Len(x.queue) \in Nat
  BY <1>2
<1>3. q \in Seq(Nat) /\ Len(q) = Len(x.queue) + 1 /\ q # <<>>
  <2> HIDE DEF n, x
  <2>1. q \in Seq(Nat) /\ Len(q) = Len(x.queue) + 1
    BY <1>2, <1>n, AppendLen
  <2>2. q # <<>>
    BY <1>2, <1>n, AppendNotEmpty
  <2> QED
    BY <2>1, <2>2
<1>4. v = Put(w, s, y)
  BY <1>1 DEF Put, Worlds, Sock
<1>5. v.sock[s] = y
  <2> HIDE DEF y, v
  <2> QED
    BY <1>1, <1>4, PutAt
<1>6. y.queue = q /\ y.writing = x.writing
  BY <1>1 DEF Sock
<1>7. Send(w, s) = IF Len(v.sock[s].queue) = 1 THEN SendLoop(v, s) ELSE v
  BY DEF Send
<1>8. CASE x.queue = <<>>
  <2>1. x.writing = <<>> /\ q = <<n>> /\ Head(q) = n
    BY <1>1, <1>2, <1>8 DEF Flow
  <2>2. SendLoop(v, s) = [v EXCEPT !.sock[s].writing = Append(@, Head(q))]
    BY <1>3, <1>5, <1>6 DEF SendLoop
  <2>3. Len(v.sock[s].queue) = 1
    <3>1. v.sock[s].queue = <<n>>
      BY <1>5, <1>6, <2>1
    <3> HIDE DEF v, n
    <3> QED
      BY <3>1, <1>n
  <2>4. Send(w, s) = [v EXCEPT !.sock[s].writing = Append(x.writing, n)]
    BY <1>5, <1>6, <1>7, <2>1, <2>2, <2>3
  <2>5. Send(w, s) = Put(v, s, [y EXCEPT !.writing = <<n>>])
    <3>1. Append(x.writing, n) = <<n>>
      BY <2>1
    <3>2. [v EXCEPT !.sock[s].writing = <<n>>] = Put(v, s, [v.sock[s] EXCEPT !.writing = <<n>>])
      BY DEF Put
    <3> QED
      BY <1>5, <2>4, <3>1, <3>2
  <2>6. [y EXCEPT !.writing = <<n>>] = Sent(x)
    BY <1>1, <1>8 DEF Sent, Sock
  <2> QED
    BY <1>1, <1>4, <2>5, <2>6, PutTwice
<1>9. CASE x.queue # <<>>
  <2>1. Len(q) # 1
    BY <1>2, <1>3, <1>9
  <2>2. y = Sent(x)
    BY <1>1, <1>9 DEF Sent, Sock
  <2> QED
    BY <1>4, <1>5, <1>6, <1>7, <2>1, <2>2
<1> QED
  BY <1>8, <1>9

\* send keeps what was in order.
LEMMA SendKeeps ==
    ASSUME NEW w, Sound(w), NEW s \in Sockets, w.sock[s].fd = "open"
    PROVE  Sound(Send(w, s))
<1> DEFINE x == w.sock[s]
<1>1. x \in Sock /\ Flow(x) /\ Local(x)
  BY WorldParts DEF Sound
<1>2. Sent(x) \in Sock /\ Sent(x).fd = "open" /\ Sent(x).onLost = x.onLost
  BY <1>1, SentFields
<1>3. Flow(Sent(x)) /\ Local(Sent(x))
  BY <1>1, SentIsSound
<1>4. Sound(Put(w, s, Sent(x)))
  <2> DEFINE y == Sent(x)
  <2>1. y \in Sock /\ y.fd # "free" /\ y.onLost = w.sock[s].onLost /\ Flow(y) /\ Local(y)
    BY <1>2, <1>3
  <2> HIDE DEF y
  <2>2. Sound(Put(w, s, y))
    BY <2>1, PutKeeps
  <2> QED
    BY <2>2 DEF y
<1> QED
  BY <1>4, SendIs

\* The order does not depend on the callbacks, the timer or the descriptor.
LEMMA SameFlow ==
    ASSUME NEW x, Flow(x), NEW y, y.queue = x.queue, y.writing = x.writing, y.wire = x.wire,
           y.up = x.up, y.sent = x.sent
    PROVE  Flow(y)
<1>1. y.up => Len(y.wire) + Len(y.queue) = y.sent
  BY DEF Flow
<1>2. \A i \in 1..Len(y.queue) : y.queue[i] + Len(y.queue) = y.sent + i
  BY DEF Flow
<1>3. \A i \in 1..Len(y.wire) : y.wire[i] = i
  BY DEF Flow
<1>4. y.writing = IF y.queue = <<>> THEN <<>> ELSE <<Head(y.queue)>>
  BY DEF Flow
<1> QED
  BY <1>1, <1>2, <1>3, <1>4 DEF Flow

-----------------------------------------------------------------------------
(* Closing and binding *)

\* A state in which socket s is y and no router has s.
Drop(w, s, y) ==
    [sock |-> [w.sock EXCEPT ![s] = y],
     holder |-> [p \in Players |-> IF w.holder[p] = s THEN None ELSE w.holder[p]],
     grabbed |-> w.grabbed]

Unbound(x) == [x EXCEPT !.onMessage = "none", !.onLost = "none"]
Closed(x) == [x EXCEPT !.closing = TRUE, !.fd = "closed", !.onMessage = "none", !.onLost = "none"]
Asked(x) == [x EXCEPT !.closing = TRUE]
LetGo(x) == [x EXCEPT !.onMessage = "none", !.onLost = "log"]
BoundTo(x, p) == [x EXCEPT !.onMessage = p, !.onLost = p]
Unread(x) == [x EXCEPT !.onMessage = "none", !.onLost = "none", !.reader = FALSE]

\* The socket after Drop.
LEMMA DropAt ==
    ASSUME NEW w \in Worlds, NEW s \in Sockets, NEW y
    PROVE  Drop(w, s, y).sock[s] = y
BY DEF Drop, Worlds

\* The other sockets.
LEMMA DropOthers ==
    ASSUME NEW w \in Worlds, NEW s \in Sockets, NEW y
    PROVE  \A k \in Sockets : k # s => Drop(w, s, y).sock[k] = w.sock[k]
BY DEF Drop, Worlds

\* The rest of the state.
LEMMA DropRest ==
    ASSUME NEW w \in Worlds, NEW s \in Sockets, NEW y
    PROVE  /\ Drop(w, s, y).grabbed = w.grabbed
           /\ Drop(w, s, y).holder = [p \in Players |-> IF w.holder[p] = s THEN None ELSE w.holder[p]]
BY DEF Drop

\* Drop gives a state.
LEMMA DropTyped ==
    ASSUME NEW w \in Worlds, NEW s \in Sockets, NEW y \in Sock
    PROVE  Drop(w, s, y) \in Worlds
BY DEF Drop, Worlds

\* The callbacks and the routers agree after a socket has been let go.
LEMMA DropKeeps ==
    ASSUME NEW w, Sound(w), NEW s \in Sockets, NEW y \in Sock, Flow(y), Local(y),
           y.onLost \notin Players, y.fd # "free"
    PROVE  Sound(Drop(w, s, y))
<1> DEFINE v == Drop(w, s, y)
<1>1. w \in Worlds
  BY DEF Sound
<1>2. v.holder = [p \in Players |-> IF w.holder[p] = s THEN None ELSE w.holder[p]]
  BY <1>1, DropRest
<1>3. v.grabbed = w.grabbed /\ v \in Worlds
  BY <1>1, DropRest, DropTyped
<1>4. v.sock[s] = y /\ \A k \in Sockets : k # s => v.sock[k] = w.sock[k]
  BY <1>1, DropAt, DropOthers
<1> HIDE DEF v
<1>5. \A k \in Sockets : Flow(v.sock[k]) /\ Local(v.sock[k])
  BY <1>4 DEF Sound
<1>6. \A p \in Players, k \in Sockets : v.holder[p] = k <=> v.sock[k].onLost = p
  <2> SUFFICES ASSUME NEW p \in Players, NEW k \in Sockets
               PROVE  v.holder[p] = k <=> v.sock[k].onLost = p
    OBVIOUS
  <2>1. w.holder[p] = k <=> w.sock[k].onLost = p
    BY DEF Sound
  <2>2. v.holder[p] = IF w.holder[p] = s THEN None ELSE w.holder[p]
    BY <1>2
  <2>3. CASE k = s
    BY <1>4, <2>2, <2>3, NoneIsNoName
  <2>4. CASE k # s
    BY <1>4, <2>1, <2>2, <2>4, NoneIsNoName
  <2> QED
    BY <2>3, <2>4
<1>7. \A k \in v.grabbed : v.sock[k].fd # "free"
  BY <1>1, <1>3, <1>4, WorldParts DEF Sound
<1>8. Sound(v)
  BY <1>3, <1>5, <1>6, <1>7 DEF Sound
<1> QED
  BY <1>8 DEF v

\* Put and Drop, one after the other.
LEMMA PutDropped ==
    ASSUME NEW w \in Worlds, NEW s \in Sockets, NEW x, NEW y
    PROVE  Put(Drop(w, s, x), s, y) = Drop(w, s, y)
BY DEF Put, Drop, Worlds

\* The other way round.
LEMMA DropPut ==
    ASSUME NEW w \in Worlds, NEW s \in Sockets, NEW x, NEW y
    PROVE  Drop(Put(w, s, x), s, y) = Drop(w, s, y)
<1>1. /\ Put(w, s, x).sock = [w.sock EXCEPT ![s] = x]
      /\ Put(w, s, x).holder = w.holder /\ Put(w, s, x).grabbed = w.grabbed
  BY DEF Put, Worlds
<1>2. [[w.sock EXCEPT ![s] = x] EXCEPT ![s] = y] = [w.sock EXCEPT ![s] = y]
  BY DEF Worlds
<1> QED
  BY <1>1, <1>2 DEF Drop

\* Sockets that nobody has need no letting go.
LEMMA DropNobody ==
    ASSUME NEW w \in Worlds, NEW s \in Sockets, NEW y, \A p \in Players : w.holder[p] # s
    PROVE  Drop(w, s, y) = Put(w, s, y)
<1>1. [p \in Players |-> IF w.holder[p] = s THEN None ELSE w.holder[p]] = w.holder
  BY DEF Worlds
<1>2. Drop(w, s, y) = [sock |-> [w.sock EXCEPT ![s] = y], holder |-> w.holder, grabbed |-> w.grabbed]
  BY <1>1 DEF Drop
<1>3. Put(w, s, y) = [sock |-> [w.sock EXCEPT ![s] = y], holder |-> w.holder, grabbed |-> w.grabbed]
  BY DEF Put, Worlds
<1> QED
  BY <1>2, <1>3

\* The callbacks are reset one by one.
LEMMA UnbindIs ==
    ASSUME NEW w \in Worlds, NEW s \in Sockets
    PROVE  Unbind(w, s) = Put(w, s, Unbound(w.sock[s]))
<1> DEFINE x == w.sock[s]
           y == [x EXCEPT !.onMessage = "none"]
           v == Put(w, s, y)
<1>1. x \in Sock
  BY WorldParts
<1>2. [w EXCEPT !.sock[s].onMessage = "none"] = v
  BY DEF Put
<1>3. Unbind(w, s) = [v EXCEPT !.sock[s].onLost = "none"]
  BY <1>2 DEF Unbind
<1>4. [v EXCEPT !.sock[s].onLost = "none"] = Put(v, s, [v.sock[s] EXCEPT !.onLost = "none"])
  BY DEF Put
<1>5. v.sock[s] = y
  <2> HIDE DEF y
  <2> QED
    BY PutAt
<1>6. [y EXCEPT !.onLost = "none"] = Unbound(x)
  BY <1>1 DEF Unbound, Sock
<1>7. Put(v, s, Unbound(x)) = Put(w, s, Unbound(x))
  <2> HIDE DEF y, x
  <2> QED
    BY PutTwice
<1> QED
  BY <1>3, <1>4, <1>5, <1>6, <1>7

\* A state with other sockets and routers.
LEMMA OtherParts ==
    ASSUME NEW w \in Worlds, NEW f, NEW h
    PROVE  [w EXCEPT !.holder = h, !.sock = f] = [sock |-> f, holder |-> h, grabbed |-> w.grabbed]
<1> DEFINE v == [sock |-> w.sock, holder |-> h, grabbed |-> w.grabbed]
<1>1. [w EXCEPT !.holder = h] = v
  BY DEF Worlds
<1>2. [v EXCEPT !.sock = f] = [sock |-> f, holder |-> h, grabbed |-> w.grabbed]
  OBVIOUS
<1> QED
  BY <1>1, <1>2

\* setSocket(nullptr) lets go of the player's socket.
LEMMA SetNoSocketIs ==
    ASSUME NEW w \in Worlds, NEW p \in Players, NEW s \in Sockets, w.holder[p] = s,
           \A q \in Players : w.holder[q] = s => q = p
    PROVE  SetSocket(w, p, None) = Drop(w, s, LetGo(w.sock[s]))
<1> DEFINE f == [k \in Sockets |->
                    IF k = None THEN [w.sock[k] EXCEPT !.onMessage = p, !.onLost = p]
                    ELSE IF k = s THEN [w.sock[k] EXCEPT !.onMessage = "none", !.onLost = "log"]
                    ELSE w.sock[k]]
           h == [w.holder EXCEPT ![p] = None]
<1>2. SetSocket(w, p, None) = [w EXCEPT !.holder = h, !.sock = f]
  BY DEF SetSocket
<1>3. f = [w.sock EXCEPT ![s] = LetGo(w.sock[s])]
  BY NoneIsNoName DEF LetGo, Worlds
<1>4. h = [q \in Players |-> IF w.holder[q] = s THEN None ELSE w.holder[q]]
  BY DEF Worlds
<1> HIDE DEF f, h
<1>5. [w EXCEPT !.holder = h, !.sock = f] = [sock |-> f, holder |-> h, grabbed |-> w.grabbed]
  BY OtherParts
<1> QED
  BY <1>2, <1>3, <1>4, <1>5 DEF Drop

\* The disconnected callback and the reset of both callbacks let go of a socket,
\* whose player, if it has one, is the one its callback is bound to.
LEMMA LostIs ==
    ASSUME NEW w \in Worlds, NEW s \in Sockets,
           \A p \in Players : w.holder[p] = s <=> w.sock[s].onLost = p
    PROVE  Unbind(Lost(w, s), s) = Drop(w, s, Unbound(w.sock[s]))
<1> DEFINE x == w.sock[s]
           o == x.onLost
<1>1. x \in Sock
  BY WorldParts
<1>2. CASE o \in Players /\ w.holder[o] = s
  <2>1. Lost(w, s) = SetSocket(w, o, None)
    BY <1>2 DEF Lost
  <2>2. Lost(w, s) = Drop(w, s, LetGo(x))
    BY <1>2, <2>1, SetNoSocketIs
  <2> DEFINE y == LetGo(x)
             v == Drop(w, s, y)
  <2>3. y \in Sock /\ Unbound(y) = Unbound(x)
    BY <1>1 DEF LetGo, Unbound, Sock, Callbacks
  <2> HIDE DEF y
  <2>4. v \in Worlds /\ v.sock[s] = y
    BY <2>3, DropTyped, DropAt
  <2> HIDE DEF v
  <2>5. Unbind(v, s) = Put(v, s, Unbound(y))
    BY <2>4, UnbindIs
  <2>6. Put(v, s, Unbound(y)) = Drop(w, s, Unbound(y))
    BY PutDropped DEF v
  <2> QED
    BY <2>2, <2>3, <2>5, <2>6 DEF v, y
<1>3. CASE ~(o \in Players /\ w.holder[o] = s)
  <2>1. Lost(w, s) = w
    BY <1>3 DEF Lost
  <2>2. \A p \in Players : w.holder[p] # s
    BY <1>3
  <2>3. Unbind(w, s) = Put(w, s, Unbound(x))
    BY UnbindIs
  <2> QED
    BY <2>1, <2>2, <2>3, DropNobody
<1> QED
  BY <1>2, <1>3

\* do_close, of a socket in state x, which may have been asked to close.
LEMMA DoCloseIs ==
    ASSUME NEW w \in Worlds, NEW s \in Sockets, NEW x \in Sock,
           \A p \in Players : w.holder[p] = s <=> x.onLost = p,
           x.closing
    PROVE  DoClose(Put(w, s, x), s) = Drop(w, s, Closed(x))
<1> DEFINE v == Put(w, s, x)
           y == [x EXCEPT !.fd = "closed"]
           u == Put(v, s, y)
<1>1. v \in Worlds /\ v.sock[s] = x /\ v.holder = w.holder
  <2>1. v \in Worlds /\ v.holder = w.holder
    BY PutRest
  <2>2. v.sock[s] = x
    BY PutAt
  <2> QED
    BY <2>1, <2>2
<1>2. y \in Sock /\ y.onLost = x.onLost /\ Unbound(y) = Closed(x)
  BY DEF Sock, Unbound, Closed
<1> HIDE DEF v
<1>3. [v EXCEPT !.sock[s].fd = "closed"] = Put(v, s, [v.sock[s] EXCEPT !.fd = "closed"])
  BY DEF Put
<1>4. DoClose(v, s) = Unbind(Lost(u, s), s)
  BY <1>1, <1>3 DEF DoClose
<1> HIDE DEF y
<1>5. u \in Worlds /\ u.sock[s] = y /\ u.holder = w.holder
  <2>1. u \in Worlds /\ u.holder = v.holder
    BY <1>1, <1>2, PutRest
  <2>2. u.sock[s] = y
    BY <1>1, PutAt
  <2> QED
    BY <1>1, <2>1, <2>2
<1>6. u = Put(w, s, y)
  BY PutTwice DEF v
<1> HIDE DEF u
<1>7. Unbind(Lost(u, s), s) = Drop(u, s, Unbound(y))
  BY <1>2, <1>5, LostIs
<1>8. Drop(u, s, Closed(x)) = Drop(w, s, Closed(x))
  BY <1>6, DropPut
<1> QED
  BY <1>2, <1>4, <1>7, <1>8 DEF v

\* What closing makes of a socket that has nothing to write.
LEMMA ClosedIsSound ==
    ASSUME NEW x \in Sock, Flow(x), x.queue = <<>>
    PROVE  /\ Closed(x) \in Sock /\ Flow(Closed(x)) /\ Local(Closed(x))
           /\ Closed(x).onLost = "none" /\ Closed(x).fd = "closed"
<1> DEFINE y == Closed(x)
<1>1. /\ y \in Sock /\ y.fd = "closed" /\ y.onMessage = "none" /\ y.onLost = "none"
      /\ y.queue = x.queue /\ y.writing = x.writing /\ y.wire = x.wire
      /\ y.up = x.up /\ y.sent = x.sent
  BY DEF Closed, Sock, Callbacks
<1> HIDE DEF y
<1>2. Flow(y)
  BY <1>1, SameFlow
<1>3. x.writing = <<>>
  BY DEF Flow
<1>4. Local(y)
  BY <1>1, <1>3, NoneIsNoName DEF Local
<1> QED
  BY <1>1, <1>2, <1>4 DEF y

\* What asking makes of a socket that has something to write.
LEMMA AskedIsSound ==
    ASSUME NEW x \in Sock, Flow(x), Local(x), x.fd = "open"
    PROVE  /\ Asked(x) \in Sock /\ Flow(Asked(x)) /\ Asked(x).closing
           /\ x.queue # <<>> => Local(Asked(x))
           /\ Asked(x).onLost = x.onLost /\ Asked(x).onMessage = x.onMessage
           /\ Asked(x).fd = "open" /\ Asked(x).reader = x.reader
           /\ Asked(x).queue = x.queue /\ Asked(x).writing = x.writing
<1> DEFINE y == Asked(x)
<1>1. /\ y \in Sock /\ y.fd = x.fd /\ y.onMessage = x.onMessage /\ y.onLost = x.onLost
      /\ y.queue = x.queue /\ y.writing = x.writing /\ y.wire = x.wire
      /\ y.up = x.up /\ y.sent = x.sent /\ y.reader = x.reader /\ y.closing
  BY DEF Asked, Sock
<1> HIDE DEF y
<1>2. Flow(y)
  BY <1>1, SameFlow
<1>3. x.queue # <<>> => Local(y)
  BY <1>1 DEF Local
<1> QED
  BY <1>1, <1>2, <1>3 DEF y

\* disconnectFromHost: at once when nothing is left to write, later otherwise.
LEMMA DisconnectIs ==
    ASSUME NEW w, Sound(w), NEW s \in Sockets, w.sock[s].fd = "open"
    PROVE  DisconnectFromHost(w, s) =
              IF w.sock[s].queue = <<>> THEN Drop(w, s, Closed(w.sock[s]))
              ELSE Put(w, s, Asked(w.sock[s]))
<1> DEFINE x == w.sock[s]
           y == Asked(x)
           v == Put(w, s, y)
<1>1. w \in Worlds /\ x \in Sock /\ Flow(x) /\ Local(x)
  BY WorldParts DEF Sound
<1>2. y \in Sock /\ y.onLost = x.onLost /\ y.queue = x.queue /\ y.closing
  BY <1>1, AskedIsSound
<1>3. [w EXCEPT !.sock[s].closing = TRUE] = v
  BY DEF Put, Asked
<1>4. DisconnectFromHost(w, s) = IF v.sock[s].queue = <<>> THEN DoClose(v, s) ELSE v
  BY <1>3 DEF DisconnectFromHost
<1>5. Closed(y) = Closed(x)
  BY <1>1 DEF Closed, Asked, Sock
<1> HIDE DEF y
<1>6. v.sock[s] = y
  BY <1>1, PutAt
<1>7. \A p \in Players : w.holder[p] = s <=> y.onLost = p
  BY <1>2 DEF Sound
<1>8. DoClose(v, s) = Drop(w, s, Closed(y))
  BY <1>1, <1>2, <1>7, DoCloseIs
<1> HIDE DEF v
<1> QED
  BY <1>2, <1>4, <1>5, <1>6, <1>8 DEF v, y

\* disconnectFromHost keeps what was in order.
LEMMA DisconnectKeeps ==
    ASSUME NEW w, Sound(w), NEW s \in Sockets, w.sock[s].fd = "open"
    PROVE  Sound(DisconnectFromHost(w, s))
<1> DEFINE x == w.sock[s]
<1>1. x \in Sock /\ Flow(x) /\ Local(x)
  BY WorldParts DEF Sound
<1>2. CASE x.queue = <<>>
  <2> DEFINE y == Closed(x)
  <2>1. y \in Sock /\ Flow(y) /\ Local(y) /\ y.onLost \notin Players /\ y.fd # "free"
    BY <1>1, <1>2, ClosedIsSound, NoneIsNoName
  <2>2. DisconnectFromHost(w, s) = Drop(w, s, y)
    BY <1>2, DisconnectIs
  <2> HIDE DEF y
  <2> QED
    BY <2>1, <2>2, DropKeeps
<1>3. CASE x.queue # <<>>
  <2> DEFINE y == Asked(x)
  <2>1. y \in Sock /\ Flow(y) /\ Local(y) /\ y.onLost = w.sock[s].onLost /\ y.fd # "free"
    BY <1>1, <1>3, AskedIsSound
  <2>2. DisconnectFromHost(w, s) = Put(w, s, y)
    BY <1>3, DisconnectIs
  <2> HIDE DEF y
  <2> QED
    BY <2>1, <2>2, PutKeeps
<1> QED
  BY <1>2, <1>3

\* What binding and unbinding make of a socket.
LEMMA BoundIsSound ==
    ASSUME NEW x \in Sock, Flow(x), Local(x), x.fd = "open", x.reader, NEW p \in Players
    PROVE  /\ BoundTo(x, p) \in Sock /\ Flow(BoundTo(x, p)) /\ Local(BoundTo(x, p))
           /\ BoundTo(x, p).onLost = p /\ BoundTo(x, p).onMessage = p
           /\ BoundTo(x, p).fd = "open" /\ BoundTo(x, p).reader
           /\ BoundTo(x, p).closing = x.closing /\ BoundTo(x, p).queue = x.queue
<1> DEFINE y == BoundTo(x, p)
<1>1. /\ y \in Sock /\ y.fd = "open" /\ y.reader /\ y.onMessage = p /\ y.onLost = p
      /\ y.closing = x.closing
  BY DEF BoundTo, Sock, Callbacks
<1>2. /\ y.queue = x.queue /\ y.writing = x.writing /\ y.wire = x.wire
      /\ y.up = x.up /\ y.sent = x.sent
  BY DEF BoundTo, Sock
<1> HIDE DEF y
<1>3. Flow(y)
  BY <1>2, SameFlow
<1>4. Local(y)
  BY <1>1, <1>2 DEF Local
<1> QED
  BY <1>1, <1>2, <1>3, <1>4 DEF y

\* And letting go.
LEMMA LetGoIsSound ==
    ASSUME NEW x \in Sock, Flow(x), Local(x), x.fd = "open"
    PROVE  /\ LetGo(x) \in Sock /\ Flow(LetGo(x)) /\ Local(LetGo(x))
           /\ LetGo(x).onLost = "log" /\ LetGo(x).onLost \notin Players
           /\ LetGo(x).fd = "open" /\ LetGo(x).reader = x.reader
           /\ LetGo(x).closing = x.closing /\ LetGo(x).queue = x.queue
           /\ LetGo(x).writing = x.writing
<1> DEFINE y == LetGo(x)
<1>1. /\ y \in Sock /\ y.fd = "open" /\ y.onMessage = "none" /\ y.onLost = "log"
      /\ y.closing = x.closing /\ y.reader = x.reader
  BY DEF LetGo, Sock, Callbacks
<1>2. /\ y.queue = x.queue /\ y.writing = x.writing /\ y.wire = x.wire
      /\ y.up = x.up /\ y.sent = x.sent
  BY DEF LetGo, Sock
<1> HIDE DEF y
<1>3. Flow(y)
  BY <1>2, SameFlow
<1>4. Local(y)
  BY <1>1, <1>2, NoneIsNoName DEF Local
<1> QED
  BY <1>1, <1>2, <1>3, <1>4, NoneIsNoName DEF y

\* setSocket: the player's former socket is let go, the new one is bound.
LEMMA SetSocketIs ==
    ASSUME NEW w \in Worlds, NEW p \in Players, NEW s \in Sockets, w.holder[p] # s
    PROVE  SetSocket(w, p, s) =
              [sock |-> [k \in Sockets |-> IF k = s THEN BoundTo(w.sock[k], p)
                                           ELSE IF k = w.holder[p] THEN LetGo(w.sock[k])
                                           ELSE w.sock[k]],
               holder |-> [w.holder EXCEPT ![p] = s],
               grabbed |-> w.grabbed]
<1> DEFINE f == [k \in Sockets |->
                    IF k = s THEN [w.sock[k] EXCEPT !.onMessage = p, !.onLost = p]
                    ELSE IF k = w.holder[p]
                         THEN [w.sock[k] EXCEPT !.onMessage = "none", !.onLost = "log"]
                    ELSE w.sock[k]]
           h == [w.holder EXCEPT ![p] = s]
<1>1. SetSocket(w, p, s) = [w EXCEPT !.holder = h, !.sock = f]
  BY DEF SetSocket
<1>2. f = [k \in Sockets |-> IF k = s THEN BoundTo(w.sock[k], p)
                             ELSE IF k = w.holder[p] THEN LetGo(w.sock[k]) ELSE w.sock[k]]
  BY DEF BoundTo, LetGo
<1> HIDE DEF f
<1>3. SetSocket(w, p, s) = [sock |-> f, holder |-> h, grabbed |-> w.grabbed]
  <2> HIDE DEF h
  <2> QED
    BY <1>1, OtherParts
<1> QED
  BY <1>2, <1>3

\* setSocket keeps the callbacks and the routers in agreement.
LEMMA SetSocketKeeps ==
    ASSUME NEW w, Sound(w), NEW p \in Players, NEW s \in Sockets,
           w.sock[s].onLost \notin Players, w.sock[s].fd = "open", w.sock[s].reader
    PROVE  Sound(SetSocket(w, p, s))
<1> DEFINE v == SetSocket(w, p, s)
           old == w.holder[p]
<1>1. /\ w \in Worlds /\ w.sock \in [Sockets -> Sock] /\ w.grabbed \subseteq Sockets
      /\ w.holder \in [Players -> Sockets \cup {None}]
  BY WorldParts DEF Sound
<1>2. old # s
  BY DEF Sound
<1>v. v = [sock |-> [k \in Sockets |-> IF k = s THEN BoundTo(w.sock[k], p)
                                        ELSE IF k = old THEN LetGo(w.sock[k]) ELSE w.sock[k]],
            holder |-> [w.holder EXCEPT ![p] = s],
            grabbed |-> w.grabbed]
  BY <1>1, <1>2, SetSocketIs
<1> HIDE DEF v
<1>3. v.holder = [w.holder EXCEPT ![p] = s] /\ v.grabbed = w.grabbed
  BY <1>v
<1>4. v.sock = [k \in Sockets |-> IF k = s THEN BoundTo(w.sock[k], p)
                                  ELSE IF k = old THEN LetGo(w.sock[k]) ELSE w.sock[k]]
  BY <1>v
<1>5. v = [sock |-> v.sock, holder |-> v.holder, grabbed |-> v.grabbed]
  BY <1>v
<1>6. /\ v.sock[s] \in Sock /\ Flow(v.sock[s]) /\ Local(v.sock[s])
      /\ v.sock[s].onLost = p /\ v.sock[s].fd = "open"
  <2>1. w.sock[s] \in Sock /\ Flow(w.sock[s]) /\ Local(w.sock[s])
    BY <1>1 DEF Sound
  <2> DEFINE x == w.sock[s]
  <2>2. v.sock[s] = BoundTo(x, p)
    BY <1>4
  <2> HIDE DEF x
  <2>3. x \in Sock /\ Flow(x) /\ Local(x) /\ x.fd = "open" /\ x.reader
    BY <2>1 DEF x
  <2> QED
    BY <2>2, <2>3, BoundIsSound
<1>7. ASSUME NEW k \in Sockets, k # s, k = old
      PROVE  /\ v.sock[k] \in Sock /\ Flow(v.sock[k]) /\ Local(v.sock[k])
             /\ v.sock[k].onLost \notin Players /\ v.sock[k].fd = "open"
  <2> DEFINE x == w.sock[k]
  <2>1. x \in Sock /\ Flow(x) /\ Local(x) /\ x.onLost = p
    BY <1>1, <1>7 DEF Sound
  <2>2. x.fd = "open"
    BY <2>1 DEF Local
  <2>3. v.sock[k] = LetGo(x)
    BY <1>4, <1>7
  <2> HIDE DEF x
  <2> QED
    BY <2>1, <2>2, <2>3, LetGoIsSound
<1>8. ASSUME NEW k \in Sockets, k # s, k # old
      PROVE  v.sock[k] = w.sock[k] /\ w.sock[k] \in Sock /\ Flow(w.sock[k]) /\ Local(w.sock[k])
  BY <1>1, <1>4, <1>8 DEF Sound
<1>9. \A k \in Sockets : v.sock[k] \in Sock /\ Flow(v.sock[k]) /\ Local(v.sock[k])
  BY <1>6, <1>7, <1>8
<1>10. v.sock \in [Sockets -> Sock] /\ v.holder \in [Players -> Sockets \cup {None}]
  BY <1>1, <1>3, <1>4, <1>9
<1>11. v \in Worlds
  BY <1>1, <1>3, <1>5, <1>10 DEF Worlds
<1>12. ASSUME NEW q \in Players, NEW k \in Sockets
       PROVE  v.holder[q] = k <=> v.sock[k].onLost = q
  <2>1. w.holder[q] = k <=> w.sock[k].onLost = q
    BY DEF Sound
  <2>2. v.holder[q] = IF q = p THEN s ELSE w.holder[q]
    BY <1>1, <1>3
  <2>3. CASE k = s
    BY <1>6, <2>1, <2>2, <2>3
  <2>4. CASE k # s /\ k = old
    <3>1. v.sock[k].onLost \notin Players /\ w.sock[k].onLost = p
      BY <1>7, <2>4 DEF Sound
    <3> QED
      BY <2>1, <2>2, <2>4, <3>1
  <2>5. CASE k # s /\ k # old
    BY <1>8, <2>1, <2>2, <2>5
  <2> QED
    BY <2>3, <2>4, <2>5
<1>13. \A k \in v.grabbed : v.sock[k].fd # "free"
  BY <1>1, <1>3, <1>6, <1>7, <1>8 DEF Sound
<1>14. Sound(v)
  BY <1>9, <1>11, <1>12, <1>13 DEF Sound
<1> QED
  BY <1>14 DEF v

-----------------------------------------------------------------------------
(* Writes, timers and sends of other threads *)

\* A socket after its write has completed, well or not, before the next begins.
Written(x, ok) ==
    [x EXCEPT !.up = ok, !.wire = IF ok THEN Append(x.wire, Head(x.queue)) ELSE x.wire,
              !.writing = <<>>, !.queue = Tail(x.queue)]

\* And after the next one has begun.
Resumed(x, ok) ==
    [Written(x, ok) EXCEPT !.writing = IF Tail(x.queue) = <<>> THEN <<>>
                                       ELSE <<Head(Tail(x.queue))>>]

\* Numbers on the wire.
LEMMA WireGrows ==
    ASSUME NEW out \in Seq(Nat), NEW h \in Nat, h = Len(out) + 1,
           \A i \in 1..Len(out) : out[i] = i
    PROVE  \A i \in 1..Len(Append(out, h)) : Append(out, h)[i] = i
<1>1. Len(out) \in Nat /\ Len(Append(out, h)) = Len(out) + 1
  BY AppendLen
<1>2. Append(out, h)[Len(out) + 1] = h /\ \A i \in 1..Len(out) : Append(out, h)[i] = out[i]
  BY AppendLen
<1> QED
  BY <1>1, <1>2

\* The rest of a queue.
LEMMA TailLen ==
    ASSUME NEW q \in Seq(Nat), q # <<>>
    PROVE  /\ Tail(q) \in Seq(Nat) /\ Len(q) \in Nat /\ Len(Tail(q)) \in Nat
           /\ Len(q) = Len(Tail(q)) + 1
           /\ Head(q) = q[1] /\ q[1] \in Nat /\ 1 \in 1..Len(q)
           /\ \A i \in 1..Len(Tail(q)) : Tail(q)[i] = q[i + 1] /\ i + 1 \in 1..Len(q) /\ q[i + 1] \in Nat
OBVIOUS

\* What a write that is over changes.
LEMMA ResumedFields ==
    ASSUME NEW x \in Sock, x.queue # <<>>, NEW ok \in BOOLEAN
    PROVE  /\ Resumed(x, ok) \in Sock
           /\ Resumed(x, ok).fd = x.fd /\ Resumed(x, ok).reader = x.reader
           /\ Resumed(x, ok).closing = x.closing /\ Resumed(x, ok).sent = x.sent
           /\ Resumed(x, ok).onMessage = x.onMessage /\ Resumed(x, ok).onLost = x.onLost
           /\ Resumed(x, ok).up = ok /\ Resumed(x, ok).queue = Tail(x.queue)
           /\ Resumed(x, ok).wire = (IF ok THEN Append(x.wire, Head(x.queue)) ELSE x.wire)
           /\ Resumed(x, ok).writing = (IF Tail(x.queue) = <<>> THEN <<>>
                                        ELSE <<Head(Tail(x.queue))>>)
<1> DEFINE q == Tail(x.queue)
           out == IF ok THEN Append(x.wire, Head(x.queue)) ELSE x.wire
           wr == IF q = <<>> THEN <<>> ELSE <<Head(q)>>
<1>1. x.queue \in Seq(Nat) /\ x.wire \in Seq(Nat)
  BY SockFields
<1>2. q \in Seq(Nat) /\ Head(x.queue) \in Nat
  BY <1>1, TailLen
<1>3. out \in Seq(Nat)
  BY <1>1, <1>2
<1>4. wr \in Seq(Nat)
  BY <1>2
<1>5. Resumed(x, ok) = [[x EXCEPT !.up = ok, !.wire = out, !.writing = <<>>, !.queue = q]
                           EXCEPT !.writing = wr]
  BY DEF Resumed, Written
<1> HIDE DEF q, out, wr
<1>6. /\ Resumed(x, ok) \in Sock
      /\ Resumed(x, ok).fd = x.fd /\ Resumed(x, ok).reader = x.reader
      /\ Resumed(x, ok).closing = x.closing /\ Resumed(x, ok).sent = x.sent
      /\ Resumed(x, ok).onMessage = x.onMessage /\ Resumed(x, ok).onLost = x.onLost
      /\ Resumed(x, ok).up = ok /\ Resumed(x, ok).queue = q
      /\ Resumed(x, ok).wire = out /\ Resumed(x, ok).writing = wr
  BY <1>2, <1>3, <1>4, <1>5 DEF Sock
<1> QED
  BY <1>6 DEF q, out, wr

\* One more on both sides.
LEMMA OneMore ==
    ASSUME NEW a \in Nat, NEW l \in Nat, NEW n \in Nat, NEW i \in Nat, a + (l + 1) = n + (i + 1)
    PROVE  a + l = n + i
OBVIOUS

\* The order after a write: what is written is the number that the wire lacks.
LEMMA ResumedFlow ==
    ASSUME NEW x \in Sock, Flow(x), x.queue # <<>>, NEW ok \in BOOLEAN, ok => x.up
    PROVE  Flow(Resumed(x, ok))
<1> DEFINE y == Resumed(x, ok)
           q == x.queue
           t == Tail(q)
           l == Len(t)
           n == x.sent
<1>1. q \in Seq(Nat) /\ x.wire \in Seq(Nat) /\ n \in Nat
  BY SockFields
<1>2. /\ t \in Seq(Nat) /\ l \in Nat /\ Len(q) = l + 1
      /\ Head(q) = q[1] /\ q[1] \in Nat /\ 1 \in 1..Len(q)
  BY <1>1, TailLen
<1>3. \A i \in 1..l : t[i] = q[i + 1] /\ i + 1 \in 1..Len(q) /\ q[i + 1] \in Nat
  BY <1>1, TailLen
<1>4. /\ y.sent = n /\ y.up = ok /\ y.queue = t
      /\ y.wire = (IF ok THEN Append(x.wire, Head(q)) ELSE x.wire)
      /\ y.writing = (IF t = <<>> THEN <<>> ELSE <<Head(t)>>)
  BY ResumedFields
<1>5. \A i \in 1..Len(q) : q[i] + Len(q) = n + i
  BY DEF Flow
<1>6. /\ \A i \in 1..Len(x.wire) : x.wire[i] = i
      /\ x.up => Len(x.wire) + Len(q) = n
  BY DEF Flow
<1>7. Len(x.wire) \in Nat
  BY <1>1
<1> HIDE DEF y, q, t, l, n
<1>8. \A i \in 1..l : t[i] + l = n + i
  <2> SUFFICES ASSUME NEW i \in 1..l
               PROVE  t[i] + l = n + i
    OBVIOUS
  <2>1. i \in Nat /\ q[i + 1] \in Nat /\ t[i] = q[i + 1]
    BY <1>2, <1>3
  <2>2. q[i + 1] + Len(q) = n + (i + 1)
    BY <1>3, <1>5
  <2> DEFINE a == q[i + 1]
  <2>3. a \in Nat /\ a + (l + 1) = n + (i + 1)
    BY <1>2, <2>1, <2>2
  <2> HIDE DEF a
  <2>4. l \in Nat /\ n \in Nat /\ i \in Nat
    BY <1>1, <1>2, <2>1
  <2>5. a + l = n + i
    BY <2>3, <2>4, OneMore
  <2> QED
    BY <2>1, <2>5 DEF a
<1>9. ok => Head(q) = Len(x.wire) + 1 /\ Len(x.wire) + l + 1 = n
  <2> SUFFICES ASSUME ok
               PROVE  Head(q) = Len(x.wire) + 1 /\ Len(x.wire) + l + 1 = n
    OBVIOUS
  <2> DEFINE a == q[1]
             b == Len(x.wire)
  <2>1. b + (l + 1) = n
    BY <1>2, <1>6
  <2>2. a + (l + 1) = n + 1
    BY <1>2, <1>5
  <2>3. a \in Nat /\ b \in Nat /\ Head(q) = a
    BY <1>2, <1>7
  <2> HIDE DEF a, b
  <2>4. a = b + 1 /\ b + l + 1 = n
    BY <1>1, <1>2, <2>1, <2>2, <2>3
  <2> QED
    BY <2>3, <2>4 DEF b
<1>10. \A i \in 1..Len(y.wire) : y.wire[i] = i
  <2>1. CASE ok
    <3>1. \A i \in 1..Len(Append(x.wire, Head(q))) : Append(x.wire, Head(q))[i] = i
      BY <1>1, <1>2, <1>6, <1>9, <2>1, WireGrows
    <3> QED
      BY <1>4, <2>1, <3>1
  <2>2. CASE ~ok
    BY <1>4, <1>6, <2>2
  <2> QED
    BY <2>1, <2>2
<1>11. y.up => Len(y.wire) + Len(y.queue) = y.sent
  <2> SUFFICES ASSUME ok
               PROVE  Len(y.wire) + Len(y.queue) = y.sent
    BY <1>4
  <2>1. Len(y.wire) = Len(x.wire) + 1
    <3>1. y.wire = Append(x.wire, Head(q)) /\ Head(q) \in Nat
      BY <1>2, <1>4
    <3> QED
      BY <1>1, <3>1, AppendLen
  <2> DEFINE b == Len(x.wire)
  <2>2. b \in Nat /\ b + l + 1 = n
    BY <1>7, <1>9
  <2> HIDE DEF b
  <2>3. (b + 1) + l = n
    BY <1>1, <1>2, <2>2
  <2> QED
    BY <1>4, <2>1, <2>3 DEF b, l
<1>12. \A i \in 1..Len(y.queue) : y.queue[i] + Len(y.queue) = y.sent + i
  BY <1>4, <1>8 DEF l
<1>13. y.writing = IF y.queue = <<>> THEN <<>> ELSE <<Head(y.queue)>>
  BY <1>4
<1>14. Flow(y)
  BY <1>10, <1>11, <1>12, <1>13 DEF Flow
<1> QED
  BY <1>14 DEF y

\* The same before the next write begins.
LEMMA WrittenFields ==
    ASSUME NEW x \in Sock, x.queue # <<>>, NEW ok \in BOOLEAN
    PROVE  /\ Written(x, ok) \in Sock
           /\ Written(x, ok).queue = Tail(x.queue) /\ Written(x, ok).writing = <<>>
           /\ Written(x, ok).closing = x.closing /\ Written(x, ok).onLost = x.onLost
<1> DEFINE q == Tail(x.queue)
           out == IF ok THEN Append(x.wire, Head(x.queue)) ELSE x.wire
<1>1. x.queue \in Seq(Nat) /\ x.wire \in Seq(Nat)
  BY SockFields
<1>2. q \in Seq(Nat) /\ Head(x.queue) \in Nat
  BY <1>1, TailLen
<1>3. out \in Seq(Nat)
  BY <1>1, <1>2
<1>4. Written(x, ok) = [x EXCEPT !.up = ok, !.wire = out, !.writing = <<>>, !.queue = q]
  BY DEF Written
<1> HIDE DEF q, out
<1> DEFINE x1 == [x EXCEPT !.up = ok]
           x2 == [x1 EXCEPT !.wire = out]
           x3 == [x2 EXCEPT !.writing = <<>>]
<1>5. Written(x, ok) \in Sock
  <2>1. x1 \in Sock
    BY DEF Sock
  <2>2. x2 \in Sock
    <3> HIDE DEF x1
    <3> QED
      BY <1>3, <2>1 DEF Sock
  <2>3. x3 \in Sock
    <3> HIDE DEF x2
    <3>1. <<>> \in Seq(Nat)
      OBVIOUS
    <3> QED
      BY <2>2, <3>1 DEF Sock
  <2>4. Written(x, ok) = [x3 EXCEPT !.queue = q]
    BY <1>4
  <2> HIDE DEF x3
  <2> QED
    BY <1>2, <2>3, <2>4 DEF Sock
<1>6. Written(x, ok).queue = q /\ Written(x, ok).writing = <<>>
  BY <1>4 DEF Sock
<1>7. Written(x, ok).closing = x.closing /\ Written(x, ok).onLost = x.onLost
  BY <1>4 DEF Sock
<1> QED
  BY <1>5, <1>6, <1>7 DEF q

\* The handler of a write, with its send_loop: the next write, or, when there is
\* none, the close that was asked for.
LEMMA WriteIs ==
    ASSUME NEW w, Sound(w), NEW s \in Sockets, w.sock[s].fd = "open",
           NEW i \in DOMAIN w.sock[s].writing, NEW ok \in BOOLEAN
    PROVE  LET x == w.sock[s]
               v == [w EXCEPT !.sock[s].up = ok,
                !.sock[s].wire = IF ok THEN Append(@, x.writing[i]) ELSE @,
                !.sock[s].writing = SubSeq(@, 1, i - 1) \o SubSeq(@, i + 1, Len(@)),
                !.sock[s].queue = IF @ = <<>> THEN @ ELSE Tail(@)]
           IN  /\ x.queue # <<>>
               /\ SendLoop(v, s) = IF Tail(x.queue) = <<>> /\ x.closing
                                   THEN Drop(w, s, Closed(Resumed(x, ok)))
                                   ELSE Put(w, s, Resumed(x, ok))
<1> DEFINE x == w.sock[s]
           q == Tail(x.queue)
           y == Written(x, ok)
           v == [w EXCEPT !.sock[s].up = ok,
                !.sock[s].wire = IF ok THEN Append(@, x.writing[i]) ELSE @,
                !.sock[s].writing = SubSeq(@, 1, i - 1) \o SubSeq(@, i + 1, Len(@)),
                !.sock[s].queue = IF @ = <<>> THEN @ ELSE Tail(@)]
<1>1. w \in Worlds /\ x \in Sock /\ Flow(x)
  BY WorldParts DEF Sound
<1>2. x.queue # <<>> /\ x.writing = <<Head(x.queue)>>
  BY <1>1 DEF Flow
<1>3. i = 1 /\ x.writing[i] = Head(x.queue)
  BY <1>2
<1>4. SubSeq(x.writing, 1, i - 1) \o SubSeq(x.writing, i + 1, Len(x.writing)) = <<>>
  BY <1>2, <1>3
<1>5. Head(x.queue) \in Nat /\ x.wire \in Seq(Nat) /\ q \in Seq(Nat)
  BY <1>1, <1>2, SockFields, TailLen
<1> DEFINE y1 == [x EXCEPT !.up = ok]
           out == IF ok THEN Append(x.wire, Head(x.queue)) ELSE x.wire
           y2 == [y1 EXCEPT !.wire = out]
           y3 == [y2 EXCEPT !.writing = <<>>]
           v1 == Put(w, s, y1)
           v2 == Put(w, s, y2)
           v3 == Put(w, s, y3)
<1>6. [w EXCEPT !.sock[s].up = ok] = v1
  BY DEF Put
<1>7. y = [y3 EXCEPT !.queue = q]
  <2>1. y = [x EXCEPT !.up = ok, !.wire = out, !.writing = <<>>, !.queue = q]
    BY DEF Written
  <2> QED
    BY <2>1
<1>8. v1.sock[s] = y1 /\ v2.sock[s] = y2 /\ v3.sock[s] = y3
  <2> HIDE DEF y1, y2, y3
  <2> QED
    BY <1>1, PutAt
<1>9. v = [w EXCEPT !.sock[s].up = ok, !.sock[s].wire = out,
                    !.sock[s].writing = <<>>, !.sock[s].queue = q]
  BY <1>2, <1>3, <1>4
<1> HIDE DEF v, out, q
<1>10. v = [[[v1 EXCEPT !.sock[s].wire = out] EXCEPT !.sock[s].writing = <<>>]
              EXCEPT !.sock[s].queue = q]
  BY <1>6, <1>9
<1>11. /\ [v1 EXCEPT !.sock[s].wire = out] = v2
       /\ [v2 EXCEPT !.sock[s].writing = <<>>] = v3
       /\ [v3 EXCEPT !.sock[s].queue = q] = Put(w, s, y)
  <2>1. /\ [v1 EXCEPT !.sock[s].wire = out] = Put(v1, s, [v1.sock[s] EXCEPT !.wire = out])
        /\ [v2 EXCEPT !.sock[s].writing = <<>>] = Put(v2, s, [v2.sock[s] EXCEPT !.writing = <<>>])
        /\ [v3 EXCEPT !.sock[s].queue = q] = Put(v3, s, [v3.sock[s] EXCEPT !.queue = q])
    BY DEF Put
  <2>2. Put(v1, s, y2) = v2 /\ Put(v2, s, y3) = v3 /\ Put(v3, s, y) = Put(w, s, y)
    <3> HIDE DEF y1, y2, y3, y
    <3> QED
      BY <1>1, PutTwice
  <2> QED
    BY <1>7, <1>8, <2>1, <2>2
<1>12. v = Put(w, s, y)
  BY <1>10, <1>11
<1>13. /\ y \in Sock /\ y.queue = q /\ y.writing = <<>>
       /\ y.closing = x.closing /\ y.onLost = x.onLost
  BY <1>1, <1>2, <1>5, WrittenFields DEF q
<1>14. Put(w, s, y).sock[s] = y
  <2> HIDE DEF y
  <2> QED
    BY <1>1, PutAt
<1>15. SendLoop(v, s) = IF q # <<>> THEN [v EXCEPT !.sock[s].writing = Append(@, Head(q))]
                        ELSE IF x.closing THEN DoClose(v, s) ELSE v
  BY <1>12, <1>13, <1>14 DEF SendLoop
<1> SUFFICES SendLoop(v, s) = IF q = <<>> /\ x.closing
                              THEN Drop(w, s, Closed(Resumed(x, ok)))
                              ELSE Put(w, s, Resumed(x, ok))
  BY <1>2 DEF v, q
<1>16. CASE q # <<>>
  <2>1. [Put(w, s, y) EXCEPT !.sock[s].writing = Append(@, Head(q))]
          = Put(Put(w, s, y), s, [Put(w, s, y).sock[s] EXCEPT !.writing = Append(@, Head(q))])
    BY DEF Put
  <2>2. [y EXCEPT !.writing = Append(@, Head(q))] = Resumed(x, ok)
    <3>1. Append(y.writing, Head(q)) = <<Head(q)>>
      BY <1>13
    <3> QED
      BY <1>16, <3>1 DEF Resumed, q
  <2>3. Put(Put(w, s, y), s, Resumed(x, ok)) = Put(w, s, Resumed(x, ok))
    <3> DEFINE z == Resumed(x, ok)
    <3> HIDE DEF y, z
    <3>1. Put(Put(w, s, y), s, z) = Put(w, s, z)
      BY <1>1, PutTwice
    <3> QED
      BY <3>1 DEF z
  <2>4. SendLoop(v, s) = [Put(w, s, y) EXCEPT !.sock[s].writing = Append(@, Head(q))]
    BY <1>12, <1>15, <1>16
  <2>5. SendLoop(v, s) = Put(w, s, Resumed(x, ok))
    BY <1>14, <2>1, <2>2, <2>3, <2>4
  <2> QED
    BY <1>16, <2>5
<1>17. CASE q = <<>>
  <2>1. Resumed(x, ok) = y
    <3> HIDE DEF y
    <3>1. Resumed(x, ok) = [y EXCEPT !.writing = <<>>]
      BY <1>17 DEF Resumed, y, q
    <3> QED
      BY <1>13, <3>1 DEF Sock
  <2>2. x.closing => DoClose(v, s) = Drop(w, s, Closed(y))
    <3> SUFFICES ASSUME x.closing
                 PROVE  DoClose(v, s) = Drop(w, s, Closed(y))
      OBVIOUS
    <3>1. \A p \in Players : w.holder[p] = s <=> y.onLost = p
      BY <1>13 DEF Sound
    <3> HIDE DEF y
    <3>2. DoClose(Put(w, s, y), s) = Drop(w, s, Closed(y))
      BY <1>1, <1>13, <3>1, DoCloseIs
    <3> QED
      BY <1>12, <3>2
  <2>3. SendLoop(v, s) = IF x.closing THEN DoClose(v, s) ELSE v
    BY <1>15, <1>17
  <2> QED
    BY <1>12, <1>17, <2>1, <2>2, <2>3
<1> QED
  BY <1>16, <1>17

\* The order and the callbacks after a write.
LEMMA WriteKeeps ==
    ASSUME NEW w, Sound(w), NEW s \in Sockets, w.sock[s].fd = "open",
           w.sock[s].queue # <<>>, NEW ok \in BOOLEAN, ok => w.sock[s].up
    PROVE  /\ (Tail(w.sock[s].queue) = <<>> /\ w.sock[s].closing)
                => Sound(Drop(w, s, Closed(Resumed(w.sock[s], ok))))
           /\ ~(Tail(w.sock[s].queue) = <<>> /\ w.sock[s].closing)
                => Sound(Put(w, s, Resumed(w.sock[s], ok)))
<1> DEFINE x == w.sock[s]
           y == Resumed(x, ok)
           z == Closed(y)
<1>1. x \in Sock /\ Flow(x) /\ Local(x)
  BY WorldParts DEF Sound
<1>2. /\ y \in Sock /\ y.fd = x.fd /\ y.reader = x.reader /\ y.closing = x.closing
      /\ y.onMessage = x.onMessage /\ y.onLost = x.onLost /\ y.queue = Tail(x.queue)
  BY <1>1, ResumedFields
<1>3. Flow(y)
  BY <1>1, ResumedFlow
<1>4. x.onLost = w.sock[s].onLost /\ x.fd = "open"
  OBVIOUS
<1> HIDE DEF x, y
<1>5. ASSUME y.queue = <<>>
      PROVE  Sound(Drop(w, s, z))
  <2>1. z \in Sock /\ Flow(z) /\ Local(z) /\ z.onLost \notin Players /\ z.fd # "free"
    BY <1>2, <1>3, <1>5, ClosedIsSound, NoneIsNoName
  <2> HIDE DEF z
  <2> QED
    BY <2>1, DropKeeps
<1>6. ASSUME ~(y.queue = <<>> /\ x.closing)
      PROVE  Sound(Put(w, s, y))
  <2>1. Local(y)
    BY <1>1, <1>2, <1>4, <1>6 DEF Local
  <2> QED
    BY <1>2, <1>3, <1>4, <2>1, PutKeeps
<1> QED
  BY <1>2, <1>5, <1>6 DEF x, y

\* A socket whose timer changes.
Timed(x, t) == [x EXCEPT !.timer = t]

\* What else changes.
LEMMA TimedIsSound ==
    ASSUME NEW x \in Sock, Flow(x), Local(x), x.fd # "free", NEW t \in {"off", "armed", "due"}
    PROVE  /\ Timed(x, t) \in Sock /\ Flow(Timed(x, t)) /\ Local(Timed(x, t))
           /\ Timed(x, t).fd = x.fd /\ Timed(x, t).reader = x.reader
           /\ Timed(x, t).closing = x.closing /\ Timed(x, t).queue = x.queue
           /\ Timed(x, t).onLost = x.onLost /\ Timed(x, t).onMessage = x.onMessage
<1> DEFINE y == Timed(x, t)
<1>1. /\ y \in Sock /\ y.fd = x.fd /\ y.onMessage = x.onMessage /\ y.onLost = x.onLost
      /\ y.queue = x.queue /\ y.writing = x.writing /\ y.wire = x.wire
      /\ y.up = x.up /\ y.sent = x.sent /\ y.reader = x.reader /\ y.closing = x.closing
  BY DEF Timed, Sock
<1> HIDE DEF y
<1>2. Flow(y)
  BY <1>1, SameFlow
<1>3. Local(y)
  BY <1>1 DEF Local
<1> QED
  BY <1>1, <1>2, <1>3 DEF y

\* A timer is no part of what has to be in order.
LEMMA TimerKeeps ==
    ASSUME NEW w, Sound(w), NEW s \in Sockets, w.sock[s].fd # "free",
           NEW t \in {"off", "armed", "due"}
    PROVE  Sound(Put(w, s, Timed(w.sock[s], t)))
<1> DEFINE x == w.sock[s]
           y == Timed(x, t)
<1>2. x \in Sock /\ Flow(x) /\ Local(x) /\ x.fd # "free" /\ x.onLost = w.sock[s].onLost
  BY WorldParts DEF Sound
<1> HIDE DEF x
<1>3. y \in Sock /\ Flow(y) /\ Local(y) /\ y.onLost = x.onLost /\ y.fd # "free"
  BY <1>2, TimedIsSound
<1> HIDE DEF y
<1>4. Sound(Put(w, s, y))
  BY <1>2, <1>3, PutKeeps
<1> QED
  BY <1>4 DEF x, y

\* The same of a timer that is cancelled.
LEMMA StopTimerIs ==
    ASSUME NEW w, Sound(w), NEW s \in Sockets, w.sock[s].fd # "free"
    PROVE  \E t \in {"off", "armed", "due"} :
              /\ StopTimer(w, s) = Put(w, s, Timed(w.sock[s], t))
              /\ Sound(StopTimer(w, s))
<1> DEFINE t == IF w.sock[s].timer = "armed" THEN "off" ELSE w.sock[s].timer
<1>1. w.sock[s] \in Sock
  BY WorldParts DEF Sound
<1>2. t \in {"off", "armed", "due"}
  BY <1>1 DEF Sock
<1>3. StopTimer(w, s) = [w EXCEPT !.sock[s].timer = t]
  BY DEF StopTimer
<1> HIDE DEF t
<1>4. Sound(Put(w, s, Timed(w.sock[s], t)))
  BY <1>2, TimerKeeps
<1>5. [w EXCEPT !.sock[s].timer = t] = Put(w, s, Timed(w.sock[s], t))
  BY DEF Put, Timed
<1> QED
  BY <1>2, <1>3, <1>4, <1>5

\* Sockets a room thread has read exist.
LEMMA GrabbedKeeps ==
    ASSUME NEW w, Sound(w), NEW g \in SUBSET Sockets, \A s \in g : w.sock[s].fd # "free"
    PROVE  /\ Sound([w EXCEPT !.grabbed = g])
           /\ [w EXCEPT !.grabbed = g].sock = w.sock /\ [w EXCEPT !.grabbed = g].holder = w.holder
<1> DEFINE v == [w EXCEPT !.grabbed = g]
<1>1. v \in Worlds /\ v.sock = w.sock /\ v.holder = w.holder /\ v.grabbed = g
  BY DEF Sound, Worlds
<1> HIDE DEF v
<1>2. Sound(v)
  BY <1>1 DEF Sound
<1> QED
  BY <1>1, <1>2 DEF v

-----------------------------------------------------------------------------
(* What a handler does to the sockets *)

\* A change as Link sees it: the socket goes on, perhaps told to close, or it is
\* not heard any more and lost by its player.
Mild(x, y) ==
    \/ /\ y.fd = x.fd /\ y.reader = x.reader /\ y.onLost = x.onLost
       /\ x.closing => y.closing
    \/ y.onLost \notin Players /\ ~(y.fd = "open" /\ y.reader)

\* A change that leaves what there is to write.
Calm(x, y) == (x.fd = "open" /\ x.queue # <<>>) => (y.fd = "open" /\ y.queue # <<>>)

\* Between w and v only socket s changes.
Only(w, v, s) == \A k \in Sockets : k # s => v.sock[k] = w.sock[k]

\* Two changes in a row.
LEMMA MildTwice ==
    ASSUME NEW x, NEW y, NEW z, Mild(x, y), Mild(y, z)
    PROVE  Mild(x, z)
BY DEF Mild

\* And what they leave.
LEMMA CalmTwice ==
    ASSUME NEW x, NEW y, NEW z, Calm(x, y), Calm(y, z)
    PROVE  Calm(x, z)
BY DEF Calm

\* No change.
LEMMA Unchanged ==
    ASSUME NEW x
    PROVE  Mild(x, x) /\ Calm(x, x)
BY DEF Mild, Calm

\* What Put and Drop leave alone.
LEMMA PutOnly ==
    ASSUME NEW w, Sound(w), NEW s \in Sockets, NEW y
    PROVE  Only(w, Put(w, s, y), s) /\ Only(w, Drop(w, s, y), s)
BY PutOthers, DropOthers DEF Only, Sound

\* What send does, to the socket and to the others.
LEMMA SendDoes ==
    ASSUME NEW w, Sound(w), NEW s \in Sockets, w.sock[s].fd = "open"
    PROVE  LET v == Send(w, s)
               x == w.sock[s]
               y == v.sock[s]
           IN  /\ Sound(v) /\ v.holder = w.holder /\ Only(w, v, s)
               /\ Mild(x, y) /\ Calm(x, y)
               /\ y.fd = "open" /\ y.queue # <<>>
               /\ y.onMessage = x.onMessage /\ y.onLost = x.onLost /\ y.reader = x.reader
               /\ y.closing = x.closing
<1> DEFINE v == Send(w, s)
           x == w.sock[s]
           y == Sent(x)
<1>1. x \in Sock /\ Flow(x) /\ Local(x) /\ w \in Worlds
  BY WorldParts DEF Sound
<1>2. v = Put(w, s, y) /\ Sound(v)
  BY SendIs, SendKeeps
<1>3. y.fd = "open" /\ y.reader = x.reader /\ y.closing = x.closing
      /\ y.onMessage = x.onMessage /\ y.onLost = x.onLost
  BY <1>1, SentFields
<1>4. y.queue # <<>>
  BY <1>1, SentIsSound
<1> HIDE DEF y, v
<1>5. v.sock[s] = y /\ v.holder = w.holder /\ Only(w, v, s)
  BY <1>1, <1>2, PutAt, PutRest, PutOnly
<1>6. Mild(x, y)
  BY <1>3 DEF Mild
<1>7. Calm(x, y)
  BY <1>3, <1>4 DEF Calm
<1> QED
  BY <1>2, <1>3, <1>4, <1>5, <1>6, <1>7 DEF v

\* What disconnectFromHost does.
LEMMA DisconnectDoes ==
    ASSUME NEW w, Sound(w), NEW s \in Sockets, w.sock[s].fd = "open"
    PROVE  LET v == DisconnectFromHost(w, s)
               x == w.sock[s]
               y == v.sock[s]
           IN  /\ Sound(v) /\ Only(w, v, s)
               /\ Mild(x, y) /\ Calm(x, y)
               /\ x.queue # <<>> => /\ y.fd = "open" /\ y.queue # <<>> /\ y.closing
                                    /\ y.onMessage = x.onMessage /\ y.onLost = x.onLost
                                    /\ y.reader = x.reader /\ v.holder = w.holder
<1> DEFINE v == DisconnectFromHost(w, s)
           x == w.sock[s]
<1>1. x \in Sock /\ Flow(x) /\ Local(x) /\ w \in Worlds /\ x.fd = "open"
  BY WorldParts DEF Sound
<1>2. Sound(v)
  BY DisconnectKeeps
<1>3. CASE x.queue = <<>>
  <2> DEFINE y == Closed(x)
  <2>1. y.onLost = "none" /\ y.fd = "closed"
    BY <1>1, <1>3, ClosedIsSound
  <2>2. v = Drop(w, s, y)
    BY <1>3, DisconnectIs
  <2> HIDE DEF y, v
  <2>3. v.sock[s] = y /\ Only(w, v, s)
    BY <1>1, <2>2, DropAt, PutOnly
  <2>4. Mild(x, y) /\ Calm(x, y)
    BY <1>3, <2>1, NoneIsNoName DEF Mild, Calm
  <2> QED
    BY <1>2, <1>3, <2>3, <2>4 DEF v
<1>4. CASE x.queue # <<>>
  <2> DEFINE y == Asked(x)
  <2>1. /\ y.fd = "open" /\ y.queue = x.queue /\ y.closing
        /\ y.onMessage = x.onMessage /\ y.onLost = x.onLost /\ y.reader = x.reader
    BY <1>1, AskedIsSound
  <2>2. v = Put(w, s, y)
    BY <1>4, DisconnectIs
  <2> HIDE DEF y, v
  <2>3. v.sock[s] = y /\ Only(w, v, s) /\ v.holder = w.holder
    BY <1>1, <2>2, PutAt, PutOnly, PutRest
  <2>4. Mild(x, y)
    BY <1>1, <2>1 DEF Mild
  <2>5. Calm(x, y)
    BY <2>1 DEF Calm
  <2> QED
    BY <1>2, <1>4, <2>1, <2>3, <2>4, <2>5 DEF v
<1> QED
  BY <1>3, <1>4

\* What cancelling the timer does.
LEMMA StopTimerDoes ==
    ASSUME NEW w, Sound(w), NEW s \in Sockets, w.sock[s].fd # "free"
    PROVE  LET v == StopTimer(w, s)
               x == w.sock[s]
               y == v.sock[s]
           IN  /\ Sound(v) /\ v.holder = w.holder /\ Only(w, v, s)
               /\ Mild(x, y) /\ Calm(x, y)
               /\ y.fd = x.fd /\ y.reader = x.reader /\ y.closing = x.closing
               /\ y.onMessage = x.onMessage /\ y.onLost = x.onLost
<1> DEFINE v == StopTimer(w, s)
           x == w.sock[s]
<1>1. x \in Sock /\ Flow(x) /\ Local(x) /\ w \in Worlds /\ x.fd # "free"
  BY WorldParts DEF Sound
<1>2. PICK t \in {"off", "armed", "due"} : v = Put(w, s, Timed(x, t)) /\ Sound(v)
  BY StopTimerIs
<1> DEFINE y == Timed(x, t)
<1>3. /\ y.fd = x.fd /\ y.reader = x.reader /\ y.closing = x.closing /\ y.queue = x.queue
      /\ y.onMessage = x.onMessage /\ y.onLost = x.onLost
  BY <1>1, TimedIsSound
<1>4. v = Put(w, s, y) /\ Sound(v)
  BY <1>2
<1> HIDE DEF y, v
<1>5. v.sock[s] = y /\ v.holder = w.holder /\ Only(w, v, s)
  BY <1>1, <1>4, PutAt, PutRest, PutOnly
<1>6. Mild(x, y)
  BY <1>3 DEF Mild
<1>7. Calm(x, y)
  BY <1>3 DEF Calm
<1> QED
  BY <1>3, <1>4, <1>5, <1>6, <1>7 DEF v

-----------------------------------------------------------------------------
(* The handlers: each ends in a state that is in order *)

\* A handler that changes one socket, up to its end.
Handled(w, s) ==
    /\ Sound(w) /\ Becomes(w) /\ Only(Now, w, s)
    /\ Mild(sock[s], w.sock[s])

\* The state before a handler, and a socket in it.
LEMMA Before ==
    ASSUME IInv, NEW s \in Sockets
    PROVE  /\ Sound(Now) /\ Now \in Worlds /\ Now.sock = sock /\ Now.holder = holder
           /\ sock[s] \in Sock /\ Flow(sock[s]) /\ Local(sock[s])
           /\ sock[s].fd \in {"free", "open"} /\ (sock[s].fd # "free" => sock[s].fd = "open")
<1>1. Sound(Now) /\ Now.sock = sock /\ Now.holder = holder
  BY DEF IInv, Now
<1>2. Now \in Worlds /\ sock[s] \in Sock /\ Flow(sock[s]) /\ Local(sock[s])
  BY <1>1, WorldParts DEF Sound
<1> QED
  BY <1>1, <1>2 DEF IInv

\* A socket that is accepted, before the handler of the router or the sign-up.
New == [Free EXCEPT !.fd = "open", !.reader = TRUE, !.onMessage = "log", !.onLost = "log"]

\* It is in order.
LEMMA NewIsSound ==
    /\ New \in Sock /\ Flow(New) /\ Local(New) /\ New.onLost \notin Players /\ New.fd = "open"
    /\ New.reader /\ ~New.closing /\ New.onLost = "log"
<1>2. /\ New.fd = "open" /\ New.onLost = "log" /\ New.onMessage = "log"
      /\ New.queue = <<>> /\ New.writing = <<>> /\ New.wire = <<>> /\ New.sent = 0
  BY DEF New, Free
<1>3. New.reader /\ ~New.closing
  BY DEF New, Free
<1>4. New \in Sock
  <2> DEFINE x1 == [Free EXCEPT !.fd = "open"]
             x2 == [x1 EXCEPT !.reader = TRUE]
             x3 == [x2 EXCEPT !.onMessage = "log"]
  <2>1. x1 \in Sock
    BY FreeIsSound DEF Sock
  <2>2. x2 \in Sock
    <3> HIDE DEF x1
    <3> QED
      BY <2>1 DEF Sock
  <2>3. x3 \in Sock
    <3> HIDE DEF x2
    <3> QED
      BY <2>2 DEF Sock, Callbacks
  <2>4. New = [x3 EXCEPT !.onLost = "log"]
    BY DEF New
  <2> HIDE DEF x3
  <2> QED
    BY <2>3, <2>4 DEF Sock, Callbacks
<1>5. Flow(New)
  BY <1>2 DEF Flow
<1>6. Local(New)
  BY <1>2, <1>3, NoneIsNoName DEF Local
<1> QED
  BY <1>2, <1>3, <1>4, <1>5, <1>6, NoneIsNoName

\* accept: the socket exists, is open, and has its first packet to write.
LEMMA AcceptDoes ==
    ASSUME IInv, NEW s \in Sockets, Accept(s)
    PROVE  \E w : /\ Sound(w) /\ Becomes(w) /\ Only(Now, w, s)
                  /\ sock[s].fd = "free" /\ w.sock[s].onLost \notin Players
<1> DEFINE u == Put(Now, s, New)
           v == Send(u, s)
<1>1. Sound(Now) /\ Now \in Worlds /\ Now.sock = sock /\ Local(sock[s])
  BY Before
<1>2. sock[s].fd = "free" /\ sock[s].onLost \notin Players
  BY <1>1, FreeIsSound DEF Accept, Local
<1>3. Sound(u) /\ u.sock[s] = New /\ Only(Now, u, s)
  <2> DEFINE y == New
  <2>1. y \in Sock /\ Flow(y) /\ Local(y) /\ y.onLost \notin Players /\ y.fd # "free"
    BY NewIsSound
  <2> HIDE DEF y
  <2>2. Sound(Put(Now, s, y)) /\ Put(Now, s, y).sock[s] = y /\ Only(Now, Put(Now, s, y), s)
    BY <1>1, <1>2, <2>1, PutKeeps, PutAt, PutOnly
  <2> QED
    BY <2>2 DEF y
<1>4. u = [Now EXCEPT !.sock[s] = New]
  BY DEF Put
<1>5. \/ Becomes(DisconnectFromHost(v, s))
      \/ Becomes([v EXCEPT !.sock[s].onMessage = "auth", !.sock[s].timer = "armed"])
  BY <1>4 DEF Accept, New
<1> HIDE DEF u
<1>6. /\ Sound(v) /\ Only(u, v, s) /\ v.sock[s].fd = "open" /\ v.sock[s].queue # <<>>
      /\ v.sock[s].onLost = "log" /\ v.sock[s].reader
  BY <1>3, NewIsSound, SendDoes
<1>7. Only(Now, v, s)
  BY <1>1, <1>3, <1>6 DEF Only
<1> HIDE DEF v
<1>8. CASE Becomes(DisconnectFromHost(v, s))
  <2> DEFINE z == DisconnectFromHost(v, s)
  <2>1. Sound(z) /\ Only(v, z, s) /\ z.sock[s].onLost = "log"
    BY <1>6, DisconnectDoes
  <2> HIDE DEF z
  <2>2. Only(Now, z, s)
    BY <1>7, <2>1 DEF Only
  <2> QED
    BY <1>2, <1>8, <2>1, <2>2, NoneIsNoName DEF z
<1>9. CASE Becomes([v EXCEPT !.sock[s].onMessage = "auth", !.sock[s].timer = "armed"])
  <2> DEFINE x == v.sock[s]
             y == [x EXCEPT !.onMessage = "auth", !.timer = "armed"]
             z == Put(v, s, y)
  <2>1. x \in Sock /\ Flow(x) /\ Local(x) /\ v \in Worlds
    BY <1>6, WorldParts DEF Sound
  <2>2. [v EXCEPT !.sock[s].onMessage = "auth", !.sock[s].timer = "armed"] = z
    <3> DEFINE y1 == [x EXCEPT !.onMessage = "auth"]
               v1 == Put(v, s, y1)
    <3>1. [v EXCEPT !.sock[s].onMessage = "auth"] = v1
      BY DEF Put
    <3>2. [v1 EXCEPT !.sock[s].timer = "armed"] = Put(v1, s, [v1.sock[s] EXCEPT !.timer = "armed"])
      BY DEF Put
    <3>3. v1.sock[s] = y1
      <4> HIDE DEF y1
      <4> QED
        BY <2>1, PutAt
    <3>4. Put(v1, s, y) = z
      <4> HIDE DEF y1, y
      <4> QED
        BY <2>1, PutTwice
    <3> QED
      BY <3>1, <3>2, <3>3, <3>4
  <2>3. /\ y \in Sock /\ y.fd = x.fd /\ y.onMessage = "auth" /\ y.onLost = x.onLost
        /\ y.queue = x.queue /\ y.writing = x.writing /\ y.wire = x.wire
        /\ y.up = x.up /\ y.sent = x.sent /\ y.reader = x.reader /\ y.closing = x.closing
    BY <2>1 DEF Sock, Callbacks
  <2>4. x.fd = "open" /\ x.reader /\ x.onLost = "log" /\ x.queue # <<>>
    BY <1>6
  <2> HIDE DEF y, x
  <2>5. Flow(y)
    BY <2>1, <2>3, SameFlow
  <2>6. Local(y)
    BY <2>1, <2>3, <2>4, NoneIsNoName DEF Local
  <2>7. Sound(z) /\ z.sock[s] = y /\ Only(v, z, s)
    BY <1>6, <2>1, <2>3, <2>4, <2>5, <2>6, PutKeeps, PutAt, PutOnly DEF x
  <2> HIDE DEF z
  <2>8. Only(Now, z, s)
    BY <1>7, <2>7 DEF Only
  <2> QED
    BY <1>2, <1>9, <2>2, <2>3, <2>4, <2>7, <2>8, NoneIsNoName
<1> QED
  BY <1>5, <1>8, <1>9

\* A sign-up that fails.
LEMMA SignUpFailsDoes ==
    ASSUME IInv, NEW s \in Sockets, SignUpFails(s)
    PROVE  \E w : Handled(w, s) /\ Calm(sock[s], w.sock[s])
<1> DEFINE v == StopTimer(Now, s)
           v1 == Send(v, s)
           v2 == Send(v1, s)
<1>1. Sound(Now) /\ Now.sock = sock /\ sock[s].fd = "open"
  BY Before DEF SignUpFails, SigningUp
<1>2. /\ Sound(v) /\ Only(Now, v, s) /\ v.sock[s].fd = "open"
      /\ Mild(sock[s], v.sock[s]) /\ Calm(sock[s], v.sock[s])
  BY <1>1, StopTimerDoes
<1> HIDE DEF v
<1>3. /\ Sound(v1) /\ Only(v, v1, s) /\ v1.sock[s].fd = "open"
      /\ Mild(v.sock[s], v1.sock[s]) /\ Calm(v.sock[s], v1.sock[s])
  BY <1>2, SendDoes
<1> HIDE DEF v1
<1>4. /\ Sound(v2) /\ Only(v1, v2, s) /\ v2.sock[s].fd = "open"
      /\ Mild(v1.sock[s], v2.sock[s]) /\ Calm(v1.sock[s], v2.sock[s])
  BY <1>3, SendDoes
<1> HIDE DEF v2
<1>5. /\ Only(Now, v1, s) /\ Mild(sock[s], v1.sock[s]) /\ Calm(sock[s], v1.sock[s])
  BY <1>2, <1>3, MildTwice, CalmTwice DEF Only
<1>6. /\ Only(Now, v2, s) /\ Mild(sock[s], v2.sock[s]) /\ Calm(sock[s], v2.sock[s])
  BY <1>4, <1>5, MildTwice, CalmTwice DEF Only
<1>7. ASSUME NEW u, Sound(u), Only(Now, u, s), u.sock[s].fd = "open",
             Mild(sock[s], u.sock[s]), Calm(sock[s], u.sock[s]),
             Becomes(DisconnectFromHost(u, s))
      PROVE  \E w : Handled(w, s) /\ Calm(sock[s], w.sock[s])
  <2> DEFINE z == DisconnectFromHost(u, s)
  <2>1. /\ Sound(z) /\ Only(u, z, s)
        /\ Mild(u.sock[s], z.sock[s]) /\ Calm(u.sock[s], z.sock[s])
    BY <1>7, DisconnectDoes
  <2> HIDE DEF z
  <2>2. Only(Now, z, s) /\ Mild(sock[s], z.sock[s]) /\ Calm(sock[s], z.sock[s])
    BY <1>7, <2>1, MildTwice, CalmTwice DEF Only
  <2>3. Becomes(z)
    BY <1>7 DEF z
  <2> QED
    BY <2>1, <2>2, <2>3 DEF Handled
<1>8. Becomes(DisconnectFromHost(v1, s)) \/ Becomes(DisconnectFromHost(v2, s))
  BY DEF SignUpFails, v, v1, v2
<1> QED
  BY <1>3, <1>4, <1>5, <1>6, <1>7, <1>8

\* A sign-up that ends without a word.
LEMMA SignUpIgnoredDoes ==
    ASSUME IInv, NEW s \in Sockets, SignUpIgnored(s)
    PROVE  \E w : Handled(w, s) /\ Calm(sock[s], w.sock[s])
<1> DEFINE v == StopTimer(Now, s)
<1>1. Sound(Now) /\ Now.sock = sock /\ sock[s].fd = "open" /\ Becomes(v)
  BY Before DEF SignUpIgnored, SigningUp
<1>2. Sound(v) /\ Only(Now, v, s) /\ Mild(sock[s], v.sock[s]) /\ Calm(sock[s], v.sock[s])
  BY <1>1, StopTimerDoes
<1> HIDE DEF v
<1> QED
  BY <1>1, <1>2 DEF Handled

\* A timer that is set to something else.
LEMMA TimerDoes ==
    ASSUME IInv, NEW s \in Sockets, sock[s].fd # "free", NEW t \in {"off", "armed", "due"}
    PROVE  LET v == [Now EXCEPT !.sock[s].timer = t]
           IN  /\ Sound(v) /\ Only(Now, v, s) /\ v.sock[s].fd = "open"
               /\ Mild(sock[s], v.sock[s]) /\ Calm(sock[s], v.sock[s])
<1> DEFINE v == [Now EXCEPT !.sock[s].timer = t]
           x == sock[s]
           y == Timed(x, t)
<1>1. /\ Sound(Now) /\ Now \in Worlds /\ Now.sock = sock /\ x.fd = "open"
      /\ x \in Sock /\ Flow(x) /\ Local(x)
  BY Before
<1>2. v = Put(Now, s, y)
  BY <1>1 DEF Put, Timed
<1>3. Sound(Put(Now, s, y))
  BY <1>1, TimerKeeps
<1>4. /\ y.fd = x.fd /\ y.reader = x.reader /\ y.closing = x.closing /\ y.queue = x.queue
      /\ y.onLost = x.onLost
  BY <1>1, TimedIsSound
<1> HIDE DEF y, v
<1>5. v.sock[s] = y /\ Only(Now, v, s)
  BY <1>1, <1>2, PutAt, PutOnly
<1>6. Mild(x, y)
  BY <1>4 DEF Mild
<1>7. Calm(x, y)
  BY <1>4 DEF Calm
<1> QED
  BY <1>1, <1>2, <1>3, <1>4, <1>5, <1>6, <1>7 DEF v

\* The timer fires.
LEMMA TimerExpiresDoes ==
    ASSUME IInv, NEW s \in Sockets, TimerExpires(s)
    PROVE  \E w : Handled(w, s) /\ Calm(sock[s], w.sock[s])
<1> DEFINE v == [Now EXCEPT !.sock[s].timer = "due"]
<1>1. sock[s].fd # "free"
  BY Before DEF TimerExpires, Local, Free
<1>2. Sound(v) /\ Only(Now, v, s) /\ Mild(sock[s], v.sock[s]) /\ Calm(sock[s], v.sock[s])
  BY <1>1, TimerDoes
<1>3. Becomes(v)
  BY DEF TimerExpires
<1> HIDE DEF v
<1> QED
  BY <1>2, <1>3 DEF Handled

\* Its handler.
LEMMA TimerHandlerDoes ==
    ASSUME IInv, NEW s \in Sockets, TimerHandler(s)
    PROVE  \E w : Handled(w, s) /\ Calm(sock[s], w.sock[s])
<1> DEFINE v == [Now EXCEPT !.sock[s].timer = "off"]
           z == DisconnectFromHost(v, s)
<1>1. sock[s].fd # "free"
  BY Before DEF TimerHandler, Local, Free
<1>2. /\ Sound(v) /\ Only(Now, v, s) /\ v.sock[s].fd = "open"
      /\ Mild(sock[s], v.sock[s]) /\ Calm(sock[s], v.sock[s])
  BY <1>1, TimerDoes
<1>3. Becomes(z)
  BY DEF TimerHandler
<1> HIDE DEF v
<1>4. Sound(z) /\ Only(v, z, s) /\ Mild(v.sock[s], z.sock[s]) /\ Calm(v.sock[s], z.sock[s])
  BY <1>2, DisconnectDoes
<1> HIDE DEF z
<1>5. Only(Now, z, s) /\ Mild(sock[s], z.sock[s]) /\ Calm(sock[s], z.sock[s])
  BY <1>2, <1>4, MildTwice, CalmTwice DEF Only
<1> QED
  BY <1>3, <1>4, <1>5 DEF Handled

\* A packet for a player.
LEMMA NotifyDoes ==
    ASSUME IInv, NEW p \in Players, Notify(p)
    PROVE  \E s \in Sockets : \E w : Handled(w, s) /\ Calm(sock[s], w.sock[s])
<1> DEFINE s == holder[p]
           z == Send(Now, s)
<1>1. Sound(Now) /\ Now.sock = sock /\ Now.holder = holder
  BY DEF IInv, Now
<1>2. s \in Sockets /\ sock[s].fd = "open"
  BY <1>1, HeldIsHeard DEF Notify
<1> HIDE DEF s
<1>3. Sound(z) /\ Only(Now, z, s) /\ Mild(sock[s], z.sock[s]) /\ Calm(sock[s], z.sock[s])
  BY <1>1, <1>2, SendDoes
<1>4. Becomes(z)
  BY DEF Notify, s
<1> HIDE DEF z
<1> QED
  BY <1>2, <1>3, <1>4 DEF Handled

\* A kick.
LEMMA KickDoes ==
    ASSUME IInv, NEW p \in Players, Kick(p)
    PROVE  \E s \in Sockets : \E w : Handled(w, s) /\ Calm(sock[s], w.sock[s])
<1> DEFINE s == holder[p]
           z == DisconnectFromHost(Now, s)
<1>1. Sound(Now) /\ Now.sock = sock /\ Now.holder = holder
  BY DEF IInv, Now
<1>2. s \in Sockets /\ sock[s].fd = "open"
  BY <1>1, HeldIsHeard DEF Kick
<1> HIDE DEF s
<1>3. Sound(z) /\ Only(Now, z, s) /\ Mild(sock[s], z.sock[s]) /\ Calm(sock[s], z.sock[s])
  BY <1>1, <1>2, DisconnectDoes
<1>4. Becomes(z)
  BY DEF Kick, s
<1> HIDE DEF z
<1> QED
  BY <1>2, <1>3, <1>4 DEF Handled

\* A room thread reads a player's socket.
LEMMA GrabDoes ==
    ASSUME IInv, NEW p \in Players, Grab(p)
    PROVE  \E s \in Sockets : \E w : Handled(w, s) /\ Calm(sock[s], w.sock[s])
<1> DEFINE s == holder[p]
           g == Now.grabbed \cup {holder[p]}
           z == [Now EXCEPT !.grabbed = g]
<1>1. Sound(Now) /\ Now.sock = sock /\ Now.holder = holder
  BY DEF IInv, Now
<1>2. s \in Sockets /\ sock[s].fd = "open"
  BY <1>1, HeldIsHeard DEF Grab
<1>3. g \in SUBSET Sockets /\ \A k \in g : sock[k].fd # "free"
  <2>1. Now.grabbed \subseteq Sockets
    BY <1>1, WorldParts DEF Sound
  <2> QED
    BY <1>1, <1>2, <2>1 DEF Sound
<1>4. Becomes(z)
  BY DEF Grab
<1> HIDE DEF g
<1>5. Sound(z) /\ z.sock = sock
  BY <1>1, <1>3, GrabbedKeeps
<1> HIDE DEF z, s
<1>6. Only(Now, z, s) /\ Mild(sock[s], z.sock[s]) /\ Calm(sock[s], z.sock[s])
  BY <1>1, <1>5, Unchanged DEF Only
<1> QED
  BY <1>2, <1>4, <1>5, <1>6 DEF Handled

\* And the main io_context sends on it.
LEMMA DispatchedDoes ==
    ASSUME IInv, NEW s \in Sockets, Dispatched(s)
    PROVE  \E w : Handled(w, s) /\ Calm(sock[s], w.sock[s])
<1> DEFINE g == Now.grabbed \ {s}
           v == [Now EXCEPT !.grabbed = g]
           z == Send(v, s)
<1>1. Sound(Now) /\ Now.sock = sock /\ Now.grabbed = grabbed
  BY DEF IInv, Now
<1>2. sock[s].fd = "open"
  <2>1. s \in Now.grabbed
    BY <1>1 DEF Dispatched
  <2>2. sock[s].fd # "free"
    BY <1>1, <2>1 DEF Sound
  <2> QED
    BY <2>2, Before
<1>3. g \in SUBSET Sockets /\ \A k \in g : sock[k].fd # "free"
  <2>1. Now.grabbed \subseteq Sockets
    BY <1>1, WorldParts DEF Sound
  <2> QED
    BY <1>1, <2>1 DEF Sound
<1>4. Becomes(z)
  BY DEF Dispatched
<1> HIDE DEF g
<1>5. Sound(v) /\ v.sock = sock
  BY <1>1, <1>3, GrabbedKeeps
<1> HIDE DEF v
<1>6. Sound(z) /\ Only(v, z, s) /\ Mild(sock[s], z.sock[s]) /\ Calm(sock[s], z.sock[s])
  BY <1>2, <1>5, SendDoes
<1> HIDE DEF z
<1>7. Only(Now, z, s)
  BY <1>1, <1>5, <1>6 DEF Only
<1> QED
  BY <1>4, <1>6, <1>7 DEF Handled

\* The end of a write.
LEMMA WriteDoneDoes ==
    ASSUME IInv, NEW s \in Sockets, WriteDone(s)
    PROVE  /\ \E w : Handled(w, s)
           /\ sock[s].fd = "open" /\ sock[s].queue # <<>>
           /\ sock[s].queue # <<>> /\ Len(sock[s].queue) # 1
                => \E w : Handled(w, s) /\ Calm(sock[s], w.sock[s])
<1> DEFINE x == sock[s]
<1>1. /\ Sound(Now) /\ Now \in Worlds /\ Now.sock = sock
      /\ x \in Sock /\ Flow(x) /\ Local(x) /\ x.fd \in {"free", "open"}
  BY Before
<1>2. PICK i \in DOMAIN x.writing, ok \in BOOLEAN :
        /\ ok => x.up /\ x.fd = "open"
        /\ LET w == [Now EXCEPT !.sock[s].up = ok,
                !.sock[s].wire = IF ok THEN Append(@, x.writing[i]) ELSE @,
                !.sock[s].writing = SubSeq(@, 1, i - 1) \o SubSeq(@, i + 1, Len(@)),
                !.sock[s].queue = IF @ = <<>> THEN @ ELSE Tail(@)]
           IN  Becomes(SendLoop(w, s))
  BY DEF WriteDone
<1>3. x.queue # <<>>
  BY <1>1, <1>2 DEF Flow
<1>4. x.fd = "open"
  BY <1>1, <1>3 DEF Local, Free
<1> DEFINE v == [Now EXCEPT !.sock[s].up = ok,
                !.sock[s].wire = IF ok THEN Append(@, x.writing[i]) ELSE @,
                !.sock[s].writing = SubSeq(@, 1, i - 1) \o SubSeq(@, i + 1, Len(@)),
                !.sock[s].queue = IF @ = <<>> THEN @ ELSE Tail(@)]
           z == SendLoop(v, s)
           y == Resumed(x, ok)
<1>5. Becomes(z)
  BY <1>2
<1>6. z = IF Tail(x.queue) = <<>> /\ x.closing THEN Drop(Now, s, Closed(y)) ELSE Put(Now, s, y)
  BY <1>1, <1>4, WriteIs
<1> HIDE DEF v, z
<1>7. /\ (Tail(x.queue) = <<>> /\ x.closing) => Sound(Drop(Now, s, Closed(y)))
      /\ ~(Tail(x.queue) = <<>> /\ x.closing) => Sound(Put(Now, s, y))
  BY <1>1, <1>2, <1>3, <1>4, WriteKeeps
<1>8. /\ y.fd = x.fd /\ y.reader = x.reader /\ y.closing = x.closing
      /\ y.onLost = x.onLost /\ y.queue = Tail(x.queue) /\ y \in Sock
  BY <1>1, <1>3, ResumedFields
<1>9. Flow(y)
  BY <1>1, <1>2, <1>3, ResumedFlow
<1> HIDE DEF y, x
<1>10. Sound(z) /\ Only(Now, z, s)
  BY <1>1, <1>6, <1>7, PutOnly
<1>11. Mild(x, z.sock[s])
  <2>1. CASE Tail(x.queue) = <<>> /\ x.closing
    <3> DEFINE c == Closed(y)
    <3>1. c.onLost = "none" /\ c.fd = "closed"
      BY <1>8, <1>9, <2>1, ClosedIsSound
    <3>2. z = Drop(Now, s, c)
      BY <1>6, <2>1
    <3> HIDE DEF c
    <3>3. z.sock[s] = c
      BY <1>1, <3>2, DropAt
    <3> QED
      BY <3>1, <3>3, NoneIsNoName DEF Mild
  <2>2. CASE ~(Tail(x.queue) = <<>> /\ x.closing)
    <3>1. z.sock[s] = y
      BY <1>1, <1>6, <2>2, PutAt
    <3> QED
      BY <1>8, <3>1 DEF Mild
  <2> QED
    BY <2>1, <2>2
<1>12. Handled(z, s)
  BY <1>1, <1>5, <1>10, <1>11 DEF Handled, x
<1>13. ASSUME Len(x.queue) # 1
       PROVE  Calm(x, z.sock[s])
  <2>1. Tail(x.queue) # <<>>
    <3>1. x.queue \in Seq(Nat)
      BY <1>1, SockFields
    <3>2. Len(x.queue) = Len(Tail(x.queue)) + 1
      BY <1>3, <3>1, TailLen
    <3> DEFINE t == Tail(x.queue)
               n == Len(x.queue)
    <3>3. n = Len(t) + 1 /\ n # 1
      BY <1>13, <3>2
    <3> HIDE DEF t, n
    <3>4. t # <<>>
      BY <3>3
    <3> QED
      BY <3>4 DEF t
  <2>2. z.sock[s] = y
    BY <1>1, <1>6, <2>1, PutAt
  <2> QED
    BY <1>8, <2>1, <2>2 DEF Calm
<1> QED
  BY <1>3, <1>4, <1>12, <1>13 DEF x

\* The reader ends.
LEMMA ReaderEndsDoes ==
    ASSUME IInv, NEW s \in Sockets, ReaderEnds(s)
    PROVE  \E w : Handled(w, s)
<1> DEFINE x == sock[s]
           y1 == Unbound(x)
           y == [y1 EXCEPT !.reader = FALSE]
           v == Drop(Now, s, y1)
           z == [Unbind(Lost(Now, s), s) EXCEPT !.sock[s].reader = FALSE]
<1>1. /\ Sound(Now) /\ Now \in Worlds /\ Now.sock = sock
      /\ x \in Sock /\ Flow(x) /\ Local(x)
  BY Before
<1>2. x.fd = "open"
  BY <1>1, Before DEF ReaderEnds, Local, Free
<1>3. Unbind(Lost(Now, s), s) = v
  BY <1>1, LostIs DEF Sound
<1>4. z = [v EXCEPT !.sock[s].reader = FALSE]
  BY <1>3
<1>5. [v EXCEPT !.sock[s].reader = FALSE] = Put(v, s, [v.sock[s] EXCEPT !.reader = FALSE])
  BY DEF Put
<1>6. v.sock[s] = y1
  <2> HIDE DEF y1
  <2> QED
    BY <1>1, DropAt
<1>7. z = Drop(Now, s, y)
  <2>1. z = Put(v, s, y)
    BY <1>4, <1>5, <1>6
  <2> HIDE DEF y1, y, z
  <2> QED
    BY <1>1, <2>1, PutDropped
<1>8. /\ y \in Sock /\ y.fd = x.fd /\ y.onMessage = "none" /\ y.onLost = "none"
      /\ y.queue = x.queue /\ y.writing = x.writing /\ y.wire = x.wire
      /\ y.up = x.up /\ y.sent = x.sent /\ y.closing = x.closing
  BY <1>1 DEF Unbound, Sock, Callbacks
<1>9. ~y.reader
  BY <1>1 DEF Unbound, Sock
<1> HIDE DEF y
<1>10. Flow(y)
  BY <1>1, <1>8, SameFlow
<1>11. Local(y)
  BY <1>1, <1>2, <1>8, NoneIsNoName DEF Local
<1>12. Becomes(z)
  BY DEF ReaderEnds
<1> HIDE DEF z
<1>13. y.onLost \notin Players /\ y.fd # "free"
  BY <1>2, <1>8, NoneIsNoName
<1>14. Sound(z) /\ Only(Now, z, s) /\ z.sock[s] = y
  BY <1>1, <1>7, <1>8, <1>10, <1>11, <1>13, DropKeeps, DropAt, PutOnly
<1>15. Mild(x, y)
  BY <1>9, <1>13 DEF Mild
<1> QED
  BY <1>12, <1>14, <1>15 DEF Handled

\* The player under the account is told and kicked; its socket stays as long as
\* there is something to write.
LEMMA KickedOutDoes ==
    ASSUME NEW w, Sound(w), NEW q \in Players
    PROVE  LET v == KickedOut(w, q)
               h == w.holder[q]
           IN  /\ Sound(v) /\ v.holder = w.holder
               /\ \A k \in Sockets : k # h => v.sock[k] = w.sock[k]
               /\ h # None => /\ h \in Sockets /\ v.sock[h].fd = "open" /\ v.sock[h].queue # <<>>
                              /\ v.sock[h].closing /\ v.sock[h].reader /\ v.sock[h].onLost = q
<1> DEFINE v == KickedOut(w, q)
           h == w.holder[q]
<1>1. CASE h = None
  BY <1>1 DEF KickedOut
<1>2. CASE h # None
  <2> DEFINE u == Send(w, h)
             z == DisconnectFromHost(u, h)
  <2>1. /\ h \in Sockets /\ w.sock[h].fd = "open" /\ w.sock[h].reader
        /\ w.sock[h].onLost = q
    BY <1>2, HeldIsHeard
  <2>2. v = z
    BY <1>2 DEF KickedOut
  <2> HIDE DEF h, v
  <2>3. /\ Sound(u) /\ Only(w, u, h) /\ u.holder = w.holder /\ u.sock[h].fd = "open"
        /\ u.sock[h].queue # <<>> /\ u.sock[h].onLost = q /\ u.sock[h].reader
    BY <2>1, SendDoes
  <2> HIDE DEF u
  <2>4. /\ Sound(z) /\ Only(u, z, h) /\ z.holder = u.holder /\ z.sock[h].fd = "open"
        /\ z.sock[h].queue # <<>> /\ z.sock[h].onLost = q /\ z.sock[h].reader
        /\ z.sock[h].closing
    BY <2>1, <2>3, DisconnectDoes
  <2> HIDE DEF z
  <2>5. \A k \in Sockets : k # h => z.sock[k] = w.sock[k]
    BY <2>3, <2>4 DEF Only
  <2> QED
    BY <2>1, <2>2, <2>3, <2>4, <2>5 DEF v, h
<1> QED
  BY <1>1, <1>2

\* What setSocket does to the sockets.
LEMMA SetSocketDoes ==
    ASSUME NEW w, Sound(w), NEW p \in Players, NEW s \in Sockets,
           w.sock[s].onLost \notin Players, w.sock[s].fd = "open", w.sock[s].reader
    PROVE  LET v == SetSocket(w, p, s)
           IN  /\ Sound(v) /\ v.sock[s] = BoundTo(w.sock[s], p)
               /\ \A k \in Sockets : k # s =>
                    v.sock[k] = IF k = w.holder[p] THEN LetGo(w.sock[k]) ELSE w.sock[k]
<1> DEFINE v == SetSocket(w, p, s)
<1>1. Sound(v)
  BY SetSocketKeeps
<1>2. w \in Worlds /\ w.holder[p] # s
  BY DEF Sound
<1>3. v.sock = [k \in Sockets |-> IF k = s THEN BoundTo(w.sock[k], p)
                                  ELSE IF k = w.holder[p] THEN LetGo(w.sock[k])
                                  ELSE w.sock[k]]
  BY <1>2, SetSocketIs
<1> HIDE DEF v
<1> QED
  BY <1>1, <1>3 DEF v

\* A login: s is p's, and whoever was online under the account is being closed.
LEMMA LogInDoes ==
    ASSUME IInv, NEW s \in Sockets, NEW p \in Players, NEW q \in Players, LogIn(s, p, q)
    PROVE  /\ sock[s].fd = "open" /\ sock[s].reader /\ sock[s].onLost \notin Players
           /\ q # p => holder[p] = None
           /\ holder[q] # s
           /\ \E w : /\ Sound(w) /\ Becomes(w)
                     /\ w.sock[s].fd = "open" /\ w.sock[s].queue # <<>> /\ w.sock[s].reader
                     /\ w.sock[s].onLost = p /\ w.sock[s].closing = sock[s].closing
                     /\ holder[q] # None =>
                          /\ w.sock[holder[q]].fd = "open" /\ w.sock[holder[q]].queue # <<>>
                          /\ w.sock[holder[q]].closing /\ w.sock[holder[q]].reader
                          /\ q = p => w.sock[holder[q]].onLost = "log"
                          /\ q # p => w.sock[holder[q]].onLost = q
                     /\ \A k \in Sockets : (k # s /\ k # holder[q]) => w.sock[k] = sock[k]
<1> DEFINE x == sock[s]
           h == holder[q]
           w1 == StopTimer(Now, s)
           w2 == KickedOut(w1, q)
           w3 == SetSocket(w2, p, s)
           w4 == Send(w3, s)
<1>1. Sound(Now) /\ Now.sock = sock /\ Now.holder = holder /\ Local(x)
  BY Before
<1>2. x.fd = "open" /\ x.reader /\ x.onMessage = "auth"
  BY DEF LogIn, SigningUp
<1>3. x.onLost \notin Players
  BY <1>1, <1>2, NoneIsNoName DEF Local, Sound
<1>4. h # s
  BY <1>1, <1>3 DEF Sound
<1>5. (q # p => holder[p] = None) /\ Becomes(w4)
  BY DEF LogIn
<1>6. /\ Sound(w1) /\ w1.holder = holder /\ Only(Now, w1, s)
      /\ w1.sock[s].fd = "open" /\ w1.sock[s].reader /\ w1.sock[s].closing = x.closing
      /\ w1.sock[s].onLost = x.onLost
  BY <1>1, <1>2, StopTimerDoes
<1> HIDE DEF w1
<1>7. /\ Sound(w2) /\ w2.holder = w1.holder
      /\ \A k \in Sockets : k # h => w2.sock[k] = w1.sock[k]
      /\ h # None => /\ h \in Sockets /\ w2.sock[h].fd = "open" /\ w2.sock[h].queue # <<>>
                     /\ w2.sock[h].closing /\ w2.sock[h].reader /\ w2.sock[h].onLost = q
  BY <1>6, KickedOutDoes
<1> HIDE DEF w2
<1>8. w2.sock[s] = w1.sock[s]
  BY <1>4, <1>7
<1>9. /\ Sound(w3) /\ w3.sock[s] = BoundTo(w2.sock[s], p)
      /\ \A k \in Sockets : k # s =>
            w3.sock[k] = IF k = w2.holder[p] THEN LetGo(w2.sock[k]) ELSE w2.sock[k]
  BY <1>3, <1>6, <1>7, <1>8, SetSocketDoes
<1> HIDE DEF w3
<1>10. /\ w3.sock[s].fd = "open" /\ w3.sock[s].reader /\ w3.sock[s].onLost = p
       /\ w3.sock[s].closing = x.closing
  <2> DEFINE y == w2.sock[s]
  <2>1. y \in Sock /\ Flow(y) /\ Local(y) /\ y.fd = "open" /\ y.reader /\ y.closing = x.closing
    BY <1>6, <1>7, <1>8, WorldParts DEF Sound
  <2>2. w3.sock[s] = BoundTo(y, p)
    BY <1>9
  <2> HIDE DEF y, x
  <2> QED
    BY <2>1, <2>2, BoundIsSound
<1>11. /\ Sound(w4) /\ Only(w3, w4, s) /\ w4.sock[s].fd = "open" /\ w4.sock[s].queue # <<>>
       /\ w4.sock[s].reader /\ w4.sock[s].onLost = p /\ w4.sock[s].closing = x.closing
  BY <1>9, <1>10, SendDoes
<1> HIDE DEF w4
<1>12. ASSUME NEW k \in Sockets, k # s, k # h
       PROVE  w4.sock[k] = sock[k]
  <2>1. w2.holder[p] # k
    BY <1>5, <1>6, <1>7, <1>12, NoneIsNoName
  <2>2. w4.sock[k] = w3.sock[k] /\ w3.sock[k] = w2.sock[k]
    BY <1>9, <1>11, <1>12, <2>1 DEF Only
  <2>3. w2.sock[k] = w1.sock[k] /\ w1.sock[k] = sock[k]
    BY <1>1, <1>6, <1>7, <1>12 DEF Only
  <2> QED
    BY <2>2, <2>3
<1>13. ASSUME h # None
       PROVE  /\ w4.sock[h].fd = "open" /\ w4.sock[h].queue # <<>>
              /\ w4.sock[h].closing /\ w4.sock[h].reader
              /\ q = p => w4.sock[h].onLost = "log"
              /\ q # p => w4.sock[h].onLost = q
  <2> DEFINE y == w2.sock[h]
  <2>1. /\ h \in Sockets /\ y.fd = "open" /\ y.queue # <<>> /\ y.closing /\ y.reader
        /\ y.onLost = q
    BY <1>7, <1>13
  <2>2. y \in Sock /\ Flow(y) /\ Local(y)
    BY <1>7, <2>1, WorldParts DEF Sound
  <2>3. w4.sock[h] = IF h = holder[p] THEN LetGo(y) ELSE y
    BY <1>4, <1>6, <1>7, <1>9, <1>11, <2>1 DEF Only
  <2>4. CASE q = p
    <3>1. w4.sock[h] = LetGo(y)
      BY <2>3, <2>4
    <3> HIDE DEF y, h
    <3> QED
      BY <2>1, <2>2, <2>4, <3>1, LetGoIsSound
  <2>5. CASE q # p
    <3>1. w4.sock[h] = y
      BY <1>5, <1>13, <2>3, <2>5
    <3> HIDE DEF y, h
    <3> QED
      BY <2>1, <2>5, <3>1
  <2> QED
    BY <2>4, <2>5
<1> QED
  BY <1>2, <1>3, <1>4, <1>5, <1>11, <1>12, <1>13

\* A player who runs away: the new object q gets the socket.
LEMMA RunAwayDoes ==
    ASSUME IInv, NEW p \in Players, NEW q \in Players, RunAway(p, q)
    PROVE  \E s \in Sockets :
              /\ sock[s].fd = "open" /\ sock[s].reader /\ sock[s].onLost = p /\ holder[q] = None
              /\ \E w : /\ Sound(w) /\ Becomes(w) /\ Only(Now, w, s)
                        /\ w.sock[s].fd = "open" /\ w.sock[s].queue # <<>> /\ w.sock[s].reader
                        /\ w.sock[s].onLost = q
                        /\ (w.sock[s].closing <=> sock[s].closing) \/ w.sock[s].closing
<1> DEFINE s == holder[p]
           x == sock[s]
           w1 == SetSocket(Now, p, None)
           w2 == SetSocket(w1, q, s)
           w3 == Send(w2, s)
           w4 == DisconnectFromHost(w3, s)
<1>1. Sound(Now) /\ Now.sock = sock /\ Now.holder = holder /\ Now \in Worlds
  BY DEF IInv, Sound, Now
<1>2. holder[p] # None /\ holder[q] = None /\ (Becomes(w3) \/ Becomes(w4))
  BY DEF RunAway
<1>3. s \in Sockets /\ x.fd = "open" /\ x.reader /\ x.onLost = p
  BY <1>1, <1>2, HeldIsHeard
<1>4. x \in Sock /\ Flow(x) /\ Local(x)
  BY <1>1, <1>3, WorldParts DEF Sound
<1> DEFINE y == LetGo(x)
<1>5. w1 = Drop(Now, s, y)
  <2>1. \A r \in Players : holder[r] = s => r = p
    BY <1>1, <1>3 DEF Sound
  <2>2. Now.holder[p] = s /\ \A r \in Players : Now.holder[r] = s => r = p
    BY <1>1, <2>1
  <2> HIDE DEF s
  <2> QED
    BY <1>1, <1>3, <2>2, SetNoSocketIs
<1>6. /\ y \in Sock /\ Flow(y) /\ Local(y) /\ y.onLost \notin Players /\ y.fd = "open"
      /\ y.reader = x.reader /\ y.closing = x.closing
  BY <1>3, <1>4, LetGoIsSound
<1>r. y.reader
  <2> HIDE DEF x
  <2> QED
    BY <1>3, <1>4, LetGoIsSound
<1> HIDE DEF s, x, y, w1
<1>7. Sound(w1) /\ w1.sock[s] = y /\ Only(Now, w1, s)
  BY <1>1, <1>3, <1>5, <1>6, DropKeeps, DropAt, PutOnly
<1>8. \A k \in Sockets : k # w1.holder[q]
  <2>1. w1.holder = [r \in Players |-> IF Now.holder[r] = s THEN None ELSE Now.holder[r]]
    BY <1>1, <1>3, <1>5, DropRest
  <2> QED
    BY <1>1, <1>2, <2>1, NoneIsNoName
<1>9. /\ Sound(w2) /\ w2.sock[s] = BoundTo(y, q)
      /\ \A k \in Sockets : k # s => w2.sock[k] = w1.sock[k]
  BY <1>3, <1>6, <1>r, <1>7, <1>8, SetSocketDoes
<1> HIDE DEF w2
<1>10. /\ w2.sock[s].fd = "open" /\ w2.sock[s].reader /\ w2.sock[s].onLost = q
       /\ w2.sock[s].closing = x.closing
  BY <1>3, <1>6, <1>r, <1>9, BoundIsSound
<1>11. /\ Sound(w3) /\ Only(w2, w3, s) /\ w3.sock[s].fd = "open" /\ w3.sock[s].queue # <<>>
       /\ w3.sock[s].reader /\ w3.sock[s].onLost = q /\ w3.sock[s].closing = x.closing
  BY <1>3, <1>9, <1>10, SendDoes
<1> HIDE DEF w3
<1>12. /\ Sound(w4) /\ Only(w3, w4, s) /\ w4.sock[s].fd = "open" /\ w4.sock[s].queue # <<>>
       /\ w4.sock[s].reader /\ w4.sock[s].onLost = q /\ w4.sock[s].closing
  BY <1>3, <1>11, DisconnectDoes
<1> HIDE DEF w4
<1>13. Only(Now, w3, s) /\ Only(Now, w4, s)
  BY <1>7, <1>9, <1>11, <1>12 DEF Only
<1> QED
  BY <1>2, <1>3, <1>11, <1>12, <1>13 DEF x

-----------------------------------------------------------------------------
(* What a handler leaves of the sockets *)

\* The end of a handler destroys a socket or leaves it as it is.
LEMMA AfterHandler ==
    ASSUME NEW w, Sound(w), Becomes(w), NEW s \in Sockets
    PROVE  /\ sock'[s] = w.sock[s] \/ sock'[s] = Free
           /\ Referenced(w, s) => sock'[s] = w.sock[s]
           /\ w.sock[s].queue # <<>> => sock'[s] = w.sock[s]
<1>1. sock'[s] = IF ~Referenced(w, s) THEN Free ELSE w.sock[s]
  BY DEF Becomes
<1>2. w.sock[s].queue # <<>> => Referenced(w, s)
  BY Unreferenced
<1> QED
  BY <1>1, <1>2

\* A socket that a handler does not change goes on.
LEMMA UntouchedStays ==
    ASSUME IInv, NEW w, Sound(w), Becomes(w), NEW s \in Sockets, w.sock[s] = sock[s]
    PROVE  sock'[s] = sock[s]
<1>1. Sound(Now) /\ Now.sock = sock /\ Now.holder = holder /\ Local(sock[s])
  BY Before
<1>2. CASE sock[s].fd = "free"
  <2>1. sock[s] = Free
    BY <1>1, <1>2 DEF Local
  <2> QED
    BY <2>1, AfterHandler
<1>3. CASE sock[s].fd # "free"
  <2>1. Referenced(Now, s)
    BY <1>3 DEF IInv
  <2>2. \/ \E p \in Players : holder[p] = s
        \/ sock[s].onMessage = "auth"
        \/ sock[s].onLost \in Players
        \/ sock[s].writing # <<>>
    BY <1>1, <2>1 DEF Referenced
  <2>3. (\E p \in Players : holder[p] = s) => sock[s].onLost \in Players
    BY <1>1 DEF Sound
  <2>4. Referenced(w, s)
    BY <2>2, <2>3 DEF Referenced
  <2> QED
    BY <2>4, AfterHandler
<1> QED
  BY <1>2, <1>3

\* After a handler that changes one socket.
LEMMA HandledDoes ==
    ASSUME IInv, NEW s \in Sockets, NEW w, Handled(w, s)
    PROVE  /\ \A k \in Sockets : k # s => sock'[k] = sock[k]
           /\ Mild(sock[s], sock'[s])
           /\ Calm(sock[s], w.sock[s]) => Calm(sock[s], sock'[s])
<1>1. Sound(w) /\ Becomes(w) /\ Only(Now, w, s) /\ Mild(sock[s], w.sock[s])
  BY DEF Handled
<1>2. \A k \in Sockets : k # s => sock'[k] = sock[k]
  <2>1. Now.sock = sock
    BY DEF Now
  <2> QED
    BY <1>1, <2>1, UntouchedStays DEF Only
<1>3. Mild(sock[s], sock'[s])
  <2>1. CASE sock'[s] = w.sock[s]
    BY <1>1, <2>1
  <2>2. CASE sock'[s] = Free
    <3>1. Free.fd = "free"
      BY DEF Free
    <3> QED
      BY <2>2, <3>1, FreeIsSound DEF Mild
  <2> QED
    BY <1>1, <2>1, <2>2, AfterHandler
<1>4. Calm(sock[s], w.sock[s]) => Calm(sock[s], sock'[s])
  BY <1>1, AfterHandler DEF Calm
<1> QED
  BY <1>2, <1>3, <1>4

-----------------------------------------------------------------------------
(* The theorems *)

\* Every handler keeps the invariant: it reaches the end in a state in which the
\* sockets are in order, and the end destroys those that nobody holds.
LEMMA StepKeeps ==
    ASSUME IInv, [Next]_vars
    PROVE  IInv'
<1>1. ASSUME NEW s \in Sockets, Accept(s)
      PROVE  IInv'
  BY <1>1, AcceptDoes, BecomesKeeps
<1>2. ASSUME NEW s \in Sockets, \E w : Handled(w, s)
      PROVE  IInv'
  BY <1>2, BecomesKeeps DEF Handled
<1>3. ASSUME NEW s \in Sockets, NEW p \in Players, NEW q \in Players, LogIn(s, p, q)
      PROVE  IInv'
  BY <1>3, LogInDoes, BecomesKeeps
<1>4. ASSUME NEW p \in Players, NEW q \in Players, RunAway(p, q)
      PROVE  IInv'
  BY <1>4, RunAwayDoes, BecomesKeeps
<1>5. ASSUME NEW s \in Sockets,
             SignUpFails(s) \/ SignUpIgnored(s) \/ TimerExpires(s) \/ TimerHandler(s)
               \/ Dispatched(s) \/ WriteDone(s) \/ ReaderEnds(s)
      PROVE  IInv'
  BY <1>2, <1>5, SignUpFailsDoes, SignUpIgnoredDoes, TimerExpiresDoes, TimerHandlerDoes,
     DispatchedDoes, WriteDoneDoes, ReaderEndsDoes
<1>6. ASSUME NEW p \in Players, Notify(p) \/ Kick(p) \/ Grab(p)
      PROVE  IInv'
  BY <1>2, <1>6, NotifyDoes, KickDoes, GrabDoes
<1>7. CASE UNCHANGED vars
  BY <1>7 DEF IInv, Now, Referenced, vars
<1> QED
  BY <1>1, <1>3, <1>4, <1>5, <1>6, <1>7 DEF Next

\* At the start there are no sockets.
LEMMA StartIsSound ==
    ASSUME Init
    PROVE  IInv
<1>1. /\ sock = [s \in Sockets |-> Free] /\ holder = [p \in Players |-> None] /\ grabbed = {}
  BY DEF Init
<1>2. Now.sock = sock /\ Now.holder = holder /\ Now.grabbed = grabbed /\ Now \in Worlds
  BY <1>1, FreeIsSound DEF Now, Worlds
<1>3. \A s \in Sockets : sock[s] = Free
  BY <1>1
<1>4. \A p \in Players, s \in Sockets : holder[p] = s <=> sock[s].onLost = p
  BY <1>1, <1>3, FreeIsSound, NoneIsNoName
<1>5. Free.fd = "free"
  BY DEF Free
<1> QED
  BY <1>1, <1>2, <1>3, <1>4, <1>5, FreeIsSound DEF IInv, Sound

\* Sockets, queues, callbacks and routers agree in every state the server reaches.
THEOREM Invariance == Spec => []IInv
<1>1. Init => IInv
  BY StartIsSound
<1>2. IInv /\ [Next]_vars => IInv'
  BY StepKeeps
<1> QED
  BY <1>1, <1>2, PTL DEF Spec

\* Every variable keeps its type, the numbers of the packets included.
THEOREM TypeCorrect == Spec => []TypeOK
<1>1. IInv => TypeOK
  BY DEF IInv, Sound, Worlds, Now, TypeOK
<1> QED
  BY <1>1, Invariance, PTL

\* Packets leave one at a time and in the order of send, whichever handler sends
\* them: what is on the wire is 1, 2, 3, ... up to the one being written.
THEOREM PacketsLeaveInOrder == Spec => []InOrder
<1>1. ASSUME IInv
      PROVE  InOrder
  <2> SUFFICES ASSUME NEW s \in Sockets
               PROVE  /\ Len(sock[s].writing) <= 1
                      /\ sock[s].wire = [i \in 1..Len(sock[s].wire) |-> i]
    BY DEF InOrder
  <2>1. sock[s] \in Sock /\ Flow(sock[s])
    BY <1>1, Before
  <2> DEFINE out == sock[s].wire
             wr == sock[s].writing
  <2>2. out \in Seq(Nat) /\ \A i \in 1..Len(out) : out[i] = i
    BY <2>1, SockFields DEF Flow
  <2>3. wr = <<>> \/ \E e : wr = <<e>>
    BY <2>1 DEF Flow
  <2> HIDE DEF out, wr
  <2>4. out = [i \in 1..Len(out) |-> i]
    BY <2>2
  <2>5. Len(wr) <= 1
    <3>1. CASE wr = <<>>
      BY <3>1
    <3>2. ASSUME NEW e, wr = <<e>>
          PROVE  Len(wr) <= 1
      BY <3>2
    <3> QED
      BY <2>3, <3>1, <3>2
  <2> QED
    BY <2>4, <2>5 DEF out, wr
<1>2. IInv => InOrder
  BY <1>1
<1> QED
  BY <1>2, Invariance, PTL

\* A player with a socket hears it, through logins that take over, sockets that
\* move to another object and closes that come late.
THEOREM PlayersHearTheirSocket == Spec => []Heard
<1>1. ASSUME IInv
      PROVE  Heard
  <2> SUFFICES ASSUME NEW p \in Players, holder[p] # None
               PROVE  /\ sock[holder[p]].fd = "open" /\ sock[holder[p]].reader
                      /\ sock[holder[p]].onMessage = p /\ sock[holder[p]].onLost = p
    BY DEF Heard
  <2>1. Sound(Now) /\ Now.sock = sock /\ Now.holder = holder
    BY <1>1 DEF IInv, Now
  <2> QED
    BY <2>1, HeldIsHeard
<1>2. IInv => Heard
  BY <1>1
<1> QED
  BY <1>2, Invariance, PTL

\* No callback keeps a socket that is closed or not read any more.
THEOREM NothingLeaks == Spec => []NoLeak
<1>1. ASSUME IInv
      PROVE  NoLeak
  <2> SUFFICES ASSUME NEW s \in Sockets, sock[s].fd # "free",
                      ~(sock[s].fd = "open" /\ sock[s].reader)
               PROVE  /\ sock[s].onMessage \notin {"auth"} \cup Players
                      /\ sock[s].onLost \notin Players
                      /\ \A p \in Players : holder[p] # s
    BY DEF NoLeak
  <2>1. Sound(Now) /\ Now.sock = sock /\ Now.holder = holder /\ Local(sock[s])
    BY <1>1, Before
  <2>2. sock[s].onMessage \notin {"auth"} \cup Players
    BY <2>1 DEF Local
  <2>3. sock[s].onLost \notin Players
    BY <2>1, <2>2 DEF Local
  <2> QED
    BY <2>1, <2>2, <2>3 DEF Sound
<1>2. IInv => NoLeak
  BY <1>1
<1> QED
  BY <1>2, Invariance, PTL

\* A socket told to close that is still open has a write in flight, whose end
\* takes it further.
THEOREM KicksAreUnderWay == Spec => []KickUnderWay
<1>1. ASSUME IInv
      PROVE  KickUnderWay
  <2> SUFFICES ASSUME NEW s \in Sockets, sock[s].closing /\ sock[s].fd = "open"
               PROVE  sock[s].writing # <<>>
    BY DEF KickUnderWay
  <2>1. Flow(sock[s]) /\ Local(sock[s])
    BY <1>1, Before
  <2>2. sock[s].queue # <<>>
    BY <2>1 DEF Local
  <2>3. sock[s].writing = <<Head(sock[s].queue)>>
    BY <2>1, <2>2 DEF Flow
  <2> QED
    BY <2>3
<1>2. IInv => KickUnderWay
  BY <1>1
<1> QED
  BY <1>2, Invariance, PTL

\* One step closes a socket that has something left to write only when its reader
\* ends or when it has just written the last packet.
LEMMA StepFlushes ==
    ASSUME IInv, [Next]_vars, NEW k \in Sockets, sock[k].fd = "open", sock'[k].fd # "open"
    PROVE  \/ ReaderEnds(k)
           \/ sock[k].queue = <<>>
           \/ Len(sock[k].queue) = 1 /\ WriteDone(k)
<1> SUFFICES ASSUME sock[k].queue # <<>>, ~ReaderEnds(k),
                    ~(Len(sock[k].queue) = 1 /\ WriteDone(k))
             PROVE  FALSE
  OBVIOUS
<1>1. ASSUME NEW s \in Sockets, NEW w, Handled(w, s), Calm(sock[s], w.sock[s])
      PROVE  FALSE
  <2>1. CASE s = k
    BY <1>1, <2>1, HandledDoes DEF Calm
  <2>2. CASE s # k
    BY <1>1, <2>2, HandledDoes
  <2> QED
    BY <2>1, <2>2
<1>2. ASSUME NEW s \in Sockets, NEW w, Handled(w, s), s # k
      PROVE  FALSE
  BY <1>2, HandledDoes
<1>3. ASSUME NEW s \in Sockets, Accept(s)
      PROVE  FALSE
  <2>1. PICK w : Sound(w) /\ Becomes(w) /\ Only(Now, w, s) /\ sock[s].fd = "free"
    BY <1>3, AcceptDoes
  <2>2. s # k /\ Now.sock = sock
    BY <2>1 DEF Now
  <2>3. sock'[k] = sock[k]
    BY <2>1, <2>2, UntouchedStays DEF Only
  <2> QED
    BY <2>3
<1>4. ASSUME NEW s \in Sockets, NEW p \in Players, NEW q \in Players, LogIn(s, p, q)
      PROVE  FALSE
  <2>1. PICK w : /\ Sound(w) /\ Becomes(w)
                 /\ w.sock[s].fd = "open" /\ w.sock[s].queue # <<>>
                 /\ holder[q] # None =>
                      w.sock[holder[q]].fd = "open" /\ w.sock[holder[q]].queue # <<>>
                 /\ \A j \in Sockets : (j # s /\ j # holder[q]) => w.sock[j] = sock[j]
    BY <1>4, LogInDoes
  <2>2. CASE k = s \/ k = holder[q]
    <3>1. w.sock[k].fd = "open" /\ w.sock[k].queue # <<>>
      BY <2>1, <2>2, NoneIsNoName
    <3> QED
      BY <2>1, <3>1, AfterHandler
  <2>3. CASE ~(k = s \/ k = holder[q])
    <3>1. sock'[k] = sock[k]
      BY <2>1, <2>3, UntouchedStays
    <3> QED
      BY <3>1
  <2> QED
    BY <2>2, <2>3
<1>5. ASSUME NEW p \in Players, NEW q \in Players, RunAway(p, q)
      PROVE  FALSE
  <2>1. PICK s \in Sockets : \E w : /\ Sound(w) /\ Becomes(w) /\ Only(Now, w, s)
                                    /\ w.sock[s].fd = "open" /\ w.sock[s].queue # <<>>
    BY <1>5, RunAwayDoes
  <2>2. PICK w : /\ Sound(w) /\ Becomes(w) /\ Only(Now, w, s)
                 /\ w.sock[s].fd = "open" /\ w.sock[s].queue # <<>>
    BY <2>1
  <2>3. CASE k = s
    BY <2>2, <2>3, AfterHandler
  <2>4. CASE k # s
    <3>1. Now.sock = sock
      BY DEF Now
    <3>2. sock'[k] = sock[k]
      BY <2>2, <2>4, <3>1, UntouchedStays DEF Only
    <3> QED
      BY <3>2
  <2> QED
    BY <2>3, <2>4
<1>6. ASSUME NEW s \in Sockets,
             SignUpFails(s) \/ SignUpIgnored(s) \/ TimerExpires(s) \/ TimerHandler(s) \/ Dispatched(s)
      PROVE  FALSE
  BY <1>1, <1>6, SignUpFailsDoes, SignUpIgnoredDoes, TimerExpiresDoes, TimerHandlerDoes,
     DispatchedDoes
<1>7. ASSUME NEW s \in Sockets, WriteDone(s)
      PROVE  FALSE
  BY <1>1, <1>2, <1>7, WriteDoneDoes
<1>8. ASSUME NEW s \in Sockets, ReaderEnds(s)
      PROVE  FALSE
  BY <1>2, <1>8, ReaderEndsDoes
<1>9. ASSUME NEW p \in Players, Notify(p) \/ Kick(p) \/ Grab(p)
      PROVE  FALSE
  BY <1>1, <1>9, NotifyDoes, KickDoes, GrabDoes
<1>10. ~UNCHANGED vars
  BY DEF vars
<1> QED
  BY <1>3, <1>4, <1>5, <1>6, <1>7, <1>8, <1>9, <1>10 DEF Next

\* The packet that says why somebody is kicked goes out before the end.
THEOREM ClosesAreFlushed == Spec => FlushedBeforeClose
<1>1. IInv /\ [Next]_vars =>
        [\A s \in Sockets :
            (sock[s].fd = "open" /\ sock'[s].fd # "open") =>
                \/ ReaderEnds(s)
                \/ sock[s].queue = <<>>
                \/ Len(sock[s].queue) = 1 /\ WriteDone(s)]_vars
  BY StepFlushes
<1> QED
  BY <1>1, Invariance, PTL DEF Spec, FlushedBeforeClose

-----------------------------------------------------------------------------
(* Link is what this module implements *)

\* What Link sees of a socket.
LinkOf(x) == IF x.fd = "open" /\ x.reader THEN (IF x.closing THEN "closing" ELSE "open") ELSE "none"
OwnerOf(x) == IF x.onLost \in Players THEN x.onLost ELSE None

\* And of all of them.
SeenLinks  == [s \in Sockets |-> LinkOf(sock[s])]
SeenOwners == [s \in Sockets |-> OwnerOf(sock[s])]

\* The mapping of the module gives the same.
AsSeen == Links = SeenLinks /\ Owners = SeenOwners

\* The mapping of the module, said with the socket alone: its callback names the
\* only router that may have it.
LEMMA LinkIs == IInv => AsSeen
<1> SUFFICES ASSUME IInv
             PROVE  AsSeen
  OBVIOUS
<1>1. \A s \in Sockets, p \in Players : holder[p] = s <=> sock[s].onLost = p
  BY DEF IInv, Sound, Now
<1>2. ASSUME NEW s \in Sockets
      PROVE  (IF \E p \in Players : holder[p] = s
              THEN CHOOSE p \in Players : holder[p] = s ELSE None) = OwnerOf(sock[s])
  <2>1. CASE sock[s].onLost \in Players
    <3>1. \A p \in Players : holder[p] = s <=> p = sock[s].onLost
      BY <1>1
    <3>2. (CHOOSE p \in Players : holder[p] = s) = sock[s].onLost
      BY <2>1, <3>1
    <3> QED
      BY <2>1, <3>1, <3>2 DEF OwnerOf
  <2>2. CASE sock[s].onLost \notin Players
    <3>1. ~\E p \in Players : holder[p] = s
      BY <1>1, <2>2
    <3> QED
      BY <2>2, <3>1 DEF OwnerOf
  <2> QED
    BY <2>1, <2>2
<1>3. ASSUME NEW s \in Sockets
      PROVE  (IF Gone(s) THEN "none"
              ELSE IF sock[s].closing THEN "closing" ELSE "open") = LinkOf(sock[s])
  BY DEF Gone, LinkOf
<1> QED
  BY <1>2, <1>3 DEF AsSeen, Links, Owners, SeenLinks, SeenOwners

\* A socket that is not heard has no player.
LEMMA NoLinkNoOwner ==
    ASSUME IInv, NEW s \in Sockets, LinkOf(sock[s]) = "none"
    PROVE  OwnerOf(sock[s]) = None
<1>1. Local(sock[s])
  BY Before
<1> QED
  BY <1>1 DEF Local, LinkOf, OwnerOf

\* A change of one socket, as Link sees it.
LEMMA OneChanges ==
    ASSUME NEW s \in Sockets, \A k \in Sockets : k # s => sock'[k] = sock[k]
    PROVE  /\ SeenLinks' = [SeenLinks EXCEPT ![s] = LinkOf(sock'[s])]
           /\ SeenOwners' = [SeenOwners EXCEPT ![s] = OwnerOf(sock'[s])]
           /\ SeenLinks[s] = LinkOf(sock[s]) /\ SeenOwners[s] = OwnerOf(sock[s])
BY DEF SeenLinks, SeenOwners

\* Link with these values.
L == INSTANCE Link WITH link <- SeenLinks, owner <- SeenOwners

\* A mild change is a step of Link: the connection is asked to close, it is gone,
\* or Link sees nothing.
LEMMA MildStep ==
    ASSUME IInv, NEW s \in Sockets, \A k \in Sockets : k # s => sock'[k] = sock[k],
           Mild(sock[s], sock'[s])
    PROVE  [L!LinkNext]_<<SeenLinks, SeenOwners>>
<1> DEFINE x == sock[s]
           y == sock'[s]
<1>1. /\ SeenLinks' = [SeenLinks EXCEPT ![s] = LinkOf(y)]
      /\ SeenOwners' = [SeenOwners EXCEPT ![s] = OwnerOf(y)]
      /\ SeenLinks[s] = LinkOf(x) /\ SeenOwners[s] = OwnerOf(x)
  BY OneChanges
<1>2. LinkOf(x) = "none" => OwnerOf(x) = None
  BY NoLinkNoOwner
<1>3. /\ SeenLinks = [SeenLinks EXCEPT ![s] = SeenLinks[s]]
      /\ SeenOwners = [SeenOwners EXCEPT ![s] = SeenOwners[s]]
  BY DEF SeenLinks, SeenOwners
<1>4. \/ LinkOf(y) = "none" /\ OwnerOf(y) = None
      \/ LinkOf(y) = LinkOf(x) /\ OwnerOf(y) = OwnerOf(x)
      \/ LinkOf(x) = "open" /\ LinkOf(y) = "closing" /\ OwnerOf(y) = OwnerOf(x)
  <2>1. Mild(x, y)
    OBVIOUS
  <2> HIDE DEF x, y
  <2>2. CASE /\ y.fd = x.fd /\ y.reader = x.reader /\ y.onLost = x.onLost
             /\ x.closing => y.closing
    BY <2>2 DEF LinkOf, OwnerOf
  <2>3. CASE y.onLost \notin Players /\ ~(y.fd = "open" /\ y.reader)
    BY <2>3 DEF LinkOf, OwnerOf
  <2> QED
    BY <2>1, <2>2, <2>3 DEF Mild
<1>5. CASE LinkOf(y) = "none" /\ OwnerOf(y) = None /\ LinkOf(x) # "none"
  <2>1. L!Gone(s)
    BY <1>1, <1>5 DEF L!Gone
  <2> QED
    BY <2>1 DEF L!LinkNext
<1>6. CASE LinkOf(x) = "open" /\ LinkOf(y) = "closing" /\ OwnerOf(y) = OwnerOf(x)
  <2>1. SeenLinks' = [SeenLinks EXCEPT ![s] = "closing"] /\ SeenLinks[s] = "open" /\ SeenOwners' = SeenOwners
    BY <1>1, <1>3, <1>6
  <2>2. L!Close(s)
    BY <2>1 DEF L!Close
  <2> QED
    BY <2>2 DEF L!LinkNext
<1>7. CASE LinkOf(y) = LinkOf(x) /\ OwnerOf(y) = OwnerOf(x)
  BY <1>1, <1>3, <1>7
<1> QED
  BY <1>2, <1>4, <1>5, <1>6, <1>7

\* A client that is accepted connects, and is perhaps closing at once.
LEMMA AcceptStep ==
    ASSUME IInv, NEW s \in Sockets, Accept(s)
    PROVE  [L!LinkNext]_<<SeenLinks, SeenOwners>>
<1> DEFINE x == sock[s]
           y == sock'[s]
<1>1. PICK w : /\ Sound(w) /\ Becomes(w) /\ Only(Now, w, s)
               /\ x.fd = "free" /\ w.sock[s].onLost \notin Players
  BY AcceptDoes
<1>2. \A k \in Sockets : k # s => sock'[k] = sock[k]
  <2>1. Now.sock = sock
    BY DEF Now
  <2> QED
    BY <1>1, <2>1, UntouchedStays DEF Only
<1>3. y.onLost \notin Players
  BY <1>1, FreeIsSound, AfterHandler
<1>4. x = Free
  BY <1>1, Before DEF Local
<1>5. LinkOf(x) = "none" /\ OwnerOf(x) = None /\ OwnerOf(y) = None
  BY <1>1, <1>3, <1>4, FreeIsSound DEF LinkOf, OwnerOf
<1>6. /\ SeenLinks' = [SeenLinks EXCEPT ![s] = LinkOf(y)]
      /\ SeenOwners' = [SeenOwners EXCEPT ![s] = OwnerOf(y)]
      /\ SeenLinks[s] = LinkOf(x) /\ SeenOwners[s] = OwnerOf(x)
  BY <1>2, OneChanges
<1>7. /\ SeenLinks = [SeenLinks EXCEPT ![s] = SeenLinks[s]]
      /\ SeenOwners = [SeenOwners EXCEPT ![s] = SeenOwners[s]]
  BY DEF SeenLinks, SeenOwners
<1>8. LinkOf(y) \in {"none", "open", "closing"}
  BY DEF LinkOf
<1> HIDE DEF x, y
<1>9. CASE LinkOf(y) = "none"
  BY <1>5, <1>6, <1>7, <1>9
<1>10. CASE LinkOf(y) \in {"open", "closing"}
  <2>1. L!Connect(s)
    BY <1>5, <1>6, <1>7, <1>10 DEF L!Connect
  <2> QED
    BY <2>1 DEF L!LinkNext
<1> QED
  BY <1>8, <1>9, <1>10

\* A login gives the connection to the player and closes what was online before.
LEMMA LogInStep ==
    ASSUME IInv, NEW s \in Sockets, NEW p \in Players, NEW q \in Players, LogIn(s, p, q)
    PROVE  [L!LinkNext]_<<SeenLinks, SeenOwners>>
<1> DEFINE x == sock[s]
           h == holder[q]
           kicked == IF h = None THEN {} ELSE {h}
<1>1. /\ x.fd = "open" /\ x.reader /\ x.onLost \notin Players
      /\ q # p => holder[p] = None
      /\ h # s
  BY LogInDoes
<1>2. PICK w : /\ Sound(w) /\ Becomes(w)
               /\ w.sock[s].fd = "open" /\ w.sock[s].queue # <<>> /\ w.sock[s].reader
               /\ w.sock[s].onLost = p /\ w.sock[s].closing = x.closing
               /\ h # None =>
                    /\ w.sock[h].fd = "open" /\ w.sock[h].queue # <<>>
                    /\ w.sock[h].closing /\ w.sock[h].reader
                    /\ q = p => w.sock[h].onLost = "log"
                    /\ q # p => w.sock[h].onLost = q
               /\ \A k \in Sockets : (k # s /\ k # h) => w.sock[k] = sock[k]
  BY LogInDoes
<1>3. /\ Sound(Now) /\ Now.sock = sock /\ Now.holder = holder
      /\ \A k \in Sockets, r \in Players : holder[r] = k <=> sock[k].onLost = r
  BY DEF IInv, Sound, Now
<1>4. h # None => h \in Sockets /\ sock[h].fd = "open" /\ sock[h].reader /\ sock[h].onLost = q
  BY <1>3, HeldIsHeard
<1>5. /\ sock'[s] = w.sock[s]
      /\ h # None => sock'[h] = w.sock[h]
      /\ \A k \in Sockets : (k # s /\ k # h) => sock'[k] = sock[k]
  BY <1>2, <1>4, AfterHandler, UntouchedStays
<1>6. kicked \in SUBSET (Sockets \ {s})
  BY <1>1, <1>4
<1>7. SeenLinks[s] # "none" /\ SeenOwners[s] = None
  BY <1>1 DEF SeenLinks, SeenOwners, LinkOf, OwnerOf
<1>8. \A k \in kicked : SeenLinks[k] # "none"
  BY <1>4 DEF SeenLinks, LinkOf
<1>9. \A k \in Sockets \ {s} : SeenOwners[k] = p => k \in kicked
  <2> SUFFICES ASSUME NEW k \in Sockets, k # s, SeenOwners[k] = p
               PROVE  k \in kicked
    OBVIOUS
  <2>1. sock[k].onLost = p
    BY NoneIsNoName DEF SeenOwners, OwnerOf
  <2>2. holder[p] = k
    BY <1>3, <2>1
  <2>3. p = q /\ h = k /\ h # None
    BY <1>1, <2>2, NoneIsNoName
  <2> QED
    BY <2>3
<1>10. ASSUME NEW k \in Sockets
       PROVE  LinkOf(sock'[k]) = IF k \in kicked THEN "closing" ELSE SeenLinks[k]
  <2>1. CASE k = s
    <3>1. LinkOf(w.sock[s]) = LinkOf(x)
      BY <1>1, <1>2 DEF LinkOf
    <3>2. k \notin kicked /\ sock'[k] = w.sock[s] /\ SeenLinks[k] = LinkOf(x)
      BY <1>1, <1>5, <2>1 DEF SeenLinks
    <3> QED
      BY <3>1, <3>2
  <2>2. CASE k # s /\ k = h
    <3>1. h # None
      BY <2>2, NoneIsNoName
    <3>2. LinkOf(w.sock[h]) = "closing"
      BY <1>2, <3>1 DEF LinkOf
    <3> QED
      BY <1>5, <2>2, <3>1, <3>2
  <2>3. CASE k # s /\ k # h
    <3>1. sock'[k] = sock[k] /\ k \notin kicked
      BY <1>5, <2>3
    <3> QED
      BY <3>1 DEF SeenLinks
  <2> QED
    BY <2>1, <2>2, <2>3
<1>11. ASSUME NEW k \in Sockets
       PROVE  OwnerOf(sock'[k]) = IF k = s THEN p ELSE IF SeenOwners[k] = p THEN None ELSE SeenOwners[k]
  <2>1. CASE k = s
    BY <1>2, <1>5, <2>1 DEF OwnerOf
  <2>2. CASE k # s /\ k = h
    <3>1. h # None /\ SeenOwners[k] = q
      BY <1>4, <2>2, NoneIsNoName DEF SeenOwners, OwnerOf
    <3>2. w.sock[h].onLost = IF q = p THEN "log" ELSE q
      BY <1>2, <3>1
    <3>3. OwnerOf(w.sock[h]) = IF q = p THEN None ELSE q
      BY <3>2, NoneIsNoName DEF OwnerOf
    <3> QED
      BY <1>5, <2>2, <3>1, <3>3
  <2>3. CASE k # s /\ k # h
    <3>1. sock'[k] = sock[k] /\ SeenOwners[k] = OwnerOf(sock[k])
      BY <1>5, <2>3 DEF SeenOwners
    <3>2. SeenOwners[k] # p
      <4>1. k \notin kicked
        BY <2>3
      <4> QED
        BY <1>9, <2>3, <4>1
    <3> QED
      BY <2>3, <3>1, <3>2
  <2> QED
    BY <2>1, <2>2, <2>3
<1>12. /\ SeenLinks' = [k \in Sockets |-> IF k \in kicked THEN "closing" ELSE SeenLinks[k]]
       /\ SeenOwners' = [k \in Sockets |-> IF k = s THEN p
                                       ELSE IF SeenOwners[k] = p THEN None ELSE SeenOwners[k]]
  <2>1. /\ SeenLinks' = [k \in Sockets |-> LinkOf(sock'[k])]
        /\ SeenOwners' = [k \in Sockets |-> OwnerOf(sock'[k])]
    BY DEF SeenLinks, SeenOwners
  <2> HIDE DEF kicked
  <2> QED
    BY <1>10, <1>11, <2>1
<1> HIDE DEF kicked
<1>13. L!LogIn(s, p, kicked)
  BY <1>7, <1>8, <1>9, <1>12 DEF L!LogIn
<1> QED
  BY <1>6, <1>13 DEF L!LinkNext

\* Whoever runs away takes the connection along.
LEMMA RunAwayStep ==
    ASSUME IInv, NEW p \in Players, NEW q \in Players, RunAway(p, q)
    PROVE  [L!LinkNext]_<<SeenLinks, SeenOwners>>
<1>1. PICK s \in Sockets :
        /\ sock[s].fd = "open" /\ sock[s].reader /\ sock[s].onLost = p /\ holder[q] = None
        /\ \E w : /\ Sound(w) /\ Becomes(w) /\ Only(Now, w, s)
                  /\ w.sock[s].fd = "open" /\ w.sock[s].queue # <<>> /\ w.sock[s].reader
                  /\ w.sock[s].onLost = q
                  /\ (w.sock[s].closing <=> sock[s].closing) \/ w.sock[s].closing
  BY RunAwayDoes
<1>2. PICK w : /\ Sound(w) /\ Becomes(w) /\ Only(Now, w, s)
               /\ w.sock[s].fd = "open" /\ w.sock[s].queue # <<>> /\ w.sock[s].reader
               /\ w.sock[s].onLost = q
               /\ (w.sock[s].closing <=> sock[s].closing) \/ w.sock[s].closing
  BY <1>1
<1> DEFINE x == sock[s]
           y == sock'[s]
<1>3. y = w.sock[s]
  BY <1>2, AfterHandler
<1>4. \A k \in Sockets : k # s => sock'[k] = sock[k]
  <2>1. Now.sock = sock
    BY DEF Now
  <2> QED
    BY <1>2, <2>1, UntouchedStays DEF Only
<1>5. /\ SeenLinks' = [SeenLinks EXCEPT ![s] = LinkOf(y)]
      /\ SeenOwners' = [SeenOwners EXCEPT ![s] = OwnerOf(y)]
      /\ SeenLinks[s] = LinkOf(x) /\ SeenOwners[s] = OwnerOf(x)
  BY <1>4, OneChanges
<1>6. OwnerOf(x) = p /\ OwnerOf(y) = q
  BY <1>1, <1>2, <1>3 DEF OwnerOf
<1>7. LinkOf(y) = LinkOf(x) \/ LinkOf(y) = "closing"
  BY <1>1, <1>2, <1>3 DEF LinkOf
<1>8. \A k \in Sockets : SeenOwners[k] # q
  <2>1. \A k \in Sockets : sock[k].onLost # q
    BY <1>1, NoneIsNoName DEF IInv, Sound, Now
  <2> QED
    BY <2>1, NoneIsNoName DEF SeenOwners, OwnerOf
<1>9. SeenLinks = [SeenLinks EXCEPT ![s] = SeenLinks[s]]
  BY DEF SeenLinks
<1> HIDE DEF x, y
<1>10. L!Move(s, q)
  <2>1. SeenOwners[s] # None
    BY <1>5, <1>6, NoneIsNoName
  <2>2. SeenLinks' \in {SeenLinks, [SeenLinks EXCEPT ![s] = "closing"]}
    BY <1>5, <1>7, <1>9
  <2>3. SeenOwners' = [SeenOwners EXCEPT ![s] = q]
    BY <1>5, <1>6
  <2> QED
    BY <1>8, <2>1, <2>2, <2>3 DEF L!Move
<1> QED
  BY <1>10 DEF L!LinkNext

\* Every step of a socket is a step of Link or none.
LEMMA StepIsLinked ==
    ASSUME IInv, [Next]_vars
    PROVE  [L!LinkNext]_<<SeenLinks, SeenOwners>>
<1>1. ASSUME NEW s \in Sockets, \E w : Handled(w, s)
      PROVE  [L!LinkNext]_<<SeenLinks, SeenOwners>>
  BY <1>1, HandledDoes, MildStep
<1>2. ASSUME NEW s \in Sockets,
             SignUpFails(s) \/ SignUpIgnored(s) \/ TimerExpires(s) \/ TimerHandler(s)
               \/ Dispatched(s) \/ WriteDone(s) \/ ReaderEnds(s)
      PROVE  [L!LinkNext]_<<SeenLinks, SeenOwners>>
  BY <1>1, <1>2, SignUpFailsDoes, SignUpIgnoredDoes, TimerExpiresDoes, TimerHandlerDoes,
     DispatchedDoes, WriteDoneDoes, ReaderEndsDoes
<1>3. ASSUME NEW p \in Players, Notify(p) \/ Kick(p) \/ Grab(p)
      PROVE  [L!LinkNext]_<<SeenLinks, SeenOwners>>
  BY <1>1, <1>3, NotifyDoes, KickDoes, GrabDoes
<1>4. CASE UNCHANGED vars
  BY <1>4 DEF vars, SeenLinks, SeenOwners
<1>5. CASE Next
  BY <1>2, <1>3, <1>5, AcceptStep, LogInStep, RunAwayStep DEF Next
<1> QED
  BY <1>4, <1>5

\* The connections implement Link: whatever the queues, the timers, the callbacks
\* and late closes do, a connection that closes never opens again and its player
\* loses it only with it, to a later login or to its own next object.
THEOREM ConnectionsImplementLink == Spec => LinkKept
<1>1. Init => Connections!LinkInit
  <2> SUFFICES ASSUME Init
               PROVE  Connections!LinkInit
    OBVIOUS
  <2>1. IInv /\ \A s \in Sockets : sock[s] = Free
    BY StartIsSound DEF Init
  <2>2. \A s \in Sockets : LinkOf(sock[s]) = "none" /\ OwnerOf(sock[s]) = None
    <3>1. LinkOf(Free) = "none"
      BY DEF Free, LinkOf
    <3> QED
      BY <2>1, <3>1, NoLinkNoOwner
  <2>3. SeenLinks = [s \in Sockets |-> "none"] /\ SeenOwners = [s \in Sockets |-> None]
    BY <2>2 DEF SeenLinks, SeenOwners
  <2> QED
    BY <2>1, <2>3, LinkIs DEF AsSeen, Connections!LinkInit
<1>2. IInv => AsSeen
  BY LinkIs
<1>3. IInv' => AsSeen'
  BY <1>2, PTL
<1>4. IInv /\ IInv' /\ [Next]_vars => [Connections!LinkNext]_<<Links, Owners>>
  <2> SUFFICES ASSUME IInv, IInv', [Next]_vars
               PROVE  [Connections!LinkNext]_<<Links, Owners>>
    OBVIOUS
  <2>1. [L!LinkNext]_<<SeenLinks, SeenOwners>>
    BY StepIsLinked
  <2>2. /\ Links = SeenLinks /\ Owners = SeenOwners
        /\ Links' = SeenLinks' /\ Owners' = SeenOwners'
    BY <1>2, <1>3 DEF AsSeen
  <2>3. CASE UNCHANGED <<SeenLinks, SeenOwners>>
    BY <2>2, <2>3
  <2>4. CASE L!LinkNext
    <3>1. PICK s \in Sockets :
            \/ L!Connect(s)
            \/ L!Close(s)
            \/ \E p \in Players, k \in SUBSET (Sockets \ {s}) : L!LogIn(s, p, k)
            \/ \E q \in Players : L!Move(s, q)
            \/ L!Gone(s)
      BY <2>4 DEF L!LinkNext
    <3>2. L!Connect(s) => Connections!Connect(s)
      BY <2>2 DEF L!Connect, Connections!Connect
    <3>3. L!Close(s) => Connections!Close(s)
      BY <2>2 DEF L!Close, Connections!Close
    <3>4. \A p \in Players, k \in SUBSET (Sockets \ {s}) :
            L!LogIn(s, p, k) => Connections!LogIn(s, p, k)
      BY <2>2 DEF L!LogIn, Connections!LogIn
    <3>5. \A q \in Players : L!Move(s, q) => Connections!Move(s, q)
      BY <2>2 DEF L!Move, Connections!Move
    <3>6. L!Gone(s) => Connections!Gone(s)
      BY <2>2 DEF L!Gone, Connections!Gone
    <3>7. Connections!LinkNext
      BY <3>1, <3>2, <3>3, <3>4, <3>5, <3>6 DEF Connections!LinkNext
    <3> QED
      BY <3>7
  <2> QED
    BY <2>1, <2>3, <2>4
<1> QED
  BY <1>1, <1>4, Invariance, PTL DEF Spec, LinkKept, Connections!LinkSpec

-----------------------------------------------------------------------------
(* The packet stream: its grammar *)

\* The packets a client has sent, as the number of fields of each.
Counts == Seq({4, 6})

Bytes == [kind : {"head", "int", "bytes", "rest"}, n : Nat, of : Nat, field : 0..5]

\* A byte that was sent for one of the packets c.
Fits(c, x) ==
    /\ x.of \in 1..Len(c)
    /\ x.kind = "head" => x.n = c[x.of]
    /\ x.kind = "int" => x.field \in IntFields
    /\ x.kind \in {"bytes", "rest"} => x.field \in StringFields
    /\ x.kind # "head" => x.field < c[x.of]

\* The fields of its packet that have begun by byte x.
Begun(x) == IF x.kind = "head" THEN 0 ELSE x.field + 1

\* Byte y is sent next after byte x: a head after the last field of the packet
\* before it, the contents of a string after its head, and fields in their order.
Follows(c, x, y) ==
    /\ y.kind = "head" => y.of = x.of + 1 /\ Begun(x) = c[x.of]
    /\ y.kind = "rest" => y.of = x.of /\ Begun(x) = Begun(y)
    /\ y.kind \in {"int", "bytes"} => y.of = x.of /\ Begun(x) = y.field

\* A piece of what is sent for the packets c, wherever it begins and ends.
Piece(c, s) ==
    /\ s \in Seq(Bytes)
    /\ \A i \in 1..Len(s) : Fits(c, s[i])
    /\ \A i \in 1..(Len(s) - 1) : Follows(c, s[i], s[i + 1])

\* A piece that goes on to the end of the last packet: no string of it is cut.
Left(c, s) ==
    /\ Piece(c, s)
    /\ s # <<>> => s[Len(s)].of = Len(c) /\ Begun(s[Len(s)]) = c[Len(c)]
    /\ \A i \in 1..Len(s) : s[i].kind = "bytes" =>
        /\ i + s[i].n <= Len(s)
        /\ \A j \in (i + 1)..(i + s[i].n) : s[j].kind = "rest"

\* The last packet whose head is before s, where s is what is left.
Passed(c, s) ==
    IF s = <<>> THEN Len(c) ELSE IF s[1].kind = "head" THEN s[1].of - 1 ELSE s[1].of

\* Packets b + 1 to b + m, whole.
Packets(c, b, m) == [j \in 1..m |-> Whole(c, b + j)]
-----------------------------------------------------------------------------
(* Induction over an interval, from the well-foundedness of the naturals *)

\* A nonempty set of naturals has a least element.
LEMMA Least ==
    ASSUME NEW T, T \subseteq Nat, T # {}
    PROVE  \E x \in T : \A y \in T : x <= y
<1> DEFINE R == OpToRel(<, Nat)
<1>1. IsWellFoundedOn(R, Nat)
    BY NatLessThanWellFounded
<1>2. \A x, y \in Nat : x < y => <<x, y>> \in R
    BY DEF OpToRel
<1> HIDE DEF R
<1>3. PICK x \in T : \A y \in T : ~ (<<y, x>> \in R)
    BY <1>1, WFMin
<1>4. ASSUME NEW y \in T PROVE x <= y
  <2>1. x \in Nat /\ y \in Nat
    OBVIOUS
  <2>2. ~ (y < x)
    BY <1>3, <1>2, <2>1
  <2> QED BY <2>1, <2>2
<1> QED BY <1>4

\* A set that holds 0 and, with each number below n, the next one, holds 0..n.
LEMMA Upto ==
    ASSUME NEW n \in Nat, NEW S, 0 \in S,
           \A i \in 0..(n - 1) : i \in S => i + 1 \in S
    PROVE  \A i \in 0..n : i \in S
<1> DEFINE T == {i \in 0..n : i \notin S}
<1> SUFFICES ASSUME T # {} PROVE FALSE
    OBVIOUS
<1>1. T \subseteq Nat
    OBVIOUS
<1>2. \A i : i \in T <=> (i \in 0..n /\ i \notin S)
    OBVIOUS
<1> HIDE DEF T
<1>3. PICK x \in T : \A y \in T : x <= y
    BY <1>1, Least
<1>4. x # 0 /\ x \in 0..n /\ x \notin S
    BY <1>2
<1>5. x - 1 \in 0..(n - 1) /\ x - 1 \notin T
    BY <1>3, <1>4, <1>2
<1>6. x - 1 \in S
    BY <1>5, <1>2
<1>7. (x - 1) + 1 \in S
    BY <1>5, <1>6
<1> QED BY <1>7, <1>4

-----------------------------------------------------------------------------
(* Pieces of the stream *)

\* What follows the first p bytes.
LEMMA AfterBytes ==
    ASSUME NEW S, NEW s \in Seq(S), NEW p \in 0..Len(s)
    PROVE  LET r == SubSeq(s, p + 1, Len(s))
           IN  /\ r \in Seq(S)
               /\ Len(r) = Len(s) - p
               /\ \A i \in 1..(Len(s) - p) : r[i] = s[p + i]
OBVIOUS

\* The first m bytes.
LEMMA FirstBytes ==
    ASSUME NEW S, NEW s \in Seq(S), NEW m \in 0..Len(s)
    PROVE  LET r == SubSeq(s, 1, m)
           IN  /\ r \in Seq(S)
               /\ Len(r) = m
               /\ \A i \in 1..m : r[i] = s[i]
OBVIOUS

\* The first bytes of a piece are a piece.
LEMMA FirstIsPiece ==
    ASSUME NEW c \in Counts, NEW s, Piece(c, s), NEW m \in 0..Len(s)
    PROVE  Piece(c, SubSeq(s, 1, m))
<1> DEFINE r == SubSeq(s, 1, m)
<1>1. s \in Seq(Bytes)
    BY DEF Piece
<1>2. /\ r \in Seq(Bytes)
      /\ Len(r) = m
      /\ \A i \in 1..m : r[i] = s[i]
    BY <1>1, FirstBytes
<1> HIDE DEF r
<1>3. \A i \in 1..Len(r) : Fits(c, r[i])
    BY <1>1, <1>2 DEF Piece
<1>4. \A i \in 1..(Len(r) - 1) : Follows(c, r[i], r[i + 1])
  <2> TAKE i \in 1..(Len(r) - 1)
  <2>1. i \in 1..(Len(s) - 1) /\ r[i] = s[i] /\ r[i + 1] = s[i + 1]
    BY <1>1, <1>2
  <2> QED BY <2>1 DEF Piece
<1>5. Piece(c, r)
    BY <1>2, <1>3, <1>4 DEF Piece
<1> QED BY <1>5 DEF r

\* What follows the first bytes of what is left is what is left.
LEMMA RestIsLeft ==
    ASSUME NEW c \in Counts, NEW s, Left(c, s), NEW p \in 0..Len(s)
    PROVE  Left(c, SubSeq(s, p + 1, Len(s)))
<1> DEFINE r == SubSeq(s, p + 1, Len(s))
<1>1. s \in Seq(Bytes)
    BY DEF Left, Piece
<1>2. /\ r \in Seq(Bytes)
      /\ Len(r) = Len(s) - p
      /\ \A i \in 1..(Len(s) - p) : r[i] = s[p + i]
    BY <1>1, AfterBytes
<1> HIDE DEF r
<1>3. \A i \in 1..Len(r) : Fits(c, r[i])
  <2> TAKE i \in 1..Len(r)
  <2>1. p + i \in 1..Len(s) /\ r[i] = s[p + i]
    BY <1>1, <1>2
  <2> QED BY <2>1 DEF Left, Piece
<1>4. \A i \in 1..(Len(r) - 1) : Follows(c, r[i], r[i + 1])
  <2> TAKE i \in 1..(Len(r) - 1)
  <2>1. /\ p + i \in 1..(Len(s) - 1)
        /\ r[i] = s[p + i]
        /\ r[i + 1] = s[p + i + 1]
    <3>1. Len(s) \in Nat /\ i + 1 \in 1..(Len(s) - p) /\ i \in 1..(Len(s) - p) /\ p + (i + 1) = p + i + 1
      BY <1>1, <1>2
    <3>2. r[i + 1] = s[p + (i + 1)]
      BY <1>2, <3>1
    <3>3. r[i] = s[p + i]
      BY <1>2, <3>1
    <3>4. p + i \in 1..(Len(s) - 1)
      BY <3>1
    <3>5. r[i + 1] = s[p + i + 1]
      BY <3>1, <3>2
    <3> QED BY <3>3, <3>4, <3>5
  <2> QED BY <2>1 DEF Left, Piece
<1>5. ASSUME r # <<>> PROVE r[Len(r)].of = Len(c) /\ Begun(r[Len(r)]) = c[Len(c)]
  <2>1. Len(r) > 0 /\ r[Len(r)] = s[Len(s)] /\ s # <<>>
    BY <1>1, <1>2, <1>5
  <2> QED BY <2>1 DEF Left
<1>6. ASSUME NEW i \in 1..Len(r), r[i].kind = "bytes"
      PROVE  /\ i + r[i].n <= Len(r)
             /\ \A j \in (i + 1)..(i + r[i].n) : r[j].kind = "rest"
  <2>1. p + i \in 1..Len(s) /\ r[i] = s[p + i] /\ s[p + i].n \in Nat
    <3>1. p + i \in 1..Len(s) /\ r[i] = s[p + i]
      BY <1>1, <1>2
    <3>2. s[p + i] \in Bytes
      BY <1>1, <3>1
    <3> QED BY <3>1, <3>2 DEF Bytes
  <2>2. /\ p + i + s[p + i].n <= Len(s)
        /\ \A j \in (p + i + 1)..(p + i + s[p + i].n) : s[j].kind = "rest"
    BY <2>1, <1>6 DEF Left
  <2>3. i + r[i].n <= Len(r)
    BY <1>1, <1>2, <2>1, <2>2
  <2>4. ASSUME NEW j \in (i + 1)..(i + r[i].n) PROVE r[j].kind = "rest"
    <3>1. /\ j \in 1..(Len(s) - p)
          /\ p + j \in (p + i + 1)..(p + i + s[p + i].n)
      <4> DEFINE h == s[p + i].n
      <4>1. h \in Nat /\ Len(s) \in Nat /\ p \in Nat /\ i \in Nat /\ i >= 1 /\ r[i].n = h
        BY <1>1, <1>2, <2>1
      <4>2. i + h <= Len(s) - p /\ j \in (i + 1)..(i + h)
        BY <4>1, <1>2, <2>3
      <4> HIDE DEF h
      <4>3. j \in 1..(Len(s) - p) /\ p + j \in (p + i + 1)..(p + i + h)
        BY <4>1, <4>2
      <4> QED BY <4>3 DEF h
    <3> QED BY <3>1, <2>2, <1>2
  <2> QED BY <2>3, <2>4
<1>7. Left(c, r)
    BY <1>2, <1>3, <1>4, <1>5, <1>6 DEF Left, Piece
<1> QED BY <1>7 DEF r

\* The packets of a piece come in their order, and after those that have passed.
LEMMA InSentOrder ==
    ASSUME NEW c \in Counts, NEW s, Piece(c, s), NEW i \in 1..Len(s)
    PROVE  /\ s[i].of >= s[1].of
           /\ s[i].of >= Passed(c, s)
           /\ Passed(c, s) \in Nat
<1>1. s \in Seq(Bytes) /\ \A j \in 1..Len(s) : s[j] \in Bytes /\ Fits(c, s[j])
    BY DEF Piece
<1>2. \A j \in 1..Len(s) : s[j].of \in Nat /\ s[j].of >= 1
    BY <1>1 DEF Bytes, Fits
<1> DEFINE S == {j \in Nat : j + 1 <= Len(s) => s[j + 1].of >= s[1].of}
<1>3. Len(s) \in Nat /\ Len(s) >= 1 /\ s # <<>>
    BY <1>1
<1>4. 0 \in S
    BY <1>2, <1>3
<1>5. ASSUME NEW j \in 0..(Len(s) - 1), j \in S PROVE j + 1 \in S
  <2>1. CASE j + 2 <= Len(s)
    <3>1. j + 1 \in 1..(Len(s) - 1) /\ j + 2 \in 1..Len(s) /\ j + 1 \in 1..Len(s) /\ (j + 1) + 1 = j + 2
      BY <1>3, <2>1
    <3>2. Follows(c, s[j + 1], s[j + 2])
      BY <3>1 DEF Piece
    <3>3. s[j + 2].of = s[j + 1].of \/ s[j + 2].of = s[j + 1].of + 1
      BY <3>1, <3>2, <1>1 DEF Follows, Bytes
    <3>4. s[j + 1].of >= s[1].of
      BY <1>5, <3>1
    <3>5. s[j + 2].of >= s[1].of
      BY <3>1, <3>3, <3>4, <1>2, <1>3
    <3> QED BY <3>5, <3>1
  <2>2. CASE ~ (j + 2 <= Len(s))
    BY <2>2, <1>3
  <2> QED BY <2>1, <2>2
<1> HIDE DEF S
<1>6. \A j \in 0..Len(s) : j \in S
    BY <1>3, <1>4, <1>5, Upto
<1>7. i - 1 \in 0..Len(s) /\ (i - 1) + 1 = i
    BY <1>3
<1>8. s[i].of >= s[1].of
    BY <1>6, <1>7 DEF S
<1> QED BY <1>8, <1>2, <1>3 DEF Passed

\* After the p first bytes, the last packet that has passed is that of byte p.
LEMMA PassedAfter ==
    ASSUME NEW c \in Counts, NEW s, Left(c, s), NEW p \in 1..Len(s)
    PROVE  Passed(c, SubSeq(s, p + 1, Len(s))) = s[p].of
<1> DEFINE r == SubSeq(s, p + 1, Len(s))
<1>1. s \in Seq(Bytes) /\ \A j \in 1..Len(s) : s[j] \in Bytes /\ Fits(c, s[j])
    BY DEF Left, Piece
<1>2. /\ r \in Seq(Bytes)
      /\ Len(r) = Len(s) - p
      /\ \A i \in 1..(Len(s) - p) : r[i] = s[p + i]
    BY <1>1, AfterBytes
<1>3. s[p].of \in Nat
    BY <1>1 DEF Bytes
<1> HIDE DEF r
<1>4. CASE p = Len(s)
  <2>1. r = <<>> /\ s # <<>>
    BY <1>1, <1>2, <1>4
  <2> QED BY <2>1, <1>4 DEF Left, Passed, r
<1>5. CASE p < Len(s)
  <2>1. r # <<>> /\ r[1] = s[p + 1] /\ p \in 1..(Len(s) - 1) /\ p + 1 \in 1..Len(s)
    BY <1>1, <1>2, <1>5
  <2>2. Follows(c, s[p], s[p + 1])
    BY <2>1 DEF Left, Piece
  <2>3. Passed(c, r) = s[p].of
    BY <2>1, <2>2, <1>1, <1>3 DEF Passed, Follows, Bytes
  <2> QED BY <2>3 DEF r
<1> QED BY <1>1, <1>4, <1>5
-----------------------------------------------------------------------------
(* What the builder makes of a piece *)

\* The first m fields of packet k.
Part(k, m) == [i \in 1..m |-> <<k, i - 1>>]

\* A part with one more field.
LEMMA PartGrows ==
    ASSUME NEW k \in Nat, NEW m \in Nat
    PROVE  /\ Part(k, m) \in Seq(Nat \X Nat)
           /\ Len(Part(k, m)) = m
           /\ Append(Part(k, m), <<k, m>>) = Part(k, m + 1)
           /\ Part(k, 0) = <<>>
<1>1. Part(k, m) \in Seq(Nat \X Nat) /\ Len(Part(k, m)) = m
    BY DEF Part
<1>2. Part(k, m + 1) \in Seq(Nat \X Nat) /\ Len(Part(k, m + 1)) = m + 1
    BY DEF Part
<1>3. \A i \in 1..m : Part(k, m)[i] = <<k, i - 1>>
    BY DEF Part
<1>4. \A i \in 1..(m + 1) : Part(k, m + 1)[i] = <<k, i - 1>>
    BY DEF Part
<1>5. Part(k, 0) = <<>>
    BY DEF Part
<1>6. Append(Part(k, m), <<k, m>>) = Part(k, m + 1)
  <2> DEFINE p == Part(k, m)
             q == Part(k, m + 1)
             v == <<k, m>>
             F == Nat \X Nat
  <2>1. /\ p \in Seq(F) /\ Len(p) = m
        /\ q \in Seq(F) /\ Len(q) = m + 1
    BY <1>1, <1>2
  <2>2. \A i \in 1..m : p[i] = q[i]
    BY <1>3, <1>4
  <2>3. v \in F /\ v = q[m + 1]
    BY <1>4
  <2> HIDE DEF p, q, v, F
  <2>4. Append(p, v) = q
    BY <2>1, <2>2, <2>3
  <2> QED BY <2>4 DEF p, q, v
<1> QED BY <1>1, <1>5, <1>6

\* A packet is all of its parts.
LEMMA WholePart ==
    ASSUME NEW c \in Counts, NEW k \in 1..Len(c)
    PROVE  /\ Whole(c, k) = Part(k, c[k])
           /\ c[k] \in {4, 6}
           /\ Whole(c, k) \in Seq(Nat \X Nat)
           /\ Whole(c, k)[1] = <<k, 0>>
           /\ Whole(c, k)[1][1] = k
<1>1. c[k] \in {4, 6} /\ k \in Nat
    BY DEF Counts
<1>2. Whole(c, k) = Part(k, c[k])
    BY DEF Whole, Part
<1>3. Whole(c, k) \in Seq(Nat \X Nat)
  <2>1. k \in Nat /\ c[k] \in Nat
    BY <1>1
  <2> QED BY <2>1, <1>2, PartGrows
<1>4. Whole(c, k)[1] = <<k, 0>>
    BY <1>1 DEF Whole
<1> QED BY <1>1, <1>2, <1>3, <1>4

\* Packets are sequences of fields, one after the other.
LEMMA PacketsAre ==
    ASSUME NEW c \in Counts, NEW b \in Nat, NEW m \in Nat, b + m <= Len(c)
    PROVE  /\ Packets(c, b, m) \in Seq(Seq(Nat \X Nat))
           /\ Len(Packets(c, b, m)) = m
           /\ \A j \in 1..m : Packets(c, b, m)[j] = Whole(c, b + j) /\ b + j \in 1..Len(c)
<1>1. Len(c) \in Nat
    BY DEF Counts
<1>2. \A j \in 1..m : b + j \in 1..Len(c)
    BY <1>1
<1>3. \A j \in 1..m : Whole(c, b + j) \in Seq(Nat \X Nat)
    BY <1>2, WholePart
<1>4. \A j \in 1..m : Packets(c, b, m)[j] = Whole(c, b + j)
    BY DEF Packets
<1>5. Packets(c, b, m) \in Seq(Seq(Nat \X Nat)) /\ Len(Packets(c, b, m)) = m
    BY <1>3 DEF Packets
<1> QED BY <1>2, <1>4, <1>5

\* One more packet.
LEMMA PacketsGrow ==
    ASSUME NEW c \in Counts, NEW b \in Nat, NEW m \in Nat, b + m + 1 <= Len(c)
    PROVE  Append(Packets(c, b, m), Whole(c, b + m + 1)) = Packets(c, b, m + 1)
<1> DEFINE p == Packets(c, b, m)
           q == Packets(c, b, m + 1)
           w == Whole(c, b + m + 1)
           F == Seq(Nat \X Nat)
<1>1. Len(c) \in Nat
    BY DEF Counts
<1>2. /\ p \in Seq(F) /\ Len(p) = m
      /\ \A j \in 1..m : p[j] = Whole(c, b + j)
  <2>1. b + m <= Len(c)
    BY <1>1
  <2> QED BY <2>1, PacketsAre
<1>3. /\ q \in Seq(F) /\ Len(q) = m + 1
      /\ \A j \in 1..(m + 1) : q[j] = Whole(c, b + j)
  <2>1. m + 1 \in Nat /\ b + (m + 1) <= Len(c)
    BY <1>1
  <2> QED BY <2>1, PacketsAre
<1>4. w \in F /\ w = q[m + 1]
  <2>1. b + m + 1 \in 1..Len(c) /\ b + (m + 1) = b + m + 1 /\ m + 1 \in 1..(m + 1)
    BY <1>1
  <2>2. w \in F
    BY <2>1, WholePart
  <2> QED BY <2>1, <2>2, <1>3
<1> HIDE DEF p, q, w, F
<1>5. \A j \in 1..m : p[j] = q[j]
    BY <1>2, <1>3
<1>6. Append(p, w) = q
    BY <1>2, <1>3, <1>4, <1>5
<1> QED BY <1>6 DEF p, q, w

\* No packet, and the packets of two runs.
LEMMA PacketsJoin ==
    ASSUME NEW c \in Counts, NEW b \in Nat, NEW m \in Nat, b + m <= Len(c)
    PROVE  /\ Packets(c, b, 0) = <<>>
           /\ Packets(c, 0, b) \o Packets(c, b, m) = Packets(c, 0, b + m)
<1> DEFINE p == Packets(c, 0, b)
           q == Packets(c, b, m)
           r == Packets(c, 0, b + m)
           F == Seq(Nat \X Nat)
<1>1. Len(c) \in Nat
    BY DEF Counts
<1>2. /\ p \in Seq(F) /\ Len(p) = b
      /\ \A j \in 1..b : p[j] = Whole(c, j)
  <2>1. 0 + b <= Len(c)
    BY <1>1
  <2>2. /\ p \in Seq(F) /\ Len(p) = b
        /\ \A j \in 1..b : p[j] = Whole(c, 0 + j)
    BY <2>1, PacketsAre
  <2>3. \A j \in 1..b : 0 + j = j
    OBVIOUS
  <2> QED BY <2>2, <2>3
<1>3. /\ q \in Seq(F) /\ Len(q) = m
      /\ \A j \in 1..m : q[j] = Whole(c, b + j)
    BY <1>1, PacketsAre
<1>4. /\ r \in Seq(F) /\ Len(r) = b + m
      /\ \A j \in 1..(b + m) : r[j] = Whole(c, j)
  <2>1. 0 + (b + m) <= Len(c) /\ b + m \in Nat
    BY <1>1
  <2>2. /\ r \in Seq(F) /\ Len(r) = b + m
        /\ \A j \in 1..(b + m) : r[j] = Whole(c, 0 + j)
    BY <2>1, PacketsAre
  <2>3. \A j \in 1..(b + m) : 0 + j = j
    OBVIOUS
  <2> QED BY <2>2, <2>3
<1> HIDE DEF p, q, r, F
<1>5. p \o q \in Seq(F) /\ Len(p \o q) = b + m
    BY <1>2, <1>3
<1>6. ASSUME NEW j \in 1..(b + m) PROVE (p \o q)[j] = r[j]
  <2>1. CASE j <= b
    BY <2>1, <1>2, <1>3, <1>4
  <2>2. CASE j > b
    <3>1. j - b \in 1..m /\ b + (j - b) = j
      BY <2>2
    <3>2. (p \o q)[j] = q[j - b]
      BY <2>2, <3>1, <1>2, <1>3
    <3> QED BY <3>1, <3>2, <1>3, <1>4
  <2>3. j <= b \/ j > b
    OBVIOUS
  <2> QED BY <2>1, <2>2, <2>3
<1>7. p \o q = r
    BY <1>4, <1>5, <1>6, SeqEqual
<1>8. Packets(c, b, 0) = <<>>
    BY DEF Packets
<1> QED BY <1>7, <1>8 DEF p, q, r

\* The builder between two packets, and within a packet of l fields.
Idle(h) == [fields |-> <<>>, len |-> 0, valid |-> FALSE, handled |-> h]
Busy(f, l, h) == [fields |-> f, len |-> l, valid |-> TRUE, handled |-> h]

\* The builder after the first i bytes of s: the packets that began in s and have
\* ended are handled, and the one that is under way, if it began in s, is valid.
After(c, s, i) ==
    LET b == Passed(c, s)
        x == s[i]
    IN  IF i = 0 THEN Fresh
        ELSE IF x.of = b \/ Begun(x) = c[x.of] THEN Idle(Packets(c, b, x.of - b))
        ELSE Busy(Part(x.of, Begun(x)), c[x.of], Packets(c, b, x.of - b - 1))

Builders == [fields : Seq(Nat \X Nat), len : Nat, valid : BOOLEAN, handled : Seq(Seq(Nat \X Nat))]

\* A builder is its four members.
LEMMA BuilderIs ==
    ASSUME NEW a \in Builders
    PROVE  a = [fields |-> a.fields, len |-> a.len, valid |-> a.valid, handled |-> a.handled]
BY DEF Builders

\* The members of the two kinds of builders.
LEMMA IdleBusy ==
    ASSUME NEW f, NEW l, NEW h
    PROVE  /\ Idle(h).handled = h /\ Idle(h).valid = FALSE
           /\ Busy(f, l, h).handled = h /\ Busy(f, l, h).valid = TRUE
           /\ Busy(f, l, h).fields = f /\ Busy(f, l, h).len = l
BY DEF Idle, Busy

\* A fresh builder is idle.
LEMMA FreshIsIdle == Fresh = Idle(<<>>)
BY DEF Fresh, Idle

\* A head starts a packet.
LEMMA HeadStarts ==
    ASSUME NEW h \in Seq(Seq(Nat \X Nat)), NEW x, x.kind = "head", x.n \in {4, 6}
    PROVE  Item(Idle(h), x) = Busy(<<>>, x.n, h)
<1> DEFINE a == Idle(h)
           n == x.n
           t == x.n \in {4, 6}
           e == [a EXCEPT !.len = n, !.valid = t]
<1>1. Item(a, x) = e
    BY DEF Item
<1>2. a \in Builders /\ a.fields = <<>> /\ a.handled = h
    BY DEF Builders, Idle
<1>3. t = TRUE /\ t \in BOOLEAN /\ n \in Nat
    OBVIOUS
<1> HIDE DEF t, a, n
<1>4. /\ e \in Builders
      /\ e.fields = a.fields /\ e.len = n /\ e.valid = t /\ e.handled = a.handled
    BY <1>2, <1>3 DEF Builders
<1> HIDE DEF e
<1>5. e = [fields |-> e.fields, len |-> e.len, valid |-> e.valid, handled |-> e.handled]
    BY <1>4, BuilderIs
<1>6. e = Busy(<<>>, n, h)
    BY <1>2, <1>3, <1>4, <1>5 DEF Busy
<1> QED BY <1>1, <1>6 DEF a, n

\* An idle builder passes over everything else.
LEMMA IdleSkips ==
    ASSUME NEW h, NEW x, x.kind \in {"int", "bytes", "rest"}
    PROVE  Item(Idle(h), x) = Idle(h)
<1>1. Idle(h).valid = FALSE
    BY IdleBusy
<1>2. \A E : Field(Idle(h), x, E) = Idle(h)
    BY <1>1 DEF Field
<1> QED BY <1>2 DEF Item

\* The contents of a string are not looked at.
LEMMA RestSkipped ==
    ASSUME NEW a, NEW x, x.kind = "rest"
    PROVE  Item(a, x) = a
BY DEF Item

\* The packet with the fields p expects the field that x begins, and is g with it.
Expects(p, x) == \/ (x.kind = "int" /\ Len(p) \in IntFields)
                 \/ (x.kind = "bytes" /\ Len(p) \in StringFields)
Extends(p, x, g) == g = Append(p, <<x.of, x.field>>)

\* A field that is expected is taken, and the last one completes the packet.
LEMMA FieldTaken ==
    ASSUME NEW p \in Seq(Nat \X Nat), NEW l \in Nat, NEW h \in Seq(Seq(Nat \X Nat)), NEW x,
           Expects(p, x), NEW g \in Seq(Nat \X Nat), Extends(p, x, g)
    PROVE  /\ Len(g) = l => Item(Busy(p, l, h), x) = Idle(Append(h, g))
           /\ Len(g) # l => Item(Busy(p, l, h), x) = Busy(g, l, h)
<1> DEFINE a == Busy(p, l, h)
           v == <<x.of, x.field>>
<1>1. a.valid = TRUE /\ a.fields = p /\ a.len = l /\ a.handled = h
    BY DEF Busy
<1>2. a \in Builders
    BY DEF Builders, Busy
<1> HIDE DEF a
<1>3. Item(a, x) = NextField(a, v)
  <2>1. CASE x.kind = "int" /\ Len(p) \in IntFields
    <3>1. Item(a, x) = Field(a, x, IntFields)
      BY <2>1 DEF Item
    <3> QED BY <3>1, <2>1, <1>1 DEF Field
  <2>2. CASE x.kind = "bytes" /\ Len(p) \in StringFields
    <3>1. Item(a, x) = Field(a, x, StringFields)
      BY <2>2 DEF Item
    <3> QED BY <3>1, <2>2, <1>1 DEF Field
  <2> QED BY <2>1, <2>2 DEF Expects
<1> HIDE DEF v
<1>4. NextField(a, v) = IF Len(g) = l THEN [Fresh EXCEPT !.handled = Append(h, g)]
                        ELSE [a EXCEPT !.fields = g]
    BY <1>1 DEF NextField, Extends, v
<1>5. [Fresh EXCEPT !.handled = Append(h, g)] = Idle(Append(h, g))
  <2> DEFINE k == Append(h, g)
             e == [Fresh EXCEPT !.handled = k]
  <2>1. Fresh \in Builders /\ Fresh.fields = <<>> /\ Fresh.len = 0 /\ Fresh.valid = FALSE
    BY DEF Fresh, Builders
  <2>2. k \in Seq(Seq(Nat \X Nat))
    OBVIOUS
  <2> HIDE DEF k
  <2>3. /\ e \in Builders
        /\ e.fields = Fresh.fields /\ e.len = Fresh.len /\ e.valid = Fresh.valid /\ e.handled = k
    BY <2>1, <2>2 DEF Builders
  <2> HIDE DEF e
  <2>4. e = [fields |-> e.fields, len |-> e.len, valid |-> e.valid, handled |-> e.handled]
    BY <2>3, BuilderIs
  <2>5. e = Idle(k)
    BY <2>1, <2>3, <2>4 DEF Idle
  <2> QED BY <2>5 DEF e, k
<1>6. [a EXCEPT !.fields = g] = Busy(g, l, h)
  <2> DEFINE e == [a EXCEPT !.fields = g]
  <2>1. /\ e \in Builders
        /\ e.fields = g /\ e.len = a.len /\ e.valid = a.valid /\ e.handled = a.handled
    BY <1>2 DEF Builders
  <2> HIDE DEF e
  <2>2. e = [fields |-> e.fields, len |-> e.len, valid |-> e.valid, handled |-> e.handled]
    BY <2>1, BuilderIs
  <2>3. e = Busy(g, l, h)
    BY <1>1, <2>1, <2>2 DEF Busy
  <2> QED BY <2>3 DEF e
<1> QED BY <1>3, <1>4, <1>5, <1>6 DEF a

\* One more byte is one more item.
LEMMA AfterStep ==
    ASSUME NEW c \in Counts, NEW s, Piece(c, s), NEW i \in 1..Len(s), s[1].kind # "rest"
    PROVE  After(c, s, i) = Item(After(c, s, i - 1), s[i])
<1> DEFINE b == Passed(c, s)
           y == s[i]
           x == s[i - 1]
           F == Seq(Nat \X Nat)
<1>1. /\ s \in Seq(Bytes) /\ Len(s) \in Nat /\ Len(c) \in Nat
      /\ y \in Bytes /\ Fits(c, y)
    BY DEF Piece, Counts
<1>2. y.of \in 1..Len(c) /\ y.of \in Nat /\ y.field \in 0..5 /\ c[y.of] \in {4, 6}
  <2> HIDE DEF y
  <2>1. y.of \in Nat /\ y.field \in 0..5
    BY <1>1 DEF Bytes
  <2>2. y.of \in 1..Len(c)
    BY <1>1 DEF Fits
  <2>3. c[y.of] \in {4, 6}
    BY <2>2 DEF Counts
  <2> QED BY <2>1, <2>2, <2>3
<1>3. b \in Nat /\ y.of >= b
    BY InSentOrder
<1>4. Packets(c, b, 0) = <<>> /\ Part(y.of, 0) = <<>>
  <2>1. Packets(c, b, 0) = <<>>
    BY <1>1, <1>2, <1>3, PacketsJoin
  <2>2. Part(y.of, 0) = <<>>
    BY DEF Part
  <2> QED BY <2>1, <2>2
<1>5. \A m \in Nat : b + m <= Len(c) => Packets(c, b, m) \in Seq(F)
    BY <1>3, PacketsAre
<1>6. i # 0 /\ After(c, s, i) =
        IF y.of = b \/ Begun(y) = c[y.of] THEN Idle(Packets(c, b, y.of - b))
        ELSE Busy(Part(y.of, Begun(y)), c[y.of], Packets(c, b, y.of - b - 1))
    BY <1>1 DEF After
<1>7. ASSUME i = 1 PROVE After(c, s, i) = Item(After(c, s, i - 1), s[i])
  <2>1. s # <<>> /\ s[1] = y /\ i - 1 = 0
    BY <1>1, <1>7
  <2>2. After(c, s, i - 1) = Idle(<<>>)
    BY <2>1, FreshIsIdle DEF After
  <2>3. b = IF y.kind = "head" THEN y.of - 1 ELSE y.of
    BY <2>1 DEF Passed
  <2> HIDE DEF y, b
  <2>4. CASE y.kind = "head"
    <3>1. b = y.of - 1 /\ Begun(y) = 0 /\ y.n = c[y.of]
      BY <2>3, <2>4, <1>1 DEF Begun, Fits
    <3>2. y.of # b /\ y.of - b - 1 = 0 /\ Begun(y) # c[y.of]
      <4>1. Begun(y) # c[y.of]
        BY <3>1, <1>2
      <4>2. y.of # b /\ y.of - b - 1 = 0
        BY <3>1, <1>2
      <4> QED BY <4>1, <4>2
    <3>3. After(c, s, i) = Busy(<<>>, y.n, <<>>)
      BY <3>1, <3>2, <1>4, <1>6
    <3>4. <<>> \in Seq(F) /\ y.n \in {4, 6}
      BY <3>1, <1>2
    <3>5. Item(Idle(<<>>), y) = Busy(<<>>, y.n, <<>>)
      BY <3>4, <2>4, HeadStarts
    <3> QED BY <3>3, <3>5, <2>2 DEF y
  <2>5. CASE y.kind \in {"int", "bytes"}
    <3>1. b = y.of /\ y.of - b = 0
      BY <2>3, <2>5, <1>2
    <3>2. After(c, s, i) = Idle(<<>>)
      BY <3>1, <1>4, <1>6
    <3>3. Item(Idle(<<>>), y) = Idle(<<>>)
      BY <2>5, IdleSkips
    <3> QED BY <3>2, <3>3, <2>2 DEF y
  <2>6. y.kind \in {"head", "int", "bytes"}
    BY <2>1, <1>1 DEF Bytes
  <2> QED BY <2>4, <2>5, <2>6
<1>8. ASSUME i # 1 PROVE After(c, s, i) = Item(After(c, s, i - 1), s[i])
  <2>1. i - 1 \in 1..(Len(s) - 1) /\ i - 1 \in 1..Len(s) /\ (i - 1) + 1 = i /\ i - 1 # 0
    BY <1>1, <1>8
  <2>2. Follows(c, x, y) /\ Fits(c, x) /\ x \in Bytes
    BY <2>1 DEF Piece
  <2>3. x.of >= b
    BY <2>1, InSentOrder
  <2> DEFINE a == After(c, s, i - 1)
  <2>4. a = IF x.of = b \/ Begun(x) = c[x.of] THEN Idle(Packets(c, b, x.of - b))
            ELSE Busy(Part(x.of, Begun(x)), c[x.of], Packets(c, b, x.of - b - 1))
    BY <2>1 DEF After
  <2> HIDE DEF a, x, y, b
  <2>5. x.of \in 1..Len(c) /\ x.of \in Nat /\ x.field \in 0..5 /\ c[x.of] \in {4, 6}
    <3>1. x.of \in Nat /\ x.field \in 0..5
      BY <2>2 DEF Bytes
    <3>2. x.of \in 1..Len(c)
      BY <2>2 DEF Fits
    <3>3. c[x.of] \in {4, 6}
      BY <3>2 DEF Counts
    <3> QED BY <3>1, <3>2, <3>3
  <2>6. CASE y.kind = "head"
    <3> DEFINE h == Packets(c, b, x.of - b)
    <3>1. y.of = x.of + 1 /\ Begun(x) = c[x.of] /\ y.n = c[y.of] /\ Begun(y) = 0
      BY <2>2, <2>6, <1>1 DEF Follows, Fits, Begun
    <3>2. y.of # b /\ y.of - b - 1 = x.of - b /\ Begun(y) # c[y.of]
      <4>1. Begun(y) # c[y.of]
        BY <3>1, <1>2
      <4>2. y.of # b /\ y.of - b - 1 = x.of - b
        BY <3>1, <2>3, <2>5, <1>2, <1>3
      <4> QED BY <4>1, <4>2
    <3>3. a = Idle(h)
      BY <2>4, <3>1
    <3>4. After(c, s, i) = Busy(<<>>, y.n, h)
      BY <1>4, <1>6, <3>1, <3>2
    <3>5. h \in Seq(F) /\ y.n \in {4, 6}
      <4>1. x.of - b \in Nat /\ b + (x.of - b) <= Len(c)
        BY <2>3, <2>5, <1>1, <1>3
      <4>2. y.n \in {4, 6}
        BY <3>1, <1>2
      <4> QED BY <4>1, <4>2, <1>5
    <3> HIDE DEF h
    <3>6. Item(Idle(h), y) = Busy(<<>>, y.n, h)
      BY <3>5, <2>6, HeadStarts
    <3> QED BY <3>3, <3>4, <3>6 DEF a, y
  <2>7. CASE y.kind = "rest"
    <3>1. y.of = x.of /\ Begun(y) = Begun(x)
      BY <2>2, <2>7 DEF Follows
    <3>2. After(c, s, i) = a
      BY <2>4, <1>6, <3>1
    <3>3. Item(a, y) = a
      BY <2>7, RestSkipped
    <3> QED BY <3>2, <3>3 DEF a, y
  <2>8. CASE y.kind \in {"int", "bytes"}
    <3>1. y.of = x.of /\ y.field = Begun(x) /\ Begun(y) = y.field + 1
      BY <2>2, <2>8 DEF Follows, Begun
    <3>2. /\ y.field < c[y.of]
          /\ \/ (y.kind = "int" /\ y.field \in IntFields)
             \/ (y.kind = "bytes" /\ y.field \in StringFields)
      BY <2>8, <1>1 DEF Fits
    <3>3. Begun(x) # c[x.of]
      BY <3>1, <3>2, <1>2
    <3>4. CASE y.of = b
      <4>1. a = Idle(Packets(c, b, y.of - b)) /\ After(c, s, i) = Idle(Packets(c, b, y.of - b))
        BY <2>4, <1>6, <3>1, <3>4
      <4>2. Item(a, y) = a
        BY <4>1, <2>8, IdleSkips
      <4> QED BY <4>1, <4>2 DEF a, y
    <3>5. CASE y.of # b
      <4> DEFINE p == Part(y.of, y.field)
                 g == Part(y.of, Begun(y))
                 k == y.of - b - 1
                 h == Packets(c, b, k)
                 l == c[y.of]
      <4>1. a = Busy(p, l, h)
        BY <2>4, <3>1, <3>3, <3>5
      <4>2. k \in Nat /\ b + k <= Len(c) /\ b + k + 1 = y.of /\ k + 1 = y.of - b /\ b + k + 1 <= Len(c)
        <5>1. y.of > b /\ y.of <= Len(c)
          BY <3>5, <1>1, <1>2, <1>3
        <5>2. k \in Nat /\ b + k + 1 = y.of /\ k + 1 = y.of - b
          BY <5>1, <1>2, <1>3
        <5> HIDE DEF k
        <5>3. b + k <= Len(c) /\ b + k + 1 <= Len(c)
          BY <5>1, <5>2, <1>1, <1>2, <1>3
        <5> QED BY <5>2, <5>3
      <4>3. y.field \in Nat /\ Begun(y) \in Nat /\ l \in Nat
        BY <3>1, <1>2
      <4>4. p \in F /\ Len(p) = y.field /\ Append(p, <<y.of, y.field>>) = Part(y.of, y.field + 1)
        BY <4>3, <1>2, PartGrows
      <4>5. g \in F /\ Len(g) = Begun(y)
        BY <4>3, <1>2, PartGrows
      <4>6. g = Append(p, <<y.of, y.field>>)
        BY <4>4, <3>1
      <4>7. h \in Seq(F)
        BY <4>2, <1>5
      <4>8. After(c, s, i) = IF Begun(y) = l THEN Idle(Packets(c, b, y.of - b)) ELSE Busy(g, l, h)
        BY <1>6, <3>5
      <4>9. Begun(y) = l => Append(h, g) = Packets(c, b, y.of - b)
        <5> SUFFICES ASSUME Begun(y) = l PROVE Append(h, g) = Packets(c, b, y.of - b)
          OBVIOUS
        <5>1. g = Whole(c, y.of)
          BY <1>2, WholePart
        <5>2. Append(Packets(c, b, k), Whole(c, b + k + 1)) = Packets(c, b, k + 1)
          <6> HIDE DEF k
          <6> QED BY <4>2, <1>3, PacketsGrow
        <5> QED BY <5>1, <5>2, <4>2
      <4> HIDE DEF p, g, h, l, k
      <4>10. /\ Len(g) = l => Item(Busy(p, l, h), y) = Idle(Append(h, g))
             /\ Len(g) # l => Item(Busy(p, l, h), y) = Busy(g, l, h)
        <5>1. Expects(p, y) /\ Extends(p, y, g)
          BY <3>2, <4>4, <4>6 DEF Expects, Extends
        <5>2. p \in Seq(Nat \X Nat) /\ g \in Seq(Nat \X Nat) /\ h \in Seq(Seq(Nat \X Nat)) /\ l \in Nat
          BY <4>3, <4>4, <4>5, <4>7
        <5> HIDE DEF F
        <5> QED BY <5>1, <5>2, FieldTaken
      <4> QED BY <4>1, <4>5, <4>8, <4>9, <4>10 DEF a, y
    <3> QED BY <3>4, <3>5
  <2> QED BY <2>6, <2>7, <2>8, <1>1 DEF Bytes
<1> QED BY <1>7, <1>8

\* The builder run over all items of a piece.
LEMMA DecodeIs ==
    ASSUME NEW c \in Counts, NEW buf, Piece(c, Complete(buf)),
           Complete(buf) # <<>> => Complete(buf)[1].kind # "rest"
    PROVE  Decode(buf) = After(c, Complete(buf), Len(Complete(buf)))
<1> DEFINE items == Complete(buf)
           f == CHOOSE g : g = [i \in 0..Len(items) |->
                                    IF i = 0 THEN Fresh ELSE Item(g[i - 1], items[i])]
           h == [i \in 0..Len(items) |-> After(c, items, i)]
           n == Len(items)
<1>1. Decode(buf) = f[n]
    BY DEF Decode
<1>2. n \in Nat
    BY DEF Piece
<1>3. \A i \in 1..n : After(c, items, i) = Item(After(c, items, i - 1), items[i])
  <2> TAKE i \in 1..n
  <2>1. items # <<>> /\ i \in 1..Len(items)
    BY <1>2
  <2> HIDE DEF items
  <2> QED BY <2>1, AfterStep DEF items
<1>4. After(c, items, 0) = Fresh
    BY DEF After
<1> HIDE DEF items
<1>5. h = [i \in 0..Len(items) |-> IF i = 0 THEN Fresh ELSE Item(h[i - 1], items[i])]
  <2>1. \A i \in 0..n : h[i] = After(c, items, i)
    OBVIOUS
  <2>2. \A i \in 0..n : h[i] = IF i = 0 THEN Fresh ELSE Item(h[i - 1], items[i])
    <3> TAKE i \in 0..n
    <3>1. CASE i = 0
      BY <3>1, <2>1, <1>4
    <3>2. CASE i # 0
      <4>1. i \in 1..n /\ i - 1 \in 0..n
        BY <3>2, <1>2
      <4> HIDE DEF h, n
      <4> QED BY <3>2, <4>1, <2>1, <1>3
    <3> QED BY <3>1, <3>2
  <2> HIDE DEF h
  <2> QED BY <2>2 DEF h
<1>6. f = [i \in 0..Len(items) |-> IF i = 0 THEN Fresh ELSE Item(f[i - 1], items[i])]
  <2>1. \E g : g = [i \in 0..Len(items) |-> IF i = 0 THEN Fresh ELSE Item(g[i - 1], items[i])]
    BY <1>5
  <2> QED BY <2>1
<1> HIDE DEF f, h
<1>7. \A i \in 0..n : f[i] = IF i = 0 THEN Fresh ELSE Item(f[i - 1], items[i])
    BY <1>6
<1> DEFINE S == {i \in Nat : f[i] = After(c, items, i)}
<1> HIDE DEF n
<1>8. 0 \in S
    BY <1>2, <1>4, <1>7
<1>9. ASSUME NEW i \in 0..(n - 1), i \in S PROVE i + 1 \in S
  <2>1. i + 1 \in 1..n /\ i + 1 \in 0..n /\ (i + 1) - 1 = i /\ i + 1 # 0 /\ i + 1 \in Nat
    BY <1>2
  <2>2. f[i + 1] = Item(f[i], items[i + 1])
    BY <2>1, <1>7
  <2>3. After(c, items, i + 1) = Item(After(c, items, i), items[i + 1])
    BY <2>1, <1>3
  <2> QED BY <2>1, <2>2, <2>3, <1>9
<1> HIDE DEF S
<1>10. \A i \in 0..n : i \in S
    BY <1>2, <1>8, <1>9, Upto
<1>11. f[n] = After(c, items, n)
    BY <1>2, <1>10 DEF S
<1> QED BY <1>1, <1>11 DEF n, items
-----------------------------------------------------------------------------
(* What handleBuffer decodes and keeps *)

\* The complete items are the first bytes of the buffer.
LEMMA CompleteIs ==
    ASSUME NEW buf \in Seq(Bytes)
    PROVE  /\ \E m \in 0..Len(buf) : Complete(buf) = SubSeq(buf, 1, m)
           /\ (\A i \in 1..Len(buf) : buf[i].kind = "bytes" => i + buf[i].n <= Len(buf))
                => Complete(buf) = buf
<1> DEFINE cut == {i \in DOMAIN buf : buf[i].kind = "bytes" /\ i + buf[i].n > Len(buf)}
<1>1. Complete(buf) = IF cut = {} THEN buf ELSE SubSeq(buf, 1, (CHOOSE i \in cut : TRUE) - 1)
    BY DEF Complete
<1>2. DOMAIN buf = 1..Len(buf) /\ Len(buf) \in Nat
    OBVIOUS
<1>3. CASE cut = {}
  <2>1. Complete(buf) = buf
    BY <1>1, <1>3
  <2>2. buf = SubSeq(buf, 1, Len(buf))
    <3> DEFINE r == SubSeq(buf, 1, Len(buf))
    <3>1. r \in Seq(Bytes) /\ Len(r) = Len(buf) /\ \A i \in 1..Len(buf) : r[i] = buf[i]
      BY <1>2
    <3> HIDE DEF r
    <3>2. r = buf
      BY <3>1, SeqEqual
    <3> QED BY <3>2 DEF r
  <2>3. Len(buf) \in 0..Len(buf) /\ Complete(buf) = SubSeq(buf, 1, Len(buf))
    BY <2>1, <2>2, <1>2
  <2> HIDE DEF cut
  <2> QED BY <2>1, <2>3
<1>4. CASE cut # {}
  <2> DEFINE i == CHOOSE j \in cut : TRUE
  <2>1. i \in cut
    BY <1>4
  <2>2. Complete(buf) = SubSeq(buf, 1, i - 1)
    BY <1>1, <1>4
  <2> HIDE DEF i
  <2>3. i \in 1..Len(buf) /\ buf[i].kind = "bytes" /\ i + buf[i].n > Len(buf)
    BY <2>1, <1>2
  <2>4. i - 1 \in 0..Len(buf)
    BY <2>3, <1>2
  <2>5. buf[i].n \in Nat
    <3>1. buf[i] \in Bytes
      BY <2>3
    <3> QED BY <3>1 DEF Bytes
  <2>6. ~ (\A j \in 1..Len(buf) : buf[j].kind = "bytes" => j + buf[j].n <= Len(buf))
    BY <2>3, <2>5, <1>2
  <2> QED BY <2>2, <2>4, <2>6
<1> QED BY <1>3, <1>4

\* What is kept is what follows some first bytes, and all items once a packet was
\* handled.
LEMMA RemainingIs ==
    ASSUME NEW buf \in Seq(Bytes), NEW m \in 0..Len(buf), Complete(buf) = SubSeq(buf, 1, m)
    PROVE  /\ \E p \in 0..Len(buf) : /\ Remaining(buf) = SubSeq(buf, p + 1, Len(buf))
                                     /\ Decode(buf).handled # <<>> => p >= m
           /\ (Decode(buf).handled # <<>> /\ m = Len(buf)) => Remaining(buf) = <<>>
<1> DEFINE b == Decode(buf)
           total == Len(Complete(buf))
           real == IF b.handled # <<>> THEN total ELSE 0
<1>1. Len(buf) \in Nat /\ total = m
    BY FirstBytes
<1>2. Remaining(buf) = IF b.handled = <<>> /\ ~b.valid THEN buf
                       ELSE IF real < Len(buf) - total THEN SubSeq(buf, real + 1, Len(buf))
                       ELSE <<>>
    BY DEF Remaining, Kept
<1> HIDE DEF b, total
<1>3. SubSeq(buf, Len(buf) + 1, Len(buf)) = <<>>
    BY <1>1
<1>4. SubSeq(buf, 0 + 1, Len(buf)) = buf
  <2> DEFINE r == SubSeq(buf, 0 + 1, Len(buf))
  <2>1. r \in Seq(Bytes) /\ Len(r) = Len(buf) /\ \A i \in 1..Len(buf) : r[i] = buf[i]
    BY <1>1
  <2> HIDE DEF r
  <2>2. r = buf
    BY <2>1, SeqEqual
  <2> QED BY <2>2 DEF r
<1>5. CASE b.handled = <<>> /\ ~b.valid
  <2>1. Remaining(buf) = buf
    BY <1>2, <1>5
  <2> QED BY <2>1, <1>1, <1>4, <1>5 DEF b
<1>6. CASE ~ (b.handled = <<>> /\ ~b.valid)
  <2>1. CASE real < Len(buf) - total
    <3>1. Remaining(buf) = SubSeq(buf, real + 1, Len(buf))
      BY <1>2, <1>6, <2>1
    <3>2. real \in 0..Len(buf) /\ (b.handled # <<>> => real >= m) /\ (b.handled # <<>> => m # Len(buf))
      BY <1>1, <2>1
    <3> HIDE DEF real
    <3> QED BY <3>1, <3>2 DEF b
  <2>2. CASE ~ (real < Len(buf) - total)
    <3>1. Remaining(buf) = <<>>
      BY <1>2, <1>6, <2>2
    <3>2. Len(buf) \in 0..Len(buf) /\ Len(buf) >= m
      BY <1>1
    <3> QED BY <3>1, <3>2, <1>3
  <2> QED BY <2>1, <2>2
<1> QED BY <1>5, <1>6

\* The packets handled are those that began in the buffer and end in its items.
LEMMA HandledAre ==
    ASSUME NEW c \in Counts, NEW buf, Piece(c, buf), buf # <<>>, ~Misaligned(buf),
           NEW m \in 0..Len(buf), Complete(buf) = SubSeq(buf, 1, m)
    PROVE  \E q \in Nat : /\ Decode(buf).handled = Packets(c, Passed(c, buf), q)
                          /\ m = 0 => q = 0
                          /\ m > 0 => Passed(c, buf) + q <= buf[m].of
                          /\ (m > 0 /\ Begun(buf[m]) = c[buf[m].of]) => Passed(c, buf) + q = buf[m].of
<1> DEFINE items == SubSeq(buf, 1, m)
           b == Passed(c, buf)
           x == buf[m]
<1>1. buf \in Seq(Bytes) /\ Len(buf) \in Nat /\ Len(buf) >= 1 /\ Len(c) \in Nat
    BY DEF Piece, Counts
<1>2. /\ items \in Seq(Bytes) /\ Len(items) = m
      /\ \A i \in 1..m : items[i] = buf[i]
    BY <1>1, FirstBytes
<1>3. Piece(c, items)
    BY FirstIsPiece
<1>4. buf[1].kind # "rest"
    BY DEF Misaligned
<1>5. b \in Nat /\ b <= Len(c)
  <2>1. 1 \in 1..Len(buf)
    BY <1>1
  <2>2. buf[1] \in Bytes /\ Fits(c, buf[1])
    BY <2>1, <1>1 DEF Piece
  <2> QED BY <2>2, <1>1 DEF Passed, Bytes, Fits
<1>6. Packets(c, b, 0) = <<>>
    BY <1>1, <1>5, PacketsJoin
<1> HIDE DEF items, b
<1>7. Decode(buf) = After(c, items, m)
  <2>1. items # <<>> => items[1].kind # "rest"
    BY <1>2, <1>4
  <2>2. Complete(buf) = items
    BY DEF items
  <2> QED BY <2>1, <2>2, <1>2, <1>3, DecodeIs
<1>8. CASE m = 0
  <2>1. Decode(buf).handled = <<>>
    BY <1>7, <1>8 DEF After, Fresh
  <2> QED BY <2>1, <1>6, <1>8 DEF b
<1>9. CASE m # 0
  <2>1. m \in 1..Len(buf) /\ 1 \in 1..m /\ m \in 1..m
    BY <1>1, <1>9
  <2>2. items[m] = x /\ items[1] = buf[1] /\ items # <<>>
    BY <1>2, <2>1
  <2>3. Passed(c, items) = b
    BY <2>2 DEF Passed, b
  <2>4. x.of >= b /\ x.of \in Nat
    <3>1. x \in Bytes
      BY <2>1, <1>1
    <3>2. x.of >= b
      BY <2>1, InSentOrder DEF b
    <3> QED BY <3>1, <3>2 DEF Bytes
  <2>5. CASE x.of = b \/ Begun(x) = c[x.of]
    <3>1. Decode(buf).handled = Packets(c, b, x.of - b)
      <4>1. Decode(buf) = Idle(Packets(c, b, x.of - b))
        BY <1>7, <1>9, <2>2, <2>3, <2>5 DEF After
      <4> QED BY <4>1 DEF Idle
    <3>2. x.of - b \in Nat /\ b + (x.of - b) = x.of
      BY <2>4, <1>5
    <3> QED BY <3>1, <3>2, <1>9, <2>4 DEF b
  <2>6. CASE ~ (x.of = b \/ Begun(x) = c[x.of])
    <3>1. Decode(buf).handled = Packets(c, b, x.of - b - 1)
      <4>1. Decode(buf) = Busy(Part(x.of, Begun(x)), c[x.of], Packets(c, b, x.of - b - 1))
        BY <1>7, <1>9, <2>2, <2>3, <2>6 DEF After
      <4> QED BY <4>1 DEF Busy
    <3>2. x.of - b - 1 \in Nat /\ b + (x.of - b - 1) <= x.of
      BY <2>4, <2>6, <1>5
    <3> QED BY <3>1, <3>2, <1>9, <2>6 DEF b
  <2> QED BY <2>5, <2>6
<1> QED BY <1>8, <1>9
-----------------------------------------------------------------------------
(* What the client sends *)

\* A byte string: its head, then its contents.
LEMMA StringIs ==
    ASSUME NEW n \in Nat, NEW f \in 0..5, NEW k \in Nat
    PROVE  /\ StringOf(n, f, k) \in Seq(Bytes)
           /\ Len(StringOf(n, f, k)) = n + 1
           /\ StringOf(n, f, k)[1] = [kind |-> "bytes", n |-> n, of |-> k, field |-> f]
           /\ \A i \in 2..(n + 1) : StringOf(n, f, k)[i] = [kind |-> "rest", n |-> 0, of |-> k, field |-> f]
<1> DEFINE h == [kind |-> "bytes", n |-> n, of |-> k, field |-> f]
           r == [kind |-> "rest", n |-> 0, of |-> k, field |-> f]
           R == [i \in 1..n |-> r]
<1>1. h \in Bytes /\ r \in Bytes
    BY DEF Bytes
<1>2. StringOf(n, f, k) = <<h>> \o R
    BY DEF StringOf
<1> HIDE DEF h, r
<1>3. R \in Seq(Bytes) /\ Len(R) = n /\ \A i \in 1..n : R[i] = r
    BY <1>1
<1>4. <<h>> \in Seq(Bytes) /\ Len(<<h>>) = 1 /\ <<h>>[1] = h
    BY <1>1
<1> HIDE DEF R
<1> DEFINE H == <<h>>
<1> HIDE DEF H
<1>5. H \in Seq(Bytes) /\ Len(H) = 1 /\ H[1] = h
    BY <1>4 DEF H
<1>6. /\ H \o R \in Seq(Bytes)
      /\ Len(H \o R) = 1 + n
      /\ \A i \in 1..(1 + n) : (H \o R)[i] = IF i <= 1 THEN H[i] ELSE R[i - 1]
  <2>1. /\ H \o R \in Seq(Bytes) /\ Len(H \o R) = Len(H) + Len(R)
        /\ \A i \in 1..(Len(H) + Len(R)) : (H \o R)[i] =
              IF i <= Len(H) THEN H[i] ELSE R[i - Len(H)]
    BY <1>3, <1>5, ConcatProperties
  <2> QED BY <2>1, <1>3, <1>5
<1>7. \A i \in 2..(n + 1) : (H \o R)[i] = r
    BY <1>3, <1>6
<1>8. (H \o R)[1] = h
    BY <1>5, <1>6
<1> QED BY <1>2, <1>6, <1>7, <1>8 DEF H, h, r

\* The bytes of a packet, one by one.
LEMMA EncodeIs ==
    ASSUME NEW n \in {4, 6}, NEW l \in Nat, NEW k \in Nat
    PROVE  LET e == Encode(n, l, k)
           IN  /\ e \in Seq(Bytes)
               /\ Len(e) = (IF n = 6 THEN l + 8 ELSE l + 6)
               /\ e[1] = HeadOf(n, k) /\ e[2] = IntOf(0, k) /\ e[3] = IntOf(1, k)
               /\ e[4] = [kind |-> "bytes", n |-> 1, of |-> k, field |-> 2]
               /\ e[5] = [kind |-> "rest", n |-> 0, of |-> k, field |-> 2]
               /\ e[6] = [kind |-> "bytes", n |-> l, of |-> k, field |-> 3]
               /\ \A i \in 7..(l + 6) : e[i] = [kind |-> "rest", n |-> 0, of |-> k, field |-> 3]
               /\ n = 6 => e[l + 7] = IntOf(4, k) /\ e[l + 8] = IntOf(5, k)
<1> DEFINE H == <<HeadOf(n, k), IntOf(0, k), IntOf(1, k)>>
           A == StringOf(1, 2, k)
           B == StringOf(l, 3, k)
           T == IF n = 6 THEN <<IntOf(4, k), IntOf(5, k)>> ELSE <<>>
           t == IF n = 6 THEN 2 ELSE 0
<1>1. \A f \in 0..5 : IntOf(f, k) \in Bytes
    BY DEF IntOf, Bytes
<1>2. HeadOf(n, k) \in Bytes
    BY DEF HeadOf, Bytes
<1>3. /\ H \in Seq(Bytes) /\ Len(H) = 3
      /\ H[1] = HeadOf(n, k) /\ H[2] = IntOf(0, k) /\ H[3] = IntOf(1, k)
  <2> DEFINE u == HeadOf(n, k)  v == IntOf(0, k)  w == IntOf(1, k)
  <2>1. u \in Bytes /\ v \in Bytes /\ w \in Bytes
    BY <1>1, <1>2
  <2> HIDE DEF u, v, w
  <2>2. /\ <<u, v, w>> \in Seq(Bytes) /\ Len(<<u, v, w>>) = 3
        /\ <<u, v, w>>[1] = u /\ <<u, v, w>>[2] = v /\ <<u, v, w>>[3] = w
    BY <2>1
  <2> QED BY <2>2 DEF u, v, w
<1>4. /\ A \in Seq(Bytes) /\ Len(A) = 2
      /\ A[1] = [kind |-> "bytes", n |-> 1, of |-> k, field |-> 2]
      /\ A[2] = [kind |-> "rest", n |-> 0, of |-> k, field |-> 2]
  <2>1. 2 \in 0..5
    OBVIOUS
  <2>2. \A m \in Nat :
            /\ StringOf(m, 2, k) \in Seq(Bytes) /\ Len(StringOf(m, 2, k)) = m + 1
            /\ StringOf(m, 2, k)[1] = [kind |-> "bytes", n |-> m, of |-> k, field |-> 2]
            /\ \A i \in 2..(m + 1) :
                StringOf(m, 2, k)[i] = [kind |-> "rest", n |-> 0, of |-> k, field |-> 2]
    BY <2>1, StringIs
  <2>3. 1 \in Nat /\ 1 + 1 = 2 /\ 2 \in 2..(1 + 1)
    OBVIOUS
  <2>4. A \in Seq(Bytes) /\ Len(A) = 1 + 1
    BY <2>2, <2>3
  <2>5. A[1] = [kind |-> "bytes", n |-> 1, of |-> k, field |-> 2]
    BY <2>2, <2>3
  <2>6. A[2] = [kind |-> "rest", n |-> 0, of |-> k, field |-> 2]
    BY <2>2, <2>3
  <2> QED BY <2>3, <2>4, <2>5, <2>6
<1>5. /\ B \in Seq(Bytes) /\ Len(B) = l + 1
      /\ B[1] = [kind |-> "bytes", n |-> l, of |-> k, field |-> 3]
      /\ \A i \in 2..(l + 1) : B[i] = [kind |-> "rest", n |-> 0, of |-> k, field |-> 3]
  <2>1. 3 \in 0..5
    OBVIOUS
  <2> QED BY <2>1, StringIs
<1>6. /\ T \in Seq(Bytes) /\ Len(T) = t
      /\ n = 6 => T[1] = IntOf(4, k) /\ T[2] = IntOf(5, k)
  <2> DEFINE v == IntOf(4, k)  w == IntOf(5, k)
  <2>1. v \in Bytes /\ w \in Bytes
    BY <1>1
  <2> HIDE DEF v, w
  <2>2. <<v, w>> \in Seq(Bytes) /\ Len(<<v, w>>) = 2 /\ <<v, w>>[1] = v /\ <<v, w>>[2] = w
    BY <2>1
  <2>3. CASE n = 6
    BY <2>2, <2>3 DEF v, w
  <2>4. CASE n # 6
    BY <2>4
  <2> QED BY <2>3, <2>4
<1>7. Encode(n, l, k) = H \o A \o B \o T
    BY DEF Encode
<1>8. t \in Nat
    OBVIOUS
<1> DEFINE h == HeadOf(n, k)
           g(f) == IntOf(f, k)
           b1 == [kind |-> "bytes", n |-> 1, of |-> k, field |-> 2]
           r1 == [kind |-> "rest", n |-> 0, of |-> k, field |-> 2]
           b2 == [kind |-> "bytes", n |-> l, of |-> k, field |-> 3]
           r2 == [kind |-> "rest", n |-> 0, of |-> k, field |-> 3]
<1>9. /\ H[1] = h /\ H[2] = g(0) /\ H[3] = g(1)
      /\ A[1] = b1 /\ A[2] = r1
      /\ B[1] = b2 /\ \A i \in 2..(l + 1) : B[i] = r2
      /\ n = 6 => T[1] = g(4) /\ T[2] = g(5)
    BY <1>3, <1>4, <1>5, <1>6
<1> HIDE DEF H, A, B, T, h, g, b1, r1, b2, r2
<1>10. /\ H \o A \in Seq(Bytes) /\ Len(H \o A) = 5
       /\ \A i \in 1..5 : (H \o A)[i] = IF i <= 3 THEN H[i] ELSE A[i - 3]
  <2>1. /\ H \o A \in Seq(Bytes) /\ Len(H \o A) = Len(H) + Len(A)
        /\ \A i \in 1..(Len(H) + Len(A)) : (H \o A)[i] =
              IF i <= Len(H) THEN H[i] ELSE A[i - Len(H)]
    BY <1>3, <1>4, ConcatProperties
  <2> QED BY <2>1, <1>3, <1>4
<1>11. /\ (H \o A)[1] = h /\ (H \o A)[2] = g(0) /\ (H \o A)[3] = g(1)
       /\ (H \o A)[4] = b1 /\ (H \o A)[5] = r1
    BY <1>9, <1>10
<1> DEFINE P == H \o A
           Q == P \o B
           e == Q \o T
<1>12. P \in Seq(Bytes) /\ Len(P) = 5
    BY <1>10
<1> HIDE DEF P
<1>13. /\ Q \in Seq(Bytes) /\ Len(Q) = l + 6
       /\ \A i \in 1..(l + 6) : Q[i] = IF i <= 5 THEN P[i] ELSE B[i - 5]
  <2>1. /\ Q \in Seq(Bytes) /\ Len(Q) = 5 + (l + 1)
        /\ \A i \in 1..(5 + (l + 1)) : Q[i] = IF i <= 5 THEN P[i] ELSE B[i - 5]
    <3>1. /\ P \o B \in Seq(Bytes) /\ Len(P \o B) = Len(P) + Len(B)
          /\ \A i \in 1..(Len(P) + Len(B)) : (P \o B)[i] =
                IF i <= Len(P) THEN P[i] ELSE B[i - Len(P)]
      BY <1>5, <1>12, ConcatProperties
    <3> QED BY <3>1, <1>5, <1>12
  <2>2. 5 + (l + 1) = l + 6
    OBVIOUS
  <2> QED BY <2>1, <2>2
<1>14. /\ Q[1] = h /\ Q[2] = g(0) /\ Q[3] = g(1) /\ Q[4] = b1 /\ Q[5] = r1 /\ Q[6] = b2
       /\ \A i \in 7..(l + 6) : Q[i] = r2
  <2>1. Q[1] = P[1] /\ Q[2] = P[2] /\ Q[3] = P[3] /\ Q[4] = P[4] /\ Q[5] = P[5] /\ Q[6] = B[1]
    <3>1. /\ \A i \in 1..5 : i \in 1..(l + 6) /\ i <= 5
          /\ 6 \in 1..(l + 6) /\ ~ (6 <= 5) /\ 6 - 5 = 1
      OBVIOUS
    <3>2. \A i \in 1..5 : Q[i] = P[i]
      BY <3>1, <1>13
    <3>3. Q[6] = B[6 - 5]
      BY <3>1, <1>13
    <3>4. 1 \in 1..5 /\ 2 \in 1..5 /\ 3 \in 1..5 /\ 4 \in 1..5 /\ 5 \in 1..5
      OBVIOUS
    <3> HIDE DEF Q
    <3> QED BY <3>1, <3>2, <3>3, <3>4
  <2>2. ASSUME NEW i \in 7..(l + 6) PROVE Q[i] = r2
    <3>1. i \in 1..(l + 6) /\ ~ (i <= 5) /\ i - 5 \in 2..(l + 1)
      OBVIOUS
    <3>2. Q[i] = B[i - 5]
      BY <3>1, <1>13
    <3> QED BY <3>1, <3>2, <1>9
  <2> QED BY <2>1, <2>2, <1>9, <1>11 DEF P
<1> HIDE DEF Q, t
<1>15. /\ e \in Seq(Bytes) /\ Len(e) = (l + 6) + t
       /\ \A i \in 1..((l + 6) + t) : e[i] = IF i <= l + 6 THEN Q[i] ELSE T[i - (l + 6)]
  <2>1. T \in Seq(Bytes) /\ Len(T) = t
    BY <1>6
  <2>2. /\ Q \o T \in Seq(Bytes) /\ Len(Q \o T) = Len(Q) + Len(T)
        /\ \A i \in 1..(Len(Q) + Len(T)) : (Q \o T)[i] =
              IF i <= Len(Q) THEN Q[i] ELSE T[i - Len(Q)]
    BY <2>1, <1>13, ConcatProperties
  <2> QED BY <2>2, <2>1, <1>13
<1>16. \A i \in 1..(l + 6) : e[i] = Q[i]
    BY <1>15, <1>8
<1>17. n = 6 => t = 2 /\ e[l + 7] = T[1] /\ e[l + 8] = T[2]
  <2> SUFFICES ASSUME n = 6 PROVE t = 2 /\ e[l + 7] = T[1] /\ e[l + 8] = T[2]
    OBVIOUS
  <2>1. t = 2
    BY DEF t
  <2>2. /\ l + 7 \in 1..((l + 6) + t) /\ l + 8 \in 1..((l + 6) + t)
        /\ ~ (l + 7 <= l + 6) /\ ~ (l + 8 <= l + 6)
        /\ (l + 7) - (l + 6) = 1 /\ (l + 8) - (l + 6) = 2
    BY <2>1
  <2>3. e[l + 7] = T[(l + 7) - (l + 6)] /\ e[l + 8] = T[(l + 8) - (l + 6)]
    BY <2>2, <1>15
  <2> QED BY <2>1, <2>2, <2>3
<1>18. n # 6 => t = 0
    BY DEF t
<1> HIDE DEF e
<1>19. Len(e) = (IF n = 6 THEN l + 8 ELSE l + 6)
    BY <1>15, <1>17, <1>18
<1>20. /\ e[1] = h /\ e[2] = g(0) /\ e[3] = g(1) /\ e[4] = b1 /\ e[5] = r1 /\ e[6] = b2
       /\ \A i \in 7..(l + 6) : e[i] = r2
  <2>1. /\ 1 \in 1..(l + 6) /\ 2 \in 1..(l + 6) /\ 3 \in 1..(l + 6)
        /\ 4 \in 1..(l + 6) /\ 5 \in 1..(l + 6) /\ 6 \in 1..(l + 6)
        /\ \A i \in 7..(l + 6) : i \in 1..(l + 6)
    OBVIOUS
  <2> QED BY <2>1, <1>14, <1>16
<1>21. n = 6 => e[l + 7] = g(4) /\ e[l + 8] = g(5)
    BY <1>9, <1>17
<1>22. Encode(n, l, k) = e
    BY <1>7 DEF e, Q, P
<1> QED BY <1>15, <1>19, <1>20, <1>21, <1>22 DEF h, g, b1, r1, b2, r2

\* A packet's bytes are all that is left of the packets that end with it.
LEMMA EncodeIsLeft ==
    ASSUME NEW c \in Counts, NEW n \in {4, 6}, NEW l \in Nat
    PROVE  LET e == Encode(n, l, Len(c) + 1)
           IN  /\ Append(c, n) \in Counts
               /\ Left(Append(c, n), e)
               /\ e # <<>> /\ e[1].kind = "head" /\ e[1].of = Len(c) + 1
<1> DEFINE k == Len(c) + 1
           d == Append(c, n)
           e == Encode(n, l, k)
           z == Len(e)
<1>1. d \in Counts /\ Len(d) = k /\ d[k] = n /\ k \in Nat /\ k >= 1
    BY DEF Counts
<1>2. /\ e \in Seq(Bytes)
      /\ z = (IF n = 6 THEN l + 8 ELSE l + 6)
      /\ e[1] = HeadOf(n, k) /\ e[2] = IntOf(0, k) /\ e[3] = IntOf(1, k)
      /\ e[4] = [kind |-> "bytes", n |-> 1, of |-> k, field |-> 2]
      /\ e[5] = [kind |-> "rest", n |-> 0, of |-> k, field |-> 2]
      /\ e[6] = [kind |-> "bytes", n |-> l, of |-> k, field |-> 3]
      /\ \A i \in 7..(l + 6) : e[i] = [kind |-> "rest", n |-> 0, of |-> k, field |-> 3]
      /\ n = 6 => e[l + 7] = IntOf(4, k) /\ e[l + 8] = IntOf(5, k)
    BY <1>1, EncodeIs
<1> HIDE DEF k, d, e
<1>3. /\ e[1].kind = "head" /\ e[1].n = n
      /\ e[2].kind = "int" /\ e[2].field = 0
      /\ e[3].kind = "int" /\ e[3].field = 1
      /\ e[4].kind = "bytes" /\ e[4].field = 2 /\ e[4].n = 1
      /\ e[5].kind = "rest" /\ e[5].field = 2
      /\ e[6].kind = "bytes" /\ e[6].field = 3 /\ e[6].n = l
      /\ \A i \in 7..(l + 6) : e[i].kind = "rest" /\ e[i].field = 3
      /\ n = 6 => /\ e[l + 7].kind = "int" /\ e[l + 7].field = 4
                  /\ e[l + 8].kind = "int" /\ e[l + 8].field = 5
    BY <1>2 DEF HeadOf, IntOf
<1>4. /\ e[1].of = k /\ e[2].of = k /\ e[3].of = k /\ e[4].of = k /\ e[5].of = k /\ e[6].of = k
      /\ \A i \in 7..(l + 6) : e[i].of = k
      /\ n = 6 => e[l + 7].of = k /\ e[l + 8].of = k
    BY <1>2 DEF HeadOf, IntOf
<1>5. z \in Nat /\ z >= 6
    BY <1>2
<1>6. \A i \in 1..z : \/ i \in {1, 2, 3, 4, 5, 6} \/ i \in 7..(l + 6)
                      \/ (n = 6 /\ i = l + 7) \/ (n = 6 /\ i = l + 8)
    BY <1>2
<1> HIDE DEF z
<1>7. ASSUME NEW i \in 1..z PROVE e[i].of = k /\ Fits(d, e[i])
  <2>1. e[i].of = k
    BY <1>4, <1>6
  <2>2. /\ e[i].kind = "head" => e[i].n = n
        /\ e[i].kind = "int" => e[i].field \in IntFields
        /\ e[i].kind \in {"bytes", "rest"} => e[i].field \in StringFields
        /\ e[i].kind # "head" => e[i].field < n
    BY <1>3, <1>6 DEF IntFields, StringFields
  <2> QED BY <2>1, <2>2, <1>1 DEF Fits
<1>8. ASSUME NEW i \in 1..(z - 1) PROVE Follows(d, e[i], e[i + 1])
  <2>1. i \in 1..z /\ i + 1 \in 1..z /\ i + 1 # 1
    BY <1>5
  <2>2. e[i].of = k /\ e[i + 1].of = k
    BY <2>1, <1>7
  <2>3. e[i + 1].kind # "head"
    BY <2>1, <1>3, <1>6
  <2>4. CASE e[i + 1].kind = "rest"
    <3>1. i + 1 = 5 \/ i + 1 \in 7..(l + 6)
      BY <2>1, <2>4, <1>3, <1>6
    <3>2. CASE i + 1 = 5
      <4>1. i = 4
        BY <3>2
      <4> QED BY <4>1, <2>2, <1>3 DEF Follows, Begun
    <3>3. CASE i + 1 \in 7..(l + 6)
      <4>1. i = 6 \/ i \in 7..(l + 6)
        BY <3>3
      <4>2. e[i].kind # "head" /\ e[i].field = 3
        BY <4>1, <1>3
      <4>3. e[i + 1].field = 3
        BY <3>3, <1>3
      <4> QED BY <4>2, <4>3, <2>2, <2>4 DEF Follows, Begun
    <3> QED BY <3>1, <3>2, <3>3
  <2>5. CASE e[i + 1].kind # "rest"
    <3>1. \/ i \in {1, 2, 3, 5} \/ (n = 6 /\ i = l + 6) \/ (n = 6 /\ i = l + 7)
      BY <2>1, <2>5, <1>3, <1>6
    <3>2. CASE i \in {1, 2, 3, 5}
      <4>1. Begun(e[i]) = e[i + 1].field
        BY <3>2, <1>3 DEF Begun
      <4> QED BY <4>1, <2>2, <2>3, <2>5 DEF Follows
    <3>3. CASE n = 6 /\ i = l + 6
      <4>1. i = 6 \/ i \in 7..(l + 6)
        BY <3>3
      <4>2. e[i].kind # "head" /\ e[i].field = 3
        BY <4>1, <1>3
      <4>3. i + 1 = l + 7
        BY <3>3
      <4>4. e[i + 1].field = 4
        BY <4>3, <3>3, <1>3
      <4> QED BY <4>2, <4>4, <2>2, <2>3, <2>5 DEF Follows, Begun
    <3>4. CASE n = 6 /\ i = l + 7
      <4>1. i + 1 = l + 8
        BY <3>4
      <4>2. e[i + 1].field = 5 /\ e[i].field = 4 /\ e[i].kind = "int"
        BY <4>1, <3>4, <1>3
      <4> QED BY <4>2, <2>2, <2>3, <2>5 DEF Follows, Begun
    <3> QED BY <3>1, <3>2, <3>3, <3>4
  <2> QED BY <2>4, <2>5
<1>9. e[z].of = Len(d) /\ Begun(e[z]) = d[Len(d)]
  <2>1. e[z].of = k
    BY <1>5, <1>7
  <2>2. Begun(e[z]) = n
    <3>1. CASE n = 6
      <4>1. z = l + 8
        BY <3>1, <1>2 DEF z
      <4> QED BY <4>1, <3>1, <1>3 DEF Begun
    <3>2. CASE n = 4
      <4>1. z = 6 \/ z \in 7..(l + 6)
        BY <3>2, <1>2 DEF z
      <4>2. e[z].kind # "head" /\ e[z].field = 3
        BY <4>1, <1>3
      <4> QED BY <4>2, <3>2 DEF Begun
    <3> QED BY <3>1, <3>2
  <2> QED BY <2>1, <2>2, <1>1
<1>10. ASSUME NEW i \in 1..z, e[i].kind = "bytes"
       PROVE  i + e[i].n <= z /\ \A j \in (i + 1)..(i + e[i].n) : e[j].kind = "rest"
  <2>1. i = 4 \/ i = 6
    BY <1>3, <1>6, <1>10
  <2>2. CASE i = 4
    BY <2>2, <1>3, <1>5
  <2>3. CASE i = 6
    <3>1. e[i].n = l /\ 6 + l <= z
      BY <2>3, <1>2, <1>3 DEF z
    <3>2. ASSUME NEW j \in (i + 1)..(i + l) PROVE e[j].kind = "rest"
      <4>1. j \in 7..(l + 6)
        BY <2>3
      <4> QED BY <4>1, <1>3
    <3> QED BY <3>1, <3>2, <2>3
  <2> QED BY <2>1, <2>2, <2>3
<1>11. e # <<>>
    BY <1>2, <1>5 DEF z
<1>12. Left(d, e)
    BY <1>2, <1>7, <1>8, <1>9, <1>10 DEF Left, Piece, z
<1> QED BY <1>1, <1>3, <1>4, <1>11, <1>12 DEF d, e, k

\* The bytes of one packet more go on where the others end.
LEMMA Extended ==
    ASSUME NEW c \in Counts, NEW n \in {4, 6}, NEW s, Left(c, s), NEW e,
           Left(Append(c, n), e), e # <<>>, e[1].kind = "head", e[1].of = Len(c) + 1
    PROVE  /\ Left(Append(c, n), s \o e)
           /\ Passed(Append(c, n), s \o e) = Passed(c, s)
<1> DEFINE d == Append(c, n)
           a == Len(s)
           b == Len(e)
           t == s \o e
<1>1. /\ Len(c) \in Nat /\ d \in Counts /\ Len(d) = Len(c) + 1
      /\ \A k \in 1..Len(c) : d[k] = c[k] /\ k \in 1..Len(d)
    BY DEF Counts
<1>2. s \in Seq(Bytes) /\ e \in Seq(Bytes) /\ a \in Nat /\ b \in Nat /\ b >= 1
    BY DEF Left, Piece
<1>3. /\ t \in Seq(Bytes) /\ Len(t) = a + b
      /\ \A i \in 1..a : t[i] = s[i]
      /\ \A i \in 1..b : t[a + i] = e[i]
  <2>1. /\ t \in Seq(Bytes) /\ Len(t) = Len(s) + Len(e)
        /\ \A i \in 1..(Len(s) + Len(e)) : t[i] = IF i <= Len(s) THEN s[i] ELSE e[i - Len(s)]
    BY <1>2, ConcatProperties
  <2> HIDE DEF t
  <2>2. \A i \in 1..a : t[i] = s[i]
    BY <2>1, <1>2
  <2>3. ASSUME NEW i \in 1..b PROVE t[a + i] = e[i]
    <3>1. a + i \in 1..(Len(s) + Len(e)) /\ ~ (a + i <= Len(s)) /\ (a + i) - Len(s) = i
      BY <1>2
    <3> QED BY <3>1, <2>1
  <2> QED BY <2>1, <2>2, <2>3
<1>4. \A i \in 1..(a + b) : i \in 1..a \/ \E j \in 1..b : i = a + j
  <2> TAKE i \in 1..(a + b)
  <2>1. i \in 1..a \/ (i - a \in 1..b /\ i = a + (i - a))
    BY <1>2
  <2> QED BY <2>1
<1>5. \A i \in 1..a : s[i] \in Bytes /\ Fits(c, s[i]) /\ s[i].of \in 1..Len(c)
    BY <1>2 DEF Left, Piece, Fits
<1>6. \A i \in 1..a : Fits(d, s[i])
    BY <1>1, <1>5 DEF Fits
<1> HIDE DEF t, d, a, b
<1>7. ASSUME NEW i \in 1..Len(t) PROVE Fits(d, t[i])
  <2>1. CASE i \in 1..a
    BY <2>1, <1>3, <1>6
  <2>2. CASE \E j \in 1..b : i = a + j
    BY <2>2, <1>3 DEF Left, Piece, d, b
  <2> QED BY <2>1, <2>2, <1>3, <1>4
<1>8. ASSUME NEW i \in 1..(Len(t) - 1) PROVE Follows(d, t[i], t[i + 1])
  <2>1. CASE i + 1 <= a
    <3>1. i \in 1..(Len(s) - 1) /\ i \in 1..a /\ i + 1 \in 1..a
      BY <2>1, <1>2, <1>3 DEF a
    <3>2. Follows(c, s[i], s[i + 1])
      BY <3>1 DEF Left, Piece
    <3>3. d[s[i].of] = c[s[i].of]
      BY <3>1, <1>1, <1>5
    <3>4. Follows(d, s[i], s[i + 1])
      BY <3>2, <3>3 DEF Follows
    <3> QED BY <3>1, <3>4, <1>3
  <2>2. CASE i = a
    <3>1. a \in 1..a /\ s # <<>> /\ 1 \in 1..b
      BY <2>2, <1>2, <1>3 DEF a
    <3>2. t[i] = s[a] /\ t[i + 1] = e[1]
      BY <3>1, <2>2, <1>3
    <3>3. s[a].of = Len(c) /\ Begun(s[a]) = c[Len(c)]
      BY <3>1 DEF Left, a
    <3>4. d[Len(c)] = c[Len(c)]
      BY <3>1, <3>3, <1>1, <1>5
    <3> QED BY <3>2, <3>3, <3>4 DEF Follows
  <2>3. CASE i > a
    <3>1. /\ i - a \in 1..(Len(e) - 1) /\ i - a \in 1..b /\ (i - a) + 1 \in 1..b
          /\ i = a + (i - a) /\ i + 1 = a + ((i - a) + 1)
      BY <2>3, <1>2, <1>3 DEF b
    <3>2. t[i] = e[i - a] /\ t[i + 1] = e[(i - a) + 1]
      <4>1. t[a + (i - a)] = e[i - a] /\ t[a + ((i - a) + 1)] = e[(i - a) + 1]
        BY <3>1, <1>3
      <4> QED BY <4>1, <3>1
    <3>3. Follows(d, e[i - a], e[(i - a) + 1])
      BY <3>1 DEF Left, Piece, d
    <3> QED BY <3>2, <3>3
  <2>4. i + 1 <= a \/ i = a \/ i > a
    BY <1>2, <1>3
  <2> QED BY <2>1, <2>2, <2>3, <2>4
<1>9. t[Len(t)].of = Len(d) /\ Begun(t[Len(t)]) = d[Len(d)]
  <2>1. b \in 1..b
    BY <1>2
  <2>2. t[Len(t)] = e[Len(e)]
    BY <2>1, <1>3 DEF b
  <2> QED BY <2>2 DEF Left, d
<1>10. ASSUME NEW i \in 1..Len(t), t[i].kind = "bytes"
       PROVE  i + t[i].n <= Len(t) /\ \A j \in (i + 1)..(i + t[i].n) : t[j].kind = "rest"
  <2>1. CASE i \in 1..a
    <3>1. t[i] = s[i] /\ s[i].n \in Nat
      <4>1. t[i] = s[i] /\ s[i] \in Bytes
        BY <2>1, <1>3, <1>5
      <4> QED BY <4>1 DEF Bytes
    <3>2. i + s[i].n <= a /\ \A j \in (i + 1)..(i + s[i].n) : s[j].kind = "rest"
      BY <3>1, <2>1, <1>10 DEF Left, a
    <3>3. i + s[i].n <= Len(t)
      BY <3>1, <3>2, <1>2, <1>3
    <3>4. ASSUME NEW j \in (i + 1)..(i + s[i].n) PROVE t[j].kind = "rest"
      <4>1. j \in 1..a
        BY <3>1, <3>2, <1>2, <2>1
      <4> QED BY <4>1, <3>2, <1>3
    <3> QED BY <3>1, <3>3, <3>4
  <2>2. ASSUME NEW j \in 1..b, i = a + j
        PROVE  i + t[i].n <= Len(t) /\ \A g \in (i + 1)..(i + t[i].n) : t[g].kind = "rest"
    <3>1. t[i] = e[j]
      BY <2>2, <1>3
    <3>2. e[j].n \in Nat
      <4>1. e[j] \in Bytes
        BY <1>2 DEF b
      <4> QED BY <4>1 DEF Bytes
    <3>3. j + e[j].n <= b /\ \A g \in (j + 1)..(j + e[j].n) : e[g].kind = "rest"
      BY <3>1, <1>10 DEF Left, b
    <3>4. i + e[j].n <= Len(t)
      BY <3>2, <3>3, <2>2, <1>2, <1>3
    <3>5. ASSUME NEW g \in (i + 1)..(i + e[j].n) PROVE t[g].kind = "rest"
      <4>1. g - a \in 1..b /\ g - a \in (j + 1)..(j + e[j].n) /\ a + (g - a) = g
        BY <3>2, <3>3, <2>2, <1>2
      <4>2. t[a + (g - a)] = e[g - a]
        BY <4>1, <1>3
      <4> QED BY <4>1, <4>2, <3>3
    <3> QED BY <3>1, <3>4, <3>5
  <2> QED BY <2>1, <2>2, <1>3, <1>4
<1>11. Left(d, t)
    BY <1>3, <1>7, <1>8, <1>9, <1>10 DEF Left, Piece
<1>12. Passed(d, t) = Passed(c, s)
  <2>1. t # <<>>
    BY <1>2, <1>3
  <2>2. CASE s = <<>>
    <3>1. a = 0 /\ 1 \in 1..b
      BY <2>2, <1>2 DEF a
    <3>2. t[a + 1] = e[1]
      BY <3>1, <1>3
    <3>3. t[1] = e[1]
      BY <3>1, <3>2
    <3> QED BY <2>1, <2>2, <3>3, <1>1 DEF Passed
  <2>3. CASE s # <<>>
    <3>1. 1 \in 1..a
      BY <2>3, <1>2 DEF a
    <3>2. t[1] = s[1]
      BY <3>1, <1>3
    <3> QED BY <2>1, <2>3, <3>2 DEF Passed
  <2> QED BY <2>2, <2>3
<1> QED BY <1>11, <1>12 DEF d, t
-----------------------------------------------------------------------------
(* The packet stream: its inductive invariant *)

\* Packets that are whole, in order and not after packet b.
InFull(c, dl, b) ==
    /\ dl \in Seq(Seq(Nat \X Nat))
    /\ \A i \in 1..Len(dl) : \E k \in 1..Len(c) : dl[i] = Whole(c, k) /\ k <= b
    /\ \A i, j \in 1..Len(dl) : i < j => dl[i][1][1] < dl[j][1][1]

\* Until a read has begun inside a byte string, buffer and wire are the rest of what was
\* sent, and only packets before that rest were delivered; while reads end where packets
\* end, no read begins there, and all packets before the rest were delivered.
StreamInv ==
    /\ sent \in Counts
    /\ astray \in BOOLEAN
    /\ whole \in BOOLEAN
    /\ wire \in Seq(Bytes)
    /\ ~astray => /\ buffer \in Seq(Bytes)
                  /\ InFull(sent, delivered, Len(sent))
                  /\ Left(sent, buffer \o wire)
                  /\ InFull(sent, delivered, Passed(sent, buffer \o wire))
    /\ whole => /\ ~astray
                /\ buffer = <<>>
                /\ wire # <<>> => wire[1].kind = "head"
                /\ delivered = Packets(sent, 0, Passed(sent, wire))

\* The packets passed are among those that were sent.
LEMMA PassedIs ==
    ASSUME NEW c \in Counts, NEW s, Left(c, s)
    PROVE  Passed(c, s) \in Nat /\ Passed(c, s) <= Len(c)
<1>1. Len(c) \in Nat /\ s \in Seq(Bytes)
    BY DEF Counts, Left, Piece
<1>2. CASE s = <<>>
    BY <1>1, <1>2 DEF Passed
<1>3. CASE s # <<>>
  <2>1. 1 \in 1..Len(s)
    BY <1>1, <1>3
  <2>2. s[1] \in Bytes /\ Fits(c, s[1])
    BY <1>1, <2>1 DEF Left, Piece
  <2> QED BY <1>1, <1>3, <2>2 DEF Passed, Bytes, Fits
<1> QED BY <1>2, <1>3

\* The packets after packet b that are handled go after those delivered before.
LEMMA DeliverMore ==
    ASSUME NEW c \in Counts, NEW b \in Nat, NEW q \in Nat, b + q <= Len(c),
           NEW dl, InFull(c, dl, b)
    PROVE  InFull(c, dl \o Packets(c, b, q), b + q)
<1> DEFINE F == Seq(Nat \X Nat)
           P == Packets(c, b, q)
           t == dl \o P
           a == Len(dl)
<1>1. Len(c) \in Nat /\ dl \in Seq(F) /\ a \in Nat
    BY DEF InFull, Counts
<1>2. /\ P \in Seq(F) /\ Len(P) = q
      /\ \A j \in 1..q : P[j] = Whole(c, b + j) /\ b + j \in 1..Len(c)
    BY PacketsAre
<1> HIDE DEF F, P
<1>3. /\ t \in Seq(F) /\ Len(t) = Len(dl) + Len(P)
      /\ \A i \in 1..(Len(dl) + Len(P)) : t[i] = IF i <= Len(dl) THEN dl[i] ELSE P[i - Len(dl)]
    BY <1>1, <1>2, ConcatProperties
<1> HIDE DEF t
<1>4. ASSUME NEW i \in 1..a
      PROVE  \E k \in 1..Len(c) : t[i] = Whole(c, k) /\ k <= b /\ t[i][1][1] = k
  <2>1. t[i] = dl[i]
    BY <1>1, <1>2, <1>3
  <2>2. PICK k \in 1..Len(c) : dl[i] = Whole(c, k) /\ k <= b
    BY DEF InFull
  <2>3. Whole(c, k)[1][1] = k
    BY WholePart
  <2> QED BY <2>1, <2>2, <2>3
<1>5. ASSUME NEW i \in (a + 1)..(a + q)
      PROVE  i - a \in 1..q /\ t[i] = Whole(c, b + (i - a)) /\ t[i][1][1] = b + (i - a)
  <2>1. i - a \in 1..q /\ i \in 1..(Len(dl) + Len(P)) /\ ~ (i <= Len(dl))
    BY <1>1, <1>2
  <2>2. t[i] = P[i - a]
    BY <2>1, <1>3
  <2>3. P[i - a] = Whole(c, b + (i - a)) /\ b + (i - a) \in 1..Len(c)
    BY <2>1, <1>2
  <2>4. Whole(c, b + (i - a))[1][1] = b + (i - a)
    BY <2>3, WholePart
  <2> QED BY <2>1, <2>2, <2>3, <2>4
<1>6. Len(t) = a + q /\ \A i \in 1..Len(t) : i \in 1..a \/ i \in (a + 1)..(a + q)
    BY <1>1, <1>2, <1>3
<1>7. ASSUME NEW i \in 1..Len(t) PROVE \E k \in 1..Len(c) : t[i] = Whole(c, k) /\ k <= b + q
  <2>1. CASE i \in 1..a
    <3>1. PICK k \in 1..Len(c) : t[i] = Whole(c, k) /\ k <= b
      BY <2>1, <1>4
    <3>2. k <= b + q
      BY <3>1, <1>1
    <3> QED BY <3>1, <3>2
  <2>2. CASE i \in (a + 1)..(a + q)
    <3> DEFINE k == b + (i - a)
    <3>1. i - a \in 1..q /\ t[i] = Whole(c, k)
      BY <2>2, <1>5
    <3>2. k \in 1..Len(c) /\ k <= b + q
      BY <3>1, <1>1
    <3> QED BY <3>1, <3>2
  <2> QED BY <2>1, <2>2, <1>6
<1>8. ASSUME NEW i \in 1..Len(t), NEW j \in 1..Len(t), i < j PROVE t[i][1][1] < t[j][1][1]
  <2>1. CASE i \in 1..a /\ j \in 1..a
    <3>1. t[i] = dl[i] /\ t[j] = dl[j]
      BY <2>1, <1>1, <1>2, <1>3
    <3> QED BY <3>1, <2>1, <1>8 DEF InFull
  <2>2. CASE i \in 1..a /\ j \in (a + 1)..(a + q)
    <3>1. PICK k \in 1..Len(c) : k <= b /\ t[i][1][1] = k
      BY <2>2, <1>4
    <3>2. j - a \in 1..q /\ t[j][1][1] = b + (j - a)
      BY <2>2, <1>5
    <3> QED BY <3>1, <3>2
  <2>3. CASE i \in (a + 1)..(a + q) /\ j \in (a + 1)..(a + q)
    <3>1. t[i][1][1] = b + (i - a) /\ t[j][1][1] = b + (j - a)
      BY <2>3, <1>5
    <3>2. b + (i - a) < b + (j - a)
      BY <1>1, <1>8
    <3> QED BY <3>1, <3>2
  <2>4. ~ (i \in (a + 1)..(a + q) /\ j \in 1..a)
    BY <1>1, <1>8
  <2> QED BY <2>1, <2>2, <2>3, <2>4, <1>6
<1>9. InFull(c, t, b + q)
    BY <1>3, <1>7, <1>8 DEF InFull, F
<1> QED BY <1>9 DEF t, P

\* Packets that are not after b are not after a later one.
LEMMA InFullLater ==
    ASSUME NEW c \in Counts, NEW dl, NEW b \in Nat, NEW e \in Nat, b <= e, InFull(c, dl, b)
    PROVE  InFull(c, dl, e)
BY DEF InFull

\* Nor does one packet more change any.
LEMMA InFullSent ==
    ASSUME NEW c \in Counts, NEW n \in {4, 6}, NEW dl, NEW b \in Nat, InFull(c, dl, b)
    PROVE  InFull(Append(c, n), dl, b)
<1> DEFINE d == Append(c, n)
<1>1. Len(c) \in Nat /\ Len(d) = Len(c) + 1 /\ \A k \in 1..Len(c) : d[k] = c[k] /\ k \in 1..Len(d)
    BY DEF Counts
<1> HIDE DEF d
<1>2. \A k \in 1..Len(c) : Whole(d, k) = Whole(c, k)
    BY <1>1 DEF Whole
<1>3. InFull(d, dl, b)
    BY <1>1, <1>2 DEF InFull
<1> QED BY <1>3 DEF d

\* A read takes the first bytes of what is left.
LEMMA ReadTakes ==
    ASSUME NEW c \in Counts, NEW bu \in Seq(Bytes), NEW wi \in Seq(Bytes),
           NEW n \in 1..Len(wi), Left(c, bu \o wi)
    PROVE  LET s == bu \o wi
               buf == bu \o SubSeq(wi, 1, n)
               rest == SubSeq(wi, n + 1, Len(wi))
           IN  /\ s \in Seq(Bytes) /\ buf \in Seq(Bytes) /\ rest \in Seq(Bytes)
               /\ Len(buf) = Len(bu) + n /\ Len(s) = Len(bu) + Len(wi)
               /\ buf # <<>>
               /\ \A i \in 1..Len(buf) : buf[i] = s[i] /\ i \in 1..Len(s)
               /\ Piece(c, buf)
               /\ Passed(c, buf) = Passed(c, s)
               /\ \A p \in 0..Len(buf) :
                    SubSeq(buf, p + 1, Len(buf)) \o rest = SubSeq(s, p + 1, Len(s))
<1> DEFINE f == SubSeq(wi, 1, n)
           rest == SubSeq(wi, n + 1, Len(wi))
           s == bu \o wi
           buf == bu \o f
<1>1. Len(bu) \in Nat /\ Len(wi) \in Nat /\ n \in Nat /\ n >= 1 /\ n <= Len(wi)
    OBVIOUS
<1>2. f \in Seq(Bytes) /\ Len(f) = n /\ \A i \in 1..n : f[i] = wi[i]
  <2>1. n \in 0..Len(wi)
    BY <1>1
  <2> QED BY <2>1, FirstBytes
<1>3. /\ rest \in Seq(Bytes) /\ Len(rest) = Len(wi) - n
      /\ \A i \in 1..(Len(wi) - n) : rest[i] = wi[n + i]
  <2>1. n \in 0..Len(wi)
    BY <1>1
  <2> QED BY <2>1, AfterBytes
<1>4. /\ s \in Seq(Bytes) /\ Len(s) = Len(bu) + Len(wi)
      /\ \A i \in 1..(Len(bu) + Len(wi)) : s[i] = IF i <= Len(bu) THEN bu[i] ELSE wi[i - Len(bu)]
    BY ConcatProperties
<1> HIDE DEF f, rest, s
<1>5. /\ buf \in Seq(Bytes) /\ Len(buf) = Len(bu) + Len(f)
      /\ \A i \in 1..(Len(bu) + Len(f)) : buf[i] = IF i <= Len(bu) THEN bu[i] ELSE f[i - Len(bu)]
    BY <1>2, ConcatProperties
<1> HIDE DEF buf
<1>6. Len(buf) = Len(bu) + n /\ buf # <<>> /\ Len(buf) \in Nat /\ Len(buf) >= 1 /\ Len(buf) <= Len(s)
    BY <1>1, <1>2, <1>4, <1>5
<1>7. ASSUME NEW i \in 1..Len(buf) PROVE buf[i] = s[i] /\ i \in 1..Len(s)
  <2>1. i \in 1..(Len(bu) + Len(f)) /\ i \in 1..(Len(bu) + Len(wi)) /\ i \in 1..Len(s)
    BY <1>1, <1>2, <1>4, <1>6
  <2>2. CASE i <= Len(bu)
    BY <2>1, <2>2, <1>4, <1>5
  <2>3. CASE ~ (i <= Len(bu))
    <3>1. i - Len(bu) \in 1..n
      BY <2>3, <1>1, <1>6
    <3>2. buf[i] = f[i - Len(bu)] /\ s[i] = wi[i - Len(bu)]
      BY <2>1, <2>3, <1>4, <1>5
    <3> QED BY <2>1, <3>1, <3>2, <1>2
  <2> QED BY <2>2, <2>3
<1>8. buf = SubSeq(s, 1, Len(buf))
  <2> DEFINE r == SubSeq(s, 1, Len(buf))
  <2>1. r \in Seq(Bytes) /\ Len(r) = Len(buf) /\ \A i \in 1..Len(buf) : r[i] = s[i]
    <3>1. Len(buf) \in 0..Len(s)
      BY <1>6
    <3> QED BY <3>1, <1>4, FirstBytes
  <2> HIDE DEF r
  <2>2. \A i \in 1..Len(buf) : buf[i] = r[i]
    BY <2>1, <1>7
  <2>3. buf = r
    BY <2>1, <2>2, <1>5, SeqEqual
  <2> QED BY <2>3 DEF r
<1>9. Piece(c, buf)
  <2>1. Len(buf) \in 0..Len(s) /\ Piece(c, s)
    BY <1>6 DEF Left, s
  <2>2. Piece(c, SubSeq(s, 1, Len(buf)))
    BY <2>1, FirstIsPiece
  <2> QED BY <2>2, <1>8
<1>10. Passed(c, buf) = Passed(c, s)
  <2>1. 1 \in 1..Len(buf) /\ s # <<>>
    BY <1>4, <1>6
  <2>2. buf[1] = s[1]
    BY <2>1, <1>7
  <2> QED BY <2>1, <2>2, <1>6 DEF Passed
<1>11. ASSUME NEW p \in 0..Len(buf)
       PROVE  SubSeq(buf, p + 1, Len(buf)) \o rest = SubSeq(s, p + 1, Len(s))
  <2> DEFINE u == SubSeq(buf, p + 1, Len(buf))
             v == SubSeq(s, p + 1, Len(s))
             x == u \o rest
  <2>1. /\ u \in Seq(Bytes) /\ Len(u) = Len(buf) - p
        /\ \A i \in 1..(Len(buf) - p) : u[i] = buf[p + i]
    BY <1>5, AfterBytes
  <2>2. /\ v \in Seq(Bytes) /\ Len(v) = Len(s) - p
        /\ \A i \in 1..(Len(s) - p) : v[i] = s[p + i]
    <3>1. p \in 0..Len(s)
      BY <1>4, <1>6
    <3> QED BY <3>1, <1>4, AfterBytes
  <2> HIDE DEF u, v
  <2>3. /\ x \in Seq(Bytes) /\ Len(x) = Len(u) + Len(rest)
        /\ \A i \in 1..(Len(u) + Len(rest)) : x[i] = IF i <= Len(u) THEN u[i] ELSE rest[i - Len(u)]
    BY <2>1, <1>3, ConcatProperties
  <2> HIDE DEF x
  <2>4. Len(x) = Len(v) /\ Len(u) \in Nat /\ Len(rest) \in Nat
    BY <2>1, <2>2, <2>3, <1>1, <1>3, <1>4, <1>6
  <2>5. ASSUME NEW i \in 1..Len(x) PROVE x[i] = v[i]
    <3>1. /\ i \in 1..(Len(u) + Len(rest)) /\ i \in 1..(Len(s) - p)
      BY <2>2, <2>3, <2>4
    <3>2. v[i] = s[p + i]
      BY <3>1, <2>2
    <3>3. CASE i <= Len(u)
      <4>1. i \in 1..(Len(buf) - p) /\ p + i \in 1..Len(buf)
        BY <3>1, <3>3, <2>1, <1>6
      <4>2. x[i] = u[i] /\ u[i] = buf[p + i] /\ buf[p + i] = s[p + i]
        BY <3>1, <3>3, <4>1, <2>1, <2>3, <1>7
      <4> QED BY <3>2, <4>2
    <3>4. CASE ~ (i <= Len(u))
      <4> DEFINE j == i - Len(u)
      <4>1. /\ j \in 1..(Len(wi) - n) /\ p + i \in 1..(Len(bu) + Len(wi))
            /\ ~ (p + i <= Len(bu)) /\ (p + i) - Len(bu) = n + j
        <5>1. /\ Len(u) = (Len(bu) + n) - p /\ Len(rest) = Len(wi) - n
              /\ p \in Nat /\ p <= Len(bu) + n
          BY <2>1, <1>3, <1>6
        <5>2. i \in Nat /\ i > Len(u) /\ i <= Len(u) + Len(rest)
          BY <3>1, <3>4, <2>4
        <5> QED BY <5>1, <5>2, <1>1
      <4>2. x[i] = rest[j]
        BY <3>1, <3>4, <2>3
      <4>3. rest[j] = wi[n + j]
        BY <4>1, <1>3
      <4>4. s[p + i] = wi[(p + i) - Len(bu)]
        BY <4>1, <1>4
      <4>5. (p + i) - Len(bu) = n + j
        BY <4>1
      <4> QED BY <3>2, <4>2, <4>3, <4>4, <4>5
    <3> QED BY <3>3, <3>4
  <2>6. x = v
    BY <2>2, <2>3, <2>4, <2>5, SeqEqual
  <2> QED BY <2>6 DEF x, u, v
<1> QED BY <1>3, <1>4, <1>5, <1>6, <1>7, <1>9, <1>10, <1>11 DEF s, buf, rest, f
-----------------------------------------------------------------------------
(* The packet stream: its steps *)

\* A read, whatever it brings, delivers packets before what is then left.
LEMMA ReadKeeps ==
    ASSUME NEW c \in Counts, NEW bu \in Seq(Bytes), NEW wi \in Seq(Bytes), NEW n \in 1..Len(wi),
           NEW dl, Left(c, bu \o wi), InFull(c, dl, Passed(c, bu \o wi)),
           ~Misaligned(bu \o SubSeq(wi, 1, n))
    PROVE  LET buf == bu \o SubSeq(wi, 1, n)
               left == Remaining(buf) \o SubSeq(wi, n + 1, Len(wi))
           IN  /\ Remaining(buf) \in Seq(Bytes)
               /\ Left(c, left)
               /\ InFull(c, dl \o Decode(buf).handled, Passed(c, left))
<1> DEFINE s == bu \o wi
           buf == bu \o SubSeq(wi, 1, n)
           rest == SubSeq(wi, n + 1, Len(wi))
           b == Passed(c, s)
           left == Remaining(buf) \o rest
<1>1. /\ s \in Seq(Bytes) /\ buf \in Seq(Bytes) /\ rest \in Seq(Bytes)
      /\ Len(buf) = Len(bu) + n /\ Len(s) = Len(bu) + Len(wi)
      /\ buf # <<>>
      /\ \A i \in 1..Len(buf) : buf[i] = s[i] /\ i \in 1..Len(s)
      /\ Piece(c, buf)
      /\ Passed(c, buf) = b
      /\ \A p \in 0..Len(buf) : SubSeq(buf, p + 1, Len(buf)) \o rest = SubSeq(s, p + 1, Len(s))
    BY ReadTakes, ZenonT(30)
<1>2. Left(c, s) /\ InFull(c, dl, b) /\ ~Misaligned(buf)
    OBVIOUS
<1> HIDE DEF s, buf, rest, b
<1>3. Len(c) \in Nat /\ b \in Nat /\ b <= Len(c) /\ Len(buf) \in Nat /\ Len(s) \in Nat /\ Len(buf) <= Len(s)
  <2>1. b \in Nat /\ b <= Len(c)
    BY <1>2, PassedIs DEF b
  <2>2. Len(c) \in Nat
    BY DEF Counts
  <2> QED BY <2>1, <2>2, <1>1
<1>4. PICK m \in 0..Len(buf) : Complete(buf) = SubSeq(buf, 1, m)
    BY <1>1, CompleteIs
<1>5. PICK p \in 0..Len(buf) : /\ Remaining(buf) = SubSeq(buf, p + 1, Len(buf))
                               /\ Decode(buf).handled # <<>> => p >= m
    BY <1>1, <1>4, RemainingIs
<1>6. PICK q \in Nat : /\ Decode(buf).handled = Packets(c, Passed(c, buf), q)
                       /\ m = 0 => q = 0
                       /\ m > 0 => Passed(c, buf) + q <= buf[m].of
    BY <1>1, <1>2, <1>4, HandledAre
<1>7. Decode(buf).handled = Packets(c, b, q) /\ (m > 0 => b + q <= buf[m].of)
    BY <1>1, <1>6
<1>8. left = SubSeq(s, p + 1, Len(s))
    BY <1>1, <1>5
<1>9. Remaining(buf) \in Seq(Bytes)
    BY <1>1, <1>5, AfterBytes
<1> HIDE DEF left
<1>10. Left(c, left) /\ Passed(c, left) \in Nat /\ Passed(c, left) <= Len(c)
  <2>1. p \in 0..Len(s)
    BY <1>3
  <2>2. Left(c, left)
    BY <2>1, <1>2, <1>8, RestIsLeft
  <2> QED BY <2>2, PassedIs
<1>11. b <= Passed(c, left)
  <2>1. CASE p = 0
    <3>1. SubSeq(s, p + 1, Len(s)) = s
      <4>1. s \in Seq(Bytes) /\ p + 1 = 1
        BY <2>1, <1>1
      <4>2. SubSeq(s, 1, Len(s)) = s
        BY <4>1, SubSeqFull, Zenon
      <4> QED BY <4>1, <4>2
    <3>2. left = s
      BY <3>1, <1>8
    <3>3. Passed(c, left) = b
      BY <3>2 DEF b
    <3> QED BY <3>3, <1>3
  <2>2. CASE p # 0
    <3>1. p \in 1..Len(s) /\ Piece(c, s)
      BY <2>2, <1>2, <1>3 DEF Left
    <3>2. Passed(c, left) = s[p].of
      BY <3>1, <1>2, <1>8, PassedAfter
    <3>3. s[p].of >= b
      BY <3>1, InSentOrder DEF b
    <3>4. s[p].of \in Nat
      BY <3>2, <1>10
    <3> QED BY <3>2, <3>3, <3>4, <1>3
  <2> QED BY <2>1, <2>2
<1>12. b + q <= Passed(c, left)
  <2>1. CASE q = 0
    BY <2>1, <1>3, <1>11
  <2>2. CASE q # 0
    <3>1. m # 0 /\ m > 0 /\ m \in 1..Len(buf) /\ m \in 1..Len(s)
      BY <2>2, <1>3, <1>6
    <3>2. buf[m].of = s[m].of /\ b + q <= s[m].of
      BY <3>1, <1>1, <1>7
    <3>3. s[m] \in Bytes /\ Fits(c, s[m])
      BY <3>1, <1>1, <1>2 DEF Left, Piece
    <3>4. s[m].of \in Nat /\ s[m].of <= Len(c)
      BY <3>3, <1>3 DEF Bytes, Fits
    <3>5. Decode(buf).handled # <<>>
      <4>1. b + q <= Len(c)
        BY <3>2, <3>4, <1>3
      <4>2. Len(Packets(c, b, q)) = q
        BY <4>1, <1>3, PacketsAre
      <4>3. Len(<<>>) = 0
        OBVIOUS
      <4> QED BY <4>2, <4>3, <2>2, <1>7
    <3>6. p >= m /\ p \in 1..Len(s)
      BY <3>1, <3>5, <1>3, <1>5
    <3>7. Passed(c, left) = s[p].of
      BY <3>6, <1>2, <1>8, PassedAfter
    <3>8. s[p].of >= s[m].of
      <4> DEFINE r == SubSeq(s, m + 1, Len(s))
      <4>1. CASE p = m
        BY <4>1, <3>4
      <4>2. CASE p # m
        <5>1. m \in 0..Len(s) /\ p - m \in 1..(Len(s) - m) /\ m + (p - m) = p
          BY <4>2, <3>1, <3>6, <1>3
        <5>2. Len(r) = Len(s) - m /\ \A i \in 1..(Len(s) - m) : r[i] = s[m + i]
          BY <5>1, <1>1, AfterBytes
        <5>3. Left(c, r) /\ Passed(c, r) = s[m].of
          BY <3>1, <5>1, <1>2, RestIsLeft, PassedAfter
        <5> HIDE DEF r
        <5>4. Piece(c, r) /\ p - m \in 1..Len(r)
          BY <5>1, <5>2, <5>3 DEF Left
        <5>5. r[p - m].of >= Passed(c, r)
          BY <5>4, InSentOrder
        <5>6. r[p - m] = s[p]
          BY <5>1, <5>2
        <5> QED BY <5>3, <5>5, <5>6
      <4> QED BY <4>1, <4>2
    <3>9. s[p].of \in Nat
      BY <3>7, <1>10
    <3> QED BY <3>2, <3>4, <3>7, <3>8, <3>9, <1>3
  <2> QED BY <2>1, <2>2
<1>13. InFull(c, dl \o Packets(c, b, q), b + q)
  <2>1. b + q <= Len(c)
    BY <1>3, <1>10, <1>12
  <2> QED BY <2>1, <1>2, <1>3, DeliverMore
<1>14. InFull(c, dl \o Decode(buf).handled, Passed(c, left))
  <2>1. b + q \in Nat
    BY <1>3
  <2> QED BY <2>1, <1>7, <1>10, <1>12, <1>13, InFullLater
<1> QED BY <1>9, <1>10, <1>14 DEF left, buf, rest

\* A read that ends where a packet ends brings whole packets: all are handled, and
\* nothing is kept.
LEMMA WholeRead ==
    ASSUME NEW c \in Counts, NEW wi \in Seq(Bytes), NEW n \in 1..Len(wi), Left(c, wi),
           wi[1].kind = "head", n < Len(wi) => wi[n + 1].kind = "head"
    PROVE  LET buf == SubSeq(wi, 1, n)
               rest == SubSeq(wi, n + 1, Len(wi))
           IN  /\ ~Misaligned(buf)
               /\ Remaining(buf) = <<>>
               /\ Packets(c, 0, Passed(c, wi)) \o Decode(buf).handled = Packets(c, 0, Passed(c, rest))
               /\ rest # <<>> => rest[1].kind = "head"
<1> DEFINE buf == SubSeq(wi, 1, n)
           rest == SubSeq(wi, n + 1, Len(wi))
           b == Passed(c, wi)
<1>1. /\ Len(wi) \in Nat /\ n \in Nat /\ n >= 1 /\ n <= Len(wi) /\ n \in 0..Len(wi)
      /\ Len(c) \in Nat /\ Piece(c, wi) /\ wi # <<>>
    BY DEF Counts, Left
<1>2. buf \in Seq(Bytes) /\ Len(buf) = n /\ \A i \in 1..n : buf[i] = wi[i]
    BY <1>1, FirstBytes
<1>3. /\ rest \in Seq(Bytes) /\ Len(rest) = Len(wi) - n
      /\ \A i \in 1..(Len(wi) - n) : rest[i] = wi[n + i]
    BY <1>1, AfterBytes
<1>4. Piece(c, buf)
    BY <1>1, FirstIsPiece
<1>5. Passed(c, rest) = wi[n].of
    BY PassedAfter
<1>6. \A i \in 1..Len(wi) : wi[i] \in Bytes /\ Fits(c, wi[i])
    BY DEF Left, Piece
<1>7. wi[n].of \in Nat /\ wi[n].of <= Len(c) /\ wi[1].of \in Nat /\ wi[1].of >= 1
  <2>1. 1 \in 1..Len(wi) /\ n \in 1..Len(wi)
    BY <1>1
  <2>2. /\ wi[1] \in Bytes /\ Fits(c, wi[1])
        /\ wi[n] \in Bytes /\ Fits(c, wi[n])
    BY <2>1, <1>6
  <2> QED BY <2>2, <1>1 DEF Bytes, Fits
<1> HIDE DEF buf, rest
<1>8. buf # <<>> /\ buf[1] = wi[1] /\ ~Misaligned(buf)
  <2>1. 1 \in 1..n
    BY <1>1
  <2>2. buf # <<>> /\ buf[1] = wi[1]
    BY <2>1, <1>1, <1>2
  <2> QED BY <2>2 DEF Misaligned
<1>9. rest # <<>> => rest[1].kind = "head"
  <2> SUFFICES ASSUME rest # <<>> PROVE rest[1].kind = "head"
    OBVIOUS
  <2>1. n < Len(wi) /\ 1 \in 1..(Len(wi) - n)
    BY <1>1, <1>3
  <2> QED BY <2>1, <1>3
<1>10. Complete(buf) = buf
  <2>1. ASSUME NEW i \in 1..Len(buf), buf[i].kind = "bytes" PROVE i + buf[i].n <= Len(buf)
    <3>1. i \in 1..n /\ i \in 1..Len(wi) /\ buf[i] = wi[i]
      BY <1>1, <1>2
    <3>2. wi[i].n \in Nat
      BY <3>1, <1>6 DEF Bytes
    <3>3. i + wi[i].n <= Len(wi) /\ \A j \in (i + 1)..(i + wi[i].n) : wi[j].kind = "rest"
      BY <3>1, <2>1 DEF Left
    <3>4. CASE i + wi[i].n <= n
      BY <3>1, <3>4, <1>2
    <3>5. CASE ~ (i + wi[i].n <= n)
      <4>1. n + 1 \in (i + 1)..(i + wi[i].n) /\ n < Len(wi)
        BY <3>1, <3>2, <3>3, <3>5, <1>1
      <4>2. wi[n + 1].kind = "rest" /\ wi[n + 1].kind = "head"
        BY <4>1, <3>3
      <4> QED BY <4>2
    <3> QED BY <3>4, <3>5
  <2> QED BY <2>1, <1>2, CompleteIs
<1>11. buf = SubSeq(buf, 1, n)
  <2> DEFINE r == SubSeq(buf, 1, n)
  <2>1. n \in 0..Len(buf)
    BY <1>1, <1>2
  <2>2. r \in Seq(Bytes) /\ Len(r) = n /\ \A i \in 1..n : r[i] = buf[i]
    BY <2>1, <1>2, FirstBytes
  <2> HIDE DEF r
  <2>3. r = buf
    BY <2>2, <1>2, SeqEqual
  <2> QED BY <2>3 DEF r
<1>12. Begun(wi[n]) = c[wi[n].of]
  <2>1. CASE n = Len(wi)
    BY <2>1, <1>1 DEF Left
  <2>2. CASE n # Len(wi)
    <3>1. n \in 1..(Len(wi) - 1) /\ n < Len(wi)
      BY <2>2, <1>1
    <3>2. Follows(c, wi[n], wi[n + 1]) /\ wi[n + 1].kind = "head"
      BY <3>1, <1>1 DEF Piece
    <3> QED BY <3>2 DEF Follows
  <2> QED BY <2>1, <2>2
<1>13. Passed(c, buf) = b /\ b = wi[1].of - 1
    BY <1>1, <1>8 DEF Passed
<1>14. b \in Nat
    BY <1>7, <1>13
<1> HIDE DEF b
<1>15. PICK q \in Nat : Decode(buf).handled = Packets(c, b, q) /\ b + q = wi[n].of
  <2>1. n \in 0..Len(buf) /\ n > 0 /\ n \in 1..n /\ Complete(buf) = SubSeq(buf, 1, n)
    BY <1>1, <1>2, <1>10, <1>11
  <2>2. buf[n] = wi[n]
    BY <2>1, <1>2
  <2>3. PICK q \in Nat :
            /\ Decode(buf).handled = Packets(c, Passed(c, buf), q)
            /\ n = 0 => q = 0
            /\ n > 0 => Passed(c, buf) + q <= buf[n].of
            /\ (n > 0 /\ Begun(buf[n]) = c[buf[n].of]) => Passed(c, buf) + q = buf[n].of
    BY <2>1, <1>4, <1>8, HandledAre
  <2> QED BY <2>1, <2>2, <2>3, <1>12, <1>13
<1>16. Decode(buf).handled # <<>>
  <2>1. wi[n].of >= wi[1].of
    BY <1>1, InSentOrder
  <2>2. q # 0 /\ b + q <= Len(c)
    BY <2>1, <1>7, <1>13, <1>14, <1>15
  <2>3. Len(Packets(c, b, q)) = q
    BY <2>2, <1>14, PacketsAre
  <2>4. Len(<<>>) = 0
    OBVIOUS
  <2> QED BY <2>2, <2>3, <2>4, <1>15
<1>17. Remaining(buf) = <<>>
  <2>1. n \in 0..Len(buf) /\ Complete(buf) = SubSeq(buf, 1, n) /\ n = Len(buf)
    BY <1>1, <1>2, <1>10, <1>11
  <2> QED BY <2>1, <1>2, <1>16, RemainingIs
<1>18. Packets(c, 0, b) \o Decode(buf).handled = Packets(c, 0, Passed(c, rest))
  <2>1. b + q <= Len(c)
    BY <1>7, <1>15
  <2>2. Packets(c, 0, b) \o Packets(c, b, q) = Packets(c, 0, b + q)
    BY <2>1, <1>14, PacketsJoin
  <2> QED BY <2>2, <1>5, <1>15
<1> QED BY <1>8, <1>9, <1>17, <1>18 DEF buf, rest, b

\* Sending a packet keeps the invariant.
LEMMA SendPacketKeeps ==
    ASSUME StreamInv, NEW n \in {4, 6}, NEW l \in DataLengths, SendPacket(n, l)
    PROVE  StreamInv'
<1> DEFINE e == Encode(n, l, Len(sent) + 1)
           d == Append(sent, n)
           s == buffer \o wire
<1>1. /\ sent \in Counts /\ Len(sent) \in Nat /\ l \in Nat
      /\ wire \in Seq(Bytes) /\ (~astray => buffer \in Seq(Bytes))
    BY DataLengthsAreNats DEF StreamInv, Counts
<1>2. /\ sent' = d /\ wire' = wire \o e
      /\ buffer' = buffer /\ delivered' = delivered /\ astray' = astray /\ whole' = whole
    BY DEF SendPacket
<1>3. d \in Counts /\ Left(d, e) /\ e # <<>> /\ e[1].kind = "head" /\ e[1].of = Len(sent) + 1
    BY <1>1, EncodeIsLeft
<1>4. Len(d) = Len(sent) + 1 /\ e \in Seq(Bytes)
    BY <1>1, <1>3 DEF Counts, Left, Piece
<1> HIDE DEF e, d
<1>5. ASSUME ~astray
      PROVE  InFull(d, delivered, Len(d))
  <2>1. InFull(sent, delivered, Len(sent))
    BY <1>5 DEF StreamInv
  <2>2. InFull(d, delivered, Len(sent))
    BY <2>1, <1>1, InFullSent DEF d
  <2> QED BY <2>2, <1>1, <1>3, <1>4, InFullLater
<1>6. wire \o e \in Seq(Bytes)
    BY <1>1, <1>4
<1>7. ASSUME ~astray
      PROVE  /\ Left(d, buffer \o (wire \o e))
             /\ InFull(d, delivered, Passed(d, buffer \o (wire \o e)))
             /\ Passed(d, buffer \o (wire \o e)) = Passed(sent, s)
             /\ Passed(sent, s) \in Nat /\ Passed(sent, s) <= Len(sent)
  <2>1. Left(sent, s) /\ InFull(sent, delivered, Passed(sent, s))
    BY <1>7 DEF StreamInv
  <2>2. buffer \o (wire \o e) = s \o e
    <3>1. buffer \in Seq(Bytes) /\ wire \in Seq(Bytes) /\ e \in Seq(Bytes)
      BY <1>1, <1>4, <1>7
    <3>2. (buffer \o wire) \o e = buffer \o (wire \o e)
      BY <3>1, SMTT(60)
    <3> QED BY <3>2
  <2> HIDE DEF s
  <2>3. Left(d, s \o e) /\ Passed(d, s \o e) = Passed(sent, s)
    BY <2>1, <1>1, <1>3, Extended DEF d
  <2>4. Passed(sent, s) \in Nat /\ Passed(sent, s) <= Len(sent)
    BY <2>1, <1>1, PassedIs
  <2>5. InFull(d, delivered, Passed(sent, s))
    BY <2>1, <2>4, <1>1, InFullSent DEF d
  <2> QED BY <2>2, <2>3, <2>4, <2>5
<1>8. ASSUME whole
      PROVE  /\ ~astray /\ buffer = <<>>
             /\ (wire \o e)[1].kind = "head"
             /\ delivered = Packets(d, 0, Passed(d, wire \o e))
  <2>1. /\ ~astray /\ buffer = <<>> /\ (wire # <<>> => wire[1].kind = "head")
        /\ delivered = Packets(sent, 0, Passed(sent, wire))
    BY <1>8 DEF StreamInv
  <2>2. s = wire /\ buffer \o (wire \o e) = wire \o e
    BY <2>1, <1>1, <1>6
  <2>3. /\ Passed(d, wire \o e) = Passed(sent, wire)
        /\ Passed(sent, wire) \in Nat /\ Passed(sent, wire) <= Len(sent)
    BY <2>1, <2>2, <1>7
  <2>4. \A k \in 1..Len(sent) : d[k] = sent[k]
    BY <1>1 DEF d, Counts
  <2>5. ASSUME NEW j \in 1..Passed(sent, wire) PROVE Whole(d, 0 + j) = Whole(sent, 0 + j)
    <3>1. 0 + j \in 1..Len(sent)
      BY <2>3, <1>1
    <3> QED BY <3>1, <2>4 DEF Whole
  <2>6. Packets(d, 0, Passed(sent, wire)) = Packets(sent, 0, Passed(sent, wire))
    BY <2>5 DEF Packets
  <2>7. (wire \o e)[1].kind = "head"
    <3>1. CASE wire = <<>>
      <4>1. wire \o e = e
        BY <3>1, <1>4
      <4> QED BY <4>1, <1>3
    <3>2. CASE wire # <<>>
      <4>1. (wire \o e)[1] = wire[1]
        BY <3>2, <1>1, <1>4
      <4> QED BY <3>2, <4>1, <2>1
    <3> QED BY <3>1, <3>2
  <2> QED BY <2>1, <2>3, <2>6, <2>7
<1> QED BY <1>1, <1>2, <1>3, <1>5, <1>6, <1>7, <1>8 DEF StreamInv

\* A read keeps the invariant.
LEMMA ReadStreamKeeps ==
    ASSUME StreamInv, NEW n \in 1..Len(wire), Read(n)
    PROVE  StreamInv'
<1> DEFINE buf == buffer \o SubSeq(wire, 1, n)
           rest == SubSeq(wire, n + 1, Len(wire))
           s == buffer \o wire
<1>1. /\ sent \in Counts /\ Len(sent) \in Nat /\ whole \in BOOLEAN
      /\ wire \in Seq(Bytes) /\ Len(wire) \in Nat /\ astray \in BOOLEAN
    BY DEF StreamInv, Counts
<1>2. /\ wire' = rest /\ sent' = sent
      /\ whole' = (whole /\ (n < Len(wire) => wire[n + 1].kind = "head"))
    BY DEF Read
<1>3. /\ astray' = (astray \/ Misaligned(buf))
      /\ ~Misaligned(buf) => /\ delivered' = delivered \o Decode(buf).handled
                             /\ buffer' = Remaining(buf)
    BY DEF Read, DecodeItems
<1>4. ~astray => /\ buffer \in Seq(Bytes) /\ Left(sent, s)
                 /\ InFull(sent, delivered, Passed(sent, s))
                 /\ InFull(sent, delivered, Len(sent))
    BY DEF StreamInv
<1>5. rest \in Seq(Bytes) /\ whole' \in BOOLEAN
  <2>1. n \in 0..Len(wire)
    BY <1>1
  <2>2. rest \in Seq(Bytes)
    BY <2>1, <1>1, AfterBytes
  <2> QED BY <2>2, <1>2
<1>6. ASSUME whole'
      PROVE  /\ ~Misaligned(buf) /\ ~astray
             /\ Remaining(buf) = <<>>
             /\ delivered \o Decode(buf).handled = Packets(sent, 0, Passed(sent, rest))
             /\ rest # <<>> => rest[1].kind = "head"
  <2>1. whole /\ (n < Len(wire) => wire[n + 1].kind = "head")
    BY <1>2, <1>6
  <2>2. /\ ~astray /\ buffer = <<>> /\ (wire # <<>> => wire[1].kind = "head")
        /\ delivered = Packets(sent, 0, Passed(sent, wire))
    BY <2>1 DEF StreamInv
  <2>3. s = wire /\ wire # <<>>
    BY <2>2, <1>1
  <2>4. SubSeq(wire, 1, n) \in Seq(Bytes)
    <3>1. n \in 0..Len(wire)
      BY <1>1
    <3> QED BY <3>1, <1>1, FirstBytes
  <2>5. buf = SubSeq(wire, 1, n)
    BY <2>2, <2>4
  <2>6. /\ ~Misaligned(SubSeq(wire, 1, n))
        /\ Remaining(SubSeq(wire, 1, n)) = <<>>
        /\ Packets(sent, 0, Passed(sent, wire)) \o Decode(SubSeq(wire, 1, n)).handled
              = Packets(sent, 0, Passed(sent, rest))
        /\ rest # <<>> => rest[1].kind = "head"
    <3>1. Left(sent, wire) /\ wire[1].kind = "head"
      BY <2>2, <2>3, <1>4
    <3> QED BY <3>1, <2>1, <1>1, WholeRead
  <2> QED BY <2>2, <2>5, <2>6
<1>7. CASE astray \/ Misaligned(buf)
  <2>1. astray' = TRUE /\ ~whole'
    BY <1>3, <1>6, <1>7
  <2> QED BY <2>1, <1>1, <1>2, <1>5 DEF StreamInv
<1>8. CASE ~astray /\ ~Misaligned(buf)
  <2>1. delivered' = delivered \o Decode(buf).handled /\ buffer' = Remaining(buf) /\ astray' = FALSE
    BY <1>3, <1>8
  <2>2. /\ Remaining(buf) \in Seq(Bytes)
        /\ Left(sent, Remaining(buf) \o rest)
        /\ InFull(sent, delivered \o Decode(buf).handled, Passed(sent, Remaining(buf) \o rest))
    BY <1>1, <1>4, <1>8, ReadKeeps
  <2> HIDE DEF buf, rest
  <2>3. Passed(sent, Remaining(buf) \o rest) \in Nat /\ Passed(sent, Remaining(buf) \o rest) <= Len(sent)
    BY <2>2, <1>1, PassedIs
  <2>4. InFull(sent, delivered \o Decode(buf).handled, Len(sent))
    BY <2>2, <2>3, <1>1, InFullLater
  <2> QED BY <2>1, <2>2, <2>4, <1>1, <1>2, <1>5, <1>6 DEF StreamInv
<1> QED BY <1>7, <1>8

\* The packet stream keeps its invariant, for any number of packets and any lengths
\* of data: whatever reads TCP makes of the bytes, buffer and wire stay the rest of
\* what was sent until one begins inside a byte string.
THEOREM StreamInvariance == StreamSpec => []StreamInv
<1>1. StreamInit => StreamInv
  <2> SUFFICES ASSUME StreamInit PROVE StreamInv
    OBVIOUS
  <2>1. /\ wire = <<>> /\ buffer = <<>> /\ delivered = <<>> /\ sent = <<>>
        /\ astray = FALSE /\ whole = TRUE
    BY DEF StreamInit
  <2>2. <<>> \in Counts /\ <<>> \in Seq(Bytes) /\ Len(<<>>) = 0 /\ <<>> \o <<>> = <<>>
    BY DEF Counts
  <2>3. Passed(<<>>, <<>>) = 0
    BY <2>2 DEF Passed
  <2>4. Left(<<>>, <<>>)
    BY <2>2 DEF Left, Piece
  <2>5. InFull(<<>>, <<>>, 0)
    BY <2>2 DEF InFull
  <2>6. Packets(<<>>, 0, 0) = <<>>
    BY DEF Packets
  <2> QED BY <2>1, <2>2, <2>3, <2>4, <2>5, <2>6 DEF StreamInv
<1>2. StreamInv /\ [StreamNext]_streamVars => StreamInv'
  <2> SUFFICES ASSUME StreamInv, [StreamNext]_streamVars PROVE StreamInv'
    OBVIOUS
  <2>1. CASE \E n \in {4, 6}, l \in DataLengths : SendPacket(n, l)
    BY <2>1, SendPacketKeeps
  <2>2. CASE \E n \in 1..Len(wire) : Read(n)
    BY <2>2, ReadStreamKeeps
  <2>3. CASE UNCHANGED streamVars
    BY <2>3 DEF StreamInv, streamVars
  <2> QED BY <2>1, <2>2, <2>3 DEF StreamNext
<1> QED BY <1>1, <1>2, PTL DEF StreamSpec

\* Whatever reads TCP makes of the bytes, handleBuffer delivers whole packets with
\* their fields in their places, each at most once and in the order they were sent, as
\* long as no read has begun inside a byte string.
THEOREM DeliveredIntact == StreamSpec => []Intact
<1>1. StreamInv => Intact
  <2> SUFFICES ASSUME StreamInv, ~astray PROVE Intact
    BY DEF Intact
  <2>1. sent \in Counts /\ InFull(sent, delivered, Len(sent))
    BY DEF StreamInv
  <2>2. DOMAIN delivered = 1..Len(delivered) /\ DOMAIN sent = 1..Len(sent)
    BY <2>1 DEF InFull, Counts
  <2> QED BY <2>1, <2>2 DEF Intact, InFull
<1> QED BY <1>1, StreamInvariance, PTL

\* While every read ends where a packet ends, however many packets it brings, all
\* bytes read means all packets delivered, and nothing is kept in the buffer.
THEOREM WholeReadsDelivered == StreamSpec => []WholeReadsDeliver
<1>1. StreamInv => WholeReadsDeliver
  <2> SUFFICES ASSUME StreamInv, whole, wire = <<>> PROVE Caught
    BY DEF WholeReadsDeliver
  <2>1. buffer = <<>> /\ delivered = Packets(sent, 0, Len(sent)) /\ Len(sent) \in Nat
    BY DEF StreamInv, Passed, Counts
  <2>2. Packets(sent, 0, Len(sent)) = [k \in 1..Len(sent) |-> Whole(sent, k)]
    <3>1. \A k \in 1..Len(sent) : 0 + k = k
      BY <2>1
    <3> QED BY <3>1 DEF Packets
  <2> QED BY <2>1, <2>2 DEF Caught
<1> QED BY <1>1, StreamInvariance, PTL

=============================================================================
