--------------------------- MODULE PackagesProofs ---------------------------
(***************************************************************************)
(* The properties of Packages, proved for any number of packages, commits  *)
(* and waiting refreshes. Neither is inductive: that the md5 and the       *)
(* summary are fresh needs to be said of every moment at which no refresh  *)
(* is owed, and that clients can follow needs the state of every package   *)
(* between the steps of each command.                                      *)
(***************************************************************************)
EXTENDS Packages, TLAPS

(* The inductive invariant *)

\* The core's row, if there is one, says enabled.
CoreEnabled == hash[Core] # NoRow => Core \in enabled

\* A step inside a command has a package.
Named ==
    /\ shell.pc \notin {"idle", "refresh"} => shell.pack \in Packs
    /\ shell.pc = "disable" => shell.pack # Core
    /\ shell.pc = "pull" => disk[shell.pack] # 0
    /\ shell.pc = "enable" /\ hash[shell.pack] # NoRow => shell.pack \in enabled

\* No checkout is ahead of its repository.
NotAhead == \A p \in Packs : disk[p] <= remote[p]

\* Fresh, for each of the two parts of a refresh alone.
Md5Fresh == (shell = Prompt /\ refreshes = 0) => md5 = Files(disk, disabled_packs)
SummaryFresh ==
    (shell = Prompt /\ refreshes = 0 /\ main = "idle") => summary = Listed(hash, enabled)

\* A package between two steps of a command.
Halfway(p) ==
    /\ shell.pc = "insert" => hash[p] = NoRow /\ disk[p] # 0 /\ p \notin disabled_packs
    /\ shell.pc = "rmdir" => hash[p] = NoRow /\ p \notin disabled_packs
    /\ shell.pc \in {"master", "hash"} =>
          /\ hash[p] # NoRow /\ disk[p] # 0 /\ hash[p] <= disk[p]
          /\ p \in disabled_packs <=> p \notin enabled
    /\ shell.pc = "enable" =>
          /\ hash[p] \in {NoRow, disk[p]}
          /\ hash[p] = NoRow => disk[p] = 0 /\ p \notin disabled_packs
          /\ hash[p] # NoRow => p \in enabled
    /\ shell.pc = "disable" => hash[p] = disk[p] /\ p \notin enabled

Changing == {"insert", "rmdir", "master", "hash", "enable", "disable"}

\* A package that no trouble has met is sound, or about to be sound again.
Coherent(p) ==
    /\ hash[p] # Unreadable
    /\ IF shell.pack = p /\ shell.pc \in Changing
       THEN Halfway(p)
       ELSE Sound(p, hash, enabled, disabled_packs)

Coherence == \A p \in Packs : p \notin trouble => Coherent(p)

IInv ==
    /\ TypeOK /\ CoreEnabled /\ Named /\ NotAhead
    /\ DisabledStay /\ Md5Fresh /\ SummaryFresh /\ Coherence

-----------------------------------------------------------------------------
(* What the helpers do to the shell *)

Pcs == {"idle", "insert", "rmdir", "upgrade", "pull", "master", "hash",
        "enable", "disable", "refresh"}
Shells == [pc : Pcs, pack : Packs \cup {NoPack}, todo : SUBSET Packs]

\* Finish leaves the shell owing a refresh, or at the next package of an upgrade.
LEMMA Finished ==
    ASSUME shell \in Shells, Finish
    PROVE  /\ shell' \in Shells
           /\ shell'.pc \in {"refresh", "upgrade"}
           /\ shell'.pc = "upgrade" => shell'.pack \in Packs
           /\ shell' # Prompt
  <1>1. CASE shell' = [Prompt EXCEPT !.pc = "refresh"]
    BY <1>1 DEF Shells, Pcs, Prompt, NoPack
  <1>2. CASE \E p \in shell.todo :
                shell' = [pc |-> "upgrade", pack |-> p, todo |-> shell.todo \ {p}]
    <2>1. PICK p \in shell.todo :
                shell' = [pc |-> "upgrade", pack |-> p, todo |-> shell.todo \ {p}]
      BY <1>2
    <2>2. p \in Packs /\ shell.todo \ {p} \in SUBSET Packs
      BY DEF Shells
    <2> QED
      BY <2>1, <2>2 DEF Shells, Pcs, Prompt
  <1> QED
    BY <1>1, <1>2 DEF Finish

\* Do names the next step and its package, and leaves the prompt.
LEMMA Done ==
    ASSUME shell \in Shells, NEW pc \in Pcs \ {"idle"}, NEW p \in Packs, Do(pc, p)
    PROVE  shell' \in Shells /\ shell'.pc = pc /\ shell'.pack = p /\ shell' # Prompt
  BY DEF Do, Shells, Pcs, Prompt

\* The types that the other steps need, conjunct by conjunct.
LEMMA Typed ==
    ASSUME TypeOK
    PROVE  /\ hash \in [Packs -> Int] /\ disk \in [Packs -> Nat] /\ remote \in [Packs -> Int]
           /\ \A p \in Packs : HeadOf(disk, p) = disk[p] /\ disk[p] \in Commits \cup {0}
           /\ \A p \in Packs : disk[p] # NoRow /\ remote[p] >= 1
           /\ enabled \subseteq Packs /\ disabled_packs \subseteq Packs
           /\ shell \in Shells
  BY Bounds DEF TypeOK, Commits, NoRow, Unreadable, HeadOf, Shells, Pcs

-----------------------------------------------------------------------------
(* The invariant holds at first, and every step keeps it *)

\* At the start there is the core and nothing else.
LEMMA InitIInv == Init => IInv
  <1> SUFFICES ASSUME Init PROVE IInv
    OBVIOUS
  <1>1. /\ hash = [p \in Packs |-> IF p = Core THEN 1 ELSE NoRow] /\ enabled = {Core}
        /\ disk = [p \in Packs |-> IF p = Core THEN 1 ELSE 0] /\ remote = [p \in Packs |-> 1]
        /\ disabled_packs = {} /\ trouble = {} /\ refreshes = 0 /\ main = "idle"
    BY DEF Init, Loaded, NoRow
  <1>0. 1 \in Commits /\ 0 \in 0..MaxRefresh /\ Core \in Packs
    BY Bounds DEF Commits
  <1>a. /\ md5 = [p \in Packs |-> disk[p]]
        /\ summary = [p \in Packs |-> IF p \in enabled THEN hash[p] ELSE NoRow]
    BY <1>1 DEF Init, Files, Listed
  <1>b. shell \in Shells /\ shell.pc = "idle"
    BY DEF Init, Prompt, Shells, Pcs
  <1>c. md5 \in [Packs -> Commits \cup {0}] /\ summary \in [Packs -> Commits \cup {NoRow, Unreadable}]
    BY <1>1, <1>0, <1>a
  <1>2. TypeOK
    BY <1>1, <1>0, <1>b, <1>c DEF TypeOK, NoRow, Shells, Pcs
  <1>3. CoreEnabled /\ Named /\ NotAhead /\ DisabledStay
    BY <1>1, <1>0, <1>b DEF CoreEnabled, Named, NotAhead, DisabledStay, NoRow
  <1>4. Md5Fresh /\ SummaryFresh
    BY DEF Init, Md5Fresh, SummaryFresh
  <1>5. Coherence
    BY <1>1, <1>b DEF Coherence, Coherent, Sound, Changing, NoRow, Unreadable
  <1> QED
    BY <1>2, <1>3, <1>4, <1>5 DEF IInv

\* A package that is cloned is halfway; one that a failed clone deleted is in trouble.
LEMMA CloneKeeps ==
    ASSUME IInv, NEW p \in Packs, Clone(p)
    PROVE  IInv'
  <1> USE DEF IInv
  <1>1. disk' \in [Packs -> Commits \cup {0}] /\ \A q \in Packs \ {p} : disk'[q] = disk[q]
    BY Typed DEF Clone, TypeOK
  <1>2. shell' \in Shells /\ shell' # Prompt /\ shell'.pc \in {"insert", "refresh", "upgrade"}
        /\ (shell'.pc # "refresh" => shell'.pack \in Packs)
    BY Typed, Finished, Done DEF Clone, Pcs
  <1>3. TypeOK'
    BY <1>1, <1>2 DEF Clone, TypeOK, Shells, Pcs, table, told
  <1>4. CoreEnabled' /\ Named' /\ DisabledStay'
    BY <1>2 DEF Clone, CoreEnabled, Named, DisabledStay, table, Prompt
  <1>5. NotAhead'
    BY <1>1, Typed DEF Clone, NotAhead, TypeOK, Commits
  <1>6. Md5Fresh' /\ SummaryFresh'
    BY <1>2 DEF Md5Fresh, SummaryFresh
  <1>7. Coherence'
    <2> SUFFICES ASSUME NEW q \in Packs, q \notin trouble' PROVE Coherent(q)'
      BY DEF Coherence
    <2>1. q \notin trouble /\ hash[q] # Unreadable /\ Sound(q, hash, enabled, disabled_packs)
      BY DEF Clone, Coherence, Coherent, Changing, Prompt
    <2>2. CASE disk'[q] = disk[q] /\ ~(shell'.pack = q /\ shell'.pc \in Changing)
      BY <2>1, <2>2 DEF Clone, Coherent, Sound, table
    <2>3. CASE disk'[q] # disk[q] \/ (shell'.pack = q /\ shell'.pc \in Changing)
      <3>a. disk[p] = 0 /\ disk' = [disk EXCEPT ![p] = remote[p]] /\ Do("insert", p)
        <4>1. SUFFICES ASSUME Finish, \E left \in {0, disk[p]} : disk' = [disk EXCEPT ![p] = left],
                              trouble' = IF hash[p] = NoRow /\ disk[p] = 0 THEN trouble ELSE trouble \cup {p}
                       PROVE  FALSE
          BY DEF Clone
        <4>2. shell'.pc \notin Changing
          BY <4>1, Typed, Finished DEF Changing
        <4>3. q = p /\ disk[p] # 0
          BY <4>1, <4>2, <2>3, <1>1, Typed DEF TypeOK
        <4> QED
          BY <4>1, <4>3
      <3>1. shell'.pc = "insert" /\ shell'.pack = p /\ q = p /\ disk[p] = 0 /\ disk'[p] = remote[p]
        BY <3>a, <2>3, <1>1, Typed, Done DEF Pcs
      <3> QED
        BY <3>1, <2>1, Typed DEF Clone, Coherent, Halfway, Changing, Sound, table, NoRow, Unreadable
    <2> QED
      BY <2>2, <2>3
  <1> QED
    BY <1>3, <1>4, <1>5, <1>6, <1>7

\* Most steps leave the checkouts and the repositories alone.
LEMMA NotAheadKept == NotAhead /\ UNCHANGED <<disk, remote>> => NotAhead'
  BY DEF NotAhead

\* A refresh is owed as long as the shell is inside a command.
LEMMA FreshInside == shell' # Prompt => Md5Fresh' /\ SummaryFresh'
  BY DEF Md5Fresh, SummaryFresh

\* With its row the new package is sound.
LEMMA InsertRowKeeps ==
    ASSUME IInv, InsertRow
    PROVE  IInv'
  <1> USE DEF IInv
  <1>1. shell' \in Shells /\ shell' # Prompt /\ shell'.pc \in {"refresh", "upgrade"}
        /\ (shell'.pc = "upgrade" => shell'.pack \in Packs)
    BY Typed, Finished DEF InsertRow
  <1>2. /\ shell.pack \in Packs
        /\ hash' = IF hash[shell.pack] = NoRow THEN [hash EXCEPT ![shell.pack] = disk[shell.pack]] ELSE hash
        /\ enabled' = IF hash[shell.pack] = NoRow THEN enabled \cup {shell.pack} ELSE enabled
    BY Typed DEF InsertRow, Named, table
  <1>3. TypeOK'
    BY <1>1, <1>2, Typed DEF InsertRow, TypeOK, Shells, Pcs, told, NoRow, Unreadable
  <1>4. CoreEnabled' /\ Named' /\ DisabledStay'
    BY <1>1, <1>2, Typed DEF InsertRow, CoreEnabled, Named, DisabledStay, TypeOK
  <1>5. NotAhead'
    BY NotAheadKept DEF InsertRow
  <1>6. Md5Fresh' /\ SummaryFresh'
    BY <1>1, FreshInside
  <1>7. Coherence'
    <2> SUFFICES ASSUME NEW q \in Packs, q \notin trouble' PROVE Coherent(q)'
      BY DEF Coherence
    <2>1. Coherent(q) /\ shell'.pc \notin Changing
      BY <1>1 DEF InsertRow, Coherence, Changing
    <2>2. CASE q # shell.pack
      BY <2>1, <2>2, <1>2 DEF InsertRow, Coherent, Sound, TypeOK
    <2>3. CASE q = shell.pack
      BY <2>1, <2>3, <1>2, Typed DEF InsertRow, Coherent, Halfway, Changing, Sound, TypeOK, Unreadable
    <2> QED
      BY <2>2, <2>3
  <1> QED
    BY <1>3, <1>4, <1>5, <1>6, <1>7

\* Without its row a package is halfway, and in trouble if it was disabled.
LEMMA DeleteRowKeeps ==
    ASSUME IInv, NEW p \in Packs, DeleteRow(p)
    PROVE  IInv'
  <1> USE DEF IInv
  <1>1. /\ shell' \in Shells /\ shell' # Prompt
        /\ IF hash[p] = NoRow THEN shell'.pc \in {"refresh", "upgrade"}
                             ELSE shell'.pc = "rmdir" /\ shell'.pack = p
        /\ shell'.pc # "refresh" => shell'.pack \in Packs
    BY Typed, Finished, Done DEF DeleteRow, Pcs
  <1>3. TypeOK'
    BY <1>1, Typed DEF DeleteRow, TypeOK, Shells, Pcs, told
  <1>4. CoreEnabled' /\ Named' /\ DisabledStay'
    <2>1. CoreEnabled' /\ Named'
      BY <1>1, Bounds DEF DeleteRow, CoreEnabled, Named, TypeOK
    <2>2. DisabledStay'
      BY <1>1 DEF DeleteRow, DisabledStay, TypeOK, Prompt
    <2> QED
      BY <2>1, <2>2
  <1>5. NotAhead'
    BY NotAheadKept DEF DeleteRow
  <1>6. Md5Fresh' /\ SummaryFresh'
    BY <1>1, FreshInside
  <1>7. Coherence'
    <2> SUFFICES ASSUME NEW q \in Packs, q \notin trouble' PROVE Coherent(q)'
      BY DEF Coherence
    <2>1. q \notin trouble /\ hash[q] # Unreadable /\ Sound(q, hash, enabled, disabled_packs)
      BY DEF DeleteRow, Coherence, Coherent, Changing, Prompt
    <2>2. CASE q # p \/ hash[p] = NoRow
      <3>1. hash'[q] = hash[q] /\ (q \in enabled' <=> q \in enabled)
        BY <2>2, Typed DEF DeleteRow, TypeOK
      <3> QED
        BY <3>1, <2>1, <2>2, <1>1 DEF DeleteRow, Coherent, Sound, Changing
    <2>3. CASE q = p /\ hash[p] # NoRow
      BY <2>1, <2>3, <1>1, Typed DEF DeleteRow, Coherent, Halfway, Changing, TypeOK, NoRow, Unreadable
    <2> QED
      BY <2>2, <2>3
  <1> QED
    BY <1>3, <1>4, <1>5, <1>6, <1>7

\* Without its directory a removed package is sound; one that stays is in trouble.
LEMMA RemoveDirKeeps ==
    ASSUME IInv, RemoveDir
    PROVE  IInv'
  <1> USE DEF IInv
  <1>1. shell' \in Shells /\ shell' # Prompt /\ shell'.pc \in {"refresh", "upgrade"}
        /\ (shell'.pc = "upgrade" => shell'.pack \in Packs)
    BY Typed, Finished DEF RemoveDir
  <1>2. shell.pack \in Packs /\ disk' \in {disk, [disk EXCEPT ![shell.pack] = 0]}
    BY Typed DEF RemoveDir, Named
  <1>3. TypeOK'
    <2>1. disk' \in [Packs -> Commits \cup {0}] /\ trouble' \subseteq Packs
      BY <1>2 DEF RemoveDir, TypeOK
    <2> QED
      BY <1>1, <2>1 DEF RemoveDir, TypeOK, Shells, Pcs, table, told
  <1>4. CoreEnabled' /\ Named' /\ DisabledStay'
    BY <1>1 DEF RemoveDir, CoreEnabled, Named, DisabledStay, table
  <1>5. NotAhead'
    BY <1>2, Typed DEF RemoveDir, NotAhead
  <1>6. Md5Fresh' /\ SummaryFresh'
    BY <1>1, FreshInside
  <1>7. Coherence'
    <2> SUFFICES ASSUME NEW q \in Packs, q \notin trouble' PROVE Coherent(q)'
      BY DEF Coherence
    <2>1. q \notin trouble /\ Coherent(q) /\ shell'.pc \notin Changing
      BY <1>1 DEF RemoveDir, Coherence, Changing
    <2>2. CASE q # shell.pack
      BY <2>1, <2>2, <1>2, Typed DEF RemoveDir, Coherent, Sound, table
    <2>3. CASE q = shell.pack
      <3>1. disk'[q] = 0
        BY <2>3, <1>2, Typed DEF RemoveDir
      <3> QED
        BY <3>1, <2>1, <2>3 DEF RemoveDir, Coherent, Halfway, Changing, Sound, table
    <2> QED
      BY <2>2, <2>3
  <1> QED
    BY <1>3, <1>4, <1>5, <1>6, <1>7

\* The choice of packages to upgrade changes none of them.
LEMMA UpgradeKeeps ==
    ASSUME IInv, Upgrade
    PROVE  IInv'
  <1> USE DEF IInv
  <1>1. /\ shell' \in Shells /\ shell' # Prompt /\ shell'.pc \in {"refresh", "upgrade"}
        /\ shell'.pc = "upgrade" => shell'.pack \in Packs
    <2>1. PICK s \in {{p} : p \in Packs} \cup {{p \in Packs : hash[p] # NoRow}} :
              IF s = {} THEN shell' = [Prompt EXCEPT !.pc = "refresh"]
              ELSE \E p \in s : shell' = [pc |-> "upgrade", pack |-> p, todo |-> s \ {p}]
      BY DEF Upgrade
    <2>2. s \subseteq Packs
      OBVIOUS
    <2>3. CASE s = {}
      BY <2>1, <2>3 DEF Shells, Pcs, Prompt
    <2>4. CASE s # {}
      <3>1. PICK p \in s : shell' = [pc |-> "upgrade", pack |-> p, todo |-> s \ {p}]
        BY <2>1, <2>4
      <3>2. p \in Packs /\ s \ {p} \in SUBSET Packs
        BY <2>2
      <3> QED
        BY <3>1, <3>2 DEF Shells, Pcs, Prompt
    <2> QED
      BY <2>3, <2>4
  <1>3. TypeOK'
    BY <1>1 DEF Upgrade, TypeOK, Shells, Pcs, table, told
  <1>4. CoreEnabled' /\ Named' /\ DisabledStay'
    BY <1>1 DEF Upgrade, CoreEnabled, Named, DisabledStay, table, Prompt
  <1>5. NotAhead'
    BY NotAheadKept DEF Upgrade
  <1>6. Md5Fresh' /\ SummaryFresh'
    BY <1>1, FreshInside
  <1>7. Coherence'
    <2> SUFFICES ASSUME NEW q \in Packs, q \notin trouble' PROVE Coherent(q)'
      BY DEF Coherence
    <2>1. hash[q] # Unreadable /\ Sound(q, hash, enabled, disabled_packs)
      BY DEF Upgrade, Coherence, Coherent, Changing, Prompt
    <2> QED
      BY <2>1, <1>1 DEF Upgrade, Coherent, Changing, Sound, table
  <1> QED
    BY <1>3, <1>4, <1>5, <1>6, <1>7

\* status only looks.
LEMMA StatusKeeps ==
    ASSUME IInv, Status
    PROVE  IInv'
  <1> USE DEF IInv
  <1>1. /\ shell' \in Shells /\ shell' # Prompt /\ shell'.pc \in {"refresh", "upgrade", "pull"}
        /\ shell'.pc # "refresh" => shell'.pack \in Packs
        /\ shell'.pc = "pull" => disk[shell'.pack] # 0
    BY Typed, Finished, Done DEF Status, Named, Pcs
  <1>3. TypeOK'
    BY <1>1 DEF Status, TypeOK, Shells, Pcs, table, told
  <1>4. CoreEnabled' /\ Named' /\ DisabledStay'
    BY <1>1 DEF Status, CoreEnabled, Named, DisabledStay, table
  <1>5. NotAhead'
    BY NotAheadKept DEF Status
  <1>6. Md5Fresh' /\ SummaryFresh'
    BY <1>1, FreshInside
  <1>7. Coherence'
    <2> SUFFICES ASSUME NEW q \in Packs, q \notin trouble' PROVE Coherent(q)'
      BY DEF Coherence
    <2>1. hash[q] # Unreadable /\ Sound(q, hash, enabled, disabled_packs)
      BY DEF Status, Coherence, Coherent, Changing
    <2> QED
      BY <2>1, <1>1 DEF Status, Coherent, Changing, Sound, table
  <1> QED
    BY <1>3, <1>4, <1>5, <1>6, <1>7

\* A pull moves the checkout ahead of the row, never behind it.
LEMMA PullKeeps ==
    ASSUME IInv, Pull
    PROVE  IInv'
  <1> USE DEF IInv
  <1>1. /\ shell' \in Shells /\ shell' # Prompt /\ shell'.pc \in {"refresh", "upgrade", "master"}
        /\ shell'.pc # "refresh" => shell'.pack \in Packs
    BY Typed, Finished, Done DEF Pull, LeftBehind, Named, Pcs
  <1>2. shell.pack \in Packs /\ disk' \in {disk, [disk EXCEPT ![shell.pack] = remote[shell.pack]]}
    BY Typed DEF Pull, Named
  <1>3. TypeOK'
    <2>1. disk' \in [Packs -> Commits \cup {0}] /\ trouble' \subseteq Packs
      BY <1>2 DEF Pull, LeftBehind, TypeOK
    <2> QED
      BY <1>1, <2>1 DEF Pull, TypeOK, Shells, Pcs, table, told
  <1>4. CoreEnabled' /\ Named' /\ DisabledStay'
    BY <1>1 DEF Pull, CoreEnabled, Named, DisabledStay, table
  <1>5. NotAhead'
    BY <1>2, Typed DEF Pull, NotAhead
  <1>6. Md5Fresh' /\ SummaryFresh'
    BY <1>1, FreshInside
  <1>7. Coherence'
    <2> SUFFICES ASSUME NEW q \in Packs, q \notin trouble' PROVE Coherent(q)'
      BY DEF Coherence
    <2>1. q \notin trouble /\ hash[q] # Unreadable /\ Sound(q, hash, enabled, disabled_packs)
      BY DEF Pull, LeftBehind, Coherence, Coherent, Changing
    <2>2. CASE Finish /\ UNCHANGED disk
      BY <2>1, <2>2, Typed, Finished DEF Pull, Coherent, Changing, Sound, table
    <2>3. CASE disk' = [disk EXCEPT ![shell.pack] = remote[shell.pack]] /\ LeftBehind(shell.pack)
      <3>1. shell'.pc \notin Changing
        BY <2>3, Typed, Finished DEF LeftBehind, Changing
      <3>2. CASE q # shell.pack
        BY <3>1, <3>2, <2>1, <2>3, <1>2, Typed DEF Pull, Coherent, Sound, table
      <3>3. CASE q = shell.pack
        <4>1. hash[q] = remote[q] /\ disk'[q] = remote[q] /\ disk[q] # 0
          BY <3>3, <2>3, <1>2, Typed DEF LeftBehind, Pull, Named
        <4> QED
          BY <4>1, <3>1, <2>1, Typed DEF Pull, Coherent, Sound, table, NoRow
      <3> QED
        BY <3>2, <3>3
    <2>4. CASE disk' = [disk EXCEPT ![shell.pack] = remote[shell.pack]] /\ Do("master", shell.pack)
      <3>1. shell'.pc = "master" /\ shell'.pack = shell.pack
        BY <2>4, <1>2, Typed, Done DEF Pcs
      <3>2. CASE q # shell.pack
        BY <3>1, <3>2, <2>1, <2>4, <1>2, Typed DEF Pull, Coherent, Sound, table
      <3>3. CASE q = shell.pack
        <4>1. disk[q] # 0 /\ disk'[q] = remote[q] /\ hash[q] = disk[q] /\ disk[q] <= remote[q]
          BY <3>3, <2>1, <2>4, <1>2, Typed DEF Pull, Named, NotAhead, Sound
        <4>2. q \in disabled_packs <=> q \notin enabled
          BY <4>1, <2>1, Typed DEF Sound
        <4>3. hash[q] \in Int /\ hash[q] # NoRow /\ remote[q] # 0
          BY <4>1, Typed DEF NoRow
        <4> QED
          BY <4>1, <4>2, <4>3, <3>1, <3>3, <2>1 DEF Pull, Coherent, Halfway, Changing, table
      <3> QED
        BY <3>2, <3>3
    <2> QED
      BY <2>2, <2>3, <2>4 DEF Pull
  <1> QED
    BY <1>3, <1>4, <1>5, <1>6, <1>7

\* When an upgrade ends here, the row is the checkout's or the package is in trouble.
LEMMA CheckoutMasterKeeps ==
    ASSUME IInv, CheckoutMaster
    PROVE  IInv'
  <1> USE DEF IInv
  <1>1. /\ shell' \in Shells /\ shell' # Prompt /\ shell'.pc \in {"refresh", "upgrade", "hash"}
        /\ shell'.pc # "refresh" => shell'.pack \in Packs
    BY Typed, Finished, Done DEF CheckoutMaster, LeftBehind, Named, Pcs
  <1>3. TypeOK'
    <2>1. trouble' \subseteq Packs
      BY DEF CheckoutMaster, LeftBehind, TypeOK, Named
    <2> QED
      BY <1>1, <2>1 DEF CheckoutMaster, TypeOK, Shells, Pcs, table, told
  <1>4. CoreEnabled' /\ Named' /\ DisabledStay'
    BY <1>1 DEF CheckoutMaster, CoreEnabled, Named, DisabledStay, table
  <1>5. NotAhead'
    BY NotAheadKept DEF CheckoutMaster
  <1>6. Md5Fresh' /\ SummaryFresh'
    BY <1>1, FreshInside
  <1>7. Coherence'
    <2> SUFFICES ASSUME NEW q \in Packs, q \notin trouble' PROVE Coherent(q)'
      BY DEF Coherence
    <2>1. q \notin trouble /\ Coherent(q) /\ shell.pack \in Packs
      BY DEF CheckoutMaster, LeftBehind, Coherence, Named
    <2>2. CASE LeftBehind(shell.pack)
      <3>1. shell'.pc \notin Changing
        BY <2>2, Typed, Finished DEF LeftBehind, Changing
      <3>2. CASE q # shell.pack
        BY <3>1, <3>2, <2>1 DEF CheckoutMaster, Coherent, Sound, table
      <3>3. CASE q = shell.pack
        <4>1. /\ hash[q] = remote[q] /\ hash[q] # NoRow /\ hash[q] <= disk[q] /\ disk[q] <= remote[q]
              /\ q \in disabled_packs <=> q \notin enabled
          BY <3>3, <2>1, <2>2 DEF LeftBehind, CheckoutMaster, Coherent, Halfway, Changing, NotAhead
        <4>2. hash[q] = disk[q]
          BY <4>1, Typed
        <4> QED
          BY <4>1, <4>2, <3>1, <2>1 DEF CheckoutMaster, Coherent, Sound, table
      <3> QED
        BY <3>2, <3>3
    <2>3. CASE Do("hash", shell.pack)
      <3>1. shell'.pc = "hash" /\ shell'.pack = shell.pack
        BY <2>1, <2>3, Typed, Done DEF Pcs
      <3> QED
        BY <3>1, <2>1 DEF CheckoutMaster, Coherent, Halfway, Changing, Sound, table
    <2> QED
      BY <2>2, <2>3 DEF CheckoutMaster
  <1> QED
    BY <1>3, <1>4, <1>5, <1>6, <1>7

\* With the new hash the upgraded package is sound.
LEMMA UpdateHashKeeps ==
    ASSUME IInv, UpdateHash
    PROVE  IInv'
  <1> USE DEF IInv
  <1>1. shell' \in Shells /\ shell' # Prompt /\ shell'.pc \in {"refresh", "upgrade"}
        /\ (shell'.pc = "upgrade" => shell'.pack \in Packs)
    BY Typed, Finished DEF UpdateHash
  <1>2. /\ shell.pack \in Packs
        /\ hash' = IF hash[shell.pack] = NoRow THEN hash
                   ELSE [hash EXCEPT ![shell.pack] = disk[shell.pack]]
        /\ hash' \in [Packs -> Commits \cup {NoRow, Unreadable}]
        /\ \A p \in Packs : hash'[p] # NoRow <=> hash[p] # NoRow
    BY Typed DEF UpdateHash, Named, TypeOK, Unreadable
  <1>3. TypeOK'
    BY <1>1, <1>2, Typed DEF UpdateHash, TypeOK, Shells, Pcs, told
  <1>4. CoreEnabled' /\ Named' /\ DisabledStay'
    BY <1>1, <1>2, Bounds DEF UpdateHash, CoreEnabled, Named, DisabledStay
  <1>5. NotAhead'
    BY NotAheadKept DEF UpdateHash
  <1>6. Md5Fresh' /\ SummaryFresh'
    BY <1>1, FreshInside
  <1>7. Coherence'
    <2> SUFFICES ASSUME NEW q \in Packs, q \notin trouble' PROVE Coherent(q)'
      BY DEF Coherence
    <2>1. Coherent(q) /\ shell'.pc \notin Changing
      BY <1>1 DEF UpdateHash, Coherence, Changing
    <2>2. CASE q # shell.pack
      BY <2>1, <2>2, <1>2 DEF UpdateHash, Coherent, Sound, TypeOK
    <2>3. CASE q = shell.pack
      <3>1. hash[q] # NoRow /\ disk[q] # 0 /\ (q \in disabled_packs <=> q \notin enabled)
        BY <2>1, <2>3 DEF UpdateHash, Coherent, Halfway, Changing
      <3>2. hash'[q] = disk[q] /\ disk[q] # NoRow
        BY <3>1, <2>3, <1>2, Typed DEF TypeOK
      <3> QED
        BY <3>1, <3>2, <2>1 DEF UpdateHash, Coherent, Sound, Unreadable
    <2> QED
      BY <2>2, <2>3
  <1> QED
    BY <1>3, <1>4, <1>5, <1>6, <1>7

\* Between the row and the list the package counts as disabled still.
LEMMA EnableRowKeeps ==
    ASSUME IInv, NEW p \in Packs, EnableRow(p)
    PROVE  IInv'
  <1> USE DEF IInv
  <1>1. shell' \in Shells /\ shell' # Prompt /\ shell'.pc = "enable" /\ shell'.pack = p
    BY Typed, Done DEF EnableRow, Pcs
  <1>3. TypeOK'
    BY <1>1, Typed DEF EnableRow, TypeOK, Shells, Pcs, told
  <1>4. CoreEnabled' /\ Named' /\ DisabledStay'
    BY <1>1 DEF EnableRow, CoreEnabled, Named, DisabledStay, Prompt
  <1>5. NotAhead'
    BY NotAheadKept DEF EnableRow
  <1>6. Md5Fresh' /\ SummaryFresh'
    BY <1>1, FreshInside
  <1>7. Coherence'
    <2> SUFFICES ASSUME NEW q \in Packs, q \notin trouble' PROVE Coherent(q)'
      BY DEF Coherence
    <2>1. hash[q] # Unreadable /\ Sound(q, hash, enabled, disabled_packs)
      BY DEF EnableRow, Coherence, Coherent, Changing, Prompt
    <2> QED
      BY <2>1, <1>1 DEF EnableRow, Coherent, Halfway, Changing, Sound
  <1> QED
    BY <1>3, <1>4, <1>5, <1>6, <1>7

\* Off the list, an enabled package is sound.
LEMMA EnableMemoryKeeps ==
    ASSUME IInv, EnableMemory
    PROVE  IInv'
  <1> USE DEF IInv
  <1>1. shell' \in Shells /\ shell' # Prompt /\ shell'.pc \in {"refresh", "upgrade"}
        /\ (shell'.pc = "upgrade" => shell'.pack \in Packs)
    BY Typed, Finished DEF EnableMemory
  <1>2. hash[shell.pack] # NoRow => shell.pack \in enabled
    BY DEF EnableMemory, Named
  <1>3. TypeOK'
    BY <1>1 DEF EnableMemory, TypeOK, Shells, Pcs, table, told
  <1>4. CoreEnabled' /\ Named' /\ DisabledStay'
    BY <1>1, <1>2 DEF EnableMemory, CoreEnabled, Named, DisabledStay, table
  <1>5. NotAhead'
    BY NotAheadKept DEF EnableMemory
  <1>6. Md5Fresh' /\ SummaryFresh'
    BY <1>1, FreshInside
  <1>7. Coherence'
    <2> SUFFICES ASSUME NEW q \in Packs, q \notin trouble' PROVE Coherent(q)'
      BY DEF Coherence
    <2>1. Coherent(q) /\ shell'.pc \notin Changing
      BY <1>1 DEF EnableMemory, Coherence, Changing
    <2>2. CASE q # shell.pack
      BY <2>1, <2>2 DEF EnableMemory, Coherent, Sound, table
    <2>3. CASE q = shell.pack
      BY <2>1, <2>3, <1>2 DEF EnableMemory, Coherent, Halfway, Changing, Sound, table
    <2> QED
      BY <2>2, <2>3
  <1> QED
    BY <1>3, <1>4, <1>5, <1>6, <1>7

\* Between the row and the list the package counts as enabled still.
LEMMA DisableRowKeeps ==
    ASSUME IInv, NEW p \in Packs, DisableRow(p)
    PROVE  IInv'
  <1> USE DEF IInv
  <1>1. /\ shell' \in Shells /\ shell' # Prompt
        /\ IF p = Core THEN shell'.pc \in {"refresh", "upgrade"}
                       ELSE shell'.pc = "disable" /\ shell'.pack = p
        /\ shell'.pc # "refresh" => shell'.pack \in Packs
    BY Typed, Finished, Done DEF DisableRow, Pcs
  <1>2. enabled' = IF p = Core THEN enabled ELSE enabled \ {p}
    BY DEF DisableRow
  <1>3. TypeOK'
    BY <1>1, <1>2 DEF DisableRow, TypeOK, Shells, Pcs, told
  <1>4. CoreEnabled' /\ Named' /\ DisabledStay'
    BY <1>1, <1>2 DEF DisableRow, CoreEnabled, Named, DisabledStay, Prompt
  <1>5. NotAhead'
    BY NotAheadKept DEF DisableRow
  <1>6. Md5Fresh' /\ SummaryFresh'
    BY <1>1, FreshInside
  <1>7. Coherence'
    <2> SUFFICES ASSUME NEW q \in Packs, q \notin trouble' PROVE Coherent(q)'
      BY DEF Coherence
    <2>1. q \notin trouble /\ hash[q] # Unreadable /\ Sound(q, hash, enabled, disabled_packs)
      BY DEF DisableRow, Coherence, Coherent, Changing, Prompt
    <2>2. CASE q # p \/ p = Core
      BY <2>1, <2>2, <1>1, <1>2 DEF DisableRow, Coherent, Sound, Changing
    <2>3. CASE q = p /\ p # Core
      BY <2>1, <2>3, <1>1, <1>2 DEF DisableRow, Coherent, Halfway, Sound, Changing
    <2> QED
      BY <2>2, <2>3
  <1> QED
    BY <1>3, <1>4, <1>5, <1>6, <1>7

\* On the list, a disabled package is sound.
LEMMA DisableMemoryKeeps ==
    ASSUME IInv, DisableMemory
    PROVE  IInv'
  <1> USE DEF IInv
  <1>1. shell' \in Shells /\ shell' # Prompt /\ shell'.pc \in {"refresh", "upgrade"}
        /\ (shell'.pc = "upgrade" => shell'.pack \in Packs)
    BY Typed, Finished DEF DisableMemory
  <1>3. TypeOK'
    BY <1>1 DEF DisableMemory, TypeOK, Named, Shells, Pcs, table, told
  <1>4. CoreEnabled' /\ Named' /\ DisabledStay'
    BY <1>1 DEF DisableMemory, CoreEnabled, Named, DisabledStay, table
  <1>5. NotAhead'
    BY NotAheadKept DEF DisableMemory
  <1>6. Md5Fresh' /\ SummaryFresh'
    BY <1>1, FreshInside
  <1>7. Coherence'
    <2> SUFFICES ASSUME NEW q \in Packs, q \notin trouble' PROVE Coherent(q)'
      BY DEF Coherence
    <2>1. Coherent(q) /\ shell'.pc \notin Changing
      BY <1>1 DEF DisableMemory, Coherence, Changing
    <2>2. CASE q # shell.pack
      BY <2>1, <2>2 DEF DisableMemory, Coherent, Sound, table
    <2>3. CASE q = shell.pack
      BY <2>1, <2>3, Typed DEF DisableMemory, Coherent, Halfway, Changing, Sound, table
    <2> QED
      BY <2>2, <2>3
  <1> QED
    BY <1>3, <1>4, <1>5, <1>6, <1>7

\* Every row gets its checkout's hash, which can only end trouble.
LEMMA SyncKeeps ==
    ASSUME IInv, Sync
    PROVE  IInv'
  <1> USE DEF IInv
  <1>1. shell' \in Shells /\ shell' # Prompt /\ shell'.pc \in {"refresh", "upgrade"}
        /\ (shell'.pc = "upgrade" => shell'.pack \in Packs)
    BY Typed, Finished DEF Sync
  <1>2. /\ hash' = [p \in Packs |-> IF hash[p] = NoRow THEN NoRow ELSE disk[p]]
        /\ hash' \in [Packs -> Commits \cup {NoRow, Unreadable}]
        /\ \A p \in Packs : hash'[p] # NoRow <=> hash[p] # NoRow
    BY Typed DEF Sync, Unreadable
  <1>3. TypeOK'
    BY <1>1, <1>2 DEF Sync, TypeOK, Shells, Pcs, told
  <1>4. CoreEnabled' /\ Named' /\ DisabledStay'
    BY <1>1, <1>2, Bounds DEF Sync, CoreEnabled, Named, DisabledStay, Prompt
  <1>5. NotAhead'
    BY NotAheadKept DEF Sync
  <1>6. Md5Fresh' /\ SummaryFresh'
    BY <1>1, FreshInside
  <1>7. Coherence'
    <2> SUFFICES ASSUME NEW q \in Packs, q \notin trouble' PROVE Coherent(q)'
      BY DEF Coherence
    <2>1. shell'.pc \notin Changing
      BY <1>1 DEF Changing
    <2>2. CASE q \in trouble
      <3>1. disk[q] # 0 /\ Sound(q, hash', enabled, disabled_packs)
        BY <2>2 DEF Sync
      <3> QED
        BY <3>1, <2>1, <1>2, Typed DEF Sync, Coherent, Sound, NoRow, Unreadable
    <2>3. CASE q \notin trouble
      <3>1. hash[q] # Unreadable /\ Sound(q, hash, enabled, disabled_packs)
        BY <2>3 DEF Sync, Coherence, Coherent, Changing, Prompt
      <3>2. hash'[q] = hash[q]
        BY <3>1, <1>2 DEF Sound
      <3> QED
        BY <3>1, <3>2, <2>1 DEF Sync, Coherent, Sound
    <2> QED
      BY <2>2, <2>3
  <1> QED
    BY <1>3, <1>4, <1>5, <1>6, <1>7

\* From now on the refresh is owed by the main loop.
LEMMA RefreshMd5Keeps ==
    ASSUME IInv, RefreshMd5
    PROVE  IInv'
  <1> USE DEF IInv
  <1>1. shell' \in Shells /\ shell'.pc = "idle" /\ refreshes' \in 1..MaxRefresh
    BY Bounds DEF RefreshMd5, TypeOK, Prompt, Shells, Pcs
  <1>3. TypeOK'
    BY <1>1 DEF RefreshMd5, TypeOK, Shells, Pcs, table, told
  <1>4. CoreEnabled' /\ Named' /\ DisabledStay'
    BY <1>1 DEF RefreshMd5, CoreEnabled, Named, DisabledStay, table
  <1>5. NotAhead'
    BY NotAheadKept DEF RefreshMd5
  <1>6. Md5Fresh' /\ SummaryFresh'
    BY <1>1 DEF Md5Fresh, SummaryFresh
  <1>7. Coherence'
    <2> SUFFICES ASSUME NEW q \in Packs, q \notin trouble' PROVE Coherent(q)'
      BY DEF Coherence
    <2>1. hash[q] # Unreadable /\ Sound(q, hash, enabled, disabled_packs)
      BY DEF RefreshMd5, Coherence, Coherent, Changing
    <2> QED
      BY <2>1, <1>1 DEF RefreshMd5, Coherent, Changing, Sound, table
  <1> QED
    BY <1>3, <1>4, <1>5, <1>6, <1>7

\* A step that touches no package, no checkout and no command.
LEMMA Untouched ==
    ASSUME IInv, UNCHANGED <<table, disk, disabled_packs, shell, trouble>>,
           \A p \in Packs : remote[p] <= remote'[p], remote' \in [Packs -> Commits]
    PROVE  CoreEnabled' /\ Named' /\ DisabledStay' /\ NotAhead' /\ Coherence'
  <1> USE DEF IInv, table
  <1>1. CoreEnabled' /\ Named' /\ DisabledStay'
    BY DEF CoreEnabled, Named, DisabledStay
  <1>2. NotAhead'
    BY Typed DEF NotAhead, Commits
  <1>3. Coherence'
    BY DEF Coherence, Coherent, Halfway, Sound
  <1> QED
    BY <1>1, <1>2, <1>3

\* The md5 is fresh, and the summary is still owed.
LEMMA CalcFileMD5Keeps ==
    ASSUME IInv, CalcFileMD5
    PROVE  IInv'
  <1> USE DEF IInv
  <1>1. md5' \in [Packs -> Commits \cup {0}] /\ refreshes' \in 0..MaxRefresh
    BY Typed, Bounds DEF CalcFileMD5, TypeOK, Files
  <1>2. TypeOK'
    BY <1>1 DEF CalcFileMD5, TypeOK, table
  <1>3. Md5Fresh' /\ SummaryFresh'
    BY DEF CalcFileMD5, Md5Fresh, SummaryFresh
  <1>4. CoreEnabled' /\ Named' /\ DisabledStay' /\ NotAhead' /\ Coherence'
    BY Untouched, Typed DEF CalcFileMD5, TypeOK
  <1> QED
    BY <1>2, <1>3, <1>4

\* The summary is fresh again.
LEMMA RefreshSummaryKeeps ==
    ASSUME IInv, RefreshSummary
    PROVE  IInv'
  <1> USE DEF IInv
  <1>1. summary' \in [Packs -> Commits \cup {NoRow, Unreadable}]
    BY DEF RefreshSummary, TypeOK, Listed
  <1>2. TypeOK'
    BY <1>1 DEF RefreshSummary, TypeOK, table
  <1>3. Md5Fresh' /\ SummaryFresh'
    BY DEF RefreshSummary, Md5Fresh, SummaryFresh, table
  <1>4. CoreEnabled' /\ Named' /\ DisabledStay' /\ NotAhead' /\ Coherence'
    BY Untouched, Typed DEF RefreshSummary, TypeOK
  <1> QED
    BY <1>2, <1>3, <1>4

\* A new commit concerns no checkout.
LEMMA PublishKeeps ==
    ASSUME IInv, NEW p \in Packs, Publish(p)
    PROVE  IInv'
  <1> USE DEF IInv
  <1>1. remote' \in [Packs -> Commits] /\ \A q \in Packs : remote[q] <= remote'[q]
    BY Typed, Bounds DEF Publish, TypeOK, Commits
  <1>2. TypeOK'
    BY <1>1 DEF Publish, TypeOK, table, told
  <1>3. Md5Fresh' /\ SummaryFresh'
    BY DEF Publish, Md5Fresh, SummaryFresh, table, told
  <1>4. CoreEnabled' /\ Named' /\ DisabledStay' /\ NotAhead' /\ Coherence'
    BY <1>1, Untouched DEF Publish
  <1> QED
    BY <1>2, <1>3, <1>4

\* The list is rebuilt from the rows; what was halfway is in trouble or sound.
LEMMA RestartKeeps ==
    ASSUME IInv, Restart
    PROVE  IInv'
  <1> USE DEF IInv
  <1>1. /\ shell' \in Shells /\ shell'.pc = "idle"
        /\ disabled_packs' = {p \in Packs : hash[p] # NoRow /\ p \notin enabled}
    BY DEF Restart, Loaded, Prompt, Shells, Pcs
  <1>2. Core \notin disabled_packs'
    BY <1>1 DEF CoreEnabled
  <1>a. md5' \in [Packs -> Commits \cup {0}] /\ summary' \in [Packs -> Commits \cup {NoRow, Unreadable}]
    BY DEF Restart, TypeOK, Files, Listed
  <1>3. TypeOK'
    BY <1>1, <1>2, <1>a, Bounds DEF Restart, TypeOK, Shells, Pcs, table
  <1>4. CoreEnabled' /\ Named' /\ DisabledStay'
    BY <1>1 DEF Restart, CoreEnabled, Named, DisabledStay, table
  <1>5. NotAhead'
    BY NotAheadKept DEF Restart
  <1>6. Md5Fresh' /\ SummaryFresh'
    BY DEF Restart, Md5Fresh, SummaryFresh, table
  <1>7. Coherence'
    <2> SUFFICES ASSUME NEW q \in Packs, q \notin trouble' PROVE Coherent(q)'
      BY DEF Coherence
    <2>1. q \notin trouble /\ hash[q] # Unreadable /\ Sound(q, hash, enabled, disabled_packs')
      BY DEF Restart, Coherence, Coherent
    <2> QED
      BY <2>1, <1>1 DEF Restart, Coherent, Changing, Sound, table
  <1> QED
    BY <1>3, <1>4, <1>5, <1>6, <1>7

-----------------------------------------------------------------------------
(* The theorems *)

\* One step per action of Next, and a stutter.
LEMMA NextIInv ==
    ASSUME IInv, [Next]_vars
    PROVE  IInv'
  <1>1. CASE \E p \in Packs : Clone(p) \/ DeleteRow(p) \/ EnableRow(p) \/ DisableRow(p) \/ Publish(p)
    BY <1>1, CloneKeeps, DeleteRowKeeps, EnableRowKeeps, DisableRowKeeps, PublishKeeps
  <1>2. CASE InsertRow
    BY <1>2, InsertRowKeeps
  <1>3. CASE RemoveDir
    BY <1>3, RemoveDirKeeps
  <1>4. CASE Upgrade \/ Status \/ Pull \/ CheckoutMaster \/ UpdateHash
    BY <1>4, UpgradeKeeps, StatusKeeps, PullKeeps, CheckoutMasterKeeps, UpdateHashKeeps
  <1>5. CASE EnableMemory \/ DisableMemory \/ Sync
    BY <1>5, EnableMemoryKeeps, DisableMemoryKeeps, SyncKeeps
  <1>6. CASE RefreshMd5 \/ CalcFileMD5 \/ RefreshSummary
    BY <1>6, RefreshMd5Keeps, CalcFileMD5Keeps, RefreshSummaryKeeps
  <1>7. CASE Restart
    BY <1>7, RestartKeeps
  <1>8. CASE UNCHANGED vars
    BY <1>8 DEF IInv, TypeOK, CoreEnabled, Named, NotAhead, DisabledStay, Md5Fresh, SummaryFresh,
                Coherence, Coherent, Halfway, Sound, vars, table, told
  <1> QED
    BY <1>1, <1>2, <1>3, <1>4, <1>5, <1>6, <1>7, <1>8 DEF Next

\* IInv holds in every reachable state: each package is sound, or halfway through
\* the command in hand, or met by trouble, and what clients are told is up to date
\* whenever no refresh is owed (the commands of PackMan, refreshMd5, restarts).
THEOREM PackagesInvariant == Spec => []IInv
  <1>1. Init => IInv
    BY InitIInv
  <1>2. IInv /\ [Next]_vars => IInv'
    BY NextIInv
  <1> QED
    BY <1>1, <1>2, PTL DEF Spec

\* Every variable of the packages has its type; the core is never in the list of
\* disabled packages (disablePack), not even after a restart (PackMan::PackMan).
THEOREM TypeCorrect == Spec => []TypeOK
  <1>1. IInv => TypeOK
    BY DEF IInv
  <1> QED
    BY <1>1, PackagesInvariant, PTL

\* When no command and no refresh is under way, the md5 and the summary are those
\* of the packages as they are (refreshMd5 after every command, _refreshMd5).
THEOREM FreshHolds == Spec => []Fresh
  <1>1. IInv => Fresh
    BY DEF IInv, Fresh, Quiet, Md5Fresh, SummaryFresh
  <1> QED
    BY <1>1, PackagesInvariant, PTL

\* A client that follows the summary gets past the md5 check, for every package
\* that no failed or interrupted step has met (checkMd5, PackMan's commands).
THEOREM FollowableHolds == Spec => []Followable
  <1>1. IInv => Followable
    <2> SUFFICES ASSUME IInv, Quiet, NEW p \in Packs, p \notin trouble
                 PROVE  md5[p] = IF summary[p] = NoRow THEN 0 ELSE summary[p]
      BY DEF Followable
    <2>1. md5 = Files(disk, disabled_packs) /\ summary = Listed(hash, enabled)
      BY DEF IInv, Quiet, Md5Fresh, SummaryFresh
    <2>2. Sound(p, hash, enabled, disabled_packs)
      BY DEF IInv, Quiet, Coherence, Coherent, Changing, Prompt
    <2>3. p \in enabled => hash[p] # NoRow
      BY DEF IInv, TypeOK
    <2> QED
      BY <2>1, <2>2, <2>3 DEF Files, Listed, Sound
  <1> QED
    BY <1>1, PackagesInvariant, PTL

\* A package whose row says disabled is kept from new Lua processes, also after a
\* restart at any point (disablePack, enablePack, PackMan::PackMan).
THEOREM DisabledStayHolds == Spec => []DisabledStay
  <1>1. IInv => DisabledStay
    BY DEF IInv
  <1> QED
    BY <1>1, PackagesInvariant, PTL

=============================================================================
