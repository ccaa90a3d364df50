------------------------- MODULE SourceLocks_proofs -------------------------
(* For any number of clients and sources: commands that take their source  *)
(* locks in sorted order and their fiscal lock last never wait in a cycle. *)
EXTENDS SourceLocks, WellFoundedInduction, TLAPS

Less == {pair \in Nat \X Nat : pair[1] < pair[2]}

LEMMA LessIsWellFounded == IsWellFoundedOn(Less, Nat)
BY NatLessThanWellFounded DEF OpToRel, Less

(* A bounded nonempty set of numbers has a greatest element. *)
LEMMA GreatestElement ==
  ASSUME NEW N \in Nat, NEW T, T \subseteq 0..N, T # {}
  PROVE  \E m \in T : \A n \in T : n <= m
<1> DEFINE U == {N - n : n \in T}
<1>1. \A n \in T : n \in Nat /\ N - n \in Nat
  OBVIOUS
<1>2. U \subseteq Nat /\ U # {}
  BY <1>1, Zenon
<1>3. PICK u \in U : \A v \in U : <<v, u>> \notin Less
  <2>. HIDE DEF U
  <2>. QED  BY <1>2, LessIsWellFounded, WFMin
<1>4. PICK m \in T : u = N - m
  OBVIOUS
<1>5. ASSUME NEW n \in T PROVE n <= m
  <2>1. N - n \in U
    OBVIOUS
  <2>2. <<N - n, N - m>> \notin Less
    BY <1>3, <1>4, <2>1
  <2>3. n \in Nat /\ m \in Nat /\ N - n \in Nat /\ N - m \in Nat
    BY <1>1
  <2>. HIDE DEF U
  <2>4. ~(N - n < N - m)
    BY <2>2, <2>3 DEF Less
  <2>. QED  BY <2>3, <2>4
<1>. QED  BY <1>5

-----------------------------------------------------------------------------
USE SourcesAssumption

(* Held locks of a running command rank below the ones it still needs. *)
HeldInOrder ==
  \A c \in Client :
    /\ cmd[c] # None => cmd[c].kind \in Offered
    /\ \A p \in held[c], q \in Missing(c) : Rank(cmd[c], p) < Rank(cmd[c], q)

LEMMA NeedsType ==
  ASSUME NEW r \in Command
  PROVE  Needs(r) \subseteq Request
BY DEF Command, Needs, Request, Shared, Exclusive, SourceFirst, FiscalFirst, Source

(* The rank of a lock, the same for every command that is source-first. *)
LockRank(q) == IF q.what = "fiscal" THEN Sources + q.source ELSE q.source

LEMMA RankOfSourceFirst ==
  ASSUME SameCollation, NEW r, r.kind \in SourceFirst, NEW q
  PROVE  Rank(r, q) = LockRank(q)
BY DEF Rank, LockRank, SourceFirst, FiscalFirst

LEMMA LockRankType ==
  ASSUME NEW q \in Request
  PROVE  LockRank(q) \in 0..(2 * Sources)
BY DEF Request, Source, LockRank

(* A command needs a lock in one mode only, so ranks tell its needs apart. *)
LEMMA RankTellsNeedsApart ==
  ASSUME NEW r \in Command, r.kind \in SourceFirst,
         NEW p \in Needs(r), NEW q \in Needs(r), LockRank(p) = LockRank(q)
  PROVE  p = q
<1>1. p \in Request /\ q \in Request
  BY NeedsType
<1>2. p.what = q.what /\ p.source = q.source
  BY <1>1 DEF Request, Source, LockRank
<1>3. p.exclusive = q.exclusive
  BY <1>2 DEF Needs, Shared, Exclusive, SourceFirst
<1>. QED  BY <1>1, <1>2, <1>3 DEF Request

LEMMA ConflictHasRank ==
  ASSUME NEW p, NEW q, Conflict(p, q)
  PROVE  LockRank(p) = LockRank(q)
BY DEF Conflict, LockRank
-----------------------------------------------------------------------------
(* Every transaction holds locks its command needs, and none when idle. *)
THEOREM LocksTypeCorrect == Spec => []TypeOK
<1>1. Init => TypeOK
  BY DEF Init, TypeOK
<1>2. TypeOK /\ [Next]_vars => TypeOK'
  <2>. SUFFICES ASSUME TypeOK, [Next]_vars PROVE TypeOK'
    OBVIOUS
  <2>. USE DEF TypeOK
  <2>1. ASSUME NEW c \in Client, NEW r \in Command, Begin(c, r) PROVE TypeOK'
    BY <2>1, NoneAssumption DEF Begin
  <2>2. ASSUME NEW c \in Client, Acquire(c) PROVE TypeOK'
    <3>1. PICK q \in NextRequest(c) : held' = [held EXCEPT ![c] = @ \cup {q}]
      BY <2>2 DEF Acquire
    <3>2. cmd[c] # None /\ q \in Needs(cmd[c])
      BY <3>1 DEF NextRequest, Missing
    <3>3. q \in Request
      BY <3>2, NeedsType
    <3>4. asked' \subseteq Client /\ ahead' \in [Client -> SUBSET asked']
      BY <2>2 DEF Acquire, LeaveQueue
    <3>. QED  BY <2>2, <3>1, <3>2, <3>3, <3>4 DEF Acquire
  <2>3. ASSUME NEW c \in Client, Release(c) PROVE TypeOK'
    <3>1. asked' \subseteq Client /\ ahead' \in [Client -> SUBSET asked']
      BY <2>3 DEF Release, LeaveQueue
    <3>. QED  BY <2>3, <3>1 DEF Release
  <2>5. ASSUME NEW c \in Client, Ask(c) PROVE TypeOK'
    BY <2>5 DEF Ask
  <2>4. CASE UNCHANGED vars
    BY <2>4 DEF vars
  <2>. QED  BY <2>1, <2>2, <2>3, <2>4, <2>5 DEF Next, Commit, Abort
<1>. QED  BY <1>1, <1>2, PTL DEF Spec

LEMMA OrderedStep ==
  ASSUME SameCollation, Offered \subseteq SourceFirst, TypeOK, HeldInOrder, [Next]_vars
  PROVE  HeldInOrder'
<1>. USE DEF TypeOK, HeldInOrder, Missing
<1>1. ASSUME NEW c \in Client, NEW r \in Command, Begin(c, r) PROVE HeldInOrder'
  BY <1>1, NoneAssumption DEF Begin
<1>2. ASSUME NEW c \in Client, Acquire(c) PROVE HeldInOrder'
  <2>1. PICK q \in NextRequest(c) : held' = [held EXCEPT ![c] = @ \cup {q}]
    BY <1>2 DEF Acquire
  <2>2. cmd' = cmd /\ cmd[c] # None /\ q \in Needs(cmd[c]) \ held[c]
    BY <1>2, <2>1 DEF Acquire, NextRequest
  <2>3. cmd[c] \in Command /\ cmd[c].kind \in SourceFirst
    BY <2>2
  <2>4. ASSUME NEW p \in held[c] \cup {q}, NEW n \in Needs(cmd[c]) \ (held[c] \cup {q})
        PROVE  Rank(cmd[c], p) < Rank(cmd[c], n)
    <3>1. CASE p \in held[c]
      BY <2>2, <3>1
    <3>2. CASE p = q
      <4>1. Rank(cmd[c], q) <= Rank(cmd[c], n)
        BY <2>1, <2>2 DEF NextRequest
      <4>2. LockRank(q) # LockRank(n)
        BY <2>2, <2>3, RankTellsNeedsApart
      <4>3. LockRank(q) \in 0..(2 * Sources) /\ LockRank(n) \in 0..(2 * Sources)
        BY <2>2, <2>3, NeedsType, LockRankType
      <4>. QED  BY <2>3, <3>2, <4>1, <4>2, <4>3, RankOfSourceFirst
    <3>. QED  BY <3>1, <3>2
  <2>. QED  BY <2>1, <2>2, <2>4
<1>3. ASSUME NEW c \in Client, Release(c) PROVE HeldInOrder'
  BY <1>3 DEF Release
<1>4. CASE UNCHANGED <<cmd, held>>
  BY <1>4
<1>. QED  BY <1>1, <1>2, <1>3, <1>4 DEF Next, Commit, Abort, Ask, vars

(* The client that waits for the highest lock waits for one that does not  *)
(* wait: whoever holds that lock needs only higher ones.                   *)
LEMMA OrderExcludesCycles ==
  ASSUME SameCollation, Offered \subseteq SourceFirst, TypeOK, HeldInOrder
  PROVE  NoWaitCycle
<1>. SUFFICES ASSUME NEW D \in SUBSET Client, D # {},
                     \A c \in D : \E d \in D : WaitsFor(c, d)
              PROVE  FALSE
  BY DEF NoWaitCycle
<1> DEFINE T == {n \in 0..(2 * Sources) :
                  \E c \in D : \E q \in NextRequest(c) : n = LockRank(q)}
<1>1. ASSUME NEW c \in D, NEW q \in NextRequest(c)
      PROVE  /\ cmd[c] \in Command /\ cmd[c].kind \in SourceFirst
             /\ q \in Missing(c) /\ q \in Request /\ LockRank(q) \in T
  <2>1. cmd[c] # None /\ q \in Missing(c) /\ q \in Needs(cmd[c])
    BY <1>1 DEF NextRequest, Missing
  <2>2. cmd[c] \in Command /\ cmd[c].kind \in SourceFirst
    BY <2>1 DEF TypeOK, HeldInOrder
  <2>3. q \in Request
    BY <2>1, <2>2, NeedsType
  <2>. QED  BY <2>1, <2>2, <2>3, LockRankType
<1>2. T # {}
  <2>1. PICK c \in D : \E q \in NextRequest(c) : TRUE
    BY DEF WaitsFor
  <2>. HIDE DEF T
  <2>. QED  BY <2>1, <1>1
<1>3. PICK m \in T : \A n \in T : n <= m
  <2>. HIDE DEF T
  <2>1. T \subseteq 0..(2 * Sources) /\ 2 * Sources \in Nat
    BY DEF T
  <2>. QED  BY <1>2, <2>1, GreatestElement
<1>4. PICK c \in D : \E w \in NextRequest(c) : m = LockRank(w)
  OBVIOUS
<1>w. PICK w \in NextRequest(c) : m = LockRank(w)
  BY <1>4
<1>. HIDE DEF T
<1>5. PICK d \in D : WaitsFor(c, d)
  OBVIOUS
<1>6. PICK q \in NextRequest(c), p \in held[d] : Conflict(p, q)
  BY <1>5 DEF WaitsFor
<1>7. LockRank(q) = m
  <2>1. Rank(cmd[c], q) <= Rank(cmd[c], w) /\ Rank(cmd[c], w) <= Rank(cmd[c], q)
    BY <1>6 DEF NextRequest
  <2>2. LockRank(q) \in 0..(2 * Sources) /\ LockRank(w) \in 0..(2 * Sources)
    BY <1>1, <1>6, LockRankType
  <2>3. Rank(cmd[c], q) = LockRank(q) /\ Rank(cmd[c], w) = LockRank(w)
    BY <1>1, <1>6, RankOfSourceFirst
  <2>. QED  BY <1>w, <2>1, <2>2, <2>3
<1>8. LockRank(p) = m
  BY <1>6, <1>7, ConflictHasRank
<1>9. PICK n \in NextRequest(d) : TRUE
  BY DEF WaitsFor
<1>10. LockRank(p) < LockRank(n)
  BY <1>1, <1>6, <1>9, RankOfSourceFirst DEF HeldInOrder
<1>11. LockRank(n) <= m /\ m \in 0..(2 * Sources) /\ LockRank(n) \in 0..(2 * Sources)
  BY <1>1, <1>3, <1>9, LockRankType DEF T
<1>. QED  BY <1>8, <1>10, <1>11

(***************************************************************************)
(* Whatever the number of clients and sources, as long as only source-first*)
(* commands run and the database sorts the source ids as the application   *)
(* does, no set of transactions waits in a cycle.                          *)
(***************************************************************************)
THEOREM SourceFirstNeverDeadlocks ==
  ASSUME SameCollation, Offered \subseteq SourceFirst
  PROVE  Spec => []NoWaitCycle
<1>1. Init => HeldInOrder
  BY DEF Init, HeldInOrder, Missing
<1>2. TypeOK /\ HeldInOrder /\ [Next]_vars => HeldInOrder'
  BY OrderedStep
<1>3. TypeOK /\ HeldInOrder => NoWaitCycle
  BY OrderExcludesCycles
<1>. QED  BY <1>1, <1>2, <1>3, LocksTypeCorrect, PTL DEF Spec
=============================================================================
