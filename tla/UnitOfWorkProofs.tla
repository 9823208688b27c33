-------------------------- MODULE UnitOfWorkProofs --------------------------
(***************************************************************************)
(* Proofs about UnitOfWork, for any units, any connections and any way the *)
(* factories share them out.  Each operation has a lemma of its own, so    *)
(* that CreateUserWithPost, which calls the same operations in an order of *)
(* its own, can rest on them.                                              *)
(***************************************************************************)
EXTENDS UnitOfWork, TLAPS

(* What every operation keeps.  The two properties need one another: a     *)
(* statement is run because the unit is active, and that it reaches an     *)
(* open transaction is because an active unit owns one.                    *)
UInv == ActiveIsUsable /\ TransactionOwned

UnitStates == [alive : BOOLEAN, active : BOOLEAN, txn : BOOLEAN, repos : SUBSET Repos]

(* What a unit can be left as. *)
LEMMA UnitsLeft ==
  /\ Gone \in UnitStates /\ Fresh \in UnitStates
  /\ \A made \in SUBSET Repos :
       [Begun EXCEPT !.active = FALSE, !.repos = made] \in UnitStates
<1>1. Gone \in UnitStates /\ Fresh \in UnitStates
  BY DEF Gone, Fresh, UnitStates
<1>2. ASSUME NEW made \in SUBSET Repos
      PROVE  [Begun EXCEPT !.active = FALSE, !.repos = made] \in UnitStates
  BY DEF Begun, UnitStates
<1> QED BY <1>1, <1>2

LEMMA UInitInvariant == UInit => UInv
<1> SUFFICES ASSUME UInit PROVE UInv
  OBVIOUS
<1> USE UnitAssumption
<1>1. UTypeOK
  BY DEF UInit, UTypeOK, Gone
<1>2. ActiveIsUsable
  BY DEF UInit, ActiveIsUsable, Gone
<1>3. OneHolder /\ HeldOnServer
  BY DEF UInit, OneHolder, HeldOnServer, Busy, Gone, InTransaction
<1> QED BY <1>1, <1>2, <1>3 DEF UInv, TransactionOwned

-----------------------------------------------------------------------------
LEMMA CreateStep ==
  ASSUME NEW u \in Units, UInv, Create(u)
  PROVE  UInv'
<1> USE UnitAssumption DEF UInv, TransactionOwned, UTypeOK
<1>1. UTypeOK'
  BY DEF Create, Fresh, Gone
<1>2. ActiveIsUsable'
  BY DEF Create, Fresh, Gone, ActiveIsUsable
<1>3. OneHolder'
  BY DEF Create, Fresh, Gone, OneHolder
<1>4. HeldOnServer'
  BY DEF Create, Fresh, Gone, OneHolder, HeldOnServer, Busy, InTransaction
<1> QED BY <1>1, <1>2, <1>3, <1>4

LEMMA BeginOpensStep ==
  ASSUME NEW u \in Units, UInv, BeginOpens(u)
  PROVE  UInv'
<1> USE UnitAssumption DEF UInv, TransactionOwned, UTypeOK
<1>1. UTypeOK'
  BY DEF BeginOpens, CanBegin, Busy, Begun, Repos
<1>2. ActiveIsUsable'
  BY DEF BeginOpens, CanBegin, Busy, Begun, Repos, ActiveIsUsable
<1>3. OneHolder'
  BY DEF BeginOpens, CanBegin, Busy, Begun, Repos, OneHolder
<1>4. HeldOnServer'
  BY DEF BeginOpens, CanBegin, Busy, Begun, Repos, OneHolder, HeldOnServer, InTransaction
<1> QED BY <1>1, <1>2, <1>3, <1>4

LEMMA BeginStopsHalfwayStep ==
  ASSUME NEW u \in Units, UInv, BeginStopsHalfway(u)
  PROVE  UInv'
<1> USE UnitAssumption DEF UInv, TransactionOwned, UTypeOK
<1>1. UTypeOK'
  <2>1. unit' \in [Units -> UnitStates]
    <3>1. PICK made \in SUBSET Repos :
            unit' = [unit EXCEPT ![u] = [Begun EXCEPT !.active = FALSE, !.repos = made]]
      BY DEF BeginStopsHalfway, Repos
    <3> QED BY <3>1, UnitsLeft DEF UnitStates
  <2> QED BY <2>1 DEF BeginStopsHalfway, UnitStates
<1>2. ActiveIsUsable'
  BY DEF BeginStopsHalfway, CanBegin, Busy, Begun, Repos, ActiveIsUsable
<1>3. OneHolder'
  BY DEF BeginStopsHalfway, CanBegin, Busy, Begun, Repos, OneHolder
<1>4. HeldOnServer'
  BY DEF BeginStopsHalfway, CanBegin, Busy, Begun, Repos, OneHolder, HeldOnServer, InTransaction
<1> QED BY <1>1, <1>2, <1>3, <1>4

LEMMA BeginThrowsStep ==
  ASSUME NEW u \in Units, UInv, BeginThrows(u)
  PROVE  UInv'
<1> USE UnitAssumption DEF UInv, TransactionOwned, UTypeOK
<1>1. UTypeOK'
  BY DEF BeginThrows, CanBegin, NoticeCut
<1>2. ActiveIsUsable'
  BY DEF BeginThrows, CanBegin, NoticeCut, ActiveIsUsable
<1>3. OneHolder'
  BY DEF BeginThrows, CanBegin, NoticeCut, OneHolder
<1>4. HeldOnServer'
  BY DEF BeginThrows, CanBegin, NoticeCut, OneHolder, HeldOnServer, Busy, InTransaction
<1> QED BY <1>1, <1>2, <1>3, <1>4

LEMMA CleanupStep ==
  ASSUME NEW u \in Units, NEW after \in {Fresh, Gone}, UInv, Cleanup(u, after)
  PROVE  UInv'
<1> USE UnitAssumption DEF UInv, TransactionOwned, UTypeOK
<1>1. UTypeOK'
  <2>1. unit' \in [Units -> UnitStates]
    BY UnitsLeft DEF Cleanup, UnitStates
  <2>2. CASE unit[u].txn
    BY <2>1, <2>2 DEF Cleanup, Abort, NoticeCut, UnitStates
  <2>3. CASE ~unit[u].txn
    BY <2>1, <2>3 DEF Cleanup, UnitStates
  <2> QED BY <2>2, <2>3
<1>2. ActiveIsUsable'
  BY DEF Cleanup, Abort, NoticeCut, Fresh, Gone, ActiveIsUsable
<1>3. OneHolder'
  BY DEF Cleanup, Abort, NoticeCut, Fresh, Gone, OneHolder
<1>4. HeldOnServer'
  BY DEF Cleanup, Abort, NoticeCut, Fresh, Gone, OneHolder, HeldOnServer, Busy, InTransaction
<1> QED BY <1>1, <1>2, <1>3, <1>4

LEMMA CommitReturnsStep ==
  ASSUME NEW u \in Units, UInv, CommitReturns(u)
  PROVE  UInv'
<1> USE UnitAssumption DEF UInv, TransactionOwned, UTypeOK
<1>1. UTypeOK'
  BY DEF CommitReturns, CanCommit, Fresh, Gone
<1>2. ActiveIsUsable'
  BY DEF CommitReturns, CanCommit, Fresh, Gone, ActiveIsUsable
<1>3. OneHolder'
  BY DEF CommitReturns, CanCommit, Fresh, Gone, OneHolder
<1>4. HeldOnServer'
  BY DEF CommitReturns, CanCommit, Fresh, Gone, OneHolder, HeldOnServer, Busy, InTransaction
<1> QED BY <1>1, <1>2, <1>3, <1>4

LEMMA CommitThrowsStep ==
  ASSUME NEW u \in Units, UInv, CommitThrows(u)
  PROVE  UInv'
<1> USE UnitAssumption DEF UInv, TransactionOwned, UTypeOK
<1>1. CASE Cleanup(u, Fresh)
  BY <1>1, CleanupStep
<1>2. CASE ~Cleanup(u, Fresh)
  <2> USE <1>2 DEF CommitThrows, CanCommit, Fresh, Gone
  <2>1. UTypeOK'
    <3>1. unit' = [unit EXCEPT ![u] = Fresh]
      OBVIOUS
    <3>2. unit' \in [Units -> UnitStates]
      <4> HIDE DEF Fresh, Gone
      <4> QED BY <3>1, UnitsLeft DEF UnitStates
    <3>3. /\ conn' \in [Conns -> {"open", "cut", "closed"}]
          /\ session' \in [Conns -> {"idle", "open", "failed", "committing", "ended"}]
          /\ UNCHANGED <<writes, committed>>
      OBVIOUS
    <3> QED BY <3>2, <3>3 DEF UnitStates
  <2>2. ActiveIsUsable'
    BY DEF ActiveIsUsable
  <2>3. OneHolder'
    BY DEF OneHolder
  <2>4. HeldOnServer'
    <3>1. conn'[ConnOf[u]] = "closed" /\ \A c \in Conns \ {ConnOf[u]} :
            conn'[c] = conn[c] /\ session'[c] = session[c]
      OBVIOUS
    <3>2. \A v \in Units : ConnOf[v] # ConnOf[u] => unit'[v] = unit[v]
      OBVIOUS
    <3>3. \A c \in Conns \ {ConnOf[u]} : Busy(c)' <=> Busy(c)
      BY <3>2 DEF Busy
    <3> QED BY <3>1, <3>3 DEF HeldOnServer, InTransaction
  <2> QED BY <2>1, <2>2, <2>3, <2>4
<1> QED BY <1>1, <1>2

LEMMA StatementStep ==
  ASSUME NEW u \in Units, NEW r, NEW ws \in SUBSET Writes, UInv, Statement(u, r, ws)
  PROVE  UInv'
<1> USE UnitAssumption DEF UInv, TransactionOwned, UTypeOK
<1>1. UTypeOK'
  BY DEF Statement, CanUse
<1>2. ActiveIsUsable'
  BY DEF Statement, CanUse, ActiveIsUsable
<1>3. OneHolder'
  BY DEF Statement, CanUse, OneHolder
<1>4. HeldOnServer'
  BY DEF Statement, CanUse, OneHolder, HeldOnServer, Busy, InTransaction
<1> QED BY <1>1, <1>2, <1>3, <1>4

LEMMA StatementRefusedStep ==
  ASSUME NEW u \in Units, NEW r, UInv, StatementRefused(u, r)
  PROVE  UInv'
<1> USE UnitAssumption DEF UInv, TransactionOwned, UTypeOK
<1>1. UTypeOK'
  BY DEF StatementRefused, CanUse
<1>2. ActiveIsUsable'
  BY DEF StatementRefused, CanUse, ActiveIsUsable
<1>3. OneHolder'
  BY DEF StatementRefused, CanUse, OneHolder
<1>4. HeldOnServer'
  BY DEF StatementRefused, CanUse, ActiveIsUsable, OneHolder, HeldOnServer, Busy, InTransaction
<1> QED BY <1>1, <1>2, <1>3, <1>4

LEMMA StatementLostStep ==
  ASSUME NEW u \in Units, NEW r, NEW ws \in SUBSET Writes, UInv, StatementLost(u, r, ws)
  PROVE  UInv'
<1> USE UnitAssumption DEF UInv, TransactionOwned, UTypeOK
<1>1. UTypeOK'
  BY DEF StatementLost, CanUse
<1>2. ActiveIsUsable'
  BY DEF StatementLost, CanUse, ActiveIsUsable
<1>3. OneHolder'
  BY DEF StatementLost, CanUse, OneHolder
<1>4. HeldOnServer'
  BY DEF StatementLost, CanUse, OneHolder, HeldOnServer, Busy, InTransaction
<1> QED BY <1>1, <1>2, <1>3, <1>4

LEMMA CutStep ==
  ASSUME NEW c \in Conns, UInv, Cut(c)
  PROVE  UInv'
<1> USE UnitAssumption DEF UInv, TransactionOwned, UTypeOK
<1>1. UTypeOK'
  BY DEF Cut
<1>2. ActiveIsUsable'
  BY DEF Cut, ActiveIsUsable
<1>3. OneHolder'
  BY DEF Cut, OneHolder
<1>4. HeldOnServer'
  BY DEF Cut, OneHolder, HeldOnServer, Busy, InTransaction
<1> QED BY <1>1, <1>2, <1>3, <1>4

LEMMA ServerDropsStep ==
  ASSUME NEW c \in Conns, UInv, ServerDrops(c)
  PROVE  UInv'
<1> USE UnitAssumption DEF UInv, TransactionOwned, UTypeOK
<1>1. UTypeOK'
  BY DEF ServerDrops
<1>2. ActiveIsUsable'
  BY DEF ServerDrops, ActiveIsUsable
<1>3. OneHolder'
  BY DEF ServerDrops, OneHolder
<1>4. HeldOnServer'
  BY DEF ServerDrops, OneHolder, HeldOnServer, Busy, InTransaction
<1> QED BY <1>1, <1>2, <1>3, <1>4

LEMMA ServerCommitsStep ==
  ASSUME NEW c \in Conns, UInv, ServerCommits(c)
  PROVE  UInv'
<1> USE UnitAssumption DEF UInv, TransactionOwned, UTypeOK
<1>1. UTypeOK'
  BY DEF ServerCommits
<1>2. ActiveIsUsable'
  BY DEF ServerCommits, ActiveIsUsable
<1>3. OneHolder'
  BY DEF ServerCommits, OneHolder
<1>4. HeldOnServer'
  BY DEF ServerCommits, OneHolder, HeldOnServer, Busy, InTransaction
<1> QED BY <1>1, <1>2, <1>3, <1>4

-----------------------------------------------------------------------------
LEMMA UStep == UInv /\ [UNext]_uvars => UInv'
<1> SUFFICES ASSUME UInv, [UNext]_uvars PROVE UInv'
  OBVIOUS
<1>1. CASE UNCHANGED uvars
  BY <1>1 DEF uvars, UInv, ActiveIsUsable, TransactionOwned, UTypeOK,
              OneHolder, HeldOnServer, Busy
<1>2. ASSUME NEW u \in Units, Create(u)  PROVE UInv'
  BY <1>2, CreateStep
<1>3. ASSUME NEW u \in Units, BeginOpens(u)  PROVE UInv'
  BY <1>3, BeginOpensStep
<1>4. ASSUME NEW u \in Units, BeginStopsHalfway(u)  PROVE UInv'
  BY <1>4, BeginStopsHalfwayStep
<1>5. ASSUME NEW u \in Units, BeginThrows(u)  PROVE UInv'
  BY <1>5, BeginThrowsStep
<1>6. ASSUME NEW u \in Units, CommitReturns(u)  PROVE UInv'
  BY <1>6, CommitReturnsStep
<1>7. ASSUME NEW u \in Units, CommitThrows(u)  PROVE UInv'
  BY <1>7, CommitThrowsStep
<1>8. ASSUME NEW u \in Units, Rollback(u) \/ Destroy(u)  PROVE UInv'
  BY <1>8, CleanupStep DEF Rollback, Destroy
<1>9. ASSUME NEW u \in Units, NEW r, StatementRefused(u, r)  PROVE UInv'
  BY <1>9, StatementRefusedStep
<1>10. ASSUME NEW u \in Units, NEW r, NEW ws \in {{}} \cup {{w} : w \in Writes},
              Statement(u, r, ws) \/ StatementLost(u, r, ws)
       PROVE  UInv'
  <2>1. ws \in SUBSET Writes
    OBVIOUS
  <2> QED BY <1>10, <2>1, StatementStep, StatementLostStep
<1>11. ASSUME NEW c \in Conns, Cut(c) \/ ServerDrops(c) \/ ServerCommits(c)
       PROVE  UInv'
  BY <1>11, CutStep, ServerDropsStep, ServerCommitsStep
<1> QED
  BY <1>1, <1>2, <1>3, <1>4, <1>5, <1>6, <1>7, <1>8, <1>9, <1>10, <1>11
  DEF UNext, CreateThrows, CommitRefused, RepoThrows

(* Whatever calls are made in whatever order and whatever breaks, an       *)
(* active unit has its transaction and its repositories, and no repository *)
(* outlives the transaction it refers to.                                  *)
THEOREM UnitUsable == USpec => []ActiveIsUsable
<1>1. UInv => ActiveIsUsable
  BY DEF UInv
<1> QED BY <1>1, UInitInvariant, UStep, PTL DEF USpec

(* However many units share a connection, the transaction open on it       *)
(* belongs to one living unit, and ends with it.                           *)
THEOREM TransactionsOwned == USpec => []TransactionOwned
<1>1. UInv => TransactionOwned
  BY DEF UInv
<1> QED BY <1>1, UInitInvariant, UStep, PTL DEF USpec
=============================================================================
