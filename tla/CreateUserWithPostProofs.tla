---------------------- MODULE CreateUserWithPostProofs ----------------------
(***************************************************************************)
(* Proofs about CreateUserWithPost, for any number of runs of the program  *)
(* and any emails.  A step belongs to one run: RunStep shows what it does  *)
(* to that run, and Together what that means for all of them.  What the    *)
(* calls do to the units of work comes from UnitOfWorkProofs.  What becomes *)
(* of tags between the database and the program (TagQuery) is shown in the *)
(* end, for any names.                                                     *)
(***************************************************************************)
EXTENDS CreateUserWithPost, FiniteSetTheorems, SequenceTheorems,
        WellFoundedInduction, TLAPS

UP == INSTANCE UnitOfWorkProofs
        WITH Units <- Runs, Conns <- Runs, Writes <- Rows, ConnOf <- SameConn

-----------------------------------------------------------------------------
(* The inductive invariant: what a session has written follows from how    *)
(* far its run has come, so that whatever the server commits is a pair.    *)
Both(r) == {Row("users", r), Row("posts", r)}
Before == {"start", "tagsBegin", "tagsQuery", "tagsCommit", "tagsDone", "create",
           "begin", "insertUser", "exists"}

WritesKnown(r) ==
  /\ writes[r] \subseteq Both(r)
  /\ session[r] \in {"idle", "failed", "ended"} => writes[r] = {}
  /\ session[r] = "committing" => writes[r] = {} \/ (writes[r] = Both(r) /\ sent[r])
  /\ conn[r] = "open" => session[r] \notin {"committing", "ended"}
  /\ pc[r] \in Before => writes[r] = {}
  /\ pc[r] = "insertPost" /\ session[r] = "open" => Row("users", r) \in writes[r]
  /\ pc[r] = "commit" /\ session[r] = "open" => writes[r] = Both(r)

Stored(r) ==
  /\ Row("users", r) \in committed <=> Row("posts", r) \in committed
  /\ Row("users", r) \in committed => sent[r]

Spoken(r) ==
  /\ answer[r] = "Success" => Row("users", r) \in committed
  /\ answer[r] \in {"UserExists", "threw"} => ~sent[r] /\ writes[r] = {}
  /\ answer[r] = "UserExists" \/ pc[r] = "exists" => Taken(r)

Placed(r) ==
  /\ unit[r].alive <=> pc[r] \in InUnit
  /\ answer[r] # NoAnswer => pc[r] \in Answered
  /\ sent[r] => pc[r] \in Answered \cup {"catch"}

RunInv(r) == WritesKnown(r) /\ Stored(r) /\ Spoken(r) /\ Placed(r)

(* An email is claimed by a row that is committed or may be. *)
Claims(r) == Row("users", r) \in committed \/ Row("users", r) \in writes[r]
OneClaim == \A r, s \in Runs : request[r] = request[s] /\ Claims(r) /\ Claims(s) => r = s

Answers == {NoAnswer, "Success", "UserExists", "Error", "threw"}
RunTypes ==
  /\ pc \in [Runs -> InUnit \cup {"start", "create", "exit", "gone"}]
  /\ request \in [Runs -> Emails \cup {NoEmail}]
  /\ answer \in [Runs -> Answers]
  /\ sent \in [Runs -> BOOLEAN]
  /\ told \in [Runs -> SUBSET (Guests \cup Runs)]

IInv == /\ RunTypes
        /\ UP!UInv
        /\ \A r \in Runs : RunInv(r)
        /\ OneClaim

-----------------------------------------------------------------------------
LEMMA RowsApart ==
  ASSUME NEW t, NEW v, NEW r, NEW s
  PROVE  Row(t, r) = Row(v, s) <=> t = v /\ r = s
BY DEF Row

LEMMA RowsTyped == \A r \in Runs : Both(r) \subseteq Rows
BY DEF Both, Row, Rows

LEMMA OwnConn == SameConn \in [Runs -> Runs] /\ \A r \in Runs : SameConn[r] = r
BY DEF SameConn

(* What UnitOfWork says of the one unit that uses a connection. *)
RunStates == [alive : BOOLEAN, active : BOOLEAN, txn : BOOLEAN,
              repos : SUBSET {"users", "posts", "tags"}]

LEMMA RunFacts ==
  ASSUME IInv
  PROVE  /\ conn \in [Runs -> {"open", "cut", "closed"}]
         /\ session \in [Runs -> {"idle", "open", "failed", "committing", "ended"}]
         /\ writes \in [Runs -> SUBSET Rows]
         /\ unit \in [Runs -> RunStates]
         /\ \A r \in Runs :
              /\ SameConn[r] = r
              /\ unit[r].active => unit[r].txn
              /\ unit[r].txn => unit[r].alive
              /\ U!Busy(r) <=> unit[r].txn
              /\ conn[r] = "open" => (session[r] \in {"open", "failed"} <=> unit[r].txn)
<1> USE OwnConn DEF IInv, UP!UInv, UP!TransactionOwned
<1>1. /\ conn \in [Runs -> {"open", "cut", "closed"}]
      /\ session \in [Runs -> {"idle", "open", "failed", "committing", "ended"}]
      /\ writes \in [Runs -> SUBSET Rows]
      /\ unit \in [Runs -> RunStates]
  BY DEF UP!UTypeOK, RunStates, UP!Repos
<1>2. ASSUME NEW r \in Runs
      PROVE  /\ U!Busy(r) <=> unit[r].txn
             /\ UP!Busy(r) <=> unit[r].txn
  BY DEF U!Busy, UP!Busy
<1>3. ASSUME NEW r \in Runs
      PROVE  /\ unit[r].active => unit[r].txn
             /\ unit[r].txn => unit[r].alive
  BY DEF UP!OneHolder, UP!ActiveIsUsable
<1>4. ASSUME NEW r \in Runs, conn[r] = "open"
      PROVE  session[r] \in {"open", "failed"} <=> unit[r].txn
  BY <1>2, <1>4 DEF UP!HeldOnServer, UP!InTransaction
<1> QED BY <1>1, <1>2, <1>3, <1>4

-----------------------------------------------------------------------------
(* What each call of a unit of work does, seen from the run that calls it. *)
Others(r) == \A s \in Runs \ {r} : /\ conn'[s] = conn[s] /\ session'[s] = session[s]
                                   /\ writes'[s] = writes[s] /\ unit'[s] = unit[s]
Quiet(r) == /\ conn'[r] = conn[r] /\ session'[r] = session[r]
            /\ writes'[r] = writes[r] /\ committed' = committed
Opened(r) == /\ conn[r] = "open" /\ conn'[r] = "open"
             /\ session[r] = "idle" /\ session'[r] = "open"
             /\ writes'[r] = writes[r] /\ committed' = committed
Found(r) == /\ Quiet(r) \/ (conn'[r] = "closed" /\ conn[r] # "open")
            /\ session'[r] = session[r] /\ writes'[r] = writes[r] /\ committed' = committed
Ran(r, ws) == /\ conn[r] = "open" /\ conn'[r] = "open"
              /\ session[r] = "open" /\ session'[r] = "open"
              /\ writes'[r] = writes[r] \cup ws /\ committed' = committed
Failed(r) == /\ conn[r] = "open" /\ conn'[r] = "open"
             /\ session'[r] = "failed" /\ writes'[r] = {} /\ committed' = committed
Lost(r, ws) == /\ conn'[r] = "closed" /\ session'[r] = session[r] /\ committed' = committed
               /\ \/ writes'[r] = writes[r]
                  \/ session[r] = "open" /\ writes'[r] = writes[r] \cup ws
Stays(r) == /\ conn[r] = "open" /\ conn'[r] = "open" /\ session[r] = "open"
            /\ session'[r] = "idle" /\ writes'[r] = {}
            /\ committed' = committed \cup writes[r]
InDoubt(r) == /\ conn'[r] = "closed" /\ writes'[r] = writes[r] /\ committed' = committed
              /\ \/ session'[r] = session[r]
                 \/ session[r] = "open" /\ session'[r] = "committing"
Freed(r) == /\ committed' = committed
            /\ \/ conn'[r] = "open" /\ session'[r] = "idle" /\ writes'[r] = {}
               \/ /\ conn[r] # "open" /\ conn'[r] # "open"
                  /\ session'[r] = session[r] /\ writes'[r] = writes[r]
LEMMA CreateEffect ==
  ASSUME IInv, NEW r \in Runs, U!Create(r)
  PROVE  UP!UInv' /\ Others(r) /\ Quiet(r) /\ unit'[r].alive
<1> USE RunFacts DEF RunStates
<1>1. UP!Create(r)
  BY DEF U!Create, U!Fresh, U!Gone, UP!Create, UP!Fresh, UP!Gone
<1>2. UP!UInv'
  BY <1>1, OwnConn, UP!CreateStep DEF IInv
<1>3. Others(r)
  BY DEF Others, U!Create, U!Fresh, U!Gone
<1>4. Quiet(r)
  BY DEF Quiet, U!Create, U!Fresh, U!Gone
<1>5. unit'[r].alive
  BY DEF U!Create, U!Fresh, U!Gone
<1> QED BY <1>2, <1>3, <1>4, <1>5

LEMMA BeginOpensEffect ==
  ASSUME IInv, NEW r \in Runs, U!BeginOpens(r)
  PROVE  UP!UInv' /\ Others(r) /\ Opened(r) /\ unit'[r].alive
<1> USE RunFacts DEF RunStates
<1>1. UP!BeginOpens(r)
  BY DEF U!BeginOpens, U!CanBegin, U!Busy, U!Begun, U!Repos, UP!BeginOpens,
         UP!CanBegin, UP!Busy, UP!Begun, UP!Repos
<1>2. UP!UInv'
  BY <1>1, OwnConn, UP!BeginOpensStep DEF IInv
<1>3. Others(r)
  BY DEF Others, U!BeginOpens, U!CanBegin, U!Busy, U!Begun, U!Repos
<1>4. Opened(r)
  BY DEF Opened, IInv, RunInv, WritesKnown, U!BeginOpens, U!CanBegin, U!Busy, U!Begun, U!Repos
<1>5. unit'[r].alive
  BY DEF U!BeginOpens, U!CanBegin, U!Busy, U!Begun, U!Repos
<1> QED BY <1>2, <1>3, <1>4, <1>5

LEMMA BeginStopsHalfwayEffect ==
  ASSUME IInv, NEW r \in Runs, U!BeginStopsHalfway(r)
  PROVE  UP!UInv' /\ Others(r) /\ Opened(r) /\ unit'[r].alive
<1> USE RunFacts DEF RunStates
<1>1. UP!BeginStopsHalfway(r)
  BY DEF U!BeginStopsHalfway, U!CanBegin, U!Busy, U!Begun, U!Repos,
         UP!BeginStopsHalfway, UP!CanBegin, UP!Busy, UP!Begun, UP!Repos
<1>2. UP!UInv'
  BY <1>1, OwnConn, UP!BeginStopsHalfwayStep DEF IInv
<1>3. Others(r)
  BY DEF Others, U!BeginStopsHalfway, U!CanBegin, U!Busy, U!Begun, U!Repos
<1>4. Opened(r)
  BY DEF Opened, IInv, RunInv, WritesKnown, U!BeginStopsHalfway, U!CanBegin, U!Busy, U!Begun, U!Repos
<1>5. unit'[r].alive
  BY DEF U!BeginStopsHalfway, U!CanBegin, U!Busy, U!Begun, U!Repos
<1> QED BY <1>2, <1>3, <1>4, <1>5

LEMMA BeginThrowsEffect ==
  ASSUME IInv, NEW r \in Runs, U!BeginThrows(r)
  PROVE  UP!UInv' /\ Others(r) /\ Found(r) /\ unit'[r].alive
<1> USE RunFacts DEF RunStates
<1>1. UP!BeginThrows(r)
  BY DEF U!BeginThrows, U!CanBegin, U!Busy, U!NoticeCut, UP!BeginThrows,
         UP!CanBegin, UP!Busy, UP!NoticeCut
<1>2. UP!UInv'
  BY <1>1, OwnConn, UP!BeginThrowsStep DEF IInv
<1>3. Others(r)
  BY DEF Others, U!BeginThrows, U!CanBegin, U!Busy, U!NoticeCut
<1>4. Found(r)
  BY DEF Found, Quiet, U!BeginThrows, U!CanBegin, U!Busy, U!NoticeCut
<1>5. unit'[r].alive
  BY DEF U!BeginThrows, U!CanBegin, U!Busy, U!NoticeCut
<1> QED BY <1>2, <1>3, <1>4, <1>5

LEMMA StatementEffect ==
  ASSUME IInv, NEW r \in Runs, NEW rep, NEW ws \in SUBSET Rows, U!Statement(r, rep, ws)
  PROVE  UP!UInv' /\ Others(r) /\ Ran(r, ws) /\ unit'[r] = unit[r]
<1> USE RunFacts DEF RunStates
<1>1. UP!Statement(r, rep, ws)
  BY DEF U!Statement, U!CanUse, UP!Statement, UP!CanUse
<1>2. UP!UInv'
  BY <1>1, OwnConn, UP!StatementStep DEF IInv
<1>3. Others(r)
  BY DEF Others, U!Statement, U!CanUse
<1>4. Ran(r, ws)
  BY DEF Ran, U!Statement, U!CanUse
<1>5. unit'[r] = unit[r]
  BY DEF U!Statement, U!CanUse
<1> QED BY <1>2, <1>3, <1>4, <1>5

LEMMA StatementRefusedEffect ==
  ASSUME IInv, NEW r \in Runs, NEW rep, U!StatementRefused(r, rep)
  PROVE  UP!UInv' /\ Others(r) /\ Failed(r) /\ unit'[r] = unit[r]
<1> USE RunFacts DEF RunStates
<1>1. UP!StatementRefused(r, rep)
  BY DEF U!StatementRefused, U!CanUse, UP!StatementRefused, UP!CanUse
<1>2. UP!UInv'
  BY <1>1, OwnConn, UP!StatementRefusedStep DEF IInv
<1>3. Others(r)
  BY DEF Others, U!StatementRefused, U!CanUse
<1>4. Failed(r)
  BY DEF Failed, U!StatementRefused, U!CanUse
<1>5. unit'[r] = unit[r]
  BY DEF U!StatementRefused, U!CanUse
<1> QED BY <1>2, <1>3, <1>4, <1>5

LEMMA StatementLostEffect ==
  ASSUME IInv, NEW r \in Runs, NEW rep, NEW ws \in SUBSET Rows, U!StatementLost(r, rep, ws)
  PROVE  UP!UInv' /\ Others(r) /\ Lost(r, ws) /\ unit'[r] = unit[r]
<1> USE RunFacts DEF RunStates
<1>1. UP!StatementLost(r, rep, ws)
  BY DEF U!StatementLost, U!CanUse, UP!StatementLost, UP!CanUse
<1>2. UP!UInv'
  BY <1>1, OwnConn, UP!StatementLostStep DEF IInv
<1>3. Others(r)
  BY DEF Others, U!StatementLost, U!CanUse
<1>4. Lost(r, ws)
  BY DEF Lost, U!StatementLost, U!CanUse
<1>5. unit'[r] = unit[r]
  BY DEF U!StatementLost, U!CanUse
<1> QED BY <1>2, <1>3, <1>4, <1>5

LEMMA CommitReturnsEffect ==
  ASSUME IInv, NEW r \in Runs, U!CommitReturns(r)
  PROVE  UP!UInv' /\ Others(r) /\ Stays(r) /\ unit'[r].alive
<1> USE RunFacts DEF RunStates
<1>1. UP!CommitReturns(r)
  BY DEF U!CommitReturns, U!CanCommit, U!Fresh, U!Gone, UP!CommitReturns,
         UP!CanCommit, UP!Fresh, UP!Gone
<1>2. UP!UInv'
  BY <1>1, OwnConn, UP!CommitReturnsStep DEF IInv
<1>3. Others(r)
  BY DEF Others, U!CommitReturns, U!CanCommit, U!Fresh, U!Gone
<1>4. Stays(r)
  BY DEF Stays, U!CommitReturns, U!CanCommit, U!Fresh, U!Gone
<1>5. unit'[r].alive
  BY DEF U!CommitReturns, U!CanCommit, U!Fresh, U!Gone
<1> QED BY <1>2, <1>3, <1>4, <1>5

LEMMA CommitThrowsEffect ==
  ASSUME IInv, NEW r \in Runs, U!CommitThrows(r)
  PROVE  UP!UInv' /\ Others(r) /\ (Freed(r) \/ InDoubt(r)) /\ unit'[r].alive
<1> USE RunFacts DEF RunStates
<1>1. UP!CommitThrows(r)
  BY DEF U!CommitThrows, U!CanCommit, U!Cleanup, U!Abort, U!NoticeCut, U!Fresh,
         U!Gone, UP!CommitThrows, UP!CanCommit, UP!Cleanup, UP!Abort,
         UP!NoticeCut, UP!Fresh, UP!Gone
<1>2. UP!UInv'
  BY <1>1, OwnConn, UP!CommitThrowsStep DEF IInv
<1>3. Others(r)
  BY DEF Others, U!CommitThrows, U!CanCommit, U!Cleanup, U!Abort, U!NoticeCut,
         U!Fresh, U!Gone
<1>4. (Freed(r) \/ InDoubt(r))
  BY DEF Freed, InDoubt, U!CommitThrows, U!CanCommit, U!Cleanup, U!Abort, U!NoticeCut, U!Fresh, U!Gone
<1>5. unit'[r].alive
  BY DEF U!CommitThrows, U!CanCommit, U!Cleanup, U!Abort, U!NoticeCut, U!Fresh, U!Gone
<1> QED BY <1>2, <1>3, <1>4, <1>5

LEMMA RollbackEffect ==
  ASSUME IInv, NEW r \in Runs, U!Rollback(r)
  PROVE  UP!UInv' /\ Others(r) /\ Freed(r) /\ unit'[r].alive
<1> USE RunFacts DEF RunStates
<1>1. UP!Rollback(r)
  BY DEF U!Rollback, U!Cleanup, U!Abort, U!NoticeCut, U!Fresh, U!Gone,
         UP!Rollback, UP!Cleanup, UP!Abort, UP!NoticeCut, UP!Fresh, UP!Gone
<1>2. UP!UInv'
  BY <1>1, OwnConn, UP!CleanupStep DEF IInv, UP!Rollback
<1>3. Others(r)
  BY DEF Others, U!Rollback, U!Cleanup, U!Abort, U!NoticeCut, U!Fresh, U!Gone
<1>4. Freed(r)
  BY DEF Freed, IInv, RunInv, WritesKnown, U!Rollback, U!Cleanup, U!Abort, U!NoticeCut, U!Fresh, U!Gone
<1>5. unit'[r].alive
  BY DEF U!Rollback, U!Cleanup, U!Abort, U!NoticeCut, U!Fresh, U!Gone
<1> QED BY <1>2, <1>3, <1>4, <1>5

LEMMA DestroyEffect ==
  ASSUME IInv, NEW r \in Runs, U!Destroy(r)
  PROVE  UP!UInv' /\ Others(r) /\ Freed(r) /\ ~unit'[r].alive
<1> USE RunFacts DEF RunStates
<1>1. UP!Destroy(r)
  BY DEF U!Destroy, U!Cleanup, U!Abort, U!NoticeCut, U!Fresh, U!Gone,
         UP!Destroy, UP!Cleanup, UP!Abort, UP!NoticeCut, UP!Fresh, UP!Gone
<1>2. UP!UInv'
  BY <1>1, OwnConn, UP!CleanupStep DEF IInv, UP!Destroy
<1>3. Others(r)
  BY DEF Others, U!Destroy, U!Cleanup, U!Abort, U!NoticeCut, U!Fresh, U!Gone
<1>4. Freed(r)
  BY DEF Freed, IInv, RunInv, WritesKnown, U!Destroy, U!Cleanup, U!Abort, U!NoticeCut, U!Fresh, U!Gone
<1>5. ~unit'[r].alive
  BY DEF U!Destroy, U!Cleanup, U!Abort, U!NoticeCut, U!Fresh, U!Gone
<1> QED BY <1>2, <1>3, <1>4, <1>5

-----------------------------------------------------------------------------
(* A step of run r: what it needs to keep for the run itself, and that it  *)
(* leaves the other runs alone, commits no more than the run has written,  *)
(* and claims an email only when nobody else does.                         *)
OthersGo(r) ==
  /\ \A s \in Runs \ {r} :
       pc'[s] = pc[s] /\ answer'[s] = answer[s] /\ sent'[s] = sent[s]
  /\ request' = request

Step(r) ==
  /\ RunTypes' /\ UP!UInv' /\ RunInv(r)'
  /\ Others(r) /\ OthersGo(r)
  /\ committed' \in {committed, committed \cup writes[r]}
  /\ Claims(r)' => Claims(r) \/ (~Undecided(r) /\ ~Taken(r))

Places == InUnit \cup {"start", "create", "exit", "gone"}

LEMMA UnitSame ==
  ASSUME IInv, NEW r \in Runs, UNCHANGED dbvars \/ U!CreateThrows(r)
  PROVE  UP!UInv' /\ Others(r) /\ Quiet(r) /\ unit'[r] = unit[r]
<1>1. UNCHANGED dbvars
  BY DEF U!CreateThrows, U!uvars, dbvars
<1> QED BY <1>1 DEF dbvars, Others, Quiet, IInv, UP!UInv, UP!ActiveIsUsable,
              UP!TransactionOwned, UP!UTypeOK, UP!OneHolder, UP!HeldOnServer,
              UP!Busy

LEMMA RowTyped ==
  \A r \in Runs : {Row("users", r)} \in SUBSET Rows /\ {Row("posts", r)} \in SUBSET Rows
BY DEF Row, Rows

LEMMA GotoEffect ==
  ASSUME RunTypes, NEW r \in Runs, NEW to \in Places, Goto(r, to)
  PROVE  /\ RunTypes' /\ OthersGo(r)
         /\ pc'[r] = to /\ answer'[r] = answer[r] /\ sent'[r] = sent[r]
BY DEF RunTypes, Goto, OthersGo, Places

LEMMA ReplyEffect ==
  ASSUME RunTypes, NEW r \in Runs, NEW to \in Places, NEW a \in Answers,
         Reply(r, a, to)
  PROVE  /\ RunTypes' /\ OthersGo(r)
         /\ pc'[r] = to /\ answer'[r] = a /\ sent'[r] = sent[r]
BY DEF RunTypes, Reply, OthersGo, Places

(* Nobody's row goes away, and requests stay what they are. *)
LEMMA TakenStays ==
  ASSUME NEW r \in Runs, request' = request, committed \subseteq committed'
  PROVE  Taken(r) => Taken(r)'
BY DEF Taken, SameEmail, Users

LEMMA TagsCreateStep ==
  ASSUME IInv, NEW r \in Runs, TagsCreate(r)  PROVE Step(r)
<1>0. RunInv(r) /\ RunTypes
  BY DEF IInv
<1>1. CASE U!Create(r) /\ Goto(r, "tagsBegin")
  <2>1. UP!UInv' /\ Others(r) /\ Quiet(r) /\ unit'[r].alive
    BY <1>1, CreateEffect DEF TagsCreate
  <2>2. RunTypes' /\ OthersGo(r) /\ pc'[r] = "tagsBegin"
           /\ answer'[r] = answer[r] /\ sent'[r] = sent[r]
    BY <1>0, <1>1, GotoEffect, ReplyEffect DEF TagsCreate, Answers, Places, InUnit
  <2> USE <1>0, <1>1, <2>1, <2>2 DEF TagsCreate, At, Quiet, RunInv
  <2>3. RunInv(r)'
    BY RowsApart, TakenStays
    DEF WritesKnown, Stored, Spoken, Placed, Both, Before, InUnit, Answered,
        OthersGo
  <2>4. committed' \in {committed, committed \cup writes[r]}
    OBVIOUS
  <2>5. Claims(r)' => Claims(r)
    BY RowsApart DEF Claims
  <2> QED BY <2>3, <2>4, <2>5 DEF Step
<1> QED BY <1>1 DEF TagsCreate

LEMMA TagsBeginStep ==
  ASSUME IInv, NEW r \in Runs, TagsBegin(r)  PROVE Step(r)
<1>0. RunInv(r) /\ RunTypes
  BY DEF IInv
<1>1. CASE U!BeginOpens(r) /\ Goto(r, "tagsQuery")
  <2>1. UP!UInv' /\ Others(r) /\ Opened(r) /\ unit'[r].alive
    BY <1>1, BeginOpensEffect DEF TagsBegin
  <2>2. RunTypes' /\ OthersGo(r) /\ pc'[r] = "tagsQuery"
           /\ answer'[r] = answer[r] /\ sent'[r] = sent[r]
    BY <1>0, <1>1, GotoEffect, ReplyEffect DEF TagsBegin, Answers, Places, InUnit
  <2> USE <1>0, <1>1, <2>1, <2>2 DEF TagsBegin, At, Opened, RunInv
  <2>3. RunInv(r)'
    BY RowsApart, TakenStays
    DEF WritesKnown, Stored, Spoken, Placed, Both, Before, InUnit, Answered,
        OthersGo
  <2>4. committed' \in {committed, committed \cup writes[r]}
    OBVIOUS
  <2>5. Claims(r)' => Claims(r)
    BY RowsApart DEF Claims
  <2> QED BY <2>3, <2>4, <2>5 DEF Step
<1>2. CASE (U!BeginStopsHalfway(r) \/ U!BeginThrows(r)) /\ Goto(r, "tagsDone")
  <2>1. UP!UInv' /\ Others(r) /\ (Opened(r) \/ Found(r)) /\ unit'[r].alive
    BY <1>2, BeginStopsHalfwayEffect, BeginThrowsEffect DEF TagsBegin
  <2>2. RunTypes' /\ OthersGo(r) /\ pc'[r] = "tagsDone"
           /\ answer'[r] = answer[r] /\ sent'[r] = sent[r]
    BY <1>0, <1>2, GotoEffect, ReplyEffect DEF TagsBegin, Answers, Places, InUnit
  <2> USE <1>0, <1>2, <2>1, <2>2 DEF TagsBegin, At, Opened, Found, Quiet, RunInv
  <2>3. RunInv(r)'
    BY RowsApart, TakenStays
    DEF WritesKnown, Stored, Spoken, Placed, Both, Before, InUnit, Answered,
        OthersGo
  <2>4. committed' \in {committed, committed \cup writes[r]}
    OBVIOUS
  <2>5. Claims(r)' => Claims(r)
    BY RowsApart DEF Claims
  <2> QED BY <2>3, <2>4, <2>5 DEF Step
<1> QED BY <1>1, <1>2 DEF TagsBegin

LEMMA TagsReturnStep ==
  ASSUME IInv, NEW r \in Runs, TagsReturn(r)  PROVE Step(r)
<1>0. RunInv(r) /\ RunTypes
  BY DEF IInv
<1>1. CASE U!Destroy(r) /\ Goto(r, "create")
  <2>1. UP!UInv' /\ Others(r) /\ Freed(r) /\ ~unit'[r].alive
    BY <1>1, DestroyEffect DEF TagsReturn
  <2>2. RunTypes' /\ OthersGo(r) /\ pc'[r] = "create"
           /\ answer'[r] = answer[r] /\ sent'[r] = sent[r]
    BY <1>0, <1>1, GotoEffect, ReplyEffect DEF TagsReturn, Answers, Places, InUnit
  <2> USE <1>0, <1>1, <2>1, <2>2 DEF TagsReturn, At, Freed, RunInv
  <2>3. RunInv(r)'
    BY RowsApart, TakenStays
    DEF WritesKnown, Stored, Spoken, Placed, Both, Before, InUnit, Answered,
        OthersGo
  <2>4. committed' \in {committed, committed \cup writes[r]}
    OBVIOUS
  <2>5. Claims(r)' => Claims(r)
    BY RowsApart DEF Claims
  <2> QED BY <2>3, <2>4, <2>5 DEF Step
<1> QED BY <1>1 DEF TagsReturn

LEMMA BeginStep ==
  ASSUME IInv, NEW r \in Runs, Begin(r)  PROVE Step(r)
<1>0. RunInv(r) /\ RunTypes
  BY DEF IInv
<1>1. CASE U!BeginOpens(r) /\ Goto(r, "insertUser")
  <2>1. UP!UInv' /\ Others(r) /\ Opened(r) /\ unit'[r].alive
    BY <1>1, BeginOpensEffect DEF Begin
  <2>2. RunTypes' /\ OthersGo(r) /\ pc'[r] = "insertUser"
           /\ answer'[r] = answer[r] /\ sent'[r] = sent[r]
    BY <1>0, <1>1, GotoEffect, ReplyEffect DEF Begin, Answers, Places, InUnit
  <2> USE <1>0, <1>1, <2>1, <2>2 DEF Begin, At, Opened, RunInv
  <2>3. RunInv(r)'
    BY RowsApart, TakenStays
    DEF WritesKnown, Stored, Spoken, Placed, Both, Before, InUnit, Answered,
        OthersGo
  <2>4. committed' \in {committed, committed \cup writes[r]}
    OBVIOUS
  <2>5. Claims(r)' => Claims(r)
    BY RowsApart DEF Claims
  <2> QED BY <2>3, <2>4, <2>5 DEF Step
<1>2. CASE (U!BeginStopsHalfway(r) \/ U!BeginThrows(r)) /\ Goto(r, "catch")
  <2>1. UP!UInv' /\ Others(r) /\ (Opened(r) \/ Found(r)) /\ unit'[r].alive
    BY <1>2, BeginStopsHalfwayEffect, BeginThrowsEffect DEF Begin
  <2>2. RunTypes' /\ OthersGo(r) /\ pc'[r] = "catch"
           /\ answer'[r] = answer[r] /\ sent'[r] = sent[r]
    BY <1>0, <1>2, GotoEffect, ReplyEffect DEF Begin, Answers, Places, InUnit
  <2> USE <1>0, <1>2, <2>1, <2>2 DEF Begin, At, Opened, Found, Quiet, RunInv
  <2>3. RunInv(r)'
    BY RowsApart, TakenStays
    DEF WritesKnown, Stored, Spoken, Placed, Both, Before, InUnit, Answered,
        OthersGo
  <2>4. committed' \in {committed, committed \cup writes[r]}
    OBVIOUS
  <2>5. Claims(r)' => Claims(r)
    BY RowsApart DEF Claims
  <2> QED BY <2>3, <2>4, <2>5 DEF Step
<1> QED BY <1>1, <1>2 DEF Begin

LEMMA TagsQueryStep ==
  ASSUME IInv, NEW r \in Runs, TagsQuery(r)  PROVE Step(r)
<1>0. RunInv(r) /\ RunTypes
  BY DEF IInv
<1>1. CASE U!Statement(r, "tags", {}) /\ pc' = [pc EXCEPT ![r] = "tagsCommit"]
  <2>1. UP!UInv' /\ Others(r) /\ Ran(r, {}) /\ unit'[r] = unit[r]
    BY <1>1, StatementEffect DEF TagsQuery
  <2>2. RunTypes' /\ OthersGo(r) /\ pc'[r] = "tagsCommit"
           /\ answer'[r] = answer[r] /\ sent'[r] = sent[r]
    BY <1>0, <1>1 DEF TagsQuery, RunTypes, OthersGo, Goto, InUnit, Users
  <2> USE <1>0, <1>1, <2>1, <2>2 DEF TagsQuery, At, Ran, RunInv
  <2>3. RunInv(r)'
    BY RowsApart, TakenStays
    DEF WritesKnown, Stored, Spoken, Placed, Both, Before, InUnit, Answered,
        OthersGo
  <2>4. committed' \in {committed, committed \cup writes[r]}
    OBVIOUS
  <2>5. Claims(r)' => Claims(r)
    BY RowsApart DEF Claims
  <2> QED BY <2>3, <2>4, <2>5 DEF Step
<1>2. CASE /\ U!StatementRefused(r, "tags") \/ U!StatementLost(r, "tags", {})
           /\ Goto(r, "tagsDone")
  <2>1. UP!UInv' /\ Others(r) /\ (Failed(r) \/ Lost(r, {})) /\ unit'[r] = unit[r]
    BY <1>2, StatementRefusedEffect, StatementLostEffect DEF TagsQuery
  <2>2. RunTypes' /\ OthersGo(r) /\ pc'[r] = "tagsDone"
           /\ answer'[r] = answer[r] /\ sent'[r] = sent[r]
    BY <1>0, <1>2, GotoEffect, ReplyEffect DEF TagsQuery, Answers, Places, InUnit
  <2> USE <1>0, <1>2, <2>1, <2>2 DEF TagsQuery, At, Failed, Lost, RunInv
  <2>3. RunInv(r)'
    BY RowsApart, TakenStays
    DEF WritesKnown, Stored, Spoken, Placed, Both, Before, InUnit, Answered,
        OthersGo
  <2>4. committed' \in {committed, committed \cup writes[r]}
    OBVIOUS
  <2>5. Claims(r)' => Claims(r)
    BY RowsApart DEF Claims
  <2> QED BY <2>3, <2>4, <2>5 DEF Step
<1> QED BY <1>1, <1>2 DEF TagsQuery

LEMMA TagsCommitStep ==
  ASSUME IInv, NEW r \in Runs, TagsCommit(r)  PROVE Step(r)
<1>0. RunInv(r) /\ RunTypes
  BY DEF IInv
<1>1. CASE U!CommitReturns(r)
  <2>1. UP!UInv' /\ Others(r) /\ Stays(r) /\ unit'[r].alive
    BY <1>1, CommitReturnsEffect DEF TagsCommit
  <2>2. RunTypes' /\ OthersGo(r) /\ pc'[r] = "tagsDone"
           /\ answer'[r] = answer[r] /\ sent'[r] = sent[r]
    BY <1>0, <1>1 DEF TagsCommit, RunTypes, OthersGo, Goto, InUnit
  <2> USE <1>0, <1>1, <2>1, <2>2 DEF TagsCommit, At, Stays, RunInv
  <2>3. RunInv(r)'
    BY RowsApart, TakenStays
    DEF WritesKnown, Stored, Spoken, Placed, Both, Before, InUnit, Answered,
        OthersGo
  <2>4. committed' \in {committed, committed \cup writes[r]}
    OBVIOUS
  <2>5. Claims(r)' => Claims(r)
    BY RowsApart DEF Claims
  <2> QED BY <2>3, <2>4, <2>5 DEF Step
<1>2. CASE U!CommitThrows(r)
  <2>1. UP!UInv' /\ Others(r) /\ (Freed(r) \/ InDoubt(r)) /\ unit'[r].alive
    BY <1>2, CommitThrowsEffect DEF TagsCommit
  <2>2. RunTypes' /\ OthersGo(r) /\ pc'[r] = "tagsDone"
           /\ answer'[r] = answer[r] /\ sent'[r] = sent[r]
    BY <1>0, <1>2 DEF TagsCommit, RunTypes, OthersGo, Goto, InUnit
  <2> USE <1>0, <1>2, <2>1, <2>2 DEF TagsCommit, At, Freed, InDoubt, RunInv
  <2>3. RunInv(r)'
    BY RowsApart, TakenStays
    DEF WritesKnown, Stored, Spoken, Placed, Both, Before, InUnit, Answered,
        OthersGo
  <2>4. committed' \in {committed, committed \cup writes[r]}
    OBVIOUS
  <2>5. Claims(r)' => Claims(r)
    BY RowsApart DEF Claims
  <2> QED BY <2>3, <2>4, <2>5 DEF Step
<1> QED BY <1>1, <1>2 DEF TagsCommit

LEMMA ExecuteStartStep ==
  ASSUME IInv, NEW r \in Runs, ExecuteStart(r)  PROVE Step(r)
<1>0. RunInv(r) /\ RunTypes
  BY DEF IInv
<1>1. CASE request[r] = NoEmail /\ Reply(r, "Error", "exit") /\ UNCHANGED dbvars
  <2>1. UP!UInv' /\ Others(r) /\ Quiet(r) /\ unit'[r] = unit[r]
    BY <1>1, UnitSame DEF ExecuteStart
  <2>2. RunTypes' /\ OthersGo(r) /\ pc'[r] = "exit"
           /\ answer'[r] = "Error" /\ sent'[r] = sent[r]
    BY <1>0, <1>1, GotoEffect, ReplyEffect DEF ExecuteStart, Answers, Places, InUnit
  <2> USE <1>0, <1>1, <2>1, <2>2 DEF ExecuteStart, At, Quiet, RunInv
  <2>3. RunInv(r)'
    BY RowsApart, TakenStays
    DEF WritesKnown, Stored, Spoken, Placed, Both, Before, InUnit, Answered,
        OthersGo
  <2>4. committed' \in {committed, committed \cup writes[r]}
    OBVIOUS
  <2>5. Claims(r)' => Claims(r)
    BY RowsApart DEF Claims
  <2> QED BY <2>3, <2>4, <2>5 DEF Step
<1>2. CASE request[r] # NoEmail /\ U!Create(r) /\ Goto(r, "begin")
  <2>1. UP!UInv' /\ Others(r) /\ Quiet(r) /\ unit'[r].alive
    BY <1>2, CreateEffect DEF ExecuteStart
  <2>2. RunTypes' /\ OthersGo(r) /\ pc'[r] = "begin"
           /\ answer'[r] = answer[r] /\ sent'[r] = sent[r]
    BY <1>0, <1>2, GotoEffect, ReplyEffect DEF ExecuteStart, Answers, Places, InUnit
  <2> USE <1>0, <1>2, <2>1, <2>2 DEF ExecuteStart, At, Quiet, RunInv
  <2>3. RunInv(r)'
    BY RowsApart, TakenStays
    DEF WritesKnown, Stored, Spoken, Placed, Both, Before, InUnit, Answered,
        OthersGo
  <2>4. committed' \in {committed, committed \cup writes[r]}
    OBVIOUS
  <2>5. Claims(r)' => Claims(r)
    BY RowsApart DEF Claims
  <2> QED BY <2>3, <2>4, <2>5 DEF Step
<1>3. CASE request[r] # NoEmail /\ U!CreateThrows(r) /\ Reply(r, "threw", "exit")
  <2>1. UP!UInv' /\ Others(r) /\ Quiet(r) /\ unit'[r] = unit[r]
    BY <1>3, UnitSame DEF ExecuteStart
  <2>2. RunTypes' /\ OthersGo(r) /\ pc'[r] = "exit"
           /\ answer'[r] = "threw" /\ sent'[r] = sent[r]
    BY <1>0, <1>3, GotoEffect, ReplyEffect DEF ExecuteStart, Answers, Places, InUnit
  <2> USE <1>0, <1>3, <2>1, <2>2 DEF ExecuteStart, At, Quiet, RunInv
  <2>3. RunInv(r)'
    BY RowsApart, TakenStays
    DEF WritesKnown, Stored, Spoken, Placed, Both, Before, InUnit, Answered,
        OthersGo
  <2>4. committed' \in {committed, committed \cup writes[r]}
    OBVIOUS
  <2>5. Claims(r)' => Claims(r)
    BY RowsApart DEF Claims
  <2> QED BY <2>3, <2>4, <2>5 DEF Step
<1> QED BY <1>1, <1>2, <1>3 DEF ExecuteStart

LEMMA InsertUserStep ==
  ASSUME IInv, NEW r \in Runs, InsertUser(r)  PROVE Step(r)
<1>0. RunInv(r) /\ RunTypes
  BY DEF IInv
<1>1. CASE Taken(r) /\ U!Statement(r, "users", {}) /\ Goto(r, "exists")
  <2>1. UP!UInv' /\ Others(r) /\ Ran(r, {}) /\ unit'[r] = unit[r]
    BY <1>1, RowTyped, StatementEffect DEF InsertUser
  <2>2. RunTypes' /\ OthersGo(r) /\ pc'[r] = "exists"
           /\ answer'[r] = answer[r] /\ sent'[r] = sent[r]
    BY <1>0, <1>1, GotoEffect, ReplyEffect DEF InsertUser, Answers, Places, InUnit
  <2> USE <1>0, <1>1, <2>1, <2>2 DEF InsertUser, At, Ran, RunInv
  <2>3. RunInv(r)'
    BY RowsApart, TakenStays
    DEF WritesKnown, Stored, Spoken, Placed, Both, Before, InUnit, Answered,
        OthersGo
  <2>4. committed' \in {committed, committed \cup writes[r]}
    OBVIOUS
  <2>5. Claims(r)' => Claims(r)
    BY RowsApart DEF Claims
  <2> QED BY <2>3, <2>4, <2>5 DEF Step
<1>2. CASE /\ ~Taken(r)
           /\ U!Statement(r, "users", {Row("users", r)})
           /\ Goto(r, "insertPost") \/ Goto(r, "catch")
  <2>1. UP!UInv' /\ Others(r) /\ Ran(r, {Row("users", r)}) /\ unit'[r] = unit[r]
    BY <1>2, RowTyped, StatementEffect DEF InsertUser
  <2>2. RunTypes' /\ OthersGo(r) /\ pc'[r] \in {"insertPost", "catch"}
           /\ answer'[r] = answer[r] /\ sent'[r] = sent[r]
    BY <1>0, <1>2, GotoEffect, ReplyEffect DEF InsertUser, Answers, Places, InUnit
  <2> USE <1>0, <1>2, <2>1, <2>2 DEF InsertUser, At, Ran, RunInv
  <2>3. RunInv(r)'
    BY RowsApart, TakenStays, RunAssumption
    DEF WritesKnown, Stored, Spoken, Placed, Both, Before, InUnit, Answered,
        OthersGo
  <2>4. committed' \in {committed, committed \cup writes[r]}
    OBVIOUS
  <2>5. ~Undecided(r) /\ ~Taken(r)
    BY RowsApart DEF Claims
  <2> QED BY <2>3, <2>4, <2>5 DEF Step
<1>3. CASE /\ ~Taken(r) /\ U!StatementLost(r, "users", {Row("users", r)})
           /\ Goto(r, "catch")
  <2>1. UP!UInv' /\ Others(r) /\ Lost(r, {Row("users", r)}) /\ unit'[r] = unit[r]
    BY <1>3, RowTyped, StatementLostEffect DEF InsertUser
  <2>2. RunTypes' /\ OthersGo(r) /\ pc'[r] = "catch"
           /\ answer'[r] = answer[r] /\ sent'[r] = sent[r]
    BY <1>0, <1>3, GotoEffect, ReplyEffect DEF InsertUser, Answers, Places, InUnit
  <2> USE <1>0, <1>3, <2>1, <2>2 DEF InsertUser, At, Lost, RunInv
  <2>3. RunInv(r)'
    BY RowsApart, TakenStays, RunAssumption
    DEF WritesKnown, Stored, Spoken, Placed, Both, Before, InUnit, Answered,
        OthersGo
  <2>4. committed' \in {committed, committed \cup writes[r]}
    OBVIOUS
  <2>5. ~Undecided(r) /\ ~Taken(r)
    BY RowsApart DEF Claims
  <2> QED BY <2>3, <2>4, <2>5 DEF Step
<1> QED BY <1>1, <1>2, <1>3 DEF InsertUser

LEMMA InsertUserFailsStep ==
  ASSUME IInv, NEW r \in Runs, InsertUserFails(r)  PROVE Step(r)
<1>0. RunInv(r) /\ RunTypes
  BY DEF IInv
<1>1. CASE U!StatementRefused(r, "users") /\ Goto(r, "catch")
  <2>1. UP!UInv' /\ Others(r) /\ Failed(r) /\ unit'[r] = unit[r]
    BY <1>1, StatementRefusedEffect DEF InsertUserFails
  <2>2. RunTypes' /\ OthersGo(r) /\ pc'[r] = "catch"
           /\ answer'[r] = answer[r] /\ sent'[r] = sent[r]
    BY <1>0, <1>1, GotoEffect, ReplyEffect DEF InsertUserFails, Answers, Places, InUnit
  <2> USE <1>0, <1>1, <2>1, <2>2 DEF InsertUserFails, At, Failed, RunInv
  <2>3. RunInv(r)'
    BY RowsApart, TakenStays
    DEF WritesKnown, Stored, Spoken, Placed, Both, Before, InUnit, Answered,
        OthersGo
  <2>4. committed' \in {committed, committed \cup writes[r]}
    OBVIOUS
  <2>5. Claims(r)' => Claims(r)
    BY RowsApart DEF Claims
  <2> QED BY <2>3, <2>4, <2>5 DEF Step
<1>2. CASE U!StatementLost(r, "users", {}) /\ Goto(r, "catch")
  <2>1. UP!UInv' /\ Others(r) /\ Lost(r, {}) /\ unit'[r] = unit[r]
    BY <1>2, RowTyped, StatementLostEffect DEF InsertUserFails
  <2>2. RunTypes' /\ OthersGo(r) /\ pc'[r] = "catch"
           /\ answer'[r] = answer[r] /\ sent'[r] = sent[r]
    BY <1>0, <1>2, GotoEffect, ReplyEffect DEF InsertUserFails, Answers, Places, InUnit
  <2> USE <1>0, <1>2, <2>1, <2>2 DEF InsertUserFails, At, Lost, RunInv
  <2>3. RunInv(r)'
    BY RowsApart, TakenStays
    DEF WritesKnown, Stored, Spoken, Placed, Both, Before, InUnit, Answered,
        OthersGo
  <2>4. committed' \in {committed, committed \cup writes[r]}
    OBVIOUS
  <2>5. Claims(r)' => Claims(r)
    BY RowsApart DEF Claims
  <2> QED BY <2>3, <2>4, <2>5 DEF Step
<1> QED BY <1>1, <1>2 DEF InsertUserFails

LEMMA UserExistsStep ==
  ASSUME IInv, NEW r \in Runs, UserExists(r)  PROVE Step(r)
<1>0. RunInv(r) /\ RunTypes
  BY DEF IInv
<1>1. CASE U!Rollback(r) /\ Reply(r, "UserExists", "return")
  <2>1. UP!UInv' /\ Others(r) /\ Freed(r) /\ unit'[r].alive
    BY <1>1, RollbackEffect DEF UserExists
  <2>2. RunTypes' /\ OthersGo(r) /\ pc'[r] = "return"
           /\ answer'[r] = "UserExists" /\ sent'[r] = sent[r]
    BY <1>0, <1>1, GotoEffect, ReplyEffect DEF UserExists, Answers, Places, InUnit
  <2> USE <1>0, <1>1, <2>1, <2>2 DEF UserExists, At, Freed, RunInv
  <2>3. RunInv(r)'
    BY RowsApart, TakenStays
    DEF WritesKnown, Stored, Spoken, Placed, Both, Before, InUnit, Answered,
        OthersGo
  <2>4. committed' \in {committed, committed \cup writes[r]}
    OBVIOUS
  <2>5. Claims(r)' => Claims(r)
    BY RowsApart DEF Claims
  <2> QED BY <2>3, <2>4, <2>5 DEF Step
<1>2. CASE U!Rollback(r) /\ Goto(r, "catch")
  <2>1. UP!UInv' /\ Others(r) /\ Freed(r) /\ unit'[r].alive
    BY <1>2, RollbackEffect DEF UserExists
  <2>2. RunTypes' /\ OthersGo(r) /\ pc'[r] = "catch"
           /\ answer'[r] = answer[r] /\ sent'[r] = sent[r]
    BY <1>0, <1>2, GotoEffect, ReplyEffect DEF UserExists, Answers, Places, InUnit
  <2> USE <1>0, <1>2, <2>1, <2>2 DEF UserExists, At, Freed, RunInv
  <2>3. RunInv(r)'
    BY RowsApart, TakenStays
    DEF WritesKnown, Stored, Spoken, Placed, Both, Before, InUnit, Answered,
        OthersGo
  <2>4. committed' \in {committed, committed \cup writes[r]}
    OBVIOUS
  <2>5. Claims(r)' => Claims(r)
    BY RowsApart DEF Claims
  <2> QED BY <2>3, <2>4, <2>5 DEF Step
<1> QED BY <1>1, <1>2 DEF UserExists

LEMMA InsertPostStep ==
  ASSUME IInv, NEW r \in Runs, InsertPost(r)  PROVE Step(r)
<1>0. RunInv(r) /\ RunTypes
  BY DEF IInv
<1>1. CASE /\ U!Statement(r, "posts", {Row("posts", r)})
           /\ Goto(r, "commit") \/ Goto(r, "catch")
  <2>1. UP!UInv' /\ Others(r) /\ Ran(r, {Row("posts", r)}) /\ unit'[r] = unit[r]
    BY <1>1, RowTyped, StatementEffect DEF InsertPost
  <2>2. RunTypes' /\ OthersGo(r) /\ pc'[r] \in {"commit", "catch"}
           /\ answer'[r] = answer[r] /\ sent'[r] = sent[r]
    BY <1>0, <1>1, GotoEffect, ReplyEffect DEF InsertPost, Answers, Places, InUnit
  <2> USE <1>0, <1>1, <2>1, <2>2 DEF InsertPost, At, Ran, RunInv
  <2>3. RunInv(r)'
    BY RowsApart, TakenStays
    DEF WritesKnown, Stored, Spoken, Placed, Both, Before, InUnit, Answered,
        OthersGo
  <2>4. committed' \in {committed, committed \cup writes[r]}
    OBVIOUS
  <2>5. Claims(r)' => Claims(r)
    BY RowsApart DEF Claims
  <2> QED BY <2>3, <2>4, <2>5 DEF Step
<1>2. CASE U!StatementRefused(r, "posts") /\ Goto(r, "catch")
  <2>1. UP!UInv' /\ Others(r) /\ Failed(r) /\ unit'[r] = unit[r]
    BY <1>2, StatementRefusedEffect DEF InsertPost
  <2>2. RunTypes' /\ OthersGo(r) /\ pc'[r] = "catch"
           /\ answer'[r] = answer[r] /\ sent'[r] = sent[r]
    BY <1>0, <1>2, GotoEffect, ReplyEffect DEF InsertPost, Answers, Places, InUnit
  <2> USE <1>0, <1>2, <2>1, <2>2 DEF InsertPost, At, Failed, RunInv
  <2>3. RunInv(r)'
    BY RowsApart, TakenStays
    DEF WritesKnown, Stored, Spoken, Placed, Both, Before, InUnit, Answered,
        OthersGo
  <2>4. committed' \in {committed, committed \cup writes[r]}
    OBVIOUS
  <2>5. Claims(r)' => Claims(r)
    BY RowsApart DEF Claims
  <2> QED BY <2>3, <2>4, <2>5 DEF Step
<1>3. CASE U!StatementLost(r, "posts", {Row("posts", r)}) /\ Goto(r, "catch")
  <2>1. UP!UInv' /\ Others(r) /\ Lost(r, {Row("posts", r)}) /\ unit'[r] = unit[r]
    BY <1>3, RowTyped, StatementLostEffect DEF InsertPost
  <2>2. RunTypes' /\ OthersGo(r) /\ pc'[r] = "catch"
           /\ answer'[r] = answer[r] /\ sent'[r] = sent[r]
    BY <1>0, <1>3, GotoEffect, ReplyEffect DEF InsertPost, Answers, Places, InUnit
  <2> USE <1>0, <1>3, <2>1, <2>2 DEF InsertPost, At, Lost, RunInv
  <2>3. RunInv(r)'
    BY RowsApart, TakenStays
    DEF WritesKnown, Stored, Spoken, Placed, Both, Before, InUnit, Answered,
        OthersGo
  <2>4. committed' \in {committed, committed \cup writes[r]}
    OBVIOUS
  <2>5. Claims(r)' => Claims(r)
    BY RowsApart DEF Claims
  <2> QED BY <2>3, <2>4, <2>5 DEF Step
<1> QED BY <1>1, <1>2, <1>3 DEF InsertPost

LEMMA CommitStep ==
  ASSUME IInv, NEW r \in Runs, Commit(r)  PROVE Step(r)
<1>0. RunInv(r) /\ RunTypes
  BY DEF IInv
<1>1. CASE U!CommitReturns(r)
  <2>1. UP!UInv' /\ Others(r) /\ Stays(r) /\ unit'[r].alive
    BY <1>1, CommitReturnsEffect DEF Commit
  <2>2. RunTypes' /\ OthersGo(r) /\ sent'[r]
      /\ \/ pc'[r] = "return" /\ answer'[r] = "Success"
         \/ pc'[r] = "catch" /\ answer'[r] = answer[r]
    BY <1>0, <1>1 DEF Commit, RunTypes, OthersGo, InUnit, Answers
  <2> USE <1>0, <1>1, <2>1, <2>2 DEF Commit, At, Stays, RunInv
  <2>3. RunInv(r)'
    BY RowsApart, TakenStays, RunAssumption
    DEF WritesKnown, Stored, Spoken, Placed, Both, Before, InUnit, Answered,
        OthersGo
  <2>4. committed' \in {committed, committed \cup writes[r]}
    OBVIOUS
  <2>5. Claims(r)' => Claims(r)
    BY RowsApart DEF Claims
  <2> QED BY <2>3, <2>4, <2>5 DEF Step
<1>2. CASE U!CommitThrows(r) /\ pc' = [pc EXCEPT ![r] = "catch"] /\ UNCHANGED answer
  <2>1. UP!UInv' /\ Others(r) /\ (Freed(r) \/ InDoubt(r)) /\ unit'[r].alive
    BY <1>2, CommitThrowsEffect DEF Commit
  <2>2. RunTypes' /\ OthersGo(r) /\ sent'[r] /\ pc'[r] = "catch" /\ answer'[r] = answer[r]
    BY <1>0, <1>2 DEF Commit, RunTypes, OthersGo, InUnit
  <2> USE <1>0, <1>2, <2>1, <2>2 DEF Commit, At, Freed, InDoubt, RunInv
  <2>3. RunInv(r)'
    BY RowsApart, TakenStays, RunAssumption
    DEF WritesKnown, Stored, Spoken, Placed, Both, Before, InUnit, Answered,
        OthersGo
  <2>4. committed' \in {committed, committed \cup writes[r]}
    OBVIOUS
  <2>5. Claims(r)' => Claims(r)
    BY RowsApart DEF Claims
  <2> QED BY <2>3, <2>4, <2>5 DEF Step
<1> QED BY <1>1, <1>2 DEF Commit

LEMMA CatchStep ==
  ASSUME IInv, NEW r \in Runs, Catch(r)  PROVE Step(r)
<1>0. RunInv(r) /\ RunTypes
  BY DEF IInv
<1>1. CASE U!Rollback(r) /\ Reply(r, "Error", "return")
  <2>1. UP!UInv' /\ Others(r) /\ Freed(r) /\ unit'[r].alive
    BY <1>1, RollbackEffect DEF Catch
  <2>2. RunTypes' /\ OthersGo(r) /\ pc'[r] = "return"
           /\ answer'[r] = "Error" /\ sent'[r] = sent[r]
    BY <1>0, <1>1, GotoEffect, ReplyEffect DEF Catch, Answers, Places, InUnit
  <2> USE <1>0, <1>1, <2>1, <2>2 DEF Catch, At, Freed, RunInv
  <2>3. RunInv(r)'
    BY RowsApart, TakenStays
    DEF WritesKnown, Stored, Spoken, Placed, Both, Before, InUnit, Answered,
        OthersGo
  <2>4. committed' \in {committed, committed \cup writes[r]}
    OBVIOUS
  <2>5. Claims(r)' => Claims(r)
    BY RowsApart DEF Claims
  <2> QED BY <2>3, <2>4, <2>5 DEF Step
<1> QED BY <1>1 DEF Catch

LEMMA ReturnStep ==
  ASSUME IInv, NEW r \in Runs, Return(r)  PROVE Step(r)
<1>0. RunInv(r) /\ RunTypes
  BY DEF IInv
<1>1. CASE U!Destroy(r) /\ Goto(r, "exit")
  <2>1. UP!UInv' /\ Others(r) /\ Freed(r) /\ ~unit'[r].alive
    BY <1>1, DestroyEffect DEF Return
  <2>2. RunTypes' /\ OthersGo(r) /\ pc'[r] = "exit"
           /\ answer'[r] = answer[r] /\ sent'[r] = sent[r]
    BY <1>0, <1>1, GotoEffect, ReplyEffect DEF Return, Answers, Places, InUnit
  <2> USE <1>0, <1>1, <2>1, <2>2 DEF Return, At, Freed, RunInv
  <2>3. RunInv(r)'
    BY RowsApart, TakenStays
    DEF WritesKnown, Stored, Spoken, Placed, Both, Before, InUnit, Answered,
        OthersGo
  <2>4. committed' \in {committed, committed \cup writes[r]}
    OBVIOUS
  <2>5. Claims(r)' => Claims(r)
    BY RowsApart DEF Claims
  <2> QED BY <2>3, <2>4, <2>5 DEF Step
<1> QED BY <1>1 DEF Return

(* The end of a run, and what happens to a connection behind its back. *)
LEMMA ExitStep ==
  ASSUME IInv, NEW r \in Runs, Exit(r)  PROVE Step(r)
<1>0. RunInv(r) /\ RunTypes
  BY DEF IInv
<1> USE RunFacts, OwnConn DEF Exit
<1>1. unit'[r].active = FALSE /\ unit'[r].txn = FALSE /\ unit'[r].repos = {}
      /\ unit'[r].alive = FALSE
  BY DEF RunStates, U!Gone
<1>2. Others(r) /\ conn'[r] = "closed"
  BY DEF Others
<1>3. UP!UInv'
  <2>1. UP!UTypeOK'
    <3>1. unit' \in [Runs -> RunStates]
      BY DEF RunStates, U!Gone
    <3> QED BY <3>1 DEF RunStates, UP!UTypeOK, UP!Repos, IInv, UP!UInv, UP!TransactionOwned
  <2>2. UP!ActiveIsUsable'
    BY <1>1, <1>2 DEF UP!ActiveIsUsable, Others, IInv, UP!UInv
  <2>3. UP!OneHolder'
    BY <1>1, <1>2 DEF UP!OneHolder, Others
  <2>4. UP!HeldOnServer'
    BY <1>1, <1>2 DEF UP!HeldOnServer, UP!Busy, Others, IInv, UP!UInv,
                      UP!TransactionOwned
  <2> QED BY <2>1, <2>2, <2>3, <2>4 DEF UP!UInv, UP!TransactionOwned
<1>4. RunTypes' /\ OthersGo(r) /\ pc'[r] = "gone"
      /\ answer'[r] = answer[r] /\ sent'[r] = sent[r]
  BY <1>0, GotoEffect DEF Places
<1>5. RunInv(r)'
  BY <1>0, <1>1, <1>2, <1>4, TakenStays
  DEF RunInv, WritesKnown, Stored, Spoken, Placed, Both, Before, InUnit,
      Answered, OthersGo
<1>6. Claims(r)' => Claims(r)
  BY DEF Claims
<1> QED BY <1>2, <1>3, <1>4, <1>5, <1>6 DEF Step

LEMMA SessionStep ==
  ASSUME IInv, NEW r \in Runs, U!Cut(r) \/ Server(r), LeaveRuns  PROVE Step(r)
<1>0. RunInv(r) /\ RunTypes
  BY DEF IInv
<1>1. RunTypes' /\ OthersGo(r) /\ pc'[r] = pc[r]
      /\ answer'[r] = answer[r] /\ sent'[r] = sent[r]
  BY <1>0 DEF LeaveRuns, RunTypes, OthersGo
<1>2. /\ UP!UInv' /\ Others(r) /\ unit' = unit
      /\ \/ /\ conn[r] = "open" /\ conn'[r] = "cut"
            /\ session'[r] = session[r] /\ writes'[r] = writes[r] /\ committed' = committed
         \/ /\ conn'[r] = conn[r] /\ conn[r] # "open"
            /\ session'[r] = "ended" /\ writes'[r] = {}
            /\ \/ committed' = committed
               \/ session[r] = "committing" /\ committed' = committed \cup writes[r]
  <2> USE RunFacts
  <2>1. CASE U!Cut(r)
    <3>1. UP!UInv'
      BY <2>1, OwnConn, UP!CutStep DEF U!Cut, UP!Cut, IInv
    <3> QED BY <3>1, <2>1 DEF U!Cut, Others
  <2>2. CASE U!ServerDrops(r)
    <3>1. UP!UInv'
      BY <2>2, OwnConn, UP!ServerDropsStep DEF U!ServerDrops, UP!ServerDrops, IInv
    <3> QED BY <3>1, <2>2 DEF U!ServerDrops, Others
  <2>3. CASE U!ServerCommits(r)
    <3>1. UP!UInv'
      BY <2>3, OwnConn, UP!ServerCommitsStep DEF U!ServerCommits, UP!ServerCommits, IInv
    <3>2. conn[r] # "open"
      BY <1>0, <2>3 DEF RunInv, WritesKnown, U!ServerCommits
    <3> QED BY <3>1, <3>2, <2>3 DEF U!ServerCommits, Others
  <2> QED BY <2>1, <2>2, <2>3 DEF Server
<1>3. RunInv(r)'
  BY <1>0, <1>1, <1>2, RowsApart, TakenStays
  DEF RunInv, WritesKnown, Stored, Spoken, Placed, Both, OthersGo
<1>4. Claims(r)' => Claims(r)
  BY <1>2 DEF Claims
<1> QED BY <1>1, <1>2, <1>3, <1>4 DEF Step

-----------------------------------------------------------------------------
(* A step of one run keeps the invariant of all. *)
LEMMA Together ==
  ASSUME IInv, NEW r \in Runs, Step(r)  PROVE IInv'
<1> USE DEF Step
<1>1. committed \subseteq committed' /\ writes[r] \subseteq Both(r)
  BY DEF IInv, RunInv, WritesKnown
<1>2. ASSUME NEW s \in Runs, s # r, NEW t
      PROVE  Row(t, s) \in committed' <=> Row(t, s) \in committed
  BY <1>1, <1>2, RowsApart DEF Both
<1>3. ASSUME NEW s \in Runs, s # r  PROVE RunInv(s)'
  <2>1. RunInv(s)
    BY DEF IInv
  <2>2. /\ conn'[s] = conn[s] /\ session'[s] = session[s] /\ writes'[s] = writes[s]
        /\ unit'[s] = unit[s] /\ pc'[s] = pc[s]
        /\ answer'[s] = answer[s] /\ sent'[s] = sent[s]
    BY <1>3 DEF Others, OthersGo
  <2>3. Taken(s) => Taken(s)'
    BY <1>1, TakenStays DEF OthersGo
  <2> QED BY <1>2, <1>3, <2>1, <2>2, <2>3
          DEF RunInv, WritesKnown, Stored, Spoken, Placed
<1>4. OneClaim'
  <2>1. ASSUME NEW s \in Runs, s # r  PROVE Claims(s)' <=> Claims(s)
    BY <1>2, <2>1 DEF Claims, Others
  <2>2. ASSUME NEW s \in Runs, s # r, request[s] = request[r], Claims(s)
        PROVE  Undecided(r) \/ Taken(r)
    BY <2>2 DEF Claims, Undecided, Taken, SameEmail, Users
  <2>3. ASSUME NEW s \in Runs, s # r, request[s] = request[r], Claims(s), Claims(r)'
        PROVE  FALSE
    BY <2>2, <2>3 DEF IInv, OneClaim
  <2> QED BY <2>1, <2>3 DEF IInv, OneClaim, OthersGo
<1> QED BY <1>3, <1>4 DEF IInv

LEMMA InitInvariant == Init => IInv
<1> SUFFICES ASSUME Init PROVE IInv
  OBVIOUS
<1>1. UP!UInv
  BY OwnConn, UP!UInitInvariant DEF Init, U!UInit, UP!UInit, U!Gone, UP!Gone
<1>2. RunTypes
  BY DEF Init, RunTypes, InUnit, Answers
<1>3. ASSUME NEW r \in Runs  PROVE RunInv(r)
  BY RunAssumption DEF Init, U!UInit, U!Gone, RunInv, WritesKnown, Stored, Spoken,
     Placed, Before, InUnit
<1>4. OneClaim
  BY DEF Init, U!UInit, OneClaim, Claims
<1> QED BY <1>1, <1>2, <1>3, <1>4 DEF IInv

LEMMA NextIsStep ==
  ASSUME IInv, Next  PROVE UNCHANGED vars \/ \E r \in Runs : Step(r)
<1>1. ASSUME NEW r \in Runs, Run(r) \/ InsertUserFails(r)  PROVE Step(r)
  BY <1>1, TagsCreateStep, TagsBeginStep, TagsQueryStep, TagsCommitStep,
     TagsReturnStep, ExecuteStartStep, BeginStep, InsertUserStep, InsertUserFailsStep,
     UserExistsStep, InsertPostStep, CommitStep, CatchStep, ReturnStep
  DEF Run
<1>2. ASSUME NEW r \in Runs, Crash(r) \/ Finish(r)  PROVE Step(r)
  BY <1>2, ExitStep DEF Crash, Finish
<1>3. ASSUME NEW r \in Runs, (U!Cut(r) \/ Server(r)) /\ LeaveRuns  PROVE Step(r)
  BY <1>3, SessionStep
<1> QED BY <1>1, <1>2, <1>3 DEF Next, Over

LEMMA NextInvariant == IInv /\ [Next]_vars => IInv'
<1> SUFFICES ASSUME IInv, [Next]_vars PROVE IInv'
  OBVIOUS
<1>1. CASE UNCHANGED vars
  <2>1. /\ conn' = conn /\ session' = session /\ writes' = writes
        /\ committed' = committed /\ unit' = unit /\ pc' = pc
        /\ request' = request /\ answer' = answer /\ sent' = sent /\ told' = told
    BY <1>1 DEF vars
  <2>2. UP!UInv'
    BY <2>1 DEF IInv, UP!UInv, UP!ActiveIsUsable, UP!TransactionOwned, UP!UTypeOK,
                UP!OneHolder, UP!HeldOnServer, UP!Busy
  <2>3. \A r \in Runs : RunInv(r)'
    BY <2>1 DEF IInv, RunInv, WritesKnown, Stored, Spoken, Placed, Taken,
                SameEmail, Users
  <2> QED BY <2>1, <2>2, <2>3 DEF IInv, RunTypes, OneClaim, Claims
<1>2. ASSUME NEW r \in Runs, Step(r)  PROVE IInv'
  BY <1>2, Together
<1> QED BY <1>1, <1>2, NextIsStep

(* What a session has written follows from how far its run has come, and   *)
(* an email is claimed by one run, whatever the runs and the server do.    *)
THEOREM Invariance == Spec => []IInv
BY InitInvariant, NextInvariant, PTL DEF Spec

(* However many runs overlap, follow one another, die or are cut off, no   *)
(* session ever sees a user without the post, or a post without the user.  *)
THEOREM PairsAreAtomic == Spec => []AtomicPair
<1>1. IInv => AtomicPair
  BY DEF IInv, RunInv, Stored, AtomicPair, Users, Posts
<1> QED BY <1>1, Invariance, PTL

(* No two stored users have one email, although every run only looks at    *)
(* what is there when it inserts.                                          *)
THEOREM EmailsAreUnique == Spec => []EmailUnique
<1>1. IInv => EmailUnique
  BY DEF IInv, OneClaim, Claims, EmailUnique, Users
<1> QED BY <1>1, Invariance, PTL

(* What CreateUserWithPost answers is true, and stays true.                *)
THEOREM AnswersAreTrue == Spec => []AnswersTrue
<1>1. IInv => AnswersTrue
  BY DEF IInv, RunInv, Stored, Spoken, AnswersTrue, Users, Posts
<1> QED BY <1>1, Invariance, PTL

(* A run that has not called Commit has left nothing behind.               *)
THEOREM ErrorsLeaveNothing == Spec => []ErrorBeforeCommit
<1>1. ASSUME IInv, NEW r \in Runs, ~sent[r]
      PROVE  /\ r \notin Users \cup Posts
             /\ session[r] = "committing" => writes[r] = {}
  BY <1>1 DEF IInv, RunInv, Stored, WritesKnown, Users, Posts
<1>2. IInv => ErrorBeforeCommit
  BY <1>1 DEF ErrorBeforeCommit
<1> QED BY <1>2, Invariance, PTL

(* The connection is free again after each use case.                       *)
THEOREM ConnectionsAreFreed == Spec => []NoTransactionLeak
<1>1. ASSUME IInv PROVE TypeOK
  <2>1. U!UTypeOK
    BY <1>1 DEF IInv, UP!UInv, UP!TransactionOwned, UP!UTypeOK, U!UTypeOK, UP!Repos, U!Repos
  <2> QED BY <1>1, <2>1 DEF IInv, RunTypes, RunInv, Placed, TypeOK, Answers
<1>2. ASSUME IInv, NEW r \in Runs, pc[r] \in {"create", "exit"}, conn[r] = "open"
      PROVE  session[r] = "idle"
  <2>1. ~unit[r].alive
    BY <1>2 DEF IInv, RunInv, Placed, InUnit
  <2>2. session[r] \notin {"committing", "ended"}
    BY <1>2 DEF IInv, RunInv, WritesKnown
  <2> QED BY <1>2, <2>1, <2>2, RunFacts
<1>3. IInv => NoTransactionLeak
  BY <1>1, <1>2 DEF NoTransactionLeak
<1> QED BY <1>3, Invariance, PTL

(* The users a run is told of are stored: what a query answers is what has *)
(* been committed, and that is never taken back.                           *)
ToldStored == \A r \in Runs : told[r] \subseteq Guests \cup Users

LEMMA ToldStep ==
  ASSUME RunTypes, [Next]_vars, NEW s \in Runs
  PROVE  told'[s] \in {told[s], {}, Guests \cup Users}
<1> USE DEF RunTypes, Goto, Reply
<1>1. CASE UNCHANGED vars
  BY <1>1 DEF vars
<1>2. ASSUME NEW r \in Runs, TagsQuery(r) \/ TagsCommit(r)
      PROVE  told'[s] \in {told[s], {}, Guests \cup Users}
  BY <1>2 DEF TagsQuery, TagsCommit
<1>3. ASSUME NEW r \in Runs, TagsCreate(r) \/ TagsBegin(r) \/ TagsReturn(r)
      PROVE  told' = told
  BY <1>3 DEF TagsCreate, TagsBegin, TagsReturn
<1>4. ASSUME NEW r \in Runs,
             ExecuteStart(r) \/ Begin(r) \/ InsertUser(r) \/ InsertUserFails(r)
      PROVE  told' = told
  BY <1>4 DEF ExecuteStart, Begin, InsertUser, InsertUserFails
<1>5. ASSUME NEW r \in Runs,
             UserExists(r) \/ InsertPost(r) \/ Commit(r) \/ Catch(r) \/ Return(r)
      PROVE  told' = told
  BY <1>5 DEF UserExists, InsertPost, Commit, Catch, Return
<1>6. ASSUME NEW r \in Runs, Crash(r) \/ Finish(r) \/ LeaveRuns  PROVE told' = told
  BY <1>6 DEF Crash, Finish, Exit, LeaveRuns
<1> QED BY <1>1, <1>2, <1>3, <1>4, <1>5, <1>6 DEF Next, Run, Over

LEMMA RowsStay == IInv /\ [Next]_vars => committed \subseteq committed'
BY NextIsStep DEF Step, vars

LEMMA ToldAreStored == Spec => []ToldStored
<1>1. Init => ToldStored
  BY DEF Init, ToldStored
<1>2. IInv /\ ToldStored /\ [Next]_vars => ToldStored'
  BY ToldStep, RowsStay DEF IInv, ToldStored, Users
<1> QED BY <1>1, <1>2, Invariance, PTL DEF Spec

-----------------------------------------------------------------------------
(* Tags.  Sequences of any length are dealt with by induction over the     *)
(* numbers up to theirs, in the form the provers can use: a set of numbers *)
(* that holds 0 and, with any number, the next one.                        *)
LEMMA UpTo ==
  ASSUME NEW n \in Nat, NEW S, 0 \in S, \A i \in 0..n-1 : i \in S => i + 1 \in S
  PROVE  \A i \in 0..n : i \in S
<1> SUFFICES ASSUME (0..n) \ S # {} PROVE FALSE
  OBVIOUS
<1> DEFINE T == {1..i : i \in (0..n) \ S}
<1>1. T \subseteq SUBSET (1..n) /\ T # {}
  OBVIOUS
<1>2. IsWellFoundedOn(StrictSubsetOrdering(1..n), SUBSET (1..n))
  <2>1. IsFiniteSet(1..n)
    BY FS_Interval
  <2>2. FiniteSubsetsOf(1..n) = SUBSET (1..n)
    BY <2>1, FS_FiniteSubsetsOfFinite
  <2>3. IsWellFoundedOn(StrictSubsetOrdering(1..n), FiniteSubsetsOf(1..n))
    BY <2>1, FS_StrictSubsetOrderingWellFounded
  <2> QED BY <2>2, <2>3, Zenon
<1> HIDE DEF T
<1>3. PICK u \in T : \A v \in T : ~(<<v, u>> \in StrictSubsetOrdering(1..n))
  BY <1>1, <1>2, WFMin
<1>4. PICK i \in (0..n) \ S : u = 1..i
  BY <1>3 DEF T
<1>5. i # 0 /\ i - 1 \in 0..n /\ i - 1 \notin S
  BY <1>4
<1>6. 1..(i - 1) \in T
  BY <1>5 DEF T
<1>7. 1..(i - 1) \subseteq u /\ i \in u /\ i \notin 1..(i - 1)
  BY <1>4, <1>5
<1> QED BY <1>1, <1>3, <1>6, <1>7 DEF StrictSubsetOrdering

-----------------------------------------------------------------------------
(* g[i] is the first i members of s, one after the other.                  *)
Continued(g, s, i) == IF i = 1 THEN s[i] ELSE g[i - 1] \o s[i]
Joins(g, s, n) == g = [i \in 1..n |-> Continued(g, s, i)]

(* A sequence has its length, and only the empty one has length zero.      *)
LEMMA SeqFacts ==
  ASSUME NEW S, NEW s \in Seq(S)
  PROVE  /\ Len(s) \in Nat /\ DOMAIN s = 1..Len(s)
         /\ s # <<>> => Len(s) # 0
         /\ \A i \in 1..Len(s) : s[i] \in S
OBVIOUS

(* The sequences FlattenSeq puts together exist.                           *)
LEMMA JoinsExist == ASSUME NEW s, NEW n \in Nat PROVE \E g : Joins(g, s, n)
<1> DEFINE I == {k \in 0..n : \E g : Joins(g, s, k)}
<1>1. 0 \in I
  <2>1. Joins([i \in 1..0 |-> Continued(<<>>, s, i)], s, 0)
    BY DEF Joins
  <2> QED BY <2>1
<1>2. ASSUME NEW k \in 0..n-1, k \in I PROVE k + 1 \in I
  <2>1. PICK g : Joins(g, s, k)
    BY <1>2
  <2> DEFINE h == [i \in 1..(k + 1) |-> IF i = k + 1 THEN Continued(g, s, i) ELSE g[i]]
  <2>2. /\ k + 1 \in 0..n /\ k \in Nat
        /\ \A i \in 1..(k + 1) : i # k + 1 => i \in 1..k
        /\ \A i \in 1..(k + 1) : i # 1 => i - 1 \in 1..k /\ i - 1 # k + 1
        /\ \A i \in 1..k : i \in 1..(k + 1) /\ i # k + 1
    BY <1>2
  <2>3. /\ \A i \in 1..k : h[i] = g[i]
        /\ \A i \in 1..(k + 1) : h[i] = IF i = k + 1 THEN Continued(g, s, i) ELSE g[i]
        /\ h = [i \in 1..(k + 1) |-> h[i]]
    BY <2>2
  <2> HIDE DEF h
  <2>4. \A i \in 1..k : g[i] = Continued(g, s, i)
    BY <2>1 DEF Joins
  <2>5. \A i \in 1..(k + 1) : Continued(g, s, i) = Continued(h, s, i)
    BY <2>2, <2>3 DEF Continued
  <2>6. \A i \in 1..(k + 1) : h[i] = Continued(h, s, i)
    BY <2>2, <2>3, <2>4, <2>5
  <2>7. Joins(h, s, k + 1)
    BY <2>3, <2>6 DEF Joins
  <2> QED BY <2>2, <2>7
<1>3. n \in 0..n
  OBVIOUS
<1> HIDE DEF I
<1>4. n \in I
  BY <1>1, <1>2, <1>3, UpTo
<1> QED BY <1>4 DEF I

(* What FlattenSeq returns is the last of them; each is a sequence.        *)
LEMMA Flattened ==
  ASSUME NEW S, NEW s \in Seq(Seq(S)), s # <<>>
  PROVE  \E g \in [1..Len(s) -> Seq(S)] :
            /\ g[1] = s[1] /\ \A i \in 2..Len(s) : g[i] = g[i - 1] \o s[i]
            /\ FlattenSeq(s) = g[Len(s)]
<1> DEFINE g == CHOOSE f : Joins(f, s, Len(s))
           n == Len(s)
<1>1. n \in Nat /\ n # 0 /\ n \in 1..n /\ 1 \in 1..n /\ \A i \in 1..n : s[i] \in Seq(S)
  <2> HIDE DEF n
  <2>1. n \in Nat /\ n # 0 /\ \A i \in 1..n : s[i] \in Seq(S)
    BY SeqFacts DEF n
  <2> QED BY <2>1
<1>2. Joins(g, s, n)
  BY <1>1, JoinsExist
<1>3. FlattenSeq(s) = g[n]
  BY <1>1 DEF FlattenSeq, Joins, Continued
<1> HIDE DEF g, n
<1>4. \A i \in 1..n : g[i] = Continued(g, s, i)
  BY <1>2 DEF Joins
<1>5. \A i \in 2..n : i \in 1..n /\ i # 1
  BY <1>1
<1>6. g[1] = s[1] /\ \A i \in 2..n : g[i] = g[i - 1] \o s[i]
  BY <1>1, <1>4, <1>5 DEF Continued
<1>7. ASSUME NEW i \in 1..n PROVE g[i] \in Seq(S)
  <2> DEFINE I == {k \in 0..n : k # 0 => g[k] \in Seq(S)}
  <2>1. ASSUME NEW k \in 0..n-1, k \in I PROVE k + 1 \in I
    <3>1. k + 1 \in 0..n
      BY <1>1, <2>1
    <3>2. CASE k = 0
      BY <1>1, <1>6, <3>1, <3>2
    <3>3. CASE k # 0
      <4>1. k + 1 \in 2..n /\ k + 1 \in 1..n /\ (k + 1) - 1 = k /\ g[k] \in Seq(S)
        BY <1>1, <2>1, <3>3
      <4>2. g[k + 1] = g[k] \o s[k + 1] /\ s[k + 1] \in Seq(S)
        BY <1>1, <1>6, <4>1
      <4>3. g[k + 1] \in Seq(S)
        BY <4>1, <4>2
      <4> QED BY <3>1, <4>3
    <3> QED BY <3>2, <3>3
  <2>2. 0 \in I /\ i \in 0..n /\ i # 0
    BY <1>1
  <2> HIDE DEF I
  <2>3. i \in I
    BY <1>1, <2>1, <2>2, UpTo
  <2> QED BY <2>2, <2>3 DEF I
<1>8. g \in [1..n -> Seq(S)]
  BY <1>2, <1>7 DEF Joins
<1> QED BY <1>3, <1>6, <1>8 DEF n
-----------------------------------------------------------------------------
(* What texts are made of.  (Of STRING alone the provers do not know what  *)
(* is in it.)                                                              *)
Symbols == STRING \cup {"comma", "quote", "open", "close", "NULL"}

LEMMA SymbolFacts == {"comma", "quote", "open", "close", "NULL"} \subseteq Symbols
BY DEF Symbols

(* The pieces of a text that follow its commas.                            *)
Comma(F, k) == k \in 1..Len(F) /\ F[k] = "comma"
Bare(e) == \A k \in 1..Len(e) : e[k] # "comma"
IsSegment(F, a, b) ==
  /\ a \in 2..Len(F) /\ b \in a..Len(F)
  /\ F[a - 1] = "comma" /\ \A k \in a..b : F[k] # "comma"
  /\ b # Len(F) => F[b + 1] = "comma"
Segments(F) == {SubSeq(F, q[1], q[2]) : q \in {p \in Nat \X Nat : IsSegment(F, p[1], p[2])}}

LEMMA PartOf ==
  ASSUME NEW F \in Seq(Symbols), NEW a \in Nat, NEW b \in Nat, 1 <= a, b <= Len(F)
  PROVE  /\ SubSeq(F, a, b) \in Seq(Symbols)
         /\ Len(SubSeq(F, a, b)) = IF a <= b THEN b - a + 1 ELSE 0
         /\ \A i \in 1..(b - a + 1) : SubSeq(F, a, b)[i] = F[a + i - 1]
<1>1. \A i \in a..b : i \in 1..Len(F) /\ F[i] \in Symbols
  BY SeqFacts
<1> QED BY <1>1, SubSeqProperties

LEMMA SegmentIn ==
  ASSUME NEW F, NEW x
  PROVE  x \in Segments(F)
           <=> \E a, b \in Nat : IsSegment(F, a, b) /\ x = SubSeq(F, a, b)
<1>1. ASSUME x \in Segments(F)
      PROVE  \E a, b \in Nat : IsSegment(F, a, b) /\ x = SubSeq(F, a, b)
  <2>1. PICK q \in Nat \X Nat : IsSegment(F, q[1], q[2]) /\ x = SubSeq(F, q[1], q[2])
    BY <1>1 DEF Segments
  <2>2. q[1] \in Nat /\ q[2] \in Nat
    OBVIOUS
  <2> QED BY <2>1, <2>2
<1>2. ASSUME NEW a \in Nat, NEW b \in Nat, IsSegment(F, a, b), x = SubSeq(F, a, b)
      PROVE  x \in Segments(F)
  <2>1. <<a, b>> \in Nat \X Nat /\ <<a, b>>[1] = a /\ <<a, b>>[2] = b
    OBVIOUS
  <2>2. <<a, b>> \in {p \in Nat \X Nat : IsSegment(F, p[1], p[2])}
    BY <1>2, <2>1
  <2>3. x = SubSeq(F, <<a, b>>[1], <<a, b>>[2])
    BY <1>2, <2>1
  <2> QED BY <2>2, <2>3 DEF Segments
<1> QED BY <1>1, <1>2

(* H is G, a comma, and e.                                                 *)
IsAfter(H, G, e) ==
  /\ H \in Seq(Symbols)
  /\ Len(H) = Len(G) + 1 + Len(e)
  /\ \A k \in 1..Len(G) : H[k] = G[k]
  /\ H[Len(G) + 1] = "comma"
  /\ \A k \in 1..Len(e) : H[Len(G) + 1 + k] = e[k]

LEMMA Joined ==
  ASSUME NEW G \in Seq(Symbols), NEW e \in Seq(Symbols)
  PROVE  IsAfter(G \o (<<"comma">> \o e), G, e)
<1> DEFINE H == G \o (<<"comma">> \o e)
<1> DEFINE c == <<"comma">> \o e
<1>1. <<"comma">> \in Seq(Symbols) /\ Len(<<"comma">>) = 1 /\ <<"comma">>[1] = "comma"
  BY SymbolFacts
<1>2. Len(e) \in Nat /\ Len(G) \in Nat
  OBVIOUS
<1>3. c \in Seq(Symbols) /\ Len(c) = 1 + Len(e)
      /\ \A i \in 1..(1 + Len(e)) : c[i] = IF i <= 1 THEN <<"comma">>[i] ELSE e[i - 1]
  BY <1>1, ConcatProperties
<1>4. c[1] = "comma" /\ \A k \in 1..Len(e) : c[k + 1] = e[k]
  <2> HIDE DEF c
  <2> QED BY <1>1, <1>2, <1>3
<1> HIDE DEF c
<1>5. H = G \o c
  BY DEF c
<1> HIDE DEF H
<1>6. H \in Seq(Symbols) /\ Len(H) = Len(G) + Len(c)
      /\ \A i \in 1..(Len(G) + Len(c)) :
           H[i] = IF i <= Len(G) THEN G[i] ELSE c[i - Len(G)]
  <2>1. /\ G \o c \in Seq(Symbols) /\ Len(G \o c) = Len(G) + Len(c)
        /\ \A i \in 1..(Len(G) + Len(c)) :
             (G \o c)[i] = IF i <= Len(G) THEN G[i] ELSE c[i - Len(G)]
    BY <1>3, ConcatProperties
  <2> QED BY <1>5, <2>1
<1>7. H[Len(G) + 1] = c[1]
  <2>1. Len(G) + 1 \in 1..(Len(G) + Len(c)) /\ ~(Len(G) + 1 <= Len(G))
        /\ (Len(G) + 1) - Len(G) = 1
    BY <1>2, <1>3
  <2> QED BY <1>6, <2>1
<1>8. ASSUME NEW k \in 1..Len(e) PROVE H[Len(G) + 1 + k] = c[k + 1]
  <2>1. Len(G) + 1 + k \in 1..(Len(G) + Len(c)) /\ ~(Len(G) + 1 + k <= Len(G))
        /\ (Len(G) + 1 + k) - Len(G) = k + 1
    BY <1>2, <1>3
  <2> QED BY <1>6, <2>1
<1>9. \A k \in 1..Len(G) : H[k] = G[k]
  BY <1>2, <1>3, <1>6
<1>10. Len(H) = Len(G) + 1 + Len(e)
  BY <1>2, <1>3, <1>6
<1>11. IsAfter(H, G, e)
  BY <1>4, <1>6, <1>7, <1>8, <1>9, <1>10 DEF IsAfter
<1> QED BY <1>11 DEF H

LEMMA SegmentsKept ==
  ASSUME NEW G \in Seq(Symbols), NEW e \in Seq(Symbols), NEW H,
         IsAfter(H, G, e)
  PROVE  Segments(G) \subseteq Segments(H)
<1> SUFFICES ASSUME NEW x \in Segments(G) PROVE x \in Segments(H)
  OBVIOUS
<1>0. PICK a \in Nat, b \in Nat : IsSegment(G, a, b) /\ x = SubSeq(G, a, b)
  BY SegmentIn
<1>1. Len(G) \in Nat /\ Len(e) \in Nat
  OBVIOUS
<1>2. a \in 2..Len(G) /\ b \in a..Len(G) /\ b \in 1..Len(G)
  BY <1>0, <1>1 DEF IsSegment
<1>3. \A k \in 1..Len(G) : H[k] = G[k]
  BY DEF IsAfter
<1>4. Len(H) = Len(G) + 1 + Len(e) /\ H \in Seq(Symbols)
  BY DEF IsAfter
<1>5. H[a - 1] = "comma" /\ \A k \in a..b : H[k] # "comma"
  <2>1. a - 1 \in 1..Len(G) /\ \A k \in a..b : k \in 1..Len(G)
    BY <1>1, <1>2
  <2> QED BY <1>0, <1>3, <2>1 DEF IsSegment
<1>6. H[b + 1] = "comma"
  <2>1. CASE b = Len(G)
    BY <2>1 DEF IsAfter
  <2>2. CASE b # Len(G)
    <3>1. b + 1 \in 1..Len(G)
      BY <1>1, <1>2, <2>2
    <3> QED BY <1>0, <1>3, <2>2, <3>1 DEF IsSegment
  <2> QED BY <2>1, <2>2
<1>7. IsSegment(H, a, b)
  <2>1. a \in 2..Len(H) /\ b \in a..Len(H)
    BY <1>1, <1>2, <1>4
  <2> QED BY <1>5, <1>6, <2>1 DEF IsSegment
<1>8. SubSeq(G, a, b) = SubSeq(H, a, b)
  <2>1. b <= Len(H) /\ 1 <= a /\ b <= Len(G) /\ a <= b
    BY <1>1, <1>2, <1>4
  <2>2. /\ SubSeq(G, a, b) \in Seq(Symbols) /\ SubSeq(H, a, b) \in Seq(Symbols)
        /\ Len(SubSeq(G, a, b)) = b - a + 1 /\ Len(SubSeq(H, a, b)) = b - a + 1
        /\ \A i \in 1..(b - a + 1) : SubSeq(G, a, b)[i] = G[a + i - 1]
        /\ \A i \in 1..(b - a + 1) : SubSeq(H, a, b)[i] = H[a + i - 1]
    BY <1>4, <2>1, PartOf
  <2>3. \A i \in 1..(b - a + 1) : a + i - 1 \in 1..Len(G)
    BY <1>1, <1>2
  <2>4. \A i \in 1..(b - a + 1) : SubSeq(G, a, b)[i] = SubSeq(H, a, b)[i]
    BY <1>3, <2>2, <2>3
  <2>5. Len(SubSeq(G, a, b)) = Len(SubSeq(H, a, b))
        /\ \A i \in 1..Len(SubSeq(G, a, b)) : SubSeq(G, a, b)[i] = SubSeq(H, a, b)[i]
    BY <2>2, <2>4
  <2> QED BY <2>2, <2>5, SeqEqual
<1> QED BY <1>0, <1>7, <1>8, SegmentIn

(* What follows the last comma is a segment, and the only new one.         *)
LEMMA LastSegment ==
  ASSUME NEW G \in Seq(Symbols), NEW e \in Seq(Symbols), e # <<>>, NEW H,
         IsAfter(H, G, e), Bare(e)
  PROVE  /\ e \in Segments(H)
         /\ Segments(H) \subseteq Segments(G) \cup {e}
<1> DEFINE n == Len(G)
           m == Len(e)
<1>1. n \in Nat /\ m \in Nat /\ m # 0
  BY SeqFacts
<1>2. /\ H \in Seq(Symbols) /\ Len(H) = n + 1 + m
      /\ \A k \in 1..n : H[k] = G[k]
      /\ H[n + 1] = "comma"
      /\ \A k \in 1..m : H[n + 1 + k] = e[k]
  BY DEF IsAfter
<1>3. \A k \in 1..m : e[k] # "comma"
  BY DEF Bare
<1>4. SubSeq(H, n + 2, n + 1 + m) = e
  <2>1. n + 2 \in Nat /\ n + 1 + m \in Nat /\ 1 <= n + 2 /\ n + 1 + m <= Len(H)
        /\ n + 2 <= n + 1 + m /\ (n + 1 + m) - (n + 2) + 1 = m
    BY <1>1, <1>2
  <2> DEFINE x == SubSeq(H, n + 2, n + 1 + m)
  <2>2. x \in Seq(Symbols) /\ Len(x) = m /\ \A i \in 1..m : x[i] = H[(n + 2) + i - 1]
    <3> HIDE DEF n, m
    <3>1. /\ x \in Seq(Symbols)
          /\ Len(x) = (n + 1 + m) - (n + 2) + 1
          /\ \A i \in 1..((n + 1 + m) - (n + 2) + 1) : x[i] = H[(n + 2) + i - 1]
      BY <1>2, <2>1, PartOf
    <3> QED BY <2>1, <3>1
  <2> HIDE DEF x, n
  <2>3. \A i \in 1..m : (n + 2) + i - 1 = n + 1 + i
    BY <1>1
  <2>4. \A i \in 1..m : x[i] = e[i]
    BY <1>2, <2>2, <2>3
  <2>5. x = e
    BY <2>2, <2>4, SeqEqual
  <2> QED BY <2>5 DEF x
<1> HIDE DEF n, m
<1>5. IsSegment(H, n + 2, n + 1 + m)
  <2>1. n + 2 \in 2..Len(H) /\ n + 1 + m \in (n + 2)..Len(H) /\ (n + 2) - 1 = n + 1
    BY <1>1, <1>2
  <2>2. ASSUME NEW k \in (n + 2)..(n + 1 + m) PROVE H[k] # "comma"
    <3>1. k - (n + 1) \in 1..m /\ n + 1 + (k - (n + 1)) = k
      BY <1>1
    <3> QED BY <1>2, <1>3, <3>1
  <2> QED BY <1>2, <2>1, <2>2 DEF IsSegment
<1>6. e \in Segments(H)
  <2>1. n + 2 \in Nat /\ n + 1 + m \in Nat
    BY <1>1
  <2> QED BY <1>4, <1>5, <2>1, SegmentIn
<1>7. ASSUME NEW a \in Nat, NEW b \in Nat, IsSegment(H, a, b)
      PROVE  SubSeq(H, a, b) \in Segments(G) \cup {e}
  <2>1. a \in 2..Len(H) /\ b \in a..Len(H) /\ H[a - 1] = "comma"
        /\ (\A k \in a..b : H[k] # "comma") /\ (b # Len(H) => H[b + 1] = "comma")
    BY <1>7 DEF IsSegment
  <2>2. CASE b <= n
    <3>1. a - 1 \in 1..n /\ a \in 2..n /\ b \in a..n /\ b # Len(H)
          /\ \A k \in a..b : k \in 1..n
      BY <1>1, <1>2, <2>1, <2>2
    <3>2. b # n => G[b + 1] = "comma"
      <4>1. b # n => b + 1 \in 1..n
        BY <1>1, <3>1
      <4> QED BY <1>2, <2>1, <3>1, <4>1
    <3>3. IsSegment(G, a, b)
      BY <1>2, <2>1, <3>1, <3>2 DEF IsSegment, n
    <3>4. SubSeq(H, a, b) = SubSeq(G, a, b)
      <4>1. b <= Len(H) /\ 1 <= a /\ b <= Len(G) /\ a <= b
        BY <1>1, <1>2, <3>1 DEF n
      <4>2. /\ SubSeq(G, a, b) \in Seq(Symbols) /\ SubSeq(H, a, b) \in Seq(Symbols)
            /\ Len(SubSeq(G, a, b)) = b - a + 1 /\ Len(SubSeq(H, a, b)) = b - a + 1
            /\ \A i \in 1..(b - a + 1) : SubSeq(G, a, b)[i] = G[a + i - 1]
            /\ \A i \in 1..(b - a + 1) : SubSeq(H, a, b)[i] = H[a + i - 1]
        BY <1>2, <4>1, PartOf
      <4>3. \A i \in 1..(b - a + 1) : a + i - 1 \in 1..n
        BY <1>1, <3>1
      <4>4. \A i \in 1..(b - a + 1) : SubSeq(H, a, b)[i] = SubSeq(G, a, b)[i]
        BY <1>2, <4>2, <4>3
      <4>5. Len(SubSeq(H, a, b)) = Len(SubSeq(G, a, b))
            /\ \A i \in 1..Len(SubSeq(H, a, b)) : SubSeq(H, a, b)[i] = SubSeq(G, a, b)[i]
        BY <4>2, <4>4
      <4> QED BY <4>2, <4>5, SeqEqual
    <3> QED BY <3>3, <3>4, SegmentIn
  <2>3. CASE ~(b <= n)
    <3>1. ~(n + 1 \in a..b)
      BY <1>2, <2>1
    <3>2. a >= n + 2 /\ a \in Nat /\ b \in Nat
      BY <1>1, <2>1, <2>3, <3>1
    <3>3. a = n + 2
      <4> SUFFICES ASSUME a # n + 2 PROVE FALSE
        OBVIOUS
      <4>1. PICK k \in 1..m : n + 1 + k = a - 1
        <5>1. (a - 1) - (n + 1) \in 1..m /\ n + 1 + ((a - 1) - (n + 1)) = a - 1
          BY <1>1, <1>2, <2>1, <3>2
        <5> QED BY <5>1
      <4>2. H[n + 1 + k] = "comma" /\ H[n + 1 + k] = e[k] /\ e[k] # "comma"
        BY <1>2, <1>3, <2>1, <4>1
      <4> QED BY <4>2
    <3>4. b = n + 1 + m
      <4> SUFFICES ASSUME b # n + 1 + m PROVE FALSE
        OBVIOUS
      <4>1. PICK k \in 1..m : n + 1 + k = b + 1
        <5>1. (b + 1) - (n + 1) \in 1..m /\ n + 1 + ((b + 1) - (n + 1)) = b + 1
          BY <1>1, <1>2, <2>1, <3>2
        <5> QED BY <5>1
      <4>2. H[n + 1 + k] = "comma" /\ H[n + 1 + k] = e[k] /\ e[k] # "comma"
        BY <1>2, <1>3, <2>1, <4>1
      <4> QED BY <4>2
    <3> QED BY <1>4, <3>3, <3>4
  <2> QED BY <1>1, <2>2, <2>3
<1>8. ASSUME NEW x \in Segments(H) PROVE x \in Segments(G) \cup {e}
  <2>1. PICK a \in Nat, b \in Nat : IsSegment(H, a, b) /\ x = SubSeq(H, a, b)
    BY SegmentIn
  <2> QED BY <1>7, <2>1
<1> QED BY <1>6, <1>8

(* Of a text that begins with a comma, getline cuts out the segments.      *)
LEMMA PiecesOfTail ==
  ASSUME NEW F \in Seq(Symbols), F # <<>>, F[1] = "comma"
  PROVE  Pieces(Tail(F)) = Segments(F)
<1> DEFINE T == Tail(F)
           n == Len(T)
           IsPiece(a, b) ==
             /\ a \in 1..n /\ b \in 1..n /\ a <= b
             /\ \A k \in a..b : ~Comma(T, k)
             /\ a = 1 \/ Comma(T, a - 1)
             /\ b = n \/ Comma(T, b + 1)
<1>1. /\ T \in Seq(Symbols) /\ n \in Nat /\ Len(F) = n + 1
      /\ \A k \in 1..n : T[k] = F[k + 1]
  <2>1. /\ T \in Seq(Symbols) /\ n = Len(F) - 1
        /\ \A k \in 1..n : T[k] = F[k + 1]
    BY HeadTailProperties
  <2>2. Len(F) \in Nat /\ Len(F) # 0
    BY SeqFacts
  <2> HIDE DEF T, n
  <2> QED BY <2>1, <2>2
<1>2. \A x : x \in Pieces(T) <=> \E a, b \in 1..n : IsPiece(a, b) /\ x = SubSeq(T, a, b)
  <2> DEFINE Q == {q \in (1..n) \X (1..n) : IsPiece(q[1], q[2])}
  <2>1. Pieces(T) = {SubSeq(T, q[1], q[2]) : q \in Q}
    <3>1. Q = {q \in (1..n) \X (1..n) :
                 /\ q[1] <= q[2]
                 /\ \A k \in q[1]..q[2] : ~Comma(T, k)
                 /\ q[1] = 1 \/ Comma(T, q[1] - 1)
                 /\ q[2] = n \/ Comma(T, q[2] + 1)}
      OBVIOUS
    <3> QED BY <3>1 DEF Pieces, Comma
  <2>2. \A q : q \in Q <=> q \in (1..n) \X (1..n) /\ IsPiece(q[1], q[2])
    OBVIOUS
  <2> HIDE DEF Q, IsPiece, T, n
  <2>3. ASSUME NEW x \in Pieces(T)
        PROVE  \E a, b \in 1..n : IsPiece(a, b) /\ x = SubSeq(T, a, b)
    <3>1. PICK q \in Q : x = SubSeq(T, q[1], q[2])
      BY <2>1
    <3>2. q[1] \in 1..n /\ q[2] \in 1..n /\ IsPiece(q[1], q[2])
      BY <2>2
    <3> QED BY <3>1, <3>2
  <2>4. ASSUME NEW a \in 1..n, NEW b \in 1..n, IsPiece(a, b)
        PROVE  SubSeq(T, a, b) \in Pieces(T)
    <3>1. <<a, b>> \in (1..n) \X (1..n) /\ <<a, b>>[1] = a /\ <<a, b>>[2] = b
      OBVIOUS
    <3>2. <<a, b>> \in Q
      BY <2>2, <2>4, <3>1
    <3>3. SubSeq(T, a, b) = SubSeq(T, <<a, b>>[1], <<a, b>>[2])
      BY <3>1
    <3> QED BY <2>1, <3>2, <3>3
  <2> QED BY <2>3, <2>4
<1> HIDE DEF T, n
<1>3. ASSUME NEW a \in 1..n, NEW b \in 1..n
      PROVE  IsPiece(a, b) <=> IsSegment(F, a + 1, b + 1)
  <2>1. \A k \in 1..n : Comma(T, k) <=> F[k + 1] = "comma"
    BY <1>1 DEF Comma, n
  <2>2. a = 1 \/ Comma(T, a - 1) <=> F[a] = "comma"
    <3>1. CASE a = 1
      BY <3>1
    <3>2. CASE a # 1
      <4>1. a - 1 \in 1..n /\ (a - 1) + 1 = a
        BY <1>1, <3>2
      <4> QED BY <2>1, <3>2, <4>1
    <3> QED BY <3>1, <3>2
  <2>3. b = n \/ Comma(T, b + 1) <=> (b + 1 # Len(F) => F[b + 2] = "comma")
    <3>1. CASE b = n
      BY <1>1, <3>1
    <3>2. CASE b # n
      <4>1. b + 1 \in 1..n /\ (b + 1) + 1 = b + 2 /\ b + 1 # Len(F)
        BY <1>1, <3>2
      <4> QED BY <2>1, <3>2, <4>1
    <3> QED BY <3>1, <3>2
  <2>4. a <= b => ((\A k \in a..b : ~Comma(T, k)) <=> \A k \in (a + 1)..(b + 1) : F[k] # "comma")
    <3>1. ASSUME a <= b, \A k \in a..b : ~Comma(T, k), NEW k \in (a + 1)..(b + 1)
          PROVE  F[k] # "comma"
      <4>1. k - 1 \in a..b /\ k - 1 \in 1..n /\ (k - 1) + 1 = k
        BY <1>1
      <4> QED BY <2>1, <3>1, <4>1
    <3>2. ASSUME a <= b, \A k \in (a + 1)..(b + 1) : F[k] # "comma", NEW k \in a..b
          PROVE  ~Comma(T, k)
      <4>1. k + 1 \in (a + 1)..(b + 1) /\ k \in 1..n
        BY <1>1
      <4> QED BY <2>1, <3>2, <4>1
    <3> QED BY <3>1, <3>2
  <2>5. a <= b <=> a + 1 \in 2..Len(F) /\ b + 1 \in (a + 1)..Len(F)
    BY <1>1
  <2>6. (a + 1) - 1 = a /\ (b + 1) + 1 = b + 2
    BY <1>1
  <2>7. IsSegment(F, a + 1, b + 1) <=>
          /\ a + 1 \in 2..Len(F) /\ b + 1 \in (a + 1)..Len(F)
          /\ F[a] = "comma" /\ \A k \in (a + 1)..(b + 1) : F[k] # "comma"
          /\ b + 1 # Len(F) => F[b + 2] = "comma"
    BY <2>6 DEF IsSegment
  <2> QED BY <2>2, <2>3, <2>4, <2>5, <2>7
<1>4. ASSUME NEW a \in 1..n, NEW b \in 1..n, a <= b
      PROVE  SubSeq(T, a, b) = SubSeq(F, a + 1, b + 1)
  <2>1. a \in Nat /\ b \in Nat /\ 1 <= a /\ b <= Len(T) /\ b - a + 1 \in Nat
    <3>1. n = Len(T)
      BY DEF n
    <3> QED BY <1>1, <1>4, <3>1
  <2>2. a + 1 \in Nat /\ b + 1 \in Nat /\ 1 <= a + 1 /\ b + 1 <= Len(F)
        /\ (b + 1) - (a + 1) + 1 = b - a + 1 /\ a + 1 <= b + 1
    BY <1>1, <1>4
  <2>3. /\ SubSeq(T, a, b) \in Seq(Symbols) /\ Len(SubSeq(T, a, b)) = b - a + 1
        /\ \A i \in 1..(b - a + 1) : SubSeq(T, a, b)[i] = T[a + i - 1]
    BY <1>1, <1>4, <2>1, PartOf
  <2> DEFINE y == SubSeq(F, a + 1, b + 1)
  <2>4. /\ y \in Seq(Symbols) /\ Len(y) = (b + 1) - (a + 1) + 1
        /\ \A i \in 1..((b + 1) - (a + 1) + 1) : y[i] = F[(a + 1) + i - 1]
    BY <2>2, PartOf
  <2> HIDE DEF y
  <2>5. \A i \in 1..(b - a + 1) : a + i - 1 \in 1..n /\ (a + 1) + i - 1 = (a + i - 1) + 1
    BY <1>1
  <2>6. \A i \in 1..(b - a + 1) : SubSeq(T, a, b)[i] = y[i]
    BY <1>1, <2>2, <2>3, <2>4, <2>5
  <2>7. SubSeq(T, a, b) = y
    BY <2>2, <2>3, <2>4, <2>6, SeqEqual
  <2> QED BY <2>7 DEF y
<1>5. ASSUME NEW x \in Pieces(T) PROVE x \in Segments(F)
  <2>1. PICK a \in 1..n, b \in 1..n : IsPiece(a, b) /\ x = SubSeq(T, a, b)
    BY <1>2
  <2>2. a <= b /\ a + 1 \in Nat /\ b + 1 \in Nat
    BY <1>1, <2>1
  <2>3. IsSegment(F, a + 1, b + 1) /\ x = SubSeq(F, a + 1, b + 1)
    BY <1>3, <1>4, <2>1, <2>2
  <2> QED BY <2>2, <2>3, SegmentIn
<1>6. ASSUME NEW x \in Segments(F) PROVE x \in Pieces(T)
  <2>1. PICK a \in Nat, b \in Nat : IsSegment(F, a, b) /\ x = SubSeq(F, a, b)
    BY SegmentIn
  <2>2. a \in 2..Len(F) /\ b \in a..Len(F)
    BY <2>1 DEF IsSegment
  <2>3. a - 1 \in 1..n /\ b - 1 \in 1..n /\ (a - 1) + 1 = a /\ (b - 1) + 1 = b
        /\ a - 1 <= b - 1
    BY <1>1, <2>2
  <2>4. IsPiece(a - 1, b - 1)
    BY <1>3, <2>1, <2>3
  <2>5. SubSeq(T, a - 1, b - 1) = SubSeq(F, a, b)
    BY <1>4, <2>3
  <2> QED BY <1>2, <2>1, <2>3, <2>4, <2>5
<1> QED BY <1>5, <1>6 DEF T

(* SetToSeq lists all of a set.                                            *)
LEMMA Listed ==
  ASSUME NEW C, IsFiniteSet(C)
  PROVE  /\ Cardinality(C) \in Nat
         /\ SetToSeq(C) \in [1..Cardinality(C) -> C]
         /\ \A c \in C : \E i \in 1..Cardinality(C) : SetToSeq(C)[i] = c
<1> DEFINE n == Cardinality(C)
           s == SetToSeq(C)
<1>1. n \in Nat /\ ExistsBijection(1..n, C)
  BY FS_CardinalityType
<1>2. \E f \in [1..n -> C] : IsInjective(f)
  BY <1>1 DEF ExistsBijection, Bijection, Injection
<1>3. s \in [1..n -> C] /\ IsInjective(s)
  BY <1>2 DEF SetToSeq
<1> HIDE DEF s, n
<1>4. s \in Injection(1..n, C)
  BY <1>3 DEF Injection
<1>5. IsFiniteSet(1..n) /\ Cardinality(1..n) = n
  BY <1>1, FS_Interval
<1>6. s \in Surjection(1..n, C)
  BY <1>4, <1>5, FS_Injection DEF n
<1> QED BY <1>1, <1>3, <1>6 DEF Surjection, s, n

(* What one more element adds.                                             *)
LEMMA OneMore ==
  ASSUME NEW A \in Seq(Symbols), NEW e \in Seq(Symbols), e # <<>>, NEW B,
         IsAfter(B, A, e),
         A # <<>> => A[1] = "comma"
  PROVE  /\ B \in Seq(Symbols) /\ B # <<>> /\ B[1] = "comma"
         /\ Segments(A) \subseteq Segments(B)
         /\ Bare(e) => e \in Segments(B) /\ Segments(B) \subseteq Segments(A) \cup {e}
<1>1. /\ B \in Seq(Symbols) /\ Len(B) = Len(A) + 1 + Len(e)
      /\ \A i \in 1..Len(A) : B[i] = A[i]
      /\ B[Len(A) + 1] = "comma"
  BY DEF IsAfter
<1>2. Len(A) \in Nat /\ Len(e) \in Nat /\ (A # <<>> => Len(A) # 0) /\ Len(<<>>) = 0
  BY SeqFacts
<1>3. CASE A = <<>>
  <2>1. Len(A) = 0 /\ Len(B) # 0
    BY <1>1, <1>2, <1>3
  <2>2. B[1] = "comma" /\ B # <<>>
    BY <1>1, <1>2, <2>1
  <2> QED BY <1>1, <2>2, SegmentsKept, LastSegment
<1>4. CASE A # <<>>
  <2>1. 1 \in 1..Len(A) /\ Len(B) # 0
    BY <1>1, <1>2, <1>4
  <2>2. B[1] = "comma" /\ B # <<>>
    BY <1>1, <1>2, <1>4, <2>1
  <2> QED BY <1>1, <2>2, SegmentsKept, LastSegment
<1> QED BY <1>3, <1>4

(* Elements that contain no comma are cut out of the text that lists them, *)
(* and nothing else is when none contains one.                             *)
LEMMA ElementsCutOut ==
  ASSUME NEW E, IsFiniteSet(E), E # {}, E \subseteq Seq(Symbols), <<>> \notin E,
         NEW X, X = Tail(FlattenSeq(SetToSeq({<<"comma">> \o e : e \in E})))
  PROVE  /\ X \in Seq(Symbols)
         /\ \A e \in E : Bare(e) => e \in Pieces(X)
         /\ (\A e \in E : Bare(e)) => Pieces(X) = E
<1> DEFINE c(e) == <<"comma">> \o e
           C == {c(e) : e \in E}
           s == SetToSeq(C)
           n == Cardinality(C)
<1>1. \A e \in E : c(e) \in Seq(Symbols)
  <2>1. <<"comma">> \in Seq(Symbols)
    BY SymbolFacts
  <2> QED BY <2>1, ConcatProperties
<1>2. IsFiniteSet(C)
  <2> DEFINE f == [e \in E |-> c(e)]
  <2>1. f \in Surjection(E, C)
    BY DEF Surjection
  <2> QED BY <2>1, FS_Surjection
<1>3. C # {} /\ C \subseteq Seq(Symbols)
  BY <1>1
<1>4. \A x \in C : \E e \in E : x = c(e)
  OBVIOUS
<1>5. \A e \in E : c(e) \in C
  OBVIOUS
<1> HIDE DEF C
<1>6. /\ n \in Nat /\ s \in [1..n -> C]
      /\ \A x \in C : \E i \in 1..n : s[i] = x
  BY <1>2, Listed
<1> HIDE DEF s, n
<1>7. s \in Seq(Seq(Symbols)) /\ Len(s) = n /\ n # 0 /\ s # <<>>
  <2>1. n # 0
    <3>1. PICK x \in C : TRUE
      BY <1>3
    <3>2. PICK i \in 1..n : s[i] = x
      BY <1>6
    <3> QED BY <1>6, <3>2
  <2>2. s \in Seq(Seq(Symbols))
    BY <1>3, <1>6
  <2>3. Len(s) = n /\ s # <<>>
    BY <1>6, <2>1
  <2> QED BY <2>1, <2>2, <2>3
<1>8. PICK g \in [1..n -> Seq(Symbols)] :
        /\ g[1] = s[1] /\ \A i \in 2..n : g[i] = g[i - 1] \o s[i]
        /\ FlattenSeq(s) = g[n]
  BY <1>7, Flattened
<1> DEFINE G(k) == IF k = 0 THEN <<>> ELSE g[k]
           Begins(k) == k # 0 => G(k) # <<>> /\ G(k)[1] = "comma"
           Elements(k) == \A e \in E : \A j \in 1..k : Bare(e) /\ s[j] = c(e) => e \in Segments(G(k))
           Exact(k) == (\A e \in E : Bare(e)) => Segments(G(k)) \subseteq E
           I == {k \in 0..n : G(k) \in Seq(Symbols) /\ Begins(k) /\ Elements(k) /\ Exact(k)}
<1>9. 0 \in I
  <2>1. G(0) = <<>> /\ <<>> \in Seq(Symbols) /\ 0 \in 0..n
    BY <1>6
  <2>2. \A x : x \notin Segments(<<>>)
    <3>1. \A a, b \in Nat : ~IsSegment(<<>>, a, b)
      BY DEF IsSegment
    <3> QED BY <3>1, SegmentIn
  <2>3. Begins(0) /\ Elements(0) /\ Exact(0)
    BY <2>1, <2>2
  <2> QED BY <2>1, <2>3
<1>10. ASSUME NEW k \in 0..n-1, k \in I PROVE k + 1 \in I
  <2>1. k + 1 \in 1..n /\ k + 1 \in 0..n /\ k + 1 # 0
    BY <1>6
  <2>2. G(k) \in Seq(Symbols) /\ Begins(k) /\ Elements(k) /\ Exact(k)
    BY <1>10
  <2>3. PICK e \in E : s[k + 1] = c(e)
    BY <1>4, <1>6, <2>1
  <2>4. e \in Seq(Symbols) /\ e # <<>>
    OBVIOUS
  <2>5. G(k + 1) = G(k) \o c(e)
    <3>1. CASE k = 0
      <4>1. G(1) = s[1] /\ s[1] = c(e) /\ G(0) = <<>>
        BY <1>8, <2>3, <3>1
      <4>2. <<>> \o c(e) = c(e)
        BY <1>1, ConcatEmptySeq
      <4> QED BY <3>1, <4>1, <4>2
    <3>2. CASE k # 0
      <4>1. k + 1 \in 2..n /\ (k + 1) - 1 = k
        BY <1>6, <3>2
      <4>2. G(k + 1) = g[k + 1] /\ G(k) = g[k]
        BY <2>1, <3>2
      <4>3. g[k + 1] = g[k] \o s[k + 1]
        BY <1>8, <4>1
      <4> QED BY <2>3, <4>2, <4>3
    <3> QED BY <3>1, <3>2
  <2>6. PICK A, B : A = G(k) /\ B = G(k + 1)
    OBVIOUS
  <2>7. A \in Seq(Symbols) /\ B = A \o c(e) /\ IsAfter(B, A, e)
    BY <2>2, <2>4, <2>5, <2>6, Joined
  <2>8. A # <<>> => A[1] = "comma"
    BY <2>2, <2>6
  <2>9. Segments(A) \subseteq Segments(B)
    BY <2>4, <2>7, <2>8, OneMore
  <2>10. Bare(e) => e \in Segments(B) /\ Segments(B) \subseteq Segments(A) \cup {e}
    BY <2>4, <2>7, <2>8, OneMore
  <2>11. B \in Seq(Symbols) /\ B # <<>> /\ B[1] = "comma"
    <3>1. IsAfter(B, A, e)
      BY <2>7
    <3> HIDE DEF c
    <3> QED BY <2>4, <2>7, <2>8, <3>1, OneMore
  <2>12. ASSUME NEW d \in E, NEW j \in 1..(k + 1), Bare(d), s[j] = c(d)
         PROVE  d \in Segments(B)
    <3>1. CASE j \in 1..k
      BY <2>2, <2>6, <2>9, <2>12, <3>1
    <3>2. CASE j \notin 1..k
      <4>1. j = k + 1
        BY <2>1, <3>2
      <4>2. c(d) = c(e)
        BY <2>3, <2>12, <4>1
      <4>3. IsAfter(B, A, d) /\ d \in Seq(Symbols) /\ d # <<>>
        <5>1. B = A \o c(d)
          BY <2>7, <4>2
        <5> QED BY <2>7, <5>1, Joined
      <4> QED BY <2>7, <2>8, <2>12, <4>3, OneMore
    <3> QED BY <3>1, <3>2
  <2>13. (\A d \in E : Bare(d)) => Segments(B) \subseteq E
    BY <2>2, <2>6, <2>10
  <2>14. Begins(k + 1) /\ Elements(k + 1) /\ Exact(k + 1) /\ G(k + 1) \in Seq(Symbols)
    <3> HIDE DEF G, c
    <3> QED BY <2>6, <2>11, <2>12, <2>13
  <2> QED BY <2>1, <2>14
<1> HIDE DEF I
<1>11. n \in I
  <2>1. n \in 0..n
    BY <1>6
  <2> QED BY <1>6, <1>9, <1>10, <2>1, UpTo
<1>12. PICK F : F = FlattenSeq(s)
  OBVIOUS
<1>13. G(n) = F
  BY <1>7, <1>8, <1>12
<1>14. F \in Seq(Symbols) /\ F # <<>> /\ F[1] = "comma" /\ Elements(n) /\ Exact(n)
  BY <1>7, <1>11, <1>13 DEF I
<1>15. X = Tail(F)
  BY <1>12 DEF s, C
<1>16. X \in Seq(Symbols) /\ Pieces(X) = Segments(F)
  BY <1>14, <1>15, PiecesOfTail, HeadTailProperties
<1>17. ASSUME NEW e \in E, Bare(e) PROVE e \in Segments(F)
  <2>1. PICK i \in 1..n : s[i] = c(e)
    BY <1>5, <1>6
  <2> QED BY <1>13, <1>14, <1>17, <2>1
<1>18. (\A e \in E : Bare(e)) => Segments(F) \subseteq E
  BY <1>13, <1>14
<1> QED BY <1>16, <1>17, <1>18

(* ParseTags takes off what ArrayText put around.                          *)
LEMMA BracesGo ==
  ASSUME NEW X \in Seq(Symbols)
  PROVE  ParseTags(<<"open">> \o X \o <<"close">>) = Pieces(X)
<1> DEFINE o == <<"open">>
           z == <<"close">>
           Y == o \o X
           T == Y \o z
           n == Len(X)
<1>1. o \in Seq(Symbols) /\ z \in Seq(Symbols) /\ Len(o) = 1 /\ Len(z) = 1 /\ n \in Nat
  BY SymbolFacts
<1> HIDE DEF o, z
<1>2. /\ Y \in Seq(Symbols) /\ Len(Y) = 1 + n
      /\ \A i \in 1..(1 + n) : Y[i] = IF i <= 1 THEN o[i] ELSE X[i - 1]
  <2>1. /\ Y \in Seq(Symbols) /\ Len(Y) = Len(o) + Len(X)
        /\ \A i \in 1..(Len(o) + Len(X)) : Y[i] = IF i <= Len(o) THEN o[i] ELSE X[i - Len(o)]
    BY <1>1, ConcatProperties
  <2> HIDE DEF Y
  <2> QED BY <1>1, <2>1
<1> HIDE DEF Y
<1>3. /\ T \in Seq(Symbols) /\ Len(T) = (1 + n) + 1
      /\ \A i \in 1..((1 + n) + 1) : T[i] = IF i <= 1 + n THEN Y[i] ELSE z[i - (1 + n)]
  <2> HIDE DEF n
  <2>1. /\ T \in Seq(Symbols) /\ Len(T) = Len(Y) + Len(z)
        /\ \A i \in 1..(Len(Y) + Len(z)) : T[i] = IF i <= Len(Y) THEN Y[i] ELSE z[i - Len(Y)]
    BY <1>1, <1>2, ConcatProperties
  <2>2. Len(Y) = 1 + n /\ Len(z) = 1
    BY <1>1, <1>2
  <2> HIDE DEF T
  <2> QED BY <2>1, <2>2
<1> HIDE DEF T, n
<1>4. ASSUME NEW i \in 1..n PROVE T[i + 1] = X[i]
  <2>1. i + 1 \in 1..((1 + n) + 1) /\ i + 1 <= 1 + n /\ i + 1 \in 1..(1 + n)
        /\ ~(i + 1 <= 1) /\ (i + 1) - 1 = i
    BY <1>1
  <2> QED BY <1>2, <1>3, <2>1
<1>5. SubSeq(T, 2, Len(T) - 1) = X
  <2> DEFINE u == SubSeq(T, 2, n + 1)
  <2>1. n + 1 \in Nat /\ n + 1 <= Len(T) /\ Len(T) - 1 = n + 1
        /\ (n + 1) - 2 + 1 = n /\ (2 <= n + 1 <=> n # 0)
    BY <1>1, <1>3
  <2>2. /\ u \in Seq(Symbols) /\ Len(u) = IF 2 <= n + 1 THEN (n + 1) - 2 + 1 ELSE 0
        /\ \A i \in 1..((n + 1) - 2 + 1) : u[i] = T[2 + i - 1]
    <3>1. ASSUME NEW b \in Nat, b <= Len(T)
          PROVE  /\ SubSeq(T, 2, b) \in Seq(Symbols)
                 /\ Len(SubSeq(T, 2, b)) = IF 2 <= b THEN b - 2 + 1 ELSE 0
                 /\ \A i \in 1..(b - 2 + 1) : SubSeq(T, 2, b)[i] = T[2 + i - 1]
      <4>1. 2 \in Nat /\ 1 <= 2
        OBVIOUS
      <4> QED BY <1>3, <3>1, <4>1, PartOf
    <3> QED BY <2>1, <3>1
  <2> HIDE DEF u
  <2>3. Len(u) = n
    BY <1>1, <2>1, <2>2
  <2>4. \A i \in 1..n : 2 + i - 1 = i + 1
    BY <1>1
  <2>5. \A i \in 1..n : u[i] = X[i]
    BY <1>4, <2>1, <2>2, <2>4
  <2>6. u = X
    BY <2>2, <2>3, <2>5, SeqEqual DEF n
  <2> QED BY <2>1, <2>6 DEF u
<1>6. ParseTags(T) = Pieces(X)
  BY <1>5 DEF ParseTags
<1> QED BY <1>6 DEF T, Y, o, z

(* A plain name is written as it is, others in quotes.                     *)
LEMMA ElementFacts ==
  ASSUME NEW n \in TagName
  PROVE  /\ n \in Seq(Symbols)
         /\ Plain(n) => ElementText(n) = n /\ Bare(n)
         /\ ElementText(n) \in Seq(Symbols) /\ ElementText(n) # <<>>
<1>1. n \in Seq(Symbols)
  <2>1. STRING \ {"quote", "backslash", "open", "close"} \subseteq Symbols
    BY DEF Symbols
  <2> QED BY <2>1, SeqMonotonic DEF TagName
<1>2. ASSUME Plain(n) PROVE ElementText(n) = n /\ Bare(n) /\ n # <<>>
  <2>1. DOMAIN n = 1..Len(n)
    BY <1>1, SeqFacts
  <2> QED BY <1>2, <2>1 DEF Plain, ElementText, Bare, Special
<1>3. ASSUME ~Plain(n) PROVE ElementText(n) \in Seq(Symbols) /\ ElementText(n) # <<>>
  <2> DEFINE q == <<"quote">>
  <2>1. q \in Seq(Symbols) /\ Len(q) = 1
    BY SymbolFacts
  <2> HIDE DEF q
  <2>2. q \o n \in Seq(Symbols) /\ Len(q \o n) = 1 + Len(n)
    BY <1>1, <2>1, ConcatProperties
  <2>3. (q \o n) \o q \in Seq(Symbols) /\ Len((q \o n) \o q) = (1 + Len(n)) + 1
    BY <2>1, <2>2, ConcatProperties
  <2>4. Len(n) \in Nat /\ Len(<<>>) = 0
    BY <1>1, SeqFacts
  <2>5. ElementText(n) = (q \o n) \o q
    BY <1>3 DEF ElementText, q
  <2> QED BY <2>3, <2>4, <2>5
<1> QED BY <1>1, <1>2, <1>3

(* What the program makes of the tags of a user.                           *)
PlainOf(tags) == {n \in tags : Plain(n)}

LEMMA TagsParsed ==
  ASSUME NEW tags, IsFiniteSet(tags), tags \subseteq TagName
  PROVE  /\ PlainOf(tags) \subseteq ParseTags(ArrayText(tags))
         /\ PlainOf(tags) = tags =>
              ParseTags(ArrayText(tags)) = IF tags = {} THEN {NullText} ELSE tags
<1> DEFINE E == IF tags = {} THEN {NullText} ELSE {ElementText(n) : n \in tags}
           X == Tail(FlattenSeq(SetToSeq({<<"comma">> \o e : e \in E})))
<1>1. /\ NullText \in Seq(Symbols) /\ NullText # <<>> /\ Bare(NullText)
  BY SymbolFacts DEF NullText, Bare
<1>2. IsFiniteSet(E)
  <2>1. CASE tags = {}
    <3>1. E = {NullText}
      BY <2>1
    <3>2. IsFiniteSet({NullText})
      BY FS_Singleton
    <3> HIDE DEF E
    <3> QED BY <3>1, <3>2
  <2>2. CASE tags # {}
    <3> DEFINE f == [n \in tags |-> ElementText(n)]
    <3>1. f \in Surjection(tags, E)
      BY <2>2 DEF Surjection
    <3> QED BY <3>1, FS_Surjection
  <2> QED BY <2>1, <2>2
<1>3. E # {} /\ E \subseteq Seq(Symbols) /\ <<>> \notin E
  BY <1>1, ElementFacts
<1>4. ParseTags(ArrayText(tags)) = ParseTags(<<"open">> \o X \o <<"close">>)
  BY DEF ArrayText
<1>5. PlainOf(tags) \subseteq E /\ \A n \in PlainOf(tags) : Bare(n)
  BY ElementFacts DEF PlainOf
<1>6. PlainOf(tags) = tags =>
        E = (IF tags = {} THEN {NullText} ELSE tags) /\ \A e \in E : Bare(e)
  BY <1>1, ElementFacts DEF PlainOf
<1> HIDE DEF E
<1>7. /\ X \in Seq(Symbols)
      /\ \A e \in E : Bare(e) => e \in Pieces(X)
      /\ (\A e \in E : Bare(e)) => Pieces(X) = E
  BY <1>2, <1>3, ElementsCutOut
<1>8. ParseTags(ArrayText(tags)) = Pieces(X)
  BY <1>4, <1>7, BracesGo
<1> QED BY <1>5, <1>6, <1>7, <1>8

-----------------------------------------------------------------------------
(* What main prints (main.cc:55-76): guests, and users whose row is        *)
(* committed at the moment of the query (PostgresTagRepo.cc:13-28) and     *)
(* ever after; of each, every tag that needs no quotes, and no other of a  *)
(* user who has tags of this kind only, whatever the names and however     *)
(* many.                                                                   *)
THEOREM TagsAreReported == Spec => []TagsReported
<1>1. ASSUME NEW u \in Guests \cup Runs
      PROVE  /\ PlainOf(TagsOf(u)) \subseteq Report[u]
             /\ PlainOf(TagsOf(u)) = TagsOf(u) /\ TagsOf(u) # {} => Report[u] = TagsOf(u)
  <2>1. IsFiniteSet(TagsOf(u)) /\ TagsOf(u) \subseteq TagName
    BY RunAssumption, FS_EmptySet DEF TagsOf
  <2>2. Report[u] = ParseTags(ArrayText(TagsOf(u)))
    BY DEF Report
  <2> QED BY <2>1, <2>2, TagsParsed
<1>2. ToldStored => TagsReported
  <2> SUFFICES ASSUME ToldStored, NEW r \in Runs
               PROVE  /\ told[r] \subseteq Guests \cup Users
                      /\ \A u \in told[r] :
                           /\ PlainOf(TagsOf(u)) \subseteq Report[u]
                           /\ PlainOf(TagsOf(u)) = TagsOf(u) /\ PlainOf(TagsOf(u)) # {} =>
                                Report[u] = PlainOf(TagsOf(u))
    BY DEF TagsReported, PlainOf
  <2>1. told[r] \subseteq Guests \cup Users /\ Users \subseteq Runs
    BY DEF ToldStored, Users
  <2> QED BY <1>1, <2>1
<1> QED BY <1>2, ToldAreStored, PTL
=============================================================================
