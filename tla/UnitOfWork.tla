----------------------------- MODULE UnitOfWork -----------------------------
(***************************************************************************)
(* PostgresUnitOfWork and its factory: units of work that share            *)
(* connections, each with the pqxx::work (txn_) and the repositories that  *)
(* its Begin made.  One action is one call of a unit, or a thing that      *)
(* happens to a connection or to the server session behind it.             *)
(*                                                                         *)
(* conn[c] is what the client knows: "cut" is a connection whose other end *)
(* is unreachable and whose is_open() still says true; the next use finds  *)
(* out and it is "closed".  session[c] is the server's side, "failed"      *)
(* after a refused statement, "committing" when a COMMIT was received      *)
(* whose answer nobody will read.  writes[c] are the rows of the open      *)
(* transaction, committed those every session sees.                        *)
(***************************************************************************)
EXTENDS Naturals

CONSTANTS Units, Conns, Writes,
          ConnOf          \* the connection the factory gave each unit

ASSUME UnitAssumption == ConnOf \in [Units -> Conns]

VARIABLES conn, session, writes, committed, unit

uvars == <<conn, session, writes, committed, unit>>

Repos == {"users", "posts", "tags"}       \* comment_repo_ is never created

Gone == [alive |-> FALSE, active |-> FALSE, txn |-> FALSE, repos |-> {}]
Fresh == [Gone EXCEPT !.alive = TRUE]
Begun == [alive |-> TRUE, active |-> TRUE, txn |-> TRUE, repos |-> Repos]

InTransaction == {"open", "failed"}

UInit ==
  /\ conn = [c \in Conns |-> "open"]
  /\ session = [c \in Conns |-> "idle"]
  /\ writes = [c \in Conns |-> {}]
  /\ committed = {}
  /\ unit = [u \in Units |-> Gone]

Busy(c) == \E u \in Units : ConnOf[u] = c /\ unit[u].txn
NoticeCut(c) == conn' = [conn EXCEPT ![c] = IF @ = "cut" THEN "closed" ELSE @]

-----------------------------------------------------------------------------
(* The factory's Create, which throws once the connection is known to be   *)
(* closed.                                                                 *)
Create(u) ==
  /\ ~unit[u].alive /\ conn[ConnOf[u]] # "closed"
  /\ unit' = [unit EXCEPT ![u] = Fresh]
  /\ UNCHANGED <<conn, session, writes, committed>>

CreateThrows(u) ==
  /\ ~unit[u].alive /\ conn[ConnOf[u]] = "closed"
  /\ UNCHANGED uvars

(* Begin.  pqxx::work throws when the connection has a transaction already *)
(* or cannot be reached; a repository may fail to be allocated after the   *)
(* transaction was opened, and then txn_ stays while is_active_ is false.  *)
CanBegin(u) == unit[u].alive /\ ~unit[u].active

BeginOpens(u) ==
  LET c == ConnOf[u] IN
  /\ CanBegin(u) /\ ~Busy(c) /\ conn[c] = "open"
  /\ session' = [session EXCEPT ![c] = "open"]
  /\ unit' = [unit EXCEPT ![u] = Begun]
  /\ UNCHANGED <<conn, writes, committed>>

(* Mutant: the catch block of Begin forgets is_active_ = false.            *)
BeginStaysActive(u) ==
  LET c == ConnOf[u] IN
  /\ CanBegin(u) /\ ~Busy(c) /\ conn[c] = "open"
  /\ session' = [session EXCEPT ![c] = "open"]
  /\ unit' = [unit EXCEPT ![u] = [Begun EXCEPT !.repos = {}]]
  /\ UNCHANGED <<conn, writes, committed>>

BeginStopsHalfway(u) ==
  LET c == ConnOf[u] IN
  /\ CanBegin(u) /\ ~Busy(c) /\ conn[c] = "open"
  /\ session' = [session EXCEPT ![c] = "open"]
  /\ \E made \in {{}, {"users"}, {"users", "posts"}} :
       unit' = [unit EXCEPT ![u] = [Begun EXCEPT !.active = FALSE,
                                                 !.repos = made]]
  /\ UNCHANGED <<conn, writes, committed>>

BeginThrows(u) ==
  LET c == ConnOf[u] IN
  /\ unit[u].alive
  /\ \/ (unit[u].active \/ Busy(c)) /\ UNCHANGED conn
     \/ CanBegin(u) /\ ~Busy(c) /\ conn[c] # "open" /\ NoticeCut(c)
  /\ UNCHANGED <<session, writes, committed, unit>>

-----------------------------------------------------------------------------
(* What a ROLLBACK does, sent by txn_->abort() or by the destructor of     *)
(* txn_: it ends the session's transaction when it can be delivered.       *)
Abort(c) ==
  \/ /\ conn[c] = "open"
     /\ session' = [session EXCEPT ![c] = "idle"]
     /\ writes' = [writes EXCEPT ![c] = {}]
     /\ UNCHANGED conn
  \/ conn[c] # "open" /\ NoticeCut(c) /\ UNCHANGED <<session, writes>>

(* Mutant: txn_.release() for txn_.reset().                                *)
CleanupReleases(u, after) ==
  unit' = [unit EXCEPT ![u] = after] /\ UNCHANGED <<conn, session, writes, committed>>

(* Cleanup: the repositories and txn_ are reset; the destructor of a       *)
(* pqxx::work that is still open aborts it.                                *)
Cleanup(u, after) ==
  /\ unit' = [unit EXCEPT ![u] = after]
  /\ IF unit[u].txn THEN Abort(ConnOf[u]) ELSE UNCHANGED <<conn, session, writes>>
  /\ UNCHANGED committed

CanCommit(u) == unit[u].active /\ unit[u].txn

CommitReturns(u) ==
  LET c == ConnOf[u] IN
  /\ CanCommit(u) /\ conn[c] = "open" /\ session[c] = "open"
  /\ committed' = committed \cup writes[c]
  /\ session' = [session EXCEPT ![c] = "idle"]
  /\ writes' = [writes EXCEPT ![c] = {}]
  /\ unit' = [unit EXCEPT ![u] = Fresh]
  /\ UNCHANGED conn

(* The connection breaks before or after the server received the COMMIT    *)
(* (pqxx::in_doubt_error, broken_connection), or the transaction had       *)
(* failed; the unit is cleaned up and the exception wrapped.               *)
CommitThrows(u) ==
  LET c == ConnOf[u] IN
  /\ CanCommit(u)
  /\ \/ /\ conn[c] = "open" /\ session[c] = "failed"
        /\ Cleanup(u, Fresh)
     \/ /\ conn' = [conn EXCEPT ![c] = "closed"]
        /\ \/ UNCHANGED session
           \/ /\ conn[c] = "open" /\ session[c] = "open"
              /\ session' = [session EXCEPT ![c] = "committing"]
        /\ unit' = [unit EXCEPT ![u] = Fresh]
        /\ UNCHANGED <<writes, committed>>

CommitRefused(u) == unit[u].alive /\ ~CanCommit(u) /\ UNCHANGED uvars

(* Rollback: of an active transaction, or the clean-up of whatever there   *)
(* is.  That txn_->abort() throws changes nothing in the state it leaves.  *)
Rollback(u) == unit[u].alive /\ Cleanup(u, Fresh)

(* ~PostgresUnitOfWork, with the destructors of its members when it finds  *)
(* no active transaction.                                                  *)
Destroy(u) == unit[u].alive /\ Cleanup(u, Gone)

-----------------------------------------------------------------------------
(* A statement run through repository r, writing the rows ws.              *)
CanUse(u, r) == unit[u].active /\ r \in unit[u].repos

Statement(u, r, ws) ==
  LET c == ConnOf[u] IN
  /\ CanUse(u, r) /\ conn[c] = "open" /\ session[c] = "open"
  /\ writes' = [writes EXCEPT ![c] = @ \cup ws]
  /\ UNCHANGED <<conn, session, committed, unit>>

(* The server refuses it (a CHECK, a length, a transaction that has        *)
(* failed): the transaction is over on its side.                           *)
StatementRefused(u, r) ==
  LET c == ConnOf[u] IN
  /\ CanUse(u, r) /\ conn[c] = "open"
  /\ session' = [session EXCEPT ![c] = "failed"]
  /\ writes' = [writes EXCEPT ![c] = {}]
  /\ UNCHANGED <<conn, committed, unit>>

(* The connection breaks, before the server ran the statement or after.    *)
StatementLost(u, r, ws) ==
  LET c == ConnOf[u] IN
  /\ CanUse(u, r)
  /\ conn' = [conn EXCEPT ![c] = "closed"]
  /\ \/ UNCHANGED writes
     \/ /\ conn[c] = "open" /\ session[c] = "open"
        /\ writes' = [writes EXCEPT ![c] = @ \cup ws]
  /\ UNCHANGED <<session, committed, unit>>

(* Users(), Posts(), Tags() and Comments() throw "Unit of work not         *)
(* started.", Comments() always.                                           *)
RepoThrows(u, r) == unit[u].alive /\ ~CanUse(u, r) /\ UNCHANGED uvars

-----------------------------------------------------------------------------
(* The connection and the server.                                          *)
Cut(c) ==
  /\ conn[c] = "open"
  /\ conn' = [conn EXCEPT ![c] = "cut"]
  /\ UNCHANGED <<session, writes, committed, unit>>

ServerDrops(c) ==
  /\ conn[c] # "open" /\ session[c] # "ended"
  /\ session' = [session EXCEPT ![c] = "ended"]
  /\ writes' = [writes EXCEPT ![c] = {}]
  /\ UNCHANGED <<conn, committed, unit>>

ServerCommits(c) ==
  /\ session[c] = "committing"
  /\ committed' = committed \cup writes[c]
  /\ session' = [session EXCEPT ![c] = "ended"]
  /\ writes' = [writes EXCEPT ![c] = {}]
  /\ UNCHANGED <<conn, unit>>

-----------------------------------------------------------------------------
(* A client that calls the units in any order.                             *)
UNext ==
  \/ \E u \in Units :
       \/ Create(u) \/ CreateThrows(u)
       \/ BeginOpens(u) \/ BeginStopsHalfway(u) \/ BeginThrows(u)
       \/ CommitReturns(u) \/ CommitThrows(u) \/ CommitRefused(u)
       \/ Rollback(u) \/ Destroy(u)
       \/ \E r \in Repos \cup {"comments"} :
            \/ RepoThrows(u, r) \/ StatementRefused(u, r)
            \/ \E ws \in {{}} \cup {{w} : w \in Writes} :
                 Statement(u, r, ws) \/ StatementLost(u, r, ws)
  \/ \E c \in Conns : Cut(c) \/ ServerDrops(c) \/ ServerCommits(c)

USpec == UInit /\ [][UNext]_uvars

-----------------------------------------------------------------------------
UTypeOK ==
  /\ conn \in [Conns -> {"open", "cut", "closed"}]
  /\ session \in [Conns -> {"idle", "open", "failed", "committing", "ended"}]
  /\ writes \in [Conns -> SUBSET Writes]
  /\ committed \subseteq Writes
  /\ unit \in [Units -> [alive : BOOLEAN, active : BOOLEAN, txn : BOOLEAN,
                         repos : SUBSET Repos]]

(* IsActive() can be relied on: an active unit has its transaction and     *)
(* every repository Begin makes, although Begin may fail between any two   *)
(* of its assignments (the catch block of Begin); and no repository, each  *)
(* of which keeps a reference to *txn_, outlives the transaction (Cleanup).*)
ActiveIsUsable ==
  \A u \in Units :
    /\ unit[u].active => unit[u].txn /\ unit[u].repos = Repos
    /\ unit[u].repos # {} => unit[u].txn

(* Types; and over a working connection the server has a transaction open  *)
(* exactly while one living unit holds it, even when Begin failed halfway, *)
(* a commit failed, or a unit was destroyed without a Rollback: nobody     *)
(* leaves behind a transaction that would block the units that share the   *)
(* connection.                                                             *)
OneHolder ==
  \A u, v \in Units :
    unit[u].txn /\ unit[v].txn /\ ConnOf[u] = ConnOf[v] => u = v /\ unit[u].alive
HeldOnServer ==
  \A c \in Conns : conn[c] = "open" => (session[c] \in InTransaction <=> Busy(c))
TransactionOwned == UTypeOK /\ OneHolder /\ HeldOnServer
=============================================================================
