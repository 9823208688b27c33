------------------------- MODULE CreateUserWithPost -------------------------
(***************************************************************************)
(* Runs of the program (main.cc) against one database: each connects,      *)
(* executes GetUserTagsFromComments, then CreateUserWithPost, and exits.   *)
(* Runs overlap, start after others have ended (a retry, a restart), die   *)
(* at any moment, and lose their connections.  Every step is one call made *)
(* by a use case on its unit of work, which UnitOfWork models; a run is    *)
(* also the name of its unit and of its connection.                        *)
(*                                                                         *)
(* The tables are the sets of rows every session sees: a user and a post   *)
(* are known by the run that inserted them (SERIAL ids are never used      *)
(* again), a user's email is the one its run was asked for.  Guests are    *)
(* the users that were there before, with the tags their comments lead to; *)
(* the program comments on nothing.                                        *)
(***************************************************************************)
EXTENDS FiniteSets, TagQuery

CONSTANTS Runs, Emails,
          NoEmail,        \* stands for an empty email or an empty title
          NoAnswer,
          Guests, GuestTags

ASSUME RunAssumption == /\ NoEmail \notin Emails
                        /\ Guests \cap Runs = {}
                        /\ DOMAIN GuestTags = Guests
                        /\ \A u \in Guests : IsFiniteSet(GuestTags[u])
                        /\ \A u \in Guests : GuestTags[u] \subseteq TagName
                        /\ NoAnswer \notin {"Success", "UserExists", "Error", "threw"}

VARIABLES conn, session, writes, committed, unit,
          pc,             \* where each run is
          request,        \* the email each run is asked to create
          answer,         \* the Response of CreateUserWithPost, or "threw"
          sent,           \* history: whether the run called Commit for it
          told            \* users in the Response of GetUserTagsFromComments

Row(table, r) == [table |-> table, run |-> r]
Rows == [table : {"users", "posts"}, run : Runs]
SameConn == [r \in Runs |-> r]

U == INSTANCE UnitOfWork
       WITH Units <- Runs, Conns <- Runs, Writes <- Rows, ConnOf <- SameConn

dbvars == <<conn, session, writes, committed, unit>>
vars == <<conn, session, writes, committed, unit, pc, request, answer, sent,
          told>>

Users == {r \in Runs : Row("users", r) \in committed}
Posts == {r \in Runs : Row("posts", r) \in committed}

Init ==
  /\ U!UInit
  /\ pc = [r \in Runs |-> "start"]
  /\ request \in [Runs -> Emails \cup {NoEmail}]
  /\ answer = [r \in Runs |-> NoAnswer]
  /\ sent = [r \in Runs |-> FALSE]
  /\ told = [r \in Runs |-> {}]

-----------------------------------------------------------------------------
(* A step of run r from one place to another, and the answer it gives.     *)
At(r, from) == pc[r] = from
Goto(r, to) ==
  /\ pc' = [pc EXCEPT ![r] = to]
  /\ UNCHANGED <<request, answer, sent, told>>
Reply(r, a, to) ==
  /\ pc' = [pc EXCEPT ![r] = to]
  /\ answer' = [answer EXCEPT ![r] = a]
  /\ UNCHANGED <<request, sent, told>>

(* GetUserTagsFromComments::Execute.  Whatever it throws, it answers Error *)
(* after its unit was destroyed on the way to the catch block.  The        *)
(* connection was made just before, so the factory has nothing to refuse.  *)
TagsCreate(r) == At(r, "start") /\ U!Create(r) /\ Goto(r, "tagsBegin")

TagsBegin(r) ==
  /\ At(r, "tagsBegin")
  /\ \/ U!BeginOpens(r) /\ Goto(r, "tagsQuery")
     \/ (U!BeginStopsHalfway(r) \/ U!BeginThrows(r)) /\ Goto(r, "tagsDone")

(* One row for every user, of whose tags the text is made and parsed.      *)
TagsOf(u) == IF u \in Guests THEN GuestTags[u] ELSE {}
Report == [u \in Guests \cup Runs |-> ParseTags(ArrayText(TagsOf(u)))]

TagsQuery(r) ==
  /\ At(r, "tagsQuery")
  /\ \/ /\ U!Statement(r, "tags", {})
        /\ pc' = [pc EXCEPT ![r] = "tagsCommit"]
        /\ told' = [told EXCEPT ![r] = Guests \cup Users]
        /\ UNCHANGED <<request, answer, sent>>
     \/ (U!StatementRefused(r, "tags") \/ U!StatementLost(r, "tags", {}))
          /\ Goto(r, "tagsDone")

(* A Commit that throws, or the copying of the results into the Response,  *)
(* makes an Error of it, which lists nobody.                               *)
TagsCommit(r) ==
  /\ At(r, "tagsCommit")
  /\ \/ U!CommitReturns(r) /\ Goto(r, "tagsDone")
     \/ /\ U!CommitReturns(r) \/ U!CommitThrows(r)
        /\ pc' = [pc EXCEPT ![r] = "tagsDone"]
        /\ told' = [told EXCEPT ![r] = {}]
        /\ UNCHANGED <<request, answer, sent>>

TagsReturn(r) == At(r, "tagsDone") /\ U!Destroy(r) /\ Goto(r, "create")

-----------------------------------------------------------------------------
(* CreateUserWithPost::Execute.  Create of the factory is called outside   *)
(* the try block: what it throws leaves Execute and ends main.             *)
ExecuteStart(r) ==
  /\ At(r, "create")
  /\ \/ request[r] = NoEmail /\ Reply(r, "Error", "exit") /\ UNCHANGED dbvars
     \/ request[r] # NoEmail /\ U!Create(r) /\ Goto(r, "begin")
     \/ request[r] # NoEmail /\ U!CreateThrows(r) /\ Reply(r, "threw", "exit")

Begin(r) ==
  /\ At(r, "begin")
  /\ \/ U!BeginOpens(r) /\ Goto(r, "insertUser")
     \/ (U!BeginStopsHalfway(r) \/ U!BeginThrows(r)) /\ Goto(r, "catch")

(* INSERT INTO users ... ON CONFLICT (email) DO NOTHING waits while        *)
(* another session holds an undecided row with the same email, finds       *)
(* nothing to do when one is committed, and inserts otherwise.  Making a   *)
(* domain::User of the row may throw: the row is there, but the user's     *)
(* email is longer than User allows.                                       *)
SameEmail(r) == {s \in Runs \ {r} : request[s] = request[r]}
Undecided(r) == \E s \in SameEmail(r) : Row("users", s) \in writes[s]
Taken(r) == SameEmail(r) \cap Users # {}

(* Mutants: the post is forgotten; the email column is not UNIQUE.         *)
InsertUserOnly(r) ==
  /\ At(r, "insertUser") /\ ~Undecided(r) /\ ~Taken(r)
  /\ U!Statement(r, "users", {Row("users", r)})
  /\ Goto(r, "commit")

InsertUserAgain(r) ==
  /\ At(r, "insertUser")
  /\ U!Statement(r, "users", {Row("users", r)}) /\ Goto(r, "insertPost")

InsertUser(r) ==
  /\ At(r, "insertUser") /\ ~Undecided(r)
  /\ \/ Taken(r) /\ U!Statement(r, "users", {}) /\ Goto(r, "exists")
     \/ /\ ~Taken(r)
        /\ U!Statement(r, "users", {Row("users", r)})
        /\ Goto(r, "insertPost") \/ Goto(r, "catch")
     \/ /\ ~Taken(r) /\ U!StatementLost(r, "users", {Row("users", r)})
        /\ Goto(r, "catch")

InsertUserFails(r) ==
  /\ At(r, "insertUser")
  /\ U!StatementRefused(r, "users") \/ U!StatementLost(r, "users", {})
  /\ Goto(r, "catch")

(* The branch for an empty result: Rollback, which may itself throw when   *)
(* the connection is broken.                                               *)
UserExists(r) ==
  /\ At(r, "exists") /\ U!Rollback(r)
  /\ \/ Reply(r, "UserExists", "return")
     \/ conn[r] # "open" /\ Goto(r, "catch")

InsertPost(r) ==
  /\ At(r, "insertPost")
  /\ \/ /\ U!Statement(r, "posts", {Row("posts", r)})
        /\ Goto(r, "commit") \/ Goto(r, "catch")
     \/ /\ \/ U!StatementRefused(r, "posts")
           \/ U!StatementLost(r, "posts", {Row("posts", r)})
        /\ Goto(r, "catch")

(* Mutant: an exception of Commit is swallowed.                            *)
CommitIgnored(r) ==
  /\ At(r, "commit") /\ sent' = [sent EXCEPT ![r] = TRUE]
  /\ U!CommitReturns(r) \/ U!CommitThrows(r)
  /\ pc' = [pc EXCEPT ![r] = "return"]
  /\ answer' = [answer EXCEPT ![r] = "Success"]
  /\ UNCHANGED <<request, told>>

(* Commit, and the making of the Response, which copies strings and may    *)
(* throw although the commit went through.                                 *)
Commit(r) ==
  /\ At(r, "commit")
  /\ sent' = [sent EXCEPT ![r] = TRUE]
  /\ \/ /\ U!CommitReturns(r)
        /\ \/ /\ pc' = [pc EXCEPT ![r] = "return"]
              /\ answer' = [answer EXCEPT ![r] = "Success"]
           \/ pc' = [pc EXCEPT ![r] = "catch"] /\ UNCHANGED answer
     \/ /\ U!CommitThrows(r)
        /\ pc' = [pc EXCEPT ![r] = "catch"] /\ UNCHANGED answer
  /\ UNCHANGED <<request, told>>

(* Mutants: Commit where Rollback belongs, and a retry without end.        *)
CatchCommits(r) ==
  /\ At(r, "catch")
  /\ U!CommitReturns(r) \/ U!Rollback(r)
  /\ Reply(r, "Error", "return")

CatchRetries(r) == At(r, "catch") /\ U!Rollback(r) /\ Goto(r, "begin")

(* The catch block: Rollback, whose exceptions are swallowed.              *)
Catch(r) == At(r, "catch") /\ U!Rollback(r) /\ Reply(r, "Error", "return")

(* uow goes out of scope.                                                  *)
Return(r) == At(r, "return") /\ U!Destroy(r) /\ Goto(r, "exit")

(* main returns and the connection is closed, or the process dies; its     *)
(* connection is gone with it.                                             *)
Exit(r) ==
  /\ pc[r] # "gone"
  /\ conn' = [conn EXCEPT ![r] = "closed"]
  /\ unit' = [unit EXCEPT ![r] = U!Gone]
  /\ Goto(r, "gone")
  /\ UNCHANGED <<session, writes, committed>>

Run(r) ==
  \/ TagsCreate(r) \/ TagsBegin(r) \/ TagsQuery(r) \/ TagsCommit(r) \/ TagsReturn(r)
  \/ ExecuteStart(r) \/ Begin(r) \/ InsertUser(r)
  \/ UserExists(r) \/ InsertPost(r) \/ Commit(r) \/ Catch(r) \/ Return(r)

Crash(r) == pc[r] # "exit" /\ Exit(r)
Finish(r) == pc[r] = "exit" /\ Exit(r)

Server(r) == U!ServerDrops(r) \/ U!ServerCommits(r)
LeaveRuns == UNCHANGED <<pc, request, answer, sent, told>>

Over ==
  /\ \A r \in Runs : pc[r] = "gone" /\ session[r] = "ended"
  /\ UNCHANGED vars

Next ==
  \/ \E r \in Runs : \/ Run(r) \/ InsertUserFails(r) \/ Crash(r) \/ Finish(r)
                     \/ (U!Cut(r) \/ Server(r)) /\ LeaveRuns
  \/ Over

Spec == Init /\ [][Next]_vars

(* The program goes on by itself, and the server notices a dead client and *)
(* decides what it has received.  Nothing has to fail: in particular an    *)
(* INSERT that waits for another session is not rescued by an error, only  *)
(* a broken connection is noticed for certain.                             *)
Goes(r) == Run(r) \/ Finish(r) \/ (conn[r] # "open" /\ InsertUserFails(r))

LiveSpec ==
  /\ Spec
  /\ \A r \in Runs : WF_vars(Goes(r)) /\ WF_vars(Server(r) /\ LeaveRuns)

-----------------------------------------------------------------------------
InUnit == {"tagsBegin", "tagsQuery", "tagsCommit", "tagsDone", "begin", "insertUser",
           "exists", "insertPost", "commit", "catch", "return"}
Answered == {"return", "exit", "gone"}

(* Types, and what each place of Execute implies: a unit exists exactly    *)
(* inside the two Execute calls, an answer only after them.                *)
TypeOK ==
  /\ U!UTypeOK
  /\ pc \in [Runs -> InUnit \cup {"start", "create", "exit", "gone"}]
  /\ request \in [Runs -> Emails \cup {NoEmail}]
  /\ answer \in [Runs -> {NoAnswer, "Success", "UserExists", "Error", "threw"}]
  /\ sent \in [Runs -> BOOLEAN]
  /\ told \in [Runs -> SUBSET (Guests \cup Runs)]
  /\ \A r \in Runs :
       /\ unit[r].alive <=> pc[r] \in InUnit
       /\ answer[r] # NoAnswer => pc[r] \in Answered
       /\ sent[r] => pc[r] \in Answered \cup {"catch"}

(* "Perform transaction-based insertion of new user and post"              *)
(* (CreateUserWithPost.h): no session ever sees one without the other,     *)
(* whatever fails, dies or is cut off in between.                          *)
AtomicPair == Users = Posts

(* The UNIQUE email of the schema, with runs that insert the same email at *)
(* the same time, and commits that are decided after their client is gone. *)
EmailUnique == \A r, s \in Users : request[r] = request[s] => r = s

(* Execute's answers say what is in the database, then and ever after:     *)
(* Success that the run's rows are there; UserExists that another run's    *)
(* user is, and that this run has stored nothing and never will.           *)
AnswersTrue ==
  \A r \in Runs :
    /\ answer[r] = "Success" => r \in Users \cap Posts
    /\ answer[r] = "UserExists" => Taken(r) /\ r \notin Users \cup Posts
    /\ answer[r] \in {"UserExists", "threw"} => writes[r] = {}

(* What main prints of each user (main.cc:55-76): only users that are in   *)
(* the database then and ever after, so that no run reads what another has *)
(* not committed; each tag of theirs that needs no quotes; and, for a user *)
(* who has tags of this kind only, no other.  Nothing is said of what is   *)
(* printed for a user without tags, or as the tags that need quotes.       *)
TagsReported ==
  \A r \in Runs : told[r] # {} =>
    /\ told[r] \subseteq Guests \cup Users
    /\ \A u \in told[r] :
         LET plain == {n \in TagsOf(u) : Plain(n)} IN
         /\ plain \subseteq Report[u]
         /\ plain = TagsOf(u) /\ plain # {} => Report[u] = plain

(* A run that answered Error, or died, without having called Commit left   *)
(* nothing behind and nothing in flight: only after that call may an error *)
(* hide a stored pair.                                                     *)
ErrorBeforeCommit ==
  \A r \in Runs : ~sent[r] => /\ r \notin Users \cup Posts
                              /\ session[r] = "committing" => writes[r] = {}

(* Types, and between the two use cases and after them the connection they *)
(* share is free again, whichever way they ended, so that the next Begin   *)
(* can work.                                                               *)
NoTransactionLeak ==
  /\ TypeOK
  /\ \A r \in Runs :
       pc[r] \in {"create", "exit"} /\ conn[r] = "open" => session[r] = "idle"

(* Every Execute ends and lets main end: a run waiting on another's        *)
(* undecided email is released even if that other one dies.                *)
EveryRunEnds == \A r \in Runs : pc[r] = "create" ~> pc[r] = "gone"
=============================================================================
