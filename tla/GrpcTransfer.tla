---------------------------- MODULE GrpcTransfer ----------------------------
(***************************************************************************)
(* The sender and the receiver of m6-network.  The sender cuts the         *)
(* filtered log into chunks of lines and calls Send for each, one after    *)
(* the other; a call ends with an answer, with its deadline, or when the   *)
(* retry policy of the channel gives up.  The receiver handles calls in    *)
(* threads of the gRPC server and prints each message it handles.          *)
(*                                                                         *)
(* An attempt is in flight from the moment the client sends it until the   *)
(* server's answer is consumed or dropped.  Nothing takes it back: when    *)
(* the deadline has passed or the connection has broken, the receiver may  *)
(* still handle it.  The gRPC library, its network included, is modelled   *)
(* from how the code configures and calls it.                              *)
(***************************************************************************)
EXTENDS Naturals, Sequences, FiniteSets, SequencesExt

CONSTANTS
  Lines,          \* number of lines that pass the filter
  LinesPerChunk,  \* 3 in sender_client.cc
  MaxAttempts,    \* 4 in kRetryPolicy
  MaxBreaks       \* bound: broken connections and receiver crashes

ASSUME TransferAssumption ==
  /\ Lines \in Nat /\ LinesPerChunk \in Nat
  /\ MaxAttempts \in Nat \ {0} /\ MaxBreaks \in Nat

VARIABLES
  cur,       \* the message the loop of main is at
  call,      \* its Send: "none", "ready" to be attempted, "waiting"
  try,       \* attempts made by this Send
  result,    \* what each Send returned, "" before
  flight,    \* attempts in flight, with the server's progress
  up,        \* the receiver is running
  log,       \* what the receiver printed
  broken,    \* history: UNAVAILABLE statuses met while sending each message
  breaks     \* counts towards MaxBreaks

vars == <<cur, call, try, result, flight, up, log, broken, breaks>>

-----------------------------------------------------------------------------
(* Mutant: the last, shorter chunk is forgotten.                           *)
SplitDropsRest(n, perChunk) ==
  [i \in 1..(n \div perChunk) |-> [j \in 1..perChunk |-> (i - 1) * perChunk + j]]

(* One turn of SplitByLines' loop: the chunks so far, and the next one.    *)
AddLine(s, line, perChunk) ==
  LET chunk == Append(s.chunk, line) IN
  IF Len(chunk) = perChunk
    THEN [result |-> Append(s.result, chunk), chunk |-> <<>>]
    ELSE [s EXCEPT !.chunk = chunk]

(* SplitByLines(text, lines_per_chunk), lines named by their numbers.      *)
SplitByLines(n, perChunk) ==
  LET end == FoldLeft(LAMBDA s, line : AddLine(s, line, perChunk),
                      [result |-> <<>>, chunk |-> <<>>], [i \in 1..n |-> i])
  IN  IF end.chunk = <<>> THEN end.result ELSE Append(end.result, end.chunk)

Payload == SplitByLines(Lines, LinesPerChunk)
Messages == DOMAIN Payload

Attempt(m, k, st) == [msg |-> m, try |-> k, st |-> st]

Init ==
  /\ cur = 1
  /\ call = "none"
  /\ try = 0
  /\ result = [m \in Messages |-> "none"]
  /\ flight = {}
  /\ up \in BOOLEAN
  /\ log = <<>>
  /\ broken = [m \in Messages |-> 0]
  /\ breaks = 0

-----------------------------------------------------------------------------
(* The sender.                                                             *)
SendBegins ==
  /\ cur \in Messages /\ call = "none"
  /\ call' = "ready"
  /\ try' = 0
  /\ UNCHANGED <<cur, result, flight, up, log, broken, breaks>>

(* waitForReady: an attempt is made when the receiver can be reached.      *)
SendAttempt ==
  /\ call = "ready" /\ up
  /\ call' = "waiting"
  /\ try' = try + 1
  /\ flight' = flight \cup {Attempt(cur, try + 1, "sent")}
  /\ UNCHANGED <<cur, result, up, log, broken, breaks>>

(* Send returns what `returns` says; main ignores it and goes on.          *)
SendReturns(returns) ==
  /\ result' = [result EXCEPT ![cur] = returns]
  /\ cur' = cur + 1
  /\ call' = "none"

Answered ==
  LET a == Attempt(cur, try, "handled") IN
  /\ call = "waiting" /\ a \in flight
  /\ SendReturns("true")
  /\ flight' = flight \ {a}
  /\ UNCHANGED <<try, up, log, broken, breaks>>

(* Mutants: DEADLINE_EXCEEDED is retried; the status is not looked at;     *)
(* no deadline is set.                                                     *)
DeadlineRetried ==
  /\ call = "waiting" /\ try < MaxAttempts
  /\ call' = "ready"
  /\ UNCHANGED <<cur, try, result, flight, up, log, broken, breaks>>

DeadlineIgnored ==
  /\ call \in {"ready", "waiting"}
  /\ SendReturns("true")
  /\ UNCHANGED <<try, flight, up, log, broken, breaks>>

DeadlineMissing == FALSE /\ UNCHANGED vars

DeadlineExceeded ==
  /\ call \in {"ready", "waiting"}
  /\ SendReturns("false")
  /\ UNCHANGED <<try, flight, up, log, broken, breaks>>

(* The client sees UNAVAILABLE: the policy lets it try again or not.       *)
Unavailable ==
  /\ IF call = "waiting"
       THEN /\ broken' = [broken EXCEPT ![cur] = @ + 1]
            /\ IF try < MaxAttempts
                 THEN call' = "ready" /\ UNCHANGED <<cur, result>>
                 ELSE SendReturns("false")
       ELSE UNCHANGED <<broken, call, cur, result>>
  /\ breaks < MaxBreaks /\ breaks' = breaks + 1
  /\ UNCHANGED <<try, log>>

-----------------------------------------------------------------------------
(* Mutant: the answer is sent before the message is handled.               *)
HandleLater(a) ==
  /\ up /\ a \in flight /\ a.st = "sent"
  /\ flight' = (flight \ {a}) \cup {[a EXCEPT !.st = "handled"]}
  /\ UNCHANGED <<cur, call, try, result, up, log, broken, breaks>>

(* The receiver.  SendData handles the message and answers success; it     *)
(* does not look whether the call is still wanted.                         *)
Handle(a) ==
  /\ up /\ a \in flight /\ a.st = "sent"
  /\ log' = Append(log, a.msg)
  /\ flight' = (flight \ {a}) \cup {[a EXCEPT !.st = "handled"]}
  /\ UNCHANGED <<cur, call, try, result, up, broken, breaks>>

(* An answer nobody waits for, and a request whose deadline the server     *)
(* finds to have passed, are dropped.                                      *)
Wanted(a) == call = "waiting" /\ a.msg = cur /\ a.try = try
Drop(a) ==
  /\ a \in flight /\ ~Wanted(a)
  /\ flight' = flight \ {a}
  /\ UNCHANGED <<cur, call, try, result, up, log, broken, breaks>>

(* The connection breaks: what the receiver has got it goes on handling.   *)
ConnectionBreaks ==
  /\ up
  /\ Unavailable
  /\ UNCHANGED <<flight, up>>

ReceiverDies == up /\ Unavailable /\ up' = FALSE /\ flight' = {}

ReceiverStarts ==
  /\ ~up /\ up' = TRUE
  /\ UNCHANGED <<cur, call, try, result, flight, log, broken, breaks>>

(* The sender has ended and nothing is left to handle.                     *)
Ended == cur \notin Messages /\ flight = {} /\ up /\ UNCHANGED vars

Sender == SendBegins \/ SendAttempt \/ Answered \/ DeadlineExceeded

Next ==
  \/ Sender
  \/ \E a \in flight : Handle(a) \/ Drop(a)
  \/ ConnectionBreaks \/ ReceiverDies \/ ReceiverStarts
  \/ Ended

(* Fair is only the sender: its deadline is a timer of its own, whatever   *)
(* the receiver and the network do.                                        *)
Spec == Init /\ [][Next]_vars /\ WF_vars(Sender)

-----------------------------------------------------------------------------
Times(m) == Cardinality({i \in DOMAIN log : log[i] = m})

TypeOK ==
  /\ cur \in Nat \ {0} /\ (cur = 1 \/ cur - 1 \in Messages)
  /\ call \in {"none", "ready", "waiting"}
  /\ try \in 0..MaxAttempts
  /\ result \in [Messages -> {"none", "true", "false"}]
  /\ flight \subseteq [msg : Messages, try : 1..MaxAttempts, st : {"sent", "handled"}]
  /\ up \in BOOLEAN
  /\ log \in Seq(Messages)
  /\ broken \in [Messages -> 0..MaxAttempts]
  /\ breaks \in 0..MaxBreaks

(* Types, and Send returns true only for a message the receiver has        *)
(* handled, through retries, late answers of earlier attempts and          *)
(* receivers that die (grpc_message_sender.cc:30,                          *)
(* grpc_receiver_service.cc:14).                                           *)
SuccessMeansHandled ==
  TypeOK /\ \A m \in Messages : result[m] = "true" => Times(m) > 0

(* A message is handled more than once only if the connection broke while  *)
(* it was being sent, and then once more for each break at most: nothing   *)
(* but UNAVAILABLE is retried (kRetryPolicy).                              *)
DuplicatesNeedBreaks == \A m \in Messages : Times(m) <= 1 + broken[m]

(* A message printed after one that was sent later was given up or retried *)
(* by its Send: without a false result or a broken connection the output   *)
(* is in the order of the log file.                                        *)
DisorderIsReported ==
  \A i, j \in DOMAIN log :
    i < j /\ log[i] > log[j] => result[log[j]] = "false" \/ broken[log[j]] > 0

(* When every Send has returned true, every line of the filtered log was   *)
(* printed, the last short chunk included, and unless a connection broke   *)
(* each exactly once and in order (helpers.cc SplitByLines, main).         *)
AllTrueMeansComplete ==
  cur \notin Messages /\ (\A m \in Messages : result[m] = "true") =>
    LET printed == FlattenSeq([i \in DOMAIN log |-> Payload[log[i]]])
    IN  /\ {printed[i] : i \in DOMAIN printed} = 1..Lines
        /\ breaks = 0 => printed = [i \in 1..Lines |-> i]
=============================================================================
