--------------------------- MODULE NetworkProofs ---------------------------
(***************************************************************************)
(* Proofs about the two parts of the log's way through the network: the    *)
(* transfer of m6 (GrpcTransfer), and the filter of m1 whose output the    *)
(* transfer cuts into chunks (LogFilter).                                  *)
(*                                                                         *)
(* The first are for logs of any length, chunks of any size, and any       *)
(* number of attempts and broken connections.  The transfer is the same    *)
(* whatever the messages are; what SplitByLines makes of the lines is      *)
(* needed only in the end, for the output as a whole.  The others are for  *)
(* addresses of any width, any filters and batches, and logs of any        *)
(* length: filters mean what their configurations say, and the output is   *)
(* what they let pass.                                                     *)
(***************************************************************************)
EXTENDS GrpcTransfer, LogFilter, FiniteSetTheorems, WellFoundedInduction, TLAPS

(* The inductive invariant.  Send: how many attempts the call has made is  *)
(* how often its connection broke, and one more while it waits.            *)
Sending ==
  /\ call # "none" => cur \in Messages
  /\ call = "ready" => try = broken[cur] /\ try < MaxAttempts
  /\ call = "waiting" => try = broken[cur] + 1

(* Messages are sent in their order, so whatever is known of one is known  *)
(* of the present or an earlier one.                                       *)
Sent(m) == result[m] # "none" \/ (m = cur /\ call # "none")
InOrder ==
  /\ \A m \in Messages :
       /\ result[m] # "none" => m \in Nat /\ m < cur
       /\ broken[m] # 0 => Sent(m)
  /\ \A a \in flight : a.msg \in Nat /\ a.msg <= cur /\ Sent(a.msg)
  /\ \A i \in DOMAIN log : log[i] \in Nat /\ log[i] <= cur

(* Every time a message is printed, or may still be, is an attempt that    *)
(* was made for it; and what is answered is printed.                       *)
Pending(m) == {a \in flight : a.msg = m /\ a.st = "sent"}
Attempts(m) ==
  IF m = cur /\ call # "none" THEN try
  ELSE IF result[m] # "none" THEN 1 + broken[m] ELSE 0
Counted == \A m \in Messages : Times(m) + Cardinality(Pending(m)) <= Attempts(m)
AnswersPrinted == \A a \in flight : a.st = "handled" => Times(a.msg) > 0
SuccessPrinted == \A m \in Messages : result[m] = "true" => Times(m) > 0

IInv == /\ TypeOK /\ IsFiniteSet(flight)
        /\ Sending /\ InOrder /\ Counted
        /\ AnswersPrinted /\ SuccessPrinted /\ DisorderIsReported

-----------------------------------------------------------------------------
(* Counting what is printed and what is in flight. *)
LEMMA TimesNat ==
  ASSUME log \in Seq(Messages), NEW m
  PROVE  /\ IsFiniteSet({i \in DOMAIN log : log[i] = m})
         /\ Times(m) \in Nat
         /\ Times(m) > 0 <=> \E i \in DOMAIN log : log[i] = m
<1> DEFINE at == {i \in DOMAIN log : log[i] = m}
<1>1. IsFiniteSet(1..Len(log))
  BY FS_Interval
<1>2. IsFiniteSet(at)
  BY <1>1, FS_Subset
<1>3. Cardinality(at) \in Nat /\ (Cardinality(at) = 0 <=> at = {})
  BY <1>2, FS_CardinalityType, FS_EmptySet
<1> QED BY <1>2, <1>3 DEF Times

LEMMA TimesAppend ==
  ASSUME log \in Seq(Messages), NEW x \in Messages, log' = Append(log, x), NEW m
  PROVE  Times(m)' = IF x = m THEN Times(m) + 1 ELSE Times(m)
<1> DEFINE at == {i \in DOMAIN log : log[i] = m}
           new == {i \in DOMAIN log' : log'[i] = m}
<1>1. /\ Len(log) \in Nat /\ DOMAIN log = 1..Len(log)
      /\ DOMAIN log' = 1..(Len(log) + 1)
      /\ \A i \in 1..Len(log) : log'[i] = log[i]
      /\ log'[Len(log) + 1] = x
  OBVIOUS
<1>2. new = IF x = m THEN at \cup {Len(log) + 1} ELSE at
  BY <1>1
<1>3. Len(log) + 1 \notin at
  BY <1>1
<1>4. IsFiniteSet(at)
  BY TimesNat
<1>5. Cardinality(at \cup {Len(log) + 1}) = Cardinality(at) + 1
  BY <1>3, <1>4, FS_AddElement
<1>6. Cardinality(new) = IF x = m THEN Cardinality(at) + 1 ELSE Cardinality(at)
  BY <1>2, <1>5
<1> QED BY <1>6 DEF Times

LEMMA PendingFinite ==
  ASSUME IsFiniteSet(flight), NEW m
  PROVE  /\ IsFiniteSet(Pending(m)) /\ Cardinality(Pending(m)) \in Nat
         /\ Cardinality(Pending(m)) = 0 <=> Pending(m) = {}
<1>1. IsFiniteSet(Pending(m))
  BY FS_Subset DEF Pending
<1> QED BY <1>1, FS_CardinalityType, FS_EmptySet

(* Fewer attempts in flight, no more of them pending. *)
LEMMA PendingShrinks ==
  ASSUME IsFiniteSet(flight), NEW m, flight' \subseteq flight
  PROVE  /\ IsFiniteSet(flight')
         /\ Cardinality(Pending(m)') \in Nat
         /\ Cardinality(Pending(m)') <= Cardinality(Pending(m))
<1>1. IsFiniteSet(flight') /\ Pending(m)' \subseteq Pending(m)
  BY FS_Subset DEF Pending
<1>2. IsFiniteSet(Pending(m))
  BY PendingFinite
<1> QED BY <1>1, <1>2, FS_Subset, FS_CardinalityType

LEMMA AddOne ==
  ASSUME NEW S, IsFiniteSet(S), NEW x
  PROVE  /\ IsFiniteSet(S \cup {x})
         /\ Cardinality(S \cup {x}) \in Nat
         /\ Cardinality(S \cup {x}) <= Cardinality(S) + 1
<1>1. IsFiniteSet(S \cup {x})
  BY FS_AddElement
<1>2. Cardinality(S \cup {x}) = IF x \in S THEN Cardinality(S) ELSE Cardinality(S) + 1
  BY FS_AddElement
<1>3. Cardinality(S) \in Nat /\ Cardinality(S \cup {x}) \in Nat
  BY <1>1, FS_CardinalityType
<1> QED BY <1>1, <1>2, <1>3

(* A step that handles and sends nothing keeps the count, provided no      *)
(* message has fewer attempts afterwards.                                  *)
LEMMA CountedStays ==
  ASSUME IInv, log' = log, flight' \subseteq flight,
         \A m \in Messages : Attempts(m) <= Attempts(m)',
         \A m \in Messages : Attempts(m) \in Nat /\ Attempts(m)' \in Nat
  PROVE  Counted' /\ IsFiniteSet(flight')
<1>1. ASSUME NEW m \in Messages
      PROVE  Times(m)' + Cardinality(Pending(m)') <= Attempts(m)'
  <2>1. /\ Cardinality(Pending(m)') \in Nat /\ Cardinality(Pending(m)) \in Nat
        /\ Cardinality(Pending(m)') <= Cardinality(Pending(m))
    BY PendingShrinks, PendingFinite DEF IInv
  <2>2. Times(m)' = Times(m) /\ Times(m) \in Nat
    BY TimesNat DEF IInv, TypeOK, Times
  <2>3. Times(m) + Cardinality(Pending(m)) <= Attempts(m)
    BY DEF IInv, Counted
  <2> QED BY <2>1, <2>2, <2>3
<1> QED BY <1>1, PendingShrinks DEF Counted, IInv

LEMMA AttemptsNat ==
  ASSUME TypeOK, NEW m \in Messages  PROVE Attempts(m) \in Nat
BY TransferAssumption DEF TypeOK, Attempts

(* Whatever happens, a message stays sent, printed, and excused. *)
LEMMA PrintedStays ==
  ASSUME log' = log  PROVE \A m : Times(m)' = Times(m)
BY DEF Times

LEMMA DisorderStays ==
  ASSUME IInv, log' = log,
         \A m \in Messages : result[m] = "false" => result'[m] = "false",
         \A m \in Messages : broken[m] > 0 => broken'[m] > 0
  PROVE  DisorderIsReported'
<1>1. \A i \in DOMAIN log : log[i] \in Messages
  BY DEF IInv, TypeOK
<1> QED BY <1>1 DEF IInv, DisorderIsReported

-----------------------------------------------------------------------------
LEMMA InitInvariant == Init => IInv
<1> SUFFICES ASSUME Init PROVE IInv
  OBVIOUS
<1> USE TransferAssumption DEF Init
<1>1. TypeOK /\ IsFiniteSet(flight)
  BY FS_EmptySet DEF TypeOK
<1>2. Sending /\ InOrder /\ AnswersPrinted /\ SuccessPrinted /\ DisorderIsReported
  BY DEF Sending, InOrder, AnswersPrinted, SuccessPrinted, DisorderIsReported
<1>3. ASSUME NEW m \in Messages
      PROVE  Times(m) + Cardinality(Pending(m)) <= Attempts(m)
  <2>1. {i \in DOMAIN log : log[i] = m} = {} /\ Pending(m) = {}
    BY DEF Pending
  <2> QED BY <2>1, FS_EmptySet DEF Times, Attempts
<1> QED BY <1>1, <1>2, <1>3 DEF IInv, Counted

LEMMA SendBeginsStep ==
  ASSUME IInv, SendBegins  PROVE IInv'
<1> USE TransferAssumption DEF IInv, SendBegins
<1>1. TypeOK'
  BY DEF TypeOK
<1>2. Sending'
  BY DEF Sending, InOrder, Sent, TypeOK
<1>3. InOrder'
  BY DEF InOrder, Sent, Sending, TypeOK
<1>4. Counted' /\ IsFiniteSet(flight')
  <2>1. \A m \in Messages : Attempts(m) <= Attempts(m)'
    BY DEF Attempts, Sending, InOrder, TypeOK
  <2>2. \A m \in Messages : Attempts(m) \in Nat /\ Attempts(m)' \in Nat
    BY <1>1 DEF Attempts, TypeOK
  <2> QED BY <2>1, <2>2, CountedStays
<1>5. AnswersPrinted' /\ SuccessPrinted'
  BY PrintedStays DEF AnswersPrinted, SuccessPrinted
<1>6. DisorderIsReported'
  BY DisorderStays DEF Sending, InOrder, TypeOK
<1> QED BY <1>1, <1>2, <1>3, <1>4, <1>5, <1>6

LEMMA SendAttemptStep ==
  ASSUME IInv, SendAttempt  PROVE IInv'
<1> USE TransferAssumption DEF IInv, SendAttempt, Attempt
<1>0. cur \in Messages /\ try + 1 \in 1..MaxAttempts
  BY DEF Sending, TypeOK
<1>1. TypeOK'
  BY <1>0 DEF TypeOK
<1>2. Sending'
  BY DEF Sending, InOrder, Sent, TypeOK
<1>3. InOrder'
  BY DEF InOrder, Sent, Sending, TypeOK
<1>4. Counted' /\ IsFiniteSet(flight')
  <2>1. IsFiniteSet(flight')
    BY FS_AddElement
  <2>2. ASSUME NEW m \in Messages
        PROVE  Times(m)' + Cardinality(Pending(m)') <= Attempts(m)'
    <3>1. /\ Times(m)' = Times(m) /\ Times(m) \in Nat
          /\ Times(m) + Cardinality(Pending(m)) <= Attempts(m)
          /\ IsFiniteSet(Pending(m)) /\ Cardinality(Pending(m)) \in Nat
      BY PrintedStays, TimesNat, PendingFinite DEF Counted, TypeOK
    <3>2. CASE m = cur
      <4>1. Pending(m)' = Pending(m) \cup {Attempt(cur, try + 1, "sent")}
        BY <3>2 DEF Pending
      <4>2. /\ Cardinality(Pending(m)') \in Nat
            /\ Cardinality(Pending(m)') <= Cardinality(Pending(m)) + 1
        BY <3>1, <4>1, AddOne
      <4>3. Attempts(m) = try /\ Attempts(m)' = try + 1 /\ try \in Nat
        BY <3>2 DEF Attempts, TypeOK
      <4> QED BY <3>1, <4>2, <4>3
    <3>3. CASE m # cur
      <4>1. Pending(m)' = Pending(m) /\ Attempts(m)' = Attempts(m)
        BY <3>3 DEF Pending, Attempts
      <4> QED BY <3>1, <4>1
    <3> QED BY <3>2, <3>3
  <2> QED BY <2>1, <2>2 DEF Counted
<1>5. AnswersPrinted' /\ SuccessPrinted'
  BY PrintedStays DEF AnswersPrinted, SuccessPrinted
<1>6. DisorderIsReported'
  BY DisorderStays DEF Sending, InOrder, TypeOK
<1> QED BY <1>1, <1>2, <1>3, <1>4, <1>5, <1>6

LEMMA AnsweredStep ==
  ASSUME IInv, Answered  PROVE IInv'
<1> USE TransferAssumption DEF IInv, Answered, SendReturns, Attempt
<1>0. cur \in Messages /\ result[cur] = "none" /\ Times(cur) > 0
  BY DEF Sending, InOrder, AnswersPrinted, TypeOK
<1>1. TypeOK'
  BY <1>0 DEF TypeOK
<1>2. Sending'
  BY DEF Sending, InOrder, Sent, TypeOK
<1>3. InOrder'
  BY DEF InOrder, Sent, Sending, TypeOK
<1>4. Counted' /\ IsFiniteSet(flight')
  <2>1. \A m \in Messages : Attempts(m) <= Attempts(m)'
    BY DEF Attempts, Sending, InOrder, TypeOK
  <2>2. \A m \in Messages : Attempts(m) \in Nat /\ Attempts(m)' \in Nat
    BY <1>1 DEF Attempts, TypeOK
  <2> QED BY <2>1, <2>2, CountedStays
<1>5. AnswersPrinted' /\ SuccessPrinted'
  BY <1>0, PrintedStays DEF AnswersPrinted, SuccessPrinted, TypeOK
<1>6. DisorderIsReported'
  BY <1>0, DisorderStays DEF TypeOK
<1> QED BY <1>1, <1>2, <1>3, <1>4, <1>5, <1>6

LEMMA DeadlineExceededStep ==
  ASSUME IInv, DeadlineExceeded  PROVE IInv'
<1> USE TransferAssumption DEF IInv, DeadlineExceeded, SendReturns
<1>0. cur \in Messages /\ result[cur] = "none"
  BY DEF Sending, InOrder, TypeOK
<1>1. TypeOK'
  BY <1>0 DEF TypeOK
<1>2. Sending'
  BY DEF Sending, InOrder, Sent, TypeOK
<1>3. InOrder'
  BY DEF InOrder, Sent, Sending, TypeOK
<1>4. Counted' /\ IsFiniteSet(flight')
  <2>1. \A m \in Messages : Attempts(m) <= Attempts(m)'
    BY DEF Attempts, Sending, InOrder, TypeOK
  <2>2. \A m \in Messages : Attempts(m) \in Nat /\ Attempts(m)' \in Nat
    BY <1>1 DEF Attempts, TypeOK
  <2> QED BY <2>1, <2>2, CountedStays
<1>5. AnswersPrinted' /\ SuccessPrinted'
  BY PrintedStays DEF AnswersPrinted, SuccessPrinted
<1>6. DisorderIsReported'
  BY DisorderStays DEF Sending, InOrder, TypeOK
<1> QED BY <1>1, <1>2, <1>3, <1>4, <1>5, <1>6

(* A connection that breaks under a call, between calls, or with the       *)
(* receiver, which takes what is in flight with it.                        *)
LEMMA UnavailableStep ==
  ASSUME IInv, Unavailable, flight' \subseteq flight,
         up' \in BOOLEAN  PROVE IInv'
<1> USE TransferAssumption DEF IInv, Unavailable, SendReturns
<1>0. call = "waiting" => /\ cur \in Messages /\ result[cur] = "none"
                          /\ broken[cur] + 1 \in 1..MaxAttempts
  BY DEF Sending, InOrder, TypeOK
<1>a. /\ broken' \in [Messages -> 0..MaxAttempts]
      /\ \A m \in Messages : broken[m] <= broken'[m]
      /\ \A m \in Messages : m # cur => broken'[m] = broken[m]
      /\ call = "waiting" => broken'[cur] = broken[cur] + 1
      /\ call # "waiting" => broken' = broken
  BY <1>0 DEF TypeOK
<1>b. /\ up' \in BOOLEAN /\ breaks' \in 0..MaxBreaks
      /\ try' = try /\ log' = log
  BY DEF TypeOK
<1>c. \/ /\ call # "waiting" /\ call' = call /\ cur' = cur /\ result' = result
      \/ /\ call = "waiting" /\ try < MaxAttempts
         /\ call' = "ready" /\ cur' = cur /\ result' = result
      \/ /\ call = "waiting" /\ call' = "none" /\ cur' = cur + 1
         /\ result' = [result EXCEPT ![cur] = "false"]
  OBVIOUS
<1>d. flight' \subseteq flight
  OBVIOUS
<1> HIDE DEF Unavailable
<1>1. TypeOK'
  <2>1. cur' \in Nat \ {0} /\ (cur' = 1 \/ cur' - 1 \in Messages)
    BY <1>0, <1>c DEF TypeOK
  <2>2. /\ call' \in {"none", "ready", "waiting"}
        /\ result' \in [Messages -> {"none", "true", "false"}]
    BY <1>c DEF TypeOK
  <2>3. flight' \subseteq [msg : Messages, try : 1..MaxAttempts, st : {"sent", "handled"}]
    BY <1>d DEF TypeOK
  <2> QED BY <1>a, <1>b, <2>1, <2>2, <2>3 DEF TypeOK
<1>2. Sending'
  BY <1>0, <1>a, <1>b, <1>c DEF Sending, InOrder, Sent, TypeOK
<1>3. InOrder'
  <2>1. \A m \in Messages : /\ result'[m] # "none" => m \in Nat /\ m < cur'
                            /\ Sent(m) => Sent(m)'
    BY <1>0, <1>c DEF InOrder, Sent, Sending, TypeOK
  <2>2. \A m \in Messages : broken'[m] # 0 => Sent(m)'
    BY <1>0, <1>a, <2>1 DEF InOrder, Sent, Sending, TypeOK
  <2>3. cur' \in Nat /\ cur <= cur'
    BY <1>c DEF TypeOK
  <2>4. \A x \in flight' : x.msg \in Nat /\ x.msg <= cur' /\ Sent(x.msg)'
    BY <1>d, <2>1, <2>3 DEF InOrder, TypeOK
  <2>5. \A i \in DOMAIN log' : log'[i] \in Nat /\ log'[i] <= cur'
    BY <1>b, <2>3 DEF InOrder, TypeOK
  <2> QED BY <2>1, <2>2, <2>4, <2>5 DEF InOrder
<1>4. Counted' /\ IsFiniteSet(flight')
  <2>1. \A m \in Messages : Attempts(m) <= Attempts(m)'
    BY <1>0, <1>a, <1>b, <1>c DEF Attempts, Sending, InOrder, TypeOK
  <2>2. \A m \in Messages : Attempts(m) \in Nat /\ Attempts(m)' \in Nat
    BY <1>1 DEF Attempts, TypeOK
  <2> QED BY <1>b, <1>d, <2>1, <2>2, CountedStays
<1>5. AnswersPrinted' /\ SuccessPrinted'
  BY <1>0, <1>b, <1>c, <1>d, PrintedStays DEF AnswersPrinted, SuccessPrinted, TypeOK
<1>6. DisorderIsReported'
  BY <1>0, <1>a, <1>b, <1>c, DisorderStays DEF TypeOK
<1> QED BY <1>1, <1>2, <1>3, <1>4, <1>5, <1>6

LEMMA HandleStep ==
  ASSUME IInv, NEW a \in flight, Handle(a)  PROVE IInv'
<1> USE TransferAssumption DEF IInv, Handle
<1> DEFINE done == [a EXCEPT !.st = "handled"]
<1>0. /\ a.msg \in Messages /\ a.try \in 1..MaxAttempts
      /\ done = [msg |-> a.msg, try |-> a.try, st |-> "handled"]
  BY DEF TypeOK
<1>a. /\ flight' = (flight \ {a}) \cup {done}
      /\ done.msg = a.msg /\ done.st = "handled"
  BY <1>0
<1>b. \A m : Times(m) \in Nat /\ Times(m)' = IF a.msg = m THEN Times(m) + 1 ELSE Times(m)
  BY <1>0, TimesNat, TimesAppend DEF TypeOK
<1>c. /\ Len(log) \in Nat /\ DOMAIN log = 1..Len(log)
      /\ DOMAIN log' = 1..(Len(log) + 1)
      /\ \A i \in 1..Len(log) : log'[i] = log[i] /\ log[i] \in Messages
      /\ log'[Len(log) + 1] = a.msg
  BY <1>0 DEF TypeOK
<1>d. \A m \in Messages : Sent(m)' <=> Sent(m)
  BY DEF Sent
<1>1. TypeOK'
  <2>1. log' \in Seq(Messages)
    BY <1>0 DEF TypeOK
  <2>2. flight' \subseteq [msg : Messages, try : 1..MaxAttempts, st : {"sent", "handled"}]
    BY <1>0, <1>a DEF TypeOK
  <2> QED BY <2>1, <2>2 DEF TypeOK
<1>2. Sending'
  BY DEF Sending, InOrder, Sent, TypeOK
<1>3. InOrder'
  <2>1. \A x \in flight' : x.msg \in Nat /\ x.msg <= cur /\ Sent(x.msg)'
    BY <1>0, <1>a, <1>d DEF InOrder, TypeOK
  <2>2. \A i \in DOMAIN log' : log'[i] \in Nat /\ log'[i] <= cur
    BY <1>c DEF InOrder
  <2> QED BY <1>d, <2>1, <2>2 DEF InOrder
<1>4. Counted' /\ IsFiniteSet(flight')
  <2>1. IsFiniteSet(flight')
    <3>1. IsFiniteSet(flight \ {a})
      BY FS_RemoveElement
    <3>2. IsFiniteSet((flight \ {a}) \cup {done})
      BY <3>1, AddOne
    <3> QED BY <1>a, <3>2
  <2>2. ASSUME NEW m \in Messages
        PROVE  Times(m)' + Cardinality(Pending(m)') <= Attempts(m)'
    <3>1. /\ Times(m) + Cardinality(Pending(m)) <= Attempts(m)
          /\ Attempts(m)' = Attempts(m) /\ Attempts(m) \in Nat
          /\ IsFiniteSet(Pending(m)) /\ Cardinality(Pending(m)) \in Nat
      BY PendingFinite, AttemptsNat DEF Counted, Attempts
    <3>2. Pending(m)' = Pending(m) \ {a}
      BY <1>a DEF Pending
    <3>3. a.msg = m <=> a \in Pending(m)
      BY DEF Pending
    <3>4. Cardinality(Pending(m)') = IF a.msg = m THEN Cardinality(Pending(m)) - 1
                                                 ELSE Cardinality(Pending(m))
      BY <3>1, <3>2, <3>3, FS_RemoveElement
    <3> QED BY <1>b, <3>1, <3>4
  <2> QED BY <2>1, <2>2 DEF Counted
<1>5. AnswersPrinted' /\ SuccessPrinted'
  <2>1. \A m \in Messages : Times(m) > 0 => Times(m)' > 0
    BY <1>b
  <2>2. Times(a.msg)' > 0
    BY <1>b
  <2>3. \A x \in flight' : x.st = "handled" => Times(x.msg)' > 0
    BY <1>a, <2>1, <2>2 DEF AnswersPrinted, TypeOK
  <2> QED BY <2>1, <2>3 DEF AnswersPrinted, SuccessPrinted
<1>6. DisorderIsReported'
  <2> DEFINE m == a.msg
  <2>1. ASSUME NEW i \in 1..Len(log), log[i] > m, result[m] # "false", broken[m] = 0
        PROVE  FALSE
    <3>1. m \in Nat /\ m # cur /\ result[m] = "true"
      <4>1. m \in Nat /\ log[i] \in Nat /\ log[i] <= cur /\ cur \in Nat /\ Sent(m)
        BY <1>c, <2>1 DEF InOrder, TypeOK
      <4>2. m < cur
        BY <2>1, <4>1
      <4>3. result[m] \in {"none", "true", "false"}
        BY <1>0 DEF TypeOK
      <4> QED BY <2>1, <4>1, <4>2, <4>3 DEF Sent
    <3>2. Times(m) > 0 /\ Attempts(m) = 1
      BY <1>0, <2>1, <3>1 DEF SuccessPrinted, Attempts
    <3>3. a \in Pending(m) /\ Cardinality(Pending(m)) \in Nat
      BY PendingFinite DEF Pending
    <3>4. Cardinality(Pending(m)) # 0
      BY <3>3, PendingFinite
    <3>5. Times(m) + Cardinality(Pending(m)) <= 1
      BY <1>0, <3>2 DEF Counted
    <3> QED BY <1>b, <3>2, <3>3, <3>4, <3>5
  <2>2. broken[m] \in Nat
    BY <1>0 DEF TypeOK
  <2>3. ASSUME NEW i \in DOMAIN log', NEW j \in DOMAIN log', i < j, log'[i] > log'[j]
        PROVE  result[log'[j]] = "false" \/ broken[log'[j]] > 0
    <3>1. CASE j = Len(log) + 1
      BY <1>c, <2>1, <2>2, <2>3, <3>1
    <3>2. CASE j # Len(log) + 1
      BY <1>c, <2>3, <3>2 DEF DisorderIsReported
    <3> QED BY <3>1, <3>2
  <2> QED BY <2>3 DEF DisorderIsReported
<1> QED BY <1>1, <1>2, <1>3, <1>4, <1>5, <1>6

LEMMA DropStep ==
  ASSUME IInv, NEW a \in flight, Drop(a)  PROVE IInv'
<1> USE TransferAssumption DEF IInv, Drop
<1>1. TypeOK'
  BY DEF TypeOK
<1>2. Sending'
  BY DEF Sending, InOrder, Sent, TypeOK
<1>3. InOrder'
  BY DEF InOrder, Sent, Sending, TypeOK
<1>4. Counted' /\ IsFiniteSet(flight')
  <2>1. \A m \in Messages : Attempts(m) <= Attempts(m)'
    BY DEF Attempts, Sending, InOrder, TypeOK
  <2>2. \A m \in Messages : Attempts(m) \in Nat /\ Attempts(m)' \in Nat
    BY <1>1 DEF Attempts, TypeOK
  <2> QED BY <2>1, <2>2, CountedStays
<1>5. AnswersPrinted' /\ SuccessPrinted'
  BY PrintedStays DEF AnswersPrinted, SuccessPrinted
<1>6. DisorderIsReported'
  BY DisorderStays DEF Sending, InOrder, TypeOK
<1> QED BY <1>1, <1>2, <1>3, <1>4, <1>5, <1>6

LEMMA ReceiverStartsStep ==
  ASSUME IInv, ReceiverStarts  PROVE IInv'
<1> USE TransferAssumption DEF IInv, ReceiverStarts
<1>1. TypeOK'
  BY DEF TypeOK
<1>2. Sending'
  BY DEF Sending, InOrder, Sent, TypeOK
<1>3. InOrder'
  BY DEF InOrder, Sent, Sending, TypeOK
<1>4. Counted' /\ IsFiniteSet(flight')
  <2>1. \A m \in Messages : Attempts(m) <= Attempts(m)'
    BY DEF Attempts, Sending, InOrder, TypeOK
  <2>2. \A m \in Messages : Attempts(m) \in Nat /\ Attempts(m)' \in Nat
    BY <1>1 DEF Attempts, TypeOK
  <2> QED BY <2>1, <2>2, CountedStays
<1>5. AnswersPrinted' /\ SuccessPrinted'
  BY PrintedStays DEF AnswersPrinted, SuccessPrinted
<1>6. DisorderIsReported'
  BY DisorderStays DEF Sending, InOrder, TypeOK
<1> QED BY <1>1, <1>2, <1>3, <1>4, <1>5, <1>6

-----------------------------------------------------------------------------
LEMMA NextInvariant == IInv /\ [Next]_vars => IInv'
<1> SUFFICES ASSUME IInv, [Next]_vars PROVE IInv'
  OBVIOUS
<1>1. CASE UNCHANGED vars
  <2>1. UNCHANGED <<cur, call, try, result, flight, up, log, broken, breaks>>
    BY <1>1 DEF vars
  <2>2. \A m : /\ Times(m)' = Times(m) /\ Pending(m)' = Pending(m)
               /\ Attempts(m)' = Attempts(m) /\ Sent(m)' = Sent(m)
    BY <2>1 DEF Times, Pending, Attempts, Sent
  <2> QED BY <2>1, <2>2 DEF IInv, TypeOK, Sending, InOrder, Counted, AnswersPrinted,
                            SuccessPrinted, DisorderIsReported
<1>2. CASE Sender
  BY <1>2, SendBeginsStep, SendAttemptStep, AnsweredStep, DeadlineExceededStep
  DEF Sender
<1>3. ASSUME NEW a \in flight, Handle(a) \/ Drop(a)  PROVE IInv'
  BY <1>3, HandleStep, DropStep
<1>4. CASE ConnectionBreaks \/ ReceiverDies
  <2>1. Unavailable /\ up' \in BOOLEAN /\ flight' \subseteq flight
    BY <1>4 DEF ConnectionBreaks, ReceiverDies, IInv, TypeOK
  <2> QED BY <2>1, UnavailableStep
<1>5. CASE ReceiverStarts
  BY <1>5, ReceiverStartsStep
<1> QED BY <1>1, <1>2, <1>3, <1>4, <1>5 DEF Next, Ended

(* However connections break and receivers die, a message is never printed *)
(* more often than it was attempted, and nothing overtakes a later one     *)
(* without a break or a false.                                             *)
THEOREM Invariance == Spec => []IInv
BY InitInvariant, NextInvariant, PTL DEF Spec

(* Whatever is retried, late, or lost with a receiver: Send returns true   *)
(* only for a message that the receiver has handled.                       *)
THEOREM SuccessIsTrue == Spec => []SuccessMeansHandled
<1>1. IInv => SuccessMeansHandled
  BY DEF IInv, SuccessPrinted, SuccessMeansHandled
<1> QED BY <1>1, Invariance, PTL

(* A message is printed once, and once more at most for every time its     *)
(* connection broke.                                                       *)
THEOREM DuplicatesAreRetries == Spec => []DuplicatesNeedBreaks
<1>1. ASSUME IInv, NEW m \in Messages  PROVE Times(m) <= 1 + broken[m]
  <2>1. /\ Times(m) \in Nat /\ Cardinality(Pending(m)) \in Nat
        /\ Times(m) + Cardinality(Pending(m)) <= Attempts(m)
    BY <1>1, TimesNat, PendingFinite DEF IInv, TypeOK, Counted
  <2>2. Attempts(m) <= 1 + broken[m] /\ Attempts(m) \in Nat /\ broken[m] \in Nat
    BY <1>1, TransferAssumption DEF IInv, TypeOK, Sending, Attempts
  <2> QED BY <2>1, <2>2
<1>2. IInv => DuplicatesNeedBreaks
  BY <1>1 DEF DuplicatesNeedBreaks
<1> QED BY <1>2, Invariance, PTL

(* Messages are printed in the order of the log, except those whose Send   *)
(* reported a failure or met a broken connection.                          *)
THEOREM DisorderHasReasons == Spec => []DisorderIsReported
<1>1. IInv => DisorderIsReported
  BY DEF IInv
<1> QED BY <1>1, Invariance, PTL

(* When every Send has returned true and no connection broke, the receiver *)
(* has printed every message exactly once, each before the later ones: the *)
(* part of AllTrueMeansComplete that does not depend on SplitByLines.      *)
Unbroken == breaks = 0 => \A m \in Messages : broken[m] = 0
EachOnceInOrder ==
  (\A m \in Messages : result[m] = "true") /\ breaks = 0 =>
    /\ \A m \in Messages : Times(m) = 1
    /\ \A i, j \in DOMAIN log : i < j => log[i] < log[j]

LEMMA UnbrokenStep == TypeOK /\ Unbroken /\ [Next]_vars => Unbroken'
<1> SUFFICES ASSUME TypeOK, Unbroken, [Next]_vars PROVE Unbroken'
  OBVIOUS
<1>1. CASE breaks' = breaks /\ broken' = broken
  BY <1>1 DEF Unbroken
<1>2. CASE Unavailable
  BY <1>2 DEF Unavailable, Unbroken, TypeOK
<1>3. CASE UNCHANGED vars
  BY <1>1, <1>3 DEF vars
<1>4. ASSUME Sender \/ (\E a \in flight : Handle(a) \/ Drop(a)) \/ ReceiverStarts
      PROVE  breaks' = breaks /\ broken' = broken
  BY <1>4 DEF Sender, SendBegins, SendAttempt, Answered, DeadlineExceeded, Handle,
              Drop, ReceiverStarts
<1> QED BY <1>1, <1>2, <1>3, <1>4
        DEF Next, ConnectionBreaks, ReceiverDies, Ended

(* Each was attempted once, and what is answered is printed.               *)
LEMMA OnceInOrder == IInv /\ Unbroken => EachOnceInOrder
<1> SUFFICES ASSUME IInv, Unbroken, \A m \in Messages : result[m] = "true", breaks = 0
             PROVE  /\ \A m \in Messages : Times(m) = 1
                    /\ \A i, j \in DOMAIN log : i < j => log[i] < log[j]
  BY DEF EachOnceInOrder
<1> USE TransferAssumption DEF IInv, TypeOK
<1>1. ASSUME NEW m \in Messages  PROVE Times(m) = 1
  <2>1. /\ Times(m) \in Nat /\ Cardinality(Pending(m)) \in Nat
        /\ Times(m) + Cardinality(Pending(m)) <= Attempts(m)
    BY TimesNat, PendingFinite DEF Counted
  <2>2. broken[m] = 0 /\ result[m] = "true" /\ Attempts(m) = 1
    BY DEF Unbroken, Attempts, InOrder
  <2>3. Times(m) > 0
    BY <2>2 DEF SuccessPrinted
  <2> QED BY <2>1, <2>2, <2>3
<1>2. ASSUME NEW i \in DOMAIN log, NEW j \in DOMAIN log, i < j
      PROVE  log[i] < log[j]
  <2>1. log[i] \in Messages /\ log[j] \in Messages /\ log[i] \in Nat /\ log[j] \in Nat
    BY DEF InOrder
  <2>2. ~(log[i] > log[j])
    BY <1>2, <2>1 DEF DisorderIsReported, Unbroken
  <2>3. log[i] # log[j]
    <3>1. PICK k : {n \in DOMAIN log : log[n] = log[i]} = {k}
      BY <1>1, <2>1, TimesNat, FS_Singleton DEF Times
    <3> QED BY <1>2, <3>1
  <2> QED BY <2>1, <2>2, <2>3
<1> QED BY <1>1, <1>2

(* Without a break, "true" for every message means that each was printed   *)
(* once, in the order of the log.                                          *)
THEOREM NothingLostOrRepeated == Spec => []EachOnceInOrder
<1>1. Init => Unbroken
  BY DEF Init, Unbroken
<1>2. IInv => TypeOK
  BY DEF IInv
<1> QED BY <1>1, <1>2, OnceInOrder, UnbrokenStep, Invariance, PTL DEF Spec

-----------------------------------------------------------------------------
(* Sequences of sequences, and what SplitByLines makes of the lines. *)

(* A set with zero and the successors of its numbers below n has all       *)
(* numbers up to n: the first one missing would follow one that is there.  *)
LEMMA UpTo ==
  ASSUME NEW n \in Nat, NEW S, 0 \in S, \A i \in 0..n-1 : i \in S => i + 1 \in S
  PROVE  \A i \in 0..n : i \in S
<1> SUFFICES ASSUME (0..n) \ S # {} PROVE FALSE
  OBVIOUS
<1> DEFINE T == {1..i : i \in (0..n) \ S}
<1>1. T \subseteq SUBSET (1..n) /\ T # {}
  OBVIOUS
<1>2. IsWellFoundedOn(StrictSubsetOrdering(1..n), SUBSET (1..n))
  <2>1. IsFiniteSet(1..n)
    BY FS_Interval
  <2>2. FiniteSubsetsOf(1..n) = SUBSET (1..n)
    BY <2>1, FS_FiniteSubsetsOfFinite
  <2>3. IsWellFoundedOn(StrictSubsetOrdering(1..n), FiniteSubsetsOf(1..n))
    BY <2>1, FS_StrictSubsetOrderingWellFounded
  <2> QED BY <2>2, <2>3, Zenon
<1> HIDE DEF T
<1>3. PICK u \in T : \A v \in T : ~(<<v, u>> \in StrictSubsetOrdering(1..n))
  BY <1>1, <1>2, WFMin
<1>4. PICK i \in (0..n) \ S : u = 1..i
  BY <1>3 DEF T
<1>5. i # 0 /\ i - 1 \in 0..n /\ i - 1 \notin S
  BY <1>4
<1>6. 1..(i - 1) \in T
  BY <1>5 DEF T
<1>7. 1..(i - 1) \subseteq u /\ i \in u /\ i \notin 1..(i - 1)
  BY <1>4, <1>5
<1> QED BY <1>1, <1>3, <1>6, <1>7 DEF StrictSubsetOrdering

-----------------------------------------------------------------------------
(* g[i] is the first i members of s, one after the other.                  *)
Continued(g, s, i) == IF i = 1 THEN s[i] ELSE g[i - 1] \o s[i]
Joins(g, s, n) == g = [i \in 1..n |-> Continued(g, s, i)]

(* A sequence has its length, and only the empty one has length zero.      *)
LEMMA SeqFacts ==
  ASSUME NEW S, NEW s \in Seq(S)
  PROVE  /\ Len(s) \in Nat /\ DOMAIN s = 1..Len(s)
         /\ s # <<>> => Len(s) # 0
         /\ \A i \in 1..Len(s) : s[i] \in S
OBVIOUS

(* The sequences FlattenSeq puts together exist.                           *)
LEMMA JoinsExist == ASSUME NEW s, NEW n \in Nat PROVE \E g : Joins(g, s, n)
<1> DEFINE I == {k \in 0..n : \E g : Joins(g, s, k)}
<1>1. 0 \in I
  <2>1. Joins([i \in 1..0 |-> Continued(<<>>, s, i)], s, 0)
    BY DEF Joins
  <2> QED BY <2>1
<1>2. ASSUME NEW k \in 0..n-1, k \in I PROVE k + 1 \in I
  <2>1. PICK g : Joins(g, s, k)
    BY <1>2
  <2> DEFINE h == [i \in 1..(k + 1) |-> IF i = k + 1 THEN Continued(g, s, i) ELSE g[i]]
  <2>2. /\ k + 1 \in 0..n /\ k \in Nat
        /\ \A i \in 1..(k + 1) : i # k + 1 => i \in 1..k
        /\ \A i \in 1..(k + 1) : i # 1 => i - 1 \in 1..k /\ i - 1 # k + 1
        /\ \A i \in 1..k : i \in 1..(k + 1) /\ i # k + 1
    BY <1>2
  <2>3. /\ \A i \in 1..k : h[i] = g[i]
        /\ \A i \in 1..(k + 1) : h[i] = IF i = k + 1 THEN Continued(g, s, i) ELSE g[i]
        /\ h = [i \in 1..(k + 1) |-> h[i]]
    BY <2>2
  <2> HIDE DEF h
  <2>4. \A i \in 1..k : g[i] = Continued(g, s, i)
    BY <2>1 DEF Joins
  <2>5. \A i \in 1..(k + 1) : Continued(g, s, i) = Continued(h, s, i)
    BY <2>2, <2>3 DEF Continued
  <2>6. \A i \in 1..(k + 1) : h[i] = Continued(h, s, i)
    BY <2>2, <2>3, <2>4, <2>5
  <2>7. Joins(h, s, k + 1)
    BY <2>3, <2>6 DEF Joins
  <2> QED BY <2>2, <2>7
<1>3. n \in 0..n
  OBVIOUS
<1> HIDE DEF I
<1>4. n \in I
  BY <1>1, <1>2, <1>3, UpTo
<1> QED BY <1>4 DEF I

(* What FlattenSeq returns is the last of them; each is a sequence.        *)
LEMMA Flattened ==
  ASSUME NEW S, NEW s \in Seq(Seq(S)), s # <<>>
  PROVE  \E g \in [1..Len(s) -> Seq(S)] :
            /\ g[1] = s[1] /\ \A i \in 2..Len(s) : g[i] = g[i - 1] \o s[i]
            /\ FlattenSeq(s) = g[Len(s)]
<1> DEFINE g == CHOOSE f : Joins(f, s, Len(s))
           n == Len(s)
<1>1. n \in Nat /\ n # 0 /\ n \in 1..n /\ 1 \in 1..n /\ \A i \in 1..n : s[i] \in Seq(S)
  <2> HIDE DEF n
  <2>1. n \in Nat /\ n # 0 /\ \A i \in 1..n : s[i] \in Seq(S)
    BY SeqFacts DEF n
  <2> QED BY <2>1
<1>2. Joins(g, s, n)
  BY <1>1, JoinsExist
<1>3. FlattenSeq(s) = g[n]
  BY <1>1 DEF FlattenSeq, Joins, Continued
<1> HIDE DEF g, n
<1>4. \A i \in 1..n : g[i] = Continued(g, s, i)
  BY <1>2 DEF Joins
<1>5. \A i \in 2..n : i \in 1..n /\ i # 1
  BY <1>1
<1>6. g[1] = s[1] /\ \A i \in 2..n : g[i] = g[i - 1] \o s[i]
  BY <1>1, <1>4, <1>5 DEF Continued
<1>7. ASSUME NEW i \in 1..n PROVE g[i] \in Seq(S)
  <2> DEFINE I == {k \in 0..n : k # 0 => g[k] \in Seq(S)}
  <2>1. ASSUME NEW k \in 0..n-1, k \in I PROVE k + 1 \in I
    <3>1. k + 1 \in 0..n
      BY <1>1, <2>1
    <3>2. CASE k = 0
      BY <1>1, <1>6, <3>1, <3>2
    <3>3. CASE k # 0
      <4>1. k + 1 \in 2..n /\ k + 1 \in 1..n /\ (k + 1) - 1 = k /\ g[k] \in Seq(S)
        BY <1>1, <2>1, <3>3
      <4>2. g[k + 1] = g[k] \o s[k + 1] /\ s[k + 1] \in Seq(S)
        BY <1>1, <1>6, <4>1
      <4>3. g[k + 1] \in Seq(S)
        BY <4>1, <4>2
      <4> QED BY <3>1, <4>3
    <3> QED BY <3>2, <3>3
  <2>2. 0 \in I /\ i \in 0..n /\ i # 0
    BY <1>1
  <2> HIDE DEF I
  <2>3. i \in I
    BY <1>1, <2>1, <2>2, UpTo
  <2> QED BY <2>2, <2>3 DEF I
<1>8. g \in [1..n -> Seq(S)]
  BY <1>2, <1>7 DEF Joins
<1> QED BY <1>3, <1>6, <1>8 DEF n

(* Of nothing, nothing.                                                    *)
LEMMA FlattenEmpty == FlattenSeq(<<>>) = <<>>
BY DEF FlattenSeq

(* FlattenSeq puts the last member at the end.                             *)
LEMMA FlattenAppend ==
  ASSUME NEW S, NEW s \in Seq(Seq(S)), NEW c \in Seq(S)
  PROVE  FlattenSeq(s) \in Seq(S) /\ FlattenSeq(Append(s, c)) = FlattenSeq(s) \o c
<1> DEFINE t == Append(s, c)
           n == Len(s)
<1>1. /\ t \in Seq(Seq(S)) /\ t # <<>> /\ Len(t) = n + 1 /\ n \in Nat
      /\ \A i \in 1..n : t[i] = s[i]
      /\ t[n + 1] = c
  <2>1. c \in Seq(S) /\ s \in Seq(Seq(S))
    OBVIOUS
  <2> DEFINE Q == Seq(S)
  <2> HIDE DEF Q
  <2>2. c \in Q /\ s \in Seq(Q)
    BY <2>1 DEF Q
  <2>3. /\ t \in Seq(Q) /\ t # <<>> /\ Len(t) = n + 1 /\ n \in Nat
        /\ \A i \in 1..n : t[i] = s[i]
        /\ t[n + 1] = c
    BY <2>2
  <2> QED BY <2>3 DEF Q
<1> HIDE DEF t, n
<1>2. PICK h \in [1..Len(t) -> Seq(S)] :
            /\ h[1] = t[1] /\ \A i \in 2..Len(t) : h[i] = h[i - 1] \o t[i]
            /\ FlattenSeq(t) = h[Len(t)]
  BY <1>1, Flattened
<1>3. CASE s = <<>>
  <2>1. n = 0 /\ FlattenSeq(s) = <<>>
    BY <1>3, FlattenEmpty DEF n
  <2>2. FlattenSeq(t) = c
    BY <1>1, <1>2, <2>1
  <2>3. <<>> \o c = c /\ <<>> \in Seq(S)
    OBVIOUS
  <2> QED BY <2>1, <2>2, <2>3 DEF t
<1>4. CASE s # <<>>
  <2>1. n # 0
    BY <1>4, SeqFacts DEF n
  <2>2. PICK g \in [1..n -> Seq(S)] :
            /\ g[1] = s[1] /\ \A i \in 2..n : g[i] = g[i - 1] \o s[i]
            /\ FlattenSeq(s) = g[n]
    BY <1>4, Flattened DEF n
  <2>3. n \in 1..n /\ n \in 0..n /\ n + 1 \in 2..(n + 1) /\ (n + 1) - 1 = n /\ 1 \in 1..n
    BY <1>1, <2>1
  <2>4. h[n] = g[n]
    <3> DEFINE I == {k \in 0..n : k # 0 => h[k] = g[k]}
    <3>1. ASSUME NEW k \in 0..n-1, k \in I PROVE k + 1 \in I
      <4>1. k + 1 \in 0..n
        BY <1>1, <3>1
      <4>2. CASE k = 0
        <5>1. h[1] = g[1]
          BY <1>1, <1>2, <2>2, <2>3
        <5> QED BY <4>1, <4>2, <5>1
      <4>3. CASE k # 0
        <5>1. /\ k + 1 \in 2..n /\ k + 1 \in 2..(n + 1) /\ k + 1 \in 1..n
              /\ (k + 1) - 1 = k /\ h[k] = g[k]
          BY <1>1, <3>1, <4>3
        <5>2. h[k + 1] = h[k] \o t[k + 1] /\ g[k + 1] = g[k] \o s[k + 1] /\ t[k + 1] = s[k + 1]
          BY <1>1, <1>2, <2>2, <5>1
        <5>3. h[k + 1] = g[k + 1]
          BY <5>1, <5>2
        <5> QED BY <4>1, <5>3
      <4> QED BY <4>2, <4>3
    <3>2. 0 \in I
      BY <1>1
    <3> HIDE DEF I
    <3>3. n \in I
      BY <1>1, <2>3, <3>1, <3>2, UpTo
    <3> QED BY <2>1, <3>3 DEF I
  <2>5. FlattenSeq(t) = g[n] \o c
    <3>1. h[n + 1] = h[n] \o c /\ FlattenSeq(t) = h[n + 1]
      BY <1>1, <1>2, <2>3
    <3> QED BY <2>4, <3>1
  <2>6. g[n] \in Seq(S)
    BY <2>2, <2>3
  <2> QED BY <2>2, <2>5, <2>6 DEF t
<1> QED BY <1>3, <1>4

(* Its elements are those of the members.                                  *)
Elements(s) == {s[i] : i \in DOMAIN s}
(* The elements of a joined sequence are those of its two parts.           *)
LEMMA JoinedElements ==
  ASSUME NEW S, NEW s \in Seq(S), NEW t \in Seq(S)
  PROVE  Elements(s \o t) = Elements(s) \cup Elements(t)
<1> DEFINE u == s \o t
<1>1. /\ Len(s) \in Nat /\ Len(t) \in Nat
      /\ DOMAIN s = 1..Len(s) /\ DOMAIN t = 1..Len(t) /\ DOMAIN u = 1..(Len(s) + Len(t))
      /\ \A i \in 1..Len(s) : u[i] = s[i]
      /\ \A i \in 1..Len(t) : u[Len(s) + i] = t[i]
      /\ \A i \in (Len(s) + 1)..(Len(s) + Len(t)) :
           i - Len(s) \in 1..Len(t) /\ u[i] = t[i - Len(s)]
  OBVIOUS
<1> HIDE DEF u
<1>2. ASSUME NEW i \in DOMAIN u PROVE u[i] \in Elements(s) \cup Elements(t)
  <2>1. i \in 1..Len(s) \/ i \in (Len(s) + 1)..(Len(s) + Len(t))
    BY <1>1, <1>2
  <2> QED BY <1>1, <2>1 DEF Elements
<1>3. ASSUME NEW i \in DOMAIN s PROVE s[i] \in Elements(u)
  <2>1. i \in DOMAIN u /\ u[i] = s[i]
    BY <1>1
  <2> QED BY <2>1 DEF Elements
<1>4. ASSUME NEW i \in DOMAIN t PROVE t[i] \in Elements(u)
  <2>1. Len(s) + i \in DOMAIN u /\ u[Len(s) + i] = t[i]
    BY <1>1
  <2> QED BY <2>1 DEF Elements
<1>5. /\ \A x \in Elements(u) : \E i \in DOMAIN u : x = u[i]
      /\ \A x \in Elements(s) : \E i \in DOMAIN s : x = s[i]
      /\ \A x \in Elements(t) : \E i \in DOMAIN t : x = t[i]
  BY DEF Elements
<1>6. Elements(u) = Elements(s) \cup Elements(t)
  BY <1>2, <1>3, <1>4, <1>5
<1> QED BY <1>6 DEF u

LEMMA FlattenElements ==
  ASSUME NEW S, NEW s \in Seq(Seq(S))
  PROVE  Elements(FlattenSeq(s)) = UNION {Elements(s[i]) : i \in DOMAIN s}
<1>1. CASE s = <<>>
  BY <1>1, FlattenEmpty DEF Elements
<1>2. CASE s # <<>>
  <2>1. PICK g \in [1..Len(s) -> Seq(S)] :
            /\ g[1] = s[1] /\ \A i \in 2..Len(s) : g[i] = g[i - 1] \o s[i]
            /\ FlattenSeq(s) = g[Len(s)]
    BY <1>2, Flattened
  <2> DEFINE n == Len(s)
  <2>2. n \in Nat /\ n # 0 /\ DOMAIN s = 1..n /\ \A i \in 1..n : s[i] \in Seq(S)
    BY <1>2, SeqFacts
  <2> HIDE DEF n
  <2> DEFINE E(k) == UNION {Elements(s[i]) : i \in 1..k}
             I == {k \in 0..n : k # 0 => Elements(g[k]) = E(k)}
  <2>3. ASSUME NEW k \in 0..n-1, k \in I PROVE k + 1 \in I
    <3>1. k + 1 \in 0..n /\ k + 1 \in 1..n /\ 1..(k + 1) = 1..k \cup {k + 1}
      BY <2>2, <2>3
    <3>2. E(k + 1) = E(k) \cup Elements(s[k + 1])
      BY <3>1
    <3>3. CASE k = 0
      <4>1. 1..k = {}
        BY <3>3
      <4>2. E(k) = {}
        BY <4>1
      <4>3. g[k + 1] = s[k + 1]
        BY <2>1, <3>3
      <4> HIDE DEF E
      <4> QED BY <3>1, <3>2, <4>2, <4>3
    <3>4. CASE k # 0
      <4>1. k + 1 \in 2..n /\ (k + 1) - 1 = k /\ k \in 1..n
        BY <2>2, <2>3, <3>4
      <4>2. Elements(g[k]) = E(k)
        BY <2>3, <3>4
      <4>3. g[k + 1] = g[k] \o s[k + 1] /\ g[k] \in Seq(S) /\ s[k + 1] \in Seq(S)
        BY <2>1, <2>2, <3>1, <4>1 DEF n
      <4>4. Elements(g[k + 1]) = Elements(g[k]) \cup Elements(s[k + 1])
        BY <4>3, JoinedElements
      <4> HIDE DEF E
      <4> QED BY <3>1, <3>2, <4>2, <4>4
    <3> QED BY <3>3, <3>4
  <2>4. 0 \in I /\ n \in 0..n
    BY <2>2
  <2> HIDE DEF I
  <2>5. n \in I
    BY <2>2, <2>3, <2>4, UpTo
  <2>6. Elements(g[n]) = E(n)
    BY <2>2, <2>5 DEF I
  <2> QED BY <2>1, <2>2, <2>6 DEF n
<1> QED BY <1>1, <1>2
-----------------------------------------------------------------------------
(* The lines in their order. *)
Id(n) == [l \in 1..n |-> l]

(* The loop of SplitByLines, as FoldLeft walks it: down from the largest   *)
(* number of a set.                                                        *)
None == [result |-> <<>>, chunk |-> <<>>]
Turn(it, s, lines, perChunk) ==
  IF s = {} THEN None ELSE AddLine(it[s \ {Max(s)}], lines[Max(s)], perChunk)
Turns(it, n, lines, perChunk) ==
  it = [s \in SUBSET (1..n) |-> Turn(it, s, lines, perChunk)]

(* The turns FoldLeft defines by recursion exist: those for one line more  *)
(* continue those there are.                                               *)
LEMMA TurnsExist == ASSUME NEW n \in Nat, NEW q, NEW p PROVE \E it : Turns(it, n, q, p)
<1> DEFINE I == {k \in 0..n : \E it : Turns(it, k, q, p)}
<1>1. 0 \in I
  <2> DEFINE it == [s \in SUBSET (1..0) |-> None]
  <2>1. \A s \in SUBSET (1..0) : Turn(it, s, q, p) = None
    BY DEF Turn
  <2>2. Turns(it, 0, q, p)
    BY <2>1 DEF Turns
  <2> QED BY <2>2
<1>2. ASSUME NEW k \in 0..n-1, k \in I PROVE k + 1 \in I
  <2>1. PICK g : Turns(g, k, q, p)
    BY <1>2
  <2> DEFINE h == [s \in SUBSET (1..(k + 1)) |->
                     IF k + 1 \in s THEN Turn(g, s, q, p) ELSE g[s]]
  <2>2. ASSUME NEW s \in SUBSET (1..(k + 1)) PROVE h[s] = Turn(h, s, q, p)
    <3>1. CASE k + 1 \in s
      <4>1. Max(s) = k + 1
        <5>1. /\ k + 1 \in s /\ \A y \in s : k + 1 >= y
              /\ \A x \in s : x >= k + 1 => x = k + 1
          BY <1>2, <3>1
        <5> QED BY <5>1 DEF Max
      <4>2. s \ {k + 1} \in SUBSET (1..k) /\ s \ {k + 1} \in SUBSET (1..(k + 1))
        BY <1>2
      <4>3. h[s \ {Max(s)}] = g[s \ {Max(s)}]
        BY <4>1, <4>2
      <4>4. h[s] = Turn(g, s, q, p)
        BY <3>1
      <4> HIDE DEF h
      <4> QED BY <4>3, <4>4 DEF Turn
    <3>2. CASE k + 1 \notin s
      <4>1. s \in SUBSET (1..k)
        BY <1>2, <3>2
      <4>2. s \ {Max(s)} \in SUBSET (1..k) /\ s \ {Max(s)} \in SUBSET (1..(k + 1))
            /\ k + 1 \notin s \ {Max(s)}
        BY <1>2, <4>1, <3>2
      <4>3. h[s \ {Max(s)}] = g[s \ {Max(s)}]
        BY <4>2
      <4>4. h[s] = g[s]
        BY <3>2
      <4>5. g[s] = Turn(g, s, q, p)
        BY <2>1, <4>1 DEF Turns
      <4> HIDE DEF h
      <4> QED BY <4>3, <4>4, <4>5 DEF Turn
    <3> QED BY <3>1, <3>2
  <2>3. h = [s \in SUBSET (1..(k + 1)) |-> h[s]]
    OBVIOUS
  <2>4. k + 1 \in 0..n
    BY <1>2
  <2> HIDE DEF h
  <2>5. Turns(h, k + 1, q, p)
    BY <2>2, <2>3 DEF Turns
  <2> QED BY <2>4, <2>5
<1>3. n \in 0..n
  OBVIOUS
<1> HIDE DEF I
<1>4. n \in I
  BY <1>1, <1>2, <1>3, UpTo
<1> QED BY <1>4 DEF I

Loop(q, p) == FoldLeft(LAMBDA s, line : AddLine(s, line, p), None, q)

(* The loop takes the lines one after the other, from the first.           *)
LEMMA LoopIs ==
  ASSUME NEW n \in Nat, NEW p
  PROVE  \E f : /\ f[0] = None /\ \A i \in 1..n : f[i] = AddLine(f[i - 1], i, p)
                /\ Loop([i \in 1..n |-> i], p) = f[n]
<1> DEFINE q == [i \in 1..n |-> i]
           it == CHOOSE g : Turns(g, n, q, p)
<1>1. Turns(it, n, q, p)
  BY TurnsExist
<1>2. DOMAIN q = 1..n /\ \A i \in 1..n : q[i] = i
  OBVIOUS
<1>3. Loop(q, p) = it[1..n]
  <2> HIDE DEF q
  <2> QED BY <1>2 DEF Loop, FoldLeft, MapThenFoldSet, Turns, Turn
<1> HIDE DEF it, q
<1>4. \A s \in SUBSET (1..n) : it[s] = Turn(it, s, q, p)
  BY <1>1 DEF Turns
<1> DEFINE f == [i \in 0..n |-> it[1..i]]
<1>5. f[0] = None
  <2>1. 1..0 = {} /\ {} \in SUBSET (1..n) /\ 0 \in 0..n
    OBVIOUS
  <2>2. it[{}] = None
    BY <1>4, <2>1 DEF Turn
  <2> QED BY <2>1, <2>2
<1>6. ASSUME NEW i \in 1..n PROVE f[i] = AddLine(f[i - 1], i, p)
  <2>1. /\ i \in 1..i /\ 1..i \in SUBSET (1..n) /\ (1..i) \ {i} = 1..(i - 1)
        /\ i \in 0..n /\ i - 1 \in 0..n
        /\ \A y \in 1..i : i >= y
        /\ \A x \in 1..i : x >= i => x = i
    OBVIOUS
  <2>2. Max(1..i) = i
    BY <2>1 DEF Max
  <2>3. it[1..i] = AddLine(it[1..(i - 1)], i, p)
    BY <1>2, <1>4, <2>1, <2>2 DEF Turn
  <2> QED BY <2>1, <2>3
<1>7. f[n] = it[1..n]
  OBVIOUS
<1> HIDE DEF f
<1>8. /\ f[0] = None /\ \A i \in 1..n : f[i] = AddLine(f[i - 1], i, p)
      /\ Loop(q, p) = f[n]
  BY <1>3, <1>5, <1>6, <1>7
<1> QED BY <1>8 DEF q

(* A turn adds its line to what there is, whether or not a chunk is full.  *)
Progress(st, i) ==
  /\ st \in [result : Seq(Seq(Nat)), chunk : Seq(Nat)]
  /\ FlattenSeq(st.result) \o st.chunk = Id(i)

(* One line more, in its place.                                            *)
LEMMA IdGrows == ASSUME NEW i \in Nat PROVE Append(Id(i), i + 1) = Id(i + 1)
BY DEF Id

(* What the loop of SplitByLines keeps.                                    *)
LEMMA AddLineKeeps ==
  ASSUME NEW i \in Nat, NEW st, Progress(st, i), NEW p
  PROVE  Progress(AddLine(st, i + 1, p), i + 1)
<1> DEFINE C == st.result
           c == st.chunk
           d == Append(c, i + 1)
           u == AddLine(st, i + 1, p)
<1>1. st = [result |-> C, chunk |-> c] /\ C \in Seq(Seq(Nat)) /\ c \in Seq(Nat)
      /\ FlattenSeq(C) \o c = Id(i)
  BY DEF Progress
<1>2. u = IF Len(d) = p THEN [result |-> Append(C, d), chunk |-> <<>>]
          ELSE [result |-> C, chunk |-> d]
  <2> HIDE DEF d
  <2>1. \A R, Q, x : st \in [result : R, chunk : Q]
                    => [st EXCEPT !.chunk = x] = [result |-> st.result, chunk |-> x]
    OBVIOUS
  <2>2. [st EXCEPT !.chunk = d] = [result |-> C, chunk |-> d]
    BY <2>1 DEF Progress
  <2> QED BY <2>2 DEF AddLine, d
<1> HIDE DEF C, c, u
<1>3. d \in Seq(Nat) /\ i + 1 \in Nat /\ <<>> \in Seq(Nat)
  BY <1>1
<1>4. FlattenSeq(C) \in Seq(Nat) /\ FlattenSeq(Append(C, d)) = FlattenSeq(C) \o d
  BY <1>1, <1>3, FlattenAppend
<1>5. FlattenSeq(C) \o d = Id(i + 1)
  <2>1. FlattenSeq(C) \o d = Append(FlattenSeq(C) \o c, i + 1)
    <3> DEFINE F == FlattenSeq(C)
    <3> HIDE DEF F
    <3>1. F \in Seq(Nat)
      BY <1>4 DEF F
    <3>2. F \o Append(c, i + 1) = Append(F \o c, i + 1)
      BY <1>1, <1>3, <3>1
    <3> QED BY <3>2 DEF F
  <2> QED BY <1>1, <2>1, IdGrows
<1> HIDE DEF d
<1>6. Append(C, d) \in Seq(Seq(Nat))
  <2> DEFINE Q == Seq(Nat)
  <2>1. d \in Q /\ C \in Seq(Q)
    BY <1>1, <1>3
  <2> HIDE DEF Q
  <2>2. Append(C, d) \in Seq(Q)
    BY <2>1
  <2> QED BY <2>2 DEF Q
<1>7. CASE Len(d) = p
  <2>1. u = [result |-> Append(C, d), chunk |-> <<>>]
    BY <1>2, <1>7
  <2>2. FlattenSeq(Append(C, d)) \o <<>> = Id(i + 1)
    <3>1. FlattenSeq(C) \o d \in Seq(Nat)
      BY <1>3, <1>4
    <3>2. FlattenSeq(Append(C, d)) \in Seq(Nat)
      BY <1>4, <3>1
    <3>3. \A F \in Seq(Nat) : F \o <<>> = F
      OBVIOUS
    <3> QED BY <1>4, <1>5, <3>2, <3>3
  <2>3. u.result = Append(C, d) /\ u.chunk = <<>>
        /\ u \in [result : Seq(Seq(Nat)), chunk : Seq(Nat)]
    BY <1>3, <1>6, <2>1
  <2> QED BY <2>2, <2>3 DEF Progress, u
<1>8. CASE Len(d) # p
  <2>1. u = [result |-> C, chunk |-> d]
    BY <1>2, <1>8
  <2>2. u.result = C /\ u.chunk = d /\ u \in [result : Seq(Seq(Nat)), chunk : Seq(Nat)]
    BY <1>1, <1>3, <2>1
  <2> QED BY <1>5, <2>2 DEF Progress, u
<1> QED BY <1>7, <1>8

(* SplitByLines cuts, and neither drops a line nor changes their order.    *)
LEMMA SplitKeepsLines ==
  ASSUME NEW n \in Nat, NEW p
  PROVE  SplitByLines(n, p) \in Seq(Seq(Nat)) /\ FlattenSeq(SplitByLines(n, p)) = Id(n)
<1>1. PICK f : /\ f[0] = None /\ \A i \in 1..n : f[i] = AddLine(f[i - 1], i, p)
               /\ Loop([i \in 1..n |-> i], p) = f[n]
  BY LoopIs
<1> DEFINE I == {i \in 0..n : Progress(f[i], i)}
<1>2. 0 \in I
  <2>1. Id(0) = <<>> /\ FlattenSeq(<<>>) = <<>> /\ <<>> \o <<>> = <<>>
    BY FlattenEmpty DEF Id
  <2>2. <<>> \in Seq(Nat) /\ <<>> \in Seq(Seq(Nat))
    OBVIOUS
  <2>3. Progress(None, 0)
    BY <2>1, <2>2 DEF Progress, None
  <2> QED BY <1>1, <2>3
<1>3. ASSUME NEW i \in 0..n-1, i \in I PROVE i + 1 \in I
  <2>1. i + 1 \in 1..n /\ i + 1 \in 0..n /\ (i + 1) - 1 = i /\ i \in Nat
    BY <1>3
  <2>2. f[i + 1] = AddLine(f[i], i + 1, p)
    BY <1>1, <2>1
  <2>3. Progress(f[i + 1], i + 1)
    BY <1>3, <2>1, <2>2, AddLineKeeps
  <2> QED BY <2>1, <2>3
<1> HIDE DEF I
<1>4. n \in I
  BY <1>2, <1>3, UpTo
<1>5. Progress(f[n], n)
  BY <1>4 DEF I
<1> DEFINE C == f[n].result
           c == f[n].chunk
<1>6. SplitByLines(n, p) = IF c = <<>> THEN C ELSE Append(C, c)
  BY <1>1 DEF SplitByLines, Loop, None
<1>7. C \in Seq(Seq(Nat)) /\ c \in Seq(Nat) /\ FlattenSeq(C) \o c = Id(n)
  BY <1>5 DEF Progress
<1> HIDE DEF C, c
<1>8. FlattenSeq(C) \in Seq(Nat) /\ FlattenSeq(Append(C, c)) = FlattenSeq(C) \o c
  BY <1>7, FlattenAppend
<1>9. CASE c = <<>>
  <2>1. \A F \in Seq(Nat) : F \o <<>> = F
    OBVIOUS
  <2> QED BY <1>6, <1>7, <1>8, <1>9, <2>1
<1>10. CASE c # <<>>
  <2> DEFINE Q == Seq(Nat)
  <2>1. c \in Q /\ C \in Seq(Q)
    BY <1>7
  <2> HIDE DEF Q
  <2>2. Append(C, c) \in Seq(Q)
    BY <2>1
  <2> QED BY <1>6, <1>7, <1>8, <1>10, <2>2 DEF Q
<1> QED BY <1>9, <1>10
-----------------------------------------------------------------------------
(* The output as a whole. *)

(* A sequence that goes up and has all numbers from 1 to n is Id(n).       *)
LEMMA RisingIsId ==
  ASSUME NEW n \in Nat, NEW s \in Seq(1..n),
         \A i, j \in DOMAIN s : i < j => s[i] < s[j],
         \A m \in 1..n : \E i \in DOMAIN s : s[i] = m
  PROVE  s = Id(n)
<1> DEFINE k == Len(s)
           I == {i \in 0..k : \A j \in 1..i : s[j] = j}
<1>1. k \in Nat /\ DOMAIN s = 1..k /\ \A i \in 1..k : s[i] \in 1..n
  OBVIOUS
<1>2. s = [i \in 1..k |-> s[i]]
  BY <1>1
<1> HIDE DEF k
<1>3. ASSUME NEW i \in 0..k-1, i \in I PROVE i + 1 \in I
  <2>1. i + 1 \in 1..k /\ i + 1 \in 0..k /\ i \in Nat /\ s[i + 1] \in 1..n
        /\ \A j \in 1..i : j \in 1..k /\ s[j] = j /\ j < i + 1
    BY <1>1, <1>3
  <2>2. s[i + 1] >= i + 1
    <3>1. CASE i = 0
      BY <2>1, <3>1
    <3>2. CASE i # 0
      <4>1. i \in 1..i
        BY <2>1, <3>2
      <4>2. s[i] < s[i + 1] /\ s[i] = i
        BY <1>1, <2>1, <4>1
      <4> QED BY <2>1, <4>2
    <3> QED BY <3>1, <3>2
  <2>3. i + 1 \in 1..n
    BY <2>1, <2>2
  <2>4. PICK j \in 1..k : s[j] = i + 1
    BY <1>1, <2>3
  <2>5. ~(j < i + 1)
    <3> SUFFICES ASSUME j < i + 1 PROVE FALSE
      OBVIOUS
    <3>1. j \in 1..i
      BY <2>1
    <3> QED BY <2>1, <2>4, <3>1
  <2>6. ~(i + 1 < j)
    <3> SUFFICES ASSUME i + 1 < j PROVE FALSE
      OBVIOUS
    <3>1. s[i + 1] < s[j]
      BY <1>1, <2>1
    <3> QED BY <2>1, <2>2, <2>4, <3>1
  <2>7. s[i + 1] = i + 1
    <3>1. j = i + 1
      BY <2>1, <2>5, <2>6
    <3> QED BY <2>4, <3>1
  <2>8. \A m \in 1..(i + 1) : m \in 1..i \/ m = i + 1
    BY <2>1
  <2> QED BY <2>1, <2>7, <2>8
<1>4. 0 \in I /\ k \in 0..k
  BY <1>1
<1> HIDE DEF I
<1>5. k \in I
  BY <1>1, <1>3, <1>4, UpTo
<1>6. \A j \in 1..k : s[j] = j
  BY <1>5 DEF I
<1>7. k = n
  <2>1. k <= n
    <3>1. CASE k = 0
      BY <3>1
    <3>2. CASE k # 0
      <4>1. k \in 1..k
        BY <1>1, <3>2
      <4>2. s[k] = k /\ s[k] \in 1..n
        BY <1>1, <1>6, <4>1
      <4> QED BY <4>2
    <3> QED BY <3>1, <3>2
  <2>2. n <= k
    <3>1. CASE n = 0
      BY <1>1, <3>1
    <3>2. CASE n # 0
      <4>1. n \in 1..n
        BY <3>2
      <4>2. PICK j \in 1..k : s[j] = n
        BY <1>1, <4>1
      <4>3. j = n
        BY <1>6, <4>2
      <4> QED BY <4>2, <4>3
    <3> QED BY <3>1, <3>2
  <2> QED BY <1>1, <2>1, <2>2
<1> QED BY <1>2, <1>6, <1>7 DEF Id

(* When every Send has returned true, every line is printed, and unless a  *)
(* connection broke each once and in order: SplitByLines drops nothing,    *)
(* the last short chunk included, and no message is lost or printed twice  *)
(* (helpers.cc:17-41, sender_client.cc:58-73).                             *)
THEOREM AllTrueIsComplete == Spec => []AllTrueMeansComplete
<1>1. Init => Unbroken
  BY DEF Init, Unbroken
<1>2. IInv /\ Unbroken => AllTrueMeansComplete
  <2> SUFFICES ASSUME IInv, Unbroken, \A m \in Messages : result[m] = "true"
               PROVE  LET printed == FlattenSeq([i \in DOMAIN log |-> Payload[log[i]]])
                      IN  /\ {printed[i] : i \in DOMAIN printed} = 1..Lines
                          /\ breaks = 0 => printed = [i \in 1..Lines |-> i]
    BY DEF AllTrueMeansComplete
  <2> DEFINE chunks == [i \in DOMAIN log |-> Payload[log[i]]]
             M == Len(Payload)
  <2>1. Payload \in Seq(Seq(Nat)) /\ FlattenSeq(Payload) = Id(Lines)
    BY TransferAssumption, SplitKeepsLines DEF Payload
  <2>2. /\ M \in Nat /\ Messages = 1..M /\ Payload = [m \in 1..M |-> Payload[m]]
        /\ \A m \in 1..M : Payload[m] \in Seq(Nat)
    <3> DEFINE Q == Seq(Nat)
    <3>1. Payload \in Seq(Q)
      BY <2>1
    <3> HIDE DEF Q
    <3>2. /\ Len(Payload) \in Nat /\ DOMAIN Payload = 1..Len(Payload)
          /\ Payload = [m \in 1..Len(Payload) |-> Payload[m]]
          /\ \A m \in 1..Len(Payload) : Payload[m] \in Q
      BY <3>1
    <3> QED BY <3>2 DEF Q, Messages
  <2> HIDE DEF M
  <2>3. log \in Seq(1..M) /\ Len(log) \in Nat /\ DOMAIN log = 1..Len(log)
        /\ \A i \in DOMAIN log : log[i] \in 1..M
    <3>1. log \in Seq(1..M)
      BY <2>2 DEF IInv, TypeOK
    <3> QED BY <3>1, SeqFacts
  <2>4. \A m \in 1..M : \E i \in DOMAIN log : log[i] = m
    BY <2>2, <2>3, TimesNat DEF IInv, SuccessPrinted
  <2>5. chunks \in Seq(Seq(Nat)) /\ DOMAIN chunks = DOMAIN log
        /\ \A i \in DOMAIN log : chunks[i] = Payload[log[i]]
    <3> DEFINE Q == Seq(Nat)
    <3>1. \A i \in 1..Len(log) : Payload[log[i]] \in Q
      BY <2>2, <2>3
    <3> HIDE DEF Q
    <3>2. [i \in 1..Len(log) |-> Payload[log[i]]] \in Seq(Q)
      BY <2>3, <3>1
    <3> QED BY <2>3, <3>2 DEF Q
  <2> HIDE DEF chunks
  <2>6. Elements(FlattenSeq(chunks)) = 1..Lines
    <3>1. Elements(FlattenSeq(chunks)) = UNION {Elements(chunks[i]) : i \in DOMAIN chunks}
      BY <2>5, FlattenElements
    <3>2. Elements(Id(Lines)) = UNION {Elements(Payload[m]) : m \in DOMAIN Payload}
      BY <2>1, FlattenElements
    <3>3. /\ \A i \in DOMAIN chunks : \E m \in DOMAIN Payload : chunks[i] = Payload[m]
          /\ \A m \in DOMAIN Payload : \E i \in DOMAIN chunks : chunks[i] = Payload[m]
      <4>1. DOMAIN Payload = 1..M
        BY <2>2 DEF Messages
      <4> QED BY <2>3, <2>4, <2>5, <4>1
    <3>4. {Elements(chunks[i]) : i \in DOMAIN chunks}
            = {Elements(Payload[m]) : m \in DOMAIN Payload}
      BY <3>3
    <3>5. Elements(Id(Lines)) = 1..Lines
      BY DEF Elements, Id
    <3> QED BY <3>1, <3>2, <3>4, <3>5
  <2>7. breaks = 0 => FlattenSeq(chunks) = Id(Lines)
    <3> SUFFICES ASSUME breaks = 0 PROVE FlattenSeq(chunks) = Id(Lines)
      OBVIOUS
    <3>1. \A i, j \in DOMAIN log : i < j => log[i] < log[j]
      BY OnceInOrder DEF EachOnceInOrder
    <3>2. log = Id(M)
      BY <2>2, <2>3, <2>4, <3>1, RisingIsId
    <3>3. DOMAIN log = 1..M /\ \A i \in 1..M : log[i] = i
      BY <3>2 DEF Id
    <3>4. chunks = Payload
      BY <2>2, <3>3 DEF chunks
    <3> QED BY <2>1, <3>4
  <2> QED BY <2>6, <2>7 DEF Elements, Id, chunks
<1>3. IInv => TypeOK
  BY DEF IInv
<1> QED BY <1>1, <1>2, <1>3, UnbrokenStep, Invariance, PTL DEF Spec

-----------------------------------------------------------------------------
(* The log filter, whose output is what the sender cuts into chunks.       *)
\* The filter f means what the configuration c says, and c means something.
Faithful(f, c) ==
    /\ \A ip \in Address : MatchesOne(f, ip) <=> Means(c, ip)
    /\ \E ip \in Address : Means(c, ip)

\* The numbers of the lines in a sequence go up.
Rising(s) == \A i, j \in DOMAIN s : i < j => s[i] < s[j]

-----------------------------------------------------------------------------
(* Sequences.                                                              *)

LEMMA Appended ==
    ASSUME NEW S, NEW s \in Seq(S), NEW x \in S
    PROVE  /\ Append(s, x) \in Seq(S) /\ Len(s) \in Nat
           /\ Len(Append(s, x)) = Len(s) + 1
           /\ DOMAIN s = 1 .. Len(s) /\ DOMAIN Append(s, x) = 1 .. (Len(s) + 1)
           /\ \A i \in 1 .. Len(s) : Append(s, x)[i] = s[i]
           /\ Append(s, x)[Len(s) + 1] = x
OBVIOUS

LEMMA Joined ==
    ASSUME NEW S, NEW s \in Seq(S), NEW t \in Seq(S)
    PROVE  /\ s \o t \in Seq(S) /\ Len(s) \in Nat /\ Len(t) \in Nat
           /\ DOMAIN s = 1 .. Len(s) /\ DOMAIN t = 1 .. Len(t)
           /\ DOMAIN (s \o t) = 1 .. (Len(s) + Len(t))
           /\ \A i \in 1 .. Len(s) : (s \o t)[i] = s[i]
           /\ \A i \in 1 .. Len(t) : (s \o t)[Len(s) + i] = t[i]
           /\ \A i \in (Len(s) + 1) .. (Len(s) + Len(t)) :
                i - Len(s) \in 1 .. Len(t) /\ (s \o t)[i] = t[i - Len(s)]
OBVIOUS

LEMMA FirstLines ==
    ASSUME NEW S, NEW s \in Seq(S), NEW n \in 0 .. Len(s)
    PROVE  /\ SubSeq(s, 1, n) \in Seq(S) /\ Len(SubSeq(s, 1, n)) = n
           /\ \A i \in 1 .. n : SubSeq(s, 1, n)[i] = s[i]
OBVIOUS

\* Rising sequences of which the second starts above the first.
LEMMA JoinedRising ==
    ASSUME NEW s \in Seq(1 .. MaxLines), NEW t \in Seq(1 .. MaxLines), Rising(s), Rising(t),
           \A i \in DOMAIN s, j \in DOMAIN t : s[i] < t[j]
    PROVE  Rising(s \o t)
<1> DEFINE u == s \o t
<1>0. /\ Len(s) \in Nat /\ Len(t) \in Nat
      /\ DOMAIN s = 1 .. Len(s) /\ DOMAIN t = 1 .. Len(t)
      /\ DOMAIN u = 1 .. (Len(s) + Len(t))
      /\ \A i \in 1 .. Len(s) : u[i] = s[i]
      /\ \A i \in (Len(s) + 1) .. (Len(s) + Len(t)) :
           i - Len(s) \in 1 .. Len(t) /\ u[i] = t[i - Len(s)]
  BY Joined
<1> HIDE DEF u
<1>1. ASSUME NEW i \in DOMAIN u, NEW j \in DOMAIN u, i < j
      PROVE  u[i] < u[j]
  <2>1. CASE j <= Len(s)
    <3>1. i \in DOMAIN s /\ j \in DOMAIN s /\ u[i] = s[i] /\ u[j] = s[j]
      BY <1>0, <1>1, <2>1
    <3> QED BY <1>1, <3>1 DEF Rising
  <2>2. CASE i > Len(s)
    <3> DEFINE k == i - Len(s)
               l == j - Len(s)
    <3>0. /\ i \in (Len(s) + 1) .. (Len(s) + Len(t))
          /\ j \in (Len(s) + 1) .. (Len(s) + Len(t)) /\ k < l
      <4> HIDE DEF Rising
      <4>1. i \in Int /\ j \in Int
        BY <1>0, <1>1
      <4> QED BY <1>0, <1>1, <2>2, <4>1
    <3>1. /\ k \in DOMAIN t /\ l \in DOMAIN t /\ u[i] = t[k] /\ u[j] = t[l]
          /\ k < l
      BY <1>0, <3>0
    <3> HIDE DEF k, l
    <3> QED BY <3>1 DEF Rising
  <2>3. CASE i <= Len(s) /\ j > Len(s)
    <3>0. i \in 1 .. Len(s) /\ j \in (Len(s) + 1) .. (Len(s) + Len(t))
      BY <1>0, <1>1, <2>3
    <3>1. /\ i \in DOMAIN s /\ u[i] = s[i]
          /\ j - Len(s) \in DOMAIN t /\ u[j] = t[j - Len(s)]
      BY <1>0, <3>0
    <3> QED BY <3>1
  <2> QED BY <1>0, <1>1, <2>1, <2>2, <2>3
<1> QED BY <1>1 DEF Rising, u

-----------------------------------------------------------------------------
(* Filters.                                                                *)

LEMMA LessIrreflexive == ASSUME NEW a PROVE ~Less(a, a)
BY DEF Less

\* The mask has the first bits, all of them and none of them included.
LEMMA MaskIs ==
    ASSUME NEW prefix \in Int, IsValidCIDRPrefix(prefix)
    PROVE  MaskOf(prefix) = {b \in Bits : b >= Width - prefix}
BY FilterAssumption DEF IsValidCIDRPrefix, MaskOf, ShiftLeft, Bits

LEMMA SubnetFaithful ==
    ASSUME NEW c \in SubnetConfig, NEW f \in CreateSubnet(c)
    PROVE  f \in Filter /\ Faithful(f, c)
<1>1. /\ c.addr \in Address /\ c.type = "subnet"
      /\ c.prefix \in Int /\ IsValidCIDRPrefix(c.prefix)
      /\ f = [type |-> "subnet", mask |-> MaskOf(c.prefix),
              network |-> c.addr \cap MaskOf(c.prefix)]
  BY FilterAssumption DEF SubnetConfig, CreateSubnet, Parsed
<1> DEFINE mask == {b \in Bits : b >= Width - c.prefix}
<1>2. f.type = "subnet" /\ f.mask = mask /\ f.network = c.addr \cap mask
  BY <1>1, MaskIs
<1>3. f \in Filter
  BY <1>1, <1>2 DEF Filter, Address
<1>4. ASSUME NEW ip \in Address  PROVE MatchesOne(f, ip) <=> Means(c, ip)
  <2>1. MatchesOne(f, ip) <=> ip \cap mask = c.addr \cap mask
    BY <1>2 DEF MatchesOne
  <2>2. ip \cap mask = c.addr \cap mask
          <=> \A b \in Bits : b >= Width - c.prefix => (b \in ip <=> b \in c.addr)
    BY <1>1 DEF Address
  <2> QED BY <1>1, <2>1, <2>2 DEF Means
<1>5. Means(c, c.addr)
  BY <1>1 DEF Means
<1> QED BY <1>1, <1>3, <1>4, <1>5 DEF Faithful

LEMMA RangeFaithful ==
    ASSUME NEW c \in RangeConfig, NEW f \in CreateRange(c)
    PROVE  f \in Filter /\ Faithful(f, c)
<1>1. /\ c.left \in Address /\ c.right \in Address /\ c.type = "range"
      /\ ~Less(c.right, c.left)
      /\ f = [type |-> "range", left |-> c.left, right |-> c.right]
  BY FilterAssumption DEF RangeConfig, CreateRange, Parsed, IsValidRange
<1>2. f.type = "range" /\ f.left = c.left /\ f.right = c.right /\ f \in Filter
  BY <1>1 DEF Filter
<1>3. ASSUME NEW ip \in Address  PROVE MatchesOne(f, ip) <=> Means(c, ip)
  BY <1>1, <1>2, LessIrreflexive DEF MatchesOne, Clamp, Means
<1>4. Means(c, c.left)
  BY <1>1, LessIrreflexive DEF Means
<1> QED BY <1>1, <1>2, <1>3, <1>4 DEF Faithful

\* Whatever CreateFilter takes, it makes the filter that the text means.
LEMMA FilterFaithful ==
    ASSUME NEW c \in Config, NEW f \in FilterFor(c)
    PROVE  f \in Filter /\ Faithful(f, c)
<1>1. CASE c.type = "subnet"
  <2>1. c \in SubnetConfig /\ f \in CreateSubnet(c)
    BY <1>1 DEF Config, SubnetConfig, RangeConfig, FilterFor
  <2> QED BY <2>1, SubnetFaithful
<1>2. CASE c.type = "range"
  <2>1. c \in RangeConfig /\ f \in CreateRange(c)
    BY <1>2 DEF Config, SubnetConfig, RangeConfig, FilterFor
  <2> QED BY <2>1, RangeFaithful
<1> QED BY <1>1, <1>2 DEF FilterFor

-----------------------------------------------------------------------------
(* The inductive invariant.                                                *)

\* One filter for each configuration.
Filters ==
    /\ Len(filters) = Len(configs) /\ Len(configs) <= MaxFilters
    /\ \A i \in 1 .. Len(configs) : Faithful(filters[i], configs[i])

\* Nothing is read before the filters are complete, and the buffer is empty
\* where Process begins and ends.
Phases ==
    /\ pc \in {"configure", "refused"} => input = <<>> /\ output = <<>>
    /\ pc \in {"configure", "refused", "done"} => buffer = <<>>
    /\ pc = "read" /\ BatchSize > 0 => Len(buffer) < BatchSize

\* What is written and buffered are the wanted lines in their order, all of
\* them as long as the stream is good.
Output ==
    /\ Rising(output) /\ Rising(buffer)
    /\ \A m \in Written, n \in Buffered : m < n
    /\ Written \cup Buffered \subseteq WantedLines
    /\ good => WantedLines \subseteq Written \cup Buffered
    /\ \A n \in WantedLines \ Written, m \in Written : m < n

Lengths == Len(input) <= MaxLines

FilterInv == FTypeOK /\ Filters /\ Phases /\ Output /\ Lengths

LEMMA FilterInit == FInit => FilterInv
<1> SUFFICES ASSUME FInit PROVE FilterInv
  OBVIOUS
<1>1. FTypeOK /\ Filters /\ Lengths
  BY FilterAssumption DEF FInit, FTypeOK, Filters, Lengths
<1>2. Phases
  BY DEF FInit, Phases
<1>3. Output
  BY DEF FInit, Output, Rising, Written, Buffered, WantedLines
<1> QED BY <1>1, <1>2, <1>3 DEF FilterInv

LEMMA AddFilterStep ==
    ASSUME FilterInv, NEW c \in Config, AddFilter(c)
    PROVE  FilterInv'
<1> PICK f \in FilterFor(c) : filters' = Append(filters, f)
  BY DEF AddFilter
<1>1. /\ pc = "configure" /\ Len(filters) < MaxFilters
      /\ configs' = Append(configs, c)
      /\ pc' = pc /\ input' = input /\ buffer' = buffer /\ output' = output /\ good' = good
  BY DEF AddFilter
<1>2. f \in Filter /\ Faithful(f, c)
  BY FilterFaithful
<1>3. /\ configs \in Seq(Config) /\ filters \in Seq(Filter) /\ FTypeOK
      /\ input = <<>> /\ output = <<>> /\ buffer = <<>>
  BY <1>1 DEF FilterInv, FTypeOK, Phases
<1>4. FTypeOK'
  BY <1>1, <1>2, <1>3 DEF FTypeOK
<1>5. Filters'
  <2>1. /\ Len(configs') = Len(configs) + 1 /\ Len(filters') = Len(filters) + 1
        /\ Len(configs) \in Nat
        /\ \A i \in 1 .. Len(configs) :
             configs'[i] = configs[i] /\ filters'[i] = filters[i]
        /\ configs'[Len(configs) + 1] = c /\ filters'[Len(filters) + 1] = f
    <3>1. /\ Len(configs') = Len(configs) + 1 /\ Len(configs) \in Nat
          /\ \A i \in 1 .. Len(configs) : configs'[i] = configs[i]
          /\ configs'[Len(configs) + 1] = c
      BY <1>1, <1>3, Appended
    <3>2. /\ Len(filters') = Len(filters) + 1
          /\ \A i \in 1 .. Len(filters) : filters'[i] = filters[i]
          /\ filters'[Len(filters) + 1] = f
      BY <1>2, <1>3, Appended
    <3>3. Len(filters) = Len(configs)
      BY DEF FilterInv, Filters
    <3> QED BY <3>1, <3>2, <3>3
  <2>2. /\ Len(filters) = Len(configs)
        /\ \A i \in 1 .. Len(configs) : Faithful(filters[i], configs[i])
    BY DEF FilterInv, Filters
  <2>3. Len(configs') <= MaxFilters
    BY <1>1, <2>1, <2>2, FilterAssumption
  <2>4. \A i \in 1 .. Len(configs') : Faithful(filters'[i], configs'[i])
    BY <1>2, <2>1, <2>2
  <2> QED BY <2>1, <2>2, <2>3, <2>4 DEF Filters
<1>6. Phases' /\ Lengths'
  BY <1>1, <1>3 DEF FilterInv, Phases, Lengths
<1>7. Output'
  BY <1>1, <1>3 DEF Output, Rising, Written, Buffered, WantedLines
<1> QED BY <1>4, <1>5, <1>6, <1>7 DEF FilterInv

\* What is left alone while lines are read and written.
LEMMA WantedKept ==
    ASSUME UNCHANGED <<configs, filters>>
    PROVE  /\ Filters => Filters'
           /\ input' = input => WantedLines' = WantedLines
BY DEF Filters, WantedLines

LEMMA FilterQuietStep ==
    ASSUME FilterInv,
           (\E c \in Config : Refuse(c)) \/ StartProcess \/ EndOfInput
    PROVE  FilterInv'
<1>1. UNCHANGED <<configs, filters, input, buffer, output, good>>
  BY DEF Refuse, StartProcess, EndOfInput
<1>2. FTypeOK' /\ Lengths'
  BY <1>1 DEF FilterInv, FTypeOK, Lengths, Refuse, StartProcess, EndOfInput
<1>3. Filters' /\ Output'
  BY <1>1, WantedKept DEF FilterInv, Output, Rising, Written, Buffered
<1>4. Phases'
  BY <1>1, FilterAssumption DEF FilterInv, Phases, Refuse, StartProcess, EndOfInput
<1> QED BY <1>2, <1>3, <1>4 DEF FilterInv

\* A line that passes is one that is wanted.
LEMMA PassesIfWanted ==
    ASSUME FilterInv, NEW ip \in Address
    PROVE  Matches(ip) <=> \E i \in DOMAIN configs : Means(configs[i], ip)
<1>1. DOMAIN configs = 1 .. Len(configs) /\ DOMAIN filters = 1 .. Len(configs)
  BY DEF FilterInv, FTypeOK, Filters
<1> QED BY <1>1 DEF FilterInv, Filters, Faithful, Matches

LEMMA ReadLineStep ==
    ASSUME FilterInv,
           NEW ip \in LineAddress \cup {NoAddress}, ReadLine(ip)
    PROVE  FilterInv'
<1> DEFINE n == Len(input) + 1
           wanted == ip # NoAddress /\ Matches(ip)
<1>1. /\ pc = "read" /\ Len(input) < MaxLines /\ input' = Append(input, ip)
      /\ UNCHANGED <<configs, filters, output, good>>
  BY DEF ReadLine
<1>2. /\ input \in Seq(LineAddress \cup {NoAddress}) /\ Len(input) \in Nat /\ FTypeOK
      /\ buffer \in Seq(1 .. MaxLines) /\ output \in Seq(1 .. MaxLines)
  BY DEF FilterInv, FTypeOK
<1>3. /\ n \in 1 .. MaxLines /\ Len(input') = n /\ DOMAIN input' = DOMAIN input \cup {n}
      /\ n \notin DOMAIN input /\ input'[n] = ip
      /\ \A k \in DOMAIN input : input'[k] = input[k] /\ k < n
  BY <1>1, <1>2, FilterAssumption
<1> HIDE DEF n
<1>4. /\ buffer' = IF wanted THEN Append(buffer, n) ELSE buffer
      /\ pc' = IF Len(buffer') >= BatchSize THEN "flush" ELSE "read"
  BY <1>3 DEF ReadLine
<1>5. wanted <=> ip # NoAddress /\ \E i \in DOMAIN configs : Means(configs[i], ip)
  <2>1. ip # NoAddress => ip \in Address
    BY FilterAssumption
  <2> QED BY <2>1, PassesIfWanted
<1>6. WantedLines' = WantedLines \cup (IF wanted THEN {n} ELSE {})
  BY <1>1, <1>3, <1>5 DEF WantedLines
<1> HIDE DEF wanted
<1>7. Buffered' = Buffered \cup (IF wanted THEN {n} ELSE {}) /\ Written' = Written
  <2>1. CASE wanted
    <3>1. /\ Len(buffer) \in Nat /\ DOMAIN buffer = 1 .. Len(buffer)
          /\ DOMAIN buffer' = 1 .. (Len(buffer) + 1)
          /\ \A i \in 1 .. Len(buffer) : buffer'[i] = buffer[i]
          /\ buffer'[Len(buffer) + 1] = n
      BY <1>2, <1>3, <1>4, <2>1
    <3> QED BY <1>1, <2>1, <3>1 DEF Buffered, Written
  <2> QED BY <1>1, <1>4, <2>1 DEF Buffered, Written
<1>8. WantedLines \subseteq DOMAIN input /\ Written \cup Buffered \subseteq WantedLines
  BY DEF WantedLines, FilterInv, Output
<1>9. Rising(buffer')
  <2>1. CASE wanted
    <3>1. /\ Len(buffer) \in Nat /\ DOMAIN buffer = 1 .. Len(buffer)
          /\ DOMAIN buffer' = 1 .. (Len(buffer) + 1)
          /\ \A i \in 1 .. Len(buffer) : buffer'[i] = buffer[i]
          /\ buffer'[Len(buffer) + 1] = n
      BY <1>2, <1>3, <1>4, <2>1
    <3>2. \A i \in DOMAIN buffer : buffer[i] < n
      BY <1>3, <1>8 DEF Buffered
    <3> QED BY <3>1, <3>2 DEF Rising, FilterInv, Output
  <2> QED BY <1>4, <2>1 DEF Rising, FilterInv, Output
<1>10. Output'
  <2>1. Rising(output')
    BY <1>1 DEF FilterInv, Output
  <2>2. \A m \in Written', k \in Buffered' : m < k
    BY <1>3, <1>7, <1>8 DEF FilterInv, Output
  <2>3. Written' \cup Buffered' \subseteq WantedLines'
    BY <1>6, <1>7, <1>8
  <2>4. good' => WantedLines' \subseteq Written' \cup Buffered'
    BY <1>1, <1>6, <1>7 DEF FilterInv, Output
  <2>5. \A k \in WantedLines' \ Written', m \in Written' : m < k
    BY <1>3, <1>6, <1>7, <1>8 DEF FilterInv, Output
  <2> QED BY <1>9, <2>1, <2>2, <2>3, <2>4, <2>5 DEF Output, Rising
<1>11. buffer' \in Seq(1 .. MaxLines) /\ Len(buffer') \in Nat
  <2>1. CASE wanted
    BY <1>2, <1>3, <1>4, <2>1, Appended
  <2>2. CASE ~wanted
    <3>1. buffer' = buffer
      BY <1>4, <2>2
    <3> QED BY <1>2, <3>1
  <2> QED BY <2>1, <2>2
<1>12. FTypeOK' /\ Lengths'
  BY <1>1, <1>2, <1>3, <1>4, <1>11 DEF FTypeOK, Lengths
<1>13. Phases'
  BY <1>4, <1>11, FilterAssumption DEF Phases
<1>14. Filters'
  BY <1>1, WantedKept DEF FilterInv
<1> QED BY <1>10, <1>12, <1>13, <1>14 DEF FilterInv

LEMMA FlushStep ==
    ASSUME FilterInv, FlushBuffer
    PROVE  FilterInv'
<1>1. PICK n \in IF good THEN 0 .. Len(buffer) ELSE {0} :
        /\ output' = output \o SubSeq(buffer, 1, n)
        /\ good' = (good /\ n = Len(buffer))
  BY DEF FlushBuffer
<1>2. /\ pc \in {"flush", "end"} /\ buffer' = <<>>
      /\ pc' = IF pc = "end" THEN "done" ELSE "read"
      /\ UNCHANGED <<configs, filters, input>>
  BY DEF FlushBuffer
<1>3. /\ buffer \in Seq(1 .. MaxLines) /\ output \in Seq(1 .. MaxLines) /\ FTypeOK
      /\ Len(buffer) \in Nat /\ Len(output) \in Nat /\ n \in 0 .. Len(buffer)
      /\ good \in BOOLEAN
  BY DEF FilterInv, FTypeOK
<1> DEFINE front == SubSeq(buffer, 1, n)
           taken == {buffer[i] : i \in 1 .. n}
<1>4. /\ front \in Seq(1 .. MaxLines) /\ DOMAIN front = 1 .. n
      /\ \A i \in 1 .. n : front[i] = buffer[i]
      /\ DOMAIN buffer = 1 .. Len(buffer) /\ DOMAIN output = 1 .. Len(output)
      /\ 1 .. n \subseteq DOMAIN buffer
  <2>1. front \in Seq(1 .. MaxLines) /\ Len(front) = n
        /\ \A i \in 1 .. n : front[i] = buffer[i]
    BY <1>3, FirstLines
  <2> HIDE DEF front
  <2> QED BY <1>3, <2>1
<1>5. Written' = Written \cup taken /\ taken \subseteq Buffered
  <2> HIDE DEF front
  <2>1. Len(front) = n
    BY <1>3, <1>4
  <2>2. /\ DOMAIN output' = 1 .. (Len(output) + n)
        /\ \A i \in 1 .. Len(output) : output'[i] = output[i]
        /\ \A i \in 1 .. n : output'[Len(output) + i] = front[i]
        /\ \A i \in (Len(output) + 1) .. (Len(output) + n) :
             i - Len(output) \in 1 .. n /\ output'[i] = front[i - Len(output)]
    <3>1. output' = output \o front
      BY <1>1 DEF front
    <3>2. output \in Seq(1 .. MaxLines) /\ front \in Seq(1 .. MaxLines)
      BY <1>3, <1>4
    <3>3. /\ DOMAIN output' = 1 .. (Len(output) + Len(front))
          /\ \A i \in 1 .. Len(output) : output'[i] = output[i]
          /\ \A i \in 1 .. Len(front) : output'[Len(output) + i] = front[i]
          /\ \A i \in (Len(output) + 1) .. (Len(output) + Len(front)) :
               i - Len(output) \in 1 .. Len(front)
               /\ output'[i] = front[i - Len(output)]
      BY <3>1, <3>2, Joined
    <3> QED BY <2>1, <3>3
  <2>3. ASSUME NEW m \in Written'  PROVE m \in Written \cup taken
    <3>1. PICK i \in DOMAIN output' : m = output'[i]
      BY <2>3 DEF Written
    <3>2. CASE i \in 1 .. Len(output)
      BY <1>4, <2>2, <3>1, <3>2 DEF Written
    <3>3. CASE i \notin 1 .. Len(output)
      <4>1. i \in (Len(output) + 1) .. (Len(output) + n)
        BY <1>3, <2>2, <3>3
      <4> QED BY <1>4, <2>2, <3>1, <4>1
    <3> QED BY <3>2, <3>3
  <2>4. ASSUME NEW m \in Written  PROVE m \in Written'
    <3>1. PICK i \in 1 .. Len(output) : m = output[i]
      BY <1>4, <2>4 DEF Written
    <3>2. i \in DOMAIN output' /\ m = output'[i]
      BY <1>3, <2>2, <3>1
    <3> QED BY <3>2 DEF Written
  <2>5. ASSUME NEW m \in taken  PROVE m \in Written'
    <3>1. PICK i \in 1 .. n : m = buffer[i]
      BY <2>5
    <3>2. m = output'[Len(output) + i]
      BY <1>4, <2>2, <3>1
    <3>3. Len(output) + i \in 1 .. (Len(output) + n)
      BY <1>3
    <3> QED BY <2>2, <3>2, <3>3 DEF Written
  <2>6. taken \subseteq Buffered
    BY <1>4 DEF Buffered
  <2> HIDE DEF taken
  <2> QED BY <2>3, <2>4, <2>5, <2>6
<1>6. \A l \in Buffered \ taken, m \in taken : m < l
  <2> SUFFICES ASSUME NEW l \in Buffered \ taken, NEW m \in taken  PROVE m < l
    OBVIOUS
  <2>1. PICK j \in DOMAIN buffer : l = buffer[j]
    BY DEF Buffered
  <2>2. PICK i \in 1 .. n : m = buffer[i]
    OBVIOUS
  <2>3. i \in DOMAIN buffer /\ i < j
    BY <1>3, <1>4, <2>1, <2>2
  <2> QED BY <2>1, <2>2, <2>3 DEF FilterInv, Output, Rising
<1>7. Rising(output')
  <2> HIDE DEF front
  <2>1. Rising(output) /\ Rising(front)
    BY <1>3, <1>4 DEF FilterInv, Output, Rising
  <2>2. \A i \in DOMAIN output, j \in DOMAIN front : output[i] < front[j]
    BY <1>4 DEF FilterInv, Output, Written, Buffered
  <2>3. output' = output \o front
    BY <1>1 DEF front
  <2> QED BY <1>3, <1>4, <2>1, <2>2, <2>3, JoinedRising
<1>8. Buffered' = {} /\ Rising(buffer') /\ WantedLines' = WantedLines
  BY <1>2, WantedKept DEF Buffered, Rising
<1>9. good' => taken = Buffered
  BY <1>1, <1>4 DEF Buffered
<1>10. output' \in Seq(1 .. MaxLines)
  BY <1>1, <1>3, <1>4, Joined
<1> HIDE DEF taken, front
<1>11. Output'
  <2>1. /\ \A m \in Written, l \in Buffered : m < l
        /\ Written \cup Buffered \subseteq WantedLines
        /\ good => WantedLines \subseteq Written \cup Buffered
        /\ \A l \in WantedLines \ Written, m \in Written : m < l
    BY DEF FilterInv, Output
  <2>2. Written' \cup Buffered' \subseteq WantedLines'
    BY <1>5, <1>8, <2>1
  <2>3. good' => WantedLines' \subseteq Written' \cup Buffered'
    BY <1>1, <1>5, <1>8, <1>9, <2>1
  <2>4. \A l \in WantedLines' \ Written', m \in Written' : m < l
    <3>1. CASE good
      BY <1>5, <1>6, <1>8, <2>1, <3>1
    <3>2. CASE ~good
      <4>1. taken = {}
        BY <1>1, <3>2 DEF taken
      <4> QED BY <1>5, <1>8, <2>1, <4>1
    <3> QED BY <3>1, <3>2
  <2> QED BY <1>7, <1>8, <2>2, <2>3, <2>4 DEF Output
<1>12. FTypeOK' /\ Lengths'
  <2>1. good' \in BOOLEAN
    BY <1>1, <1>3
  <2> QED BY <1>2, <1>3, <1>10, <2>1 DEF FilterInv, FTypeOK, Lengths
<1>13. Phases'
  BY <1>2, FilterAssumption DEF Phases
<1>14. Filters'
  BY <1>2, WantedKept DEF FilterInv
<1> QED BY <1>11, <1>12, <1>13, <1>14 DEF FilterInv

LEMMA FilterStutterStep == FilterInv /\ UNCHANGED fvars => FilterInv'
<1> SUFFICES ASSUME FilterInv, UNCHANGED fvars PROVE FilterInv'
  OBVIOUS
<1> USE DEF fvars
<1>1. Filters' /\ WantedLines' = WantedLines
  BY WantedKept DEF FilterInv
<1>2. FTypeOK' /\ Phases' /\ Lengths'
  BY DEF FilterInv, FTypeOK, Phases, Lengths
<1>3. Output'
  BY <1>1 DEF FilterInv, Output, Rising, Written, Buffered
<1> QED BY <1>1, <1>2, <1>3 DEF FilterInv

\* The filters are those of the configurations, and what has been read is
\* written, buffered, or lost behind a stream that failed.
THEOREM FilterInvariance == FSpec => []FilterInv
<1>1. FInit => FilterInv
  BY FilterInit
<1>2. FilterInv /\ [FNext]_fvars => FilterInv'
  BY AddFilterStep, FilterQuietStep, ReadLineStep, FlushStep, FilterStutterStep
     DEF FNext, Over
<1> QED BY <1>1, <1>2, PTL DEF FSpec

\* For addresses of any width and any number of configurations, the composite
\* filter matches an address exactly when one of them means it, and none of
\* them means nothing (filter.h:76-120, 199-285).
THEOREM FiltersMean == FSpec => []FilterMeaning
<1>1. ASSUME FilterInv  PROVE FilterMeaning
  <2>1. FTypeOK /\ Len(configs) <= MaxFilters /\ DOMAIN configs = 1 .. Len(configs)
    BY <1>1 DEF FilterInv, FTypeOK, Filters
  <2>2. \A i \in DOMAIN configs : \E ip \in Address : Means(configs[i], ip)
    BY <1>1, <2>1 DEF FilterInv, Filters, Faithful
  <2> QED BY <1>1, <2>1, <2>2, PassesIfWanted DEF FilterMeaning
<1>2. FSpec => []FilterInv
  BY FilterInvariance
<1> QED BY <1>1, <1>2, PTL

\* However batches and failures of the stream fall, the output is the wanted
\* lines in their order, or the first of them (stream_processor.h:90-136).
THEOREM OutputIsExact == FSpec => []OutputExact
<1>1. ASSUME FilterInv  PROVE OutputExact
  <2>1. output \in Seq(1 .. MaxLines) /\ buffer \in Seq(1 .. MaxLines)
    BY <1>1 DEF FilterInv, FTypeOK
  <2>2. Rising(output \o buffer)
    <3>1. \A i \in DOMAIN output, j \in DOMAIN buffer : output[i] < buffer[j]
      BY <1>1 DEF FilterInv, Output, Written, Buffered
    <3> QED BY <1>1, <2>1, <3>1, JoinedRising DEF FilterInv, Output
  <2>3. \A n \in WantedLines \ Written, i \in DOMAIN output : output[i] < n
    BY <1>1 DEF FilterInv, Output, Written
  <2> QED BY <1>1, <2>2, <2>3 DEF FilterInv, Output, Phases, OutputExact, Rising
<1>2. FSpec => []FilterInv
  BY FilterInvariance
<1> QED BY <1>1, <1>2, PTL
=============================================================================
