------------------------------ MODULE Network ------------------------------
(***************************************************************************)
(* main of the sender (sender_client.cc of m6-network): the log goes       *)
(* through the filter of m1, and what is left goes chunk by chunk to the   *)
(* receiver.  A log of which exactly Lines lines pass is sent; the others  *)
(* show the filter, and end with it.                                       *)
(***************************************************************************)
EXTENDS GrpcTransfer, LogFilter

VARIABLE sending     \* payload is complete and cut into chunks

netvars == <<vars, fvars, sending>>

NetInit == Init /\ FInit /\ sending = FALSE

FilterStep == ~sending /\ FNext /\ UNCHANGED <<vars, sending>>

(* What the filter has read and written is forgotten but for its length,   *)
(* the chunks being named by the numbers of their lines.                   *)
Split ==
  /\ ~sending /\ pc = "done" /\ Len(output) = Lines
  /\ sending' = TRUE
  /\ configs' = <<>> /\ filters' = <<>> /\ input' = <<>> /\ output' = <<>>
  /\ good' = TRUE
  /\ UNCHANGED <<vars, pc, buffer>>

TransferStep == sending /\ Next /\ UNCHANGED <<fvars, sending>>

NetNext == FilterStep \/ Split \/ TransferStep

(* The sender's thread goes on, and its deadline is a timer of its own.    *)
NetSpec ==
  NetInit /\ [][NetNext]_netvars
          /\ WF_netvars(sending /\ Sender /\ UNCHANGED <<fvars, sending>>)

(* Once there is something to send, the sender ends, whether or not a      *)
(* receiver is there (the deadline set in GrpcMessageSender::Send against  *)
(* waitForReady).                                                          *)
SenderEnds == sending ~> cur \notin Messages
=============================================================================
