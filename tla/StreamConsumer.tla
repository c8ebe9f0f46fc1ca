--------------------------- MODULE StreamConsumer ---------------------------
(***************************************************************************)
(* What a streaming call promises the application whose callback it runs:  *)
(* the callback is given the records that the server sent one at a time,   *)
(* in their order and none left out, only good ones, and none once the     *)
(* call has returned; a call returns once, without an error only after the *)
(* end of the stream and when the callback was given every record, and the *)
(* callback's own error ends it.  How records travel, which contexts and   *)
(* retries there are, and what ends a call with an error is left open.     *)
(***************************************************************************)
EXTENDS Naturals, Sequences

CONSTANTS Records,  \* what a server may send
          Good      \* the records that report no failure

VARIABLES sent,       \* the records that the server has sent
          ended,      \* whether and how the server ended the stream
          delivered,  \* the numbers of the records that the callback was given
          told        \* what the call returned: nothing yet, nil or an error

vars == <<sent, ended, delivered, told>>

Init == sent = <<>> /\ ended = "open" /\ delivered = <<>> /\ told = "nothing"

Send == /\ ended = "open" /\ told = "nothing"
        /\ \E r \in Records : sent' = Append(sent, r)
        /\ UNCHANGED <<ended, delivered, told>>

End == /\ ended = "open" /\ told = "nothing"
       /\ ended' \in {"eof", "broken"}
       /\ UNCHANGED <<sent, delivered, told>>

\* The next record; what the callback returns decides whether the call goes on.
Deliver == /\ told = "nothing"
           /\ LET n == Len(delivered) + 1
              IN  n <= Len(sent) /\ sent[n] \in Good /\ delivered' = Append(delivered, n)
           /\ told' \in {"nothing", "error"}
           /\ UNCHANGED <<sent, ended>>

Finish == /\ told = "nothing" /\ ended = "eof" /\ Len(delivered) = Len(sent)
          /\ told' = "nil"
          /\ UNCHANGED <<sent, ended, delivered>>

Fail == /\ told = "nothing" /\ told' = "error"
        /\ UNCHANGED <<sent, ended, delivered>>

Next == Send \/ End \/ Deliver \/ Finish \/ Fail

Spec == Init /\ [][Next]_vars
=============================================================================
