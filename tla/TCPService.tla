----------------------------- MODULE TCPService -----------------------------
(***************************************************************************)
(* What a TCP connection promises to the two applications that use it: a   *)
(* pipe each way that hands over every unit once and in order, tells the   *)
(* end of the stream after the last unit of a peer that has closed, hands  *)
(* over nothing before the connection is up and nothing after it is over.  *)
(* It promises neither that data arrive nor that a failure is noticed.     *)
(***************************************************************************)
EXTENDS Naturals

CONSTANTS A, B

VARIABLES
  wrote, closed,          \* what each application has put in, and whether it is done
  open, got, eof, over    \* what each application has been told

vars == <<wrote, closed, open, got, eof, over>>
Ends == {A, B}
Peer(e) == IF e = A THEN B ELSE A

Init ==
  /\ wrote = [e \in Ends |-> 0] /\ closed = [e \in Ends |-> FALSE]
  /\ open = [e \in Ends |-> FALSE] /\ got = [e \in Ends |-> 0]
  /\ eof = [e \in Ends |-> FALSE] /\ over = [e \in Ends |-> FALSE]

Write(e) ==
  /\ ~closed[e] /\ ~over[e]
  /\ wrote' = [wrote EXCEPT ![e] = @ + 1]
  /\ UNCHANGED <<closed, open, got, eof, over>>

\* Closing a connection that is not up yet also ends it
Shut(e) ==
  /\ ~closed[e] /\ ~over[e]
  /\ closed' = [closed EXCEPT ![e] = TRUE]
  /\ over' \in {over, [over EXCEPT ![e] = ~open[e]]}
  /\ UNCHANGED <<wrote, open, got, eof>>

\* One step of the provider may tell an application several things at once
Tell(e) ==
  /\ ~over[e]
  /\ \E up, end, last \in BOOLEAN, n \in got[e] .. wrote[Peer(e)] :
       /\ open[e] => up
       /\ eof[e] => end
       /\ n > got[e] \/ (end /\ ~eof[e]) => up /\ ~eof[e]
       /\ end => n = wrote[Peer(e)] /\ closed[Peer(e)]
       /\ open' = [open EXCEPT ![e] = up]
       /\ got' = [got EXCEPT ![e] = n]
       /\ eof' = [eof EXCEPT ![e] = end]
       /\ over' = [over EXCEPT ![e] = last]
  /\ UNCHANGED <<wrote, closed>>

Next == \E e \in Ends : Write(e) \/ Shut(e) \/ Tell(e)
Spec == Init /\ [][Next]_vars
=============================================================================
