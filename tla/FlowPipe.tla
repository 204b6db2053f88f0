------------------------------ MODULE FlowPipe ------------------------------
(***************************************************************************)
(* What one direction of a QUICP flow promises its two applications: an    *)
(* ordered pipe of bytes.  Bytes are named by the position at which they   *)
(* were written.  The reader gets them in order, each once, and sees the   *)
(* end only after the writer closed the pipe and the last byte was read;   *)
(* a pipe that broke delivers nothing more.                                *)
(***************************************************************************)
EXTENDS Integers, Sequences

VARIABLES written,    \* how many bytes the writer has written
          closed,     \* the writer will write no more
          delivered,  \* the bytes the reader has read
          ended,      \* the reader has seen the end
          broken      \* the reader was told of an error

pipeVars == <<written, closed, delivered, ended, broken>>

Init ==
    /\ written = 0 /\ closed = FALSE
    /\ delivered = <<>> /\ ended = FALSE /\ broken = FALSE

Write ==
    /\ ~closed
    /\ written' > written
    /\ UNCHANGED <<closed, delivered, ended, broken>>

Close ==
    /\ ~closed
    /\ closed' = TRUE
    /\ UNCHANGED <<written, delivered, ended, broken>>

Deliver ==
    /\ ~broken /\ ~ended
    /\ Len(delivered') > Len(delivered) /\ Len(delivered') <= written
    /\ delivered' = [i \in 1 .. Len(delivered') |-> i - 1]
    /\ UNCHANGED <<written, closed, ended, broken>>

End ==
    /\ ~broken /\ ~ended
    /\ closed /\ Len(delivered) = written
    /\ ended' = TRUE
    /\ UNCHANGED <<written, closed, delivered, broken>>

Break ==
    /\ ~broken
    /\ broken' = TRUE
    /\ UNCHANGED <<written, closed, delivered, ended>>

Next == Write \/ Close \/ Deliver \/ End \/ Break

Spec == Init /\ [][Next]_pipeVars
=============================================================================
