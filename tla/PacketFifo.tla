------------------------------ MODULE PacketFifo ------------------------------
(***************************************************************************)
(* What TCPSocket promises of one direction of a connection: packets come  *)
(* out whole and in the order in which they were sent, one that is too big *)
(* for the reader's buffer is left out, and all that is lost with a broken *)
(* connection is the last ones.                                            *)
(***************************************************************************)
EXTENDS Sequences

CONSTANTS Messages, Fits(_)

VARIABLES queue, got, open

vars == <<queue, got, open>>

Init == queue = <<>> /\ got = <<>> /\ open = TRUE

Put(m) ==
    /\ open
    /\ queue' = Append(queue, m)
    /\ UNCHANGED <<got, open>>

Take ==
    /\ queue # <<>>
    /\ got' = IF Fits(Head(queue)) THEN Append(got, Head(queue)) ELSE got
    /\ queue' = Tail(queue)
    /\ UNCHANGED open

Break ==
    /\ open
    /\ open' = FALSE
    /\ UNCHANGED <<queue, got>>

Lose ==
    /\ ~open
    /\ queue' = <<>>
    /\ UNCHANGED <<got, open>>

Next == (\E m \in Messages : Put(m)) \/ Take \/ Break \/ Lose

Spec == Init /\ [][Next]_vars /\ WF_vars(Take \/ Lose)
==============================================================================
