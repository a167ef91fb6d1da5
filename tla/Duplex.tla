------------------------------- MODULE Duplex -------------------------------
(***************************************************************************)
(* What a tunnel promises to the two programs at its ends, said without    *)
(* sockets, streams and goroutines: a connection.  An end receives no more *)
(* than the other sent, and nothing after its end of file; each direction  *)
(* ends by itself; and as long as nothing breaks, an end of file says that *)
(* there was no more.  Bytes are counted, so their order is not said.      *)
(***************************************************************************)
EXTENDS Naturals

CONSTANTS
    Ends,   \* the two programs
    Other   \* each one's peer

VARIABLES
    app,        \* "open"; "shut", done sending; or "gone"
    sent, got,  \* what each end sent and received
    ended,      \* it has read an end of file
    broken      \* nothing more is promised than that nothing is made up

vars == <<app, sent, got, ended, broken>>

Init ==
    /\ app = [e \in Ends |-> "open"]
    /\ sent = [e \in Ends |-> 0] /\ got = [e \in Ends |-> 0]
    /\ ended = [e \in Ends |-> FALSE]
    /\ broken = FALSE

Send(e) ==
    /\ app[e] = "open"
    /\ sent' = [sent EXCEPT ![e] = @ + 1]
    /\ UNCHANGED <<app, got, ended, broken>>

Shut(e) ==
    /\ app[e] = "open"
    /\ app' = [app EXCEPT ![e] = "shut"]
    /\ UNCHANGED <<sent, got, ended, broken>>

\* Nothing follows an end of file.
Receive(e) ==
    /\ app[e] # "gone" /\ ~ended[e]
    /\ got[e] < sent[Other[e]]
    /\ got' = [got EXCEPT ![e] = @ + 1]
    /\ UNCHANGED <<app, sent, ended, broken>>

SeeEnd(e) ==
    /\ app[e] # "gone" /\ ~ended[e]
    /\ broken \/ (got[e] = sent[Other[e]] /\ app[Other[e]] # "open")
    /\ ended' = [ended EXCEPT ![e] = TRUE]
    /\ UNCHANGED <<app, sent, got, broken>>

\* An end that goes before it has sent and read all breaks the connection.
Leave(e) ==
    /\ app[e] # "gone"
    /\ app' = [app EXCEPT ![e] = "gone"]
    /\ broken' \in {broken, TRUE}
    /\ broken' \/ (app[e] = "shut" /\ ended[e])
    /\ UNCHANGED <<sent, got, ended>>

Fail ==
    /\ broken' = TRUE
    /\ UNCHANGED <<app, sent, got, ended>>

Next == Fail \/ \E e \in Ends :
    Send(e) \/ Shut(e) \/ Receive(e) \/ SeeEnd(e) \/ Leave(e)

Spec == Init /\ [][Next]_vars
=============================================================================
