----------------------------- MODULE RemoteCall -----------------------------
(***************************************************************************)
(* What a client's control stream promises to the goroutines that share    *)
(* it, said without bytes, frames and the mutex: a call is handled at most *)
(* once and never after a later call of the same caller, one call at a     *)
(* time is between its handling and its answer, an answer is the caller's  *)
(* own and says that its call was handled, and an error says that the      *)
(* connection is broken and leaves open whether the call was or will be    *)
(* handled.                                                                *)
(***************************************************************************)
EXTENDS Naturals

CONSTANTS Callers, None, Error

VARIABLES
    calls,      \* how many calls a caller has begun
    waiting,    \* the callers that wait for an answer
    handled,    \* the calls that the server has handled
    answer,     \* what a caller's last call returned
    broken      \* the connection has failed

vars == <<calls, waiting, handled, answer, broken>>

Message(c, n, reply) == [from |-> c, call |-> n, reply |-> reply]
Asked(c) == Message(c, calls[c], FALSE)

Init ==
    /\ calls = [c \in Callers |-> 0]
    /\ waiting = {}
    /\ handled = {}
    /\ answer = [c \in Callers |-> None]
    /\ broken = FALSE

Ask(c) ==
    /\ c \notin waiting
    /\ calls' = [calls EXCEPT ![c] = @ + 1]
    /\ waiting' = waiting \cup {c}
    /\ answer' = [answer EXCEPT ![c] = None]
    /\ UNCHANGED <<handled, broken>>

\* Only over a broken connection is a call handled that its caller gave up.
Handle(c, n) ==
    /\ broken \/ (c \in waiting /\ n = calls[c])
    /\ \A r \in handled : r.from = c => r.call < n
    /\ \A d \in waiting : Asked(d) \notin handled
    /\ handled' = handled \cup {Message(c, n, FALSE)}
    /\ UNCHANGED <<calls, waiting, answer, broken>>

Return(c, result) ==
    /\ c \in waiting
    /\ waiting' = waiting \ {c}
    /\ answer' = [answer EXCEPT ![c] = result]
    /\ UNCHANGED <<calls, handled, broken>>

Answer(c) ==
    /\ Asked(c) \in handled
    /\ Return(c, Message(c, calls[c], TRUE))

Fail(c) ==
    /\ broken
    /\ Return(c, Error)

Break ==
    /\ broken' = TRUE
    /\ UNCHANGED <<calls, waiting, handled, answer>>

Next == Break \/ \E c \in Callers :
    Ask(c) \/ Answer(c) \/ Fail(c) \/ \E n \in 1 .. calls[c] : Handle(c, n)

Spec == Init /\ [][Next]_vars
=============================================================================
