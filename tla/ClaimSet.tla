------------------------------ MODULE ClaimSet ------------------------------
(***************************************************************************)
(* What the claim store promises, said without its file, its temporary     *)
(* file and its mutex: changes are made one at a time, a change that is    *)
(* answered without an error is kept together with all that is in memory   *)
(* then, one that is answered with an error is in memory only, and a       *)
(* restart finds what was kept last.                                       *)
(***************************************************************************)
CONSTANTS Callers, Names

VARIABLES
    up,         \* the store is open
    names,      \* the names it reports as claimed
    kept,       \* the names a restart would find
    pending,    \* the change that was made and is not answered yet, if any
    held,       \* names granted by a Claim and not given to Release since
    freed       \* names a Release freed and no Claim was begun for since

vars == <<up, names, kept, pending, held, freed>>

Init ==
    /\ up = FALSE
    /\ names = {} /\ kept = {} /\ pending = {}
    /\ held = {} /\ freed = {}

Open ==
    /\ ~up
    /\ up' = TRUE
    /\ names' = kept
    /\ UNCHANGED <<kept, pending, held, freed>>

\* A name is granted to one caller only.
Claim(c, n) ==
    /\ up /\ pending = {}
    /\ n \notin names
    /\ names' = names \cup {n}
    /\ pending' = {<<c, [do |-> "claim", name |-> n]>>}
    /\ freed' = freed \ {n}
    /\ UNCHANGED <<up, kept, held>>

Release(c, n) ==
    /\ up /\ pending = {}
    /\ names' = names \ {n}
    /\ pending' = {<<c, [do |-> "release", name |-> n]>>}
    /\ held' = held \ {n}
    /\ UNCHANGED <<up, kept, freed>>

\* The change is kept, and answered.
Keep(change) ==
    /\ change \in pending
    /\ pending' = {}
    /\ kept' = names
    /\ \/ change[2].do = "claim"
          /\ held' = held \cup {change[2].name} /\ UNCHANGED freed
       \/ change[2].do = "release"
          /\ freed' = freed \cup {change[2].name} /\ UNCHANGED held
    /\ UNCHANGED <<up, names>>

\* It cannot be kept, and the caller is told so.
GiveUp ==
    /\ pending # {}
    /\ pending' = {}
    /\ UNCHANGED <<up, names, kept, held, freed>>

\* The process dies, and what is not kept is lost.
Die ==
    /\ up
    /\ up' = FALSE
    /\ names' = {} /\ pending' = {}
    /\ UNCHANGED <<kept, held, freed>>

Next ==
    \/ Open \/ GiveUp \/ Die
    \/ \E change \in pending : Keep(change)
    \/ \E c \in Callers, n \in Names : Claim(c, n) \/ Release(c, n)

Spec == Init /\ [][Next]_vars
=============================================================================
