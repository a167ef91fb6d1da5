----------------------------- MODULE ClaimStore -----------------------------
(***************************************************************************)
(* The claim store (internal/store/store.go): the set of claimed names in  *)
(* memory, the JSON file it is saved to through a temporary file and a     *)
(* rename, any step of which can fail, and the process dying and starting  *)
(* again at any moment.  FileStore.mu is held from the change of the map   *)
(* to the end of the save.                                                 *)
(***************************************************************************)
CONSTANTS
    Callers,   \* goroutines that serve Claim and Unclaim messages
    Names,
    None,
    Torn       \* bytes that are no JSON object: an empty or half-written file

ASSUME ValueAssumption == /\ None \notin Callers /\ None # Torn
                          /\ \A S \in SUBSET Names : S # None /\ S # Torn

VARIABLES
    up,        \* the process runs
    names,     \* FileStore.names
    mu,        \* holder of FileStore.mu
    pc, op,    \* each caller's place in the call, and the call
    tmp,       \* the temporary file of the save under way
    file,      \* claims.json: None, Torn or a set
    held,      \* names granted by a Claim and not given to Release since
    freed      \* names a Release freed and no Claim was begun for since

vars == <<up, names, mu, pc, op, tmp, file, held, freed>>

Calls == [do: {"claim", "release"}, name: Names]
Contents == {None, Torn} \cup SUBSET Names
Saving == {"create", "write", "closing", "rename"}

TypeOK ==
    /\ up \in BOOLEAN
    /\ names \in Contents \ {None, Torn}    \* a map, never nil
    /\ mu \in Callers \cup {None}
    /\ pc \in [Callers -> {"idle", "lock"} \cup Saving]
    /\ op \in [Callers -> {None} \cup Calls]
    /\ tmp \in Contents
    /\ file \in Contents
    /\ held \in SUBSET Names
    /\ freed \in SUBSET Names

Init ==
    /\ up = FALSE
    /\ names = {}
    /\ mu = None
    /\ pc = [c \in Callers |-> "idle"]
    /\ op = [c \in Callers |-> None]
    /\ tmp = None
    /\ file = None
    /\ held = {}
    /\ freed = {}

-----------------------------------------------------------------------------

\* Slip: a missing file leaves the map nil.
OpenNil ==
    /\ ~up
    /\ file # Torn
    /\ up' = TRUE
    /\ names' = file
    /\ UNCHANGED <<mu, pc, op, tmp, file, held, freed>>

\* Slip: a restart begins with an empty store.
OpenEmpty ==
    /\ ~up
    /\ file # Torn
    /\ up' = TRUE
    /\ names' = {}
    /\ UNCHANGED <<mu, pc, op, tmp, file, held, freed>>

\* Open: a missing file is an empty store, one that does not parse an error.
Open ==
    /\ ~up
    /\ file # Torn
    /\ up' = TRUE
    /\ names' = IF file = None THEN {} ELSE file
    /\ UNCHANGED <<mu, pc, op, tmp, file, held, freed>>

\* Claim or Release is called, and waits for mu.
Call(c, call) ==
    /\ up /\ pc[c] = "idle"
    /\ pc' = [pc EXCEPT ![c] = "lock"]
    /\ op' = [op EXCEPT ![c] = call]
    /\ UNCHANGED <<up, names, mu, tmp, file, held, freed>>

Lock(c, do) ==
    /\ up /\ pc[c] = "lock" /\ mu = None
    /\ op[c].do = do

\* save is called with mu held.
StartSave(c) ==
    /\ mu' = c
    /\ pc' = [pc EXCEPT ![c] = "create"]
    /\ UNCHANGED <<up, op, tmp, file>>

\* Claim of a name that is not held.
Claim(c) ==
    /\ Lock(c, "claim")
    /\ op[c].name \notin names
    /\ names' = names \cup {op[c].name}
    /\ freed' = freed \ {op[c].name}
    /\ StartSave(c)
    /\ UNCHANGED held

\* The deferred unlock ends the call.
Finish(c) ==
    /\ mu' = None
    /\ pc' = [pc EXCEPT ![c] = "idle"]
    /\ op' = [op EXCEPT ![c] = None]

\* Claim of a name that is held: ErrClaimed.
Claimed(c) ==
    /\ Lock(c, "claim")
    /\ op[c].name \in names
    /\ Finish(c)
    /\ UNCHANGED <<up, names, tmp, file, held, freed>>

\* Slip: Release does not wait for mu.
ReleaseUnlocked(c) ==
    /\ up /\ pc[c] = "lock"
    /\ op[c].do = "release"
    /\ names' = names \ {op[c].name}
    /\ held' = held \ {op[c].name}
    /\ StartSave(c)
    /\ UNCHANGED freed

\* Release saves even when the name was not held.
Release(c) ==
    /\ Lock(c, "release")
    /\ names' = names \ {op[c].name}
    /\ held' = held \ {op[c].name}
    /\ StartSave(c)
    /\ UNCHANGED freed

\* save returns: the map is left as the call changed it.
Return(c, ok) ==
    /\ Finish(c)
    /\ held' = IF ok /\ op[c].do = "claim" THEN held \cup {op[c].name} ELSE held
    /\ freed' = IF ok /\ op[c].do = "release" THEN freed \cup {op[c].name}
                ELSE freed

\* Slip: a failed save is answered like a successful one.
FailSilently(c, at) ==
    /\ up /\ pc[c] = at
    /\ Return(c, TRUE)
    /\ tmp' = None
    /\ UNCHANGED <<up, names, file>>

\* Slip: a failed save returns without giving mu back.
FailLocked(c, at) ==
    /\ up /\ pc[c] = at
    /\ pc' = [pc EXCEPT ![c] = "idle"]
    /\ op' = [op EXCEPT ![c] = None]
    /\ tmp' = None
    /\ UNCHANGED <<up, names, mu, file, held, freed>>

\* The steps of save.  A failed write or close removes the temporary file; a
\* failed rename leaves it behind, where nothing reads it.
Fail(c, at) ==
    /\ up /\ pc[c] = at
    /\ Return(c, FALSE)
    /\ tmp' = None
    /\ UNCHANGED <<up, names, file>>

\* Slip: the claims file itself is truncated and written.
CreateInPlace(c) ==
    /\ up /\ pc[c] = "create"
    /\ file' = Torn
    /\ tmp' = Torn
    /\ pc' = [pc EXCEPT ![c] = "write"]
    /\ UNCHANGED <<up, names, mu, op, held, freed>>

CreateTemp(c) ==
    /\ up /\ pc[c] = "create"
    /\ tmp' = Torn
    /\ pc' = [pc EXCEPT ![c] = "write"]
    /\ UNCHANGED <<up, names, mu, op, file, held, freed>>

\* The bytes are json.Marshal's of the map, which does not change under mu.
Write(c) ==
    /\ up /\ pc[c] = "write"
    /\ tmp' = names
    /\ pc' = [pc EXCEPT ![c] = "closing"]
    /\ UNCHANGED <<up, names, mu, op, file, held, freed>>

CloseTemp(c) ==
    /\ up /\ pc[c] = "closing"
    /\ pc' = [pc EXCEPT ![c] = "rename"]
    /\ UNCHANGED <<up, names, mu, op, tmp, file, held, freed>>

Rename(c) ==
    /\ up /\ pc[c] = "rename"
    /\ file' = tmp
    /\ tmp' = None
    /\ Return(c, TRUE)
    /\ UNCHANGED <<up, names>>

\* The steps of a call that was made.
Run(c) ==
    \/ Claim(c) \/ Claimed(c) \/ Release(c)
    \/ CreateTemp(c) \/ Write(c) \/ CloseTemp(c) \/ Rename(c)
    \/ \E at \in Saving : Fail(c, at)

-----------------------------------------------------------------------------
(* The environment. *)

\* The process dies; what the kernel was handed stays.
Kill ==
    /\ up
    /\ up' = FALSE
    /\ names' = {}
    /\ mu' = None
    /\ pc' = [c \in Callers |-> "idle"]
    /\ op' = [c \in Callers |-> None]
    /\ tmp' = None
    /\ UNCHANGED <<file, held, freed>>

-----------------------------------------------------------------------------

Next ==
    \/ Open
    \/ \E c \in Callers : Run(c) \/ \E call \in Calls : Call(c, call)
    \/ Kill

Spec == Init /\ [][Next]_vars

\* Goroutines run on, and a sync.Mutex goes to a waiter that has been starved
\* for a millisecond.
FairSpec == Spec /\ \A c \in Callers : SF_vars(Run(c))

-----------------------------------------------------------------------------
(* What must hold. *)

FileNames == IF file = None THEN {} ELSE file

\* Whatever fails, and whenever the process dies, the file parses: it is the
\* set of names of some moment, never a half-written one (save).
FileParses == file # Torn

\* What a caller was told survives: a name whose last call was a successful
\* Claim is in the file, and one whose last call was a successful Release is
\* not, through failed saves of other names, deaths and restarts.
AnswersSurvive == held \subseteq FileNames /\ freed \cap FileNames = {}

\* A running store never contradicts what callers were told; in particular a
\* name granted to one caller is not granted to another (Claim grants only
\* names that are not in memory).
MemoryAgrees == up => held \subseteq names /\ freed \cap names = {}

\* Calls exclude each other, and who holds the mutex is at work: the map does
\* not change under a save, what is about to be renamed is the map, and no way
\* out of save keeps the mutex.
SavesWhatIsHeld ==
    \A c \in Callers :
        /\ mu = c <=> pc[c] \in Saving
        /\ pc[c] \in {"closing", "rename"} => tmp = names

\* A call is made of a running store, and under mu its change is in the map.
CallsInOrder ==
    \A c \in Callers :
        /\ pc[c] # "idle" => up /\ op[c] \in Calls
        /\ pc[c] \in Saving => (op[c].name \in names <=> op[c].do = "claim")

\* The inductive invariant behind the others.
IInv ==
    /\ TypeOK
    /\ CallsInOrder
    /\ SavesWhatIsHeld
    /\ FileParses
    /\ AnswersSurvive
    /\ MemoryAgrees

\* Through any failures and deaths the store keeps the contract of a set of
\* claims that survives: one change at a time, and an answer without an error
\* says that the change is kept (Claim, Release, save, Open).
Store == INSTANCE ClaimSet WITH
    kept <- FileNames,
    pending <- {<<c, op[c]>> : c \in {d \in Callers : pc[d] \in Saving}}
StoreSpec == Store!Spec

\* A call gets its answer unless the process dies: every path through Claim,
\* Release and save gives mu back to those who wait for it.
CallsReturn == \A c \in Callers : pc[c] # "idle" ~> pc[c] = "idle"

(* What the documentation says and the code does not do. *)

\* store.go:2-3: "every mutation is written to disk synchronously": between
\* calls the file is what memory is.
FileIsMemory == up /\ mu = None => FileNames = names
=============================================================================
