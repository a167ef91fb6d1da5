------------------------- MODULE ClaimStore_proofs -------------------------
(***************************************************************************)
(* The claims file always parses and agrees with every answer, for any     *)
(* number of callers and names.                                            *)
(***************************************************************************)
EXTENDS ClaimStore, TLAPS

\* Each step keeps types.
LEMMA TypeStep == IInv /\ [Next]_vars => TypeOK'
<1> SUFFICES ASSUME IInv, [Next]_vars PROVE TypeOK'
  OBVIOUS
<1> USE ValueAssumption DEF IInv, TypeOK, Contents, Saving, Calls,
      CallsInOrder, SavesWhatIsHeld, FileParses
<1>1. CASE Open
  BY <1>1 DEF Open
<1>2. ASSUME NEW c \in Callers, Claim(c) PROVE TypeOK'
  <2>1. op[c].name \in Names
    BY <1>2 DEF Claim, Lock
  <2>2. names' \in Contents \ {None, Torn}
    BY <1>2, <2>1 DEF Claim
  <2>. QED
    BY <1>2, <2>2 DEF Claim, StartSave
<1>3. ASSUME NEW c \in Callers, Claimed(c) PROVE TypeOK'
  BY <1>3 DEF Claimed, Lock, Finish
<1>4. ASSUME NEW c \in Callers, Release(c) PROVE TypeOK'
  BY <1>4 DEF Release, Lock, StartSave
<1>5. ASSUME NEW c \in Callers, NEW call \in Calls, Call(c, call) PROVE TypeOK'
  BY <1>5 DEF Call
<1>6. ASSUME NEW c \in Callers, NEW at \in Saving, Fail(c, at) PROVE TypeOK'
  BY <1>6 DEF Fail, Return, Finish
<1>7. ASSUME NEW c \in Callers, CreateTemp(c) PROVE TypeOK'
  BY <1>7 DEF CreateTemp
<1>8. ASSUME NEW c \in Callers, Write(c) PROVE TypeOK'
  BY <1>8 DEF Write
<1>9. ASSUME NEW c \in Callers, CloseTemp(c) PROVE TypeOK'
  BY <1>9 DEF CloseTemp
<1>10. ASSUME NEW c \in Callers, Rename(c) PROVE TypeOK'
  BY <1>10 DEF Rename, Return, Finish
<1>11. CASE Kill
  BY <1>11 DEF Kill
<1>12. CASE UNCHANGED vars
  BY <1>12 DEF vars
<1>q. QED
  BY <1>1, <1>2, <1>3, <1>4, <1>5, <1>6, <1>7, <1>8, <1>9, <1>10, <1>11,
     <1>12 DEF Next, Run

\* A call's change stays in the map until mu is given back.
LEMMA CallsInOrderStep == IInv /\ [Next]_vars => CallsInOrder'
<1> SUFFICES ASSUME IInv, [Next]_vars PROVE CallsInOrder'
  OBVIOUS
<1> USE ValueAssumption DEF IInv, TypeOK, Contents, Saving, Calls,
      CallsInOrder, SavesWhatIsHeld
<1>1. CASE Open
  BY <1>1 DEF Open
<1>2. ASSUME NEW c \in Callers, Claim(c) PROVE CallsInOrder'
  BY <1>2 DEF Claim, Lock, StartSave
<1>3. ASSUME NEW c \in Callers, Claimed(c) PROVE CallsInOrder'
  BY <1>3 DEF Claimed, Lock, Finish
<1>4. ASSUME NEW c \in Callers, Release(c) PROVE CallsInOrder'
  BY <1>4 DEF Release, Lock, StartSave
<1>5. ASSUME NEW c \in Callers, NEW call \in Calls, Call(c, call) PROVE CallsInOrder'
  BY <1>5 DEF Call
<1>6. ASSUME NEW c \in Callers, NEW at \in Saving, Fail(c, at) PROVE CallsInOrder'
  BY <1>6 DEF Fail, Return, Finish
<1>7. ASSUME NEW c \in Callers, CreateTemp(c) PROVE CallsInOrder'
  BY <1>7 DEF CreateTemp
<1>8. ASSUME NEW c \in Callers, Write(c) PROVE CallsInOrder'
  BY <1>8 DEF Write
<1>9. ASSUME NEW c \in Callers, CloseTemp(c) PROVE CallsInOrder'
  BY <1>9 DEF CloseTemp
<1>10. ASSUME NEW c \in Callers, Rename(c) PROVE CallsInOrder'
  BY <1>10 DEF Rename, Return, Finish
<1>11. CASE Kill
  BY <1>11 DEF Kill
<1>12. CASE UNCHANGED vars
  BY <1>12 DEF vars
<1>q. QED
  BY <1>1, <1>2, <1>3, <1>4, <1>5, <1>6, <1>7, <1>8, <1>9, <1>10, <1>11,
     <1>12 DEF Next, Run

\* mu keeps calls apart.
LEMMA SavesStep == IInv /\ [Next]_vars => SavesWhatIsHeld'
<1> SUFFICES ASSUME IInv, [Next]_vars PROVE SavesWhatIsHeld'
  OBVIOUS
<1> USE ValueAssumption DEF IInv, TypeOK, Contents, Saving, Calls,
      CallsInOrder, SavesWhatIsHeld
<1>1. CASE Open
  BY <1>1 DEF Open
<1>2. ASSUME NEW c \in Callers, Claim(c) PROVE SavesWhatIsHeld'
  BY <1>2 DEF Claim, Lock, StartSave
<1>3. ASSUME NEW c \in Callers, Claimed(c) PROVE SavesWhatIsHeld'
  BY <1>3 DEF Claimed, Lock, Finish
<1>4. ASSUME NEW c \in Callers, Release(c) PROVE SavesWhatIsHeld'
  BY <1>4 DEF Release, Lock, StartSave
<1>5. ASSUME NEW c \in Callers, NEW call \in Calls, Call(c, call) PROVE SavesWhatIsHeld'
  BY <1>5 DEF Call
<1>6. ASSUME NEW c \in Callers, NEW at \in Saving, Fail(c, at) PROVE SavesWhatIsHeld'
  BY <1>6 DEF Fail, Return, Finish
<1>7. ASSUME NEW c \in Callers, CreateTemp(c) PROVE SavesWhatIsHeld'
  BY <1>7 DEF CreateTemp
<1>8. ASSUME NEW c \in Callers, Write(c) PROVE SavesWhatIsHeld'
  BY <1>8 DEF Write
<1>9. ASSUME NEW c \in Callers, CloseTemp(c) PROVE SavesWhatIsHeld'
  BY <1>9 DEF CloseTemp
<1>10. ASSUME NEW c \in Callers, Rename(c) PROVE SavesWhatIsHeld'
  BY <1>10 DEF Rename, Return, Finish
<1>11. CASE Kill
  BY <1>11 DEF Kill
<1>12. CASE UNCHANGED vars
  BY <1>12 DEF vars
<1>q. QED
  BY <1>1, <1>2, <1>3, <1>4, <1>5, <1>6, <1>7, <1>8, <1>9, <1>10, <1>11,
     <1>12 DEF Next, Run

\* Only a complete temporary file is renamed.
LEMMA FileParsesStep == IInv /\ [Next]_vars => FileParses'
<1> SUFFICES ASSUME IInv, [Next]_vars PROVE FileParses'
  OBVIOUS
<1> USE ValueAssumption DEF IInv, TypeOK, Contents, Saving, Calls,
      SavesWhatIsHeld, FileParses
<1>1. CASE Open
  BY <1>1 DEF Open
<1>2. ASSUME NEW c \in Callers, Claim(c) PROVE FileParses'
  BY <1>2 DEF Claim, Lock, StartSave
<1>3. ASSUME NEW c \in Callers, Claimed(c) PROVE FileParses'
  BY <1>3 DEF Claimed, Lock, Finish
<1>4. ASSUME NEW c \in Callers, Release(c) PROVE FileParses'
  BY <1>4 DEF Release, Lock, StartSave
<1>5. ASSUME NEW c \in Callers, NEW call \in Calls, Call(c, call) PROVE FileParses'
  BY <1>5 DEF Call
<1>6. ASSUME NEW c \in Callers, NEW at \in Saving, Fail(c, at) PROVE FileParses'
  BY <1>6 DEF Fail, Return, Finish
<1>7. ASSUME NEW c \in Callers, CreateTemp(c) PROVE FileParses'
  BY <1>7 DEF CreateTemp
<1>8. ASSUME NEW c \in Callers, Write(c) PROVE FileParses'
  BY <1>8 DEF Write
<1>9. ASSUME NEW c \in Callers, CloseTemp(c) PROVE FileParses'
  BY <1>9 DEF CloseTemp
<1>10. ASSUME NEW c \in Callers, Rename(c) PROVE FileParses'
  BY <1>10 DEF Rename, Return, Finish
<1>11. CASE Kill
  BY <1>11 DEF Kill
<1>12. CASE UNCHANGED vars
  BY <1>12 DEF vars
<1>q. QED
  BY <1>1, <1>2, <1>3, <1>4, <1>5, <1>6, <1>7, <1>8, <1>9, <1>10, <1>11,
     <1>12 DEF Next, Run

\* What is renamed agrees with every answer.
LEMMA AnswersStep == IInv /\ [Next]_vars => AnswersSurvive'
<1> SUFFICES ASSUME IInv, [Next]_vars PROVE AnswersSurvive'
  OBVIOUS
<1> USE ValueAssumption DEF IInv, TypeOK, Contents, Saving, Calls,
      CallsInOrder, SavesWhatIsHeld, FileParses, AnswersSurvive, MemoryAgrees,
      FileNames
<1>1. CASE Open
  BY <1>1 DEF Open
<1>2. ASSUME NEW c \in Callers, Claim(c) PROVE AnswersSurvive'
  BY <1>2 DEF Claim, Lock, StartSave
<1>3. ASSUME NEW c \in Callers, Claimed(c) PROVE AnswersSurvive'
  BY <1>3 DEF Claimed, Lock, Finish
<1>4. ASSUME NEW c \in Callers, Release(c) PROVE AnswersSurvive'
  BY <1>4 DEF Release, Lock, StartSave
<1>5. ASSUME NEW c \in Callers, NEW call \in Calls, Call(c, call) PROVE AnswersSurvive'
  BY <1>5 DEF Call
<1>6. ASSUME NEW c \in Callers, NEW at \in Saving, Fail(c, at) PROVE AnswersSurvive'
  BY <1>6 DEF Fail, Return, Finish
<1>7. ASSUME NEW c \in Callers, CreateTemp(c) PROVE AnswersSurvive'
  BY <1>7 DEF CreateTemp
<1>8. ASSUME NEW c \in Callers, Write(c) PROVE AnswersSurvive'
  BY <1>8 DEF Write
<1>9. ASSUME NEW c \in Callers, CloseTemp(c) PROVE AnswersSurvive'
  BY <1>9 DEF CloseTemp
<1>10. ASSUME NEW c \in Callers, Rename(c) PROVE AnswersSurvive'
  BY <1>10 DEF Rename, Return, Finish
<1>11. CASE Kill
  BY <1>11 DEF Kill
<1>12. CASE UNCHANGED vars
  BY <1>12 DEF vars
<1>q. QED
  BY <1>1, <1>2, <1>3, <1>4, <1>5, <1>6, <1>7, <1>8, <1>9, <1>10, <1>11,
     <1>12 DEF Next, Run

\* The map agrees with every answer.
LEMMA MemoryStep == IInv /\ [Next]_vars => MemoryAgrees'
<1> SUFFICES ASSUME IInv, [Next]_vars PROVE MemoryAgrees'
  OBVIOUS
<1> USE ValueAssumption DEF IInv, TypeOK, Contents, Saving, Calls,
      CallsInOrder, SavesWhatIsHeld, FileParses, AnswersSurvive, MemoryAgrees,
      FileNames
<1>1. CASE Open
  BY <1>1 DEF Open
<1>2. ASSUME NEW c \in Callers, Claim(c) PROVE MemoryAgrees'
  BY <1>2 DEF Claim, Lock, StartSave
<1>3. ASSUME NEW c \in Callers, Claimed(c) PROVE MemoryAgrees'
  BY <1>3 DEF Claimed, Lock, Finish
<1>4. ASSUME NEW c \in Callers, Release(c) PROVE MemoryAgrees'
  BY <1>4 DEF Release, Lock, StartSave
<1>5. ASSUME NEW c \in Callers, NEW call \in Calls, Call(c, call) PROVE MemoryAgrees'
  BY <1>5 DEF Call
<1>6. ASSUME NEW c \in Callers, NEW at \in Saving, Fail(c, at) PROVE MemoryAgrees'
  BY <1>6 DEF Fail, Return, Finish
<1>7. ASSUME NEW c \in Callers, CreateTemp(c) PROVE MemoryAgrees'
  BY <1>7 DEF CreateTemp
<1>8. ASSUME NEW c \in Callers, Write(c) PROVE MemoryAgrees'
  BY <1>8 DEF Write
<1>9. ASSUME NEW c \in Callers, CloseTemp(c) PROVE MemoryAgrees'
  BY <1>9 DEF CloseTemp
<1>10. ASSUME NEW c \in Callers, Rename(c) PROVE MemoryAgrees'
  BY <1>10 DEF Rename, Return, Finish
<1>11. CASE Kill
  BY <1>11 DEF Kill
<1>12. CASE UNCHANGED vars
  BY <1>12 DEF vars
<1>q. QED
  BY <1>1, <1>2, <1>3, <1>4, <1>5, <1>6, <1>7, <1>8, <1>9, <1>10, <1>11,
     <1>12 DEF Next, Run

\* An absent file is an empty store, and nobody was answered yet.
LEMMA IInvInit == Init => IInv
BY ValueAssumption
DEF Init, IInv, TypeOK, Contents, Saving, CallsInOrder, SavesWhatIsHeld,
   FileParses,
    AnswersSurvive, MemoryAgrees, FileNames

\* The store's map, mutex, file and answers fit together (Claim, Release, save,
\* Open) in every reachable state.
THEOREM Inductive == Spec => []IInv
<1>1. IInv /\ [Next]_vars => IInv'
  <2> SUFFICES ASSUME IInv, [Next]_vars PROVE IInv'
    OBVIOUS
  <2>q. QED
    BY TypeStep, CallsInOrderStep, SavesStep, FileParsesStep, AnswersStep,
       MemoryStep DEF IInv
<1>q. QED
  BY <1>1, IInvInit, PTL DEF Spec

\* Every reachable state of the store is well typed (Open, Claim, Release, save).
THEOREM TypeCorrect == Spec => []TypeOK
<1>1. IInv => TypeOK
  BY DEF IInv
<1>q. QED
  BY <1>1, Inductive, PTL

\* Calls exclude each other through the whole of save: what is renamed over
\* claims.json is the map as it is then (mu in Claim, Release and save).
THEOREM SavesExcludeEachOther == Spec => []SavesWhatIsHeld
<1>1. IInv => SavesWhatIsHeld
  BY DEF IInv
<1>q. QED
  BY <1>1, Inductive, PTL

\* Whatever fails, and whenever the process dies, claims.json parses (save writes
\* a temporary file and renames it when it is complete).
THEOREM FileAlwaysParses == Spec => []FileParses
<1>1. IInv => FileParses
  BY DEF IInv
<1>q. QED
  BY <1>1, Inductive, PTL

\* What a caller of Claim or Release was told is what the file says, through
\* failed saves, deaths and restarts.
THEOREM NoAnswerIsLost == Spec => []AnswersSurvive
<1>1. IInv => AnswersSurvive
  BY DEF IInv
<1>q. QED
  BY <1>1, Inductive, PTL

\* A running store never contradicts an answer: a name granted to one caller is
\* not granted to another (Claim).
THEOREM MemoryKeepsAnswers == Spec => []MemoryAgrees
<1>1. IInv => MemoryAgrees
  BY DEF IInv
<1>q. QED
  BY <1>1, Inductive, PTL

-----------------------------------------------------------------------------
(* The store keeps the contract of a set of claims. *)

Pending == {<<c, op[c]>> : c \in {d \in Callers : pc[d] \in Saving}}

\* Whoever saves is the only one.
LEMMA OneSaves ==
    ASSUME IInv
    PROVE  /\ mu = None => Pending = {}
           /\ \A c \in Callers : pc[c] \in Saving => Pending = {<<c, op[c]>>}
<1>1. \A c \in Callers : mu = c <=> pc[c] \in Saving
  BY DEF IInv, SavesWhatIsHeld
<1>. QED
  BY <1>1, ValueAssumption DEF Pending

LEMMA OneSavesNext ==
    ASSUME IInv'
    PROVE  /\ mu' = None => Pending' = {}
           /\ \A c \in Callers : pc'[c] \in Saving => Pending' = {<<c, op'[c]>>}
<1>1. \A c \in Callers : mu' = c <=> pc'[c] \in Saving
  BY DEF IInv, SavesWhatIsHeld
<1>. QED
  BY <1>1, ValueAssumption DEF Pending

LEMMA StoreInit == Init => Store!Init
<1> SUFFICES ASSUME Init PROVE Store!Init
  OBVIOUS
<1>1. \A c \in Callers : pc[c] \notin Saving
  BY DEF Init, Saving
<1>. QED
  BY <1>1 DEF Init, FileNames, Store!Init

\* Claim and Release change the map, and nothing is kept yet.
LEMMA StoreChange ==
    ASSUME IInv, IInv', NEW c \in Callers, Claim(c) \/ Release(c)
    PROVE  Store!Next
<1>1. /\ TypeOK /\ CallsInOrder /\ op[c] \in Calls
  BY DEF IInv, CallsInOrder, Claim, Release, Lock
<1>2. PICK n \in Names : n = op[c].name /\ op[c] = [do |-> op[c].do, name |-> n]
  BY <1>1 DEF Calls
<1>3. /\ up /\ mu = None /\ pc'[c] \in Saving /\ op'[c] = op[c] /\ up' = up
      /\ FileNames' = FileNames
  BY <1>1 DEF Claim, Release, Lock, StartSave, Saving, TypeOK, FileNames
<1>4. Pending = {} /\ Pending' = {<<c, op[c]>>}
  BY <1>3, OneSaves, OneSavesNext
<1>5. CASE Claim(c)
  <2>1. op[c].do = "claim"
    BY <1>5 DEF Claim, Lock
  <2>2. Store!Claim(c, n)
    BY <1>2, <1>3, <1>4, <1>5, <2>1 DEF Claim, Pending, Store!Claim
  <2>. QED
    BY <1>2, <2>2 DEF Store!Next
<1>6. CASE Release(c)
  <2>1. op[c].do = "release"
    BY <1>6 DEF Release, Lock
  <2>2. Store!Release(c, n)
    BY <1>2, <1>3, <1>4, <1>6, <2>1 DEF Release, Pending, Store!Release
  <2>. QED
    BY <1>2, <2>2 DEF Store!Next
<1>. QED
  BY <1>5, <1>6

\* A save keeps the whole map in its last step, and otherwise nothing.
LEMMA StoreReturn ==
    ASSUME IInv, IInv', NEW c \in Callers,
           Rename(c) \/ \E at \in Saving : Fail(c, at)
    PROVE  Store!Next
<1>1. TypeOK /\ pc[c] \in Saving /\ op[c] \in Calls
  BY DEF IInv, CallsInOrder, Rename, Fail, Saving
<1>2. Pending = {<<c, op[c]>>}
  BY <1>1, OneSaves
<1>3. mu' = None /\ UNCHANGED <<up, names>>
  BY DEF Rename, Fail, Return, Finish
<1>4. Pending' = {}
  BY <1>3, OneSavesNext
<1>5. CASE Rename(c)
  <2>1. names \in SUBSET Names /\ tmp = names
    BY <1>1, <1>5 DEF IInv, SavesWhatIsHeld, Rename, TypeOK, Contents
  <2>2. FileNames' = names
    BY <1>5, <2>1, ValueAssumption DEF Rename, FileNames
  <2>3. PICK change \in Pending : change = <<c, op[c]>>
    BY <1>2
  <2>4. Store!Keep(change)
    BY <1>1, <1>2, <1>3, <1>4, <1>5, <2>2, <2>3
       DEF Rename, Return, Calls, Pending, Store!Keep
  <2>. QED
    BY <2>3, <2>4 DEF Pending, Store!Next
<1>6. ASSUME NEW at \in Saving, Fail(c, at) PROVE Store!GiveUp
  <2>1. UNCHANGED <<FileNames, held, freed>>
    BY <1>6 DEF Fail, Return, FileNames
  <2>. QED
    BY <1>2, <1>3, <1>4, <2>1 DEF Pending, Store!GiveUp
<1>. QED
  BY <1>5, <1>6 DEF Store!Next

\* The steps in between are not seen.
LEMMA StoreStutter ==
    ASSUME IInv, IInv', NEW c \in Callers,
           \/ Claimed(c) \/ CreateTemp(c) \/ Write(c) \/ CloseTemp(c)
           \/ \E call \in Calls : Call(c, call)
    PROVE  UNCHANGED Store!vars
<1>1. TypeOK
  BY DEF IInv
<1>2. /\ UNCHANGED <<up, names, held, freed, FileNames>>
      /\ \A d \in Callers : d # c => pc'[d] = pc[d] /\ op'[d] = op[d]
      /\ pc'[c] \in Saving <=> pc[c] \in Saving
      /\ pc[c] \in Saving => op'[c] = op[c]
  BY <1>1 DEF Claimed, CreateTemp, Write, CloseTemp, Call, Lock, Finish, Saving,
              FileNames, TypeOK
<1>3. Pending' = Pending
  BY <1>2 DEF Pending
<1>. QED
  BY <1>2, <1>3 DEF Pending, Store!vars

\* A death and a restart.
LEMMA StoreRestart ==
    ASSUME IInv, IInv', Open \/ Kill
    PROVE  Store!Next
<1>1. CASE Open
  <2>1. UNCHANGED <<FileNames, Pending>>
    BY <1>1 DEF Open, FileNames, Pending
  <2>2. Store!Open
    BY <1>1, <2>1 DEF Open, FileNames, Pending, Store!Open
  <2>. QED
    BY <2>2 DEF Store!Next
<1>2. CASE Kill
  <2>1. FileNames' = FileNames /\ mu' = None
    BY <1>2 DEF Kill, FileNames
  <2>2. Pending' = {}
    BY <2>1, OneSavesNext
  <2>3. Store!Die
    BY <1>2, <2>1, <2>2 DEF Kill, Pending, Store!Die
  <2>. QED
    BY <2>3 DEF Store!Next
<1>. QED
  BY <1>1, <1>2

\* The map, the mutex, the temporary file and the rename implement a set of
\* claims that survives failures and restarts (Open, Claim, Release, save).
THEOREM ImplementsClaimSet == Spec => StoreSpec
<1>1. ASSUME IInv, IInv', [Next]_vars PROVE [Store!Next]_Store!vars
  <2>1. CASE Open \/ Kill
    BY <1>1, <2>1, StoreRestart
  <2>2. ASSUME NEW c \in Callers, Run(c) \/ \E call \in Calls : Call(c, call)
        PROVE  [Store!Next]_Store!vars
    BY <1>1, <2>2, StoreChange, StoreReturn, StoreStutter DEF Run
  <2>3. CASE UNCHANGED vars
    BY <2>3 DEF vars, FileNames, Store!vars
  <2>. QED
    BY <1>1, <2>1, <2>2, <2>3 DEF Next
<1>. QED
  BY StoreInit, <1>1, Inductive, PTL DEF Spec, StoreSpec, Store!Spec
=============================================================================
