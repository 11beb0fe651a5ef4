-------------------------- MODULE FileStoreProofs --------------------------
(***************************************************************************)
(* Proofs about FileStore and InstallId, for every set of tasks, mutexes   *)
(* and values and every length of their texts.                             *)
(***************************************************************************)
EXTENDS InstallId, TLAPS

LEMMA TypeInit == Init => TypeOK
  <1>1. Absent \in Files
    BY DEF Absent, Files
  <1> QED
    BY <1>1, Zenon DEF Init, TypeOK

\* The text is written, and whatever the call then answers.
LEMMA WriteType ==
    ASSUME TypeOK, NEW t \in Tasks, WriteText(t), UNCHANGED mutex,
           got' \in [Tasks -> Values \cup {NoValue, Error}]
    PROVE  TypeOK'
  <1>1. file' \in Files
    BY SizeAssumption DEF TypeOK, WriteText, Files
  <1> QED
    BY <1>1 DEF TypeOK, WriteText

LEMMA StepType ==
    ASSUME TypeOK, NEW t \in Tasks, Step(t), UNCHANGED mutex
    PROVE  TypeOK'
  <1> USE ErrorAssumption
  <1>1. CASE Open(t)
    BY <1>1 DEF TypeOK, Open, Free, Writing, EmptyFile, Files
  <1>2. CASE Write(t)
    BY <1>2, WriteType DEF TypeOK, Write
  <1>3. CASE Break(t)
    <2>1. file' \in Files
      BY <1>3 DEF TypeOK, Break, Files
    <2> QED
      BY <1>3, <2>1 DEF TypeOK, Break
  <1>4. CASE Clear(t)
    BY <1>4 DEF TypeOK, Clear, Writing, Absent, Files
  <1>5. CASE Load(t)
    <2>1. Parsed(file) \in Values \cup {NoValue, Error}
      BY DEF TypeOK, Parsed, Files
    <2> QED
      BY <1>5, <2>1 DEF TypeOK, Load
  <1> QED
    BY <1>1, <1>2, <1>3, <1>4, <1>5 DEF Step

LEMMA TypeStep == TypeOK /\ [Next]_vars => TypeOK'
  BY StepType DEF Next, vars, TypeOK

\* The types, and that no two tasks write under one mutex.
THEOREM TypeCorrect == Spec => []TypeOK
  BY TypeInit, TypeStep, PTL DEF Spec

-----------------------------------------------------------------------------
(***************************************************************************)
(* FileIsLast.  While the file is not torn at most one task writes, to the *)
(* file that it emptied itself.                                            *)
(***************************************************************************)
LastInv ==
    ~torn => /\ \A t, u \in Writing : t = u
             /\ \A t \in Writing : file.len = 0 /\ t \notin unlinked
             /\ FileIsLast

LEMMA LastInit == Init => LastInv
  BY DEF Init, LastInv, FileIsLast, Writing, Parsed, Absent

\* A text written to an empty file is parsed to its value.
LEMMA Written ==
    ASSUME TypeOK, NEW t \in Tasks, WriteText(t), file.len = 0, t \notin unlinked
    PROVE  Parsed(file') = new[t]
  <1>1. new[t] \in Values /\ Size[new[t]] \in Nat \ {0} /\ new[t] # NoValue
    BY SizeAssumption, ErrorAssumption DEF TypeOK, WriteText
  <1>2. file' = [head |-> new[t], len |-> Size[new[t]]]
    BY <1>1 DEF WriteText
  <1> QED
    BY <1>1, <1>2 DEF Parsed

LEMMA LastStep == TypeOK /\ LastInv /\ [Next]_vars => LastInv'
  <1> SUFFICES ASSUME TypeOK, LastInv, [Next]_vars PROVE LastInv'
    OBVIOUS
  <1>1. ASSUME NEW t \in Tasks, Open(t) PROVE LastInv'
    <2>1. CASE Writing = {}
      <3>1. Writing' = {t} /\ unlinked = {}
        BY <1>1, <2>1 DEF TypeOK, Open, Writing
      <3> QED
        BY <1>1, <3>1 DEF LastInv, FileIsLast, Open, EmptyFile
    <2>2. CASE Writing # {}
      BY <1>1, <2>2 DEF LastInv, Open
    <2> QED
      BY <2>1, <2>2
  <1>2. ASSUME NEW t \in Tasks, WriteText(t) PROVE LastInv'
    <2>1. SUFFICES ASSUME ~torn PROVE LastInv'
      BY <1>2 DEF LastInv, WriteText
    <2>2. t \in Writing /\ file.len = 0 /\ t \notin unlinked
      BY <1>2, <2>1 DEF LastInv, WriteText, Writing
    <2>3. Writing' = {}
      BY <1>2, <2>1, <2>2 DEF LastInv, WriteText, Writing, TypeOK
    <2>4. Parsed(file') = last'
      BY <1>2, <2>2, Written DEF WriteText
    <2> QED
      BY <2>3, <2>4 DEF LastInv, FileIsLast, Parsed
  <1>3. ASSUME NEW t \in Tasks, Break(t) PROVE LastInv'
    BY <1>3 DEF LastInv, Break
  <1>4. ASSUME NEW t \in Tasks, Clear(t) PROVE LastInv'
    <2>1. Writing' = Writing
      BY <1>4 DEF Clear, Writing
    <2> QED
      BY <1>4, <2>1 DEF LastInv, FileIsLast, Clear, Parsed, Absent
  <1>5. ASSUME NEW t \in Tasks, Load(t) PROVE LastInv'
    BY <1>5 DEF LastInv, FileIsLast, Load, Parsed, Writing
  <1>6. CASE UNCHANGED vars
    BY <1>6 DEF LastInv, FileIsLast, vars, Parsed, Writing
  <1> QED
    BY <1>1, <1>2, <1>3, <1>4, <1>5, <1>6 DEF Next, Step, Write

\* With nobody writing, the file holds what was saved or cleared last, unless it
\* was torn.
THEOREM LastHeld == Spec => []FileIsLast
  <1>1. LastInv => FileIsLast
    BY DEF LastInv, FileIsLast
  <1> QED
    BY TypeInit, TypeStep, LastInit, LastStep, <1>1, PTL DEF Spec

-----------------------------------------------------------------------------
(***************************************************************************)
(* ImplementsRegister.  Behind one mutex one task at most is writing, and  *)
(* nobody removes the file from under it.                                  *)
(***************************************************************************)
StoreInv == OneStore => unlinked = {} /\ \A t \in Writing : file.len = 0

LEMMA StoreStep == TypeOK /\ StoreInv /\ [Next]_vars => StoreInv'
  <1> SUFFICES ASSUME TypeOK, StoreInv, [Next]_vars, OneStore PROVE StoreInv'
    BY DEF StoreInv, OneStore, Next, vars
  <1>1. \A t \in Tasks : Free(t) => Writing = {}
    BY DEF Free, OneStore, Writing
  <1>2. \A t, u \in Writing : t = u
    BY DEF TypeOK, OneStore, Writing
  <1>3. ASSUME NEW t \in Tasks, Open(t) PROVE StoreInv'
    BY <1>3 DEF StoreInv, Open, EmptyFile
  <1>4. ASSUME NEW t \in Tasks, WriteText(t) PROVE StoreInv'
    <2>1. Writing' = {}
      BY <1>2, <1>4 DEF TypeOK, WriteText, Writing
    <2> QED
      BY <1>4, <2>1 DEF StoreInv, WriteText
  <1>5. ASSUME NEW t \in Tasks, Break(t) PROVE StoreInv'
    <2>1. Writing' = {}
      BY <1>2, <1>5 DEF TypeOK, Break, Writing
    <2> QED
      BY <1>5, <2>1 DEF StoreInv, Break
  <1>6. ASSUME NEW t \in Tasks, Clear(t) PROVE StoreInv'
    BY <1>1, <1>6 DEF StoreInv, Clear, Writing
  <1>7. ASSUME NEW t \in Tasks, Load(t) PROVE StoreInv'
    BY <1>7 DEF StoreInv, Load, Writing
  <1>8. CASE UNCHANGED vars
    BY <1>8 DEF StoreInv, vars, Writing
  <1> QED
    BY <1>3, <1>4, <1>5, <1>6, <1>7, <1>8 DEF Next, Step, Write

LEMMA RegisterInit == Init => R!Init
  BY DEF Init, R!Init, Writing, Parsed, Absent, Kept

LEMMA RegisterStep ==
    TypeOK /\ StoreInv /\ [Next]_vars =>
        [R!Next]_<<IF OneStore THEN Kept ELSE NoValue,
                   IF OneStore THEN got ELSE [t \in Tasks |-> NoValue]>>
  <1> DEFINE value == IF OneStore THEN Kept ELSE NoValue
             answers == IF OneStore THEN got ELSE [t \in Tasks |-> NoValue]
  <1> SUFFICES ASSUME TypeOK, StoreInv, [Next]_vars PROVE [R!Next]_<<value, answers>>
    OBVIOUS
  <1>0. mutex' = mutex
    BY DEF Next, vars
  <1>1. CASE ~OneStore
    BY <1>0, <1>1 DEF OneStore
  <1>2. CASE OneStore
    <2>1. OneStore' /\ value = Kept /\ value' = Kept' /\ answers = got /\ answers' = got'
      BY <1>0, <1>2 DEF OneStore
    <2>2. \A t \in Tasks : Free(t) => Writing = {}
      BY <1>2 DEF Free, OneStore, Writing
    <2>3. \A t, u \in Writing : t = u
      BY <1>2 DEF TypeOK, OneStore, Writing
    <2>4. \A t \in Writing : Kept = new[t] /\ file.len = 0 /\ t \notin unlinked
      BY <1>2, <2>3 DEF Kept, StoreInv
    <2>5. ASSUME NEW t \in Tasks, Open(t) PROVE R!Save
      <3>1. Writing' = {t} /\ new'[t] \in Values /\ got' = got
        BY <2>2, <2>5 DEF Open, Writing, TypeOK
      <3> QED
        BY <2>1, <3>1 DEF Kept, R!Save
    <2>6. ASSUME NEW t \in Tasks, Write(t) PROVE value' = value /\ answers' = answers
      <3>1. t \in Writing /\ WriteText(t) /\ got' = got
        BY <2>6 DEF Write, WriteText, Writing
      <3>2. Writing' = {}
        BY <2>3, <3>1 DEF TypeOK, WriteText, Writing
      <3>3. Parsed(file') = new[t]
        BY <2>4, <3>1, Written
      <3> QED
        BY <2>1, <2>4, <3>1, <3>2, <3>3 DEF Kept, Parsed
    <2>7. ASSUME NEW t \in Tasks, Break(t) PROVE R!Clear \/ R!CutOff
      <3>1. t \in Writing /\ got' = got
        BY <2>7 DEF Break, Writing
      <3>2. Writing' = {}
        BY <2>3, <2>7 DEF TypeOK, Break, Writing
      <3>3. Kept' = Parsed(file)'
        BY <3>2 DEF Kept
      <3>4. CASE file' = file
        BY <2>1, <2>4, <3>1, <3>3, <3>4 DEF Parsed, R!Clear
      <3>5. CASE file' = [head |-> NoValue, len |-> IF file.len > 1 THEN file.len ELSE 1]
        <4>1. file'.head = NoValue /\ file'.len = 1
          BY <2>4, <3>1, <3>5
        <4> QED
          BY <2>1, <3>1, <3>3, <4>1 DEF Parsed, R!CutOff
      <3> QED
        BY <2>7, <3>4, <3>5 DEF Break
    <2>8. ASSUME NEW t \in Tasks, Clear(t) PROVE R!Clear
      <3>1. Writing' = {} /\ got' = got /\ file'.len = 0
        BY <2>2, <2>8 DEF Clear, Writing, Absent
      <3> QED
        BY <2>1, <3>1 DEF Kept, Parsed, R!Clear
    <2>9. ASSUME NEW t \in Tasks, Load(t) PROVE R!Load(t)
      <3>1. Writing = {} /\ Writing' = {} /\ file' = file
        BY <2>2, <2>9 DEF Load, Writing
      <3>2. Kept = Parsed(file) /\ Kept' = Kept
        BY <3>1 DEF Kept, Parsed
      <3> QED
        BY <2>1, <2>9, <3>2 DEF Load, R!Load
    <2>10. CASE UNCHANGED vars
      <3>1. Writing' = Writing /\ Kept' = Kept /\ got' = got
        BY <2>10 DEF vars, Writing, Kept, Parsed
      <3> QED
        BY <2>1, <3>1
    <2> QED
      BY <2>5, <2>6, <2>7, <2>8, <2>9, <2>10 DEF Next, Step, R!Next
  <1> QED
    BY <1>1, <1>2

\* The file behind one mutex implements the register, whatever its values are and
\* wherever a save is cut off.
THEOREM RegisterImplemented == Spec => ImplementsRegister
  <1>1. Init => StoreInv
    BY DEF Init, StoreInv, Writing
  <1> QED
    BY TypeInit, TypeStep, StoreStep, RegisterInit, RegisterStep, <1>1, PTL
    DEF Spec, ImplementsRegister, R!Spec

-----------------------------------------------------------------------------
(***************************************************************************)
(* OneId, of InstallId.                                                    *)
(***************************************************************************)
\* As long as no two calls create an id at once: the one that does found no id,
\* and no call has answered one yet; whatever a call answered is in the file.
IdInv ==
    /\ TypeOK
    /\ ids => \A t \in creating : t \in Tasks /\ pc[t] = "idle"
    /\ ~ids => creating = {}
    /\ ids => unlinked = {}
    /\ ids /\ ~raced =>
          /\ \A t, u \in creating \cup Writing : t = u
          /\ creating \cup Writing # {} =>
                file.len = 0 /\ \A t \in Tasks : got[t] = NoValue
          /\ \A t \in Tasks : got[t] # NoValue => got[t] = Parsed(file)

LEMMA IdInit == AnyInit => IdInv
  BY TypeInit DEF AnyInit, Init, IdInv, Writing

\* A text that is parsed to nothing is empty.
LEMMA Blank == ASSUME TypeOK, Parsed(file) = NoValue PROVE file.len = 0
  BY ErrorAssumption DEF TypeOK, Files, Parsed

\* Of the one call that creates an id, the outcome of its write.
LEMMA Ended ==
    ASSUME IdInv, ids, ~raced, NEW t \in Writing,
           pc' = [pc EXCEPT ![t] = "idle"], creating' = creating
    PROVE  /\ creating' \cup Writing' = {}
           /\ \A u \in Tasks : got[u] = NoValue
           /\ file.len = 0 /\ t \notin unlinked
  <1>1. creating = {} /\ Writing = {t}
    BY DEF IdInv, Writing
  <1>2. Writing' = {}
    BY <1>1 DEF IdInv, TypeOK, Writing
  <1> QED
    BY <1>1, <1>2 DEF IdInv

LEMMA IdKept == IdInv /\ [AnyNext]_idVars => IdInv'
  <1> SUFFICES ASSUME IdInv, [AnyNext]_idVars PROVE IdInv'
    OBVIOUS
  <1>1. ASSUME NEW t \in Tasks, ids, Find(t), UNCHANGED <<mutex, ids>> PROVE IdInv'
    <2>1. TypeOK'
      <3>1. Parsed(file) \in Values \cup {NoValue, Error}
        BY DEF IdInv, TypeOK, Parsed, Files
      <3> QED
        BY <1>1, <3>1 DEF IdInv, TypeOK, Find
    <2>2. Writing' = Writing /\ Parsed(file)' = Parsed(file)
      BY <1>1 DEF Find, Writing, Parsed
    <2>3. CASE Parsed(file) # NoValue
      <3>1. file.len # 0
        BY <2>3 DEF Parsed
      <3> QED
        BY <1>1, <2>1, <2>2, <2>3, <3>1 DEF IdInv, Find, TypeOK
    <2>4. CASE Parsed(file) = NoValue
      <3>1. file.len = 0 /\ \A u \in Tasks : ids /\ ~raced => got[u] = NoValue
        BY <2>4, Blank DEF IdInv
      <3>2. creating' = creating \cup {t} /\ UNCHANGED <<file, pc, got, unlinked>>
        BY <1>1, <2>4 DEF Find
      <3>3. ~raced' => ~raced /\ creating \cup Writing = {}
        BY <1>1, <2>4, Zenon DEF Find
      <3>4. ids' /\ pc[t] = "idle"
        BY <1>1 DEF Find
      <3>5. ids' = ids /\ ids
        BY <1>1
      <3>6. CASE raced'
        BY <2>1, <3>2, <3>4, <3>5, <3>6 DEF IdInv
      <3>7. CASE ~raced'
        <4>1. creating' \cup Writing' = {t} /\ \A u \in Tasks : got'[u] = NoValue
          BY <2>2, <3>1, <3>2, <3>3, <3>5, <3>7
        <4> QED
          BY <2>1, <3>1, <3>2, <3>4, <3>5, <4>1 DEF IdInv
      <3> QED
        BY <3>6, <3>7
    <2> QED
      BY <2>3, <2>4
  <1>2. ASSUME NEW t \in Tasks, ids, Create(t), UNCHANGED <<mutex, ids>> PROVE IdInv'
    <2>1. TypeOK'
      BY <1>2, StepType DEF IdInv, Create, Step
    <2>2. Writing' = Writing \cup {t} /\ file' = EmptyFile
      BY <1>2 DEF IdInv, TypeOK, Create, Open, Writing
    <2> QED
      BY <1>2, <2>1, <2>2 DEF IdInv, Create, Open, Parsed, EmptyFile
  <1>3. ASSUME NEW t \in Tasks, ids, Return(t), UNCHANGED <<mutex, ids>> PROVE IdInv'
    <2>1. TypeOK'
      <3>1. got' \in [Tasks -> Values \cup {NoValue, Error}]
        BY <1>3 DEF IdInv, TypeOK, Return
      <3> QED
        BY <1>3, <3>1, WriteType DEF IdInv, Return
    <2>2. t \in Writing
      BY <1>3 DEF Return, WriteText, Writing
    <2>3. CASE ids /\ ~raced
      <3>1. /\ creating' \cup Writing' = {} /\ \A u \in Tasks : got[u] = NoValue
            /\ file.len = 0 /\ t \notin unlinked
        BY <1>3, <2>2, <2>3, Ended DEF Return, WriteText
      <3>2. Parsed(file') = new[t]
        BY <1>3, <3>1, Written DEF Return, IdInv
      <3>3. \A u \in Tasks : got'[u] # NoValue => got'[u] = Parsed(file')
        BY <1>3, <3>1, <3>2 DEF Return, IdInv, TypeOK
      <3> QED
        BY <1>3, <2>1, <2>3, <3>1, <3>3 DEF IdInv, Return, WriteText, Parsed
    <2>4. CASE ~(ids /\ ~raced)
      BY <1>3, <2>1, <2>4 DEF IdInv, TypeOK, Return, WriteText
    <2> QED
      BY <2>3, <2>4
  <1>4. ASSUME NEW t \in Tasks, ids, Fail(t), UNCHANGED <<mutex, ids>> PROVE IdInv'
    <2>1. TypeOK' /\ Writing' = Writing
      BY <1>4 DEF IdInv, TypeOK, Fail, vars, Writing
    <2> QED
      BY <1>4, <2>1 DEF IdInv, Fail, vars, Parsed
  <1>5. ASSUME NEW t \in Tasks, ids, CutOff(t), UNCHANGED <<mutex, ids>> PROVE IdInv'
    <2>1. TypeOK'
      BY <1>5, StepType DEF IdInv, CutOff, Step
    <2>2. t \in Writing
      BY <1>5 DEF CutOff, Break, Writing
    <2>3. CASE ids /\ ~raced
      <3>1. /\ creating' \cup Writing' = {} /\ \A u \in Tasks : got[u] = NoValue
        BY <1>5, <2>2, <2>3, Ended DEF CutOff, Break
      <3> QED
        BY <1>5, <2>1, <2>3, <3>1 DEF IdInv, CutOff, Break
    <2>4. CASE ~(ids /\ ~raced)
      BY <1>5, <2>1, <2>4 DEF IdInv, TypeOK, CutOff, Break
    <2> QED
      BY <2>3, <2>4
  <1>6. ASSUME NEW t \in Tasks, ~ids, Step(t), UNCHANGED <<creating, raced, mutex, ids>>
        PROVE  IdInv'
    <2>1. TypeOK'
      BY <1>6, StepType DEF IdInv
    <2> QED
      BY <1>6, <2>1 DEF IdInv
  <1>7. CASE UNCHANGED idVars
    <2>1. TypeOK' /\ Writing' = Writing /\ Parsed(file)' = Parsed(file)
      BY <1>7 DEF IdInv, idVars, vars, TypeOK, Writing, Parsed
    <2> QED
      BY <1>7, <2>1 DEF IdInv, idVars, vars
  <1> QED
    BY <1>1, <1>2, <1>3, <1>4, <1>5, <1>6, <1>7 DEF AnyNext, IdStep

\* Calls answer one id, unless two of them were creating it at once.
THEOREM IdIsStable == AnySpec => []OneId
  <1>1. IdInv => OneId
    BY DEF IdInv, OneId
  <1> QED
    BY IdInit, IdKept, <1>1, PTL DEF AnySpec
=============================================================================
