-------------------------- MODULE StateFilesProofs --------------------------
(***************************************************************************)
(* Proofs about StateFiles: calibration.json is never a part of a store and *)
(* is shared as SharedStore says, and the records of the decision log never *)
(* mix, for any number of processes, repositories and earlier sessions.     *)
(***************************************************************************)
EXTENDS StateFiles, FiniteSetTheorems, TLAPS

USE StateFilesConstantsOK

Saving == {"lock", "write", "rename"}

\* What a process is about to write was computed from the store it holds, and it
\* has synced its temporary file when it renames it.
SavesWhatItRead ==
    \A p \in Processes :
        /\ pc[p] \in {"analyze", "reset"} \cup Saving => view[p] \in Stores
        /\ pc[p] \in Saving => \E o \in Offsets : next[p] = [view[p] EXCEPT ![cmd[p].repo] = o]
        /\ pc[p] = "write" => temp[p] \in {"partial", "written"}
        /\ pc[p] = "rename" => temp[p] = "synced"
FilesAreSynced == file.state = "synced" /\ disk.state = "synced"
StoreInv == TypeOK /\ SavesWhatItRead /\ FilesAreSynced

-----------------------------------------------------------------------------
LEMMA RepoOfProcess ==
    ASSUME TypeOK, NEW p \in Processes
    PROVE  cmd[p] \in Command /\ cmd[p].repo \in Repos
  <1>1. cmd \in [Processes \cup Past -> Command]
    BY DEF TypeOK
  <1> QED BY <1>1 DEF Command

LEMMA OffsetsAreClosed ==
    ASSUME NEW counts, NEW current \in Offsets
    PROVE  /\ 0 \in Offsets
           /\ SavedOffset(current, Recommendation(counts)) \in Offsets
  BY DEF Offsets, RecommendedOffset, Recommendation, SavedOffset

LEMMA ChangedStore ==
    ASSUME NEW s \in Stores, NEW repo \in Repos, NEW o \in Offsets
    PROVE  [s EXCEPT ![repo] = o] \in Stores
  BY DEF Stores

LEMMA StoreInit == Init => StoreInv
  <1> SUFFICES ASSUME Init PROVE StoreInv
    OBVIOUS
  <1> USE DEF Init
  <1>1. PICK s \in Stores : file = [value |-> s, state |-> "synced"]
    OBVIOUS
  <1>2. TypeOK
    <2>1. bytes \in Seq(Pieces)
      OBVIOUS
    <2> QED BY <1>1, <2>1 DEF TypeOK, Final, Contents
  <1>3. SavesWhatItRead
    BY DEF SavesWhatItRead, Saving
  <1> QED BY <1>1, <1>2, <1>3 DEF StoreInv, FilesAreSynced

\* The steps on the log and the failing ones leave the files alone.
LEMMA LogSteps ==
    ASSUME StoreInv, NEW p \in Processes,
           LockLog(p) \/ LockTimeout(p) \/ AppendPiece(p) \/ AppendFails(p) \/ ReadFails(p)
    PROVE  StoreInv'
  <1> USE DEF StoreInv, TypeOK, SavesWhatItRead, FilesAreSynced, Saving, Final, Goto, At,
             logVars, storeVars
  <1>1. CASE LockLog(p)
    BY <1>1 DEF LockLog
  <1>2. CASE LockTimeout(p)
    BY <1>2 DEF LockTimeout
  <1>3. CASE AppendPiece(p)
    <2>1. PICK n \in 1..3 :
            /\ pc[p] = Writing[n]
            /\ bytes' = Append(bytes, Piece(p, what[p], n))
            /\ IF n < 3
               THEN pc' = [pc EXCEPT ![p] = Writing[n + 1]] /\ UNCHANGED <<logHolder, what>>
               ELSE /\ logHolder' = Nobody
                    /\ what' = [what EXCEPT ![p] = "feedback"]
                    /\ pc' = [pc EXCEPT ![p] = IF what[p] = "decision" THEN "open" ELSE "load"]
            /\ UNCHANGED <<cmd, earlier, view, storeVars>>
      BY <1>3 DEF AppendPiece
    <2>2. Piece(p, what[p], n) \in Pieces
      BY DEF Piece, Pieces
    <2>3. bytes' \in Seq(Pieces)
      BY <2>1, <2>2
    <2>a. \/ n = 1 /\ pc' = [pc EXCEPT ![p] = "second"]
          \/ n = 2 /\ pc' = [pc EXCEPT ![p] = "newline"]
          \/ n = 3 /\ pc' = [pc EXCEPT ![p] = "open"]
          \/ n = 3 /\ pc' = [pc EXCEPT ![p] = "load"]
      BY <2>1 DEF Writing
    <2>4. pc' \in [Processes -> {"open", "first", "second", "newline", "load", "analyze",
                                 "reset", "lock", "write", "rename", "close"} \cup Final]
          /\ pc'[p] \in {"first", "second", "newline", "open", "load"}
          /\ \A q \in Processes \ {p} : pc'[q] = pc[q]
      BY <2>a
    <2>5. what' \in [Processes -> {"decision", "feedback"}] /\ logHolder' \in Processes \cup {Nobody}
      BY <2>1
    <2> QED BY <2>1, <2>3, <2>4, <2>5
  <1>4. CASE AppendFails(p)
    BY <1>4 DEF AppendFails
  <1>5. CASE ReadFails(p)
    BY <1>5 DEF ReadFails
  <1> QED BY <1>1, <1>2, <1>3, <1>4, <1>5

LEMMA StoreSteps ==
    ASSUME StoreInv, NEW p \in Processes,
           LoadStore(p) \/ Analyze(p) \/ Reset(p) \/ LockStore(p) \/ WriteTemp(p)
              \/ WriteFails(p) \/ Rename(p) \/ CloseStore(p)
    PROVE  StoreInv'
  <1> USE DEF StoreInv, TypeOK, SavesWhatItRead, FilesAreSynced, Saving, Final, Goto, At,
             logVars, storeVars
  <1>1. CASE LoadStore(p)
    BY <1>1 DEF LoadStore
  <1>2. ASSUME NEW o \in Offsets, Save(p, o), pc[p] \in {"analyze", "reset"} PROVE StoreInv'
    <2>1. view[p] \in Stores /\ cmd[p].repo \in Repos
      BY <1>2, RepoOfProcess
    <2>2. [view[p] EXCEPT ![cmd[p].repo] = o] \in Stores
      BY <2>1, ChangedStore
    <2>3. CASE o = view[p][cmd[p].repo]
      BY <1>2, <2>3 DEF Save
    <2>4. CASE o # view[p][cmd[p].repo]
      <3> DEFINE n == [view[p] EXCEPT ![cmd[p].repo] = o]
      <3>1. next' = [next EXCEPT ![p] = n] /\ pc' = [pc EXCEPT ![p] = "lock"]
            /\ UNCHANGED <<cmd, earlier, bytes, logHolder, file, disk, storeHolder, what, view, temp>>
        BY <1>2, <2>4 DEF Save
      <3>2. n \in Stores
        BY <2>2
      <3>3. TypeOK' /\ FilesAreSynced'
        <4> HIDE DEF n
        <4> QED BY <3>1, <3>2
      <3>4. next'[p] = [view'[p] EXCEPT ![cmd'[p].repo] = o]
        BY <3>1
      <3>5. SavesWhatItRead'
        <4> HIDE DEF n
        <4> QED BY <3>1, <3>4, <2>1
      <3> QED BY <3>3, <3>5
    <2> QED BY <2>3, <2>4
  <1>3. CASE Analyze(p)
    <2> DEFINE o == SavedOffset(view[p][cmd[p].repo], Recommendation(CountsIn(bytes, cmd[p].repo)))
    <2>1. view[p][cmd[p].repo] \in Offsets
      BY <1>3, RepoOfProcess DEF Analyze, Stores
    <2>2. o \in Offsets
      BY <2>1, OffsetsAreClosed
    <2> QED BY <1>2, <1>3, <2>2 DEF Analyze
  <1>4. CASE Reset(p)
    BY <1>2, <1>4 DEF Reset, Offsets
  <1>5. CASE LockStore(p)
    BY <1>5 DEF LockStore, Contents
  <1>6. CASE WriteTemp(p)
    <2>1. CASE temp[p] = "partial"
      BY <1>6, <2>1 DEF WriteTemp, Contents
    <2>2. CASE temp[p] # "partial"
      <3>1. /\ temp' = [temp EXCEPT ![p] = "synced"]
            /\ pc' = [pc EXCEPT ![p] = "rename"] /\ pc[p] = "write"
            /\ UNCHANGED <<cmd, earlier, bytes, logHolder, file, disk, storeHolder, what, view, next>>
        BY <1>6, <2>2 DEF WriteTemp
      <3>2. TypeOK'
        BY <3>1 DEF Contents
      <3> QED BY <3>1, <3>2
    <2> QED BY <2>1, <2>2
  <1>7. CASE WriteFails(p)
    BY <1>7 DEF WriteFails, Contents
  <1>8. CASE Rename(p)
    <2>1. PICK o \in Offsets : next[p] = [view[p] EXCEPT ![cmd[p].repo] = o]
      BY <1>8 DEF Rename
    <2>2. next[p] \in Stores
      <3>1. view[p] \in Stores
        BY <1>8 DEF Rename
      <3>2. [view[p] EXCEPT ![cmd[p].repo] = o] \in Stores
        BY <3>1, RepoOfProcess, ChangedStore
      <3> QED BY <2>1, <3>2
    <2>3. temp[p] = "synced"
      BY <1>8 DEF Rename
    <2>4. file' \in [value : Stores, state : Contents] /\ file'.state = "synced"
      BY <1>8, <2>2, <2>3 DEF Rename, Contents
    <2> QED BY <1>8, <2>4 DEF Rename, Contents
  <1>9. CASE CloseStore(p)
    BY <1>9 DEF CloseStore, Contents
  <1> QED BY <1>1, <1>3, <1>4, <1>5, <1>6, <1>7, <1>8, <1>9

LEMMA FailureSteps ==
    ASSUME StoreInv, (\E p \in Processes : Killed(p)) \/ PowerFailure
    PROVE  StoreInv'
  <1> USE DEF StoreInv, TypeOK, SavesWhatItRead, FilesAreSynced, Saving, Final, Goto, At,
             logVars, storeVars
  <1>1. ASSUME NEW p \in Processes, Killed(p) PROVE StoreInv'
    BY <1>1 DEF Killed
  <1>2. CASE PowerFailure
    <2>1. bytes' \in Seq(Pieces)
      BY <1>2 DEF PowerFailure
    <2>2. file' = disk' /\ file' \in {file, disk}
      BY <1>2 DEF PowerFailure, AfterPowerFailure
    <2>3. pc' \in [Processes -> {"open", "first", "second", "newline", "load", "analyze",
                                 "reset", "lock", "write", "rename", "close"} \cup Final]
      BY <1>2 DEF PowerFailure
    <2>4. \A p \in Processes : pc'[p] \in {"open", "load", "lost"}
      BY <1>2 DEF PowerFailure, Started
    <2> QED BY <1>2, <2>1, <2>2, <2>3, <2>4 DEF PowerFailure
  <1> QED BY <1>1, <1>2

LEMMA StoreNext == StoreInv /\ [Next]_vars => StoreInv'
  <1> SUFFICES ASSUME StoreInv, [Next]_vars PROVE StoreInv'
    OBVIOUS
  <1>1. CASE UNCHANGED vars
    BY <1>1 DEF vars, StoreInv, TypeOK, SavesWhatItRead, FilesAreSynced
  <1>2. CASE Next
    BY <1>2, LogSteps, StoreSteps, FailureSteps DEF Next, Proceed
  <1> QED BY <1>1, <1>2

LEMMA StoreInvariant == Spec => []StoreInv
  BY StoreInit, StoreNext, PTL DEF Spec

\* Every variable of the state directory and its processes keeps its type.
THEOREM StateFilesTypeCorrect == Spec => []TypeOK
  <1>1. StoreInv => TypeOK
    BY DEF StoreInv
  <1> QED BY <1>1, StoreInvariant, PTL

\* atomic_write: neither the file nor what the disk keeps of it is ever partial.
THEOREM StoreIsAlwaysWhole == Spec => []StoreIsWhole
  <1>1. StoreInv => StoreIsWhole
    BY DEF StoreInv, FilesAreSynced, StoreIsWhole
  <1> QED BY <1>1, StoreInvariant, PTL

-----------------------------------------------------------------------------
(* StateFiles implements SharedStore. *)

SharedVars == <<file.value, disk.value, view>>

\* Steps on the log, and the preparation of a write, change nothing there.
LEMMA HiddenSteps ==
    ASSUME NEW p \in Processes,
           LockLog(p) \/ LockTimeout(p) \/ AppendPiece(p) \/ AppendFails(p)
              \/ LockStore(p) \/ WriteTemp(p)
    PROVE  UNCHANGED SharedVars
  BY DEF LockLog, LockTimeout, AppendPiece, AppendFails, LockStore, WriteTemp, SharedVars,
         storeVars, logVars

LEMMA GivingUp ==
    ASSUME NEW p \in Processes, view' = [view EXCEPT ![p] = NoStore], file' = file, disk' = disk
    PROVE  Shared!Next
  BY DEF Shared!Next, Shared!GiveUp

LEMMA SavingStep ==
    ASSUME NEW p \in Processes, NEW o, Save(p, o)
    PROVE  Shared!Next \/ UNCHANGED SharedVars
  <1>1. CASE o = view[p][cmd[p].repo]
    BY <1>1, GivingUp DEF Save
  <1>2. CASE o # view[p][cmd[p].repo]
    BY <1>2 DEF Save, SharedVars
  <1> QED BY <1>1, <1>2

LEMMA RenameStep ==
    ASSUME StoreInv, NEW p \in Processes, Rename(p)
    PROVE  Shared!PutBack(p)
  <1>1. pc[p] = "rename" /\ file'.value = next[p] /\ disk' = disk
        /\ view' = [view EXCEPT ![p] = NoStore]
    BY DEF Rename, At
  <1>2. PICK o \in Offsets : next[p] = [view[p] EXCEPT ![cmd[p].repo] = o]
    BY <1>1 DEF StoreInv, SavesWhatItRead, Saving
  <1>3. view[p] # NoStore
    BY <1>1 DEF StoreInv, SavesWhatItRead, Saving
  <1>4. cmd[p].repo \in Repos
    BY RepoOfProcess DEF StoreInv
  <1> QED BY <1>1, <1>2, <1>3, <1>4 DEF Shared!PutBack

LEMMA SharedStep == StoreInv /\ [Next]_vars => [Shared!Next]_SharedVars
  <1> SUFFICES ASSUME StoreInv, [Next]_vars PROVE Shared!Next \/ UNCHANGED SharedVars
    OBVIOUS
  <1>1. CASE UNCHANGED vars
    BY <1>1 DEF vars, SharedVars
  <1>2. ASSUME NEW p \in Processes, Proceed(p) PROVE Shared!Next \/ UNCHANGED SharedVars
    <2>1. CASE LoadStore(p)
      BY <2>1 DEF LoadStore, Shared!Next, Shared!Read, storeVars
    <2>2. CASE Analyze(p) \/ Reset(p)
      BY <2>2, SavingStep DEF Analyze, Reset
    <2>3. CASE Rename(p)
      BY <2>3, RenameStep DEF Shared!Next
    <2>4. CASE CloseStore(p)
      BY <2>4 DEF CloseStore, Shared!Next, Shared!Keep, SharedVars
    <2> QED BY <1>2, <2>1, <2>2, <2>3, <2>4, HiddenSteps DEF Proceed
  <1>3. ASSUME NEW p \in Processes, ReadFails(p) \/ WriteFails(p) \/ Killed(p)
        PROVE  Shared!Next
    BY <1>3, GivingUp DEF ReadFails, WriteFails, Killed, storeVars
  <1>4. CASE PowerFailure
    <2>1. file' \in {file, disk} /\ disk' = file' /\ view' = [p \in Processes |-> NoStore]
      BY <1>4 DEF PowerFailure, AfterPowerFailure, StoreInv, FilesAreSynced
    <2> QED BY <2>1 DEF Shared!Next, Shared!MachineFails
  <1> QED BY <1>1, <1>2, <1>3, <1>4, HiddenSteps DEF Next

LEMMA SharedInit == Init => Shared!Init
  BY DEF Init, Shared!Init, Shared!Stores, Stores

\* Whatever the processes and failures do, calibration.json behaves as SharedStore
\* says: no update is torn or mixed with another, one entry changes at a time.
THEOREM StoreIsSharedAlways == Spec => StoreIsShared
  BY SharedInit, SharedStep, StoreInvariant, PTL DEF Spec, StoreIsShared, Shared!Spec, SharedVars

-----------------------------------------------------------------------------
(* The decision log.  Its end belongs to the process that holds the lock; when *)
(* nobody is in the middle of a record, the end is a whole line or the remains *)
(* of a process that is not there any more.                                    *)

InRecord == {"first", "second", "newline"}
Steps == {"open", "first", "second", "newline", "load", "analyze", "reset", "lock", "write",
          "rename", "close"} \cup Final

HolderAppends == \A p \in Processes : logHolder = p <=> pc[p] \in InRecord
EndIs(piece) == Len(bytes) > 0 /\ bytes[Len(bytes)] = piece
EndIsFree == Len(bytes) = 0 \/ bytes[Len(bytes)].part = 3 \/ CutShort(Len(bytes))
EndBelongs ==
    /\ \A p \in Processes :
          /\ pc[p] = "second" => EndIs(Piece(p, what[p], 1))
          /\ pc[p] = "newline" => EndIs(Piece(p, what[p], 2))
    /\ (\A p \in Processes : pc[p] \notin {"second", "newline"}) => EndIsFree
WritersStarted == \A i \in DOMAIN bytes : Started(bytes[i].by)
LogInv == HolderAppends /\ EndBelongs /\ WritersStarted /\ LinesAreWhole

LEMMA StepsType == TypeOK => pc \in [Processes -> Steps]
  BY DEF TypeOK, Steps

LEMMA LogInit == Init => LogInv
  <1> SUFFICES ASSUME Init PROVE LogInv
    OBVIOUS
  <1>1. bytes = <<>> /\ Len(bytes) = 0 /\ DOMAIN bytes = {}
    BY DEF Init
  <1>2. \A p \in Processes : pc[p] \in {"open", "load"} /\ logHolder # p
    BY DEF Init
  <1> QED BY <1>1, <1>2 DEF LogInv, HolderAppends, EndBelongs, EndIsFree, WritersStarted,
                            LinesAreWhole, InRecord

\* One process, not in a record, goes on to something else.
Elsewhere(p) ==
    /\ UNCHANGED <<bytes, logHolder, what>>
    /\ pc[p] \notin Final \cup InRecord
    /\ \E step \in Steps \ (InRecord \cup {"open", "load"}) : pc' = [pc EXCEPT ![p] = step]

\* A process leaves its record as it is.
Abandons(p) ==
    /\ UNCHANGED <<bytes, what>>
    /\ pc[p] \in InRecord
    /\ logHolder' = Nobody
    /\ \E step \in {"failed", "killed"} : pc' = [pc EXCEPT ![p] = step]

\* No line changes when no piece is added and no process comes back.
LEMMA SameLines ==
    ASSUME TypeOK, LinesAreWhole, bytes' = bytes,
           \A i \in DOMAIN bytes : CutShort(i) => CutShort(i)'
    PROVE  LinesAreWhole'
  <1> SUFFICES ASSUME NEW i \in DOMAIN bytes
               PROVE  \/ bytes[i].part = 1 /\ (i = 1 \/ bytes[i - 1].part = 3 \/ CutShort(i - 1)')
                      \/ i > 1 /\ bytes[i] = [bytes[i - 1] EXCEPT !.part = @ + 1]
    BY DEF LinesAreWhole
  <1>1. CASE bytes[i].part = 1 /\ i # 1 /\ CutShort(i - 1)
    <2>1. bytes \in Seq(Pieces)
      BY DEF TypeOK
    <2>2. i - 1 \in DOMAIN bytes
      BY <1>1, <2>1
    <2> QED BY <1>1, <2>2
  <1> QED BY <1>1 DEF LinesAreWhole

LEMMA PieceType ==
    ASSUME TypeOK
    PROVE  /\ bytes \in Seq(Pieces)
           /\ \A i \in DOMAIN bytes : bytes[i].by \in Processes /\ bytes[i].part \in 1..3
           /\ Len(bytes) \in Nat /\ (Len(bytes) > 0 => Len(bytes) \in DOMAIN bytes)
  <1>1. bytes \in Seq(Pieces)
    BY DEF TypeOK
  <1>2. \A i \in DOMAIN bytes : bytes[i] \in Pieces
    BY <1>1
  <1>3. \A i \in DOMAIN bytes : bytes[i].by \in Processes /\ bytes[i].part \in 1..3
    BY <1>2 DEF Pieces
  <1> QED BY <1>1, <1>3

LEMMA ElsewhereStep ==
    ASSUME TypeOK, LogInv, NEW p \in Processes, Elsewhere(p)
    PROVE  LogInv'
  <1>1. PICK step \in Steps \ (InRecord \cup {"open", "load"}) : pc' = [pc EXCEPT ![p] = step]
    BY DEF Elsewhere
  <1>2. pc \in [Processes -> Steps] /\ UNCHANGED <<bytes, logHolder, what>>
        /\ pc[p] \notin Final \cup InRecord
    BY StepsType DEF Elsewhere
  <1>3. \A q \in Processes : /\ q # p => pc'[q] = pc[q]
                             /\ pc[q] \in Final => pc'[q] = pc[q]
                             /\ pc'[q] \in InRecord <=> pc[q] \in InRecord
                             /\ pc'[q] \in InRecord => pc'[q] = pc[q]
    BY <1>1, <1>2
  <1>4. \A i \in DOMAIN bytes : CutShort(i) => CutShort(i)'
    BY <1>2, <1>3, PieceType DEF CutShort
  <1>5. HolderAppends'
    BY <1>2, <1>3 DEF LogInv, HolderAppends
  <1>6. EndBelongs'
    BY <1>2, <1>3, <1>4, PieceType DEF LogInv, EndBelongs, EndIs, EndIsFree, InRecord
  <1>7. WritersStarted'
    BY <1>1, <1>2, <1>3, PieceType DEF LogInv, WritersStarted, Started, At, Final
  <1>8. LinesAreWhole'
    BY <1>2, <1>4, SameLines DEF LogInv
  <1> QED BY <1>5, <1>6, <1>7, <1>8 DEF LogInv

LEMMA AbandonsStep ==
    ASSUME TypeOK, LogInv, NEW p \in Processes, Abandons(p)
    PROVE  LogInv'
  <1>1. PICK step \in {"failed", "killed"} : pc' = [pc EXCEPT ![p] = step]
    BY DEF Abandons
  <1>2. pc \in [Processes -> Steps] /\ UNCHANGED <<bytes, what>> /\ logHolder' = Nobody
        /\ pc[p] \in InRecord
    BY StepsType DEF Abandons
  <1>3. \A q \in Processes \ {p} : pc'[q] = pc[q] /\ pc[q] \notin InRecord
    BY <1>1, <1>2 DEF LogInv, HolderAppends
  <1>4. pc'[p] \in Final \ {"done"}
    BY <1>1, <1>2 DEF Final
  <1>5. \A i \in DOMAIN bytes : CutShort(i) => CutShort(i)'
    BY <1>2, <1>3, <1>4, PieceType DEF CutShort
  <1>6. HolderAppends'
    BY <1>2, <1>3, <1>4 DEF LogInv, HolderAppends, InRecord, Final
  <1>7. EndIsFree'
    <2>1. CASE pc[p] = "first"
      <3>1. EndIsFree
        BY <1>3, <2>1 DEF LogInv, EndBelongs, InRecord
      <3> QED BY <3>1, <1>2, <1>5, PieceType DEF EndIsFree
    <2>2. CASE pc[p] \in {"second", "newline"}
      <3>1. Len(bytes) > 0 /\ bytes[Len(bytes)].by = p /\ bytes[Len(bytes)].part < 3
        <4>1. CASE pc[p] = "second"
          <5>1. Len(bytes) > 0 /\ bytes[Len(bytes)] = Piece(p, what[p], 1)
            BY <4>1 DEF LogInv, EndBelongs, EndIs
          <5> QED BY <5>1 DEF Piece
        <4>2. CASE pc[p] = "newline"
          <5>1. Len(bytes) > 0 /\ bytes[Len(bytes)] = Piece(p, what[p], 2)
            BY <4>2 DEF LogInv, EndBelongs, EndIs
          <5> QED BY <5>1 DEF Piece
        <4> QED BY <2>2, <4>1, <4>2
      <3> QED BY <3>1, <1>2, <1>4 DEF EndIsFree, CutShort
    <2> QED BY <1>2, <2>1, <2>2 DEF InRecord
  <1>8. EndBelongs'
    <2>1. \A q \in Processes : pc'[q] \notin {"second", "newline"}
      BY <1>3, <1>4 DEF InRecord, Final
    <2> QED BY <1>7, <2>1 DEF EndBelongs
  <1>9. WritersStarted'
    BY <1>1, <1>2, <1>3, PieceType DEF LogInv, WritersStarted, Started, At
  <1>10. LinesAreWhole'
    BY <1>2, <1>5, SameLines DEF LogInv
  <1> QED BY <1>6, <1>8, <1>9, <1>10 DEF LogInv

LEMMA LockStep ==
    ASSUME TypeOK, LogInv, NEW p \in Processes, LockLog(p)
    PROVE  LogInv'
  <1>1. pc \in [Processes -> Steps] /\ UNCHANGED <<bytes, what>> /\ logHolder = Nobody
        /\ logHolder' = p /\ pc[p] = "open" /\ pc' = [pc EXCEPT ![p] = "first"]
    BY StepsType DEF LockLog, Goto, At
  <1>2. \A q \in Processes : pc[q] \notin InRecord
    BY <1>1 DEF LogInv, HolderAppends
  <1>3. pc'[p] = "first" /\ \A q \in Processes \ {p} : pc'[q] = pc[q]
    BY <1>1
  <1>4. \A i \in DOMAIN bytes : CutShort(i) => CutShort(i)'
    BY <1>1, <1>3, PieceType DEF CutShort, Final
  <1>5. HolderAppends'
    BY <1>1, <1>2, <1>3 DEF HolderAppends, InRecord
  <1>6. EndBelongs'
    <2>1. EndIsFree
      BY <1>2 DEF LogInv, EndBelongs, InRecord
    <2>2. EndIsFree'
      BY <2>1, <1>1, <1>4, PieceType DEF EndIsFree
    <2> QED BY <2>2, <1>2, <1>3 DEF EndBelongs, InRecord
  <1>7. WritersStarted'
    BY <1>1, <1>3, PieceType DEF LogInv, WritersStarted, Started, At
  <1>8. LinesAreWhole'
    BY <1>1, <1>4, SameLines DEF LogInv
  <1> QED BY <1>5, <1>6, <1>7, <1>8 DEF LogInv

LEMMA NextPiece ==
    ASSUME NEW p, NEW w
    PROVE  /\ Piece(p, w, 2) = [Piece(p, w, 1) EXCEPT !.part = @ + 1]
           /\ Piece(p, w, 3) = [Piece(p, w, 2) EXCEPT !.part = @ + 1]
  BY DEF Piece

LEMMA AppendStep ==
    ASSUME TypeOK, LogInv, NEW p \in Processes, AppendPiece(p)
    PROVE  LogInv'
  <1>0. PICK L \in Nat : L = Len(bytes)
    BY PieceType
  <1>1. PICK n \in 1..3 :
          /\ pc[p] = Writing[n]
          /\ bytes' = Append(bytes, Piece(p, what[p], n))
          /\ IF n < 3
             THEN pc' = [pc EXCEPT ![p] = Writing[n + 1]] /\ UNCHANGED <<logHolder, what>>
             ELSE /\ logHolder' = Nobody
                  /\ what' = [what EXCEPT ![p] = "feedback"]
                  /\ pc' = [pc EXCEPT ![p] = IF what[p] = "decision" THEN "open" ELSE "load"]
    BY DEF AppendPiece, Goto, At
  <1>2. /\ pc \in [Processes -> Steps] /\ what \in [Processes -> {"decision", "feedback"}]
        /\ bytes \in Seq(Pieces) /\ L = Len(bytes)
    BY <1>0, StepsType, PieceType DEF TypeOK
  <1>3. \/ /\ n = 1 /\ pc[p] = "first" /\ pc' = [pc EXCEPT ![p] = "second"]
           /\ UNCHANGED <<logHolder, what>>
        \/ /\ n = 2 /\ pc[p] = "second" /\ pc' = [pc EXCEPT ![p] = "newline"]
           /\ UNCHANGED <<logHolder, what>>
        \/ /\ n = 3 /\ pc[p] = "newline" /\ logHolder' = Nobody
           /\ what' = [what EXCEPT ![p] = "feedback"]
           /\ \/ pc' = [pc EXCEPT ![p] = "open"]
              \/ pc' = [pc EXCEPT ![p] = "load"]
    BY <1>1 DEF Writing
  <1>4. \A q \in Processes \ {p} : pc'[q] = pc[q] /\ what'[q] = what[q] /\ pc[q] \notin InRecord
    BY <1>2, <1>3 DEF LogInv, HolderAppends, InRecord
  <1>5. pc[p] \in InRecord /\ pc'[p] \notin Final /\ pc[p] \notin Final
    BY <1>2, <1>3 DEF InRecord, Final
  <1>6. /\ Len(bytes') = L + 1 /\ bytes'[L + 1] = Piece(p, what[p], n)
        /\ DOMAIN bytes' = 1..L+1 /\ DOMAIN bytes = 1..L
        /\ \A i \in 1..L : bytes'[i] = bytes[i]
    BY <1>1, <1>2
  <1>7. \A i \in 1..L : CutShort(i) => CutShort(i)'
    <2> SUFFICES ASSUME NEW i \in 1..L, CutShort(i) PROVE CutShort(i)'
      OBVIOUS
    <2>1. bytes[i].by \in Processes /\ bytes'[i] = bytes[i]
      BY <1>6, PieceType
    <2>2. bytes[i].by # p
      BY <1>5 DEF CutShort
    <2> QED BY <1>4, <2>1, <2>2 DEF CutShort
  <1>8. HolderAppends'
    BY <1>2, <1>3, <1>4, <1>5 DEF LogInv, HolderAppends, InRecord
  <1>9. EndBelongs'
    <2>1. CASE n < 3
      <3>1. pc'[p] = (IF n = 1 THEN "second" ELSE "newline") /\ what'[p] = what[p]
        BY <1>2, <1>3, <2>1
      <3>2. EndIs(Piece(p, what[p], n))'
        BY <1>2, <1>6, <3>1, <2>1 DEF EndIs, Piece
      <3> QED BY <3>1, <3>2, <1>4, <1>6, <2>1 DEF EndBelongs, EndIs, InRecord
    <2>2. CASE n = 3
      <3>1. bytes'[Len(bytes')].part = 3
        BY <1>6, <2>2 DEF Piece
      <3>2. pc'[p] \notin InRecord
        BY <1>2, <1>3, <2>2 DEF InRecord
      <3> QED BY <3>1, <3>2, <1>4 DEF EndBelongs, EndIsFree, InRecord
    <2> QED BY <2>1, <2>2
  <1>10. WritersStarted'
    <2>1. Started(p)'
      BY <1>2, <1>3 DEF Started
    <2>2. \A q \in Processes \ {p} : Started(q) => Started(q)'
      BY <1>4 DEF Started
    <2>3. \A i \in 1..L : bytes[i].by \in Processes /\ Started(bytes[i].by)
      BY <1>6, PieceType DEF LogInv, WritersStarted
    <2>4. bytes'[L + 1].by = p
      BY <1>6 DEF Piece
    <2>5. \A i \in 1..L : Started(bytes[i].by)'
      BY <2>1, <2>2, <2>3, <1>6
    <2> QED BY <1>2, <1>6, <2>1, <2>4, <2>5 DEF WritersStarted
  <1>11. LinesAreWhole'
    <2>1. \/ bytes'[L + 1].part = 1 /\ (L + 1 = 1 \/ bytes'[L].part = 3 \/ CutShort(L)')
          \/ L + 1 > 1 /\ bytes'[L + 1] = [bytes'[L] EXCEPT !.part = @ + 1]
      <3>1. CASE n = 1
        <4>1. EndIsFree
          BY <1>3, <1>4, <3>1 DEF LogInv, EndBelongs, InRecord
        <4>2. L = 0 \/ (L \in 1..L /\ bytes'[L] = bytes[L] /\ (bytes[L].part = 3 \/ CutShort(L)))
          BY <4>1, <1>2, <1>6 DEF EndIsFree
        <4>3. bytes'[L + 1].part = 1
          BY <1>6, <3>1 DEF Piece
        <4>4. L = 0 \/ bytes'[L].part = 3 \/ CutShort(L)'
          BY <4>2, <1>7
        <4> QED BY <4>3, <4>4
      <3>2. CASE n = 2
        <4>1. L > 0 /\ bytes[L] = Piece(p, what[p], 1)
          BY <1>0, <1>3, <3>2 DEF LogInv, EndBelongs, EndIs
        <4>2. L \in 1..L /\ bytes'[L] = bytes[L] /\ L + 1 > 1
          BY <4>1, <1>2, <1>6
        <4>3. bytes'[L + 1] = [bytes'[L] EXCEPT !.part = @ + 1]
          BY <4>1, <4>2, <1>6, <3>2, NextPiece
        <4> QED BY <4>2, <4>3
      <3>3. CASE n = 3
        <4>1. L > 0 /\ bytes[L] = Piece(p, what[p], 2)
          BY <1>0, <1>3, <3>3 DEF LogInv, EndBelongs, EndIs
        <4>2. L \in 1..L /\ bytes'[L] = bytes[L] /\ L + 1 > 1
          BY <4>1, <1>2, <1>6
        <4>3. bytes'[L + 1] = [bytes'[L] EXCEPT !.part = @ + 1]
          BY <4>1, <4>2, <1>6, <3>3, NextPiece
        <4> QED BY <4>2, <4>3
      <3> QED BY <3>1, <3>2, <3>3
    <2>2. \A i \in 1..L :
            \/ bytes'[i].part = 1 /\ (i = 1 \/ bytes'[i - 1].part = 3 \/ CutShort(i - 1)')
            \/ i > 1 /\ bytes'[i] = [bytes'[i - 1] EXCEPT !.part = @ + 1]
      <3> SUFFICES ASSUME NEW i \in 1..L
                   PROVE  \/ bytes'[i].part = 1 /\ (i = 1 \/ bytes'[i - 1].part = 3 \/ CutShort(i - 1)')
                          \/ i > 1 /\ bytes'[i] = [bytes'[i - 1] EXCEPT !.part = @ + 1]
        OBVIOUS
      <3>1. i = 1 \/ (i > 1 /\ i - 1 \in 1..L)
        BY <1>2
      <3>2. \/ bytes[i].part = 1 /\ (i = 1 \/ bytes[i - 1].part = 3 \/ CutShort(i - 1))
            \/ i > 1 /\ bytes[i] = [bytes[i - 1] EXCEPT !.part = @ + 1]
        BY <1>6 DEF LogInv, LinesAreWhole
      <3> QED BY <3>1, <3>2, <1>6, <1>7
    <2>3. \A i \in DOMAIN bytes' : i \in 1..L \/ i = L + 1
      BY <1>2, <1>6
    <2>4. (L + 1) - 1 = L
      BY <1>2
    <2>5. ASSUME NEW i \in DOMAIN bytes'
          PROVE  \/ bytes'[i].part = 1 /\ (i = 1 \/ bytes'[i - 1].part = 3 \/ CutShort(i - 1)')
                 \/ i > 1 /\ bytes'[i] = [bytes'[i - 1] EXCEPT !.part = @ + 1]
      <3>1. CASE i \in 1..L
        BY <2>2, <3>1
      <3>2. CASE i = L + 1
        BY <2>1, <2>4, <3>2
      <3> QED BY <2>3, <3>1, <3>2
    <2> QED BY <2>5 DEF LinesAreWhole
  <1> QED BY <1>8, <1>9, <1>10, <1>11 DEF LogInv

LEMMA PowerStep ==
    ASSUME TypeOK, LogInv, PowerFailure
    PROVE  LogInv'
  <1>1. PICK n \in 0..Len(bytes) : bytes' = SubSeq(bytes, 1, n)
    BY DEF PowerFailure
  <1>2. /\ bytes \in Seq(Pieces) /\ n \in Nat /\ Len(bytes') = n
        /\ DOMAIN bytes' = 1..n /\ 1..n \subseteq DOMAIN bytes
        /\ \A i \in 1..n : bytes'[i] = bytes[i]
    BY <1>1, PieceType
  <1>3. \A q \in Processes : Started(q) => pc'[q] = "lost"
    BY DEF PowerFailure
  <1>4. \A q \in Processes : pc'[q] \in {"open", "load", "lost"} /\ logHolder' # q
    BY DEF PowerFailure, Started
  <1>5. \A i \in 1..n : /\ bytes'[i].part \in 1..3
                        /\ pc'[bytes'[i].by] = "lost"
    BY <1>2, <1>3, PieceType DEF LogInv, WritersStarted
  <1>6. \A i \in 1..n : bytes'[i].part = 3 \/ CutShort(i)'
    BY <1>5 DEF CutShort, Final
  <1>7. HolderAppends'
    BY <1>4 DEF HolderAppends, InRecord
  <1>8. EndBelongs'
    <2>1. EndIsFree'
      BY <1>2, <1>6 DEF EndIsFree
    <2> QED BY <1>4, <2>1 DEF EndBelongs
  <1>9. WritersStarted'
    BY <1>2, <1>5 DEF WritersStarted, Started
  <1>10. LinesAreWhole'
    <2> SUFFICES ASSUME NEW i \in 1..n
                 PROVE  \/ bytes'[i].part = 1 /\ (i = 1 \/ bytes'[i - 1].part = 3 \/ CutShort(i - 1)')
                        \/ i > 1 /\ bytes'[i] = [bytes'[i - 1] EXCEPT !.part = @ + 1]
      BY <1>2 DEF LinesAreWhole
    <2>1. i = 1 \/ (i > 1 /\ i - 1 \in 1..n)
      BY <1>2
    <2>2. \/ bytes[i].part = 1 /\ (i = 1 \/ bytes[i - 1].part = 3 \/ CutShort(i - 1))
          \/ i > 1 /\ bytes[i] = [bytes[i - 1] EXCEPT !.part = @ + 1]
      BY <1>2 DEF LogInv, LinesAreWhole
    <2> QED BY <2>1, <2>2, <1>2, <1>6
  <1> QED BY <1>7, <1>8, <1>9, <1>10 DEF LogInv

LEMMA LogNext == TypeOK /\ LogInv /\ [Next]_vars => LogInv'
  <1> SUFFICES ASSUME TypeOK, LogInv, [Next]_vars PROVE LogInv'
    OBVIOUS
  <1>1. ASSUME UNCHANGED <<bytes, logHolder, what, pc>> PROVE LogInv'
    BY <1>1 DEF LogInv, HolderAppends, EndBelongs, EndIs, EndIsFree, WritersStarted, Started,
                LinesAreWhole, CutShort, At
  <1>2. ASSUME NEW p \in Processes,
               LockTimeout(p) \/ LoadStore(p) \/ ReadFails(p) \/ Analyze(p) \/ Reset(p)
                  \/ LockStore(p) \/ WriteFails(p) \/ Rename(p) \/ CloseStore(p)
        PROVE  Elsewhere(p)
    <2> USE DEF Elsewhere, Goto, At, Final, InRecord, Steps, logVars, storeVars
    <2>1. CASE LockTimeout(p)
      BY <2>1 DEF LockTimeout
    <2>2. CASE LoadStore(p)
      BY <2>2 DEF LoadStore
    <2>3. CASE ReadFails(p)
      BY <2>3 DEF ReadFails
    <2>4. CASE Analyze(p)
      BY <2>4 DEF Analyze, Save
    <2>5. CASE Reset(p)
      BY <2>5 DEF Reset, Save
    <2>6. CASE LockStore(p)
      BY <2>6 DEF LockStore
    <2>7. CASE WriteFails(p)
      BY <2>7 DEF WriteFails
    <2>8. CASE Rename(p)
      BY <2>8 DEF Rename
    <2>9. CASE CloseStore(p)
      BY <2>9 DEF CloseStore
    <2> QED BY <1>2, <2>1, <2>2, <2>3, <2>4, <2>5, <2>6, <2>7, <2>8, <2>9
  <1>3. ASSUME NEW p \in Processes, WriteTemp(p)
        PROVE  UNCHANGED <<bytes, logHolder, what, pc>> \/ Elsewhere(p)
    BY <1>3 DEF WriteTemp, Elsewhere, Goto, At, Final, InRecord, Steps, logVars
  <1>4. ASSUME NEW p \in Processes, AppendFails(p) PROVE Elsewhere(p) \/ Abandons(p)
    <2>1. /\ UNCHANGED <<bytes, what>> /\ pc' = [pc EXCEPT ![p] = "failed"]
          /\ logHolder' = IF logHolder = p THEN Nobody ELSE logHolder
      BY <1>4 DEF AppendFails, Goto
    <2>2. pc[p] \notin Final
      BY <1>4 DEF AppendFails, At, Writing, Final
    <2>3. logHolder = p <=> pc[p] \in InRecord
      BY DEF LogInv, HolderAppends
    <2> QED BY <2>1, <2>2, <2>3 DEF Elsewhere, Abandons, Steps, Final, InRecord
  <1>5. ASSUME NEW p \in Processes, Killed(p) PROVE Elsewhere(p) \/ Abandons(p)
    <2>1. /\ UNCHANGED <<bytes, what>> /\ pc[p] \notin Final /\ pc' = [pc EXCEPT ![p] = "killed"]
          /\ logHolder' = IF logHolder = p THEN Nobody ELSE logHolder
      BY <1>5 DEF Killed, Goto
    <2>2. logHolder = p <=> pc[p] \in InRecord
      BY DEF LogInv, HolderAppends
    <2> QED BY <2>1, <2>2 DEF Elsewhere, Abandons, Steps, Final, InRecord
  <1>6. CASE UNCHANGED vars
    BY <1>1, <1>6 DEF vars
  <1>7. ASSUME NEW p \in Processes, Proceed(p) PROVE LogInv'
    BY <1>1, <1>2, <1>3, <1>7, ElsewhereStep, LockStep, AppendStep DEF Proceed
  <1>8. ASSUME NEW p \in Processes,
               LockTimeout(p) \/ AppendFails(p) \/ ReadFails(p) \/ WriteFails(p) \/ Killed(p)
        PROVE  LogInv'
    BY <1>2, <1>4, <1>5, <1>8, ElsewhereStep, AbandonsStep
  <1> QED BY <1>6, <1>7, <1>8, PowerStep DEF Next

\* However processes append, give up, fail and die: no record has a piece of
\* another inside it, and only the remains of a write that was cut short can stand
\* before a record on its line.
THEOREM LinesAreAlwaysWhole == Spec => []LinesAreWhole
  <1>1. LogInv => LinesAreWhole
    BY DEF LogInv
  <1>2. Spec => []LogInv
    BY StateFilesTypeCorrect, LogInit, LogNext, PTL DEF Spec
  <1> QED BY <1>1, <1>2, PTL

-----------------------------------------------------------------------------
(* Offsets are earned.  What counts is that the code's join of feedback with   *)
(* decisions counts the reports, and that a report once readable at the end of *)
(* some beginning of the log stays so while the log only grows.                *)

LEMMA ReportsAreFinite ==
    ASSUME NEW log, NEW repo, NEW kinds
    PROVE  IsFiniteSet(Reports(log, repo, kinds))
  <1>1. IsFiniteSet(Processes \cup Past)
    BY FS_Union DEF StateFilesConstantsOK
  <1>2. Reports(log, repo, kinds) \subseteq Processes \cup Past
    BY DEF Reports
  <1> QED BY <1>1, <1>2, FS_Subset

LEMMA CountsAreReports ==
    ASSUME NEW log, NEW repo, NEW kind \in FeedbackKinds
    PROVE  CountsIn(log, repo)[kind] = Cardinality(Reports(log, repo, {kind}))
  <1> DEFINE sessions == {p \in Processes \cup Past : cmd[p].repo = repo}
             found(w) == {p \in sessions : p \in earlier \/ Readable(log, p, w)}
             decs == [p \in found("decision") |-> [mode |-> "agent", source |-> cmd[p].source]]
             feeds == [p \in found("feedback") |-> [kind |-> cmd[p].kind, decision |-> p]]
             counted == {p \in DOMAIN feeds :
                            /\ feeds[p].kind = kind
                            /\ feeds[p].decision \in DOMAIN decs
                            /\ Teaches(decs[feeds[p].decision])}
  <1>1. CountsIn(log, repo)[kind] = Cardinality(counted)
    BY DEF CountsIn, CountsOf, CountFeedback
  <1>2. \A p : p \in counted <=> p \in Reports(log, repo, {kind})
    BY DEF Reports, Teaches
  <1>3. counted = Reports(log, repo, {kind})
    BY <1>2
  <1> QED BY <1>1, <1>3

LEMMA DisjointUnion ==
    ASSUME NEW S, NEW T, IsFiniteSet(S), IsFiniteSet(T), S \cap T = {}
    PROVE  IsFiniteSet(S \cup T) /\ Cardinality(S \cup T) = Cardinality(S) + Cardinality(T)
  <1>1. Cardinality(S) \in Nat /\ Cardinality(T) \in Nat
    BY FS_CardinalityType
  <1>2. Cardinality(S \cap T) = 0
    BY FS_EmptySet
  <1>3. /\ IsFiniteSet(S \cup T)
        /\ Cardinality(S \cup T) = Cardinality(S) + Cardinality(T) - Cardinality(S \cap T)
    BY FS_Union
  <1> QED BY <1>1, <1>2, <1>3

LEMMA EligibleReports ==
    ASSUME NEW log, NEW repo
    PROVE  Cardinality(Reports(log, repo, FeedbackKinds \ {"failed"})) =
              Cardinality(Reports(log, repo, {"right"}))
                 + Cardinality(Reports(log, repo, {"underpowered"}))
                 + Cardinality(Reports(log, repo, {"overkill"}))
  <1> DEFINE r == Reports(log, repo, {"right"})
             u == Reports(log, repo, {"underpowered"})
             o == Reports(log, repo, {"overkill"})
  <1>1. Reports(log, repo, FeedbackKinds \ {"failed"}) = (r \cup u) \cup o
    BY DEF Reports, FeedbackKinds
  <1>2. r \cap u = {} /\ (r \cup u) \cap o = {}
    BY DEF Reports
  <1>3. IsFiniteSet(r) /\ IsFiniteSet(u) /\ IsFiniteSet(o)
    BY ReportsAreFinite
  <1> HIDE DEF r, u, o
  <1>5. IsFiniteSet(r \cup u) /\ Cardinality(r \cup u) = Cardinality(r) + Cardinality(u)
    BY <1>2, <1>3, DisjointUnion
  <1>6. Cardinality((r \cup u) \cup o) = Cardinality(r \cup u) + Cardinality(o)
    BY <1>2, <1>3, <1>5, DisjointUnion
  <1>7. Cardinality(Reports(log, repo, FeedbackKinds \ {"failed"}))
           = Cardinality(r) + Cardinality(u) + Cardinality(o)
    BY <1>1, <1>5, <1>6
  <1> QED BY <1>7 DEF r, u, o

\* The recommendation is what the reports call for.
LEMMA RecommendedIsCalledFor ==
    ASSUME NEW log, NEW repo, Recommendation(CountsIn(log, repo)) # 0
    PROVE  CallsFor(log, repo, Recommendation(CountsIn(log, repo)))
  <1> DEFINE c == CountsIn(log, repo)
             n(kind) == Cardinality(Reports(log, repo, {kind}))
  <1>1. /\ c["right"] = n("right") /\ c["underpowered"] = n("underpowered")
        /\ c["overkill"] = n("overkill")
    BY CountsAreReports DEF FeedbackKinds
  <1>2. n("right") \in Nat /\ n("underpowered") \in Nat /\ n("overkill") \in Nat
    BY ReportsAreFinite, FS_CardinalityType
  <1>3. EligibleTotal(c) = Cardinality(Reports(log, repo, FeedbackKinds \ {"failed"}))
    BY <1>1, EligibleReports DEF EligibleTotal
  <1>4. EligibleTotal(c) \in Nat
    BY <1>1, <1>2 DEF EligibleTotal
  <1> HIDE DEF c
  <1>5. \/ /\ Recommendation(c) = 5 /\ EligibleTotal(c) >= 3
           /\ c["underpowered"] * 10 >= EligibleTotal(c) * 7
        \/ /\ Recommendation(c) = -5 /\ EligibleTotal(c) >= 3
           /\ c["overkill"] * 10 >= EligibleTotal(c) * 7
    <2>1. Recommendation(c) # 0
      BY DEF c
    <2> QED BY <1>4, <2>1 DEF Recommendation, RecommendedOffset
  <1>6. CASE Recommendation(c) = 5
    <2>1. 10 * n("underpowered") >= 7 * EligibleTotal(c) /\ EligibleTotal(c) >= 3
      BY <1>1, <1>2, <1>4, <1>5, <1>6
    <2> QED BY <1>3, <1>6, <2>1 DEF CallsFor, c
  <1>7. CASE Recommendation(c) = -5
    <2>1. 10 * n("overkill") >= 7 * EligibleTotal(c) /\ EligibleTotal(c) >= 3
      BY <1>1, <1>2, <1>4, <1>5, <1>7
    <2> QED BY <1>3, <1>7, <2>1 DEF CallsFor, c
  <1> QED BY <1>5, <1>6, <1>7

LogGrows == bytes' = bytes \/ \E x \in Pieces : bytes' = Append(bytes, x)

LEMMA BeginningsStay ==
    ASSUME TypeOK, LogGrows, NEW n \in 0..Len(bytes)
    PROVE  n \in 0..Len(bytes') /\ SubSeq(bytes', 1, n) = SubSeq(bytes, 1, n)
  <1>1. bytes \in Seq(Pieces)
    BY DEF TypeOK
  <1>2. CASE bytes' = bytes
    BY <1>2
  <1>3. ASSUME NEW x \in Pieces, bytes' = Append(bytes, x)
        PROVE  n \in 0..Len(bytes') /\ SubSeq(bytes', 1, n) = SubSeq(bytes, 1, n)
    BY <1>1, <1>3
  <1> QED BY <1>2, <1>3 DEF LogGrows

LEMMA CallsForIsFixed ==
    ASSUME UNCHANGED <<cmd, earlier>>
    PROVE  \A log, repo, o : CallsFor(log, repo, o)' <=> CallsFor(log, repo, o)
  BY DEF CallsFor, Reports, Readable

\* While the log only grows, what was earned stays earned; what the log as it is
\* calls for is earned.
LEMMA EarnedLasts ==
    ASSUME TypeOK, LogGrows, UNCHANGED <<cmd, earlier>>
    PROVE  \A s : Earned(s, bytes) => Earned(s, bytes)'
  <1> SUFFICES ASSUME NEW s, Earned(s, bytes), NEW repo \in Repos, s[repo] # 0
               PROVE  (\E n \in 0..Len(bytes) : CallsFor(SubSeq(bytes, 1, n), repo, s[repo]))'
    BY DEF Earned
  <1>1. PICK n \in 0..Len(bytes) : CallsFor(SubSeq(bytes, 1, n), repo, s[repo])
    BY DEF Earned
  <1>2. n \in 0..Len(bytes') /\ SubSeq(bytes', 1, n) = SubSeq(bytes, 1, n)
    BY BeginningsStay
  <1>3. CallsFor(SubSeq(bytes, 1, n), repo, s[repo])'
    BY <1>1, <1>2, CallsForIsFixed
  <1> QED BY <1>2, <1>3

NoneLost == \A p \in Processes : pc[p] # "lost"

\* Until the machine fails, the store is earned, and so is every store that a process
\* holds or is about to write.
EarnInv ==
    NoneLost =>
        /\ Earned(file.value, bytes)
        /\ \A p \in Processes :
              /\ view[p] # NoStore => Earned(view[p], bytes)
              /\ pc[p] \in Saving => Earned(next[p], bytes)

LEMMA EarnedNow ==
    ASSUME TypeOK, NEW s, NEW repo \in Repos, NEW o \in Offsets, s \in Stores, Earned(s, bytes),
           o \in {0, s[repo]} \/ CallsFor(bytes, repo, o)
    PROVE  Earned([s EXCEPT ![repo] = o], bytes)
  <1> DEFINE t == [s EXCEPT ![repo] = o]
  <1>1. \A r \in Repos : t[r] = IF r = repo THEN o ELSE s[r]
    BY DEF Stores
  <1>2. bytes \in Seq(Pieces) /\ Len(bytes) \in 0..Len(bytes) /\ SubSeq(bytes, 1, Len(bytes)) = bytes
    BY DEF TypeOK
  <1> SUFFICES ASSUME NEW r \in Repos, t[r] # 0
               PROVE  \E n \in 0..Len(bytes) : CallsFor(SubSeq(bytes, 1, n), r, t[r])
    BY DEF Earned
  <1>3. CASE r = repo /\ o # s[repo]
    BY <1>1, <1>2, <1>3
  <1>4. CASE r # repo \/ o = s[repo]
    <2>1. t[r] = s[r]
      BY <1>1, <1>4
    <2> HIDE DEF t
    <2> QED BY <2>1 DEF Earned
  <1> QED BY <1>3, <1>4

LEMMA EarnInit == Init => EarnInv
  <1> SUFFICES ASSUME Init PROVE EarnInv
    OBVIOUS
  <1>1. PICK s \in Stores : Earned(s, bytes) /\ file = [value |-> s, state |-> "synced"]
    BY DEF Init
  <1>2. Earned(file.value, bytes)
    BY <1>1
  <1>3. \A p \in Processes : view[p] = NoStore /\ pc[p] \notin Saving
    BY DEF Init, Saving
  <1> QED BY <1>2, <1>3 DEF EarnInv

\* What a step may do with stores: move earned ones.
LEMMA EarnedStep ==
    ASSUME TypeOK, EarnInv, NoneLost, LogGrows, UNCHANGED <<cmd, earlier>>,
           file'.value = file.value \/ \E p \in Processes : pc[p] \in Saving /\ file'.value = next[p],
           \A p \in Processes : view'[p] \in {view[p], NoStore, file.value},
           \A p \in Processes : pc'[p] \in Saving =>
              (pc[p] \in Saving /\ next'[p] = next[p]) \/ Earned(next'[p], bytes)
    PROVE  EarnInv'
  <1>1. /\ Earned(file.value, bytes)
        /\ \A p \in Processes : /\ view[p] # NoStore => Earned(view[p], bytes)
                                /\ pc[p] \in Saving => Earned(next[p], bytes)
    BY DEF EarnInv
  <1>2. Earned(file'.value, bytes)
    BY <1>1
  <1>3. \A p \in Processes : view'[p] # NoStore => Earned(view'[p], bytes)
    BY <1>1
  <1>4. \A p \in Processes : pc'[p] \in Saving => Earned(next'[p], bytes)
    BY <1>1
  <1>5. \A s : Earned(s, bytes) => Earned(s, bytes)'
    BY EarnedLasts
  <1>6. Earned(file.value, bytes)'
    BY <1>2, <1>5
  <1>7. \A p \in Processes : (view[p] # NoStore => Earned(view[p], bytes))'
    BY <1>3, <1>5
  <1>8. \A p \in Processes : (pc[p] \in Saving => Earned(next[p], bytes))'
    BY <1>4, <1>5 DEF Saving
  <1> QED BY <1>6, <1>7, <1>8 DEF EarnInv

LEMMA SaveEarned ==
    ASSUME StoreInv, EarnInv, NoneLost, NEW p \in Processes, NEW o \in Offsets, Save(p, o),
           pc[p] \in {"analyze", "reset"},
           o \in {0, view[p][cmd[p].repo]} \/ CallsFor(bytes, cmd[p].repo, o)
    PROVE  EarnInv'
  <1> DEFINE n == [view[p] EXCEPT ![cmd[p].repo] = o]
  <1>1. TypeOK /\ view[p] \in Stores /\ cmd[p].repo \in Repos /\ view[p] # NoStore
    BY RepoOfProcess DEF StoreInv, SavesWhatItRead, StateFilesConstantsOK
  <1>2. Earned(view[p], bytes)
    BY <1>1 DEF EarnInv
  <1>3. Earned(n, bytes)
    BY <1>1, <1>2, EarnedNow
  <1> HIDE DEF n
  <1>4. UNCHANGED <<cmd, earlier, bytes, file>>
    BY DEF Save, logVars
  <1>5. /\ pc \in [Processes -> Steps] /\ view \in [Processes -> Stores \cup {NoStore}]
        /\ next \in [Processes -> Stores \cup {NoStore}]
    BY <1>1, StepsType DEF TypeOK
  <1>6. CASE o = view[p][cmd[p].repo]
    <2>1. pc' = [pc EXCEPT ![p] = "done"] /\ view' = [view EXCEPT ![p] = NoStore] /\ next' = next
      BY <1>6 DEF Save, Goto
    <2> QED BY <1>1, <1>4, <1>5, <2>1, EarnedStep DEF LogGrows, Saving
  <1>7. CASE o # view[p][cmd[p].repo]
    <2>1. pc' = [pc EXCEPT ![p] = "lock"] /\ view' = view /\ next' = [next EXCEPT ![p] = n]
      BY <1>7 DEF Save, Goto, n
    <2>2. next'[p] = n /\ \A q \in Processes \ {p} : pc'[q] = pc[q] /\ next'[q] = next[q]
      BY <1>5, <2>1
    <2>3. \A q \in Processes : pc'[q] \in Saving =>
             (pc[q] \in Saving /\ next'[q] = next[q]) \/ Earned(next'[q], bytes)
      BY <1>3, <2>2
    <2> QED BY <1>1, <1>4, <2>1, <2>3, EarnedStep DEF LogGrows
  <1> QED BY <1>6, <1>7

\* A process's step moves that process, which is still there.
LEMMA OneMoves ==
    ASSUME TypeOK, NEW p \in Processes,
           Proceed(p) \/ LockTimeout(p) \/ AppendFails(p) \/ ReadFails(p) \/ WriteFails(p)
              \/ Killed(p)
    PROVE  pc[p] # "lost" /\ \A q \in Processes \ {p} : pc'[q] = pc[q]
  <1> USE DEF Goto, At, Final, TypeOK
  <1>1. CASE AppendPiece(p)
    <2>1. PICK n \in 1..3 : pc[p] = Writing[n] /\ \E step : pc' = [pc EXCEPT ![p] = step]
      BY <1>1 DEF AppendPiece
    <2>2. Writing[n] # "lost"
      BY DEF Writing
    <2> QED BY <2>1, <2>2
  <1>2. CASE AppendFails(p)
    <2>1. pc' = [pc EXCEPT ![p] = "failed"]
      BY <1>2 DEF AppendFails
    <2>2. pc[p] # "lost"
      BY <1>2 DEF AppendFails, Writing
    <2> QED BY <2>1, <2>2
  <1>3. CASE LockLog(p) \/ LockTimeout(p) \/ LoadStore(p) \/ ReadFails(p)
    BY <1>3 DEF LockLog, LockTimeout, LoadStore, ReadFails
  <1>4. CASE Analyze(p) \/ Reset(p)
    BY <1>4 DEF Analyze, Reset, Save
  <1>5. CASE LockStore(p) \/ WriteTemp(p) \/ WriteFails(p) \/ Rename(p) \/ CloseStore(p)
    BY <1>5 DEF LockStore, WriteTemp, WriteFails, Rename, CloseStore
  <1>6. CASE Killed(p)
    BY <1>6 DEF Killed
  <1> QED BY <1>1, <1>2, <1>3, <1>4, <1>5, <1>6 DEF Proceed

LEMMA EarnNext == StoreInv /\ EarnInv /\ [Next]_vars => EarnInv'
  <1> SUFFICES ASSUME StoreInv, EarnInv, [Next]_vars, NoneLost' PROVE EarnInv'
    BY DEF EarnInv
  <1>1. /\ TypeOK /\ pc \in [Processes -> Steps] /\ view \in [Processes -> Stores \cup {NoStore}]
        /\ bytes \in Seq(Pieces)
    BY StepsType DEF StoreInv, TypeOK
  <1>2. CASE UNCHANGED vars
    <2>1. NoneLost
      BY <1>2 DEF NoneLost, vars
    <2> QED BY <1>1, <1>2, <2>1, EarnedStep DEF vars, LogGrows
  <1>3. ~PowerFailure
    BY DEF PowerFailure, NoneLost
  <1>4. ASSUME NEW p \in Processes,
               Proceed(p) \/ LockTimeout(p) \/ AppendFails(p) \/ ReadFails(p) \/ WriteFails(p)
                  \/ Killed(p)
        PROVE  EarnInv'
    <2> USE DEF Goto, At, Saving, logVars, storeVars
    <2>1. NoneLost
      BY <1>1, <1>4, OneMoves DEF NoneLost
    <2>2. CASE LockLog(p)
      BY <1>1, <2>1, <2>2, EarnedStep DEF LockLog, LogGrows
    <2>3. CASE LockTimeout(p)
      BY <1>1, <2>1, <2>3, EarnedStep DEF LockTimeout, LogGrows
    <2>4. CASE AppendPiece(p)
      <3>1. PICK n \in 1..3 :
              /\ bytes' = Append(bytes, Piece(p, what[p], n))
              /\ \/ pc' = [pc EXCEPT ![p] = Writing[n + 1]] /\ n < 3
                 \/ pc' = [pc EXCEPT ![p] = "open"]
                 \/ pc' = [pc EXCEPT ![p] = "load"]
              /\ UNCHANGED <<cmd, earlier, view, storeVars>>
        BY <2>4 DEF AppendPiece
      <3>2. LogGrows
        BY <1>1, <3>1 DEF LogGrows, Piece, Pieces, TypeOK
      <3>3. pc'[p] \in {"second", "newline", "open", "load"}
            /\ \A q \in Processes \ {p} : pc'[q] = pc[q]
        BY <1>1, <3>1 DEF Writing
      <3>4. UNCHANGED <<cmd, earlier, view, file, next>>
        BY <3>1
      <3>5. \A q \in Processes : pc'[q] \in Saving => pc[q] \in Saving
        BY <3>3
      <3> QED BY <1>1, <2>1, <3>2, <3>4, <3>5, EarnedStep
    <2>5. CASE AppendFails(p)
      BY <1>1, <2>1, <2>5, EarnedStep DEF AppendFails, LogGrows
    <2>6. CASE LoadStore(p)
      BY <1>1, <2>1, <2>6, EarnedStep DEF LoadStore, LogGrows
    <2>7. CASE ReadFails(p)
      BY <1>1, <2>1, <2>7, EarnedStep DEF ReadFails, LogGrows
    <2>8. CASE Analyze(p)
      <3> DEFINE repo == cmd[p].repo
                 r == Recommendation(CountsIn(bytes, repo))
                 o == SavedOffset(view[p][repo], r)
      <3>1. pc[p] = "analyze" /\ Save(p, o)
        BY <2>8 DEF Analyze
      <3>2. view[p][repo] \in Offsets
        BY <1>1, <3>1, RepoOfProcess DEF StoreInv, SavesWhatItRead, Stores
      <3>3. o \in Offsets
        BY <3>2, OffsetsAreClosed
      <3>4. o = view[p][repo] \/ CallsFor(bytes, repo, o)
        BY RecommendedIsCalledFor DEF SavedOffset
      <3> HIDE DEF r, o
      <3> QED BY <2>1, <3>1, <3>3, <3>4, SaveEarned
    <2>9. CASE Reset(p)
      BY <2>1, <2>9, SaveEarned DEF Reset, Offsets
    <2>10. CASE LockStore(p)
      BY <1>1, <2>1, <2>10, EarnedStep DEF LockStore, LogGrows
    <2>11. CASE WriteTemp(p)
      BY <1>1, <2>1, <2>11, EarnedStep DEF WriteTemp, LogGrows
    <2>12. CASE WriteFails(p)
      BY <1>1, <2>1, <2>12, EarnedStep DEF WriteFails, LogGrows
    <2>13. CASE Rename(p)
      BY <1>1, <2>1, <2>13, EarnedStep DEF Rename, LogGrows
    <2>14. CASE CloseStore(p)
      BY <1>1, <2>1, <2>14, EarnedStep DEF CloseStore, LogGrows
    <2>15. CASE Killed(p)
      BY <1>1, <2>1, <2>15, EarnedStep DEF Killed, LogGrows
    <2> QED BY <1>4, <2>2, <2>3, <2>4, <2>5, <2>6, <2>7, <2>8, <2>9, <2>10, <2>11, <2>12,
               <2>13, <2>14, <2>15 DEF Proceed
  <1> QED BY <1>2, <1>3, <1>4 DEF Next

\* However late a process writes the offset it computed, and whatever others did to
\* the log and to calibration.json meanwhile: the repository's own feedback called for
\* the offset, or it was there before.
THEOREM OffsetsWereEarnedAlways == Spec => []OffsetsWereEarned
  <1>1. EarnInv => OffsetsWereEarned
    BY DEF EarnInv, NoneLost, OffsetsWereEarned
  <1>2. Spec => []EarnInv
    BY StoreInvariant, EarnInit, EarnNext, PTL DEF Spec
  <1> QED BY <1>1, <1>2, PTL
=============================================================================
