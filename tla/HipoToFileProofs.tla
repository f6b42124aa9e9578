-------------------------- MODULE HipoToFileProofs --------------------------
(***************************************************************************)
(* UndisturbedIsRight and FilesAreFilled are kept by every step of the     *)
(* engine's threads, any number of them, of the writer and of the          *)
(* framework, whatever the size of the event and of the files.             *)
(***************************************************************************)
EXTENDS HipoToFile, TLAPS

Steps == {"idle", "count", "rewind", "number", "length", "little", "pointer", "size", "big",
          "output"}

Files == [carried : Nat, records : Seq(BOOLEAN), failed : Nat]

HipoTypes ==
    /\ position \in Int
    /\ order \in {"little", "big"}
    /\ dump \in [EngineThreads -> Steps]
    /\ threw \in BOOLEAN
    /\ writing \in {"idle", "number", "length", "data", "write", "rotate"}
    /\ lengthRight \in BOOLEAN /\ dataRight \in BOOLEAN /\ disturbed \in BOOLEAN
    /\ evtCount \in Nat
    /\ file \in Files
    /\ rotated \in Seq(Files)

(* The byte order is wrong only while a thread is about to restore it, or  *)
(* after one was made to leave.                                            *)
OrderRestored ==
    order = "little" => threw \/ \E t \in EngineThreads : dump[t] \in {"pointer", "size", "big"}

(* While the writer has been left alone nobody is in the buffer but it, and*)
(* it is where it believes to be.                                          *)
LeftAlone ==
    (~disturbed /\ writing # "idle") => Dumping = {} /\ ~threw

InPlace ==
    ~disturbed => /\ writing = "number" => position = 0
                  /\ writing = "length" => position = 1
                  /\ writing = "data" => position = 2 /\ lengthRight
                  /\ writing = "write" => dataRight

(* evtCount is what the file began with, and the events since.             *)
Counted ==
    LET begun == IF writing \in {"idle", "rotate"} THEN 0 ELSE 1
    IN  evtCount = file.carried + Len(file.records) + file.failed + begun

(* A file is closed as soon as it is full.                                 *)
NotFull ==
    IF writing = "rotate"
      THEN /\ Len(file.records) >= 1 /\ evtCount >= NumFileEvents
           /\ Len(file.records) = 1 \/ file.carried + Len(file.records) <= NumFileEvents
      ELSE Len(file.records) = 0 \/ file.carried + Len(file.records) < NumFileEvents

HipoInv ==
    /\ HipoTypes
    /\ OrderRestored /\ LeftAlone /\ InPlace
    /\ Counted /\ NotFull /\ FilesAreFilled

-----------------------------------------------------------------------------
(* The invariant holds before the first event.                             *)
LEMMA HipoInitInv == HipoInit => HipoInv
<1> SUFFICES ASSUME HipoInit PROVE HipoInv
  OBVIOUS
<1> USE HipoToFileAssumption
<1>1. HipoTypes
  <2>1. NewFile(0) \in Files
    BY DEF NewFile, Files
  <2>2. dump \in [EngineThreads -> Steps]
    BY DEF HipoInit, Steps
  <2>3. position \in Int /\ rotated \in Seq(Files) /\ evtCount \in Nat
    BY DEF HipoInit
  <2>4. /\ threw \in BOOLEAN /\ lengthRight \in BOOLEAN /\ dataRight \in BOOLEAN
        /\ disturbed \in BOOLEAN /\ order \in {"little", "big"}
    BY Zenon DEF HipoInit
  <2> QED
    BY <2>1, <2>2, <2>3, <2>4 DEF HipoInit, HipoTypes
<1>2. OrderRestored /\ LeftAlone /\ InPlace
  BY DEF HipoInit, OrderRestored, LeftAlone, InPlace
<1>3. Counted /\ NotFull
  BY DEF HipoInit, Counted, NotFull, NewFile
<1>4. FilesAreFilled
  BY DEF HipoInit, FilesAreFilled
<1> QED
  BY <1>1, <1>2, <1>3, <1>4 DEF HipoInv

(* A step of the engine leaves the writer's files alone, and whatever it   *)
(* does to the buffer is known as a disturbance.                           *)
LEMMA EngineStep ==
    ASSUME HipoInv, NEW t \in EngineThreads, Engine(t)
    PROVE  HipoInv'
<1> USE HipoToFileAssumption
<1>t. HipoTypes /\ OrderRestored /\ LeftAlone /\ InPlace /\ Counted /\ NotFull /\ FilesAreFilled
  BY DEF HipoInv
<1>w. UNCHANGED <<writing, lengthRight, dataRight, evtCount, file, rotated>>
  BY DEF Engine, TakeEvent, Count, Rewind, GetInt, GetIntFails, Little, Big, Output, Disturbs,
         writerVars
<1>1. Counted' /\ NotFull' /\ FilesAreFilled'
  BY <1>t, <1>w DEF Counted, NotFull, FilesAreFilled
<1>2. HipoTypes'
  <2>1. /\ position' \in Int /\ order' \in {"little", "big"}
        /\ threw' \in BOOLEAN /\ disturbed' \in BOOLEAN
    <3>1. CASE TakeEvent(t) \/ Count(t) \/ Output(t)
      BY <1>t, <3>1 DEF TakeEvent, Count, Output, writerVars, bufferVars, HipoTypes
    <3>2. CASE Rewind(t) \/ GetInt(t) \/ Little(t) \/ Big(t)
      <4>1. position' \in Int /\ order' \in {"little", "big"}
        BY <1>t, <3>2 DEF Rewind, GetInt, Little, Big, HipoTypes
      <4>2. threw' \in BOOLEAN /\ disturbed' \in BOOLEAN
        BY <1>t, <3>2, Zenon DEF Rewind, GetInt, Little, Big, Disturbs, HipoTypes
      <4> QED
        BY <4>1, <4>2
    <3>3. CASE GetIntFails(t)
      BY <1>t, <3>3 DEF GetIntFails, Disturbs, bufferVars, HipoTypes
    <3> QED
      BY <3>1, <3>2, <3>3 DEF Engine
  <2>2. dump' \in [EngineThreads -> Steps]
    <3>1. \E to \in Steps : dump' = [dump EXCEPT ![t] = to]
      BY DEF Engine, TakeEvent, Count, Rewind, GetInt, GetIntFails, Little, Big, Output,
             Step, Steps
    <3> QED
      BY <1>t, <3>1 DEF HipoTypes
  <2> QED
    BY <1>t, <1>w, <2>1, <2>2 DEF HipoTypes
<1>3. CASE TakeEvent(t) \/ Count(t) \/ Output(t)
  <2>1. UNCHANGED <<position, order, threw, disturbed>>
    BY <1>3 DEF TakeEvent, Count, Output, bufferVars, writerVars
  <2>2. /\ dump[t] \in {"idle", "count", "output"} /\ dump'[t] \in {"count", "rewind", "output", "idle"}
        /\ \A s \in EngineThreads : s # t => dump'[s] = dump[s]
    BY <1>3, <1>t DEF TakeEvent, Count, Output, Step, HipoTypes
  <2>3. OrderRestored'
    BY <1>t, <2>1, <2>2 DEF OrderRestored
  <2>4. Dumping' = Dumping
    BY <2>2 DEF Dumping
  <2> QED
    BY <1>t, <1>w, <1>1, <1>2, <2>1, <2>3, <2>4 DEF HipoInv, LeftAlone, InPlace
<1>4. CASE Rewind(t) \/ GetInt(t) \/ GetIntFails(t) \/ Little(t) \/ Big(t)
  <2>1. disturbed'
    BY <1>4 DEF Rewind, GetInt, GetIntFails, Little, Big, Disturbs
  <2>2. LeftAlone' /\ InPlace'
    BY <2>1 DEF LeftAlone, InPlace
  <2>3. OrderRestored'
    <3>1. \A s \in EngineThreads : s # t => dump'[s] = dump[s]
      BY <1>4, <1>t DEF Rewind, GetInt, GetIntFails, Little, Big, Step, HipoTypes
    <3>2. CASE Rewind(t)
      <4>1. order' = order /\ threw' = threw /\ dump[t] = "rewind"
        BY <3>2 DEF Rewind, Step
      <4> QED
        BY <1>t, <3>1, <4>1 DEF OrderRestored
    <3>3. CASE GetInt(t)
      <4>1. /\ order' = order /\ threw' = threw
            /\ dump[t] \in {"pointer", "size", "big"} => dump'[t] \in {"pointer", "size", "big"}
        BY <1>t, <3>3 DEF GetInt, Step, HipoTypes
      <4> QED
        BY <1>t, <3>1, <4>1 DEF OrderRestored
    <3>4. CASE GetIntFails(t)
      BY <3>4 DEF GetIntFails, OrderRestored
    <3>5. CASE Little(t)
      BY <1>t, <3>5 DEF Little, Step, OrderRestored, HipoTypes
    <3>6. CASE Big(t)
      BY <3>6 DEF Big, OrderRestored
    <3> QED
      BY <1>4, <3>2, <3>3, <3>4, <3>5, <3>6
  <2> QED
    BY <1>t, <1>1, <1>2, <2>2, <2>3 DEF HipoInv
<1> QED
  BY <1>3, <1>4 DEF Engine

-----------------------------------------------------------------------------
(* A step of the writer, as long as it is left alone, finds the buffer as  *)
(* it must be.                                                             *)
LEMMA WriterReads ==
    ASSUME HipoInv, Writer \/ Reopen
    PROVE  HipoTypes' /\ OrderRestored' /\ LeftAlone' /\ InPlace'
<1> USE HipoToFileAssumption
<1>t. HipoTypes /\ OrderRestored /\ LeftAlone /\ InPlace
  BY DEF HipoInv
<1>e. UNCHANGED <<order, dump, threw>>
  BY DEF Writer, WriteEvent, GetNumber, GetLength, GetData, GetFails, WriteData, WriteFails,
         Rotate, Write, Reopen, engineVars, bufferVars
<1>1. OrderRestored'
  BY <1>t, <1>e DEF OrderRestored
<1>2. HipoTypes'
  <2>1. /\ position' \in Int /\ lengthRight' \in BOOLEAN /\ dataRight' \in BOOLEAN
        /\ disturbed' \in BOOLEAN /\ evtCount' \in Nat
        /\ writing' \in {"idle", "number", "length", "data", "write", "rotate"}
    <3>1. CASE WriteEvent \/ GetNumber \/ GetLength
      <4>1. position' \in Int /\ evtCount' \in Nat
        BY <1>t, <3>1 DEF WriteEvent, GetNumber, GetLength, HipoTypes
      <4>2. lengthRight' \in BOOLEAN /\ dataRight' \in BOOLEAN /\ disturbed' \in BOOLEAN
        BY <1>t, <3>1 DEF WriteEvent, GetNumber, GetLength, HipoTypes
      <4> QED
        BY <3>1, <4>1, <4>2 DEF WriteEvent, GetNumber, GetLength, Write
    <3>2. CASE GetData
      <4>1. \E words \in Int : position' = position + words
        BY <3>2 DEF GetData, Limit
      <4> QED
        BY <1>t, <3>2, <4>1 DEF GetData, Write, HipoTypes
    <3>3. CASE GetFails \/ WriteData \/ WriteFails \/ Rotate
      BY <1>t, <3>3 DEF GetFails, WriteData, WriteFails, Rotate, Write, HipoTypes
    <3>4. CASE Reopen
      BY <1>t, <3>4 DEF Reopen, bufferVars, HipoTypes
    <3> QED
      BY <3>1, <3>2, <3>3, <3>4 DEF Writer
  <2>2. file' \in Files
    <3>1. file \in Files /\ dataRight \in BOOLEAN /\ evtCount \in Nat
      BY <1>t DEF HipoTypes
    <3>2. CASE WriteData
      <4>1. Append(file.records, dataRight) \in Seq(BOOLEAN)
        BY <3>1 DEF Files
      <4> QED
        BY <3>1, <3>2, <4>1 DEF WriteData, Files
    <3>3. CASE GetFails \/ WriteFails
      BY <3>1, <3>3 DEF GetFails, WriteFails, Files
    <3>4. CASE Rotate \/ Reopen
      <4>1. \A n \in Nat : NewFile(n) \in Files
        BY DEF NewFile, Files
      <4> QED
        BY <3>1, <3>4, <4>1 DEF Rotate, Reopen
    <3>5. CASE WriteEvent \/ GetNumber \/ GetLength \/ GetData
      BY <3>1, <3>5 DEF WriteEvent, GetNumber, GetLength, GetData
    <3> QED
      BY <3>2, <3>3, <3>4, <3>5 DEF Writer
  <2>3. rotated' \in Seq(Files)
    <3>1. rotated \in Seq(Files) /\ file \in Files
      BY <1>t DEF HipoTypes
    <3>2. CASE Rotate
      <4>1. rotated' = Append(rotated, file)
        BY <3>2 DEF Rotate
      <4> QED
        BY <3>1, <4>1
    <3>3. CASE ~Rotate
      <4>1. rotated' = rotated
        BY <3>3 DEF Writer, WriteEvent, GetNumber, GetLength, GetData, GetFails, WriteData,
                    WriteFails, Reopen
      <4> QED
        BY <3>1, <4>1
    <3> QED
      BY <3>2, <3>3
  <2> QED
    BY <1>t, <1>e, <2>1, <2>2, <2>3 DEF HipoTypes
<1>3. Dumping' = Dumping
  BY <1>e DEF Dumping
<1>4. LeftAlone'
  BY <1>t, <1>e, <1>3 DEF LeftAlone, Writer, WriteEvent, GetNumber, GetLength, GetData, GetFails,
                          WriteData, WriteFails, Rotate, Write, Reopen, HipoTypes
<1>5. InPlace'
  <2>1. CASE WriteEvent
    BY <2>1 DEF WriteEvent, Write, InPlace
  <2>2. CASE GetNumber
    BY <1>t, <2>2 DEF GetNumber, Write, InPlace
  <2>3. CASE GetLength
    <3>1. ~disturbed => order = "big"
      <4> SUFFICES ASSUME ~disturbed PROVE order = "big"
        OBVIOUS
      <4>1. Dumping = {} /\ ~threw
        BY <1>t, <2>3 DEF LeftAlone, GetLength, Write
      <4> QED
        BY <1>t, <4>1 DEF OrderRestored, Dumping, HipoTypes
    <3>2. /\ writing = "length" /\ writing' = "data" /\ disturbed' = disturbed
          /\ position' = position + 1 /\ lengthRight' = (position = 1 /\ order = "big")
      BY <2>3 DEF GetLength, Write
    <3>3. ~disturbed => position = 1
      BY <1>t, <3>2 DEF InPlace
    <3>4. ~disturbed => position' = 2
      BY <3>2, <3>3
    <3>5. ~disturbed => lengthRight'
      BY <3>1, <3>2, <3>3, Zenon
    <3> QED
      BY <3>2, <3>4, <3>5 DEF InPlace
  <2>4. CASE GetData
    BY <1>t, <2>4 DEF GetData, Write, InPlace
  <2>5. CASE GetFails \/ WriteFails \/ Rotate \/ Reopen \/ WriteData
    BY <2>5 DEF GetFails, WriteFails, Rotate, Reopen, WriteData, Write, InPlace
  <2> QED
    BY <2>1, <2>2, <2>3, <2>4, <2>5 DEF Writer
<1> QED
  BY <1>1, <1>2, <1>4, <1>5

(* The bounds that FilesAreFilled puts on the records of a file.           *)
LEMMA AtLeastOne ==
    ASSUME NEW r \in Nat, NEW x \in Nat, NEW left \in Int,
           r >= 1, r = 1 \/ r <= left, left <= r + x
    PROVE  LET n == IF left < 1 THEN 1 ELSE left
           IN  r <= n /\ n <= r + x
<1>1. CASE left < 1
  BY <1>1
<1>2. CASE left >= 1
  BY <1>2
<1> QED
  BY <1>1, <1>2

(* Each event is counted once, and a file is closed when it is full.       *)
LEMMA WriterCounts ==
    ASSUME HipoInv, Writer \/ Reopen
    PROVE  Counted' /\ NotFull' /\ FilesAreFilled'
<1> USE HipoToFileAssumption
<1>t. HipoTypes /\ Counted /\ NotFull /\ FilesAreFilled
  BY DEF HipoInv
<1>f. /\ file \in Files /\ Len(file.records) \in Nat /\ file.failed \in Nat
      /\ file.carried \in Nat /\ evtCount \in Nat
  BY <1>t DEF HipoTypes, Files
<1>1. CASE WriteEvent \/ GetNumber \/ GetLength \/ GetData
  <2>1. /\ UNCHANGED <<file, rotated>> /\ writing # "rotate" /\ writing' \notin {"idle", "rotate"}
        /\ evtCount' = IF writing = "idle" THEN evtCount + 1 ELSE evtCount
    BY <1>1 DEF WriteEvent, GetNumber, GetLength, GetData, Write
  <2>2. Counted'
    BY <1>t, <1>f, <2>1 DEF Counted
  <2> QED
    BY <1>t, <2>1, <2>2 DEF NotFull, FilesAreFilled
<1>2. CASE GetFails \/ WriteFails
  <2>1. /\ file'.carried = file.carried /\ file'.records = file.records
        /\ file'.failed = file.failed + 1
    BY <1>f, <1>2 DEF GetFails, WriteFails, Files
  <2>2. /\ UNCHANGED <<evtCount, rotated>>
        /\ writing \notin {"idle", "rotate"} /\ writing' = "idle"
    BY <1>2 DEF GetFails, WriteFails, Write
  <2>3. Counted'
    BY <1>t, <1>f, <2>1, <2>2 DEF Counted
  <2> QED
    BY <1>t, <2>1, <2>2, <2>3 DEF NotFull, FilesAreFilled
<1>3. CASE WriteData
  <2>1. /\ file'.carried = file.carried /\ file'.failed = file.failed
        /\ file'.records = Append(file.records, dataRight)
    BY <1>f, <1>3 DEF WriteData, Files
  <2>2. Len(file'.records) = Len(file.records) + 1
    BY <1>f, <2>1 DEF Files
  <2>3. /\ UNCHANGED <<evtCount, rotated>> /\ writing = "write"
        /\ writing' = IF evtCount >= NumFileEvents THEN "rotate" ELSE "idle"
    BY <1>3 DEF WriteData, Write
  <2>4. evtCount = file.carried + Len(file.records) + file.failed + 1
    BY <1>t, <2>3 DEF Counted
  <2>5. Counted'
    <3>1. writing' \in {"idle", "rotate"}
      BY <2>3
    <3>2. evtCount' = file'.carried + Len(file'.records) + file'.failed
      BY <1>f, <2>1, <2>2, <2>3, <2>4
    <3> QED
      BY <1>f, <2>1, <2>2, <3>1, <3>2 DEF Counted
  <2>6. Len(file.records) = 0 \/ file.carried + Len(file.records) < NumFileEvents
    BY <1>t, <2>3 DEF NotFull
  <2>7. NotFull'
    BY <1>f, <2>1, <2>2, <2>3, <2>4, <2>6 DEF NotFull
  <2> QED
    BY <1>t, <2>3, <2>5, <2>7 DEF FilesAreFilled
<1>4. CASE Rotate
  <2>1. /\ file' = [carried |-> 0, records |-> <<>>, failed |-> 0]
        /\ evtCount' = 0 /\ writing = "rotate" /\ writing' = "idle"
        /\ rotated' = Append(rotated, file)
    BY <1>4 DEF Rotate, Write, NewFile
  <2>2. Counted' /\ NotFull'
    BY <2>1 DEF Counted, NotFull
  <2>3. LET left == NumFileEvents - file.carried
            n    == IF left < 1 THEN 1 ELSE left
        IN  Len(file.records) <= n /\ n <= Len(file.records) + file.failed
    <3>1. evtCount = file.carried + Len(file.records) + file.failed
      BY <1>t, <1>f, <2>1 DEF Counted
    <3>2. /\ Len(file.records) >= 1 /\ evtCount >= NumFileEvents
          /\ Len(file.records) = 1 \/ file.carried + Len(file.records) <= NumFileEvents
      BY <1>t, <2>1 DEF NotFull
    <3>3. NumFileEvents - file.carried \in Int
      BY <1>f
    <3>4. NumFileEvents - file.carried <= Len(file.records) + file.failed
      BY <1>f, <3>1, <3>2
    <3>5. Len(file.records) = 1 \/ Len(file.records) <= NumFileEvents - file.carried
      BY <1>f, <3>2
    <3> QED
      BY <1>f, <3>2, <3>3, <3>4, <3>5, AtLeastOne
  <2>4. FilesAreFilled'
    <3>1. rotated \in Seq(Files)
      BY <1>t DEF HipoTypes
    <3>2. \A k \in DOMAIN rotated' :
              rotated'[k] = file \/ (k \in DOMAIN rotated /\ rotated'[k] = rotated[k])
      BY <2>1, <3>1, <1>f
    <3> QED
      BY <1>t, <2>3, <3>2 DEF FilesAreFilled
  <2> QED
    BY <2>2, <2>4
<1>5. CASE Reopen
  BY <1>t, <1>f, <1>5 DEF Reopen, NewFile, Counted, NotFull, FilesAreFilled
<1> QED
  BY <1>1, <1>2, <1>3, <1>4, <1>5 DEF Writer

(* Every step of engine, writer or framework keeps the invariant.          *)
LEMMA HipoNextInv == HipoInv /\ [HipoNext]_hipoVars => HipoInv'
<1> SUFFICES ASSUME HipoInv, [HipoNext]_hipoVars PROVE HipoInv'
  OBVIOUS
<1>1. CASE \E t \in EngineThreads : Engine(t)
  BY <1>1, EngineStep
<1>2. CASE Writer \/ Reopen
  BY <1>2, WriterReads, WriterCounts DEF HipoInv
<1>3. CASE UNCHANGED hipoVars
  BY <1>3 DEF hipoVars, bufferVars, engineVars, writerVars, HipoInv, HipoTypes, OrderRestored,
              LeftAlone, InPlace, Counted, NotFull, FilesAreFilled, Dumping
<1> QED
  BY <1>1, <1>2, <1>3 DEF HipoNext
=============================================================================
