----------------------------- MODULE HipoToFile -----------------------------
(***************************************************************************)
(* The Java services of the front end, in one process: EClas12HipoReader,  *)
(* EDummyEngine on several threads, and EEventWriter.  The framework       *)
(* (external) hands events on by reference, and the reader returns the same*)
(* ByteBuffer for each: a header of two words, the event's number and its  *)
(* length, and the event.  Engine and writer move the buffer's position,   *)
(* the engine changes its byte order, and nothing is synchronised.  One    *)
(* reader is looked at: each createReader makes a ByteBuffer of its own.   *)
(***************************************************************************)
EXTENDS Integers, Sequences

CONSTANTS
    EngineThreads,  \* the threads that the framework runs the engine on
    NumEvents,      \* the events that the framework asks the reader for
    DataWords,      \* the words of the event, behind the header
    PrintInterval,  \* print-interval of the engine
    NumFileEvents,  \* file-events of the writer
    MaxReopens      \* how often the framework opens another output

(* print-interval is configured: it is 0 before, and i++ % pi throws then. *)
ASSUME HipoToFileAssumption ==
    /\ NumEvents \in Nat /\ MaxReopens \in Nat
    /\ NumFileEvents \in Int
    /\ DataWords \in Nat \ {0, 1}
    /\ PrintInterval \in Nat \ {0}

VARIABLES
    events,             \* how many events the reader has been asked for
    position, order,    \* of the ByteBuffer
    i,                  \* the engine's counter, modulo PrintInterval
    seen,               \* what each thread has read of it
    dump,               \* each thread's step in execute
    threw,              \* whether one has left it by an exception
    waiting,            \* how many events wait for the writer
    writing,            \* where the writer is in writeEvent
    lengthRight, dataRight,     \* whether it has read the right length, and data
    disturbed,          \* whether the engine may have got into its way
    evtCount,
    output,             \* its FileOutputStream: "open" or "closed"
    file,               \* what has been written to it
    rotated,            \* the files filled and closed
    reopens

bufferVars == <<position, order>>
engineVars == <<i, seen, dump, threw>>
writerVars == <<waiting, writing, lengthRight, dataRight, disturbed, evtCount, output, file,
                rotated, reopens>>
hipoVars   == <<events, bufferVars, engineVars, writerVars>>

(* A file: the value of evtCount when it was begun, whether each record is *)
(* the event, and how many events could not be written.                    *)
NewFile(count) == [carried |-> count, records |-> <<>>, failed |-> 0]

HipoInit ==
    /\ events = 0
    /\ position = 2 + DataWords /\ order = "big"
    /\ i = 0
    /\ seen = [t \in EngineThreads |-> 0]
    /\ dump = [t \in EngineThreads |-> "idle"]
    /\ threw = FALSE
    /\ waiting = 0
    /\ writing = "idle"
    /\ lengthRight = FALSE /\ dataRight = FALSE /\ disturbed = FALSE
    /\ evtCount = 0
    /\ output = "open"
    /\ file = NewFile(0)
    /\ rotated = <<>>
    /\ reopens = 0

Limit == 2 + DataWords
Dumping == {t \in EngineThreads : dump[t] \in {"number", "length", "little", "pointer", "size", "big"}}

-----------------------------------------------------------------------------
(* EDummyEngine.  Whatever it does to the buffer may disturb the writer.   *)

Step(t, from, to) ==
    /\ dump[t] = from
    /\ dump' = [dump EXCEPT ![t] = to]

TakeEvent(t) ==
    /\ events < NumEvents
    /\ Step(t, "idle", "count")
    /\ events' = events + 1
    /\ seen' = [seen EXCEPT ![t] = i]
    /\ UNCHANGED <<bufferVars, i, threw, writerVars>>

(* i++ % pi, on an int that all threads count up.                          *)
Count(t) ==
    /\ Step(t, "count", IF seen[t] = 0 THEN "rewind" ELSE "output")
    /\ i' = (seen[t] + 1) % PrintInterval
    /\ UNCHANGED <<events, bufferVars, seen, threw, writerVars>>

Disturbs == /\ disturbed' = TRUE
            /\ UNCHANGED <<events, i, seen, waiting, writing, lengthRight, dataRight,
                           evtCount, output, file, rotated, reopens>>

Rewind(t) ==
    /\ Step(t, "rewind", "number")
    /\ position' = 0
    /\ UNCHANGED <<order, threw>> /\ Disturbs

GetInt(t) ==
    /\ position < Limit
    /\ \/ Step(t, "number", "length") \/ Step(t, "length", "little")
       \/ Step(t, "pointer", "size") \/ Step(t, "size", "big")
    /\ position' = position + 1
    /\ UNCHANGED <<order, threw>> /\ Disturbs

(* BufferUnderflowException: another thread, or the writer, has moved on.  *)
GetIntFails(t) ==
    /\ position >= Limit
    /\ \E from \in {"number", "length", "pointer", "size"} : Step(t, from, "idle")
    /\ threw' = TRUE
    /\ UNCHANGED bufferVars /\ Disturbs

Little(t) ==
    /\ Step(t, "little", "pointer")
    /\ order' = "little"
    /\ UNCHANGED <<position, threw>> /\ Disturbs

(* Variant, not the code: the order is left as it is.                      *)
BigForgotten(t) ==
    /\ Step(t, "big", "output")
    /\ UNCHANGED <<position, order, threw>> /\ Disturbs

Big(t) ==
    /\ Step(t, "big", "output")
    /\ order' = "big"
    /\ UNCHANGED <<position, threw>> /\ Disturbs

Output(t) ==
    /\ Step(t, "output", "idle")
    /\ waiting' = waiting + 1
    /\ UNCHANGED <<events, bufferVars, i, seen, threw, writing, lengthRight, dataRight, disturbed,
                   evtCount, output, file, rotated, reopens>>

Engine(t) == TakeEvent(t) \/ Count(t) \/ Rewind(t) \/ GetInt(t) \/ GetIntFails(t)
                 \/ Little(t) \/ Big(t) \/ Output(t)

-----------------------------------------------------------------------------
(* EEventWriter.writeEvent.                                                *)

Write(from, to) ==
    /\ writing = from
    /\ writing' = to
    /\ UNCHANGED <<events, order, engineVars, reopens>>

WriteEvent ==
    /\ waiting > 0
    /\ Write("idle", "number")
    /\ waiting' = waiting - 1
    /\ evtCount' = evtCount + 1
    /\ position' = 0
    /\ disturbed' = (Dumping # {} \/ threw)
    /\ UNCHANGED <<lengthRight, dataRight, output, file, rotated>>

GetNumber ==
    /\ position < Limit
    /\ Write("number", "length")
    /\ position' = position + 1
    /\ UNCHANGED <<waiting, lengthRight, dataRight, disturbed, evtCount, output, file, rotated>>

GetLength ==
    /\ position < Limit
    /\ Write("length", "data")
    /\ lengthRight' = (position = 1 /\ order = "big")
    /\ position' = position + 1
    /\ UNCHANGED <<waiting, dataRight, disturbed, evtCount, output, file, rotated>>

(* As many words as it believes the event has, if there are so many.       *)
GetData ==
    /\ \E words \in IF lengthRight THEN {DataWords} ELSE 0..Limit :
           /\ position + words <= Limit
           /\ position' = position + words
           /\ dataRight' = (lengthRight /\ position = 2)
    /\ Write("data", "write")
    /\ UNCHANGED <<waiting, lengthRight, disturbed, evtCount, output, file, rotated>>

(* BufferUnderflowException, or no array of that length: to the framework. *)
GetFails ==
    /\ \/ position >= Limit /\ (Write("number", "idle") \/ Write("length", "idle"))
       \/ (~lengthRight \/ position + DataWords > Limit) /\ Write("data", "idle")
    /\ file' = [file EXCEPT !.failed = @ + 1]
    /\ UNCHANGED <<position, waiting, lengthRight, dataRight, disturbed, evtCount, output, rotated>>

WriteData ==
    /\ output = "open"
    /\ Write("write", IF evtCount >= NumFileEvents THEN "rotate" ELSE "idle")
    /\ file' = [file EXCEPT !.records = Append(@, dataRight)]
    /\ UNCHANGED <<position, waiting, lengthRight, dataRight, disturbed, evtCount, output, rotated>>

(* IOException, which is printed: always, once the output is closed.       *)
WriteFails ==
    /\ Write("write", "idle")
    /\ file' = [file EXCEPT !.failed = @ + 1]
    /\ UNCHANGED <<position, waiting, lengthRight, dataRight, disturbed, evtCount, output, rotated>>

(* Variant, not the code: the counter goes on.                             *)
RotateCountingOn ==
    /\ Write("rotate", "idle")
    /\ rotated' = Append(rotated, file)
    /\ output' = "open" /\ file' = NewFile(0)
    /\ UNCHANGED <<position, waiting, lengthRight, dataRight, disturbed, evtCount>>

(* The file is closed and the next one opened; if either fails the output  *)
(* remains closed.                                                         *)
Rotate ==
    /\ Write("rotate", "idle")
    /\ evtCount' = 0
    /\ rotated' = Append(rotated, file)
    /\ output' \in {"open", "closed"} /\ file' = NewFile(0)
    /\ UNCHANGED <<position, waiting, lengthRight, dataRight, disturbed>>

Writer == WriteEvent \/ GetNumber \/ GetLength \/ GetData \/ GetFails
              \/ WriteData \/ WriteFails \/ Rotate

(* closeWriter and createWriter, for another output; evtCount goes on.     *)
Reopen ==
    /\ writing = "idle" /\ reopens < MaxReopens
    /\ reopens' = reopens + 1
    /\ output' = "open" /\ file' = NewFile(evtCount)
    /\ UNCHANGED <<events, bufferVars, engineVars, waiting, writing, lengthRight, dataRight,
                   disturbed, evtCount, rotated>>

HipoNext == Writer \/ Reopen \/ \E t \in EngineThreads : Engine(t)

-----------------------------------------------------------------------------
(* What is written to a file is the event, and no event fails for what the *)
(* buffer says, as long as the engine keeps away from the buffer while one *)
(* is written: whatever it did before, it has restored the byte order,     *)
(* unless another thread made it leave by an exception.                    *)
UndisturbedIsRight ==
    ~disturbed => /\ writing = "write" => dataRight
                  /\ writing = "data" => lengthRight /\ position + DataWords <= Limit
                  /\ writing \in {"number", "length"} => position < Limit

(* A file that is full, and no other, is closed for the next: counting the *)
(* events of the output before it that made no file full, file-events have *)
(* been written to it, fewer only if writing failed, and at least one.     *)
FilesAreFilled ==
    \A k \in DOMAIN rotated :
        LET f    == rotated[k]
            left == NumFileEvents - f.carried
            n    == IF left < 1 THEN 1 ELSE left
        IN  Len(f.records) <= n /\ n <= Len(f.records) + f.failed
=============================================================================
