----------------------------- MODULE HipoReader -----------------------------
(***************************************************************************)
(* EClas12HipoReader counts the events it is asked for, and a timer, one   *)
(* for each createReader, takes the count once a second and starts it anew.*)
(* The timer's task prints the average, and cancels itself, after a second *)
(* without events; closeReader does not end it.  A timer that has ended is *)
(* one whose task has: the java.util.Timer's own thread, which has nothing *)
(* to do then, is left out.  The count is a plain field that the timers    *)
(* and the framework's thread write without synchronisation.               *)
(***************************************************************************)
EXTENDS Integers, Sequences

CONSTANTS
    MaxReads,       \* how many events the framework asks for
    MaxReaders      \* how often it opens a file

ASSUME HipoReaderAssumption == MaxReads \in Nat /\ MaxReaders \in Nat

VARIABLES
    evt,
    opened, isOpen, \* how many readers there have been, whether one is open
    reads,          \* how many events have been asked for
    reading,        \* readEvent has read evt and not yet written it, and what
    timers          \* the step of each PrintRates, and whether it has any counts

readerVars == <<evt, opened, isOpen, reads, reading, timers>>

NotReading == -1

ReaderInit ==
    /\ evt = 1
    /\ opened = 0 /\ isOpen = FALSE
    /\ reads = 0
    /\ reading = NotReading
    /\ timers = <<>>

(* createReader; nothing changes if the file cannot be opened.             *)
CreateReader ==
    /\ ~isOpen /\ opened < MaxReaders
    /\ opened' = opened + 1 /\ isOpen' = TRUE
    /\ timers' = Append(timers, [step |-> "asleep", counts |-> FALSE])
    /\ UNCHANGED <<evt, reads, reading>>

CloseReader ==
    /\ isOpen /\ reading = NotReading
    /\ isOpen' = FALSE
    /\ UNCHANGED <<evt, opened, reads, reading, timers>>

ReadEvent ==
    /\ isOpen /\ reading = NotReading /\ reads < MaxReads
    /\ reads' = reads + 1
    /\ reading' = evt
    /\ UNCHANGED <<evt, opened, isOpen, timers>>

CountEvent ==
    /\ reading # NotReading
    /\ evt' = reading + 1
    /\ reading' = NotReading
    /\ UNCHANGED <<opened, isOpen, reads, timers>>

-----------------------------------------------------------------------------
(* PrintRates.run                                                          *)

Timer(k, from, to) ==
    /\ timers[k].step = from
    /\ timers' = [timers EXCEPT ![k].step = to]
    /\ UNCHANGED <<opened, isOpen, reads, reading>>

(* A second without events: the average of no counts is a division by zero,*)
(* an exception that ends thread and task; otherwise this is the last time.*)
NoEvents(k) ==
    /\ evt = 0
    /\ Timer(k, "asleep", IF timers[k].counts THEN "add, cancelled" ELSE "died")
    /\ UNCHANGED evt

SomeEvents(k) ==
    /\ evt # 0
    /\ Timer(k, "asleep", "add")
    /\ UNCHANGED evt

Add(k) ==
    /\ timers[k].step \in {"add", "add, cancelled"}
    /\ timers' = [timers EXCEPT
           ![k] = [step |-> IF @.step = "add" THEN "reset" ELSE "reset, cancelled", counts |-> TRUE]]
    /\ UNCHANGED <<evt, opened, isOpen, reads, reading>>

(* Variant, not the code: the count is left as it is.                      *)
ResetForgotten(k) ==
    /\ Timer(k, "reset", "asleep") \/ Timer(k, "reset, cancelled", "ended")
    /\ UNCHANGED evt

Reset(k) ==
    /\ Timer(k, "reset", "asleep") \/ Timer(k, "reset, cancelled", "ended")
    /\ evt' = 0

PrintRates == \E k \in DOMAIN timers : NoEvents(k) \/ SomeEvents(k) \/ Add(k) \/ Reset(k)

ReaderNext == CreateReader \/ CloseReader \/ ReadEvent \/ CountEvent \/ PrintRates

-----------------------------------------------------------------------------
(* When there are no more events every timer ends, those of readers closed *)
(* long ago too, whatever the unsynchronised count has become; and it ends *)
(* with an average, unless there was a second reader, so that another timer*)
(* may have left it no events before it first looked.                      *)
TimersEnd ==
    \A k \in 1..MaxReaders :
        opened >= k ~> /\ k \in DOMAIN timers
                       /\ \/ timers[k].step = "ended" /\ timers[k].counts
                          \/ timers[k].step = "died" /\ opened > 1
=============================================================================
