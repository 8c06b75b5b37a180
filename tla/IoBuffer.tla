------------------------------ MODULE IoBuffer ------------------------------
(***************************************************************************)
(* A ring buffer of kernel/iobuffer.c between a writer in exos_io_write    *)
(* and a reader in exos_io_read (kernel/io.c), with the auto-reset events  *)
(* NotFullEvent and NotEmptyEvent they wait for, always with a timeout.    *)
(* No lock and no kernel section protects the ring: the writer owns        *)
(* ProduceIndex, the reader ConsumeIndex, and either may be an interrupt   *)
(* handler.  Each access to what they share is a step.                     *)
(*                                                                         *)
(* The bytes are numbered in the order in which they are written, modulo   *)
(* Values.  The events do what module Event shows of them.                 *)
(***************************************************************************)
EXTENDS Integers, FiniteSets

CONSTANTS BufferSize,      \* iobuf->Size
          MaxLength, \* bound: the longest read, write or discard
          Values     \* bound: how many bytes are told apart

ASSUME SizeAssumption ==
  /\ BufferSize \in Nat /\ BufferSize > 1 /\ Values \in Nat /\ Values > BufferSize /\ MaxLength \in Nat

Side == {"writer", "reader"}

VARIABLES Buffer,        \* index -> byte
          ProduceIndex,
          ConsumeIndex,
          Event,         \* side -> State of the event it waits for
          pc,            \* side -> where it is
          left,          \* side -> length - done
          any,           \* side -> done # 0, in the current pass
          written, read  \* the number of the next byte

bufferVars == <<Buffer, ProduceIndex, ConsumeIndex, Event, pc, left, any, written, read>>

Place == {"user", "check", "copied", "refused", "recheck", "after", "wait", "asleep"}

BufferTypeOK ==
  /\ Buffer \in [0..(BufferSize - 1) -> 0..(Values - 1)]
  /\ ProduceIndex \in 0..(BufferSize - 1)
  /\ ConsumeIndex \in 0..(BufferSize - 1)
  /\ Event \in [Side -> BOOLEAN]
  /\ pc \in [Side -> Place]
  /\ left \in [Side -> 0..MaxLength]
  /\ any \in [Side -> BOOLEAN]
  /\ written \in 0..(Values - 1)
  /\ read \in 0..(Values - 1)

\* exos_io_buffer_create, with the events of _io_create.
BufferInit ==
  /\ Buffer = [i \in 0..(BufferSize - 1) |-> 0]
  /\ ProduceIndex = 0
  /\ ConsumeIndex = 0
  /\ Event = [s \in Side |-> FALSE]
  /\ pc = [s \in Side |-> "user"]
  /\ left = [s \in Side |-> 0]
  /\ any = [s \in Side |-> FALSE]
  /\ written = 0
  /\ read = 0

ring == <<Buffer, ProduceIndex, ConsumeIndex, written, read>>

\* Faulty variant: the index does not wrap.
Succ_no_wrap(i) == i + 1

\* The index after i.
Succ(i) == IF i + 1 = BufferSize THEN 0 ELSE i + 1

\* exos_io_buffer_avail
avail == IF ProduceIndex < ConsumeIndex THEN ProduceIndex - ConsumeIndex + BufferSize
         ELSE ProduceIndex - ConsumeIndex

\* Faulty variant: the indexes are compared before the step.
Full_off_by_one == ProduceIndex = ConsumeIndex + BufferSize

Full == Succ(ProduceIndex) = ConsumeIndex
Empty == ConsumeIndex = ProduceIndex

Goto(s, place) == pc' = [pc EXCEPT ![s] = place]

Other(s) == IF s = "writer" THEN "reader" ELSE "writer"

----------------------------------------------------------------------------
(* One pass of exos_io_buffer_write, or of exos_io_buffer_read *)

Refused(s) == IF s = "writer" THEN Full ELSE Empty

\* exos_io_write and exos_io_read
Begin(s, length) ==
  /\ pc[s] = "user"
  /\ left' = [left EXCEPT ![s] = length]
  /\ any' = [any EXCEPT ![s] = FALSE]
  /\ Goto(s, "check")
  /\ UNCHANGED <<ring, Event>>

\* The head of the loop: all done, refused, or one more byte is copied.
Check(s) ==
  /\ pc[s] = "check"
  /\ \/ left[s] = 0 /\ Goto(s, IF s = "writer" THEN "recheck" ELSE "after") /\ UNCHANGED Buffer
     \/ left[s] > 0 /\ Refused(s) /\ Goto(s, "refused") /\ UNCHANGED Buffer
     \/ /\ left[s] > 0 /\ ~Refused(s)
        /\ Buffer' = IF s = "writer" THEN [Buffer EXCEPT ![ProduceIndex] = written] ELSE Buffer
        /\ Goto(s, "copied")
  /\ UNCHANGED <<ProduceIndex, ConsumeIndex, written, read, Event, left, any>>

\* The index moves behind the byte that was copied.
Advance(s) ==
  /\ pc[s] = "copied"
  /\ \/ /\ s = "writer"
        /\ ProduceIndex' = Succ(ProduceIndex)
        /\ written' = (written + 1) % Values
        /\ UNCHANGED <<ConsumeIndex, read>>
     \/ /\ s = "reader"
        /\ ConsumeIndex' = Succ(ConsumeIndex)
        /\ read' = (read + 1) % Values
        /\ UNCHANGED <<ProduceIndex, written>>
  /\ left' = [left EXCEPT ![s] = @ - 1]
  /\ any' = [any EXCEPT ![s] = TRUE]
  /\ Goto(s, "check")
  /\ UNCHANGED <<Buffer, Event>>

\* exos_event_reset of the side's own event, which nobody else waits for.
Refuse(s) ==
  /\ pc[s] = "refused"
  /\ Event' = [Event EXCEPT ![s] = FALSE]
  /\ Goto(s, "after")
  /\ UNCHANGED <<ring, left, any>>

\* After a complete write: is the ring full now?
Recheck ==
  /\ pc["writer"] = "recheck"
  /\ Goto("writer", IF Full THEN "refused" ELSE "after")
  /\ UNCHANGED <<ring, Event, left, any>>

\* exos_event_set of the other side's event: it wakes that side or stays set.
SetOther(s, place) ==
  LET o == Other(s)
  IN  /\ Event' = [Event EXCEPT ![o] = pc[o] # "asleep"]
      /\ pc' = [pc EXCEPT ![s] = place, ![o] = IF @ = "asleep" THEN "check" ELSE @]

\* The end of a pass.  The caller is done, does not wait (io->Timeout = 0), or
\* waits for its event.
After(s) ==
  /\ pc[s] = "after"
  /\ \E place \in IF left[s] = 0 THEN {"user"} ELSE {"user", "wait"} :
       IF any[s] THEN SetOther(s, place) ELSE Goto(s, place) /\ UNCHANGED Event
  /\ any' = [any EXCEPT ![s] = FALSE]
  /\ UNCHANGED <<ring, left>>

\* exos_event_wait: the event is set and used up, or the caller sleeps.  It
\* also answers "true" when its timer expires before it can be waited for.
Wait(s) ==
  /\ pc[s] = "wait"
  /\ Event' = [Event EXCEPT ![s] = FALSE]
  /\ \/ Event[s] /\ Goto(s, "check")
     \/ ~Event[s] /\ \E place \in {"asleep", "check"} : Goto(s, place)
  /\ UNCHANGED <<ring, left, any>>

\* Faulty variant: the reader waits without a timeout.
Timeout_writer_only(s) ==
  /\ s = "writer"
  /\ pc[s] = "asleep"
  /\ Goto(s, "user")
  /\ UNCHANGED <<ring, Event, left, any>>

\* The timeout: the call returns with what it has done.  That is the only way
\* out of the loops early: a buffer's driver returns no negative count.
Timeout(s) ==
  /\ pc[s] = "asleep"
  /\ Goto(s, "user")
  /\ UNCHANGED <<ring, Event, left, any>>

\* exos_io_buffer_discard, by the reader
Discard(length) ==
  LET n == IF length > avail THEN avail ELSE length
  IN  /\ pc["reader"] = "user"
      /\ length > 0
      /\ ConsumeIndex' = IF ConsumeIndex + n >= BufferSize THEN ConsumeIndex + n - BufferSize ELSE ConsumeIndex + n
      /\ read' = (read + n) % Values
      /\ SetOther("reader", "user")
      /\ UNCHANGED <<Buffer, ProduceIndex, written, left, any>>

Step(s) == Check(s) \/ Advance(s) \/ Refuse(s) \/ After(s) \/ Wait(s) \/ Timeout(s)

BufferNext ==
  \/ \E s \in Side : Step(s)
  \/ \E s \in Side, length \in 1..MaxLength : Begin(s, length)
  \/ Recheck
  \/ \E length \in 1..MaxLength : Discard(length)

BufferSpec == BufferInit /\ [][BufferNext]_bufferVars

\* Both sides go on inside a call, timers expire, and the reader reads again.
BufferFairness ==
  /\ \A s \in Side : WF_bufferVars(Step(s))
  /\ WF_bufferVars(Recheck)
  /\ WF_bufferVars(\E length \in 1..MaxLength : Begin("reader", length))

BufferLiveSpec == BufferSpec /\ BufferFairness

----------------------------------------------------------------------------
(* Properties *)

\* exos_io_buffer_peek: how many bytes from an offset on are in one piece.
peek(offset) ==
  LET index == ConsumeIndex + offset
  IN  IF offset >= avail THEN 0
      ELSE IF index < BufferSize
           THEN IF index + avail - offset < BufferSize THEN avail - offset ELSE BufferSize - index
           ELSE avail - offset
peekAt(offset) ==
  IF ConsumeIndex + offset < BufferSize THEN ConsumeIndex + offset ELSE ConsumeIndex + offset - BufferSize

\* Whatever the two sides are doing, the bytes between the indexes are those
\* that were written and not read, in order, none overwritten: what is read,
\* and what exos_io_buffer_peek points to.
BytesInOrder ==
  /\ BufferTypeOK
  /\ written = (read + avail) % Values
  /\ \A offset \in 0..(BufferSize - 1) : \A k \in 0..(peek(offset) - 1) :
       /\ peekAt(offset) + k < BufferSize
       /\ Buffer[peekAt(offset) + k] = (read + offset + k) % Values

\* Every byte that was written is read, also when the wakeup was lost: a byte
\* that comes between the reader's test and its exos_event_reset.
EveryByteRead ==
  \A n \in 0..(Values - 1) : (read = n /\ ~Empty) ~> read # n
=============================================================================
