------------------------------ MODULE MemTrace ------------------------------
(***************************************************************************)
(* The Pin tool that makes the trace files (MemTrace/memtrace.cpp, run with*)
(* -emit 1), for one thread: each has a log and a file of its own. Pin     *)
(* runs the program trace by trace, a trace being a straight piece of code *)
(* with one entry and several exits. At its top the tool takes slots of the*)
(* log for a header and for each memory reference; each reference writes   *)
(* its effective address into its slot; a full log is expanded to the file.*)
(* References are executed once each and in order: a repeated string       *)
(* instruction, whose iterations all write to one slot, is not among them. *)
(***************************************************************************)
EXTENDS Integers, Sequences

CONSTANTS
  Traces,        \* the traces, each the sequence of its references
  Addresses,     \* what instructions refer to
  BufferSlots,   \* BUFFER_SIZE in words; a slot is one
  MaxRefs        \* bound: references executed

REF == [ip : Nat, read : BOOLEAN]

(* A trace without references is not instrumented. Address 0 is the empty  *)
(* slot, and the page it lies in is not mapped. No trace fills the log.    *)
ASSUME TracesAssumption == Traces \subseteq Seq(REF) \ {<<>>}
ASSUME AddressesAssumption == Addresses \subseteq Nat \ {0}
ASSUME BufferAssumption ==
  BufferSlots \in Nat \ {0} /\ \A t \in Traces : Len(t) + 1 < BufferSlots

VARIABLES
  data,        \* the slots of the log
  logCursor,   \* where the next header goes
  current,     \* the trace that is running; <<>> before the first
  nextRef,     \* the first of its references that has not been executed
  ofile,
  finished,
  executed     \* not in the tool: every reference executed, with its address

vars == <<data, logCursor, current, nextRef, ofile, finished, executed>>

EMPTY_SLOT == [holds |-> "nothing"]
Header(t) == [holds |-> "header", trace |-> t]
Immediate(adx) == [holds |-> "address", address |-> adx]

EmptySlot(log, i) == log[i] = EMPTY_SLOT
Reset == [i \in 0 .. BufferSlots - 1 |-> EMPTY_SLOT]
LogBytes(t) == Len(t) + 1

Init ==
  /\ data = Reset /\ logCursor = 0
  /\ current = <<>> /\ nextRef = 1
  /\ ofile = <<>> /\ finished = FALSE /\ executed = <<>>

-----------------------------------------------------------------------------
(* ExpandTrace: a line of the file for every reference whose slot is taken,*)
(* with the place of the instruction (not the address in the slot).        *)
Line(ref) == [address |-> ref.ip, op |-> IF ref.read THEN "r" ELSE "w"]

ExpandTrace(log, t, at) ==
  LET written[i \in 0 .. Len(t)] ==
        IF i = 0 THEN <<>>
        ELSE IF EmptySlot(log, at + i) THEN written[i - 1]
        ELSE Append(written[i - 1], Line(t[i]))
  IN written[Len(t)]

(* Expand: from the start of the log to the first header that is empty.    *)
(* Slots of references are never taken for a header.                       *)
Heads(log) == {at \in DOMAIN log : EmptySlot(log, at) \/ log[at].holds = "header"}

Expanded(log) ==
  LET from[at \in Heads(log)] ==
        IF EmptySlot(log, at) THEN <<>>
        ELSE LET t == log[at].trace
             IN ExpandTrace(log, t, at) \o from[at + LogBytes(t)]
  IN from[0]

(* Broken: a trace that fills the log to its last slot is let in.          *)
NoRoomBeyond(t) == logCursor + LogBytes(t) > BufferSlots

NoRoom(t) == logCursor + LogBytes(t) >= BufferSlots

(* Broken: the log is not emptied.                                         *)
BeginTraceWithoutReset(t) ==
  /\ ~finished
  /\ LET start == IF NoRoom(t) THEN 0 ELSE logCursor IN
       /\ ofile' = IF NoRoom(t) THEN ofile \o Expanded(data) ELSE ofile
       /\ data' = [data EXCEPT ![start] = Header(t)]
       /\ logCursor' = start + LogBytes(t)
  /\ current' = t /\ nextRef' = 1
  /\ UNCHANGED <<finished, executed>>

(* The running trace is left and t begins: TraceAllocIf, TraceAllocThen and*)
(* RecordTraceBegin.                                                       *)
BeginTrace(t) ==
  /\ ~finished
  /\ IF NoRoom(t)
     THEN /\ ofile' = ofile \o Expanded(data)
          /\ data' = [Reset EXCEPT ![0] = Header(t)]
          /\ logCursor' = LogBytes(t)
     ELSE /\ data' = [data EXCEPT ![logCursor] = Header(t)]
          /\ logCursor' = logCursor + LogBytes(t)
          /\ UNCHANGED ofile
  /\ current' = t /\ nextRef' = 1
  /\ UNCHANGED <<finished, executed>>

(* The offset of a reference is taken from the end of its trace's slots,   *)
(* where the cursor is by then.                                            *)
RecordImmediate(adx) ==
  /\ ~finished
  /\ nextRef <= Len(current) /\ Len(executed) < MaxRefs
  /\ data' = [data EXCEPT ![logCursor - LogBytes(current) + nextRef] = Immediate(adx)]
  /\ executed' = Append(executed, [ref |-> current[nextRef], address |-> adx])
  /\ nextRef' = nextRef + 1
  /\ UNCHANGED <<logCursor, current, ofile, finished>>

(* Broken: what the log holds is not written.                              *)
ThreadFiniWithoutExpand ==
  /\ ~finished /\ finished' = TRUE
  /\ data' = Reset
  /\ UNCHANGED <<logCursor, current, nextRef, ofile, executed>>

(* The destructor of the log.                                              *)
ThreadFini ==
  /\ ~finished /\ finished' = TRUE
  /\ ofile' = ofile \o Expanded(data)
  /\ data' = Reset
  /\ UNCHANGED <<logCursor, current, nextRef, executed>>

Next ==
  \/ \E t \in Traces : BeginTrace(t)
  \/ \E adx \in Addresses : RecordImmediate(adx)
  \/ ThreadFini

Spec == Init /\ [][Next]_vars

-----------------------------------------------------------------------------
(* Properties.                                                             *)

(* There is an empty slot after the last trace of the log, where Expand    *)
(* stops (memtrace.cpp:458, 479), and no reference of the running trace has*)
(* its slot outside of the log or in another trace.                        *)
ExpandStops == ~finished =>
  /\ logCursor < BufferSlots /\ EmptySlot(data, logCursor)
  /\ current # <<>> => data[logCursor - LogBytes(current)] = Header(current)

(* What has been written and what the log still holds are the references   *)
(* executed, each once and in order (memtrace.cpp:414-442), traces that    *)
(* were left early included.                                               *)
TraceIsComplete ==
  ofile \o (IF finished THEN <<>> ELSE Expanded(data))
    = [i \in DOMAIN executed |-> Line(executed[i].ref)]

=============================================================================
