---------------------------- MODULE ClientSocket ----------------------------
(***************************************************************************)
(* ClientSocket::readLine and ClientSocket::readBlob, octet by octet, into *)
(* a FixedBuffer its caller has reset.  The octets of the stream are known *)
(* by their positions; a position is all that is copied to the buffer.     *)
(***************************************************************************)
EXTENDS Naturals, Sequences, SequencesExt

CONSTANTS
  BufferN,    \* the size of the buffer, in octets
  MaxOctets   \* bound: how many octets the client sends

ASSUME BufferAssumption == BufferN \in Nat \ {0} /\ MaxOctets \in Nat

VARIABLES
  stream,    \* what the client sent: line ends, carriage returns, other octets
  gone,      \* the client hung up
  taken,     \* how many octets recv() returned
  m_closed,  \* ClientSocket::m_closed
  call,      \* the call that runs or ran last
  status,    \* its result; pending while it runs
  from,      \* where the stream was when it began, and whether it was closed
  blob_size, \* readBlob()'s argument
  m_data,    \* the positions written to the buffer
  m_length   \* FixedBuffer::m_length

clientVars == <<stream, gone>>
callVars == <<call, from, blob_size>>
vars == <<clientVars, taken, m_closed, callVars, status, m_data, m_length>>

Octets == {"lf", "cr", "x"}

-----------------------------------------------------------------------------
(* The client. *)

Deliver(octet) ==
  /\ ~gone /\ Len(stream) < MaxOctets
  /\ stream' = Append(stream, octet)
  /\ UNCHANGED <<gone, taken, m_closed, callVars, status, m_data, m_length>>

HangUp ==
  /\ ~gone
  /\ gone' = TRUE
  /\ UNCHANGED <<stream, taken, m_closed, callVars, status, m_data, m_length>>

Available == Len(stream) - taken
NextOctet == stream[taken + 1]

-----------------------------------------------------------------------------
Begin(name, size) ==
  /\ status # "pending"
  /\ call' = name /\ blob_size' = size
  /\ from' = [taken |-> taken, closed |-> m_closed]
  /\ m_data' = <<>> /\ m_length' = 0
  /\ UNCHANGED <<clientVars, taken, m_closed>>

Running(name) == call = name /\ status = "pending"

Finish(result, length) == status' = result /\ m_length' = length

(* Mutant: a failed recv() does not close the socket. *)
RecvFailsLeavesOpen ==
  /\ status = "pending" /\ ~m_closed
  /\ Available = 0 \/ gone
  /\ UNCHANGED m_closed
  /\ Finish("closed_pipe", 0)

(* recv() returns 0 or -1: the client is gone, or silent for 10 s *)
RecvFails ==
  /\ status = "pending" /\ ~m_closed
  /\ Available = 0 \/ gone
  /\ m_closed' = TRUE
  /\ Finish("closed_pipe", 0)

-----------------------------------------------------------------------------
(* readLine *)

ReadLine == Begin("line", 0) /\ status' = "pending"

(* Mutant: residue_space is compared too late. *)
FullTooLate == Len(m_data) > BufferN
(* Mutant: a full buffer is looked at after the next octet. *)
FullUnlessEnd == Len(m_data) >= BufferN /\ ~(Available > 0 /\ NextOctet = "lf")

Full == Len(m_data) >= BufferN

(* Mutant: a carriage return is kept. *)
RecvLineOctetKeepsCr ==
  /\ Running("line") /\ ~m_closed /\ ~Full /\ Available > 0
  /\ taken' = taken + 1
  /\ \/ NextOctet = "lf" /\ Finish("ok", Len(m_data)) /\ UNCHANGED m_data
     \/ NextOctet # "lf" /\ m_data' = Append(m_data, taken + 1) /\ UNCHANGED <<status, m_length>>
  /\ UNCHANGED <<clientVars, m_closed, callVars>>

RecvLineOctet ==
  /\ Running("line") /\ ~m_closed /\ ~Full /\ Available > 0
  /\ taken' = taken + 1
  /\ \/ NextOctet = "lf" /\ Finish("ok", Len(m_data)) /\ UNCHANGED m_data
     \/ NextOctet = "cr" /\ UNCHANGED <<status, m_data, m_length>>
     \/ NextOctet = "x" /\ m_data' = Append(m_data, taken + 1) /\ UNCHANGED <<status, m_length>>
  /\ UNCHANGED <<clientVars, m_closed, callVars>>

LineRecvFails ==
  /\ call = "line" /\ ~Full /\ RecvFails
  /\ UNCHANGED <<clientVars, taken, callVars, m_data>>

LineExhausted ==
  /\ Running("line") /\ Full
  /\ Finish("exhausted_buffer", 0)
  /\ m_data' = <<>>
  /\ UNCHANGED <<clientVars, taken, m_closed, callVars>>

(* on a socket that failed before, the loop is not entered *)
LineWhenClosed ==
  /\ Running("line") /\ m_closed
  /\ Finish("ok", 0)
  /\ UNCHANGED <<clientVars, taken, m_closed, callVars, m_data>>

-----------------------------------------------------------------------------
(* readBlob *)

ReadBlob(size) ==
  /\ Begin("blob", size)
  /\ status' = IF size > BufferN THEN "invalid_size" ELSE "pending"

Missing == blob_size - Len(m_data)

(* Mutant: each recv() writes to the beginning of the buffer. *)
RecvBlobToStart(n) ==
  /\ Running("blob") /\ ~m_closed /\ n <= Missing /\ n <= Available
  /\ taken' = taken + n
  /\ m_data' = [i \in 1..Len(m_data) + n |-> IF i <= n THEN taken + i ELSE 0]
  /\ UNCHANGED <<clientVars, m_closed, callVars, status, m_length>>

RecvBlob(n) ==
  /\ Running("blob") /\ ~m_closed /\ n <= Missing /\ n <= Available
  /\ taken' = taken + n
  /\ m_data' = m_data \o [i \in 1..n |-> taken + i]
  /\ UNCHANGED <<clientVars, m_closed, callVars, status, m_length>>

BlobRecvFails ==
  /\ call = "blob" /\ Missing > 0 /\ RecvFails
  /\ m_data' = <<>>
  /\ UNCHANGED <<clientVars, taken, callVars>>

BlobReturns ==
  /\ Running("blob") /\ (m_closed \/ Missing = 0)
  /\ Finish(IF Missing = 0 THEN "ok" ELSE "closed_pipe", Len(m_data))
  /\ UNCHANGED <<clientVars, taken, m_closed, callVars, m_data>>

-----------------------------------------------------------------------------
Init ==
  /\ stream = <<>> /\ gone = FALSE /\ taken = 0 /\ m_closed = FALSE
  /\ call = "none" /\ status = "none" /\ blob_size = 0
  /\ from = [taken |-> 0, closed |-> FALSE]
  /\ m_data = <<>> /\ m_length = 0

(* BufferN + 1 stands for every size that is too large. *)
Next ==
  \/ ReadLine \/ RecvLineOctet \/ LineRecvFails \/ LineExhausted \/ LineWhenClosed
  \/ \E size \in 0..BufferN + 1 : ReadBlob(size)
  \/ \E n \in 1..BufferN : RecvBlob(n)
  \/ BlobRecvFails \/ BlobReturns
  \/ HangUp \/ \E octet \in Octets : Deliver(octet)

Spec == Init /\ [][Next]_vars

-----------------------------------------------------------------------------
(* Properties. *)

(* Every variable has a value of its type, and the buffer its size. *)
TypeOK ==
  /\ stream \in Seq(Octets) /\ taken \in 0..Len(stream)
  /\ Len(m_data) <= BufferN /\ m_length \in 0..BufferN
  /\ call \in {"none", "line", "blob"} /\ blob_size \in 0..BufferN + 1
  /\ status \in {"none", "pending", "ok", "closed_pipe", "invalid_size", "exhausted_buffer"}
  /\ gone \in BOOLEAN /\ m_closed \in BOOLEAN

(* A line that was read is the octets up to the next line end, in their    *)
(* order and without the carriage returns, and the stream is left behind   *)
(* that line end.  On a socket that had failed it is an empty line, and    *)
(* nothing is read.                                                        *)
Read == SubSeq(stream, from.taken + 1, taken)
Ascending == \A i, j \in DOMAIN m_data : i < j => m_data[i] < m_data[j]
KeptUpTo(last) == {p \in from.taken + 1 .. last : stream[p] # "cr"}
LineExact ==
  (call = "line" /\ status = "ok") =>
    /\ m_length = Len(m_data) /\ Ascending
    /\ IF from.closed THEN Read = <<>> /\ m_data = <<>>
       ELSE /\ Read # <<>> /\ Last(Read) = "lf"
            /\ \A i \in 1..Len(Read) - 1 : Read[i] # "lf"
            /\ ToSet(m_data) = KeptUpTo(taken - 1)

(* A line that was read leaves a null octet after it in the buffer, which  *)
(* the reader of requests takes for a C string.                            *)
Terminated == (call = "line" /\ status = "ok") => m_length < BufferN

(* A blob that was read is the next blob_size octets in their order, over  *)
(* however many calls of recv() they came.                                 *)
BlobExact ==
  (call = "blob" /\ status = "ok") =>
    /\ m_length = blob_size
    /\ m_data = [i \in 1..blob_size |-> from.taken + i]
    /\ taken = from.taken + blob_size

(* A read fails only for a size or a line the buffer cannot take, for a    *)
(* client that is gone or silent, or on a socket that had failed; and only *)
(* in the last two cases is the socket closed.                             *)
FailsOnlyOn ==
  /\ status = "invalid_size" => blob_size > BufferN /\ taken = from.taken
  /\ status = "exhausted_buffer" =>
       /\ Cardinality({i \in DOMAIN Read : Read[i] = "x"}) = BufferN
       /\ \A i \in DOMAIN Read : Read[i] # "lf"
  /\ status \in {"invalid_size", "exhausted_buffer"} => m_closed = from.closed
  /\ status = "closed_pipe" => m_closed
=============================================================================
