-------------------------- MODULE ClientSocketProofs --------------------------
(***************************************************************************)
(* readLine() and readBlob(), for a buffer of any size and any stream.     *)
(***************************************************************************)
EXTENDS ClientSocket, FiniteSetTheorems, SequenceTheorems, TLAPS

TypeInv ==
  /\ TypeOK
  /\ m_data \in Seq(Nat)
  /\ from \in [taken : Nat, closed : BOOLEAN] /\ from.taken <= taken

(* A call that runs closes nothing before it ends, and on a socket that    *)
(* was closed it reads nothing.                                            *)
CallInv ==
  status = "pending" =>
    /\ call \in {"line", "blob"}
    /\ m_closed = from.closed
    /\ from.closed => taken = from.taken /\ m_data = <<>>

(* What readLine() has read so far holds no line end, and of it the buffer *)
(* holds all but the carriage returns.                                     *)
Plain == {i \in DOMAIN Read : Read[i] = "x"}

LineInv ==
  Running("line") =>
    /\ \A i \in DOMAIN Read : Read[i] # "lf"
    /\ Ascending /\ ToSet(m_data) = KeptUpTo(taken)
    /\ Cardinality(Plain) = Len(m_data)

(* What readBlob() has read so far is in the buffer, in its order.         *)
BlobInv ==
  Running("blob") =>
    /\ blob_size <= BufferN
    /\ Len(m_data) <= blob_size
    /\ taken = from.taken + Len(m_data)
    /\ \A i \in DOMAIN m_data : m_data[i] = from.taken + i

Promises == LineExact /\ Terminated /\ BlobExact /\ FailsOnlyOn

SocketInv == TypeInv /\ CallInv /\ LineInv /\ BlobInv /\ Promises

-----------------------------------------------------------------------------
(* The part of the stream a call has read. *)

LEMMA FromType ==
  ASSUME TypeInv
  PROVE  /\ taken \in Nat /\ from.taken \in Nat /\ from.taken <= taken
         /\ from.closed \in BOOLEAN /\ m_closed \in BOOLEAN
         /\ Len(stream) \in Nat /\ taken <= Len(stream)
         /\ BufferN \in Nat /\ BufferN > 0
  BY BufferAssumption DEF TypeInv, TypeOK

LEMMA FromTypeNext ==
  ASSUME TypeInv'
  PROVE  /\ taken' \in Nat /\ from'.taken \in Nat /\ from'.taken <= taken'
         /\ Len(stream') \in Nat /\ taken' <= Len(stream')
  BY DEF TypeInv, TypeOK

LEMMA PartOf ==
  ASSUME NEW s \in Seq(Octets), NEW a \in Nat, NEW b \in Nat, a <= b, b <= Len(s)
  PROVE  /\ SubSeq(s, a + 1, b) \in Seq(Octets)
         /\ Len(SubSeq(s, a + 1, b)) = b - a
         /\ DOMAIN SubSeq(s, a + 1, b) = 1..b - a
         /\ \A i \in 1..b - a : SubSeq(s, a + 1, b)[i] = s[a + i]
<1>1. \A i \in a + 1 .. b : s[i] \in Octets
  OBVIOUS
<1>2. /\ SubSeq(s, a + 1, b) \in Seq(Octets)
      /\ Len(SubSeq(s, a + 1, b)) = IF a + 1 <= b THEN b - (a + 1) + 1 ELSE 0
      /\ \A i \in 1..b - (a + 1) + 1 : SubSeq(s, a + 1, b)[i] = s[a + 1 + i - 1]
  BY <1>1, SubSeqProperties
<1>3. Len(SubSeq(s, a + 1, b)) = b - a
  BY <1>2
<1>4. \A i \in 1..b - a : SubSeq(s, a + 1, b)[i] = s[a + i]
  BY <1>2
<1> QED
  BY <1>2, <1>3, <1>4

LEMMA ReadIs ==
  /\ TypeInv => /\ Read \in Seq(Octets)
                /\ Len(Read) = taken - from.taken
                /\ DOMAIN Read = 1..taken - from.taken
                /\ \A i \in 1..taken - from.taken : Read[i] = stream[from.taken + i]
  /\ TypeInv' => /\ Read' \in Seq(Octets)
                 /\ Len(Read') = taken' - from'.taken
                 /\ DOMAIN Read' = 1..taken' - from'.taken
                 /\ \A i \in 1..taken' - from'.taken : Read'[i] = stream'[from'.taken + i]
<1>1. ASSUME TypeInv
      PROVE  /\ Read \in Seq(Octets)
             /\ Len(Read) = taken - from.taken
             /\ DOMAIN Read = 1..taken - from.taken
             /\ \A i \in 1..taken - from.taken : Read[i] = stream[from.taken + i]
  <2>1. stream \in Seq(Octets)
    BY <1>1 DEF TypeInv, TypeOK
  <2> QED
    BY <1>1, <2>1, FromType, PartOf DEF Read
<1>2. ASSUME TypeInv'
      PROVE  /\ Read' \in Seq(Octets)
             /\ Len(Read') = taken' - from'.taken
             /\ DOMAIN Read' = 1..taken' - from'.taken
             /\ \A i \in 1..taken' - from'.taken : Read'[i] = stream'[from'.taken + i]
  <2>1. stream' \in Seq(Octets)
    BY <1>2 DEF TypeInv, TypeOK
  <2> QED
    BY <1>2, <2>1, FromTypeNext, PartOf DEF Read
<1> QED
  BY <1>1, <1>2

(* What has been read stays what it is when the client sends more.         *)
LEMMA SameRead ==
  ASSUME TypeInv, TypeInv', UNCHANGED <<from, taken>>,
         Len(stream') >= Len(stream),
         \A i \in 1..Len(stream) : stream'[i] = stream[i]
  PROVE  Read' = Read /\ \A n \in Int : n <= taken => KeptUpTo(n)' = KeptUpTo(n)
<1>1. /\ Read \in Seq(Octets) /\ Read' \in Seq(Octets)
      /\ Len(Read') = taken - from.taken /\ Len(Read) = taken - from.taken
  BY ReadIs
<1>2. \A i \in 1..taken - from.taken : Read'[i] = Read[i]
  <2> SUFFICES ASSUME NEW i \in 1..taken - from.taken
               PROVE  Read'[i] = Read[i]
    OBVIOUS
  <2>1. Read'[i] = stream'[from.taken + i] /\ Read[i] = stream[from.taken + i]
    BY ReadIs
  <2>2. from.taken + i \in 1..Len(stream)
    BY FromType
  <2> QED
    BY <2>1, <2>2
<1>4. Read' = Read
  BY <1>1, <1>2, SeqEqual
<1>3. \A n \in Int : n <= taken => KeptUpTo(n)' = KeptUpTo(n)
  BY FromType DEF KeptUpTo
<1> QED
  BY <1>3, <1>4

(* One more octet is read. *)
LEMMA ReadMore ==
  ASSUME TypeInv, TypeInv', UNCHANGED <<from, stream>>, taken' = taken + 1
  PROVE  /\ Len(Read') = Len(Read) + 1 /\ Len(Read) \in Nat
         /\ DOMAIN Read = 1..Len(Read) /\ DOMAIN Read' = 1..Len(Read) + 1
         /\ \A i \in DOMAIN Read : Read'[i] = Read[i]
         /\ Read'[Len(Read) + 1] = NextOctet
<1>1. /\ Len(Read) = taken - from.taken /\ DOMAIN Read = 1..taken - from.taken
      /\ \A i \in 1..taken - from.taken : Read[i] = stream[from.taken + i]
  BY ReadIs
<1>2. /\ Len(Read') = taken + 1 - from.taken /\ DOMAIN Read' = 1..taken + 1 - from.taken
      /\ \A i \in 1..taken + 1 - from.taken : Read'[i] = stream[from.taken + i]
  <2>1. /\ Len(Read') = taken' - from'.taken /\ DOMAIN Read' = 1..taken' - from'.taken
        /\ \A i \in 1..taken' - from'.taken : Read'[i] = stream'[from'.taken + i]
    BY ReadIs
  <2>2. from' = from /\ stream' = stream /\ taken' = taken + 1
    OBVIOUS
  <2>3. taken' - from'.taken = taken + 1 - from.taken
    BY <2>2, FromType
  <2> QED
    BY <2>1, <2>2, <2>3, FromType
<1>3. \A i \in 1..taken - from.taken : Read'[i] = Read[i]
  BY <1>1, <1>2, FromType
<1>4. Read'[taken + 1 - from.taken] = stream[taken + 1]
  <2>1. /\ taken + 1 - from.taken \in 1..taken + 1 - from.taken
        /\ from.taken + (taken + 1 - from.taken) = taken + 1
    BY FromType
  <2> QED
    BY <1>2, <2>1
<1> QED
  BY <1>1, <1>2, <1>3, <1>4, FromType DEF NextOctet

(* Nothing was read when a call begins. *)
LEMMA ReadNone ==
  ASSUME NEW st \in Seq(Octets), NEW a \in Nat
  PROVE  /\ SubSeq(st, a + 1, a) = <<>>
         /\ {p \in a + 1 .. a : st[p] # "cr"} = {}
  BY SubSeqEmpty

-----------------------------------------------------------------------------
(* Types. *)

LEMMA BlobPart ==
  ASSUME NEW n \in Nat, NEW t \in Nat
  PROVE  /\ [i \in 1..n |-> t + i] \in Seq(Nat)
         /\ Len([i \in 1..n |-> t + i]) = n
         /\ \A i \in 1..n : [j \in 1..n |-> t + j][i] = t + i
  OBVIOUS

LEMMA RecvBlobData ==
  ASSUME TypeInv, NEW n \in 1..BufferN, RecvBlob(n)
  PROVE  /\ m_data' \in Seq(Nat) /\ Len(m_data') = Len(m_data) + n
         /\ \A i \in 1..Len(m_data) : m_data'[i] = m_data[i]
         /\ \A i \in Len(m_data) + 1 .. Len(m_data) + n :
              m_data'[i] = taken + (i - Len(m_data))
<1> DEFINE part == [i \in 1..n |-> taken + i]
<1>1. n \in Nat /\ taken \in Nat /\ m_data \in Seq(Nat)
  BY FromType DEF TypeInv
<1>2. /\ part \in Seq(Nat) /\ Len(part) = n
      /\ \A i \in 1..n : part[i] = taken + i
  BY <1>1, BlobPart
<1>3. m_data' = m_data \o part
  BY DEF RecvBlob
<1> HIDE DEF part
<1>4. /\ m_data \o part \in Seq(Nat)
      /\ Len(m_data \o part) = Len(m_data) + Len(part)
      /\ \A i \in 1 .. Len(m_data) + Len(part) : (m_data \o part)[i] =
            IF i <= Len(m_data) THEN m_data[i] ELSE part[i - Len(m_data)]
  BY <1>1, <1>2, ConcatProperties
<1> QED
  BY <1>1, <1>2, <1>3, <1>4

LEMMA NextType ==
  ASSUME SocketInv, [Next]_vars
  PROVE  TypeInv'
<1> USE DEF vars, clientVars, callVars, Running, Finish
<1>1. /\ TypeInv /\ TypeOK
      /\ BufferN \in Nat /\ BufferN > 0 /\ taken \in Nat /\ taken <= Len(stream)
      /\ Len(m_data) \in Nat /\ Len(m_data) <= BufferN
      /\ <<>> \in Seq(Nat)
  BY FromType DEF SocketInv, TypeInv, TypeOK
<1>2. CASE UNCHANGED vars \/ HangUp
  BY <1>1, <1>2 DEF HangUp, TypeInv, TypeOK
<1>3. ASSUME NEW octet \in Octets, Deliver(octet)
      PROVE  TypeInv'
  <2>1. stream' \in Seq(Octets) /\ Len(stream') = Len(stream) + 1
    BY <1>1, <1>3 DEF Deliver, TypeOK
  <2> QED
    BY <1>1, <1>3, <2>1 DEF Deliver, TypeInv, TypeOK
<1>4. ASSUME NEW size \in 0..BufferN + 1, NEW name \in {"line", "blob"},
             Begin(name, size), status' \in {"pending", "invalid_size"}
      PROVE  TypeInv'
  <2>1. from' \in [taken : Nat, closed : BOOLEAN] /\ from'.taken = taken
    BY <1>1, <1>4, FromType DEF Begin
  <2> QED
    BY <1>1, <1>4, <2>1 DEF Begin, TypeInv, TypeOK
<1>5. CASE ReadLine \/ \E size \in 0..BufferN + 1 : ReadBlob(size)
  BY <1>1, <1>4, <1>5 DEF ReadLine, ReadBlob
<1>6. CASE RecvLineOctet
  <2>1. taken' = taken + 1 /\ taken + 1 <= Len(stream)
    BY <1>1, <1>6 DEF RecvLineOctet, Available, TypeOK
  <2>2. m_data' \in Seq(Nat) /\ Len(m_data') <= BufferN
    <3>1. m_data' = m_data \/ m_data' = Append(m_data, taken + 1)
      BY <1>6 DEF RecvLineOctet
    <3>2. ~(Len(m_data) >= BufferN)
      BY <1>6 DEF RecvLineOctet, Full
    <3>3. /\ m_data \in Seq(Nat) /\ taken + 1 \in Nat
          /\ Append(m_data, taken + 1) \in Seq(Nat)
          /\ Len(Append(m_data, taken + 1)) = Len(m_data) + 1
      BY <1>1 DEF TypeInv
    <3>4. Len(m_data) + 1 <= BufferN
      BY <1>1, <3>2
    <3>5. CASE m_data' = m_data
      BY <1>1, <3>3, <3>5
    <3>6. CASE m_data' = Append(m_data, taken + 1)
      BY <3>3, <3>4, <3>6
    <3> QED
      BY <3>1, <3>5, <3>6
  <2>3. m_length' \in 0..BufferN /\ status' \in {"pending", "ok"}
    BY <1>1, <1>6 DEF RecvLineOctet, TypeOK
  <2> QED
    BY <1>1, <1>6, <2>1, <2>2, <2>3 DEF RecvLineOctet, TypeInv, TypeOK
<1>7. CASE LineRecvFails \/ BlobRecvFails \/ LineExhausted \/ LineWhenClosed
  <2>1. /\ UNCHANGED <<stream, gone, taken, call, from, blob_size>>
        /\ m_closed' = TRUE \/ m_closed' = m_closed
        /\ m_length' = 0
        /\ status' \in {"closed_pipe", "exhausted_buffer", "ok"}
        /\ m_data' = <<>> \/ m_data' = m_data
    BY <1>7 DEF LineRecvFails, BlobRecvFails, RecvFails, LineExhausted, LineWhenClosed
  <2>2. m_data' \in Seq(Nat) /\ Len(m_data') <= BufferN
    <3>1. <<>> \in Seq(Nat) /\ Len(<<>>) = 0 /\ 0 <= BufferN
      BY <1>1
    <3>2. m_data \in Seq(Nat) /\ Len(m_data) <= BufferN
      BY <1>1 DEF TypeInv
    <3>3. CASE m_data' = <<>>
      BY <3>1, <3>3
    <3>4. CASE m_data' = m_data
      BY <3>2, <3>4
    <3> QED
      BY <2>1, <3>3, <3>4
  <2>3. m_length' \in 0..BufferN
    BY <1>1, <2>1
  <2> QED
    BY <1>1, <2>1, <2>2, <2>3 DEF TypeInv, TypeOK
<1>8. ASSUME NEW n \in 1..BufferN, RecvBlob(n)
      PROVE  TypeInv'
  <2>1. blob_size <= BufferN /\ blob_size \in Nat
    BY <1>1, <1>8 DEF RecvBlob, SocketInv, BlobInv, TypeOK
  <2>2. taken' = taken + n /\ n \in Nat /\ taken + n <= Len(stream)
    BY <1>1, <1>8 DEF RecvBlob, Available, TypeOK
  <2>3. m_data' \in Seq(Nat) /\ Len(m_data') <= BufferN
    BY <1>1, <1>8, <2>1, <2>2, RecvBlobData DEF RecvBlob, Missing
  <2> QED
    BY <1>1, <1>8, <2>2, <2>3 DEF RecvBlob, TypeInv, TypeOK
<1>9. CASE BlobReturns
  BY <1>1, <1>9 DEF BlobReturns, TypeInv, TypeOK
<1> QED
  BY <1>2, <1>3, <1>5, <1>6, <1>7, <1>8, <1>9 DEF Next

-----------------------------------------------------------------------------
(* What each step does to the rest of the invariant. *)

(* The client sends or hangs up. *)
LEMMA ClientStep ==
  ASSUME SocketInv, TypeInv',
         UNCHANGED <<taken, m_closed, callVars, status, m_data, m_length>>,
         Len(stream') >= Len(stream),
         \A i \in 1..Len(stream) : stream'[i] = stream[i]
  PROVE  SocketInv'
<1>1. TypeInv /\ UNCHANGED <<taken, m_closed, call, from, blob_size, status, m_data, m_length>>
  BY DEF SocketInv, callVars
<1>2. Read' = Read /\ \A n \in Int : n <= taken => KeptUpTo(n)' = KeptUpTo(n)
  BY <1>1, SameRead
<1>3. KeptUpTo(taken)' = KeptUpTo(taken) /\ KeptUpTo(taken - 1)' = KeptUpTo(taken - 1)
  <2>1. taken \in Int /\ taken - 1 \in Int /\ taken - 1 <= taken
    BY <1>1, FromType
  <2> QED
    BY <1>1, <1>2, <2>1 DEF KeptUpTo
<1>4. CallInv' /\ BlobInv'
  BY <1>1 DEF SocketInv, CallInv, BlobInv, Running
<1>5. LineInv'
  BY <1>1, <1>2, <1>3 DEF SocketInv, LineInv, Running, Ascending, Plain
<1>6. LineExact'
  BY <1>1, <1>2, <1>3 DEF SocketInv, Promises, LineExact, Ascending
<1>7. Terminated' /\ BlobExact' /\ FailsOnlyOn'
  BY <1>1, <1>2 DEF SocketInv, Promises, Terminated, BlobExact, FailsOnlyOn
<1> QED
  BY <1>4, <1>5, <1>6, <1>7 DEF SocketInv, Promises

(* A call begins. *)
LEMMA BeginStep ==
  ASSUME SocketInv, TypeInv',
         NEW name \in {"line", "blob"}, NEW size \in Nat, Begin(name, size),
         status' = IF size > BufferN THEN "invalid_size" ELSE "pending"
  PROVE  SocketInv'
<1>1. /\ TypeInv /\ call' = name /\ blob_size' = size
      /\ from' = [taken |-> taken, closed |-> m_closed]
      /\ m_data' = <<>> /\ m_length' = 0
      /\ stream' = stream /\ taken' = taken /\ m_closed' = m_closed
  BY DEF SocketInv, Begin, clientVars
<1>2. from'.taken = taken /\ from'.closed = m_closed
  BY <1>1
<1>3. Read' = <<>> /\ KeptUpTo(taken)' = {}
  <2>1. stream \in Seq(Octets) /\ taken \in Nat
    BY <1>1, FromType DEF TypeInv, TypeOK
  <2> QED
    BY <1>1, <1>2, <2>1, ReadNone DEF Read, KeptUpTo
<1>4. size \in Nat /\ BufferN \in Nat /\ taken \in Nat
  BY <1>1, FromType
<1>5. DOMAIN m_data' = {} /\ ToSet(m_data') = {} /\ Len(m_data') = 0
  BY <1>1 DEF ToSet
<1>6. CallInv'
  BY <1>1, <1>2 DEF CallInv
<1>7. BlobInv'
  BY <1>1, <1>2, <1>4, <1>5 DEF BlobInv, Running
<1>8. LineInv'
  <2>1. DOMAIN Read' = {} /\ Plain' = {}
    BY <1>3 DEF Plain
  <2>2. Cardinality(Plain') = 0
    BY <2>1, FS_EmptySet
  <2> QED
    BY <1>3, <1>5, <2>1, <2>2 DEF LineInv, Ascending
<1>9. Promises'
  BY <1>1, <1>2, <1>4 DEF Promises, LineExact, Terminated, BlobExact, FailsOnlyOn
<1> QED
  BY <1>6, <1>7, <1>8, <1>9 DEF SocketInv

(* A step that reads nothing and keeps the call as it is. *)
LEMMA CallKept ==
  ASSUME SocketInv, TypeInv', UNCHANGED <<stream, taken, callVars>>
  PROVE  /\ TypeInv /\ call' = call /\ from' = from /\ blob_size' = blob_size
         /\ Read' = Read /\ KeptUpTo(taken - 1)' = KeptUpTo(taken - 1)
         /\ KeptUpTo(taken)' = KeptUpTo(taken)
  BY DEF SocketInv, callVars, Read, KeptUpTo

(* One more octet to keep, or not to. *)
LEMMA RangeMore ==
  ASSUME NEW a \in Nat, NEW b \in Nat, a <= b
  PROVE  a + 1 .. b + 1 = (a + 1 .. b) \cup {b + 1}
  OBVIOUS

(* readLine() takes an octet that is not a line end. *)
LEMMA LineGrows ==
  ASSUME SocketInv, TypeInv', RecvLineOctet, NextOctet # "lf"
  PROVE  LineInv'
<1>1. /\ TypeInv /\ call = "line" /\ status = "pending" /\ ~m_closed
      /\ taken' = taken + 1 /\ UNCHANGED <<stream, call, from, blob_size, m_closed>>
      /\ status' = status
  BY DEF SocketInv, RecvLineOctet, Running, Finish, clientVars, callVars
<1>2. /\ Len(Read') = Len(Read) + 1 /\ Len(Read) \in Nat
      /\ DOMAIN Read = 1..Len(Read) /\ DOMAIN Read' = 1..Len(Read) + 1
      /\ \A i \in DOMAIN Read : Read'[i] = Read[i]
      /\ Read'[Len(Read) + 1] = NextOctet
  BY <1>1, ReadMore
<1>3. /\ \A i \in DOMAIN Read : Read[i] # "lf"
      /\ Ascending /\ ToSet(m_data) = KeptUpTo(taken)
      /\ Cardinality(Plain) = Len(m_data)
  BY <1>1 DEF SocketInv, LineInv, Running
<1>4. taken \in Nat /\ from.taken \in Nat /\ from.taken <= taken /\ NextOctet = stream[taken + 1]
  BY <1>1, FromType DEF NextOctet
<1>5. \A i \in DOMAIN Read' : Read'[i] # "lf"
  BY <1>2, <1>3
<1>6. IsFiniteSet(Plain) /\ Plain \subseteq 1..Len(Read)
  <2>1. Plain \subseteq 1..Len(Read)
    BY <1>2 DEF Plain
  <2>2. IsFiniteSet(1..Len(Read))
    BY <1>2, FS_Interval
  <2> QED
    BY <2>1, <2>2, FS_Subset
<1>7. KeptUpTo(taken)' = {p \in from.taken + 1 .. taken + 1 : stream[p] # "cr"}
  BY <1>1 DEF KeptUpTo
<1>8. from.taken + 1 .. taken + 1 = (from.taken + 1 .. taken) \cup {taken + 1}
  BY <1>4, RangeMore
<1>9. CASE NextOctet = "cr"
  <2>1. m_data' = m_data
    BY <1>9 DEF RecvLineOctet
  <2>2. Plain' = Plain
    <3>1. \A i : i \in Plain' <=> i \in Plain
      BY <1>2, <1>9 DEF Plain
    <3> QED
      BY <3>1
  <2>3. KeptUpTo(taken)' = KeptUpTo(taken)
    <3>1. stream[taken + 1] = "cr"
      BY <1>4, <1>9
    <3>2. {p \in from.taken + 1 .. taken + 1 : stream[p] # "cr"}
             = {p \in from.taken + 1 .. taken : stream[p] # "cr"}
      BY <1>4, <1>8, <3>1, Zenon
    <3> QED
      BY <1>7, <3>2, Zenon DEF KeptUpTo
  <2> QED
    BY <1>3, <1>5, <2>1, <2>2, <2>3 DEF LineInv, Ascending
<1>10. CASE NextOctet = "x"
  <2>1. m_data' = Append(m_data, taken + 1)
    BY <1>10 DEF RecvLineOctet
  <2>2. m_data \in Seq(Nat) /\ taken + 1 \in Nat
    BY <1>1, <1>4 DEF TypeInv
  <2>3. /\ Len(m_data) \in Nat /\ Len(m_data') = Len(m_data) + 1
        /\ DOMAIN m_data = 1..Len(m_data) /\ DOMAIN m_data' = 1..Len(m_data) + 1
        /\ \A i \in 1..Len(m_data) : m_data'[i] = m_data[i]
        /\ m_data'[Len(m_data) + 1] = taken + 1
    BY <2>1, <2>2
  <2>4. \A i \in DOMAIN m_data : m_data[i] \in Nat /\ m_data[i] <= taken
    BY <1>3, <1>4, <2>2 DEF ToSet, KeptUpTo
  <2>5. Ascending'
    BY <1>3, <1>4, <2>3, <2>4 DEF Ascending
  <2>6. Plain' = Plain \cup {Len(Read) + 1}
    <3>1. \A i : i \in Plain' <=> i \in Plain \/ i = Len(Read) + 1
      BY <1>2, <1>10 DEF Plain
    <3> QED
      BY <3>1
  <2>7. Cardinality(Plain') = Len(m_data')
    <3>1. Len(Read) + 1 \notin Plain
      BY <1>2, <1>6
    <3>2. Cardinality(Plain \cup {Len(Read) + 1}) = Cardinality(Plain) + 1
      BY <1>6, <3>1, FS_AddElement
    <3> QED
      BY <1>3, <2>3, <2>6, <3>2
  <2>8. KeptUpTo(taken)' = KeptUpTo(taken) \cup {taken + 1}
    <3>1. stream[taken + 1] # "cr"
      BY <1>4, <1>10
    <3>2. {p \in from.taken + 1 .. taken + 1 : stream[p] # "cr"}
             = {p \in from.taken + 1 .. taken : stream[p] # "cr"} \cup {taken + 1}
      BY <1>4, <1>8, <3>1, Zenon
    <3> QED
      BY <1>7, <3>2, Zenon DEF KeptUpTo
  <2>9. ToSet(m_data') = ToSet(m_data) \cup {taken + 1}
    BY <2>3 DEF ToSet
  <2> QED
    BY <1>3, <1>5, <2>5, <2>7, <2>8, <2>9 DEF LineInv, ToSet
<1> QED
  BY <1>9, <1>10 DEF RecvLineOctet

(* readLine() takes an octet. *)
LEMMA LineOctetStep ==
  ASSUME SocketInv, TypeInv', RecvLineOctet
  PROVE  SocketInv'
<1>1. /\ TypeInv /\ call = "line" /\ status = "pending" /\ ~m_closed /\ ~Full
      /\ taken' = taken + 1 /\ UNCHANGED <<stream, call, from, blob_size, m_closed>>
  BY DEF SocketInv, RecvLineOctet, Running, clientVars, callVars
<1>2. from.closed = m_closed
  BY <1>1 DEF SocketInv, CallInv
<1>3. CallInv' /\ BlobInv'
  BY <1>1, <1>2 DEF CallInv, BlobInv, Running
<1>4. CASE NextOctet = "lf"
  <2>1. status' = "ok" /\ m_length' = Len(m_data) /\ m_data' = m_data
    BY <1>4 DEF RecvLineOctet, Finish
  <2>2. LineInv'
    BY <2>1 DEF LineInv, Running
  <2>3. /\ \A i \in DOMAIN Read : Read[i] # "lf"
        /\ Ascending /\ ToSet(m_data) = KeptUpTo(taken)
    BY <1>1 DEF SocketInv, LineInv, Running
  <2>4. /\ Len(Read') = Len(Read) + 1 /\ Len(Read) \in Nat
        /\ DOMAIN Read = 1..Len(Read)
        /\ \A i \in DOMAIN Read : Read'[i] = Read[i]
        /\ Read'[Len(Read) + 1] = "lf"
    BY <1>1, <1>4, ReadMore
  <2>5. Read' # <<>> /\ Last(Read)' = "lf"
    BY <2>4 DEF Last
  <2>6. \A i \in 1..Len(Read') - 1 : Read'[i] # "lf"
    BY <2>3, <2>4
  <2>7. KeptUpTo(taken - 1)' = KeptUpTo(taken)
    <3>1. taken \in Nat /\ taken + 1 - 1 = taken
      BY <1>1, FromType
    <3> QED
      BY <1>1, <3>1 DEF KeptUpTo
  <2>8. LineExact'
    BY <1>1, <1>2, <2>1, <2>3, <2>5, <2>6, <2>7 DEF LineExact, Ascending
  <2>9. Terminated'
    <3>1. ~(Len(m_data) >= BufferN) /\ Len(m_data) \in Nat /\ BufferN \in Nat
      BY <1>1, FromType DEF Full, TypeInv
    <3> QED
      BY <2>1, <3>1 DEF Terminated
  <2> QED
    BY <1>1, <1>3, <2>1, <2>2, <2>8, <2>9 DEF SocketInv, Promises, BlobExact, FailsOnlyOn
<1>5. CASE NextOctet # "lf"
  <2>1. status' = status
    BY <1>5 DEF RecvLineOctet
  <2>2. LineInv'
    BY <1>5, LineGrows
  <2> QED
    BY <1>1, <1>3, <2>1, <2>2 DEF SocketInv, Promises, LineExact, Terminated, BlobExact, FailsOnlyOn
<1> QED
  BY <1>4, <1>5

(* recv() fails. *)
LEMMA FailStep ==
  ASSUME SocketInv, TypeInv', LineRecvFails \/ BlobRecvFails
  PROVE  SocketInv'
<1>1. status' = "closed_pipe" /\ m_closed'
  BY DEF LineRecvFails, BlobRecvFails, RecvFails, Finish
<1> QED
  BY <1>1 DEF SocketInv, CallInv, LineInv, BlobInv, Running, Promises,
              LineExact, Terminated, BlobExact, FailsOnlyOn

(* The buffer is full before the line ends. *)
LEMMA ExhaustedStep ==
  ASSUME SocketInv, TypeInv', LineExhausted
  PROVE  SocketInv'
<1>1. /\ TypeInv /\ status' = "exhausted_buffer" /\ UNCHANGED <<stream, taken, from, m_closed>>
      /\ Running("line") /\ Full
  BY DEF SocketInv, LineExhausted, Finish, clientVars, callVars
<1>2. /\ \A i \in DOMAIN Read : Read[i] # "lf"
      /\ Cardinality(Plain) = Len(m_data)
      /\ m_closed = from.closed
  BY <1>1 DEF SocketInv, CallInv, LineInv, Running
<1>3. Len(m_data) = BufferN
  BY <1>1, FromType DEF Full, TypeInv, TypeOK
<1>4. Read' = Read
  BY <1>1 DEF Read
<1>5. FailsOnlyOn'
  BY <1>1, <1>2, <1>3, <1>4 DEF FailsOnlyOn, Plain
<1> QED
  BY <1>1, <1>5 DEF SocketInv, CallInv, LineInv, BlobInv, Running, Promises,
                    LineExact, Terminated, BlobExact

(* readLine() on a socket that had failed. *)
LEMMA ClosedStep ==
  ASSUME SocketInv, TypeInv', LineWhenClosed
  PROVE  SocketInv'
<1>1. /\ TypeInv /\ status = "pending" /\ m_closed
      /\ status' = "ok" /\ m_length' = 0 /\ call' = "line"
      /\ UNCHANGED <<stream, taken, from, m_data, m_closed>>
  BY DEF SocketInv, LineWhenClosed, Running, Finish, clientVars, callVars
<1>2. from.closed /\ taken = from.taken /\ m_data = <<>>
  BY <1>1 DEF SocketInv, CallInv
<1>3. Read' = <<>>
  <2>1. stream \in Seq(Octets) /\ taken \in Nat
    BY <1>1, FromType DEF TypeInv, TypeOK
  <2> QED
    BY <1>1, <1>2, <2>1, ReadNone DEF Read
<1>4. LineExact'
  <2>1. Len(m_data') = 0 /\ DOMAIN m_data' = {}
    BY <1>1, <1>2
  <2> QED
    BY <1>1, <1>2, <1>3, <2>1 DEF LineExact, Ascending
<1>5. Terminated'
  BY <1>1, FromType DEF Terminated
<1> QED
  BY <1>1, <1>4, <1>5 DEF SocketInv, CallInv, LineInv, BlobInv, Running, Promises,
                          BlobExact, FailsOnlyOn

(* recv() writes n more octets of the blob. *)
LEMMA BlobStep ==
  ASSUME SocketInv, TypeInv', NEW n \in 1..BufferN, RecvBlob(n)
  PROVE  SocketInv'
<1>1. /\ TypeInv /\ call = "blob" /\ status = "pending" /\ ~m_closed /\ n <= Missing
      /\ taken' = taken + n /\ UNCHANGED <<call, status, from, blob_size, m_closed>>
  BY DEF SocketInv, RecvBlob, Running, callVars
<1>2. /\ blob_size <= BufferN /\ Len(m_data) <= blob_size
      /\ taken = from.taken + Len(m_data)
      /\ \A i \in DOMAIN m_data : m_data[i] = from.taken + i
      /\ m_closed = from.closed
  BY <1>1 DEF SocketInv, CallInv, BlobInv, Running
<1>3. /\ m_data' \in Seq(Nat) /\ Len(m_data') = Len(m_data) + n
      /\ \A i \in 1..Len(m_data) : m_data'[i] = m_data[i]
      /\ \A i \in Len(m_data) + 1 .. Len(m_data) + n :
           m_data'[i] = taken + (i - Len(m_data))
  BY <1>1, RecvBlobData
<1>4. /\ Len(m_data) \in Nat /\ blob_size \in Nat /\ n \in Nat /\ taken \in Nat
      /\ from.taken \in Nat /\ BufferN \in Nat
      /\ DOMAIN m_data = 1..Len(m_data) /\ DOMAIN m_data' = 1..Len(m_data) + n
  BY <1>1, <1>3, FromType DEF TypeInv, TypeOK
<1>5. \A i \in 1..Len(m_data) + n : m_data'[i] = from.taken + i
  <2> SUFFICES ASSUME NEW i \in 1..Len(m_data) + n
               PROVE  m_data'[i] = from.taken + i
    OBVIOUS
  <2>1. CASE i <= Len(m_data)
    <3>1. i \in 1..Len(m_data)
      BY <1>4, <2>1
    <3> QED
      BY <1>2, <1>3, <1>4, <3>1
  <2>2. CASE i > Len(m_data)
    <3>1. i \in Len(m_data) + 1 .. Len(m_data) + n /\ i \in Nat
      BY <1>4, <2>2
    <3>2. m_data'[i] = taken + (i - Len(m_data))
      BY <1>3, <3>1
    <3> QED
      BY <1>2, <1>4, <3>1, <3>2
  <2> QED
    BY <1>4, <2>1, <2>2
<1>6. BlobInv'
  <2>1. Len(m_data) + n <= blob_size
    BY <1>1, <1>4 DEF Missing
  <2>2. taken + n = from.taken + (Len(m_data) + n)
    BY <1>2, <1>4
  <2> QED
    BY <1>1, <1>2, <1>3, <1>4, <1>5, <2>1, <2>2 DEF BlobInv
<1> QED
  BY <1>1, <1>2, <1>6 DEF SocketInv, CallInv, LineInv, Running, Promises, LineExact,
                          Terminated, BlobExact, FailsOnlyOn

(* readBlob() returns. *)
LEMMA BlobReturnsStep ==
  ASSUME SocketInv, TypeInv', BlobReturns
  PROVE  SocketInv'
<1>1. /\ TypeInv /\ call = "blob" /\ status = "pending"
      /\ m_closed \/ Missing = 0
      /\ status' = IF Missing = 0 THEN "ok" ELSE "closed_pipe"
      /\ m_length' = Len(m_data)
      /\ UNCHANGED <<taken, call, from, blob_size, m_data, m_closed>>
  BY DEF SocketInv, BlobReturns, Running, Finish, callVars
<1>2. /\ taken = from.taken + Len(m_data)
      /\ \A i \in DOMAIN m_data : m_data[i] = from.taken + i
  BY <1>1 DEF SocketInv, BlobInv, Running
<1>3. BlobExact'
  <2>1. CASE Missing = 0
    <3>1. m_data \in Seq(Nat) /\ Len(m_data) \in Nat /\ blob_size \in Nat
      BY <1>1 DEF TypeInv, TypeOK
    <3>2. Len(m_data) = blob_size
      BY <2>1, <3>1 DEF Missing
    <3>3. m_data = [i \in 1..blob_size |-> from.taken + i]
      BY <1>2, <3>1, <3>2
    <3> QED
      BY <1>1, <1>2, <3>2, <3>3 DEF BlobExact
  <2>2. CASE Missing # 0
    BY <1>1, <2>2 DEF BlobExact
  <2> QED
    BY <2>1, <2>2
<1>4. FailsOnlyOn'
  BY <1>1 DEF FailsOnlyOn
<1> QED
  BY <1>1, <1>3, <1>4 DEF SocketInv, CallInv, LineInv, BlobInv, Running, Promises,
                          LineExact, Terminated

-----------------------------------------------------------------------------
(* The invariant is inductive. *)

LEMMA SocketInvInductive == Spec => []SocketInv
<1>1. Init => SocketInv
  <2> SUFFICES ASSUME Init PROVE SocketInv
    OBVIOUS
  <2>1. <<>> \in Seq(Nat) /\ <<>> \in Seq(Octets) /\ Len(<<>>) = 0
    OBVIOUS
  <2>2. BufferN \in Nat
    BY BufferAssumption
  <2>3. [taken |-> 0, closed |-> FALSE] \in [taken : Nat, closed : BOOLEAN]
    OBVIOUS
  <2>4. TypeOK
    <3>1. stream \in Seq(Octets) /\ taken \in 0..Len(stream)
      BY <2>1 DEF Init
    <3>2. Len(m_data) <= BufferN /\ m_length \in 0..BufferN /\ blob_size \in 0..BufferN + 1
      BY <2>1, <2>2 DEF Init
    <3> QED
      BY <3>1, <3>2 DEF Init, TypeOK
  <2>5. from \in [taken : Nat, closed : BOOLEAN] /\ from.taken <= taken
    <3>1. from = [taken |-> 0, closed |-> FALSE] /\ taken = 0
      BY DEF Init
    <3>2. from.taken = 0
      BY <3>1
    <3> QED
      BY <2>3, <3>1, <3>2
  <2>6. m_data \in Seq(Nat)
    BY <2>1 DEF Init
  <2>7. TypeInv
    BY <2>4, <2>5, <2>6 DEF TypeInv
  <2> QED
    BY <2>7 DEF Init, SocketInv, CallInv, LineInv, BlobInv, Running, Promises,
                LineExact, Terminated, BlobExact, FailsOnlyOn
<1>2. SocketInv /\ [Next]_vars => SocketInv'
  <2> SUFFICES ASSUME SocketInv, [Next]_vars PROVE SocketInv'
    OBVIOUS
  <2>1. TypeInv' /\ TypeInv
    BY NextType DEF SocketInv
  <2>2. CASE UNCHANGED vars \/ HangUp
    <3>1. /\ UNCHANGED <<taken, m_closed, callVars, status, m_data, m_length>>
          /\ stream' = stream
      BY <2>2 DEF vars, clientVars, HangUp
    <3>2. Len(stream') >= Len(stream)
      BY <2>1, <3>1, FromType
    <3> QED
      BY <2>1, <3>1, <3>2, ClientStep
  <2>3. ASSUME NEW octet \in Octets, Deliver(octet)
        PROVE  SocketInv'
    <3>1. stream \in Seq(Octets) /\ stream' = Append(stream, octet)
      BY <2>1, <2>3 DEF Deliver, TypeInv, TypeOK
    <3>2. /\ Len(stream') >= Len(stream)
          /\ \A i \in 1..Len(stream) : stream'[i] = stream[i]
      BY <3>1
    <3> QED
      BY <2>1, <2>3, <3>2, ClientStep DEF Deliver
  <2>4. CASE ReadLine
    <3>1. Begin("line", 0) /\ status' = IF 0 > BufferN THEN "invalid_size" ELSE "pending"
      BY <2>4, BufferAssumption DEF ReadLine
    <3> QED
      BY <2>1, <3>1, BeginStep
  <2>5. ASSUME NEW size \in 0..BufferN + 1, ReadBlob(size)
        PROVE  SocketInv'
    <3>1. size \in Nat
      BY BufferAssumption
    <3> QED
      BY <2>1, <2>5, <3>1, BeginStep DEF ReadBlob
  <2> QED
    BY <2>1, <2>2, <2>3, <2>4, <2>5, LineOctetStep, FailStep, ExhaustedStep,
       ClosedStep, BlobStep, BlobReturnsStep DEF Next
<1> QED
  BY <1>1, <1>2, PTL DEF Spec

(* Every variable of the socket has a value of its type, and neither call  *)
(* writes past the buffer, whatever its size.                              *)
THEOREM SocketTypeCorrect == Spec => []TypeOK
<1>1. SocketInv => TypeOK
  BY DEF SocketInv, TypeInv
<1> QED
  BY <1>1, SocketInvInductive, PTL

(* What readLine() returns is the line: the octets up to the next line     *)
(* end, in their order, without the carriage returns and with nothing of   *)
(* the next line.                                                          *)
THEOREM LineExactCorrect == Spec => []LineExact
<1>1. SocketInv => LineExact
  BY DEF SocketInv, Promises
<1> QED
  BY <1>1, SocketInvInductive, PTL

(* A line that was read leaves room for the null octet behind it.          *)
THEOREM TerminatedCorrect == Spec => []Terminated
<1>1. SocketInv => Terminated
  BY DEF SocketInv, Promises
<1> QED
  BY <1>1, SocketInvInductive, PTL

(* What readBlob() returns is the next blob_size octets in their order,    *)
(* however many calls of recv() it took.                                   *)
THEOREM BlobExactCorrect == Spec => []BlobExact
<1>1. SocketInv => BlobExact
  BY DEF SocketInv, Promises
<1> QED
  BY <1>1, SocketInvInductive, PTL

(* Neither call fails without one of the causes FailsOnlyOn names, and a   *)
(* failure that is not recv()'s leaves the socket as it was.               *)
THEOREM SocketFailsCorrect == Spec => []FailsOnlyOn
<1>1. SocketInv => FailsOnlyOn
  BY DEF SocketInv, Promises
<1> QED
  BY <1>1, SocketInvInductive, PTL
===============================================================================
