-------------------------- MODULE HttpOuttakeProofs --------------------------
(***************************************************************************)
(* sendMessage() and writeBlob(), for any replies, a buffer of any size    *)
(* and a socket that takes any part of what it is offered.                 *)
(***************************************************************************)
EXTENDS HttpOuttake, SequenceTheorems, TLAPS

Octets == [of : Nat, piece : Nat, at : Nat]

IsReply(r) == r.top \in Nat \ {0} /\ r.blob \in Nat /\ r.headers \in Seq(Nat \ {0})

TypeInv ==
  /\ TypeOK
  /\ IsReply(reply)
  /\ at # "idle" => reply \in Replies
  /\ m_buffer \in Seq(Octets) /\ wire \in Seq(Octets)

(* A call that failed has returned.                                        *)
CallInv == at # "idle" => ~failed

(* Before each line the buffer holds less than buffer_sendable_n octets:   *)
(* only the top line may be longer, and it stands alone then.              *)
ShortLines == \A n \in Lines(reply) : n <= buffer_size - buffer_sendable_n
RoomInv ==
  at = "headers" /\ ShortLines =>
    \/ header = 1 /\ Len(m_buffer) = reply.top
    \/ Len(m_buffer) < buffer_sendable_n

CauseInv == TypeInv /\ CallInv /\ RoomInv /\ FailsOnlyOn

-----------------------------------------------------------------------------
(* Sizes. *)

LEMMA Sizes ==
  /\ buffer_size \in Nat /\ buffer_sendable_n \in Nat
  /\ 2 <= buffer_sendable_n /\ buffer_sendable_n < buffer_size
  /\ buffer_size <= 2 * buffer_sendable_n
  BY SizesAssumption

LEMMA RepliesAre == \A r \in Replies : IsReply(r)
  BY RepliesAssumption DEF IsReply

LEMMA BreaksIs ==
  ASSUME NEW r, IsReply(r)
  PROVE  /\ Breaks(r) \in Nat /\ Breaks(r) >= 1 /\ Breaks(r) + 1 \in Nat
         /\ Len(r.headers) \in Nat /\ Breaks(r) = Len(r.headers) + 1
         /\ Size(r, 0) = r.top
         /\ Size(r, Breaks(r)) = 2
         /\ Size(r, Breaks(r) + 1) = r.blob
<1>1. Len(r.headers) \in Nat
  BY DEF IsReply
<1> QED
  BY <1>1 DEF Breaks, Size

LEMMA SizeIsNat ==
  ASSUME NEW r, IsReply(r), NEW p \in Nat
  PROVE  /\ Size(r, p) \in Nat
         /\ p < Breaks(r) => Size(r, p) > 0
<1>1. Len(r.headers) \in Nat
  BY DEF IsReply
<1>2. ASSUME p # 0, p < Breaks(r)
      PROVE  r.headers[p] \in Nat \ {0}
  BY <1>1, <1>2 DEF Breaks, IsReply
<1> QED
  BY <1>1, <1>2 DEF Breaks, Size, IsReply

LEMMA OctetIs == \A n, p, i : Octet(n, p, i).of = n
  BY DEF Octet

LEMMA PieceIs ==
  ASSUME TypeInv, NEW r, IsReply(r), NEW p \in Nat
  PROVE  /\ Piece(r, p) \in Seq(Octets)
         /\ Len(Piece(r, p)) = Size(r, p)
         /\ \A i \in 1..Size(r, p) : Piece(r, p)[i] = Octet(Number, p, i)
<1>1. Size(r, p) \in Nat
  BY SizeIsNat
<1>2. Number \in Nat
  BY DEF TypeInv, TypeOK, Number
<1>3. \A i \in 1..Size(r, p) : Octet(Number, p, i) \in Octets
  BY <1>1, <1>2 DEF Octet, Octets
<1> HIDE DEF Octets
<1> QED
  BY <1>1, <1>3 DEF Piece

-----------------------------------------------------------------------------
(* Types. *)

LEMMA Grows ==
  ASSUME TypeInv, NEW p \in Nat
  PROVE  /\ m_buffer \o Piece(reply, p) \in Seq(Octets)
         /\ Len(m_buffer \o Piece(reply, p)) = Len(m_buffer) + Size(reply, p)
<1>1. Piece(reply, p) \in Seq(Octets) /\ Len(Piece(reply, p)) = Size(reply, p)
  BY PieceIs DEF TypeInv
<1> QED
  BY <1>1, ConcatProperties DEF TypeInv

LEMMA NextType ==
  ASSUME TypeInv, [Next]_vars
  PROVE  TypeInv'
<1> USE DEF vars, socketVars, callerVars, Step
<1>1. /\ TypeOK /\ IsReply(reply) /\ Breaks(reply) \in Nat
      /\ buffer_size \in Nat
      /\ Len(m_buffer) \in Nat /\ Len(m_buffer) <= buffer_size /\ done_n \in Nat
      /\ header \in Nat /\ Len(reply.headers) \in Nat
      /\ m_buffer \in Seq(Octets) /\ wire \in Seq(Octets)
      /\ done_n \in 0..buffer_size /\ 0 \in 0..buffer_size
  <2>1. TypeOK /\ IsReply(reply) /\ m_buffer \in Seq(Octets) /\ wire \in Seq(Octets)
    BY DEF TypeInv
  <2>2. /\ buffer_size \in Nat /\ Breaks(reply) \in Nat
        /\ Len(m_buffer) \in Nat /\ Len(reply.headers) \in Nat
    BY <2>1, Sizes, BreaksIs
  <2>3. Len(m_buffer) <= buffer_size /\ done_n \in 0..buffer_size /\ header \in Nat
    BY <2>1, <2>2 DEF TypeOK
  <2> QED
    BY <2>1, <2>2, <2>3
<1>2. <<>> \in Seq(Octets) /\ Len(<<>>) = 0 /\ 0 <= buffer_size
  BY <1>1
<1>3. CASE UNCHANGED vars \/ HangUp \/ SendKills
  <2>1. /\ UNCHANGED <<at, reply, header, written_yet, m_buffer, done_n, returns_to, m_closed,
                       wire, sent, failed>>
        /\ gone' \in BOOLEAN /\ alive' \in BOOLEAN
    BY <1>1, <1>3 DEF HangUp, SendKills, TypeOK
  <2> QED
    BY <1>1, <2>1 DEF TypeInv, TypeOK
<1>4. ASSUME NEW r \in Replies, SendMessage(r) \/ RefuseTop(r)
      PROVE  TypeInv'
  <2>1. IsReply(r) /\ Len(r.headers) \in Nat
    BY RepliesAre DEF IsReply
  <2>2. m_buffer' \in Seq(Octets) /\ Len(m_buffer') <= buffer_size
    <3>1. CASE SendMessage(r)
      <4>1. Top(r) \in Seq(Octets) /\ Len(Top(r)) = r.top
        BY <2>1, PieceIs DEF Top, Size
      <4> QED
        BY <3>1, <4>1 DEF SendMessage
    <3>2. CASE RefuseTop(r)
      BY <1>2, <3>2 DEF RefuseTop
    <3> QED
      BY <1>4, <3>1, <3>2
  <2>3. /\ at' \in {"idle", "headers"} /\ written_yet' \in BOOLEAN /\ failed' \in BOOLEAN
        /\ reply' = r /\ header' = 1
        /\ UNCHANGED <<done_n, returns_to, m_closed, gone, wire, alive, sent>>
    BY <1>1, <1>4 DEF SendMessage, RefuseTop, TypeOK
  <2> QED
    BY <1>1, <2>1, <2>2, <2>3 DEF TypeInv, TypeOK
<1>5. CASE Refuse \/ SendFails
  <2>1. /\ at' = "idle" /\ failed' = TRUE /\ m_buffer' = <<>> /\ m_closed' \in BOOLEAN
        /\ UNCHANGED <<reply, header, written_yet, done_n, returns_to, gone, wire, alive, sent>>
    BY <1>1, <1>5 DEF Refuse, SendFails, TypeOK
  <2>2. m_buffer' \in Seq(Octets) /\ Len(m_buffer') <= buffer_size
    BY <1>2, <2>1
  <2> QED
    BY <1>1, <2>1, <2>2 DEF TypeInv, TypeOK
<1>6. CASE SerializeHeader
  <2>1. m_buffer' \in Seq(Octets) /\ Len(m_buffer') <= buffer_size
    <3>1. Len(Header(reply, header)) = Size(reply, header)
      BY <1>1, PieceIs DEF Header
    <3> QED
      BY <1>1, <1>6, <3>1, Grows DEF SerializeHeader, Fits, Header
  <2>2. header' \in 1..Len(reply'.headers) + 1
    BY <1>1, <1>6 DEF SerializeHeader
  <2>3. /\ at' \in {"headers", "write"} /\ written_yet' \in BOOLEAN
        /\ done_n' \in 0..buffer_size /\ returns_to' \in {"headers", "body", "done"}
        /\ UNCHANGED <<reply, m_closed, gone, wire, alive, sent, failed>>
        /\ at # "idle"
    <3>1. /\ at' \in {"headers", "write"}
          /\ written_yet' = FALSE \/ written_yet' = written_yet
          /\ done_n' = done_n \/ done_n' = 0
          /\ returns_to' = returns_to \/ returns_to' = "headers"
          /\ UNCHANGED <<reply, m_closed, gone, wire, alive, sent, failed>>
          /\ at # "idle"
      BY <1>6 DEF SerializeHeader
    <3>2. done_n' \in 0..buffer_size
      BY <1>1, <3>1
    <3> QED
      BY <1>1, <3>1, <3>2 DEF TypeOK
  <2> QED
    BY <1>1, <2>1, <2>2, <2>3 DEF TypeInv, TypeOK
<1>7. CASE SerializeEmptyBreak
  <2>1. m_buffer' \in Seq(Octets) /\ Len(m_buffer') <= buffer_size
    <3>1. Len(EmptyBreak(reply)) = Size(reply, Breaks(reply))
      BY <1>1, PieceIs DEF EmptyBreak
    <3>2. m_buffer' = <<>> \/ m_buffer' = m_buffer \o EmptyBreak(reply)
      BY <1>7 DEF SerializeEmptyBreak
    <3>3. CASE m_buffer' = <<>>
      BY <1>2, <3>3
    <3>4. CASE m_buffer' = m_buffer \o EmptyBreak(reply)
      BY <1>1, <1>7, <3>1, <3>4, Grows DEF SerializeEmptyBreak, Fits, EmptyBreak
    <3> QED
      BY <3>2, <3>3, <3>4
  <2>2. /\ at' \in {"body", "write"} /\ done_n' \in 0..buffer_size
        /\ returns_to' \in {"headers", "body", "done"}
        /\ UNCHANGED <<reply, header, written_yet, m_closed, gone, wire, alive, sent, failed>>
        /\ at # "idle"
    BY <1>1, <1>7 DEF SerializeEmptyBreak, TypeOK
  <2> QED
    BY <1>1, <2>1, <2>2 DEF TypeInv, TypeOK
<1>8. CASE SerializeBlob
  <2>1. m_buffer' \in Seq(Octets) /\ Len(m_buffer') <= buffer_size
    <3>1. Blob(reply) \in Seq(Octets) /\ Len(Blob(reply)) = reply.blob
      <4>1. Breaks(reply) + 1 \in Nat /\ Size(reply, Breaks(reply) + 1) = reply.blob
        BY <1>1, BreaksIs
      <4> QED
        BY <1>1, <4>1, PieceIs DEF Blob
    <3> QED
      BY <1>8, <3>1 DEF SerializeBlob
  <2>2. /\ at' = "write" /\ returns_to' = "done" /\ done_n' = 0
        /\ UNCHANGED <<reply, header, written_yet, m_closed, gone, wire, alive, sent, failed>>
        /\ at # "idle"
    BY <1>8 DEF SerializeBlob
  <2> QED
    BY <1>1, <2>1, <2>2 DEF TypeInv, TypeOK
<1>9. CASE Return
  <2>1. sent' \in Seq(Replies)
    <3>1. reply \in Replies /\ sent \in Seq(Replies) /\ sent' = Append(sent, reply)
      BY <1>9 DEF Return, TypeInv, TypeOK
    <3> QED
      BY <3>1
  <2>2. /\ at' = "idle"
        /\ UNCHANGED <<reply, header, written_yet, m_buffer, done_n, returns_to, m_closed, gone,
                       wire, alive, failed>>
    BY <1>9 DEF Return
  <2> QED
    BY <1>1, <2>1, <2>2 DEF TypeInv, TypeOK
<1>10. ASSUME NEW n \in 1..buffer_size, Send(n)
       PROVE  TypeInv'
  <2>1. n \in Nat /\ n >= 1 /\ done_n + n <= Len(m_buffer)
    BY <1>1, <1>10 DEF Send, Pending
  <2>2. wire' \in Seq(Octets)
    <3>1. SubSeq(m_buffer, done_n + 1, done_n + n) \in Seq(Octets)
      BY <1>1, <2>1, SubSeqProperties
    <3> QED
      BY <1>1, <1>10, <3>1, ConcatProperties DEF Send
  <2>3. done_n' \in 0..buffer_size
    BY <1>1, <1>10, <2>1 DEF Send
  <2>4. UNCHANGED <<at, reply, header, written_yet, m_buffer, returns_to, m_closed, gone, alive,
                    sent, failed>>
    BY <1>10 DEF Send
  <2> QED
    BY <1>1, <2>2, <2>3, <2>4 DEF TypeInv, TypeOK
<1>11. CASE WriteReturns
  <2>1. m_buffer' \in Seq(Octets) /\ Len(m_buffer') <= buffer_size
    <3>1. m_buffer' = m_buffer \/ m_buffer' = <<>>
      BY <1>11 DEF WriteReturns
    <3> QED
      BY <1>1, <1>2, <3>1, Zenon
  <2>2. /\ at' = returns_to /\ written_yet' \in BOOLEAN
        /\ UNCHANGED <<reply, header, done_n, returns_to, m_closed, gone, wire, alive, sent, failed>>
        /\ at # "idle"
    BY <1>1, <1>11 DEF WriteReturns, TypeOK
  <2> QED
    BY <1>1, <2>1, <2>2 DEF TypeInv, TypeOK
<1> QED
  BY <1>3, <1>4, <1>5, <1>6, <1>7, <1>8, <1>9, <1>10, <1>11 DEF Next

-----------------------------------------------------------------------------
(* Why a call fails. *)

LEMMA ShortLinesAre ==
  ASSUME TypeInv, ShortLines
  PROVE  /\ reply.top <= buffer_size - buffer_sendable_n
         /\ \A h \in 1..Len(reply.headers) :
              Size(reply, h) <= buffer_size - buffer_sendable_n
<1>1. IsReply(reply) /\ Len(reply.headers) \in Nat
  BY DEF TypeInv, IsReply
<1>2. ASSUME NEW h \in 1..Len(reply.headers)
      PROVE  Size(reply, h) \in Lines(reply)
  <2>1. Size(reply, h) = reply.headers[h] /\ h \in DOMAIN reply.headers
    BY <1>1 DEF Size, Breaks, IsReply
  <2> QED
    BY <2>1 DEF Lines, ToSet
<1>3. reply.top \in Lines(reply)
  BY DEF Lines
<1> QED
  BY <1>2, <1>3 DEF ShortLines

(* Short lines fit. *)
LEMMA RefusedForSize ==
  ASSUME CauseInv, Refuse, ShortLines
  PROVE  reply.blob > buffer_size
<1>1. /\ TypeInv /\ IsReply(reply) /\ Len(m_buffer) \in Nat /\ header \in 1..Breaks(reply)
      /\ Breaks(reply) \in Nat /\ Breaks(reply) = Len(reply.headers) + 1 /\ reply.top \in Nat
  BY BreaksIs DEF CauseInv, TypeInv, TypeOK, IsReply
<1>2. /\ reply.top <= buffer_size - buffer_sendable_n
      /\ \A h \in 1..Len(reply.headers) :
           Size(reply, h) <= buffer_size - buffer_sendable_n
  BY <1>1, ShortLinesAre
<1>3. ASSUME at = "headers"
      PROVE  Len(m_buffer) <= buffer_size - buffer_sendable_n \/ Len(m_buffer) < buffer_sendable_n
  BY <1>2, <1>3 DEF CauseInv, RoomInv
<1>4. ~(at = "headers" /\ header <= Len(reply.headers) /\ ~Fits(Header(reply, header)))
  <2> SUFFICES ASSUME at = "headers", header <= Len(reply.headers)
               PROVE  Fits(Header(reply, header))
    OBVIOUS
  <2>1. header \in Nat /\ header \in 1..Len(reply.headers)
    BY <1>1
  <2>2. Len(Header(reply, header)) = Size(reply, header) /\ Size(reply, header) \in Nat
    BY <1>1, <2>1, PieceIs, SizeIsNat DEF Header
  <2>3. Size(reply, header) <= buffer_size - buffer_sendable_n
    BY <1>2, <2>1
  <2> QED
    BY <1>1, <1>3, <2>2, <2>3, Sizes DEF Fits
<1>5. ~(at = "headers" /\ header > Len(reply.headers) /\ ~Fits(EmptyBreak(reply)))
  <2> SUFFICES ASSUME at = "headers"
               PROVE  Fits(EmptyBreak(reply))
    OBVIOUS
  <2>1. Len(EmptyBreak(reply)) = 2
    BY <1>1, PieceIs, BreaksIs DEF EmptyBreak
  <2> QED
    BY <1>1, <1>3, <2>1, Sizes DEF Fits
<1> QED
  BY <1>4, <1>5 DEF Refuse

LEMMA NextCause ==
  ASSUME CauseInv, [Next]_vars
  PROVE  CauseInv'
<1> USE DEF vars, socketVars, callerVars, Step
<1>1. TypeInv' /\ TypeInv
  BY NextType DEF CauseInv
<1>2. CallInv /\ RoomInv /\ FailsOnlyOn
  BY DEF CauseInv
<1>3. CASE UNCHANGED vars \/ HangUp \/ SendKills
  <2>1. /\ UNCHANGED <<at, reply, header, m_buffer, failed>>
        /\ gone => gone'
    BY <1>3 DEF HangUp, SendKills
  <2> QED
    BY <1>1, <1>2, <2>1 DEF CauseInv, CallInv, RoomInv, FailsOnlyOn, ShortLines, Lines
<1>4. ASSUME NEW r \in Replies, SendMessage(r)
      PROVE  CauseInv'
  <2>1. at' = "headers" /\ ~failed' /\ reply' = r /\ header' = 1 /\ m_buffer' = Top(r)
    BY <1>4 DEF SendMessage
  <2>2. Len(Top(r)) = r.top
    <3>1. IsReply(r) /\ Size(r, 0) = r.top
      BY RepliesAre, BreaksIs
    <3> QED
      BY <1>1, <3>1, PieceIs DEF Top
  <2> QED
    BY <1>1, <2>1, <2>2 DEF CauseInv, CallInv, RoomInv, FailsOnlyOn
<1>5. ASSUME NEW r \in Replies, RefuseTop(r)
      PROVE  CauseInv'
  <2>1. at' = "idle" /\ reply' = r /\ r.top > buffer_size
    BY <1>5 DEF RefuseTop
  <2>2. r.top \in Lines(reply') /\ r.top > buffer_size - buffer_sendable_n
    <3>1. r.top \in Nat
      BY RepliesAre DEF IsReply
    <3> QED
      BY <2>1, <3>1, Sizes DEF Lines
  <2> QED
    BY <1>1, <2>1, <2>2 DEF CauseInv, CallInv, RoomInv, FailsOnlyOn, Lines
<1>6. CASE Refuse
  <2>1. at' = "idle" /\ UNCHANGED reply
    BY <1>6 DEF Refuse
  <2>2. reply.blob > buffer_size \/ ~ShortLines
    BY <1>6, RefusedForSize
  <2>3. ~ShortLines => \E n \in Lines(reply) : n > buffer_size - buffer_sendable_n
    <3>1. \A n \in Lines(reply) : n \in Nat
      <4>1. reply.top \in Nat /\ reply.headers \in Seq(Nat)
        BY <1>1 DEF TypeInv, IsReply
      <4> QED
        BY <4>1 DEF Lines, ToSet
    <3> QED
      BY <3>1, Sizes DEF ShortLines
  <2> QED
    BY <1>1, <2>1, <2>2, <2>3 DEF CauseInv, CallInv, RoomInv, FailsOnlyOn, Lines
<1>7. CASE SerializeHeader
  <2>1. /\ ~failed' /\ reply' = reply
        /\ at' = "headers" => Len(m_buffer') < buffer_sendable_n
    BY <1>2, <1>7 DEF SerializeHeader, CallInv
  <2> QED
    BY <1>1, <2>1 DEF CauseInv, CallInv, RoomInv, FailsOnlyOn
<1>8. CASE SerializeEmptyBreak \/ SerializeBlob \/ Return
  <2>1. ~failed' /\ at' # "headers"
    BY <1>2, <1>8 DEF SerializeEmptyBreak, SerializeBlob, Return, CallInv
  <2> QED
    BY <1>1, <2>1 DEF CauseInv, CallInv, RoomInv, FailsOnlyOn
<1>9. ASSUME NEW n \in 1..buffer_size, Send(n)
      PROVE  CauseInv'
  <2>1. ~failed' /\ at' = "write"
    BY <1>2, <1>9 DEF Send, CallInv
  <2> QED
    BY <1>1, <2>1 DEF CauseInv, CallInv, RoomInv, FailsOnlyOn
<1>10. CASE SendFails
  <2>1. at' = "idle" /\ gone'
    BY <1>10 DEF SendFails
  <2> QED
    BY <1>1, <2>1 DEF CauseInv, CallInv, RoomInv, FailsOnlyOn
<1>11. CASE WriteReturns
  <2>1. /\ ~failed' /\ at' = returns_to
        /\ at' = "headers" => m_buffer' = <<>>
    BY <1>2, <1>11 DEF WriteReturns, CallInv
  <2>2. Len(<<>>) = 0 /\ 0 < buffer_sendable_n
    BY Sizes
  <2> QED
    BY <1>1, <2>1, <2>2 DEF CauseInv, CallInv, RoomInv, FailsOnlyOn
<1> QED
  BY <1>3, <1>4, <1>5, <1>6, <1>7, <1>8, <1>9, <1>10, <1>11 DEF Next

LEMMA InitCause == Init => CauseInv
<1> SUFFICES ASSUME Init PROVE CauseInv
  OBVIOUS
<1>1. <<>> \in Seq(Octets) /\ <<>> \in Seq(Nat \ {0}) /\ <<>> \in Seq(Replies) /\ Len(<<>>) = 0
  OBVIOUS
<1>2. reply = [top |-> 1, headers |-> <<>>, blob |-> 0]
  BY DEF Init
<1>3. reply.top = 1 /\ reply.headers = <<>> /\ reply.blob = 0
  BY <1>2
<1>4. IsReply(reply) /\ header \in 1..Len(reply.headers) + 1
  BY <1>1, <1>3 DEF IsReply, Init
<1>5. Len(m_buffer) <= buffer_size /\ done_n \in 0..buffer_size
  BY <1>1, Sizes DEF Init
<1>6. m_buffer \in Seq(Octets) /\ wire \in Seq(Octets) /\ sent \in Seq(Replies)
  BY <1>1 DEF Init
<1>7. TypeInv
  BY <1>4, <1>5, <1>6 DEF Init, TypeInv, TypeOK
<1> QED
  BY <1>7 DEF Init, CauseInv, CallInv, RoomInv, FailsOnlyOn

LEMMA CauseInvInductive == Spec => []CauseInv
  BY InitCause, NextCause, PTL DEF Spec

(* Every variable of the writer has a value of its type, and no piece is   *)
(* laid out past the end of the buffer, whatever the replies.              *)
THEOREM WriterTypeCorrect == Spec => []TypeOK
<1>1. CauseInv => TypeOK
  BY DEF CauseInv, TypeInv
<1> QED
  BY <1>1, CauseInvInductive, PTL

(* Lines of half the buffer and a body of all of it always fit, however    *)
(* many there are: sendMessage() fails on longer ones, or on a client that *)
(* is gone, and on nothing else.                                           *)
THEOREM WriterFailsCorrect == Spec => []FailsOnlyOn
<1>1. CauseInv => FailsOnlyOn
  BY DEF CauseInv
<1> QED
  BY <1>1, CauseInvInductive, PTL

-----------------------------------------------------------------------------
(* Octets that follow one another. *)

(* From place b on, the octets are due and those behind it.                *)
Continues(rs, octets, b, due) ==
  \A i \in b + 1 .. Len(octets) :
    octets[i] = IF i = b + 1 THEN due ELSE Behind(rs, octets[i - 1])

(* The octet to come after them. *)
EndOf(rs, octets, b, due) ==
  IF b = Len(octets) THEN due ELSE Behind(rs, octets[Len(octets)])

LEMMA Joined ==
  ASSUME NEW S, NEW rs, NEW a \in Seq(S), NEW c \in Seq(S), NEW due,
         Continues(rs, a, 0, due), Continues(rs, c, 0, EndOf(rs, a, 0, due))
  PROVE  /\ Continues(rs, a \o c, 0, due)
         /\ EndOf(rs, a \o c, 0, due) = EndOf(rs, c, 0, EndOf(rs, a, 0, due))
<1> DEFINE j == a \o c
<1>1. Len(a) \in Nat /\ Len(c) \in Nat
  OBVIOUS
<1>2. /\ Len(j) = Len(a) + Len(c)
      /\ \A i \in 1..Len(a) : j[i] = a[i]
      /\ \A i \in 1..Len(c) : j[Len(a) + i] = c[i]
  <2>1. /\ Len(j) = Len(a) + Len(c)
        /\ \A i \in 1 .. Len(a) + Len(c) : j[i] = IF i <= Len(a) THEN a[i] ELSE c[i - Len(a)]
    BY ConcatProperties
  <2> HIDE DEF j
  <2>2. ASSUME NEW i \in 1..Len(c)
        PROVE  j[Len(a) + i] = c[i]
    <3>1. Len(a) + i \in 1 .. Len(a) + Len(c) /\ ~(Len(a) + i <= Len(a)) /\ Len(a) + i - Len(a) = i
      BY <1>1
    <3> QED
      BY <2>1, <3>1
  <2> QED
    BY <1>1, <2>1, <2>2
<1> HIDE DEF j
<1>3. ASSUME NEW i \in 1..Len(j)
      PROVE  j[i] = IF i = 1 THEN due ELSE Behind(rs, j[i - 1])
  <2>1. CASE i <= Len(a)
    <3>1. i \in 1..Len(a) /\ (i # 1 => i - 1 \in 1..Len(a)) /\ i \in 0 + 1 .. Len(a)
      BY <1>1, <2>1
    <3>2. a[i] = IF i = 1 THEN due ELSE Behind(rs, a[i - 1])
      BY <3>1 DEF Continues
    <3> QED
      BY <1>2, <3>1, <3>2
  <2>2. CASE i = Len(a) + 1
    <3>1. 1 \in 1..Len(c) /\ 1 \in 0 + 1 .. Len(c)
      BY <1>1, <1>2, <2>2
    <3>2. j[i] = c[1] /\ c[1] = EndOf(rs, a, 0, due)
      BY <1>2, <2>2, <3>1 DEF Continues
    <3>3. CASE Len(a) = 0
      BY <2>2, <3>2, <3>3 DEF EndOf
    <3>4. CASE Len(a) # 0
      <4>1. Len(a) \in 1..Len(a) /\ i # 1 /\ i - 1 = Len(a)
        BY <1>1, <2>2, <3>4
      <4> QED
        BY <1>2, <3>2, <3>4, <4>1 DEF EndOf
    <3> QED
      BY <3>3, <3>4
  <2>3. CASE i > Len(a) + 1
    <3> DEFINE k == i - Len(a)
    <3>1. /\ k \in 1..Len(c) /\ k - 1 \in 1..Len(c) /\ k \in 0 + 1 .. Len(c) /\ k # 0 + 1
          /\ i = Len(a) + k /\ i - 1 = Len(a) + (k - 1) /\ i # 1
      BY <1>1, <1>2, <2>3
    <3> HIDE DEF k
    <3>2. j[i] = c[k] /\ j[i - 1] = c[k - 1]
      BY <1>2, <3>1
    <3>3. c[k] = Behind(rs, c[k - 1])
      BY <3>1 DEF Continues
    <3> QED
      BY <3>1, <3>2, <3>3
  <2> QED
    BY <1>1, <1>2, <2>1, <2>2, <2>3
<1>4. Continues(rs, j, 0, due)
  BY <1>3 DEF Continues
<1>5. EndOf(rs, j, 0, due) = EndOf(rs, c, 0, EndOf(rs, a, 0, due))
  <2>1. CASE Len(c) = 0
    <3>1. Len(j) = Len(a)
      BY <1>1, <1>2, <2>1
    <3>2. Len(a) # 0 => j[Len(j)] = a[Len(a)]
      BY <1>1, <1>2, <3>1
    <3> QED
      BY <2>1, <3>1, <3>2 DEF EndOf
  <2>2. CASE Len(c) # 0
    <3>1. Len(j) # 0 /\ j[Len(j)] = c[Len(c)]
      BY <1>1, <1>2, <2>2
    <3> QED
      BY <2>2, <3>1 DEF EndOf
  <2> QED
    BY <2>1, <2>2
<1> QED
  BY <1>4, <1>5 DEF j

(* What send() takes of a buffer continues the wire, and the rest of the   *)
(* buffer continues that.                                                  *)
LEMMA Taken ==
  ASSUME NEW rs, NEW c \in Seq(Octets), NEW due, NEW b \in Nat, NEW n \in Nat,
         n > 0, b + n <= Len(c), Continues(rs, c, b, due)
  PROVE  LET part == SubSeq(c, b + 1, b + n)
             next == EndOf(rs, part, 0, due)
         IN  /\ part \in Seq(Octets) /\ Len(part) = n
             /\ \A i \in 1..n : part[i] = c[b + i]
             /\ Continues(rs, part, 0, due)
             /\ Continues(rs, c, b + n, next)
             /\ EndOf(rs, c, b + n, next) = EndOf(rs, c, b, due)
<1> DEFINE part == SubSeq(c, b + 1, b + n)
<1> DEFINE next == EndOf(rs, part, 0, due)
<1>1. Len(c) \in Nat
  OBVIOUS
<1>2. /\ part \in Seq(Octets) /\ Len(part) = n
      /\ \A i \in 1..n : part[i] = c[b + i]
  <2>1. \A i \in b + 1 .. b + n : c[i] \in Octets
    BY <1>1
  <2>2. /\ part \in Seq(Octets)
        /\ Len(part) = IF b + 1 <= b + n THEN b + n - (b + 1) + 1 ELSE 0
        /\ \A i \in 1 .. b + n - (b + 1) + 1 : part[i] = c[b + 1 + i - 1]
    BY <2>1, SubSeqProperties
  <2> HIDE DEF part
  <2>3. b + n - (b + 1) + 1 = n /\ b + 1 <= b + n
    OBVIOUS
  <2>4. \A i \in 1..n : b + 1 + i - 1 = b + i
    OBVIOUS
  <2> QED
    BY <2>2, <2>3, <2>4
<1> HIDE DEF part
<1>3. \A i \in b + 1 .. Len(c) : c[i] = IF i = b + 1 THEN due ELSE Behind(rs, c[i - 1])
  BY DEF Continues
<1>4. Continues(rs, part, 0, due)
  <2> SUFFICES ASSUME NEW i \in 1..n
               PROVE  part[i] = IF i = 1 THEN due ELSE Behind(rs, part[i - 1])
    BY <1>2 DEF Continues
  <2>1. b + i \in b + 1 .. Len(c) /\ part[i] = c[b + i]
    BY <1>1, <1>2
  <2>2. CASE i = 1
    BY <1>3, <2>1, <2>2
  <2>3. CASE i # 1
    <3>1. i - 1 \in 1..n /\ b + i # b + 1 /\ b + (i - 1) = b + i - 1
      BY <2>3
    <3>2. part[i - 1] = c[b + i - 1]
      BY <1>2, <3>1
    <3> QED
      BY <1>3, <2>1, <2>3, <3>1, <3>2
  <2> QED
    BY <2>2, <2>3
<1>5. next = Behind(rs, c[b + n])
  BY <1>2 DEF EndOf
<1> HIDE DEF next
<1>6. Continues(rs, c, b + n, next)
  <2> SUFFICES ASSUME NEW i \in b + n + 1 .. Len(c)
               PROVE  c[i] = IF i = b + n + 1 THEN next ELSE Behind(rs, c[i - 1])
    BY DEF Continues
  <2>1. i \in b + 1 .. Len(c) /\ i # b + 1 /\ (i = b + n + 1 => i - 1 = b + n)
    BY <1>1
  <2> QED
    BY <1>3, <1>5, <2>1
<1>7. EndOf(rs, c, b + n, next) = EndOf(rs, c, b, due)
  <2>1. b # Len(c)
    BY <1>1
  <2> QED
    BY <1>5, <2>1 DEF EndOf
<1> QED
  BY <1>2, <1>4, <1>6, <1>7 DEF part, next

LEMMA Along ==
  ASSUME NEW rs, NEW w \in Seq(Octets)
  PROVE  /\ (\A i \in DOMAIN w : /\ w[i].of \in DOMAIN rs
                                /\ w[i] = IF i = 1 THEN First ELSE Behind(rs, w[i - 1]))
              <=> Continues(rs, w, 0, First) /\ \A i \in 1..Len(w) : w[i].of \in DOMAIN rs
         /\ (IF w = <<>> THEN First ELSE Behind(rs, w[Len(w)])) = EndOf(rs, w, 0, First)
<1>1. DOMAIN w = 1..Len(w) /\ 0 + 1 = 1 /\ (w = <<>> <=> Len(w) = 0)
  OBVIOUS
<1> QED
  BY <1>1 DEF Continues, EndOf

(* A reply more changes nothing about the octets of those before it.       *)
LEMMA Regiven ==
  ASSUME NEW rs, NEW ss, NEW w \in Seq(Octets), NEW due,
         \A i \in 1..Len(w) : rs[w[i].of] = ss[w[i].of],
         Continues(rs, w, 0, due)
  PROVE  Continues(ss, w, 0, due) /\ EndOf(ss, w, 0, due) = EndOf(rs, w, 0, due)
<1>1. Len(w) \in Nat
  OBVIOUS
<1>2. \A i \in 1..Len(w) : Behind(ss, w[i]) = Behind(rs, w[i])
  BY DEF Behind
<1>3. Continues(ss, w, 0, due)
  <2> SUFFICES ASSUME NEW i \in 0 + 1 .. Len(w)
               PROVE  w[i] = IF i = 0 + 1 THEN due ELSE Behind(ss, w[i - 1])
    BY DEF Continues
  <2>1. w[i] = IF i = 0 + 1 THEN due ELSE Behind(rs, w[i - 1])
    BY DEF Continues
  <2>2. i # 0 + 1 => i - 1 \in 1..Len(w)
    BY <1>1
  <2> QED
    BY <1>2, <2>1, <2>2
<1>4. EndOf(ss, w, 0, due) = EndOf(rs, w, 0, due)
  <2>1. Len(w) # 0 => Len(w) \in 1..Len(w)
    BY <1>1
  <2> QED
    BY <1>2, <2>1 DEF EndOf
<1> QED
  BY <1>3, <1>4

(* A piece is its octets one behind the other, and leads to the next.      *)
LEMMA PieceContinues ==
  ASSUME TypeInv, NEW rs, NEW r, rs[Number] = r, IsReply(r), NEW p \in Nat, Size(r, p) > 0
  PROVE  /\ Continues(rs, Piece(r, p), 0, Octet(Number, p, 1))
         /\ EndOf(rs, Piece(r, p), 0, Octet(Number, p, 1)) =
              IF p < Breaks(r) \/ (p = Breaks(r) /\ r.blob > 0) THEN Octet(Number, p + 1, 1)
              ELSE Octet(Number + 1, 0, 1)
<1>1. /\ Size(r, p) \in Nat
      /\ Piece(r, p) \in Seq(Octets) /\ Len(Piece(r, p)) = Size(r, p)
      /\ \A i \in 1..Size(r, p) : Piece(r, p)[i] = Octet(Number, p, i)
  BY SizeIsNat, PieceIs
<1>2. \A i \in Nat : Behind(rs, Octet(Number, p, i)) =
        IF i < Size(r, p) THEN Octet(Number, p, i + 1)
        ELSE IF p < Breaks(r) \/ (p = Breaks(r) /\ r.blob > 0) THEN Octet(Number, p + 1, 1)
        ELSE Octet(Number + 1, 0, 1)
  BY DEF Behind, Octet
<1>3. Continues(rs, Piece(r, p), 0, Octet(Number, p, 1))
  <2> SUFFICES ASSUME NEW i \in 1..Size(r, p)
               PROVE  Piece(r, p)[i] = IF i = 1 THEN Octet(Number, p, 1)
                                       ELSE Behind(rs, Piece(r, p)[i - 1])
    BY <1>1 DEF Continues
  <2>1. CASE i = 1
    BY <1>1, <2>1
  <2>2. CASE i # 1
    <3>1. i - 1 \in 1..Size(r, p) /\ i - 1 < Size(r, p) /\ i - 1 \in Nat /\ i - 1 + 1 = i
      BY <1>1, <2>2
    <3>2. Behind(rs, Octet(Number, p, i - 1)) = Octet(Number, p, i)
      BY <1>2, <3>1
    <3> QED
      BY <1>1, <2>2, <3>1, <3>2
  <2> QED
    BY <2>1, <2>2
<1>4. /\ EndOf(rs, Piece(r, p), 0, Octet(Number, p, 1)) = Behind(rs, Piece(r, p)[Size(r, p)])
      /\ Size(r, p) \in 1..Size(r, p) /\ ~(Size(r, p) < Size(r, p))
  BY <1>1 DEF EndOf
<1> QED
  BY <1>1, <1>2, <1>3, <1>4

-----------------------------------------------------------------------------
(* The order of what is written. *)

(* No call has left out the empty line: the turn of a last header does not *)
(* write the buffer out.  It may, and the empty line is lost then.         *)
NoBreakSkipped == at = "body" => ~written_yet

(* How much of the buffer is written. *)
Base == IF at = "write" THEN done_n ELSE 0

(* The octet after those of the wire and the buffer. *)
Awaited == IF at \in {"headers", "write"} THEN EndOf(Given, m_buffer, Base, Due) ELSE Due

(* The octet sendMessage() lays out next. *)
ToCome(place) ==
  IF place = "headers" THEN Octet(Number, header, 1)
  ELSE IF place = "body" /\ reply.blob > 0 THEN Octet(Number, Breaks(reply) + 1, 1)
  ELSE Octet(Number + 1, 0, 1)

OrderInv ==
  /\ InOrder
  /\ at \in {"headers", "write"} =>
       /\ Base <= Len(m_buffer)
       /\ \A i \in 1..Len(m_buffer) : m_buffer[i].of = Number
       /\ Continues(Given, m_buffer, Base, Due)
  /\ at = "idle" /\ ~failed => Due = Octet(Number, 0, 1)
  /\ at # "idle" => Awaited = ToCome(IF at = "write" THEN returns_to ELSE at)

LEMMA OrderIs ==
  /\ TypeInv =>
       /\ InOrder <=> /\ Continues(Given, wire, 0, First)
                      /\ \A i \in 1..Len(wire) : wire[i].of \in DOMAIN Given
       /\ Due = EndOf(Given, wire, 0, First)
  /\ TypeInv' =>
       /\ InOrder' <=> /\ Continues(Given', wire', 0, First)
                       /\ \A i \in 1..Len(wire') : wire'[i].of \in DOMAIN Given'
       /\ Due' = EndOf(Given', wire', 0, First)
<1>1. TypeInv => wire \in Seq(Octets)
  BY DEF TypeInv
<1>2. TypeInv' => wire' \in Seq(Octets)
  BY DEF TypeInv
<1>3. First' = First
  BY DEF First, Octet
<1> QED
  BY <1>1, <1>2, <1>3, Along DEF InOrder, Due

LEMMA GivenIs ==
  ASSUME CauseInv
  PROVE  /\ sent \in Seq(Replies) /\ Len(sent) \in Nat /\ Number = Len(sent) + 1 /\ Number \in Nat
         /\ at # "idle" =>
              /\ Given = Append(sent, reply)
              /\ DOMAIN Given = 1..Number /\ Given[Number] = reply
<1>1. sent \in Seq(Replies) /\ Len(sent) \in Nat
  BY DEF CauseInv, TypeInv, TypeOK
<1>2. Append(sent, reply)[Len(sent) + 1] = reply /\ DOMAIN Append(sent, reply) = 1..Len(sent) + 1
  BY <1>1
<1> QED
  BY <1>1, <1>2 DEF Given, Number

(* A call begins. *)
LEMMA SendMessageOrder ==
  ASSUME CauseInv, OrderInv, TypeInv', NEW r \in Replies, SendMessage(r) \/ RefuseTop(r)
  PROVE  OrderInv'
<1>1. /\ at = "idle" /\ ~failed /\ UNCHANGED <<sent, wire>> /\ reply' = r /\ header' = 1
      /\ \/ at' = "headers" /\ ~failed' /\ m_buffer' = Top(r)
         \/ at' = "idle" /\ failed'
  BY DEF SendMessage, RefuseTop, Step, socketVars, callerVars
<1>2. Given = sent /\ Given' = Append(sent, r) /\ TypeInv /\ IsReply(r)
  BY <1>1, RepliesAre DEF Given, CauseInv
<1>3. /\ sent \in Seq(Replies) /\ Len(sent) \in Nat /\ Number = Len(sent) + 1 /\ Number' = Number
      /\ Number \in Nat
  BY <1>1, GivenIs DEF Number
<1>4. /\ DOMAIN Given' = 1..Number /\ DOMAIN Given = 1..Len(sent) /\ Given'[Number] = r
      /\ \A i \in 1..Len(sent) : Given'[i] = Given[i]
  BY <1>2, <1>3
<1>5. /\ Continues(Given, wire, 0, First)
      /\ \A i \in 1..Len(wire) : wire[i].of \in DOMAIN Given
      /\ Due = EndOf(Given, wire, 0, First) /\ Due = Octet(Number, 0, 1)
  BY <1>1, <1>2, OrderIs DEF OrderInv
<1>6. \A i \in 1..Len(wire) : Given[wire[i].of] = Given'[wire[i].of]
  BY <1>4, <1>5
<1>7. Continues(Given', wire, 0, First) /\ EndOf(Given', wire, 0, First) = Due
  <2>1. wire \in Seq(Octets)
    BY <1>2 DEF TypeInv
  <2>2. /\ Continues(Given', wire, 0, First)
        /\ EndOf(Given', wire, 0, First) = EndOf(Given, wire, 0, First)
    <3>1. \A ss : (\A i \in 1..Len(wire) : Given[wire[i].of] = ss[wire[i].of]) =>
            Continues(ss, wire, 0, First) /\ EndOf(ss, wire, 0, First) = EndOf(Given, wire, 0, First)
      BY <1>5, <2>1, Regiven, SMTT(30)
    <3> QED
      BY <1>6, <3>1
  <2> QED
    BY <1>5, <2>2
<1>8. InOrder' /\ Due' = Due
  <2>1. wire' = wire
    BY <1>1
  <2>2. \A i \in 1..Len(wire) : wire[i].of \in DOMAIN Given'
    BY <1>3, <1>4, <1>5
  <2>3. /\ Continues(Given', wire', 0, First)
        /\ \A i \in 1..Len(wire') : wire'[i].of \in DOMAIN Given'
        /\ EndOf(Given', wire', 0, First) = Due
    BY <1>7, <2>1, <2>2
  <2> QED
    BY <2>3, OrderIs
<1>9. CASE at' = "headers" /\ ~failed' /\ m_buffer' = Top(r)
  <2>1. /\ Size(r, 0) > 0 /\ 0 < Breaks(r) /\ Size(r, 0) \in Nat /\ 0 \in Nat
    <3>1. Breaks(r) \in Nat /\ 0 < Breaks(r) /\ 0 \in Nat
      BY <1>2, BreaksIs
    <3> QED
      BY <1>2, <3>1, SizeIsNat
  <2>2. /\ Continues(Given', Top(r), 0, Octet(Number, 0, 1))
        /\ EndOf(Given', Top(r), 0, Octet(Number, 0, 1)) = Octet(Number, 1, 1)
    <3>1. /\ Continues(Given', Piece(r, 0), 0, Octet(Number, 0, 1))
          /\ EndOf(Given', Piece(r, 0), 0, Octet(Number, 0, 1)) =
               IF 0 < Breaks(r) \/ (0 = Breaks(r) /\ r.blob > 0) THEN Octet(Number, 0 + 1, 1)
               ELSE Octet(Number + 1, 0, 1)
      BY <1>2, <1>4, <2>1, PieceContinues
    <3> QED
      BY <2>1, <3>1 DEF Top
  <2>3. /\ Len(Top(r)) \in Nat
        /\ \A i \in 1..Len(Top(r)) : Top(r)[i].of = Number
    <3>1. /\ Len(Piece(r, 0)) = Size(r, 0)
          /\ \A i \in 1..Size(r, 0) : Piece(r, 0)[i] = Octet(Number, 0, i)
      BY <1>2, <2>1, PieceIs
    <3> QED
      BY <2>1, <3>1, OctetIs DEF Top
  <2>4. Base' = 0 /\ Due' = Octet(Number, 0, 1)
    BY <1>5, <1>8, <1>9 DEF Base
  <2>5. /\ Continues(Given', m_buffer', Base', Due')
        /\ EndOf(Given', m_buffer', Base', Due') = Octet(Number, 1, 1)
    BY <1>9, <2>2, <2>4
  <2>6. Awaited' = Octet(Number, 1, 1) /\ ToCome("headers")' = Octet(Number, 1, 1)
    BY <1>1, <1>3, <1>9, <2>5 DEF Awaited, ToCome, Octet
  <2> QED
    BY <1>3, <1>8, <1>9, <2>3, <2>4, <2>5, <2>6 DEF OrderInv, ToCome
<1>10. CASE at' = "idle" /\ failed'
  BY <1>8, <1>10 DEF OrderInv
<1> QED
  BY <1>1, <1>9, <1>10

(* A call goes on: the replies and the wire are what they were. *)
LEMMA GoesOn ==
  ASSUME CauseInv, OrderInv, TypeInv', UNCHANGED <<sent, reply, wire>>,
         at # "idle", at' # "idle" \/ failed'
  PROVE  /\ TypeInv /\ Given' = Given /\ Number' = Number /\ InOrder' /\ Due' = Due
         /\ DOMAIN Given = 1..Number /\ Given[Number] = reply /\ Number \in Nat
         /\ IsReply(reply) /\ ~failed
<1>1. Given' = Given /\ Given = Append(sent, reply)
  BY GivenIs DEF Given
<1>2. InOrder' /\ Due' = Due /\ Number' = Number
  BY <1>1 DEF OrderInv, InOrder, Due, Number, First, Octet
<1> QED
  BY <1>1, <1>2, GivenIs DEF CauseInv, TypeInv, CallInv

(* A piece is laid out in the buffer. *)
LEMMA LaysOut ==
  ASSUME CauseInv, OrderInv, at = "headers", NEW p \in Nat, p <= Breaks(reply),
         Awaited = Octet(Number, p, 1)
  PROVE  LET m == m_buffer \o Piece(reply, p) IN
         /\ Len(m) \in Nat
         /\ Continues(Given, m, 0, Due)
         /\ \A i \in 1..Len(m) : m[i].of = Number
         /\ EndOf(Given, m, 0, Due) =
              IF p < Breaks(reply) \/ reply.blob > 0 THEN Octet(Number, p + 1, 1)
              ELSE Octet(Number + 1, 0, 1)
<1>1. /\ TypeInv /\ IsReply(reply) /\ Given[Number] = reply /\ m_buffer \in Seq(Octets)
      /\ Breaks(reply) \in Nat
  BY GivenIs, BreaksIs DEF CauseInv, TypeInv
<1>2. Size(reply, p) > 0 /\ Size(reply, p) \in Nat
  <2>1. CASE p < Breaks(reply)
    BY <1>1, <2>1, SizeIsNat
  <2>2. CASE p = Breaks(reply)
    BY <1>1, <2>2, BreaksIs
  <2> QED
    BY <1>1, <2>1, <2>2
<1>3. /\ Piece(reply, p) \in Seq(Octets) /\ Len(Piece(reply, p)) = Size(reply, p)
      /\ \A i \in 1..Size(reply, p) : Piece(reply, p)[i].of = Number
  <2>1. /\ Piece(reply, p) \in Seq(Octets) /\ Len(Piece(reply, p)) = Size(reply, p)
        /\ \A i \in 1..Size(reply, p) : Piece(reply, p)[i] = Octet(Number, p, i)
    BY <1>1, PieceIs
  <2> QED
    BY <2>1, OctetIs
<1>4. Base = 0 /\ Awaited = EndOf(Given, m_buffer, 0, Due)
  BY DEF Base, Awaited
<1>5. /\ Continues(Given, m_buffer, 0, Due)
      /\ \A i \in 1..Len(m_buffer) : m_buffer[i].of = Number
  BY <1>4 DEF OrderInv
<1>6. /\ Continues(Given, Piece(reply, p), 0, Octet(Number, p, 1))
      /\ EndOf(Given, Piece(reply, p), 0, Octet(Number, p, 1)) =
           IF p < Breaks(reply) \/ (p = Breaks(reply) /\ reply.blob > 0)
           THEN Octet(Number, p + 1, 1) ELSE Octet(Number + 1, 0, 1)
  BY <1>1, <1>2, PieceContinues
<1> DEFINE c == Piece(reply, p)
<1>7. /\ c \in Seq(Octets) /\ Continues(Given, c, 0, EndOf(Given, m_buffer, 0, Due))
  BY <1>3, <1>4, <1>6
<1> HIDE DEF c
<1>8. /\ Continues(Given, m_buffer \o c, 0, Due)
      /\ EndOf(Given, m_buffer \o c, 0, Due) = EndOf(Given, c, 0, EndOf(Given, m_buffer, 0, Due))
  BY <1>1, <1>5, <1>7, Joined
<1>9. Len(m_buffer \o c) \in Nat /\ \A i \in 1..Len(m_buffer \o c) : (m_buffer \o c)[i].of = Number
  <2>1. /\ Len(m_buffer) \in Nat /\ Len(c) \in Nat
        /\ Len(m_buffer \o c) = Len(m_buffer) + Len(c)
        /\ \A i \in 1 .. Len(m_buffer) + Len(c) : (m_buffer \o c)[i] =
              IF i <= Len(m_buffer) THEN m_buffer[i] ELSE c[i - Len(m_buffer)]
    BY <1>1, <1>7, ConcatProperties
  <2>2. \A i \in 1..Len(c) : c[i].of = Number
    BY <1>3 DEF c
  <2> QED
    BY <1>5, <2>1, <2>2
<1> QED
  BY <1>1, <1>4, <1>6, <1>8, <1>9 DEF c

(* A header is laid out, and the buffer written out if it is full enough.  *)
LEMMA HeaderOrder ==
  ASSUME CauseInv, OrderInv, TypeInv', SerializeHeader
  PROVE  OrderInv'
<1> DEFINE m == m_buffer \o Piece(reply, header)
<1>1. /\ at = "headers" /\ at' \in {"headers", "write"} /\ header <= Len(reply.headers)
      /\ UNCHANGED <<sent, reply, wire>> /\ m_buffer' = m /\ header' = header + 1
      /\ at' = "write" => done_n' = 0 /\ returns_to' = "headers"
  BY DEF SerializeHeader, Step, socketVars, callerVars, Header
<1>2. /\ TypeInv /\ Given' = Given /\ Number' = Number /\ InOrder' /\ Due' = Due
      /\ IsReply(reply) /\ Number \in Nat
  <2>1. UNCHANGED <<sent, reply, wire>> /\ at # "idle" /\ at' # "idle"
    BY <1>1
  <2> QED
    BY <2>1, GoesOn
<1>3. header \in Nat /\ header < Breaks(reply) /\ Breaks(reply) \in Nat
  <2>1. Breaks(reply) \in Nat /\ Breaks(reply) = Len(reply.headers) + 1 /\ Len(reply.headers) \in Nat
    BY <1>2, BreaksIs
  <2>2. header \in 1..Len(reply.headers) + 1
    BY <1>2 DEF TypeInv, TypeOK
  <2> QED
    BY <1>1, <2>1, <2>2
<1>4. Awaited = Octet(Number, header, 1)
  BY <1>1 DEF OrderInv, ToCome
<1>5. /\ Len(m) \in Nat
      /\ Continues(Given, m, 0, Due)
      /\ \A i \in 1..Len(m) : m[i].of = Number
      /\ EndOf(Given, m, 0, Due) = Octet(Number, header + 1, 1)
  BY <1>1, <1>3, <1>4, LaysOut
<1> HIDE DEF m
<1>6. Base' = 0
  BY <1>1 DEF Base
<1>7. Awaited' = Octet(Number, header + 1, 1)
  BY <1>1, <1>2, <1>5, <1>6 DEF Awaited
<1>8. ToCome("headers")' = Octet(Number, header + 1, 1)
  BY <1>1, <1>2 DEF ToCome, Octet
<1> QED
  BY <1>1, <1>2, <1>5, <1>6, <1>7, <1>8 DEF OrderInv, ToCome

(* The empty line is laid out. *)
LEMMA BreakOrder ==
  ASSUME CauseInv, OrderInv, TypeInv', NoBreakSkipped', SerializeEmptyBreak
  PROVE  OrderInv'
<1> DEFINE p == Breaks(reply)
<1> DEFINE m == m_buffer \o Piece(reply, p)
<1>1. /\ at = "headers" /\ at' = "write" /\ header > Len(reply.headers)
      /\ UNCHANGED <<sent, reply, wire, header>> /\ m_buffer' = m
      /\ done_n' = 0 /\ returns_to' = "body"
  BY DEF SerializeEmptyBreak, Step, socketVars, callerVars, EmptyBreak, NoBreakSkipped
<1>2. /\ TypeInv /\ Given' = Given /\ Number' = Number /\ InOrder' /\ Due' = Due
      /\ IsReply(reply) /\ Number \in Nat
  BY <1>1, GoesOn
<1>3. header = p /\ p \in Nat
  BY <1>1, <1>2, BreaksIs DEF TypeInv, TypeOK
<1>4. Awaited = Octet(Number, p, 1)
  BY <1>1, <1>3 DEF OrderInv, ToCome
<1>5. /\ Len(m) \in Nat
      /\ Continues(Given, m, 0, Due)
      /\ \A i \in 1..Len(m) : m[i].of = Number
      /\ EndOf(Given, m, 0, Due) =
           IF reply.blob > 0 THEN Octet(Number, p + 1, 1) ELSE Octet(Number + 1, 0, 1)
  BY <1>1, <1>3, <1>4, LaysOut
<1>6. Base' = 0
  BY <1>1 DEF Base
<1>7. Awaited' = EndOf(Given, m, 0, Due)
  BY <1>1, <1>2, <1>6 DEF Awaited
<1>8. ToCome("body")' =
        IF reply.blob > 0 THEN Octet(Number, p + 1, 1) ELSE Octet(Number + 1, 0, 1)
  BY <1>1, <1>2 DEF ToCome, Octet, Breaks
<1> QED
  BY <1>1, <1>2, <1>5, <1>6, <1>7, <1>8 DEF OrderInv, ToCome

(* The body is laid out. *)
LEMMA BlobOrder ==
  ASSUME CauseInv, OrderInv, TypeInv', SerializeBlob
  PROVE  OrderInv'
<1> DEFINE p == Breaks(reply) + 1
<1> DEFINE m == Piece(reply, p)
<1>1. /\ at = "body" /\ at' = "write"
      /\ UNCHANGED <<sent, reply, wire, header>> /\ m_buffer' = m
      /\ done_n' = 0 /\ returns_to' = "done"
  BY DEF SerializeBlob, Step, socketVars, callerVars, Blob
<1>2. /\ TypeInv /\ Given' = Given /\ Number' = Number /\ InOrder' /\ Due' = Due
      /\ IsReply(reply) /\ Number \in Nat /\ Given[Number] = reply
  BY <1>1, GoesOn
<1>3. /\ p \in Nat /\ Breaks(reply) \in Nat /\ Size(reply, p) = reply.blob /\ reply.blob \in Nat
  BY <1>2, BreaksIs DEF IsReply
<1>4. Due = IF reply.blob > 0 THEN Octet(Number, p, 1) ELSE Octet(Number + 1, 0, 1)
  BY <1>1 DEF OrderInv, ToCome, Awaited
<1>5. Len(m) = reply.blob /\ \A i \in 1..Len(m) : m[i].of = Number
  <2>1. Len(m) = Size(reply, p) /\ \A i \in 1..Size(reply, p) : m[i] = Octet(Number, p, i)
    BY <1>2, <1>3, PieceIs
  <2> QED
    BY <1>3, <2>1, OctetIs
<1>6. /\ Continues(Given, m, 0, Due)
      /\ EndOf(Given, m, 0, Due) = Octet(Number + 1, 0, 1)
  <2>1. CASE reply.blob > 0
    <3>1. /\ Continues(Given, m, 0, Octet(Number, p, 1))
          /\ EndOf(Given, m, 0, Octet(Number, p, 1)) =
               IF p < Breaks(reply) \/ (p = Breaks(reply) /\ reply.blob > 0)
               THEN Octet(Number, p + 1, 1) ELSE Octet(Number + 1, 0, 1)
      BY <1>2, <1>3, <2>1, PieceContinues
    <3>2. ~(p < Breaks(reply)) /\ p # Breaks(reply)
      BY <1>3
    <3> QED
      BY <1>4, <2>1, <3>1, <3>2
  <2>2. CASE reply.blob = 0
    BY <1>4, <1>5, <2>2 DEF Continues, EndOf
  <2> QED
    BY <1>3, <2>1, <2>2
<1> HIDE DEF m
<1>7. Base' = 0 /\ 0 <= Len(m)
  BY <1>1, <1>3, <1>5 DEF Base
<1>8. Awaited' = Octet(Number + 1, 0, 1)
  BY <1>1, <1>2, <1>6, <1>7 DEF Awaited
<1>9. ToCome("done")' = Octet(Number + 1, 0, 1)
  BY <1>2 DEF ToCome, Octet
<1> QED
  BY <1>1, <1>2, <1>5, <1>6, <1>7, <1>8, <1>9 DEF OrderInv, ToCome

(* send() takes some of the buffer. *)
LEMMA SendOrder ==
  ASSUME CauseInv, OrderInv, TypeInv', NEW n \in 1..buffer_size, Send(n)
  PROVE  OrderInv'
<1> DEFINE part == SubSeq(m_buffer, done_n + 1, done_n + n)
<1> DEFINE next == EndOf(Given, part, 0, Due)
<1>1. /\ at = "write" /\ at' = "write" /\ n \in 1..Pending
      /\ UNCHANGED <<sent, reply, header, m_buffer, returns_to, failed>>
      /\ wire' = wire \o part /\ done_n' = done_n + n
  BY DEF Send, Step, callerVars
<1>2. /\ TypeInv /\ m_buffer \in Seq(Octets) /\ wire \in Seq(Octets)
      /\ Len(m_buffer) \in Nat /\ Len(wire) \in Nat /\ done_n \in Nat
      /\ n \in Nat /\ n > 0 /\ done_n + n <= Len(m_buffer)
  <2>1. /\ TypeInv /\ m_buffer \in Seq(Octets) /\ wire \in Seq(Octets)
        /\ done_n \in 0..buffer_size
    BY DEF CauseInv, TypeInv, TypeOK
  <2>2. Len(m_buffer) \in Nat /\ Len(wire) \in Nat /\ done_n \in Nat /\ n \in Nat /\ n > 0
    BY <2>1, Sizes
  <2> QED
    BY <1>1, <2>1, <2>2 DEF Pending
<1>3. /\ Given' = Given /\ Number' = Number /\ DOMAIN Given = 1..Number
      /\ Number \in Nat /\ Number >= 1
  BY <1>1, GivenIs DEF Given, Number
<1>4. /\ \A i \in 1..Len(m_buffer) : m_buffer[i].of = Number
      /\ Continues(Given, m_buffer, done_n, Due)
      /\ EndOf(Given, m_buffer, done_n, Due) = ToCome(returns_to)
  BY <1>1 DEF OrderInv, Base, Awaited
<1>5. /\ Continues(Given, wire, 0, First)
      /\ \A i \in 1..Len(wire) : wire[i].of \in DOMAIN Given
      /\ Due = EndOf(Given, wire, 0, First)
  BY <1>2, OrderIs DEF OrderInv
<1>6. /\ part \in Seq(Octets) /\ Len(part) = n
      /\ \A i \in 1..n : part[i] = m_buffer[done_n + i]
      /\ Continues(Given, part, 0, Due)
      /\ Continues(Given, m_buffer, done_n + n, next)
      /\ EndOf(Given, m_buffer, done_n + n, next) = EndOf(Given, m_buffer, done_n, Due)
  <2>1. /\ m_buffer \in Seq(Octets) /\ done_n \in Nat /\ n \in Nat
        /\ n > 0 /\ done_n + n <= Len(m_buffer) /\ Continues(Given, m_buffer, done_n, Due)
    BY <1>2, <1>4
  <2> HIDE DEF Due, Given, part, next, Continues, EndOf
  <2> QED
    BY <2>1, Taken, ZenonT(60) DEF part, next
<1> HIDE DEF part
<1>7. /\ Continues(Given, wire \o part, 0, First)
      /\ EndOf(Given, wire \o part, 0, First) = next
  BY <1>2, <1>5, <1>6, Joined
<1>8. \A i \in 1..Len(wire \o part) : (wire \o part)[i].of \in DOMAIN Given
  <2>1. /\ Len(wire \o part) = Len(wire) + n
        /\ \A i \in 1 .. Len(wire) + n : (wire \o part)[i] =
              IF i <= Len(wire) THEN wire[i] ELSE part[i - Len(wire)]
    <3>1. part \in Seq(Octets) /\ Len(part) = n /\ wire \in Seq(Octets)
      BY <1>2, <1>6
    <3>2. /\ Len(wire \o part) = Len(wire) + Len(part)
          /\ \A i \in 1 .. Len(wire) + Len(part) : (wire \o part)[i] =
                IF i <= Len(wire) THEN wire[i] ELSE part[i - Len(wire)]
      BY <3>1, ConcatProperties
    <3> QED
      BY <3>1, <3>2
  <2>2. ASSUME NEW i \in 1..n
        PROVE  part[i].of \in DOMAIN Given
    <3>1. done_n + i \in 1..Len(m_buffer) /\ Number \in 1..Number
      BY <1>2, <1>3
    <3> QED
      BY <1>3, <1>4, <1>6, <3>1
  <2> QED
    BY <1>2, <1>5, <2>1, <2>2
<1> HIDE DEF next
<1>9. InOrder' /\ Due' = next
  BY <1>1, <1>3, <1>7, <1>8, OrderIs
<1>10. Base' = done_n + n
  BY <1>1 DEF Base
<1>11. Awaited' = ToCome(returns_to) /\ ToCome(returns_to)' = ToCome(returns_to)
  BY <1>1, <1>3, <1>4, <1>6, <1>9, <1>10 DEF Awaited, ToCome
<1> QED
  BY <1>1, <1>2, <1>3, <1>4, <1>6, <1>9, <1>10, <1>11 DEF OrderInv

(* writeBlob() returns. *)
LEMMA WrittenOrder ==
  ASSUME CauseInv, OrderInv, TypeInv', WriteReturns
  PROVE  OrderInv'
<1>1. /\ at = "write" /\ at' = returns_to /\ Pending = 0
      /\ UNCHANGED <<sent, reply, header, returns_to, wire, failed>>
      /\ returns_to = "headers" => m_buffer' = <<>>
  BY DEF WriteReturns, Step, socketVars, callerVars
<1>2. returns_to \in {"headers", "body", "done"} /\ Len(m_buffer) \in Nat /\ done_n \in Nat
  BY Sizes DEF CauseInv, TypeInv, TypeOK
<1>3. /\ TypeInv /\ Given' = Given /\ Number' = Number /\ InOrder' /\ Due' = Due
  BY <1>1, <1>2, GoesOn
<1>4. Due = ToCome(returns_to)
  <2>1. Base = Len(m_buffer)
    BY <1>1, <1>2 DEF OrderInv, Base, Pending
  <2> QED
    BY <1>1, <2>1 DEF OrderInv, Awaited, EndOf
<1>5. ToCome(returns_to)' = ToCome(returns_to)
  BY <1>1, <1>3 DEF ToCome
<1>6. CASE returns_to = "headers"
  <2>1. Len(m_buffer') = 0 /\ Base' = 0
    BY <1>1, <1>6 DEF Base
  <2>2. Continues(Given', m_buffer', 0, Due') /\ EndOf(Given', m_buffer', 0, Due') = Due'
    BY <2>1 DEF Continues, EndOf
  <2>3. Awaited' = Due
    BY <1>1, <1>3, <1>6, <2>1, <2>2 DEF Awaited
  <2> QED
    BY <1>1, <1>3, <1>4, <1>5, <1>6, <2>1, <2>2, <2>3 DEF OrderInv
<1>7. CASE returns_to # "headers"
  <2>1. Awaited' = Due
    BY <1>1, <1>2, <1>3, <1>7 DEF Awaited
  <2> QED
    BY <1>1, <1>2, <1>3, <1>4, <1>5, <1>7, <2>1 DEF OrderInv
<1> QED
  BY <1>6, <1>7

(* A call returns true. *)
LEMMA ReturnOrder ==
  ASSUME CauseInv, OrderInv, TypeInv', Return
  PROVE  OrderInv'
<1>1. /\ at = "done" /\ at' = "idle" /\ sent' = Append(sent, reply)
      /\ UNCHANGED <<reply, wire, failed>>
  BY DEF Return, Step, socketVars
<1>2. ~failed
  BY <1>1 DEF CauseInv, CallInv
<1>3. Given' = Given
  BY <1>1, <1>2 DEF Given
<1>4. InOrder' /\ Due' = Due
  BY <1>1, <1>3 DEF OrderInv, InOrder, Due, First, Octet
<1>5. Due = Octet(Number + 1, 0, 1)
  BY <1>1 DEF OrderInv, Awaited, ToCome
<1>6. Number' = Number + 1
  <2>1. sent \in Seq(Replies) /\ Number = Len(sent) + 1
    BY GivenIs
  <2>2. Len(sent') = Len(sent) + 1
    BY <1>1, <2>1
  <2> QED
    BY <2>1, <2>2 DEF Number
<1> QED
  BY <1>1, <1>4, <1>5, <1>6 DEF OrderInv, Octet

LEMMA NextOrder ==
  ASSUME CauseInv, OrderInv, TypeInv', NoBreakSkipped', [Next]_vars
  PROVE  OrderInv'
<1>1. CASE UNCHANGED vars \/ HangUp \/ SendKills
  <2>1. UNCHANGED <<at, reply, header, m_buffer, done_n, returns_to, wire, sent, failed>>
    BY <1>1 DEF vars, HangUp, SendKills, callerVars
  <2>2. Given' = Given /\ Number' = Number
    BY <2>1 DEF Given, Number
  <2>3. InOrder' /\ Due' = Due
    BY <2>1, <2>2 DEF OrderInv, InOrder, Due, First, Octet
  <2>4. Base' = Base
    BY <2>1 DEF Base
  <2>5. Awaited' = Awaited
    BY <2>1, <2>2, <2>3, <2>4 DEF Awaited
  <2>6. \A place : ToCome(place)' = ToCome(place)
    BY <2>1, <2>2 DEF ToCome
  <2> QED
    <3>1. (IF at = "write" THEN returns_to ELSE at)' = IF at = "write" THEN returns_to ELSE at
      BY <2>1
    <3>2. ToCome(IF at = "write" THEN returns_to ELSE at)' = ToCome(IF at = "write" THEN returns_to ELSE at)
      BY <2>1, <2>2, <3>1 DEF ToCome
    <3>3. Octet(Number, 0, 1)' = Octet(Number, 0, 1)
      BY <2>2 DEF Octet
    <3> QED
      BY <2>1, <2>2, <2>3, <2>4, <2>5, <3>2, <3>3 DEF OrderInv
<1>2. CASE Refuse \/ SendFails
  <2>1. at # "idle" /\ at' = "idle" /\ failed' /\ UNCHANGED <<sent, reply, wire>>
    BY <1>2 DEF Refuse, SendFails, Step, socketVars
  <2>2. InOrder'
    BY <2>1, GoesOn
  <2> QED
    BY <2>1, <2>2 DEF OrderInv
<1> QED
  BY <1>1, <1>2, SendMessageOrder, HeaderOrder, BreakOrder, BlobOrder, SendOrder, WrittenOrder,
     ReturnOrder DEF Next

LEMMA InitOrder == Init => OrderInv
<1> SUFFICES ASSUME Init PROVE OrderInv
  OBVIOUS
<1>1. wire = <<>> /\ sent = <<>> /\ at = "idle" /\ DOMAIN wire = {} /\ Len(sent) = 0
  BY DEF Init
<1>2. InOrder
  BY <1>1 DEF InOrder
<1> QED
  BY <1>1, <1>2 DEF OrderInv, Due, Number, First

LEMMA OrderInvInductive == Spec /\ []NoBreakSkipped => [](CauseInv /\ OrderInv)
<1>1. CauseInv /\ OrderInv /\ NoBreakSkipped' /\ [Next]_vars => CauseInv' /\ OrderInv'
  <2>1. CauseInv /\ [Next]_vars => CauseInv'
    BY NextCause
  <2>2. CauseInv' => TypeInv'
    BY DEF CauseInv
  <2> QED
    BY <2>1, <2>2, NextOrder
<1> QED
  BY <1>1, InitCause, InitOrder, PTL DEF Spec

-----------------------------------------------------------------------------
(* Replies whose empty line is written. *)

(* No reply has its buffer written out by the turn of its last header.     *)
LastHeadersStay ==
  \A r \in Replies : \E fill \in [0..Len(r.headers) -> Nat] :
    Filled(r, fill) /\ LastHeaderStays(r, fill)

FillOf(r) ==
  CHOOSE fill \in [0..Len(r.headers) -> Nat] : Filled(r, fill) /\ LastHeaderStays(r, fill)

(* The buffer holds what is laid out since the last write, and written_yet *)
(* says that this is nothing.                                              *)
FillInv ==
  LET fill == FillOf(reply) IN
  at # "idle" =>
    /\ \A h \in 1..header - 1 : fill[h - 1] + reply.headers[h] <= buffer_size
    /\ at = "headers" =>
         Len(m_buffer) = fill[header - 1] /\ (written_yet => fill[header - 1] = 0)
    /\ at = "write" /\ returns_to = "headers" => fill[header - 1] = 0
    /\ at = "write" /\ returns_to = "body" => ~written_yet
    /\ at = "body" => ~written_yet

LEMMA FillOfReply ==
  ASSUME LastHeadersStay, NEW r \in Replies
  PROVE  /\ FillOf(r) \in [0..Len(r.headers) -> Nat]
         /\ Filled(r, FillOf(r)) /\ LastHeaderStays(r, FillOf(r))
BY DEF LastHeadersStay, FillOf

LEMMA HeaderFills ==
  ASSUME LastHeadersStay, CauseInv, FillInv, SerializeHeader
  PROVE  FillInv'
<1> DEFINE fill == FillOf(reply)
           h == header
           n == fill[h - 1] + reply.headers[h]
<1>1. /\ at = "headers" /\ reply' = reply /\ h <= Len(reply.headers) /\ header' = h + 1
      /\ Fits(Header(reply, h)) /\ m_buffer' = m_buffer \o Header(reply, h)
      /\ \/ /\ Len(m_buffer') < buffer_sendable_n /\ at' = "headers" /\ written_yet' = FALSE
         \/ /\ Len(m_buffer') >= buffer_sendable_n /\ at' = "write" /\ returns_to' = "headers"
  BY DEF SerializeHeader, Step
<1>2. /\ TypeInv /\ reply \in Replies /\ IsReply(reply) /\ Len(reply.headers) \in Nat
      /\ h \in 1..Len(reply.headers) /\ h - 1 \in 0..Len(reply.headers)
  <2>1. TypeInv /\ reply \in Replies /\ IsReply(reply) /\ h \in 1..Len(reply.headers) + 1
    BY <1>1 DEF CauseInv, TypeInv, TypeOK
  <2>2. Len(reply.headers) \in Nat
    BY <2>1, BreaksIs
  <2> QED
    BY <1>1, <2>1, <2>2
<1>3. /\ Len(m_buffer) = fill[h - 1]
      /\ \A i \in 1..h - 1 : fill[i - 1] + reply.headers[i] <= buffer_size
  BY <1>1 DEF FillInv
<1>4. Size(reply, h) = reply.headers[h] /\ reply.headers[h] \in Nat
  BY <1>2 DEF Size, Breaks, IsReply
<1>5. Len(Header(reply, h)) = reply.headers[h] /\ Len(m_buffer') = n
  <2>1. h \in Nat
    BY <1>2
  <2>2. Len(Piece(reply, h)) = Size(reply, h) /\ Len(m_buffer \o Piece(reply, h)) = Len(m_buffer) + Size(reply, h)
    BY <2>1, <1>2, PieceIs, Grows
  <2> QED
    BY <1>1, <1>3, <1>4, <2>2 DEF Header
<1>6. n <= buffer_size
  BY <1>1, <1>3, <1>5 DEF Fits
<1>7. fill[h] = IF n < buffer_sendable_n THEN n ELSE 0
  BY <1>2, FillOfReply DEF Filled
<1>8. \A i \in 1..h + 1 - 1 : fill[i - 1] + reply.headers[i] <= buffer_size
  <2>1. \A i \in 1..h + 1 - 1 : i \in 1..h - 1 \/ i = h
    BY <1>2
  <2> QED
    BY <2>1, <1>3, <1>6
<1>9. FillOf(reply)' = fill /\ header' - 1 = h /\ h + 1 - 1 = h
  BY <1>1, <1>2
<1>10. fill[h - 1] \in Nat /\ n \in Nat /\ buffer_sendable_n \in Nat
  BY <1>2, <1>4, FillOfReply, Sizes
<1>11. CASE n < buffer_sendable_n
  <2>1. at' = "headers" /\ written_yet' = FALSE
    <3> HIDE DEF n
    <3> QED
      BY <1>1, <1>5, <1>10, <1>11
  <2> QED
    BY <1>1, <1>5, <1>7, <1>8, <1>9, <1>11, <2>1 DEF FillInv
<1>12. CASE ~(n < buffer_sendable_n)
  <2>1. at' = "write" /\ returns_to' = "headers"
    <3> HIDE DEF n
    <3> QED
      BY <1>1, <1>5, <1>10, <1>12
  <2> QED
    BY <1>1, <1>7, <1>8, <1>9, <1>12, <2>1 DEF FillInv
<1> QED
  BY <1>11, <1>12

LEMMA BreakFills ==
  ASSUME LastHeadersStay, CauseInv, FillInv, SerializeEmptyBreak
  PROVE  FillInv'
<1> DEFINE fill == FillOf(reply)
<1>1. /\ at = "headers" /\ header > Len(reply.headers)
      /\ UNCHANGED <<reply, header, written_yet>>
      /\ \/ written_yet /\ at' = "body"
         \/ ~written_yet /\ at' = "write" /\ returns_to' = "body"
  BY DEF SerializeEmptyBreak, Step
<1>2. reply \in Replies /\ header - 1 = Len(reply.headers)
  <2>1. reply \in Replies /\ IsReply(reply) /\ header \in 1..Len(reply.headers) + 1
    BY <1>1 DEF CauseInv, TypeInv, TypeOK
  <2>2. Len(reply.headers) \in Nat
    BY <2>1, BreaksIs
  <2> QED
    BY <1>1, <2>1, <2>2
<1>3. /\ \A h \in 1..header - 1 : fill[h - 1] + reply.headers[h] <= buffer_size
      /\ written_yet => fill[header - 1] = 0
  BY <1>1 DEF FillInv
<1>4. LastHeaderStays(reply, fill) /\ fill \in [0..Len(reply.headers) -> Nat]
  BY <1>2, FillOfReply
<1>5. \A h \in 1..Len(reply.headers) : ~(fill[h - 1] + reply.headers[h] > buffer_size)
  <2> SUFFICES ASSUME NEW h \in 1..Len(reply.headers)
               PROVE  ~(fill[h - 1] + reply.headers[h] > buffer_size)
    OBVIOUS
  <2>1. fill[h - 1] + reply.headers[h] <= buffer_size
    BY <1>2, <1>3
  <2>2. fill[h - 1] \in Nat /\ reply.headers[h] \in Nat /\ buffer_size \in Nat
    <3>1. Len(reply.headers) \in Nat /\ reply.headers \in Seq(Nat \ {0})
      BY <1>2, BreaksIs, RepliesAre DEF IsReply
    <3> HIDE DEF fill
    <3> QED
      BY <1>4, <3>1, Sizes
  <2> QED
    BY <2>1, <2>2
<1>6. ~written_yet
  BY <1>2, <1>3, <1>4, <1>5 DEF LastHeaderStays
<1> QED
  BY <1>1, <1>3, <1>6 DEF FillInv

LEMMA FillInvInductive ==
  ASSUME LastHeadersStay
  PROVE  Spec => [](CauseInv /\ FillInv)
<1>1. Init => FillInv
  BY DEF Init, FillInv
<1>2. ASSUME CauseInv, FillInv, [Next]_vars
      PROVE  FillInv'
  <2>1. CASE SerializeHeader
    BY <1>2, <2>1, HeaderFills
  <2>2. CASE SerializeEmptyBreak
    BY <1>2, <2>2, BreakFills
  <2>3. CASE \E r \in Replies : SendMessage(r)
    <3>1. PICK r \in Replies : SendMessage(r)
      BY <2>3
    <3>2. /\ at' = "headers" /\ reply' = r /\ header' = 1 /\ written_yet' = FALSE
          /\ m_buffer' = Top(r)
      BY <3>1 DEF SendMessage, Step
    <3>3. Len(Top(r)) = r.top
      BY <1>2, RepliesAre, BreaksIs, PieceIs DEF CauseInv, Top
    <3>4. FillOf(r)[0] = r.top
      BY FillOfReply DEF Filled
    <3>5. header' - 1 = 0 /\ 1..header' - 1 = {}
      BY <3>2
    <3> QED
      BY <3>2, <3>3, <3>4, <3>5 DEF FillInv
  <2>4. CASE WriteReturns
    <3>1. /\ at = "write" /\ at' = returns_to /\ UNCHANGED <<reply, header, returns_to>>
          /\ written_yet' = IF returns_to = "headers" THEN TRUE ELSE written_yet
          /\ m_buffer' = IF returns_to = "done" THEN m_buffer ELSE <<>>
      BY <2>4 DEF WriteReturns, Step
    <3>2. returns_to \in {"headers", "body", "done"}
      BY <1>2 DEF CauseInv, TypeInv, TypeOK
    <3>3. Len(<<>>) = 0
      OBVIOUS
    <3> QED
      BY <1>2, <3>1, <3>2, <3>3 DEF FillInv
  <2>5. CASE \/ UNCHANGED vars \/ HangUp \/ SendKills \/ \E n \in 1..buffer_size : Send(n)
    BY <1>2, <2>5 DEF FillInv, vars, HangUp, SendKills, Send, Step, callerVars
  <2>6. CASE \/ Refuse \/ SendFails \/ Return \/ \E r \in Replies : RefuseTop(r)
    BY <2>6 DEF FillInv, Refuse, SendFails, Return, RefuseTop, Step
  <2>7. CASE SerializeBlob
    <3>1. /\ at' = "write" /\ returns_to' = "done" /\ at = "body" /\ UNCHANGED <<reply, header>>
      BY <2>7 DEF SerializeBlob, Step
    <3> QED
      BY <1>2, <3>1 DEF FillInv
  <2> QED
    BY <1>2, <2>1, <2>2, <2>3, <2>4, <2>5, <2>6, <2>7 DEF Next
<1>3. CauseInv /\ FillInv /\ [Next]_vars => CauseInv' /\ FillInv'
  BY <1>2, NextCause
<1> QED
  BY <1>1, <1>3, InitCause, PTL DEF Spec

LEMMA NoBreakIsSkipped ==
  ASSUME LastHeadersStay
  PROVE  Spec => []NoBreakSkipped
<1>1. FillInv => NoBreakSkipped
  BY DEF FillInv, NoBreakSkipped
<1> QED
  BY <1>1, FillInvInductive, PTL

-----------------------------------------------------------------------------
(* The promises. *)

(* Unless the turn of a last header writes the buffer out, and the empty   *)
(* line is lost: the client receives the replies in their order, each laid *)
(* out as HTTP has it, with no octet lost, repeated or out of its place,   *)
(* however the socket takes them and wherever a call fails.                *)
THEOREM InOrderCorrect ==
  ASSUME LastHeadersStay
  PROVE  Spec => []InOrder
<1>1. OrderInv => InOrder
  BY DEF OrderInv
<1> QED
  BY <1>1, NoBreakIsSkipped, OrderInvInductive, PTL

(* Under the same condition sendMessage() returns true only if the whole   *)
(* reply was written.                                                      *)
THEOREM SentWholeCorrect ==
  ASSUME LastHeadersStay
  PROVE  Spec => []SentWhole
<1>1. OrderInv => SentWhole
  BY DEF OrderInv, SentWhole
<1> QED
  BY <1>1, NoBreakIsSkipped, OrderInvInductive, PTL

-----------------------------------------------------------------------------
(* Short heads. *)

(* No head comes to buffer_sendable_n octets: the worker's are a top line  *)
(* and a few headers.                                                      *)
ShortHeads ==
  \A r \in Replies : \E fill \in [0..Len(r.headers) -> Nat] :
    /\ fill[0] = r.top
    /\ \A h \in 1..Len(r.headers) : fill[h] = fill[h - 1] + r.headers[h]
    /\ \A h \in 0..Len(r.headers) : fill[h] < buffer_sendable_n

(* Their last header then never writes the buffer out.                     *)
LEMMA ShortHeadsStay == ShortHeads => LastHeadersStay
<1> SUFFICES ASSUME ShortHeads, NEW r \in Replies
             PROVE  \E fill \in [0..Len(r.headers) -> Nat] :
                      Filled(r, fill) /\ LastHeaderStays(r, fill)
  BY DEF LastHeadersStay
<1>1. PICK n \in Nat : n = Len(r.headers)
  BY RepliesAssumption
<1>2. PICK fill \in [0..n -> Nat] :
        /\ fill[0] = r.top
        /\ \A h \in 1..n : fill[h] = fill[h - 1] + r.headers[h]
        /\ \A h \in 0..n : fill[h] < buffer_sendable_n
  BY <1>1 DEF ShortHeads
<1>3. r.top # 0
  BY RepliesAssumption
<1>4. \A h \in 1..n : h \in 0..n /\ h - 1 \in 0..n
  OBVIOUS
<1>5. Filled(r, fill)
  BY <1>1, <1>2, <1>4 DEF Filled
<1>6. LastHeaderStays(r, fill)
  <2>1. fill[n] # 0
    <3>1. CASE n = 0
      BY <1>2, <1>3, <3>1
    <3>2. CASE n # 0
      <4>1. n \in 1..n /\ n - 1 \in 0..n
        BY <3>2
      <4>2. PICK l \in Nat \ {0} : l = r.headers[n]
        <5>1. r.headers \in Seq(Nat \ {0})
          BY RepliesAssumption
        <5> QED
          BY <1>1, <4>1, <5>1
      <4>3. PICK k \in Nat : k = fill[n - 1]
        BY <1>2, <4>1
      <4>4. fill[n] = k + l
        BY <1>2, <4>1, <4>2, <4>3
      <4> QED
        BY <4>4
    <3> QED
      BY <3>1, <3>2
  <2> QED
    BY <1>1, <2>1 DEF LastHeaderStays
<1> QED
  BY <1>1, <1>5, <1>6

(* So replies with short heads, however many and of whatever body, reach   *)
(* the client in their order and whole.                                    *)
THEOREM ShortHeadsCorrect ==
  ASSUME ShortHeads
  PROVE  Spec => [](InOrder /\ SentWhole)
<1>1. LastHeadersStay
  BY ShortHeadsStay
<1>2. OrderInv => InOrder /\ SentWhole
  BY DEF OrderInv, SentWhole
<1> QED
  BY <1>1, <1>2, NoBreakIsSkipped, OrderInvInductive, PTL
===============================================================================
