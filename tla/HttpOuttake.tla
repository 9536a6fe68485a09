---------------------------- MODULE HttpOuttake ----------------------------
(***************************************************************************)
(* HttpOuttake::sendMessage and ClientSocket::writeBlob: replies laid out  *)
(* in a buffer of fixed size and written to a socket that takes any part   *)
(* of what it is offered, or fails.  An octet is known by the number of    *)
(* its reply, the piece of the reply it belongs to and its place there;    *)
(* sizes are all that is kept of the text.                                 *)
(***************************************************************************)
EXTENDS Naturals, Sequences, SequencesExt

CONSTANTS
  Replies,            \* the replies to send: the sizes of their pieces
  MaxReplies,         \* bound: how many are sent on the connection
  buffer_size,        \* the size of m_buffer, in octets
  buffer_sendable_n   \* from this length on, m_buffer is written out early

ASSUME RepliesAssumption ==
  \A r \in Replies : r.top \in Nat \ {0} /\ r.blob \in Nat /\ r.headers \in Seq(Nat \ {0})
(* The code's sizes are 1024 and 512. *)
ASSUME SizesAssumption ==
  /\ MaxReplies \in Nat /\ buffer_size \in Nat /\ buffer_sendable_n \in Nat
  /\ 2 <= buffer_sendable_n /\ buffer_sendable_n < buffer_size
  /\ buffer_size <= 2 * buffer_sendable_n

VARIABLES
  at,           \* the point sendMessage() has reached; idle when it does not run
  reply,        \* its argument
  header,       \* the header to serialize next
  written_yet,  \* its local
  m_buffer,     \* HttpOuttake::m_buffer, up to its length
  done_n,       \* writeBlob()'s local
  returns_to,   \* where sendMessage() goes on when writeBlob() returns ok
  m_closed,     \* ClientSocket::m_closed
  gone,         \* the client hung up
  wire,         \* what the socket took
  sent,         \* the replies sendMessage() was given and returned true for
  failed,       \* sendMessage() returned false
  alive         \* the process runs

vars == <<at, reply, header, written_yet, m_buffer, done_n, returns_to, m_closed,
          gone, wire, sent, failed, alive>>
socketVars == <<m_closed, gone, wire, alive>>
callerVars == <<sent, failed>>

(* The pieces of a reply: 0 is the top line, then come the headers, the    *)
(* empty line and the body.                                                *)
Breaks(r) == Len(r.headers) + 1
Size(r, p) == IF p = 0 THEN r.top
              ELSE IF p < Breaks(r) THEN r.headers[p]
              ELSE IF p = Breaks(r) THEN 2 ELSE r.blob

Number == Len(sent) + 1
Octet(n, p, i) == [of |-> n, piece |-> p, at |-> i]
Piece(r, p) == [i \in 1..Size(r, p) |-> Octet(Number, p, i)]

Top(r)        == Piece(r, 0)
Header(r, h)  == Piece(r, h)
EmptyBreak(r) == Piece(r, Breaks(r))
Blob(r)       == Piece(r, Breaks(r) + 1)

Step(from, to) == alive /\ at = from /\ at' = to

(* Mutant: the size of the buffer is not looked at. *)
FitsAlways(piece) == TRUE

(* Mutant: room is kept for the empty line. *)
FitsWithBreak(piece) == Len(m_buffer) + Len(piece) + 2 <= buffer_size

Fits(piece) == Len(m_buffer) + Len(piece) <= buffer_size

-----------------------------------------------------------------------------
(* sendMessage *)

SendMessage(r) ==
  /\ ~failed /\ Len(sent) < MaxReplies
  /\ r.top <= buffer_size
  /\ Step("idle", "headers")
  /\ reply' = r
  /\ header' = 1 /\ written_yet' = FALSE
  /\ m_buffer' = Top(r)
  /\ UNCHANGED <<done_n, returns_to, socketVars, callerVars>>

(* A piece that does not fit makes the call return false. *)
RefuseTop(r) ==
  /\ ~failed /\ Len(sent) < MaxReplies
  /\ r.top > buffer_size
  /\ Step("idle", "idle")
  /\ failed' = TRUE
  /\ reply' = r /\ header' = 1 /\ m_buffer' = <<>>
  /\ UNCHANGED <<written_yet, done_n, returns_to, socketVars, sent>>

Refuse ==
  /\ \/ at = "headers" /\ header <= Len(reply.headers) /\ ~Fits(Header(reply, header))
     \/ at = "headers" /\ header > Len(reply.headers) /\ ~Fits(EmptyBreak(reply))
     \/ at = "body" /\ reply.blob > buffer_size
  /\ alive /\ at' = "idle"
  /\ failed' = TRUE
  /\ m_buffer' = <<>>
  /\ UNCHANGED <<reply, header, written_yet, done_n, returns_to, socketVars, sent>>

(* one turn of the loop over the headers *)
SerializeHeader ==
  /\ header <= Len(reply.headers)
  /\ Fits(Header(reply, header))
  /\ m_buffer' = m_buffer \o Header(reply, header)
  /\ header' = header + 1
  /\ \/ /\ Len(m_buffer') < buffer_sendable_n
        /\ Step("headers", "headers")
        /\ written_yet' = FALSE
        /\ UNCHANGED <<done_n, returns_to>>
     \/ /\ Len(m_buffer') >= buffer_sendable_n
        /\ Step("headers", "write")
        /\ returns_to' = "headers" /\ done_n' = 0
        /\ UNCHANGED written_yet
  /\ UNCHANGED <<reply, socketVars, callerVars>>

(* the empty line is not written if the last header's turn wrote the buffer *)
SerializeEmptyBreak ==
  /\ header > Len(reply.headers)
  /\ Fits(EmptyBreak(reply))
  /\ \/ /\ written_yet
        /\ Step("headers", "body")
        /\ m_buffer' = <<>>
        /\ UNCHANGED <<done_n, returns_to>>
     \/ /\ ~written_yet
        /\ Step("headers", "write")
        /\ m_buffer' = m_buffer \o EmptyBreak(reply)
        /\ returns_to' = "body" /\ done_n' = 0
  /\ UNCHANGED <<reply, header, written_yet, socketVars, callerVars>>

SerializeBlob ==
  /\ Step("body", "write")
  /\ reply.blob <= buffer_size
  /\ m_buffer' = Blob(reply)
  /\ returns_to' = "done" /\ done_n' = 0
  /\ UNCHANGED <<reply, header, written_yet, socketVars, callerVars>>

Return ==
  /\ Step("done", "idle")
  /\ sent' = Append(sent, reply)
  /\ UNCHANGED <<reply, header, written_yet, m_buffer, done_n, returns_to, socketVars, failed>>

-----------------------------------------------------------------------------
(* writeBlob: what is laid out so far goes through the overload that is    *)
(* given the length, the body through the one that is not.  They behave    *)
(* alike here: the first refuses a length of 0, but is only called behind  *)
(* a header or the empty line; and the second resets the buffer of a write *)
(* that failed, which sendMessage() does in any case.                      *)

Pending == Len(m_buffer) - done_n

(* Mutant: each send() starts again from the beginning of the buffer. *)
SendFromStart(n) ==
  /\ Step("write", "write")
  /\ ~m_closed
  /\ n \in 1..Pending
  /\ wire' = wire \o SubSeq(m_buffer, 1, n)
  /\ done_n' = done_n + n
  /\ UNCHANGED <<reply, header, written_yet, m_buffer, returns_to, m_closed, gone, alive,
                 callerVars>>

(* send() takes some of what is pending *)
Send(n) ==
  /\ Step("write", "write")
  /\ ~m_closed
  /\ n \in 1..Pending
  /\ wire' = wire \o SubSeq(m_buffer, done_n + 1, done_n + n)
  /\ done_n' = done_n + n
  /\ UNCHANGED <<reply, header, written_yet, m_buffer, returns_to, m_closed, gone, alive,
                 callerVars>>

(* Mutant: a write that failed counts as done. *)
SendFailsUnseen ==
  /\ Step("write", returns_to)
  /\ Pending > 0 /\ gone
  /\ m_closed' = TRUE
  /\ m_buffer' = <<>>
  /\ UNCHANGED <<reply, header, written_yet, done_n, returns_to, gone, wire, alive, callerVars>>

SendFails ==
  /\ Step("write", "idle")
  /\ Pending > 0 /\ gone
  /\ m_closed' = TRUE
  /\ m_buffer' = <<>>
  /\ failed' = TRUE
  /\ UNCHANGED <<reply, header, written_yet, done_n, returns_to, gone, wire, alive, sent>>

(* SIGPIPE, raised by a send() to a peer that is gone *)
SendKills ==
  /\ alive /\ at = "write" /\ Pending > 0 /\ gone
  /\ alive' = FALSE
  /\ UNCHANGED <<at, reply, header, written_yet, m_buffer, done_n, returns_to, m_closed,
                 gone, wire, callerVars>>

(* the flush in the loop notes itself; after the blob the buffer is kept *)
WriteReturns ==
  /\ Step("write", returns_to)
  /\ Pending = 0
  /\ written_yet' = IF returns_to = "headers" THEN TRUE ELSE written_yet
  /\ m_buffer' = IF returns_to = "done" THEN m_buffer ELSE <<>>
  /\ UNCHANGED <<reply, header, done_n, returns_to, socketVars, callerVars>>

HangUp ==
  /\ alive /\ ~gone
  /\ gone' = TRUE
  /\ UNCHANGED <<at, reply, header, written_yet, m_buffer, done_n, returns_to, m_closed,
                 wire, alive, callerVars>>

-----------------------------------------------------------------------------
Init ==
  /\ at = "idle" /\ reply = [top |-> 1, headers |-> <<>>, blob |-> 0]
  /\ header = 1 /\ written_yet = FALSE
  /\ m_buffer = <<>> /\ done_n = 0 /\ returns_to = "headers"
  /\ m_closed = FALSE /\ gone = FALSE
  /\ wire = <<>> /\ sent = <<>> /\ failed = FALSE
  /\ alive = TRUE

Next ==
  \/ \E r \in Replies : SendMessage(r) \/ RefuseTop(r)
  \/ Refuse \/ SerializeHeader \/ SerializeEmptyBreak \/ SerializeBlob \/ Return
  \/ \E n \in 1..buffer_size : Send(n)
  \/ SendFails \/ SendKills \/ WriteReturns \/ HangUp

Spec == Init /\ [][Next]_vars

-----------------------------------------------------------------------------
(* Properties. *)

(* Every variable has a value of its type, and the buffer its size. *)
TypeOK ==
  /\ at \in {"idle", "headers", "body", "write", "done"}
  /\ returns_to \in {"headers", "body", "done"}
  /\ Len(m_buffer) <= buffer_size /\ done_n \in 0..buffer_size
  /\ header \in 1..Len(reply.headers) + 1
  /\ sent \in Seq(Replies)
  /\ {written_yet, m_closed, gone, failed, alive} \subseteq BOOLEAN

(* What the client receives is the replies in their order, each laid out   *)
(* as HTTP has it, with no octet lost, repeated or out of its place, up to *)
(* where the current call has come or a failed call stopped.               *)
Given == IF at = "idle" /\ ~failed THEN sent ELSE Append(sent, reply)
First == Octet(1, 0, 1)
Behind(rs, o) ==
  LET r == rs[o.of] IN
  IF o.at < Size(r, o.piece) THEN Octet(o.of, o.piece, o.at + 1)
  ELSE IF o.piece < Breaks(r) \/ (o.piece = Breaks(r) /\ r.blob > 0) THEN Octet(o.of, o.piece + 1, 1)
  ELSE Octet(o.of + 1, 0, 1)
InOrder ==
  \A i \in DOMAIN wire :
    /\ wire[i].of \in DOMAIN Given
    /\ wire[i] = IF i = 1 THEN First ELSE Behind(Given, wire[i - 1])

(* sendMessage() returns true only if the whole reply was written: all the *)
(* headers, the empty line, and finally the body.                          *)
Due == IF wire = <<>> THEN First ELSE Behind(Given, wire[Len(wire)])
SentWhole == at = "idle" /\ ~failed => InOrder /\ Due = Octet(Number, 0, 1)

(* What the buffer holds after each header of a reply: nothing where the   *)
(* turn of the header writes it out.  The last header's turn does not, or  *)
(* is not reached, for a header before does not fit.                       *)
Filled(r, fill) ==
  /\ DOMAIN fill = 0..Len(r.headers)
  /\ fill[0] = r.top
  /\ \A h \in 1..Len(r.headers) :
       fill[h] = LET n == fill[h - 1] + r.headers[h] IN IF n < buffer_sendable_n THEN n ELSE 0
LastHeaderStays(r, fill) ==
  \/ fill[Len(r.headers)] # 0
  \/ \E h \in 1..Len(r.headers) : fill[h - 1] + r.headers[h] > buffer_size

(* Lines of up to buffer_size - buffer_sendable_n octets and a body of up  *)
(* to buffer_size always fit, in any number: a call fails only on a longer *)
(* one, or on a client that is gone.                                       *)
Lines(r) == {r.top} \cup ToSet(r.headers)
FailsOnlyOn ==
  failed =>
    \/ gone
    \/ reply.blob > buffer_size
    \/ \E n \in Lines(reply) : n > buffer_size - buffer_sendable_n
=============================================================================
