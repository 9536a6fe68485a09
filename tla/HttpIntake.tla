----------------------------- MODULE HttpIntake -----------------------------
(***************************************************************************)
(* HttpIntake::nextRequest: one request after another read from a socket   *)
(* on which the client's octets arrive when they will.  The stream is made *)
(* of units: a line of a message's head with its terminator, or an octet of *)
(* its body, which may be a line feed.  A unit is known by its place in the *)
(* stream.  The reader does not see where a body is: the octets of one that *)
(* it did not read are part of the next line, or lines of their own.        *)
(* readLine() and readBlob() are taken at their contract (ClientSocket).   *)
(***************************************************************************)
EXTENDS HttpTypes, Integers

CONSTANTS
  Messages,     \* the messages a client may send
  MaxMessages,  \* bound: how many it sends on the connection
  buffer_size   \* the size of m_buffer, in octets

ASSUME BoundsAssumption == MaxMessages \in Nat /\ buffer_size \in Nat \ {0}
(* So it is, and the provers want to be told: *)
ASSUME TextAssumption == {"", "absent"} \subseteq STRING

VARIABLES
  asked,           \* client: the messages it began to send, and where each begins
  stream,          \* client: the units of these messages, one message after another
  gone,            \* client: it hung up
  arrived,         \* kernel: how many units of the stream arrived
  taken,           \* ClientSocket: how many of them were read
  m_state,         \* HttpIntake::m_state; idle when nextRequest() does not run
  m_temp_top,      \* m_temp_method, m_temp_schema and m_temp_uri
  m_temp_headers,  \* HttpIntake::m_temp_headers
  length,          \* m_buffer.m_length
  results,         \* the requests nextRequest() returned
  failed,          \* nextRequest() returned nothing
  alive            \* the process runs

clientVars == <<asked, stream, gone, arrived>>
callerVars == <<results, failed>>
vars == <<clientVars, taken, m_state, m_temp_top, m_temp_headers, length, callerVars, alive>>

(* A HeaderValue is an int or a string.  What a line holds is a string; it *)
(* is stored as an int if it is all digits, and the empty string is too.   *)
IntValue(n)    == [index |-> 0, int |-> n]
StringValue(s) == [index |-> 1, string |-> s]
Digits(n)      == [digits |-> TRUE, fits |-> TRUE, int |-> n]
Word(s)        == [digits |-> FALSE, string |-> s]
NoDigits       == [digits |-> TRUE, fits |-> FALSE]   \* the empty word, or beyond int
Words == [digits : {TRUE}, fits : {TRUE}, int : Nat] \cup [digits : {FALSE}, string : STRING]
           \cup {NoDigits}

Keys == {"Content-Length", "Connection", "Host"}
HeaderValues == [index : {0}, int : Nat] \cup [index : {1}, string : STRING]
Absent == StringValue("absent")
DefaultHeaders == [k \in Keys |-> IF k = "Content-Length" THEN IntValue(0) ELSE Absent]
Tops == [method : {"h1_get", "h1_post", "h1_nop"},
         schema : {"http_1_0", "http_1_1", "http_unknown"}, uri : STRING]
NoTop == [method |-> "h1_nop", schema |-> "http_unknown", uri |-> ""]

-----------------------------------------------------------------------------
(* Messages, as the client lays them out, and what they should be read as. *)
(* Of its top line a message tells the words and the octets (room); of its *)
(* body the octets, and the places of the line feeds among them (ends).    *)

Octet == [kind |-> "octet"]
Feed == [kind |-> "feed"]
EmptyLine == [kind |-> "empty"]

UnitOf(m, k) ==
  LET h == Len(m.headers) IN
  IF k = 1 THEN [kind |-> "top", top |-> m.top, room |-> m.room]
  ELSE IF k <= h + 1
  THEN [kind |-> "header", key |-> m.headers[k - 1].key, word |-> m.headers[k - 1].word]
  ELSE IF k = h + 2 THEN EmptyLine
  ELSE IF k - (h + 2) \in m.ends THEN Feed ELSE Octet

Size(m) == Len(m.headers) + 2 + m.body
Units(m) == [k \in 1..Size(m) |-> UnitOf(m, k)]

Stored(word) == IF word.digits THEN IntValue(word.int) ELSE StringValue(word.string)

LastNamed(m, k) == {i \in DOMAIN m.headers :
  m.headers[i].key = k /\ \A j \in DOMAIN m.headers : m.headers[j].key = k => j <= i}

(* The length of a body is only heard of under the name the code spells.   *)
(* Where a body nobody announced ends a line, its octets are read as a     *)
(* request, and from there on the messages are not read as they were sent. *)
Unannounced(m) == m.body > 0 /\ LastNamed(m, "Content-Length") = {}
Breaks(m) == Unannounced(m) /\ m.ends # {}
Clean(n) == \A i \in 1..n - 1 : i \in DOMAIN asked => ~Breaks(asked[i].message)

(* The n-th message as it should be read, a word by the tables of names.   *)
(* The octets of a body nobody announced run into the top line behind them.*)
Named(names, enum, accepted, other, word) ==
  IF \E e \in accepted : lookup(names, enum, e) = word
  THEN CHOOSE e \in accepted : lookup(names, enum, e) = word ELSE other
RunInto(n) == n > 1 /\ Unannounced(asked[n - 1].message)
TopAs(top, runInto) ==
  [method |-> IF runInto THEN "h1_nop"
              ELSE Named(methods, HttpMethod, {"h1_get", "h1_post"}, "h1_nop", top.method),
   schema |-> Named(schemas, HttpSchema, {"http_1_0", "http_1_1"}, "http_unknown", top.schema),
   uri |-> top.uri]
HeadersAs(m) ==
  [k \in Keys |-> IF LastNamed(m, k) = {} THEN DefaultHeaders[k]
                  ELSE Stored(m.headers[CHOOSE i \in LastNamed(m, k) : TRUE].word)]
ReadAs(m, runInto) ==
  [top |-> TopAs(m.top, runInto), length |-> IF Unannounced(m) THEN 0 ELSE m.body,
   headers |-> HeadersAs(m)]
RequestOf(n) == ReadAs(asked[n].message, RunInto(n))

(* A message does not fit the buffer if its top line does not, with the    *)
(* body that runs into it, or if its own body does not.                    *)
TooLong(n) ==
  LET m == asked[n].message
      before == IF RunInto(n) THEN asked[n - 1].message.body ELSE 0
  IN before + m.room >= buffer_size \/ (~Unannounced(m) /\ m.body > buffer_size)

(* A client that sends a number under Content-Length sends such a body.    *)
ASSUME MessagesAssumption ==
  /\ Messages \subseteq [top : [method : STRING, schema : STRING, uri : STRING], room : Nat,
                         headers : Seq([key : STRING, word : Words]),
                         body : Nat, ends : SUBSET Nat]
  /\ \A m \in Messages :
       /\ m.ends \subseteq 1..m.body
       /\ \A i \in LastNamed(m, "Content-Length") :
            LET word == m.headers[i].word IN word.digits /\ word.fits => word.int = m.body

-----------------------------------------------------------------------------
(* The client. *)

Begin(m) ==
  /\ alive /\ ~gone
  /\ arrived = Len(stream) /\ Len(asked) < MaxMessages
  /\ asked' = Append(asked, [message |-> m, first |-> Len(stream) + 1])
  /\ stream' = stream \o Units(m)
  /\ UNCHANGED <<gone, arrived, taken, m_state, m_temp_top, m_temp_headers, length, callerVars, alive>>

Deliver ==
  /\ alive /\ ~gone
  /\ arrived < Len(stream)
  /\ arrived' = arrived + 1
  /\ UNCHANGED <<asked, stream, gone, taken, m_state, m_temp_top, m_temp_headers, length, callerVars, alive>>

HangUp ==
  /\ alive /\ ~gone
  /\ gone' = TRUE
  /\ UNCHANGED <<asked, stream, arrived, taken, m_state, m_temp_top, m_temp_headers, length,
                 callerVars, alive>>

-----------------------------------------------------------------------------
(* The socket: readLine() takes the octets up to the next line feed, those *)
(* of a body that stand in front of it too.  A body is taken to hold no    *)
(* blank, colon or carriage return and not to spell a method: a line of one *)
(* is a single word, and in front of a top line it changes the method to   *)
(* one that is not accepted.  A line fits the buffer if an octet is left   *)
(* over; headers do.                                                       *)

LineEnds == {p \in taken + 1 .. arrived : stream[p].kind # "octet"}
HasLine == LineEnds # {}
LineEnd == CHOOSE p \in LineEnds : \A q \in LineEnds : p <= q
InFront == LineEnd - taken - 1
BodyLine == [kind |-> "body"]
NextLine ==
  LET end == stream[LineEnd] IN
  IF InFront = 0 THEN IF end.kind = "feed" THEN EmptyLine ELSE end
  ELSE IF end.kind = "top" THEN [end EXCEPT !.top.method = "garbled"] ELSE BodyLine
LongLine == InFront + (IF NextLine.kind = "top" THEN NextLine.room ELSE 0) >= buffer_size
TakeLine == taken' = LineEnd

Step(from, next) == alive /\ m_state = from /\ m_state' = next

Dies ==
  /\ alive' = FALSE
  /\ UNCHANGED <<clientVars, taken, m_state, m_temp_top, m_temp_headers, length, callerVars>>

-----------------------------------------------------------------------------
(* The caller resets the reader before each call. *)
Reset ==
  /\ Step("idle", "top")
  /\ ~failed
  /\ m_temp_top' = NoTop
  /\ m_temp_headers' = DefaultHeaders
  /\ length' = 0
  /\ UNCHANGED <<clientVars, taken, callerVars, alive>>

StateTop ==
  /\ Step("top", "header")
  /\ HasLine /\ ~LongLine
  /\ TakeLine
  /\ m_temp_top' = IF NextLine.kind # "top" THEN NoTop
                    ELSE [method |-> enumifyMethod(NextLine.top.method),
                          schema |-> enumifySchema(NextLine.top.schema), uri |-> NextLine.top.uri]
  /\ length' = 0
  /\ UNCHANGED <<clientVars, m_temp_headers, callerVars, alive>>

(* Mutant: every value is taken for a number. *)
ConvertibleIfNumber(line) ==
  line.kind # "body" /\ (line.kind = "header" => (line.word.digits /\ line.word.fits))

(* A line of a body has no colon: the value behind it is the empty word.   *)
Convertible(line) ==
  line.kind # "body" /\ (line.kind = "header" => (line.word.digits => line.word.fits))

(* A top line that is read as a header is stored under a key nobody asks   *)
(* for if its URI holds a colon.                                           *)
StateHeader ==
  /\ Step("header", "header")
  /\ HasLine /\ ~LongLine /\ NextLine.kind # "empty" /\ Convertible(NextLine)
  /\ TakeLine
  /\ m_temp_headers' =
       [k \in Keys |-> IF NextLine.kind = "header" /\ NextLine.key = k
                       THEN Stored(NextLine.word) ELSE m_temp_headers[k]]
  /\ UNCHANGED <<clientVars, m_temp_top, length, callerVars, alive>>

(* std::stoi() throws in a function declared noexcept: on digits that are  *)
(* no int and on the empty word, which is also what a line without a colon *)
(* has for a value.                                                        *)
HeaderThrows ==
  /\ alive /\ m_state = "header"
  /\ HasLine /\ ~LongLine /\ NextLine.kind # "empty"
  /\ NextLine.kind = "top" \/ ~Convertible(NextLine)
  /\ Dies

EndHeaders ==
  /\ Step("header", "body")
  /\ HasLine /\ NextLine.kind = "empty"
  /\ TakeLine
  /\ length' = 0
  /\ UNCHANGED <<clientVars, m_temp_top, m_temp_headers, callerVars, alive>>

ContentLength == m_temp_headers["Content-Length"]

(* Mutant: the body is left in the stream. *)
StateBodyIgnored ==
  /\ ContentLength.index = 0
  /\ Step("body", "done")
  /\ UNCHANGED <<clientVars, taken, m_temp_top, m_temp_headers, length, callerVars, alive>>

StateBody ==
  /\ ContentLength.index = 0
  /\ Step("body", IF ContentLength.int = 0 THEN "done" ELSE "transfer_normal")
  /\ UNCHANGED <<clientVars, taken, m_temp_top, m_temp_headers, length, callerVars, alive>>

(* std::get<int>() throws in a function declared noexcept *)
BodyThrows ==
  /\ alive /\ m_state = "body" /\ ContentLength.index # 0
  /\ Dies

(* Mutant: the size of the buffer is not looked at. *)
TransferUnbounded ==
  /\ Step("transfer_normal", "done")
  /\ arrived - taken >= ContentLength.int
  /\ taken' = taken + ContentLength.int
  /\ length' = ContentLength.int
  /\ UNCHANGED <<clientVars, m_temp_top, m_temp_headers, callerVars, alive>>

StateTransferNormal ==
  /\ Step("transfer_normal", "done")
  /\ ContentLength.int <= buffer_size
  /\ arrived - taken >= ContentLength.int
  /\ taken' = taken + ContentLength.int
  /\ length' = ContentLength.int
  /\ UNCHANGED <<clientVars, m_temp_top, m_temp_headers, callerVars, alive>>

(* Mutant: a body as long as the buffer is refused. *)
BodyFillsBuffer == m_state = "transfer_normal" /\ ContentLength.int >= buffer_size

BodyTooLong == m_state = "transfer_normal" /\ ContentLength.int > buffer_size
LineTooLong == m_state \in {"top", "header"} /\ HasLine /\ LongLine

(* Mutant: recv() waits for as long as the client is connected. *)
SocketFailsUntimed == gone

(* recv() fails: the client is gone, or sends nothing for 10 s *)
SocketFails ==
  \/ gone
  \/ m_state \in {"top", "header"} /\ ~HasLine
  \/ m_state = "transfer_normal" /\ arrived - taken < ContentLength.int

Fail ==
  /\ \E from \in {"top", "header", "transfer_normal"} : Step(from, "error")
  /\ BodyTooLong \/ LineTooLong \/ SocketFails
  /\ length' = 0
  /\ UNCHANGED <<clientVars, taken, m_temp_top, m_temp_headers, callerVars, alive>>

Return ==
  /\ \/ /\ Step("done", "idle")
        /\ results' = Append(results, [top |-> m_temp_top, length |-> length,
                                       headers |-> m_temp_headers])
        /\ UNCHANGED failed
     \/ /\ Step("error", "idle")
        /\ failed' = TRUE
        /\ UNCHANGED results
  /\ UNCHANGED <<clientVars, taken, m_temp_top, m_temp_headers, length, alive>>

-----------------------------------------------------------------------------
Init ==
  /\ asked = <<>> /\ stream = <<>> /\ gone = FALSE /\ arrived = 0 /\ taken = 0
  /\ m_state = "idle"
  /\ m_temp_top = NoTop /\ m_temp_headers = DefaultHeaders /\ length = 0
  /\ results = <<>> /\ failed = FALSE
  /\ alive = TRUE

Read ==
  \/ Reset \/ StateTop \/ StateHeader \/ HeaderThrows \/ EndHeaders
  \/ StateBody \/ BodyThrows \/ StateTransferNormal \/ Fail \/ Return

Next == Read \/ Deliver \/ HangUp \/ \E m \in Messages : Begin(m)

Spec == Init /\ [][Next]_vars

(* The worker's thread runs. *)
FairSpec == Spec /\ WF_vars(Read)

-----------------------------------------------------------------------------
(* Properties. *)

Requests == [top : Tops, length : 0..buffer_size, headers : [Keys -> HeaderValues]]

(* Every variable has a value of its type. *)
TypeOK ==
  /\ asked \in Seq([message : Messages, first : Nat])
  /\ arrived \in 0..Len(stream) /\ taken \in 0..arrived
  /\ m_state \in {"idle", "top", "header", "body", "transfer_normal", "done", "error"}
  /\ m_temp_top \in Tops /\ m_temp_headers \in [Keys -> HeaderValues]
  /\ length \in 0..buffer_size
  /\ results \in Seq(Requests)
  /\ gone \in BOOLEAN /\ failed \in BOOLEAN /\ alive \in BOOLEAN

(* Each call returns the next message the client sent, with its own body,  *)
(* and leaves the stream at the message after it: the reader never takes   *)
(* the octets of one message for those of another.  The octets of a body   *)
(* announced under another spelling of Content-Length stay in the stream:  *)
(* as long as none of them ends a line they spoil the next request and     *)
(* none after it; once one does, nothing is said of the requests read      *)
(* behind it.                                                              *)
Boundary ==
  IF results = <<>> THEN 0
  ELSE LET a == asked[Len(results)] IN
       a.first - 1 + Size(a.message) - IF Unannounced(a.message) THEN a.message.body ELSE 0
InSync ==
  /\ \A i \in DOMAIN results : Clean(i) => i \in DOMAIN asked /\ results[i] = RequestOf(i)
  /\ m_state = "idle" /\ ~failed /\ Clean(Len(results)) => taken = Boundary

(* nextRequest() gives up on a message only if the client did not send all *)
(* of it or hung up, if it does not fit the buffer, alone or with the body *)
(* that runs into it, or if an earlier body broke the order of things.     *)
Arrived(n) == Len(asked) > n \/ (Len(asked) = n /\ arrived = Len(stream))
GivesUpOnlyOn ==
  [][(m_state # "error" /\ m_state' = "error") =>
       LET n == Len(results) + 1 IN gone \/ ~Arrived(n) \/ TooLong(n) \/ ~Clean(n)]_vars

(* The process only dies reading a header value that is digits but no int, *)
(* or a Content-Length that is no number; the empty value counts as digits *)
(* and so does what a line without a colon has for one, which only a body  *)
(* nobody announced can make.                                              *)
NotConverted(h) ==
  h.word = NoDigits \/ (h.key = "Content-Length" /\ ~h.word.digits)
DiesOnlyOn ==
  LET n == Len(results) + 1 IN
  \/ alive \/ ~Clean(n)
  \/ \E i \in DOMAIN asked[n].message.headers : NotConverted(asked[n].message.headers[i])

(* nextRequest() returns, unless it ends the process: it never waits for a *)
(* client that stopped half way through a message.                         *)
CallReturns == m_state # "idle" ~> m_state = "idle" \/ ~alive

(* noexcept, on stateHeader() and stateBody(): whatever the header values, *)
(* reading a request does not end the process.                             *)
NoexceptHolds == alive
=============================================================================
