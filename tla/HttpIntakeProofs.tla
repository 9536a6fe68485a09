--------------------------- MODULE HttpIntakeProofs ---------------------------
(***************************************************************************)
(* nextRequest() reads each message of a client as it was sent, for any    *)
(* messages, any number of them and a buffer of any size.                  *)
(***************************************************************************)
EXTENDS HttpIntake, SequenceTheorems, WellFoundedInduction, TLAPS

(* The stream is the messages, one after another; the client sends the     *)
(* next message when the one before is gone.                               *)
Message(n) == asked[n].message
First(n) == asked[n].first
After(n) == First(n) + Size(Message(n))
AllUnits == {UnitOf(m, k) : m \in Messages, k \in Nat \ {0}}

TypeInv ==
  /\ TypeOK
  /\ stream \in Seq(AllUnits)
  /\ m_state = "transfer_normal" => ContentLength.index = 0

StreamInv ==
  /\ \A n \in DOMAIN asked : \A k \in 1..Size(Message(n)) :
       /\ First(n) + k - 1 \in DOMAIN stream
       /\ stream[First(n) + k - 1] = UnitOf(Message(n), k)
  /\ \A n \in DOMAIN asked : First(n) = IF n = 1 THEN 1 ELSE After(n - 1)
  /\ \A a, b \in DOMAIN asked : a < b => After(a) <= First(b)
  /\ IF asked = <<>> THEN stream = <<>>
     ELSE After(Len(asked)) = Len(stream) + 1 /\ First(Len(asked)) <= arrived + 1

(* The values of the first i headers of a message: a name has that of the  *)
(* last header of this name.                                               *)
HeadersOf(m, i, values) ==
  \A k \in Keys :
    \/ values[k] = DefaultHeaders[k] /\ \A j \in 1..i : m.headers[j].key # k
    \/ \E j \in 1..i : /\ m.headers[j].key = k /\ values[k] = Stored(m.headers[j].word)
                       /\ \A l \in j + 1 .. i : m.headers[l].key # k

(* Where the reader is in the message it reads, and what it holds of it,   *)
(* as long as no body before it broke the order of things.                 *)
Current == Len(results) + 1
HeadersRead == taken - First(Current)

TopRead ==
  /\ Current \in DOMAIN asked
  /\ m_temp_top = TopAs(Message(Current).top, RunInto(Current))
  /\ HeadersRead \in Nat /\ HeadersRead <= Len(Message(Current).headers) + 1

HeadersHeld(i) ==
  /\ HeadersOf(Message(Current), i, m_temp_headers)
  /\ \A j \in 1..i : Message(Current).headers[j].word # NoDigits

AllHeadersRead ==
  /\ TopRead
  /\ HeadersRead = Len(Message(Current).headers) + 1
  /\ HeadersHeld(Len(Message(Current).headers))

PositionInv ==
  /\ m_state = "top" => taken = Boundary /\ m_temp_headers = DefaultHeaders
  /\ m_state = "header" =>
       /\ TopRead /\ HeadersRead <= Len(Message(Current).headers)
       /\ HeadersHeld(HeadersRead)
  /\ m_state = "body" => AllHeadersRead
  /\ m_state = "transfer_normal" =>
       AllHeadersRead /\ ContentLength.index = 0 /\ ContentLength.int # 0
  /\ m_state \in {"top", "header", "body", "transfer_normal"} => length = 0
  /\ m_state = "done" =>
       /\ Current \in DOMAIN asked
       /\ [top |-> m_temp_top, length |-> length, headers |-> m_temp_headers]
            = RequestOf(Current)
       /\ taken = After(Current) - 1
                    - IF Unannounced(Message(Current)) THEN Message(Current).body ELSE 0

IntakeInv ==
  /\ TypeInv /\ StreamInv /\ InSync /\ DiesOnlyOn
  /\ m_state # "idle" => ~failed
  /\ Clean(Current) => PositionInv

-----------------------------------------------------------------------------
(* Messages and their units. *)

LEMMA MessageType ==
  ASSUME NEW m \in Messages
  PROVE  /\ m.top = [method |-> m.top.method, schema |-> m.top.schema, uri |-> m.top.uri]
         /\ m.top.uri \in STRING
         /\ Len(m.headers) \in Nat /\ DOMAIN m.headers = 1..Len(m.headers)
         /\ \A i \in 1..Len(m.headers) : m.headers[i].word \in Words
         /\ m.body \in Nat /\ m.room \in Nat
         /\ Size(m) = Len(m.headers) + 2 + m.body /\ Size(m) \in Nat
<1> DEFINE H == [key : STRING, word : Words]
<1>1. m \in [top : [method : STRING, schema : STRING, uri : STRING], room : Nat, headers : Seq(H),
             body : Nat, ends : SUBSET Nat]
  BY MessagesAssumption
<1> HIDE DEF H
<1>2. m.headers \in Seq(H) /\ m.body \in Nat /\ m.room \in Nat
  BY <1>1
<1>3. /\ m.top = [method |-> m.top.method, schema |-> m.top.schema, uri |-> m.top.uri]
      /\ m.top.uri \in STRING
  BY <1>1
<1>4. Len(m.headers) \in Nat /\ DOMAIN m.headers = 1..Len(m.headers)
  BY <1>2
<1>5. \A i \in 1..Len(m.headers) : m.headers[i] \in H
  BY <1>2
<1>6. \A i \in 1..Len(m.headers) : m.headers[i].word \in Words
  BY <1>5 DEF H
<1> QED  BY <1>2, <1>3, <1>4, <1>6 DEF Size

LEMMA UnitIs ==
  ASSUME NEW m \in Messages, NEW k \in Nat \ {0}
  PROVE  /\ k = 1 => UnitOf(m, k) = [kind |-> "top", top |-> m.top, room |-> m.room]
         /\ k > 1 /\ k <= Len(m.headers) + 1 =>
              UnitOf(m, k) = [kind |-> "header", key |-> m.headers[k - 1].key,
                              word |-> m.headers[k - 1].word]
         /\ k = Len(m.headers) + 2 => UnitOf(m, k) = EmptyLine
         /\ k > Len(m.headers) + 2 =>
              UnitOf(m, k) = IF k - (Len(m.headers) + 2) \in m.ends THEN Feed ELSE Octet
<1> DEFINE h == Len(m.headers)
<1>1. h \in Nat
  BY MessageType
<1>2. /\ k > 1 => k # 1
      /\ k = h + 2 => k # 1 /\ ~(k <= h + 1)
      /\ k > h + 2 => k # 1 /\ ~(k <= h + 1) /\ k # h + 2
  <2> HIDE DEF h
  <2> QED  BY <1>1
<1> QED  BY <1>2 DEF UnitOf

(* The octets of a body are not lines, and everything else is one.         *)
LEMMA UnitKind ==
  ASSUME NEW m \in Messages, NEW k \in 1..Size(m)
  PROVE  /\ k <= Len(m.headers) + 2 => UnitOf(m, k).kind \in {"top", "header", "empty"}
         /\ k > Len(m.headers) + 2 /\ m.ends = {} => UnitOf(m, k).kind = "octet"
<1> DEFINE h == Len(m.headers)
<1>1. h \in Nat /\ Size(m) \in Nat
  BY MessageType
<1>2. k \in Nat \ {0}
  BY <1>1
<1>3. k <= h + 2 => k = 1 \/ (k > 1 /\ k <= h + 1) \/ k = h + 2
  <2> HIDE DEF h
  <2> QED  BY <1>1, <1>2
<1>4. k <= h + 2 => UnitOf(m, k).kind \in {"top", "header", "empty"}
  BY <1>2, <1>3, UnitIs DEF EmptyLine
<1>5. k > h + 2 /\ m.ends = {} => UnitOf(m, k).kind = "octet"
  BY <1>2, UnitIs DEF Octet
<1> QED  BY <1>4, <1>5

(* Of the units of a stream the lines of a head say what they hold.        *)
LEMMA UnitHolds ==
  ASSUME NEW u \in AllUnits
  PROVE  /\ u.kind = "top" => /\ u = [kind |-> "top", top |-> u.top, room |-> u.room]
                              /\ u.top = [method |-> u.top.method, schema |-> u.top.schema,
                                          uri |-> u.top.uri]
                              /\ u.top.uri \in STRING
         /\ u.kind = "header" => u.word \in Words
<1>1. PICK m \in Messages, k \in Nat \ {0} : u = UnitOf(m, k)
  BY DEF AllUnits
<1> DEFINE h == Len(m.headers)
<1>2. h \in Nat /\ \A i \in 1..h : m.headers[i].word \in Words
  BY MessageType
<1>3. CASE k = 1
  <2>1. u = [kind |-> "top", top |-> m.top, room |-> m.room]
    BY <1>1, <1>3, UnitIs
  <2>2. u.kind = "top" /\ u.top = m.top /\ u.room = m.room
    BY <2>1
  <2> QED  BY <2>1, <2>2, MessageType
<1>4. CASE k > 1 /\ k <= h + 1
  <2>1. u = [kind |-> "header", key |-> m.headers[k - 1].key, word |-> m.headers[k - 1].word]
    BY <1>1, <1>4, UnitIs
  <2>2. k - 1 \in 1..h
    <3> HIDE DEF h
    <3> QED  BY <1>2, <1>4
  <2>3. u.kind = "header" /\ u.word = m.headers[k - 1].word
    BY <2>1
  <2> QED  BY <2>2, <2>3, <1>2
<1>5. CASE k = h + 2
  <2>1. u = EmptyLine
    BY <1>1, <1>5, UnitIs
  <2> QED  BY <2>1 DEF EmptyLine
<1>6. CASE k > h + 2
  <2>1. u \in {Feed, Octet}
    BY <1>1, <1>6, UnitIs
  <2> QED  BY <2>1 DEF Feed, Octet
<1>7. k = 1 \/ (k > 1 /\ k <= h + 1) \/ k = h + 2 \/ k > h + 2
  <2> HIDE DEF h
  <2> QED  BY <1>2
<1> QED  BY <1>3, <1>4, <1>5, <1>6, <1>7

LEMMA WordIs ==
  ASSUME NEW word \in Words
  PROVE  /\ word.digits \in BOOLEAN
         /\ word # NoDigits => Stored(word) \in HeaderValues
         /\ ~word.digits => Stored(word).index = 1
         /\ word.digits => Stored(word).index = 0 /\ Stored(word).int = word.int
         /\ (word.digits => word.fits) => word # NoDigits
         /\ ~(word.digits => word.fits) => word = NoDigits
         /\ word # NoDigits /\ word.digits => word.fits /\ word.int \in Nat
<1>0. NoDigits.digits = TRUE /\ NoDigits.fits = FALSE
  BY DEF NoDigits
<1>1. CASE word \in [digits : {TRUE}, fits : {TRUE}, int : Nat]
  <2>1. word.digits = TRUE /\ word.fits = TRUE /\ word.int \in Nat
    BY <1>1
  <2>2. word # NoDigits
    BY <1>0, <2>1
  <2> QED  BY <2>1, <2>2 DEF Stored, IntValue, HeaderValues
<1>2. CASE word \in [digits : {FALSE}, string : STRING]
  <2>1. word.digits = FALSE /\ word.string \in STRING
    BY <1>2
  <2>2. word # NoDigits
    BY <1>0, <2>1
  <2> QED  BY <2>1, <2>2 DEF Stored, StringValue, HeaderValues
<1>3. CASE word = NoDigits
  BY <1>0, <1>3 DEF Stored, IntValue
<1> QED  BY <1>1, <1>2, <1>3 DEF Words

(* One more header line. *)
LEMMA OneMoreHeader ==
  ASSUME NEW m \in Messages, NEW i \in Nat, i < Len(m.headers), NEW values, HeadersOf(m, i, values)
  PROVE  HeadersOf(m, i + 1,
           [k \in Keys |-> IF m.headers[i + 1].key = k
                           THEN Stored(m.headers[i + 1].word) ELSE values[k]])
<1> DEFINE h == m.headers
           next == [k \in Keys |-> IF h[i + 1].key = k THEN Stored(h[i + 1].word) ELSE values[k]]
<1>1. Len(m.headers) \in Nat
  BY MessageType
<1> SUFFICES ASSUME NEW k \in Keys
             PROVE  \/ next[k] = DefaultHeaders[k] /\ \A j \in 1..i + 1 : h[j].key # k
                    \/ \E j \in 1..i + 1 : /\ h[j].key = k /\ next[k] = Stored(h[j].word)
                                           /\ \A l \in j + 1 .. i + 1 : h[l].key # k
  BY DEF HeadersOf
<1>2. CASE h[i + 1].key = k
  <2>1. next[k] = Stored(h[i + 1].word)
    BY <1>2
  <2>2. i + 1 \in 1..i + 1 /\ (i + 1) + 1 .. i + 1 = {}
    OBVIOUS
  <2> QED  BY <2>1, <2>2, <1>2
<1>3. CASE h[i + 1].key # k
  <2>1. next[k] = values[k]
    BY <1>3
  <2>2. \A j \in 1..i + 1 : j \in 1..i \/ j = i + 1
    OBVIOUS
  <2>3. CASE values[k] = DefaultHeaders[k] /\ \A j \in 1..i : h[j].key # k
    BY <1>3, <2>1, <2>2, <2>3
  <2>4. CASE \E j \in 1..i : /\ h[j].key = k /\ values[k] = Stored(h[j].word)
                             /\ \A l \in j + 1 .. i : h[l].key # k
    <3>1. PICK j \in 1..i : /\ h[j].key = k /\ values[k] = Stored(h[j].word)
                            /\ \A l \in j + 1 .. i : h[l].key # k
      BY <2>4
    <3>2. \A l \in j + 1 .. i + 1 : l \in j + 1 .. i \/ l = i + 1
      OBVIOUS
    <3> QED  BY <3>1, <3>2, <2>1, <1>3
  <2> QED  BY <2>3, <2>4 DEF HeadersOf
<1> QED  BY <1>2, <1>3

(* All of them. *)
LEMMA LastHeader ==
  ASSUME NEW m \in Messages, NEW k \in Keys, NEW j \in 1..Len(m.headers), m.headers[j].key = k,
         \A l \in j + 1 .. Len(m.headers) : m.headers[l].key # k
  PROVE  LastNamed(m, k) = {j}
<1>1. Len(m.headers) \in Nat /\ DOMAIN m.headers = 1..Len(m.headers)
  BY MessageType
<1>2. \A i \in 1..Len(m.headers) : i <= j \/ i \in j + 1 .. Len(m.headers)
  BY <1>1
<1>3. j \in LastNamed(m, k)
  BY <1>1, <1>2 DEF LastNamed
<1>4. \A i \in LastNamed(m, k) : j <= i /\ i <= j /\ i \in 1..Len(m.headers)
  BY <1>1, <1>2 DEF LastNamed
<1>5. \A i \in LastNamed(m, k) : i = j
  BY <1>1, <1>4
<1> QED  BY <1>3, <1>5

LEMMA AllHeaders ==
  ASSUME NEW m \in Messages, NEW values, values = [k \in Keys |-> values[k]],
         HeadersOf(m, Len(m.headers), values)
  PROVE  values = HeadersAs(m)
<1>1. DOMAIN m.headers = 1..Len(m.headers)
  BY MessageType
<1>2. ASSUME NEW k \in Keys
      PROVE  values[k] = IF LastNamed(m, k) = {} THEN DefaultHeaders[k]
                         ELSE Stored(m.headers[CHOOSE i \in LastNamed(m, k) : TRUE].word)
  <2>1. CASE values[k] = DefaultHeaders[k] /\ \A j \in 1..Len(m.headers) : m.headers[j].key # k
    <3>1. LastNamed(m, k) = {}
      BY <2>1, <1>1 DEF LastNamed
    <3> QED  BY <3>1, <2>1
  <2>2. CASE \E j \in 1..Len(m.headers) :
               /\ m.headers[j].key = k /\ values[k] = Stored(m.headers[j].word)
               /\ \A l \in j + 1 .. Len(m.headers) : m.headers[l].key # k
    <3>1. PICK j \in 1..Len(m.headers) :
               /\ m.headers[j].key = k /\ values[k] = Stored(m.headers[j].word)
               /\ \A l \in j + 1 .. Len(m.headers) : m.headers[l].key # k
      BY <2>2
    <3>2. LastNamed(m, k) = {j}
      BY <3>1, LastHeader
    <3>3. (CHOOSE i \in LastNamed(m, k) : TRUE) = j
      BY <3>2
    <3> QED  BY <3>1, <3>2, <3>3
  <2> QED  BY <2>1, <2>2 DEF HeadersOf
<1> QED  BY <1>2, Zenon DEF HeadersAs

(* The reader takes the length of a body from the last Content-Length.     *)
LEMMA ContentLengthIs ==
  ASSUME NEW m \in Messages, NEW values, HeadersOf(m, Len(m.headers), values),
         \A j \in 1..Len(m.headers) : m.headers[j].word # NoDigits
  PROVE  LET length_ == values["Content-Length"] IN
         /\ length_.index = 0 =>
              length_.int \in Nat /\ length_.int = IF Unannounced(m) THEN 0 ELSE m.body
         /\ length_.index # 0 => \E j \in DOMAIN m.headers : NotConverted(m.headers[j])
<1> DEFINE v == values["Content-Length"]
<1>1. /\ DOMAIN m.headers = 1..Len(m.headers) /\ m.body \in Nat
      /\ \A i \in 1..Len(m.headers) : m.headers[i].word \in Words
  BY MessageType
<1>2. CASE v = DefaultHeaders["Content-Length"]
             /\ \A j \in 1..Len(m.headers) : m.headers[j].key # "Content-Length"
  <2>1. LastNamed(m, "Content-Length") = {}
    BY <1>1, <1>2 DEF LastNamed
  <2>2. v = IntValue(0)
    BY <1>2 DEF DefaultHeaders, Keys
  <2>3. v.index = 0 /\ v.int = 0
    BY <2>2 DEF IntValue
  <2> QED  BY <2>1, <2>3, <1>1 DEF Unannounced
<1>3. CASE \E j \in 1..Len(m.headers) :
             /\ m.headers[j].key = "Content-Length" /\ v = Stored(m.headers[j].word)
             /\ \A l \in j + 1 .. Len(m.headers) : m.headers[l].key # "Content-Length"
  <2>1. PICK j \in 1..Len(m.headers) :
             /\ m.headers[j].key = "Content-Length" /\ v = Stored(m.headers[j].word)
             /\ \A l \in j + 1 .. Len(m.headers) : m.headers[l].key # "Content-Length"
    BY <1>3
  <2>2. LastNamed(m, "Content-Length") = {j}
    BY <2>1, LastHeader DEF Keys
  <2> DEFINE word == m.headers[j].word
  <2>3. word \in Words /\ word # NoDigits
    BY <1>1
  <2>4. word.digits /\ word.fits => word.int = m.body
    BY <2>2, MessagesAssumption
  <2> HIDE DEF word
  <2>5. CASE word.digits
    <3>1. v.index = 0 /\ v.int = word.int /\ word.int \in Nat /\ word.int = m.body
      BY <2>1, <2>3, <2>4, <2>5, WordIs DEF word
    <3> QED  BY <3>1, <2>2 DEF Unannounced
  <2>6. CASE ~word.digits
    <3>1. v.index = 1
      BY <2>1, <2>3, <2>6, WordIs DEF word
    <3>2. NotConverted(m.headers[j])
      BY <2>1, <2>6 DEF NotConverted, word
    <3> QED  BY <3>1, <3>2, <1>1
  <2> QED  BY <2>5, <2>6
<1> QED  BY <1>2, <1>3 DEF HeadersOf, Keys

(* A word is read as the name it is. *)
LEMMA NamesAreRead ==
  ASSUME NEW word
  PROVE  /\ enumifyMethod(word)
              = Named(methods, HttpMethod, {"h1_get", "h1_post"}, "h1_nop", word)
         /\ enumifySchema(word)
              = Named(schemas, HttpSchema, {"http_1_0", "http_1_1"}, "http_unknown", word)
<1>1. lookup(methods, HttpMethod, "h1_get") = "GET" /\ lookup(methods, HttpMethod, "h1_post") = "POST"
  <2>1. DOMAIN methods = 1..4
    BY DEF methods
  <2>2. /\ HttpMethod[1] = "h1_head" /\ HttpMethod[2] = "h1_get"
        /\ HttpMethod[3] = "h1_post" /\ HttpMethod[4] = "h1_nop"
    BY DEF HttpMethod
  <2>3. (CHOOSE i \in DOMAIN methods : HttpMethod[i] = "h1_get") = 2
    BY <2>1, <2>2
  <2>4. (CHOOSE i \in DOMAIN methods : HttpMethod[i] = "h1_post") = 3
    BY <2>1, <2>2
  <2>5. methods[2] = "GET" /\ methods[3] = "POST"
    BY DEF methods
  <2> QED  BY <2>3, <2>4, <2>5 DEF lookup
<1>2. /\ lookup(schemas, HttpSchema, "http_1_0") = "HTTP/1.0"
      /\ lookup(schemas, HttpSchema, "http_1_1") = "HTTP/1.1"
  <2>1. DOMAIN schemas = 1..3
    BY DEF schemas
  <2>2. HttpSchema[1] = "http_1_0" /\ HttpSchema[2] = "http_1_1" /\ HttpSchema[3] = "http_unknown"
    BY DEF HttpSchema
  <2>3. (CHOOSE i \in DOMAIN schemas : HttpSchema[i] = "http_1_0") = 1
    BY <2>1, <2>2
  <2>4. (CHOOSE i \in DOMAIN schemas : HttpSchema[i] = "http_1_1") = 2
    BY <2>1, <2>2
  <2>5. schemas[1] = "HTTP/1.0" /\ schemas[2] = "HTTP/1.1"
    BY DEF schemas
  <2> QED  BY <2>3, <2>4, <2>5 DEF lookup
<1>3. enumifyMethod(word) = Named(methods, HttpMethod, {"h1_get", "h1_post"}, "h1_nop", word)
  BY <1>1 DEF enumifyMethod, Named
<1>4. enumifySchema(word) = Named(schemas, HttpSchema, {"http_1_0", "http_1_1"}, "http_unknown", word)
  BY <1>2 DEF enumifySchema, Named
<1> QED  BY <1>3, <1>4

-----------------------------------------------------------------------------
(* The reader in the stream. *)

LEMMA StateType ==
  ASSUME TypeInv
  PROVE  /\ arrived \in Nat /\ taken \in Nat /\ Len(stream) \in Nat
         /\ taken <= arrived /\ arrived <= Len(stream)
         /\ Len(results) \in Nat /\ Len(asked) \in Nat
         /\ DOMAIN asked = 1..Len(asked) /\ DOMAIN stream = 1..Len(stream)
         /\ DOMAIN results = 1..Len(results)
         /\ \A n \in DOMAIN asked : Message(n) \in Messages /\ First(n) \in Nat
<1> DEFINE A == [message : Messages, first : Nat]
<1>1. asked \in Seq(A) /\ stream \in Seq(AllUnits) /\ results \in Seq(Requests)
  BY DEF TypeInv, TypeOK
<1>2. arrived \in 0..Len(stream) /\ taken \in 0..arrived
  BY DEF TypeInv, TypeOK
<1> HIDE DEF A
<1>3. /\ Len(stream) \in Nat /\ Len(results) \in Nat /\ Len(asked) \in Nat
      /\ DOMAIN asked = 1..Len(asked) /\ DOMAIN stream = 1..Len(stream)
      /\ DOMAIN results = 1..Len(results)
  BY <1>1
<1>4. \A n \in DOMAIN asked : asked[n] \in A
  BY <1>1
<1>5. \A n \in DOMAIN asked : Message(n) \in Messages /\ First(n) \in Nat
  BY <1>4 DEF A, Message, First
<1> QED  BY <1>2, <1>3, <1>5

LEMMA UnitInStream ==
  ASSUME TypeInv, StreamInv, NEW n \in DOMAIN asked, NEW p \in First(n) .. After(n) - 1
  PROVE  /\ p \in 1..Len(stream) /\ p - First(n) + 1 \in 1..Size(Message(n))
         /\ stream[p] = UnitOf(Message(n), p - First(n) + 1)
<1>1. First(n) \in Nat /\ Message(n) \in Messages /\ DOMAIN stream = 1..Len(stream)
  BY StateType
<1>2. Size(Message(n)) \in Nat
  BY <1>1, MessageType
<1> DEFINE k == p - First(n) + 1
<1>3. k \in 1..Size(Message(n)) /\ First(n) + k - 1 = p
  BY <1>1, <1>2 DEF After
<1>4. First(n) + k - 1 \in DOMAIN stream /\ stream[First(n) + k - 1] = UnitOf(Message(n), k)
  BY <1>3 DEF StreamInv
<1> QED  BY <1>1, <1>3, <1>4

LEMMA Bounds ==
  ASSUME TypeInv, StreamInv, NEW n \in DOMAIN asked
  PROVE  /\ First(n) \in Nat /\ First(n) >= 1 /\ After(n) \in Nat
         /\ After(n) = First(n) + Len(Message(n).headers) + 2 + Message(n).body
         /\ After(n) <= Len(stream) + 1 /\ First(n) <= arrived + 1
         /\ n < Len(asked) => After(n) <= arrived + 1
<1>1. /\ First(n) \in Nat /\ Message(n) \in Messages /\ DOMAIN asked = 1..Len(asked)
      /\ Len(asked) \in Nat /\ arrived \in Nat /\ Len(stream) \in Nat /\ arrived <= Len(stream)
      /\ DOMAIN stream = 1..Len(stream)
  BY StateType
<1>2. /\ Size(Message(n)) = Len(Message(n).headers) + 2 + Message(n).body
      /\ Len(Message(n).headers) \in Nat /\ Message(n).body \in Nat
  BY <1>1, MessageType
<1>3. /\ After(n) \in Nat /\ After(n) > First(n)
      /\ After(n) = First(n) + Len(Message(n).headers) + 2 + Message(n).body
  <2> DEFINE f == First(n)
             z == Size(Message(n))
             h == Len(Message(n).headers)
             b == Message(n).body
  <2>1. f \in Nat /\ h \in Nat /\ b \in Nat /\ z = h + 2 + b
    BY <1>1, <1>2
  <2>2. After(n) = f + z
    BY DEF After
  <2> HIDE DEF f, z, h, b
  <2>3. After(n) \in Nat /\ After(n) > f /\ After(n) = f + h + 2 + b
    BY <2>1, <2>2
  <2> QED  BY <2>3 DEF f, h, b
<1>4. First(n) >= 1
  <2>1. First(n) \in First(n) .. After(n) - 1
    BY <1>1, <1>3
  <2> QED  BY <2>1, UnitInStream, <1>1
<1>5. asked # <<>> /\ Len(asked) \in DOMAIN asked
  BY <1>1
<1>6. After(Len(asked)) = Len(stream) + 1 /\ First(Len(asked)) <= arrived + 1
  BY <1>5 DEF StreamInv
<1>7. CASE n = Len(asked)
  BY <1>1, <1>3, <1>4, <1>6, <1>7
<1>8. CASE n < Len(asked)
  <2>1. After(n) <= First(Len(asked))
    BY <1>5, <1>8 DEF StreamInv
  <2>2. First(Len(asked)) \in Nat
    BY <1>5, StateType
  <2> QED  BY <2>1, <2>2, <1>1, <1>3, <1>4, <1>6
<1> QED  BY <1>1, <1>7, <1>8

(* Behind the messages that were read are the octets of a body nobody      *)
(* announced, if any, and then the message that is read next.              *)
Before(n) == IF RunInto(n) THEN asked[n - 1].message.body ELSE 0

LEMMA AtBoundary ==
  ASSUME TypeInv, StreamInv, Len(results) <= Len(asked), Clean(Current)
  PROVE  /\ Boundary \in Nat
         /\ Current \in DOMAIN asked =>
              /\ Boundary < First(Current)
              /\ \A p \in Boundary + 1 .. First(Current) - 1 : stream[p].kind = "octet"
              /\ First(Current) - 1 - Boundary = Before(Current)
              /\ RunInto(Current) <=> Before(Current) # 0
         /\ Current \notin DOMAIN asked =>
              \A p \in Boundary + 1 .. Len(stream) : stream[p].kind = "octet"
<1>0. /\ Len(results) \in Nat /\ Len(asked) \in Nat /\ DOMAIN asked = 1..Len(asked)
      /\ DOMAIN results = 1..Len(results) /\ Len(stream) \in Nat
  BY StateType
<1>1. CASE results = <<>>
  <2>1. Boundary = 0 /\ Len(results) = 0 /\ Current = 1
    BY <1>0, <1>1 DEF Boundary, Current
  <2>2. ~RunInto(Current) /\ Before(Current) = 0
    BY <2>1 DEF RunInto, Before
  <2>3. Current \in DOMAIN asked => First(Current) = 1
    BY <2>1 DEF StreamInv
  <2>4. Current \notin DOMAIN asked => Len(stream) = 0
    <3>1. Current \notin DOMAIN asked => asked = <<>>
      BY <1>0, <2>1, EmptySeq DEF TypeInv, TypeOK
    <3> QED  BY <3>1 DEF StreamInv
  <2> QED  BY <2>1, <2>2, <2>3, <2>4
<1>2. CASE results # <<>>
  <2> DEFINE r == Len(results)
             m == Message(r)
  <2>1. r \in DOMAIN asked /\ r > 0 /\ Current = r + 1
    <3>1. Len(results) # 0
      BY <1>2, EmptySeq DEF TypeInv, TypeOK
    <3> QED  BY <3>1, <1>0 DEF Current
  <2>2. m \in Messages
    BY <2>1, StateType
  <2> DEFINE f == First(r)
             a == After(r)
             h == Len(m.headers)
             b == m.body
             rest == IF Unannounced(m) THEN b ELSE 0
  <2>3. f \in Nat /\ f >= 1 /\ a \in Nat /\ a = f + h + 2 + b
    BY <2>1, Bounds
  <2>4. h \in Nat /\ b \in Nat /\ Size(m) = h + 2 + b
    BY <2>2, MessageType
  <2>5. Boundary = f - 1 + Size(m) - rest
    BY <1>2 DEF Boundary, First, Message
  <2>6. /\ Boundary \in Nat /\ Boundary + 1 <= a /\ a - 1 - Boundary = rest
        /\ Unannounced(m) <=> rest # 0
        /\ Unannounced(m) => Boundary = f + h + 1
    <3>1. CASE Unannounced(m)
      <4>1. b > 0 /\ rest = b
        BY <3>1 DEF Unannounced
      <4> HIDE DEF f, a, h, b, rest, m
      <4> QED  BY <4>1, <3>1, <2>3, <2>4, <2>5
    <3>2. CASE ~Unannounced(m)
      <4>1. rest = 0
        BY <3>2
      <4> HIDE DEF f, a, h, b, rest, m
      <4> QED  BY <4>1, <3>2, <2>3, <2>4, <2>5
    <3> QED  BY <3>1, <3>2
  <2>7. \A p \in Boundary + 1 .. After(r) - 1 : stream[p].kind = "octet"
    <3> SUFFICES ASSUME NEW p \in Boundary + 1 .. After(r) - 1
                 PROVE  stream[p].kind = "octet"
      OBVIOUS
    <3>1. Unannounced(m)
      <4>1. p \in Boundary + 1 .. a - 1
        OBVIOUS
      <4>2. a - 1 - Boundary # 0
        <5> HIDE DEF a
        <5> QED  BY <4>1, <2>3, <2>6
      <4> QED  BY <4>2, <2>6
    <3>0. m.ends = {}
      <4>1. r \in 1..Current - 1
        BY <2>1, <1>0
      <4>2. ~Breaks(m)
        BY <4>1, <2>1 DEF Clean, Message
      <4> QED  BY <4>2, <3>1 DEF Breaks
    <3>2. Boundary = f + h + 1
      BY <3>1, <2>6
    <3>3. p \in First(r) .. After(r) - 1 /\ p - First(r) + 1 > Len(m.headers) + 2
      <4>1. p \in Boundary + 1 .. a - 1
        OBVIOUS
      <4> HIDE DEF f, a, h, b, rest, m
      <4>2. p \in f .. a - 1 /\ p - f + 1 > h + 2
        BY <4>1, <3>2, <2>3, <2>4
      <4> QED  BY <4>2 DEF f, a, h, m
    <3>4. stream[p] = UnitOf(m, p - First(r) + 1) /\ p - First(r) + 1 \in 1..Size(m)
      BY <3>3, <2>1, UnitInStream
    <3> QED  BY <3>0, <3>3, <3>4, <2>2, UnitKind
  <2>8. /\ RunInto(Current) <=> Unannounced(m)
        /\ Before(Current) = rest
    <3>1. Current > 1 /\ Current - 1 = r
      BY <2>1, <1>0
    <3> QED  BY <3>1 DEF RunInto, Before, Message
  <2>9. Current \in DOMAIN asked => First(Current) = After(r)
    BY <2>1, <1>0 DEF StreamInv
  <2>10. Current \notin DOMAIN asked => Len(stream) = After(r) - 1
    <3>0. Len(<<>>) = 0
      OBVIOUS
    <3> SUFFICES ASSUME Current \notin DOMAIN asked  PROVE  Len(stream) = After(r) - 1
      OBVIOUS
    <3>1. Current \notin 1..Len(asked) /\ Current \in Nat /\ r \in 1..Len(asked)
      BY <2>1, <1>0
    <3>2. r = Len(asked)
      <4> HIDE DEF r
      <4> QED  BY <3>1, <2>1, <1>0
    <3>3. asked # <<>>
      BY <3>0, <3>1
    <3> QED  BY <3>2, <3>3, <2>3, <1>0 DEF StreamInv
  <2> HIDE DEF rest, m
  <2>11. Boundary < a
    <3> HIDE DEF a
    <3> QED  BY <2>3, <2>6
  <2>12. RunInto(Current) <=> Before(Current) # 0
    BY <2>6, <2>8
  <2>13. a - 1 - Boundary = Before(Current)
    BY <2>6, <2>8
  <2> QED  BY <2>6, <2>7, <2>9, <2>10, <2>11, <2>12, <2>13
<1> QED  BY <1>1, <1>2

(* The line that ends first. *)
LEMMA FirstLine ==
  ASSUME TypeInv, HasLine
  PROVE  LineEnd \in taken + 1 .. arrived
<1> DEFINE R == {ss \in Nat \X Nat : ss[1] < ss[2]}
<1>1. LineEnds \subseteq Nat /\ LineEnds # {}
  BY StateType DEF LineEnds, HasLine
<1>2. IsWellFoundedOn(R, Nat)
  BY NatLessThanWellFounded DEF OpToRel
<1>3. PICK p \in LineEnds : \A q \in LineEnds : ~(<<q, p>> \in R)
  <2> HIDE DEF R
  <2> QED  BY <1>1, <1>2, WFMin
<1>4. \A q \in LineEnds : p <= q
  <2> SUFFICES ASSUME NEW q \in LineEnds  PROVE  p <= q
    OBVIOUS
  <2>1. p \in Nat /\ q \in Nat /\ (<<q, p>> \in R <=> q < p)
    BY <1>1
  <2> QED  BY <1>3, <2>1
<1>5. LineEnd \in LineEnds
  BY <1>3, <1>4 DEF LineEnd
<1> QED  BY <1>5 DEF LineEnds

(* What the next line holds, wherever the reader is.                       *)
LEMMA NextLineHolds ==
  ASSUME TypeInv, HasLine
  PROVE  /\ NextLine.kind = "top" => NextLine.top.uri \in STRING
         /\ NextLine.kind = "header" => NextLine.word \in Words
<1> DEFINE u == stream[LineEnd]
<1>1. LineEnd \in taken + 1 .. arrived
  BY FirstLine
<1>2. LineEnd \in 1..Len(stream) /\ stream \in Seq(AllUnits)
  BY <1>1, StateType DEF TypeInv
<1>3. u \in AllUnits
  BY <1>2
<1> HIDE DEF u
<1>4. CASE InFront = 0 /\ u.kind = "feed"
  <2>1. NextLine = EmptyLine
    BY <1>4 DEF NextLine, u
  <2> QED  BY <2>1 DEF EmptyLine
<1>5. CASE InFront = 0 /\ u.kind # "feed"
  <2>1. NextLine = u
    BY <1>5 DEF NextLine, u
  <2> QED  BY <2>1, <1>3, UnitHolds
<1>6. CASE InFront # 0 /\ u.kind = "top"
  <2>1. NextLine = [u EXCEPT !.top.method = "garbled"]
    BY <1>6 DEF NextLine, u
  <2> DEFINE t == u.top
  <2>2. /\ u = [kind |-> "top", top |-> t, room |-> u.room]
        /\ t = [method |-> t.method, schema |-> t.schema, uri |-> t.uri] /\ t.uri \in STRING
    BY <1>3, <1>6, UnitHolds
  <2> HIDE DEF t
  <2>3. NextLine.kind = "top" /\ NextLine.top = [t EXCEPT !.method = "garbled"]
    BY <2>1, <2>2
  <2>4. NextLine.top.uri = t.uri
    BY <2>2, <2>3
  <2> QED  BY <2>2, <2>3, <2>4
<1>7. CASE InFront # 0 /\ u.kind # "top"
  <2>1. NextLine = BodyLine
    BY <1>7 DEF NextLine, u
  <2> QED  BY <2>1 DEF BodyLine
<1> QED  BY <1>4, <1>5, <1>6, <1>7

LEMMA FirstLineEnd ==
  ASSUME TypeInv, NEW p \in taken + 1 .. arrived, stream[p].kind # "octet",
         \A q \in taken + 1 .. p - 1 : stream[q].kind = "octet"
  PROVE  HasLine /\ LineEnd = p
<1>1. taken \in Nat /\ arrived \in Nat
  BY StateType
<1>2. p \in LineEnds
  BY DEF LineEnds
<1>3. \A q \in LineEnds : q \in Int /\ p <= q
  BY <1>1 DEF LineEnds
<1>4. \A q \in LineEnds : (\A r \in LineEnds : q <= r) => q = p
  BY <1>1, <1>2, <1>3
<1>5. LineEnd = p
  BY <1>2, <1>3, <1>4 DEF LineEnd
<1> QED  BY <1>2, <1>5 DEF HasLine

(* Behind the top line each line is a header's, and then the empty one.    *)
LEMMA LineOfHeaders ==
  ASSUME TypeInv, StreamInv, TopRead, HeadersRead <= Len(Message(Current).headers)
  PROVE  /\ HasLine => /\ LineEnd = taken + 1 /\ taken < arrived
                       /\ HeadersRead + 2 \in 1..Size(Message(Current))
                       /\ NextLine = UnitOf(Message(Current), HeadersRead + 2)
                       /\ InFront = 0
         /\ ~HasLine => ~Arrived(Current)
<1> DEFINE m == Message(Current)
           f == First(Current)
           a == After(Current)
           h == Len(m.headers)
           b == m.body
           i == HeadersRead
           z == Size(m)
<1>1. /\ Current \in DOMAIN asked /\ i = taken - f /\ i \in Nat /\ i <= h
  BY DEF TopRead, HeadersRead
<1>2. /\ m \in Messages /\ taken \in Nat /\ arrived \in Nat /\ taken <= arrived
      /\ Len(stream) \in Nat
  BY <1>1, StateType
<1>3. /\ f \in Nat /\ a \in Nat /\ a = f + h + 2 + b
      /\ a <= Len(stream) + 1 /\ (Current < Len(asked) => a <= arrived + 1)
  BY <1>1, Bounds
<1>4. h \in Nat /\ b \in Nat /\ z = h + 2 + b
  BY <1>2, MessageType
<1>5. /\ taken + 1 \in f .. a - 1 /\ (taken + 1) - f + 1 = i + 2
      /\ i + 2 \in 1..z /\ i + 2 <= h + 2
  <2> HIDE DEF m, f, a, h, b, i, z
  <2> QED  BY <1>1, <1>2, <1>3, <1>4
<1>6. stream[taken + 1] = UnitOf(m, i + 2)
  <2>1. stream[taken + 1] = UnitOf(m, (taken + 1) - f + 1)
    BY <1>1, <1>5, UnitInStream
  <2> QED  BY <2>1, <1>5
<1>7. stream[taken + 1].kind \notin {"octet", "feed"}
  <2>1. i + 2 <= h + 2
    <3> HIDE DEF h, i
    <3> QED  BY <1>1, <1>4
  <2> QED  BY <2>1, <1>2, <1>5, <1>6, UnitKind
<1>8. CASE taken < arrived
  <2>1. taken + 1 \in taken + 1 .. arrived /\ taken + 1 .. (taken + 1) - 1 = {}
    BY <1>2, <1>8
  <2>2. HasLine /\ LineEnd = taken + 1
    BY <2>1, <1>7, FirstLineEnd
  <2>3. InFront = 0
    BY <2>2, <1>2 DEF InFront
  <2>4. NextLine = stream[taken + 1]
    BY <2>2, <2>3, <1>7 DEF NextLine
  <2> QED  BY <2>2, <2>3, <2>4, <1>5, <1>6, <1>8
<1>9. CASE taken = arrived
  <2>1. ~HasLine
    BY <1>2, <1>9 DEF HasLine, LineEnds
  <2>2. ~Arrived(Current)
    <3>1. taken + 1 <= a - 1
      <4> HIDE DEF f, a
      <4> QED  BY <1>5, <1>2, <1>3
    <3> HIDE DEF a
    <3>2. taken < Len(stream) /\ ~(Current < Len(asked))
      BY <3>1, <1>2, <1>3, <1>9
    <3>3. Current \in Nat /\ Len(asked) \in Nat
      BY StateType DEF Current
    <3> QED  BY <3>2, <3>3, <1>2, <1>9 DEF Arrived
  <2> QED  BY <2>1, <2>2
<1> QED  BY <1>2, <1>8, <1>9

(* In front of a message the next line is its top line, with the octets    *)
(* in front of it.                                                         *)
Garbled(line) == [line EXCEPT !.top.method = "garbled"]

LEMMA LineOfTop ==
  ASSUME TypeInv, StreamInv, Len(results) <= Len(asked), Clean(Current), taken = Boundary
  PROVE  /\ HasLine => /\ Current \in DOMAIN asked /\ InFront = Before(Current)
                       /\ LineEnd = First(Current) /\ First(Current) <= arrived
                       /\ NextLine = IF RunInto(Current) THEN Garbled(UnitOf(Message(Current), 1))
                                     ELSE UnitOf(Message(Current), 1)
         /\ ~HasLine => ~Arrived(Current)
<1>1. /\ taken \in Nat /\ arrived \in Nat /\ taken <= arrived /\ arrived <= Len(stream)
      /\ Len(stream) \in Nat /\ Current \in Nat /\ Len(asked) \in Nat
      /\ Current >= 1 /\ DOMAIN asked = 1..Len(asked)
  BY StateType DEF Current
<1>2. CASE Current \notin DOMAIN asked
  <2>1. \A p \in taken + 1 .. arrived : p \in Boundary + 1 .. Len(stream)
    BY <1>1
  <2>2. \A p \in taken + 1 .. arrived : stream[p].kind = "octet"
    BY <2>1, <1>2, AtBoundary
  <2>3. ~HasLine
    BY <2>2 DEF HasLine, LineEnds
  <2>4. Current \notin 1..Len(asked)
    BY <1>1, <1>2
  <2>5. ~(Len(asked) > Current) /\ Len(asked) # Current
    <3> DEFINE c == Current
               l == Len(asked)
    <3>1. c \in Nat /\ c >= 1 /\ l \in Nat /\ c \notin 1..l
      BY <1>1, <2>4
    <3> HIDE DEF c, l
    <3>2. ~(l > c) /\ l # c
      BY <3>1
    <3> QED  BY <3>2 DEF c, l
  <2>6. ~Arrived(Current)
    BY <2>5, Zenon DEF Arrived
  <2> QED  BY <2>3, <2>6
<1>3. CASE Current \in DOMAIN asked
  <2> DEFINE m == Message(Current)
             f == First(Current)
             a == After(Current)
             h == Len(m.headers)
             b == m.body
  <2>1. /\ Boundary < f
        /\ \A p \in Boundary + 1 .. f - 1 : stream[p].kind = "octet"
        /\ f - 1 - Boundary = Before(Current)
        /\ RunInto(Current) <=> Before(Current) # 0
    BY <1>3, AtBoundary
  <2>2. m \in Messages
    BY <1>3, StateType
  <2>3. /\ f \in Nat /\ a \in Nat /\ a = f + h + 2 + b
        /\ a <= Len(stream) + 1 /\ (Current < Len(asked) => a <= arrived + 1)
    BY <1>3, Bounds
  <2>4. h \in Nat /\ b \in Nat /\ Size(m) = h + 2 + b
    BY <2>2, MessageType
  <2>5. f \in f .. a - 1 /\ f - f + 1 = 1 /\ f < a /\ 1 \in 1..Size(m) /\ 1 <= h + 2
    <3> HIDE DEF m, f, a, h, b
    <3> QED  BY <2>3, <2>4
  <2>6. stream[f] = UnitOf(m, 1)
    <3>1. stream[f] = UnitOf(m, f - f + 1)
      BY <2>5, <1>3, UnitInStream
    <3> QED  BY <3>1, <2>5
  <2>7. stream[f].kind = "top"
    <3>1. UnitOf(m, 1) = [kind |-> "top", top |-> m.top, room |-> m.room]
      BY DEF UnitOf
    <3> QED  BY <3>1, <2>6
  <2>8. CASE f <= arrived
    <3>1. f \in taken + 1 .. arrived
      <4> HIDE DEF f
      <4> QED  BY <2>1, <2>3, <2>8, <1>1
    <3>2. HasLine /\ LineEnd = f
      BY <3>1, <2>1, <2>7, FirstLineEnd
    <3>3. InFront = Before(Current)
      <4>1. InFront = f - Boundary - 1 /\ Boundary \in Nat /\ f \in Nat
        BY <3>2, <2>3, AtBoundary DEF InFront
      <4> HIDE DEF f
      <4> QED  BY <4>1, <2>1
    <3>4. NextLine = IF RunInto(Current) THEN Garbled(UnitOf(m, 1)) ELSE UnitOf(m, 1)
      BY <3>2, <3>3, <2>1, <2>6, <2>7 DEF NextLine, Garbled
    <3> QED  BY <3>2, <3>3, <3>4, <2>8, <1>3
  <2>9. CASE ~(f <= arrived)
    <3> HIDE DEF f, a
    <3>1. \A p \in taken + 1 .. arrived : p \in Boundary + 1 .. f - 1
      BY <1>1, <2>1, <2>3, <2>9
    <3>2. ~HasLine
      BY <3>1, <2>1 DEF HasLine, LineEnds
    <3>3. ~(Current < Len(asked)) /\ arrived # Len(stream)
      BY <1>1, <2>3, <2>5, <2>9
    <3>4. ~Arrived(Current)
      BY <3>3, <1>1 DEF Arrived
    <3> QED  BY <3>2, <3>4
  <2> QED  BY <2>8, <2>9
<1> QED  BY <1>2, <1>3

-----------------------------------------------------------------------------
(* The client's steps. *)

LEMMA FreshValues == NoTop \in Tops /\ DefaultHeaders \in [Keys -> HeaderValues]
<1>1. NoTop \in Tops
  <2>1. "" \in STRING
    BY TextAssumption
  <2> QED  BY <2>1 DEF NoTop, Tops
<1>2. Absent \in HeaderValues /\ IntValue(0) \in HeaderValues
  <2>1. "absent" \in STRING
    BY TextAssumption
  <2>2. Absent = [index |-> 1, string |-> "absent"]
    BY DEF Absent, StringValue
  <2>3. IntValue(0) = [index |-> 0, int |-> 0]
    BY DEF IntValue
  <2> QED  BY <2>1, <2>2, <2>3 DEF HeaderValues
<1>3. ASSUME NEW k \in Keys  PROVE  DefaultHeaders[k] \in HeaderValues
  <2>1. DefaultHeaders[k] = IF k = "Content-Length" THEN IntValue(0) ELSE Absent
    BY DEF DefaultHeaders
  <2> QED  BY <1>2, <2>1
<1>4. DefaultHeaders = [k \in Keys |-> DefaultHeaders[k]]
  BY DEF DefaultHeaders
<1> QED  BY <1>1, <1>3, <1>4

LEMMA IntakeInit == Init => IntakeInv
<1> SUFFICES ASSUME Init  PROVE  IntakeInv
  OBVIOUS
<1>1. /\ asked = <<>> /\ stream = <<>> /\ results = <<>> /\ arrived = 0 /\ taken = 0
      /\ length = 0 /\ m_state = "idle" /\ failed = FALSE /\ alive = TRUE /\ gone = FALSE
      /\ m_temp_headers = DefaultHeaders /\ m_temp_top = NoTop
  BY DEF Init
<1>2. /\ \A S : <<>> \in Seq(S)
      /\ Len(<<>>) = 0 /\ DOMAIN <<>> = {}
  <2>1. \A S : <<>> \in Seq(S)
    BY EmptySeq
  <2>2. Len(<<>>) = 0
    OBVIOUS
  <2>3. DOMAIN <<>> = {}
    OBVIOUS
  <2> QED  BY <2>1, <2>2, <2>3
<1>3. TypeInv
  <2> DEFINE A == [message : Messages, first : Nat]
  <2>1. asked \in Seq(A)
    <3> HIDE DEF A
    <3> QED  BY <1>1, <1>2
  <2>2. arrived \in 0..Len(stream) /\ taken \in 0..arrived /\ length \in 0..buffer_size
    BY <1>1, <1>2, BoundsAssumption
  <2>3. m_state \in {"idle", "top", "header", "body", "transfer_normal", "done", "error"}
    BY <1>1
  <2>4. m_temp_top \in Tops /\ m_temp_headers \in [Keys -> HeaderValues]
    BY <1>1, FreshValues
  <2>5. results \in Seq(Requests) /\ stream \in Seq(AllUnits)
    BY <1>1, <1>2
  <2> QED  BY <1>1, <2>1, <2>2, <2>3, <2>4, <2>5 DEF TypeInv, TypeOK
<1>4. StreamInv
  BY <1>1, <1>2 DEF StreamInv
<1>5. PositionInv
  BY <1>1 DEF PositionInv
<1>6. InSync
  BY <1>1, <1>2 DEF InSync, Boundary
<1>7. DiesOnlyOn
  BY <1>1 DEF DiesOnlyOn
<1> QED  BY <1>1, <1>3, <1>4, <1>5, <1>6, <1>7 DEF IntakeInv

(* As long as nothing broke the order of things, what was read are the     *)
(* messages sent first.                                                    *)
LEMMA CleanSoFar ==
  ASSUME IntakeInv, Clean(Current)
  PROVE  PositionInv /\ Len(results) <= Len(asked) /\ Clean(Len(results))
<1>1. /\ Len(results) \in Nat /\ Len(asked) \in Nat /\ DOMAIN asked = 1..Len(asked)
      /\ DOMAIN results = 1..Len(results)
  BY StateType DEF IntakeInv
<1>2. Clean(Len(results))
  <2>1. \A i \in 1..Len(results) - 1 : i \in 1..Current - 1
    BY <1>1 DEF Current
  <2> QED  BY <2>1 DEF Clean
<1>3. Len(results) <= Len(asked)
  <2>1. CASE Len(results) = 0
    BY <1>1, <2>1
  <2>2. CASE Len(results) # 0
    <3>1. Len(results) \in DOMAIN results
      BY <1>1, <2>2
    <3>2. Len(results) \in DOMAIN asked
      BY <1>2, <3>1 DEF IntakeInv, InSync
    <3> QED  BY <1>1, <3>2
  <2> QED  BY <2>1, <2>2
<1> QED  BY <1>2, <1>3 DEF IntakeInv

(* What the reader does not do leaves it where it is. *)
LEMMA ReaderStays ==
  ASSUME PositionInv, UNCHANGED <<taken, m_state, m_temp_top, m_temp_headers, length, callerVars>>,
         Boundary' = Boundary,
         Current \in DOMAIN asked =>
           /\ Current \in DOMAIN asked' /\ asked'[Current] = asked[Current]
           /\ RunInto(Current)' = RunInto(Current)
  PROVE  PositionInv'
<1>1. results' = results /\ failed' = failed
  BY DEF callerVars
<1>2. Current' = Current
  BY <1>1 DEF Current
<1>3. Current \in DOMAIN asked =>
        /\ Current' \in DOMAIN asked' /\ Message(Current)' = Message(Current)
        /\ First(Current)' = First(Current) /\ After(Current)' = After(Current)
        /\ RunInto(Current)' = RunInto(Current) /\ RequestOf(Current)' = RequestOf(Current)
  BY <1>1 DEF Current, Message, First, After, RequestOf
<1>4. Current \in DOMAIN asked => HeadersRead' = HeadersRead
  BY <1>1, <1>3 DEF HeadersRead
<1>5. TopRead => TopRead'
  BY <1>3, <1>4 DEF TopRead
<1>6. ASSUME NEW i, HeadersHeld(i), Current \in DOMAIN asked  PROVE  HeadersHeld(i)'
  BY <1>3, <1>6 DEF HeadersHeld
<1>7. TopRead => Current \in DOMAIN asked
  BY DEF TopRead
<1>8. AllHeadersRead => AllHeadersRead'
  BY <1>3, <1>4, <1>5, <1>6, <1>7 DEF AllHeadersRead
<1>9. TopRead /\ HeadersHeld(HeadersRead) => HeadersHeld(HeadersRead)'
  BY <1>3, <1>4, <1>7 DEF HeadersHeld
<1>10. m_state = "header" =>
         /\ TopRead' /\ HeadersRead' <= Len(Message(Current)'.headers) /\ HeadersHeld(HeadersRead)'
  BY <1>3, <1>4, <1>5, <1>7, <1>9 DEF PositionInv
<1>11. ContentLength' = ContentLength
  BY DEF ContentLength
<1> QED  BY <1>1, <1>3, <1>8, <1>10, <1>11 DEF PositionInv

LEMMA DeliverKeeps ==
  ASSUME IntakeInv, Deliver \/ HangUp
  PROVE  IntakeInv'
<1>1. /\ UNCHANGED <<asked, stream, taken, m_state, m_temp_top, m_temp_headers, length, results,
                     failed, alive>>
      /\ alive
      /\ arrived' \in arrived..Len(stream) /\ gone' \in BOOLEAN
  <2>1. arrived \in Nat /\ Len(stream) \in Nat /\ arrived <= Len(stream)
    BY StateType DEF IntakeInv
  <2>2. gone \in BOOLEAN
    BY DEF IntakeInv, TypeInv, TypeOK
  <2>3. CASE Deliver
    <3>1. arrived < Len(stream) /\ arrived' = arrived + 1
      BY <2>3 DEF Deliver
    <3>2. arrived' \in arrived..Len(stream)
      BY <2>1, <3>1
    <3> QED  BY <2>2, <2>3, <3>2 DEF Deliver, callerVars
  <2>4. CASE HangUp
    <3>1. arrived' = arrived
      BY <2>4 DEF HangUp
    <3>2. arrived' \in arrived..Len(stream)
      BY <2>1, <3>1
    <3> QED  BY <2>4, <3>2 DEF HangUp, callerVars
  <2> QED  BY <2>3, <2>4
<1>2. arrived \in Nat /\ taken \in Nat /\ taken <= arrived /\ Len(stream) \in Nat /\ Len(asked) \in Nat
      /\ DOMAIN asked = 1..Len(asked)
  BY StateType DEF IntakeInv
<1>3. TypeInv'
  <2>1. arrived' \in 0..Len(stream') /\ taken' \in 0..arrived'
    BY <1>1, <1>2
  <2> QED  BY <1>1, <2>1 DEF IntakeInv, TypeInv, TypeOK, ContentLength
<1>4. StreamInv'
  <2>1. asked # <<>> => First(Len(asked)) \in Nat
    <3>1. asked # <<>> => Len(asked) \in DOMAIN asked
      <4>1. asked # <<>> => Len(asked) # 0
        BY EmptySeq DEF IntakeInv, TypeInv, TypeOK
      <4> QED  BY <4>1, <1>2
    <3> QED  BY <3>1, StateType DEF IntakeInv
  <2>2. asked # <<>> => First(Len(asked)) <= arrived' + 1
    BY <2>1, <1>1, <1>2 DEF IntakeInv, StreamInv
  <2> QED  BY <1>1, <2>2 DEF IntakeInv, StreamInv, First, Message, After
<1>5. Clean(Current)' => PositionInv'
  <2>1. Boundary' = Boundary /\ RunInto(Current)' = RunInto(Current)
    BY <1>1 DEF Boundary, RunInto, Current
  <2>2. Clean(Current)' <=> Clean(Current)
    BY <1>1 DEF Clean, Current
  <2> QED  BY <1>1, <2>1, <2>2, ReaderStays DEF IntakeInv, callerVars
<1>6. InSync'
  BY <1>1 DEF IntakeInv, InSync, Boundary, RequestOf, RunInto, Clean
<1>7. DiesOnlyOn'
  BY <1>1 DEF DiesOnlyOn
<1> QED  BY <1>1, <1>3, <1>4, <1>5, <1>6, <1>7 DEF IntakeInv

LEMMA BeginKeeps ==
  ASSUME IntakeInv, NEW m \in Messages, Begin(m)
  PROVE  IntakeInv'
<1> DEFINE A == [message : Messages, first : Nat]
           N == Len(asked)
           L == Len(stream)
           x == [message |-> m, first |-> L + 1]
<1>1. /\ UNCHANGED <<gone, arrived, taken, m_state, m_temp_top, m_temp_headers, length, results,
                     failed, alive>>
      /\ alive /\ arrived = L
      /\ asked' = Append(asked, x) /\ stream' = stream \o Units(m)
  BY DEF Begin, callerVars
<1>2. /\ asked \in Seq(A) /\ stream \in Seq(AllUnits) /\ N \in Nat /\ L \in Nat
      /\ DOMAIN asked = 1..N /\ DOMAIN stream = 1..L
      /\ arrived \in Nat /\ taken \in Nat /\ taken <= arrived
  BY StateType DEF IntakeInv, TypeInv, TypeOK
<1>3. Size(m) \in Nat /\ Size(m) = Len(m.headers) + 2 + m.body
  BY MessageType
<1>4. x \in A /\ x.message = m /\ x.first = L + 1
  BY <1>2
<1>5. Units(m) \in Seq(AllUnits) /\ Len(Units(m)) = Size(m)
      /\ \A k \in 1..Size(m) : Units(m)[k] = UnitOf(m, k)
  <2>1. \A k \in 1..Size(m) : UnitOf(m, k) \in AllUnits
    BY <1>3 DEF AllUnits
  <2>2. Units(m) \in [1..Size(m) -> AllUnits]
    BY <2>1 DEF Units
  <2>3. Units(m) \in Seq(AllUnits) /\ Len(Units(m)) = Size(m)
    BY <2>2, <1>3
  <2> QED  BY <2>3 DEF Units
<1>6. /\ stream' \in Seq(AllUnits) /\ Len(stream') = L + Size(m)
      /\ \A p \in 1..L : stream'[p] = stream[p]
      /\ \A k \in 1..Size(m) : stream'[L + k] = UnitOf(m, k)
  <2> DEFINE u == Units(m)
  <2>1. /\ u \in Seq(AllUnits) /\ Len(u) = Size(m)
        /\ \A k \in 1..Size(m) : u[k] = UnitOf(m, k)
    BY <1>5
  <2> HIDE DEF u
  <2>2. stream' = stream \o u
    BY <1>1 DEF u
  <2>3. stream \o u \in Seq(AllUnits) /\ Len(stream \o u) = L + Len(u)
    BY <1>2, <2>1, ConcatProperties
  <2>4. \A p \in 1..L + Size(m) : (stream \o u)[p] = IF p <= L THEN stream[p] ELSE u[p - L]
    BY <1>2, <2>1, ConcatProperties
  <2>5. \A p \in 1..L : p \in 1..L + Size(m) /\ p <= L
    BY <1>2, <1>3
  <2>6. \A k \in 1..Size(m) : L + k \in 1..L + Size(m) /\ ~(L + k <= L) /\ L + k - L = k
    BY <1>2, <1>3
  <2> QED  BY <2>1, <2>2, <2>3, <2>4, <2>5, <2>6
<1>7. /\ asked' \in Seq(A) /\ Len(asked') = N + 1 /\ DOMAIN asked' = 1..N + 1
      /\ asked'[N + 1] = x /\ \A n \in 1..N : asked'[n] = asked[n]
  <2> HIDE DEF A, x
  <2> QED  BY <1>1, <1>2, <1>4
<1>8. \A n \in 1..N : /\ Message(n)' = Message(n) /\ First(n)' = First(n) /\ After(n)' = After(n)
                      /\ RunInto(n)' = RunInto(n) /\ RequestOf(n)' = RequestOf(n)
  <2>1. \A n \in 1..N : Message(n)' = Message(n) /\ First(n)' = First(n) /\ After(n)' = After(n)
    BY <1>7 DEF Message, First, After
  <2>2. \A n \in 1..N : RunInto(n)' = RunInto(n)
    <3>1. \A n \in 1..N : n > 1 => n - 1 \in 1..N
      BY <1>2
    <3> QED  BY <3>1, <1>7 DEF RunInto
  <2> QED  BY <2>1, <2>2, <1>7 DEF RequestOf
<1>9. \A n \in {N + 1} : Message(n)' = m /\ First(n)' = L + 1 /\ After(n)' = L + 1 + Size(m)
  BY <1>4, <1>7 DEF Message, First, After
<1>10. TypeInv'
  <2>1. TypeOK'
    <3>1. asked' \in Seq([message : Messages, first : Nat])
      BY <1>7
    <3>2. arrived' \in 0..Len(stream') /\ taken' \in 0..arrived'
      BY <1>1, <1>2, <1>3, <1>6
    <3> QED  BY <3>1, <3>2, <1>1 DEF IntakeInv, TypeInv, TypeOK
  <2> QED  BY <2>1, <1>1, <1>6 DEF IntakeInv, TypeInv, ContentLength
<1>11. StreamInv'
  <2>1. \A n \in 1..N : First(n) \in Nat /\ First(n) >= 1 /\ After(n) \in Nat /\ After(n) <= L + 1
    BY <1>2, Bounds DEF IntakeInv
  <2>2. ASSUME NEW n \in DOMAIN asked', NEW k \in 1..Size(Message(n)')
        PROVE  /\ First(n)' + k - 1 \in DOMAIN stream'
               /\ stream'[First(n)' + k - 1] = UnitOf(Message(n)', k)
    <3>0. DOMAIN stream' = 1..L + Size(m)
      BY <1>6
    <3>1. CASE n \in 1..N
      <4>1. k \in 1..Size(Message(n))
        BY <3>1, <1>8
      <4>2. First(n) + k - 1 \in DOMAIN stream /\ stream[First(n) + k - 1] = UnitOf(Message(n), k)
        BY <4>1, <3>1, <1>2 DEF IntakeInv, StreamInv
      <4>3. First(n) + k - 1 \in 1..L /\ First(n) + k - 1 \in 1..L + Size(m)
        BY <4>2, <1>2, <1>3
      <4> QED  BY <3>0, <3>1, <4>2, <4>3, <1>6, <1>8
    <3>2. CASE n = N + 1
      <4>1. k \in 1..Size(m)
        BY <3>2, <1>9
      <4>2. L + 1 + k - 1 = L + k /\ L + k \in 1..L + Size(m)
        BY <4>1, <1>2, <1>3
      <4> QED  BY <3>0, <3>2, <4>1, <4>2, <1>6, <1>9
    <3> QED  BY <3>1, <3>2, <1>2, <1>7
  <2>3. ASSUME NEW n \in DOMAIN asked'
        PROVE  First(n)' = IF n = 1 THEN 1 ELSE After(n - 1)'
    <3>1. CASE n \in 1..N
      <4>1. n # 1 => n - 1 \in 1..N
        BY <3>1, <1>2
      <4>2. First(n) = IF n = 1 THEN 1 ELSE After(n - 1)
        BY <3>1, <1>2 DEF IntakeInv, StreamInv
      <4> QED  BY <3>1, <4>1, <4>2, <1>8
    <3>2. CASE n = N + 1
      <4>1. CASE asked = <<>>
        <5>1. N = 0 /\ L = 0
          BY <4>1 DEF IntakeInv, StreamInv
        <5> QED  BY <5>1, <3>2, <1>9
      <4>2. CASE asked # <<>>
        <5>1. N # 0
          BY <4>2, EmptySeq, <1>2
        <5>2. n # 1 /\ n - 1 = N /\ N \in 1..N
          BY <5>1, <3>2, <1>2
        <5>3. After(N) = L + 1
          BY <4>2 DEF IntakeInv, StreamInv
        <5> QED  BY <5>2, <5>3, <3>2, <1>8, <1>9
      <4> QED  BY <4>1, <4>2
    <3> QED  BY <3>1, <3>2, <1>2, <1>7
  <2>4. ASSUME NEW a \in DOMAIN asked', NEW b \in DOMAIN asked', a < b
        PROVE  After(a)' <= First(b)'
    <3>1. CASE b \in 1..N
      <4>1. a \in 1..N
        BY <3>1, <2>4, <1>2, <1>7
      <4>2. After(a) <= First(b)
        BY <3>1, <4>1, <2>4, <1>2 DEF IntakeInv, StreamInv
      <4> QED  BY <3>1, <4>1, <4>2, <1>8
    <3>2. CASE b = N + 1
      <4>1. a \in 1..N
        BY <3>2, <2>4, <1>2, <1>7
      <4> QED  BY <3>2, <4>1, <2>1, <1>8, <1>9
    <3> QED  BY <3>1, <3>2, <1>2, <1>7
  <2>5. asked' # <<>> /\ After(Len(asked))' = Len(stream') + 1 /\ First(Len(asked))' <= arrived' + 1
    <3>0. Len(<<>>) = 0
      OBVIOUS
    <3>1. asked' # <<>>
      BY <1>2, <1>7, <3>0
    <3>2. L + 1 + Size(m) = Len(stream') + 1 /\ L + 1 <= arrived' + 1
      BY <1>1, <1>2, <1>3, <1>6
    <3>3. First(Len(asked))' = L + 1 /\ After(Len(asked))' = L + 1 + Size(m)
      BY <1>4, <1>7 DEF First, After, Message
    <3> QED  BY <3>1, <3>2, <3>3
  <2> QED  BY <2>2, <2>3, <2>4, <2>5 DEF StreamInv
<1>12. \A n : Clean(n)' => Clean(n)
  <2> SUFFICES ASSUME NEW n, Clean(n)', NEW i \in 1..n - 1, i \in DOMAIN asked
               PROVE  ~Breaks(asked[i].message)
    BY DEF Clean
  <2>1. i \in DOMAIN asked' /\ asked'[i] = asked[i]
    BY <1>2, <1>7
  <2> QED  BY <2>1 DEF Clean
<1>13. Len(results) \in 1..N \/ results = <<>> => Boundary' = Boundary
  BY <1>1, <1>7 DEF Boundary
<1>14. Clean(Current)' => PositionInv'
  <2> SUFFICES ASSUME Clean(Current)'  PROVE  PositionInv'
    OBVIOUS
  <2>1. Clean(Current) /\ Current' = Current
    BY <1>1, <1>12 DEF Current
  <2>2. Current \in DOMAIN asked =>
           /\ Current \in DOMAIN asked' /\ asked'[Current] = asked[Current]
           /\ RunInto(Current)' = RunInto(Current)
    <3>1. Current \in 1..N => Current \in 1..N + 1
      BY <1>2
    <3> QED  BY <2>1, <3>1, <1>2, <1>7, <1>8 DEF RunInto
  <2>3. Len(results) \in 1..N \/ results = <<>>
    <3>1. results # <<>> => Len(results) # 0
      BY EmptySeq DEF IntakeInv, TypeInv, TypeOK
    <3>2. Len(results) <= N /\ Len(results) \in Nat
      BY <2>1, CleanSoFar, StateType DEF IntakeInv
    <3> QED  BY <3>1, <3>2, <1>2
  <2> QED  BY <1>1, <1>13, <2>1, <2>2, <2>3, CleanSoFar, ReaderStays DEF callerVars
<1>15. InSync'
  <2>1. ASSUME NEW i \in DOMAIN results, Clean(i)'
        PROVE  i \in 1..N /\ results[i] = RequestOf(i)
    BY <1>2, <1>12, <2>1 DEF IntakeInv, InSync
  <2>2. ASSUME NEW i \in DOMAIN results', Clean(i)'
        PROVE  i \in DOMAIN asked' /\ results'[i] = RequestOf(i)'
    <3>1. i \in 1..N /\ results[i] = RequestOf(i)
      BY <1>1, <2>1, <2>2
    <3>2. i \in 1..N + 1
      BY <3>1, <1>2
    <3> QED  BY <3>1, <3>2, <1>1, <1>7, <1>8
  <2>3. ASSUME m_state' = "idle", ~failed', Clean(Len(results))'
        PROVE  taken' = Boundary'
    <3>1. Clean(Len(results)) /\ Clean(Len(results))'
      BY <1>1, <1>12, <2>3
    <3>2. taken = Boundary
      BY <3>1, <1>1, <2>3 DEF IntakeInv, InSync
    <3>3. Len(results) \in 1..N \/ results = <<>>
      <4>1. results # <<>> => Len(results) # 0
        BY EmptySeq DEF IntakeInv, TypeInv, TypeOK
      <4>2. Len(results) \in Nat /\ DOMAIN results = 1..Len(results)
        BY StateType DEF IntakeInv
      <4>3. Len(results) # 0 => Len(results) \in DOMAIN results
        BY <4>2
      <4> QED  BY <4>1, <4>3, <3>1, <1>2 DEF IntakeInv, InSync
    <3> QED  BY <3>2, <3>3, <1>1, <1>13
  <2> QED  BY <2>2, <2>3 DEF InSync
<1>16. DiesOnlyOn'
  BY <1>1 DEF DiesOnlyOn
<1> QED  BY <1>1, <1>10, <1>11, <1>14, <1>15, <1>16 DEF IntakeInv

-----------------------------------------------------------------------------
(* The reader's steps. *)

LEMMA ReaderFrame ==
  ASSUME UNCHANGED <<asked, stream, arrived, results>>
  PROVE  /\ Current' = Current /\ Boundary' = Boundary
         /\ Message(Current)' = Message(Current) /\ First(Current)' = First(Current)
         /\ After(Current)' = After(Current) /\ RunInto(Current)' = RunInto(Current)
         /\ RequestOf(Current)' = RequestOf(Current)
BY DEF Current, Boundary, Message, First, After, RunInto, RequestOf

(* Whatever the reader takes a line for, each variable keeps its type.     *)
States == {"idle", "top", "header", "body", "transfer_normal", "done", "error"}

LEMMA TypesKept ==
  ASSUME TypeInv, UNCHANGED <<clientVars, callerVars>>, alive' \in BOOLEAN,
         taken' \in 0..arrived, length' \in 0..buffer_size, m_state' \in States,
         m_temp_top' \in Tops, m_temp_headers' \in [Keys -> HeaderValues],
         m_state' = "transfer_normal" => ContentLength.index = 0 /\ ContentLength' = ContentLength
  PROVE  TypeInv'
<1>1. UNCHANGED <<asked, stream, gone, arrived, results, failed>>
  BY DEF clientVars, callerVars
<1>2. TypeOK'
  BY <1>1 DEF TypeInv, TypeOK, States
<1> QED  BY <1>1, <1>2 DEF TypeInv

LEMMA ReadTypes ==
  ASSUME TypeInv, Read
  PROVE  TypeInv'
<1>1. /\ arrived \in Nat /\ taken \in Nat /\ taken \in 0..arrived /\ buffer_size \in Nat
      /\ 0 \in 0..buffer_size /\ length \in 0..buffer_size
  BY StateType, BoundsAssumption DEF TypeInv, TypeOK
<1>2. /\ m_temp_top \in Tops /\ m_temp_headers \in [Keys -> HeaderValues]
      /\ m_state \in States /\ alive \in BOOLEAN
  BY DEF TypeInv, TypeOK, States
<1>3. HasLine => LineEnd \in 0..arrived
  <2>1. HasLine => LineEnd \in taken + 1 .. arrived
    BY FirstLine
  <2> QED  BY <2>1, <1>1
<1>4. CASE Reset
  <2>1. /\ UNCHANGED <<clientVars, taken, callerVars, alive>>
        /\ m_state' = "top" /\ m_temp_top' = NoTop /\ m_temp_headers' = DefaultHeaders
        /\ length' = 0
    BY <1>4 DEF Reset, Step
  <2> QED  BY <1>1, <1>2, <2>1, FreshValues, TypesKept DEF States
<1>5. CASE StateTop
  <2>1. /\ UNCHANGED <<clientVars, m_temp_headers, callerVars, alive>>
        /\ m_state' = "header" /\ HasLine /\ taken' = LineEnd /\ length' = 0
        /\ m_temp_top' = IF NextLine.kind # "top" THEN NoTop
                    ELSE [method |-> enumifyMethod(NextLine.top.method),
                          schema |-> enumifySchema(NextLine.top.schema), uri |-> NextLine.top.uri]
    BY <1>5 DEF StateTop, Step, TakeLine
  <2>2. m_temp_top' \in Tops
    <3>1. /\ enumifyMethod(NextLine.top.method) \in {"h1_get", "h1_post", "h1_nop"}
          /\ enumifySchema(NextLine.top.schema) \in {"http_1_0", "http_1_1", "http_unknown"}
      BY DEF enumifyMethod, enumifySchema
    <3>2. NextLine.kind = "top" => NextLine.top.uri \in STRING
      BY <2>1, NextLineHolds
    <3>3. CASE NextLine.kind # "top"
      BY <2>1, <3>3, FreshValues
    <3>4. CASE NextLine.kind = "top"
      BY <2>1, <3>1, <3>2, <3>4 DEF Tops
    <3> QED  BY <3>3, <3>4
  <2> QED  BY <1>1, <1>2, <1>3, <2>1, <2>2, TypesKept DEF States
<1>6. CASE StateHeader
  <2>1. /\ UNCHANGED <<clientVars, m_temp_top, length, callerVars, alive>>
        /\ m_state' = "header" /\ HasLine /\ Convertible(NextLine) /\ taken' = LineEnd
        /\ m_temp_headers' =
             [k \in Keys |-> IF NextLine.kind = "header" /\ NextLine.key = k
                             THEN Stored(NextLine.word) ELSE m_temp_headers[k]]
    BY <1>6 DEF StateHeader, Step, TakeLine
  <2>2. NextLine.kind = "header" => Stored(NextLine.word) \in HeaderValues
    <3>1. NextLine.kind = "header" =>
            NextLine.word \in Words /\ (NextLine.word.digits => NextLine.word.fits)
      BY <2>1, NextLineHolds DEF Convertible
    <3> QED  BY <3>1, WordIs
  <2>3. m_temp_headers' \in [Keys -> HeaderValues]
    BY <1>2, <2>1, <2>2
  <2> QED  BY <1>1, <1>2, <1>3, <2>1, <2>3, TypesKept DEF States
<1>7. CASE HeaderThrows \/ BodyThrows
  <2>1. /\ UNCHANGED <<clientVars, taken, m_state, m_temp_top, m_temp_headers, length, callerVars>>
        /\ alive' = FALSE /\ m_state # "transfer_normal"
    BY <1>7 DEF HeaderThrows, BodyThrows, Dies
  <2> QED  BY <1>1, <1>2, <2>1, TypesKept
<1>8. CASE EndHeaders
  <2>1. /\ UNCHANGED <<clientVars, m_temp_top, m_temp_headers, callerVars, alive>>
        /\ m_state' = "body" /\ HasLine /\ taken' = LineEnd /\ length' = 0
    BY <1>8 DEF EndHeaders, Step, TakeLine
  <2> QED  BY <1>1, <1>2, <1>3, <2>1, TypesKept DEF States
<1>9. CASE StateBody
  <2>1. /\ UNCHANGED <<clientVars, taken, m_temp_top, m_temp_headers, length, callerVars, alive>>
        /\ ContentLength.index = 0 /\ m_state' \in {"done", "transfer_normal"}
    BY <1>9 DEF StateBody, Step
  <2>2. ContentLength' = ContentLength
    BY <2>1 DEF ContentLength
  <2> QED  BY <1>1, <1>2, <2>1, <2>2, TypesKept DEF States
<1>10. CASE StateTransferNormal
  <2>1. /\ UNCHANGED <<clientVars, m_temp_top, m_temp_headers, callerVars, alive>>
        /\ m_state = "transfer_normal" /\ m_state' = "done"
        /\ ContentLength.int <= buffer_size /\ arrived - taken >= ContentLength.int
        /\ taken' = taken + ContentLength.int /\ length' = ContentLength.int
    BY <1>10 DEF StateTransferNormal, Step
  <2>2. PICK l \in Nat : l = ContentLength.int
    <3>1. ContentLength.index = 0
      BY <2>1 DEF TypeInv
    <3>2. ContentLength \in HeaderValues
      BY <1>2 DEF ContentLength, Keys
    <3> QED  BY <3>1, <3>2 DEF HeaderValues
  <2>3. taken' \in 0..arrived /\ length' \in 0..buffer_size
    <3>1. l <= buffer_size /\ arrived - taken >= l /\ taken' = taken + l /\ length' = l
      BY <2>1, <2>2
    <3> QED  BY <3>1, <1>1
  <2> QED  BY <1>2, <2>1, <2>3, TypesKept DEF States
<1>11. CASE Fail
  <2>1. /\ UNCHANGED <<clientVars, taken, m_temp_top, m_temp_headers, callerVars, alive>>
        /\ m_state' = "error" /\ length' = 0
    BY <1>11 DEF Fail, Step
  <2> QED  BY <1>1, <1>2, <2>1, TypesKept DEF States
<1>12. CASE Return
  <2> DEFINE R == [top |-> m_temp_top, length |-> length, headers |-> m_temp_headers]
  <2>1. /\ UNCHANGED <<asked, stream, gone, arrived, taken, m_temp_top, m_temp_headers, length, alive>>
        /\ m_state' = "idle" /\ results' \in {results, Append(results, R)}
        /\ failed' \in {failed, TRUE}
    BY <1>12 DEF Return, Step, clientVars
  <2>2. R \in Requests /\ results \in Seq(Requests)
    BY <1>1, <1>2 DEF Requests, TypeInv, TypeOK
  <2> HIDE DEF R
  <2>3. results' \in Seq(Requests)
    BY <2>1, <2>2
  <2>4. TypeOK'
    BY <2>1, <2>3 DEF TypeInv, TypeOK
  <2> QED  BY <2>1, <2>4 DEF TypeInv
<1> QED  BY <1>4, <1>5, <1>6, <1>7, <1>8, <1>9, <1>10, <1>11, <1>12 DEF Read

(* What every step inside a call leaves true. *)
LEMMA CallKeeps ==
  ASSUME IntakeInv, Read, UNCHANGED <<clientVars, callerVars>>, alive', ~failed,
         m_state' # "idle", PositionInv'
  PROVE  IntakeInv'
<1>1. UNCHANGED <<asked, stream, gone, arrived, results, failed>>
  BY DEF clientVars, callerVars
<1>2. TypeInv'
  BY ReadTypes DEF IntakeInv
<1>3. StreamInv'
  BY <1>1 DEF IntakeInv, StreamInv, First, Message, After
<1>4. InSync'
  BY <1>1 DEF IntakeInv, InSync, RequestOf, RunInto, Clean
<1>5. DiesOnlyOn'
  BY DEF DiesOnlyOn
<1> QED  BY <1>1, <1>2, <1>3, <1>4, <1>5 DEF IntakeInv

(* Behind a body that broke the order of things nothing is said.           *)
LEMMA UncleanKeeps ==
  ASSUME IntakeInv, ~Clean(Current), Read
  PROVE  IntakeInv'
<1> DEFINE N == Len(results)
<1>1. UNCHANGED <<asked, stream, gone, arrived>>
  BY DEF Read, Reset, StateTop, StateHeader, HeaderThrows, EndHeaders, StateBody, BodyThrows,
         StateTransferNormal, Fail, Return, Dies, clientVars
<1>2. TypeInv'
  BY ReadTypes DEF IntakeInv
<1>3. StreamInv'
  BY <1>1 DEF IntakeInv, StreamInv, First, Message, After
<1>4. N \in Nat /\ DOMAIN results = 1..N /\ Current = N + 1
  BY StateType DEF IntakeInv, Current
<1>5. /\ ~Clean(N + 1) /\ ~Clean(N + 1 + 1)
      /\ \A n : Clean(n)' = Clean(n) /\ RequestOf(n)' = RequestOf(n)
  <2>1. ~Clean(N + 1)
    BY <1>4
  <2>2. 1..(N + 1) - 1 \subseteq 1..(N + 1 + 1) - 1
    BY <1>4
  <2>3. ~Clean(N + 1 + 1)
    BY <2>1, <2>2 DEF Clean
  <2>4. \A n : Clean(n)' = Clean(n) /\ RequestOf(n)' = RequestOf(n)
    BY <1>1 DEF Clean, RequestOf, RunInto
  <2> QED  BY <2>1, <2>3, <2>4
<1>6. CASE m_state' = "idle" /\ ~failed'
  <2>1. results' = Append(results, [top |-> m_temp_top, length |-> length,
                                    headers |-> m_temp_headers])
    BY <1>6 DEF Read, Reset, StateTop, StateHeader, HeaderThrows, EndHeaders, StateBody, BodyThrows,
                StateTransferNormal, Fail, Return, Dies, Step, callerVars, IntakeInv
  <2>2. /\ Len(results') = N + 1 /\ DOMAIN results' = 1..N + 1
        /\ \A i \in 1..N : results'[i] = results[i]
    <3> DEFINE R == [top |-> m_temp_top, length |-> length, headers |-> m_temp_headers]
    <3>1. results \in Seq(Requests) /\ results' = Append(results, R)
      BY <2>1 DEF IntakeInv, TypeInv, TypeOK
    <3> HIDE DEF R
    <3> QED  BY <3>1, <1>4
  <2>3. ASSUME NEW i \in DOMAIN results', Clean(i)
        PROVE  i \in DOMAIN asked' /\ results'[i] = RequestOf(i)'
    <3>1. i \in 1..N
      <4>1. i # N + 1
        BY <2>3, <1>5
      <4> QED  BY <4>1, <2>2, <1>4
    <3> QED  BY <3>1, <2>2, <2>3, <1>1, <1>4, <1>5 DEF IntakeInv, InSync
  <2>4. InSync'
    BY <2>2, <2>3, <1>5 DEF InSync
  <2>5. Current' = N + 1 + 1
    BY <2>2 DEF Current
  <2>6. DiesOnlyOn'
    BY <2>2, <1>5 DEF DiesOnlyOn
  <2> QED  BY <1>2, <1>3, <1>5, <1>6, <2>4, <2>5, <2>6 DEF IntakeInv
<1>7. CASE ~(m_state' = "idle" /\ ~failed')
  <2>1. results' = results /\ (m_state' # "idle" => ~failed')
    <3>1. m_state # "idle" => ~failed
      BY DEF IntakeInv
    <3>2. CASE Return
      BY <1>7, <3>1, <3>2 DEF Return, Step
    <3>3. CASE Reset
      BY <3>3 DEF Reset, callerVars
    <3>4. CASE ~Return /\ ~Reset
      BY <3>1, <3>4 DEF Read, StateTop, StateHeader, HeaderThrows, EndHeaders, StateBody,
                        BodyThrows, StateTransferNormal, Fail, Dies, Step, callerVars
    <3> QED  BY <3>2, <3>3, <3>4
  <2>2. InSync'
    BY <1>1, <1>5, <1>7, <2>1 DEF IntakeInv, InSync
  <2>3. Current' = N + 1
    BY <2>1 DEF Current
  <2>4. DiesOnlyOn'
    BY <2>1, <1>5 DEF DiesOnlyOn
  <2> QED  BY <1>2, <1>3, <1>5, <2>1, <2>2, <2>3, <2>4 DEF IntakeInv
<1> QED  BY <1>6, <1>7

LEMMA ResetKeeps ==
  ASSUME IntakeInv, Clean(Current), Read, Reset
  PROVE  IntakeInv'
<1>1. /\ UNCHANGED <<clientVars, taken, callerVars, alive>> /\ alive
      /\ m_state = "idle" /\ m_state' = "top" /\ ~failed
      /\ m_temp_headers' = DefaultHeaders /\ length' = 0
  BY DEF Reset, Step
<1>2. PositionInv'
  <2>1. Boundary' = Boundary /\ taken = Boundary
    BY <1>1, CleanSoFar, ReaderFrame DEF clientVars, callerVars, IntakeInv, InSync
  <2> QED  BY <1>1, <2>1 DEF PositionInv
<1> QED  BY <1>1, <1>2, CallKeeps

LEMMA TopKeeps ==
  ASSUME IntakeInv, Clean(Current), Read, StateTop
  PROVE  IntakeInv'
<1> DEFINE m == Message(Current)
           n == Current
<1>1. /\ UNCHANGED <<clientVars, m_temp_headers, callerVars, alive>> /\ alive
      /\ m_state = "top" /\ m_state' = "header"
      /\ HasLine /\ ~LongLine /\ taken' = LineEnd /\ length' = 0
      /\ m_temp_top' = IF NextLine.kind # "top" THEN NoTop
                    ELSE [method |-> enumifyMethod(NextLine.top.method),
                          schema |-> enumifySchema(NextLine.top.schema), uri |-> NextLine.top.uri]
  BY DEF StateTop, Step, TakeLine
<1>2. taken = Boundary /\ m_temp_headers = DefaultHeaders /\ ~failed
  BY <1>1, CleanSoFar DEF IntakeInv, PositionInv
<1>3. /\ n \in DOMAIN asked /\ LineEnd = First(n) /\ First(n) <= arrived
      /\ NextLine = IF RunInto(n) THEN Garbled(UnitOf(m, 1)) ELSE UnitOf(m, 1)
  BY <1>1, <1>2, CleanSoFar, LineOfTop DEF IntakeInv
<1>4. m \in Messages /\ First(n) \in Nat /\ arrived \in Nat
  BY <1>3, StateType DEF IntakeInv
<1>5. /\ m.top = [method |-> m.top.method, schema |-> m.top.schema, uri |-> m.top.uri]
      /\ Len(m.headers) \in Nat
  BY <1>4, MessageType
<1>6. UnitOf(m, 1) = [kind |-> "top", top |-> m.top, room |-> m.room]
  BY DEF UnitOf
<1>7. /\ NextLine.kind = "top"
      /\ NextLine.top.method = IF RunInto(n) THEN "garbled" ELSE m.top.method
      /\ NextLine.top.schema = m.top.schema /\ NextLine.top.uri = m.top.uri
  <2> DEFINE t == m.top
  <2>1. t = [method |-> t.method, schema |-> t.schema, uri |-> t.uri]
    BY <1>5
  <2>2. CASE ~RunInto(n)
    BY <1>3, <1>6, <2>2
  <2>3. CASE RunInto(n)
    <3>1. Garbled(UnitOf(m, 1))
            = [kind |-> "top", top |-> [t EXCEPT !.method = "garbled"], room |-> m.room]
      BY <1>6 DEF Garbled
    <3>2. [t EXCEPT !.method = "garbled"]
            = [method |-> "garbled", schema |-> t.schema, uri |-> t.uri]
      BY <2>1
    <3> QED  BY <1>3, <2>3, <3>1, <3>2
  <2> QED  BY <2>2, <2>3
<1>8. m_temp_top' = TopAs(m.top, RunInto(n))
  <2>1. enumifyMethod(NextLine.top.method)
          = IF RunInto(n) THEN "h1_nop"
            ELSE Named(methods, HttpMethod, {"h1_get", "h1_post"}, "h1_nop", m.top.method)
    <3>1. enumifyMethod("garbled") = "h1_nop"
      BY DEF enumifyMethod
    <3> QED  BY <3>1, <1>7, NamesAreRead
  <2>2. enumifySchema(NextLine.top.schema)
          = Named(schemas, HttpSchema, {"http_1_0", "http_1_1"}, "http_unknown", m.top.schema)
    BY <1>7, NamesAreRead
  <2> QED  BY <1>1, <1>7, <2>1, <2>2 DEF TopAs
<1>9. HeadersHeld(0)' /\ TopRead' /\ HeadersRead' = 0
  <2>1. /\ Current' = n /\ Message(Current)' = m /\ First(Current)' = First(n)
        /\ RunInto(Current)' = RunInto(n) /\ asked' = asked
    BY <1>1, ReaderFrame DEF clientVars, callerVars
  <2>2. HeadersRead' = 0
    BY <1>1, <1>3, <1>4, <2>1 DEF HeadersRead
  <2>3. TopRead'
    BY <1>3, <1>5, <1>8, <2>1, <2>2 DEF TopRead
  <2>4. HeadersOf(m, 0, m_temp_headers')
    BY <1>1, <1>2 DEF HeadersOf
  <2> QED  BY <2>1, <2>2, <2>3, <2>4 DEF HeadersHeld
<1>10. PositionInv'
  <2>1. Message(Current)' = m
    BY <1>1, ReaderFrame DEF clientVars, callerVars
  <2>2. HeadersHeld(HeadersRead)'
    BY <1>9 DEF HeadersHeld
  <2>3. HeadersRead' <= Len(Message(Current)'.headers)
    BY <1>5, <1>9, <2>1
  <2> QED  BY <1>1, <1>9, <2>1, <2>2, <2>3 DEF PositionInv
<1> QED  BY <1>1, <1>2, <1>10, CallKeeps

(* What a header line is. *)
LEMMA HeaderLine ==
  ASSUME IntakeInv, Clean(Current), m_state = "header", HasLine
  PROVE  LET m == Message(Current)  i == HeadersRead IN
         /\ Current \in DOMAIN asked /\ m \in Messages
         /\ i \in Nat /\ i <= Len(m.headers) /\ First(Current) \in Nat
         /\ LineEnd = taken + 1 /\ InFront = 0
         /\ NextLine.kind # "empty" =>
              /\ i < Len(m.headers) /\ i + 1 \in DOMAIN m.headers
              /\ NextLine = [kind |-> "header", key |-> m.headers[i + 1].key,
                             word |-> m.headers[i + 1].word]
         /\ NextLine.kind = "empty" => i = Len(m.headers)
         /\ NextLine.kind # "top"
<1> DEFINE m == Message(Current)
           i == HeadersRead
           h == Len(m.headers)
<1>1. TopRead /\ i <= h
  BY CleanSoFar DEF PositionInv
<1>2. /\ LineEnd = taken + 1 /\ taken < arrived /\ i + 2 \in 1..Size(m)
      /\ NextLine = UnitOf(m, i + 2) /\ InFront = 0
  BY <1>1, LineOfHeaders DEF IntakeInv
<1>3. Current \in DOMAIN asked /\ i \in Nat
  BY <1>1 DEF TopRead
<1>4. m \in Messages /\ First(Current) \in Nat /\ taken \in Nat /\ arrived \in Nat
  BY <1>3, StateType DEF IntakeInv
<1>5. h \in Nat /\ DOMAIN m.headers = 1..h
  BY <1>4, MessageType
<1>7. CASE i < h
  <2>1. i + 2 > 1 /\ i + 2 <= h + 1 /\ (i + 2) - 1 = i + 1 /\ i + 1 \in 1..h
    <3> HIDE DEF i, h
    <3> QED  BY <1>3, <1>5, <1>7
  <2>2. NextLine = [kind |-> "header", key |-> m.headers[(i + 2) - 1].key,
                    word |-> m.headers[(i + 2) - 1].word]
    BY <1>2, <1>4, <2>1, UnitIs
  <2>3. NextLine = [kind |-> "header", key |-> m.headers[i + 1].key,
                    word |-> m.headers[i + 1].word]
    BY <2>1, <2>2
  <2>4. NextLine.kind = "header"
    BY <2>3
  <2>5. NextLine.kind # "empty"
    BY <2>4
  <2>6. i + 1 \in DOMAIN m.headers
    BY <1>5, <2>1
  <2> QED  BY <1>1, <1>2, <1>3, <1>4, <1>7, <2>3, <2>4, <2>5, <2>6
<1>8. CASE i = h
  <2>1. NextLine = EmptyLine
    BY <1>2, <1>4, <1>8, UnitIs
  <2>2. NextLine.kind = "empty"
    BY <2>1 DEF EmptyLine
  <2> QED  BY <1>1, <1>2, <1>3, <1>4, <1>8, <2>2
<1>9. i < h \/ i = h
  <2> HIDE DEF i, h
  <2> QED  BY <1>1, <1>3, <1>5
<1> QED  BY <1>7, <1>8, <1>9

LEMMA HeaderKeeps ==
  ASSUME IntakeInv, Clean(Current), Read, StateHeader
  PROVE  IntakeInv'
<1> DEFINE m == Message(Current)
           i == HeadersRead
           w == m.headers[i + 1].word
<1>1. /\ UNCHANGED <<clientVars, m_temp_top, length, callerVars, alive>> /\ alive
      /\ m_state = "header" /\ m_state' = "header"
      /\ HasLine /\ NextLine.kind # "empty" /\ Convertible(NextLine) /\ taken' = LineEnd
      /\ m_temp_headers' =
           [k \in Keys |-> IF NextLine.kind = "header" /\ NextLine.key = k
                           THEN Stored(NextLine.word) ELSE m_temp_headers[k]]
  BY DEF StateHeader, Step, TakeLine
<1>2. /\ Current \in DOMAIN asked /\ m \in Messages
      /\ i \in Nat /\ i < Len(m.headers) /\ i + 1 \in DOMAIN m.headers
      /\ First(Current) \in Nat /\ LineEnd = taken + 1
      /\ NextLine = [kind |-> "header", key |-> m.headers[i + 1].key, word |-> w]
  BY <1>1, HeaderLine
<1>3. TopRead /\ HeadersHeld(i) /\ ~failed /\ length = 0
  BY <1>1, CleanSoFar DEF IntakeInv, PositionInv
<1>4. Len(m.headers) \in Nat /\ w \in Words
  BY <1>2, MessageType
<1>5. w # NoDigits
  <2>1. w.digits => w.fits
    BY <1>1, <1>2 DEF Convertible
  <2> QED  BY <2>1, <1>4, WordIs
<1>6. HeadersOf(m, i + 1, m_temp_headers')
  <2>1. HeadersOf(m, i, m_temp_headers)
    BY <1>3 DEF HeadersHeld
  <2>2. m_temp_headers' = [k \in Keys |-> IF m.headers[i + 1].key = k THEN Stored(w)
                                          ELSE m_temp_headers[k]]
    BY <1>1, <1>2
  <2> QED  BY <1>2, <2>1, <2>2, OneMoreHeader
<1>7. HeadersRead' = i + 1
  <2>1. First(Current)' = First(Current) /\ taken' = taken + 1 /\ taken \in Nat
    BY <1>1, <1>2, ReaderFrame, StateType DEF clientVars, callerVars, IntakeInv
  <2> QED  BY <2>1, <1>2 DEF HeadersRead
<1>8. /\ Current' = Current /\ Message(Current)' = m /\ RunInto(Current)' = RunInto(Current)
      /\ asked' = asked /\ m_temp_top' = m_temp_top /\ failed' = failed
  BY <1>1, ReaderFrame DEF clientVars, callerVars
<1>9. TopRead'
  <2>1. i + 1 \in Nat /\ i + 1 <= Len(m.headers) + 1
    BY <1>2, <1>4
  <2> QED  BY <2>1, <1>3, <1>7, <1>8 DEF TopRead
<1>10. HeadersHeld(HeadersRead)'
  <2>1. \A j \in 1..i + 1 : j \in 1..i \/ j = i + 1
    BY <1>2
  <2>2. \A j \in 1..i + 1 : m.headers[j].word # NoDigits
    BY <2>1, <1>3, <1>5 DEF HeadersHeld
  <2> QED  BY <2>2, <1>6, <1>7, <1>8 DEF HeadersHeld
<1>11. PositionInv'
  <2>1. HeadersRead' <= Len(Message(Current)'.headers)
    BY <1>2, <1>4, <1>7, <1>8
  <2> QED  BY <1>1, <1>3, <1>8, <1>9, <1>10, <2>1 DEF PositionInv
<1> QED  BY <1>1, <1>3, <1>11, CallKeeps

LEMMA EndHeadersKeeps ==
  ASSUME IntakeInv, Clean(Current), Read, EndHeaders
  PROVE  IntakeInv'
<1> DEFINE m == Message(Current)
           i == HeadersRead
<1>1. /\ UNCHANGED <<clientVars, m_temp_top, m_temp_headers, callerVars, alive>> /\ alive
      /\ m_state = "header" /\ m_state' = "body"
      /\ HasLine /\ NextLine.kind = "empty" /\ taken' = LineEnd /\ length' = 0
  BY DEF EndHeaders, Step, TakeLine
<1>2. /\ Current \in DOMAIN asked /\ m \in Messages
      /\ i \in Nat /\ i = Len(m.headers)
      /\ First(Current) \in Nat /\ LineEnd = taken + 1
  BY <1>1, HeaderLine
<1>3. TopRead /\ HeadersHeld(i) /\ ~failed
  BY <1>1, CleanSoFar DEF IntakeInv, PositionInv
<1>4. HeadersRead' = Len(m.headers) + 1
  <2>1. First(Current)' = First(Current) /\ taken' = taken + 1 /\ taken \in Nat
    BY <1>1, <1>2, ReaderFrame, StateType DEF clientVars, callerVars, IntakeInv
  <2>2. HeadersRead' = i + 1
    BY <2>1, <1>2 DEF HeadersRead
  <2> QED  BY <2>2, <1>2
<1>5. /\ Current' = Current /\ Message(Current)' = m /\ RunInto(Current)' = RunInto(Current)
      /\ asked' = asked /\ m_temp_top' = m_temp_top /\ failed' = failed
      /\ m_temp_headers' = m_temp_headers
  BY <1>1, ReaderFrame DEF clientVars, callerVars
<1>6. TopRead'
  <2>1. Len(m.headers) + 1 \in Nat /\ Len(m.headers) + 1 <= Len(m.headers) + 1
    BY <1>2
  <2> QED  BY <2>1, <1>3, <1>4, <1>5 DEF TopRead
<1>7. HeadersHeld(Len(Message(Current).headers))'
  BY <1>2, <1>3, <1>5 DEF HeadersHeld
<1>8. AllHeadersRead'
  BY <1>4, <1>5, <1>6, <1>7 DEF AllHeadersRead
<1>9. PositionInv'
  BY <1>1, <1>3, <1>5, <1>8 DEF PositionInv
<1> QED  BY <1>1, <1>3, <1>9, CallKeeps

(* The message, when its headers were read. *)
LEMMA AtBody ==
  ASSUME IntakeInv, AllHeadersRead
  PROVE  LET m == Message(Current) IN
         /\ Current \in DOMAIN asked /\ m \in Messages
         /\ m_temp_top = RequestOf(Current).top /\ m_temp_headers = RequestOf(Current).headers
         /\ RequestOf(Current).length = IF Unannounced(m) THEN 0 ELSE m.body
         /\ taken \in Nat /\ m.body \in Nat /\ After(Current) \in Nat
         /\ After(Current) - 1 = taken + m.body
         /\ ContentLength.index = 0 =>
              ContentLength.int \in Nat /\ ContentLength.int = IF Unannounced(m) THEN 0 ELSE m.body
         /\ ContentLength.index # 0 => \E j \in DOMAIN m.headers : NotConverted(m.headers[j])
<1> DEFINE m == Message(Current)
           f == First(Current)
           a == After(Current)
           h == Len(m.headers)
           b == m.body
<1>1. /\ Current \in DOMAIN asked /\ taken - f = h + 1
      /\ m_temp_top = TopAs(m.top, RunInto(Current))
      /\ HeadersOf(m, h, m_temp_headers) /\ \A j \in 1..h : m.headers[j].word # NoDigits
  BY DEF AllHeadersRead, TopRead, HeadersHeld, HeadersRead
<1>2. m \in Messages /\ taken \in Nat
  BY <1>1, StateType DEF IntakeInv
<1>3. h \in Nat /\ b \in Nat
  BY <1>2, MessageType
<1>4. f \in Nat /\ a \in Nat /\ a = f + h + 2 + b
  BY <1>1, Bounds DEF IntakeInv
<1>5. a - 1 = taken + b
  <2> HIDE DEF f, a, h, b
  <2> QED  BY <1>1, <1>2, <1>3, <1>4
<1>6. m_temp_headers = HeadersAs(m)
  BY <1>1, <1>2, AllHeaders DEF IntakeInv, TypeInv, TypeOK
<1>7. RequestOf(Current) = [top |-> TopAs(m.top, RunInto(Current)),
                            length |-> IF Unannounced(m) THEN 0 ELSE m.body,
                            headers |-> HeadersAs(m)]
  BY DEF RequestOf, ReadAs, Message
<1>8. /\ m_temp_top = RequestOf(Current).top /\ m_temp_headers = RequestOf(Current).headers
      /\ RequestOf(Current).length = IF Unannounced(m) THEN 0 ELSE m.body
  BY <1>1, <1>6, <1>7
<1>9. /\ ContentLength.index = 0 =>
              ContentLength.int \in Nat /\ ContentLength.int = IF Unannounced(m) THEN 0 ELSE m.body
      /\ ContentLength.index # 0 => \E j \in DOMAIN m.headers : NotConverted(m.headers[j])
  BY <1>1, <1>2, ContentLengthIs DEF ContentLength
<1> QED  BY <1>1, <1>2, <1>3, <1>4, <1>5, <1>8, <1>9

LEMMA RequestIsRecord ==
  ASSUME NEW n
  PROVE  RequestOf(n) = [top |-> RequestOf(n).top, length |-> RequestOf(n).length,
                         headers |-> RequestOf(n).headers]
BY DEF RequestOf, ReadAs

(* A message whose body was read, or is not read, is read as it should be. *)
LEMMA DoneHolds ==
  ASSUME IntakeInv, AllHeadersRead, Read,
         UNCHANGED <<clientVars, callerVars, m_temp_top, m_temp_headers>>, alive', ~failed,
         m_state' = "done", length' = RequestOf(Current).length,
         taken' = After(Current) - 1
                    - IF Unannounced(Message(Current)) THEN Message(Current).body ELSE 0
  PROVE  IntakeInv'
<1>1. /\ asked' = asked /\ failed' = failed /\ After(Current)' = After(Current)
      /\ Current' = Current /\ Message(Current)' = Message(Current)
      /\ RequestOf(Current)' = RequestOf(Current)
  BY ReaderFrame DEF clientVars, callerVars
<1>2. [top |-> m_temp_top', length |-> length', headers |-> m_temp_headers'] = RequestOf(Current)
  <2>1. m_temp_top' = RequestOf(Current).top /\ m_temp_headers' = RequestOf(Current).headers
    BY AtBody
  <2> DEFINE R == RequestOf(Current)
  <2>2. R = [top |-> R.top, length |-> R.length, headers |-> R.headers]
    BY RequestIsRecord
  <2> HIDE DEF R
  <2> QED  BY <2>1, <2>2 DEF R
<1>3. Current \in DOMAIN asked
  BY AtBody
<1>4. PositionInv'
  BY <1>1, <1>2, <1>3 DEF PositionInv
<1> QED  BY <1>4, CallKeeps

LEMMA BodyKeeps ==
  ASSUME IntakeInv, Clean(Current), Read, StateBody
  PROVE  IntakeInv'
<1> DEFINE m == Message(Current)
<1>1. /\ UNCHANGED <<clientVars, taken, m_temp_top, m_temp_headers, length, callerVars, alive>>
      /\ alive /\ ContentLength.index = 0 /\ m_state = "body"
      /\ m_state' = IF ContentLength.int = 0 THEN "done" ELSE "transfer_normal"
  BY DEF StateBody, Step
<1>2. AllHeadersRead /\ ~failed /\ length = 0
  BY <1>1, CleanSoFar DEF IntakeInv, PositionInv
<1>3. CASE ContentLength.int = 0
  <2>1. /\ taken \in Nat /\ m.body \in Nat /\ After(Current) - 1 = taken + m.body
        /\ After(Current) \in Nat
        /\ RequestOf(Current).length = IF Unannounced(m) THEN 0 ELSE m.body
        /\ 0 = IF Unannounced(m) THEN 0 ELSE m.body
    BY <1>1, <1>2, <1>3, AtBody
  <2>2. length' = RequestOf(Current).length
    BY <1>1, <1>2, <2>1
  <2>3. taken' = After(Current) - 1 - IF Unannounced(m) THEN m.body ELSE 0
    <3> DEFINE b == m.body
               a == After(Current)
    <3>1. taken' = taken /\ taken \in Nat /\ b \in Nat /\ a \in Nat /\ a - 1 = taken + b
      BY <1>1, <2>1
    <3>2. CASE Unannounced(m)
      <4>1. taken' = a - 1 - b
        <5> HIDE DEF a, b
        <5> QED  BY <3>1
      <4> QED  BY <4>1, <3>2
    <3>3. CASE ~Unannounced(m)
      <4>1. b = 0
        BY <2>1, <3>3
      <4>2. taken' = a - 1 - 0
        <5> HIDE DEF a, b
        <5> QED  BY <3>1, <4>1
      <4> QED  BY <4>2, <3>3
    <3> QED  BY <3>2, <3>3
  <2> QED  BY <1>1, <1>2, <1>3, <2>2, <2>3, DoneHolds
<1>4. CASE ContentLength.int # 0
  <2>1. /\ asked' = asked /\ failed' = failed /\ Current' = Current
        /\ Message(Current)' = m /\ First(Current)' = First(Current)
        /\ RunInto(Current)' = RunInto(Current)
    BY <1>1, ReaderFrame DEF clientVars, callerVars
  <2>2. HeadersRead' = HeadersRead
    BY <1>1, <2>1 DEF HeadersRead
  <2>3. AllHeadersRead'
    BY <1>1, <1>2, <2>1, <2>2 DEF AllHeadersRead, TopRead, HeadersHeld
  <2>4. ContentLength' = ContentLength
    BY <1>1 DEF ContentLength
  <2>5. PositionInv'
    BY <1>1, <1>2, <1>4, <2>1, <2>3, <2>4 DEF PositionInv
  <2> QED  BY <1>1, <1>2, <1>4, <2>5, CallKeeps
<1> QED  BY <1>3, <1>4

LEMMA TransferKeeps ==
  ASSUME IntakeInv, Clean(Current), Read, StateTransferNormal
  PROVE  IntakeInv'
<1> DEFINE m == Message(Current)
<1>1. /\ UNCHANGED <<clientVars, m_temp_top, m_temp_headers, callerVars, alive>>
      /\ alive /\ m_state = "transfer_normal" /\ m_state' = "done"
      /\ ContentLength.int <= buffer_size /\ arrived - taken >= ContentLength.int
      /\ taken' = taken + ContentLength.int /\ length' = ContentLength.int
  BY DEF StateTransferNormal, Step
<1>2. AllHeadersRead /\ ~failed /\ ContentLength.index = 0 /\ ContentLength.int # 0
  BY <1>1, CleanSoFar DEF IntakeInv, PositionInv
<1>3. /\ taken \in Nat /\ m.body \in Nat /\ After(Current) - 1 = taken + m.body
      /\ After(Current) \in Nat
      /\ RequestOf(Current).length = IF Unannounced(m) THEN 0 ELSE m.body
      /\ ContentLength.int \in Nat /\ ContentLength.int = IF Unannounced(m) THEN 0 ELSE m.body
  BY <1>2, AtBody
<1>4. ~Unannounced(m) /\ ContentLength.int = m.body
  BY <1>2, <1>3
<1>5. length' = RequestOf(Current).length
  BY <1>1, <1>3, <1>4
<1>6. taken' = After(Current) - 1 - IF Unannounced(m) THEN m.body ELSE 0
  <2> DEFINE b == m.body
             a == After(Current)
  <2>1. taken' = taken + b /\ taken \in Nat /\ b \in Nat /\ a \in Nat /\ a - 1 = taken + b
    BY <1>1, <1>3, <1>4
  <2>2. taken' = a - 1 - 0
    <3> HIDE DEF a, b
    <3> QED  BY <2>1
  <2> QED  BY <2>2, <1>4
<1> QED  BY <1>1, <1>2, <1>5, <1>6, DoneHolds

LEMMA ThrowsKeeps ==
  ASSUME IntakeInv, Clean(Current), Read, HeaderThrows \/ BodyThrows
  PROVE  IntakeInv'
<1>1. /\ UNCHANGED <<asked, stream, gone, arrived, taken, m_state, m_temp_top, m_temp_headers,
                     length, results, failed>>
      /\ alive' = FALSE
  BY DEF HeaderThrows, BodyThrows, Dies, clientVars, callerVars
<1>2. \E j \in DOMAIN Message(Current).headers : NotConverted(Message(Current).headers[j])
  <2> DEFINE m == Message(Current)
             i == HeadersRead
             w == m.headers[i + 1].word
  <2>1. CASE HeaderThrows
    <3>1. /\ m_state = "header" /\ HasLine /\ NextLine.kind # "empty" /\ ~Convertible(NextLine)
      BY <2>1, HeaderLine DEF HeaderThrows
    <3>2. /\ m \in Messages /\ i + 1 \in DOMAIN m.headers
          /\ NextLine = [kind |-> "header", key |-> m.headers[i + 1].key, word |-> w]
      BY <3>1, HeaderLine
    <3>3. ~(w.digits => w.fits)
      <4>1. NextLine.kind = "header" /\ NextLine.word = w
        BY <3>2
      <4>2. NextLine.kind # "body"
        BY <4>1
      <4> QED  BY <3>1, <4>1, <4>2 DEF Convertible
    <3>4. w \in Words
      BY <3>2, MessageType
    <3>5. w = NoDigits
      BY <3>3, <3>4, WordIs
    <3> QED  BY <3>2, <3>5 DEF NotConverted
  <2>2. CASE BodyThrows
    <3>1. m_state = "body" /\ ContentLength.index # 0
      BY <2>2 DEF BodyThrows
    <3>2. AllHeadersRead
      BY <3>1, CleanSoFar DEF PositionInv
    <3> QED  BY <3>1, <3>2, AtBody
  <2> QED  BY <2>1, <2>2
<1>3. TypeInv'
  BY ReadTypes DEF IntakeInv
<1>4. StreamInv'
  BY <1>1 DEF IntakeInv, StreamInv, First, Message, After
<1>5. PositionInv'
  BY <1>1, CleanSoFar, ReaderFrame, ReaderStays DEF callerVars
<1>6. InSync'
  BY <1>1 DEF IntakeInv, InSync, Boundary, RequestOf, RunInto, Clean
<1>7. DiesOnlyOn'
  BY <1>1, <1>2 DEF DiesOnlyOn, Message, Current
<1> QED  BY <1>1, <1>3, <1>4, <1>5, <1>6, <1>7 DEF IntakeInv

LEMMA FailKeeps ==
  ASSUME IntakeInv, Clean(Current), Read, Fail
  PROVE  IntakeInv'
<1>1. /\ UNCHANGED <<clientVars, taken, m_temp_top, m_temp_headers, callerVars, alive>> /\ alive
      /\ m_state # "idle" /\ m_state' = "error" /\ length' = 0
  BY DEF Fail, Step
<1>2. ~failed
  BY <1>1 DEF IntakeInv
<1>3. PositionInv'
  BY <1>1 DEF PositionInv
<1> QED  BY <1>1, <1>2, <1>3, CallKeeps

LEMMA ReturnKeeps ==
  ASSUME IntakeInv, Clean(Current), Read, Return
  PROVE  IntakeInv'
<1> DEFINE R == RequestOf(Current)
           N == Len(results)
<1>1. /\ UNCHANGED <<asked, stream, gone, arrived, taken, m_temp_top, m_temp_headers, length, alive>>
      /\ alive /\ m_state' = "idle"
      /\ \/ m_state = "done" /\ failed' = failed
            /\ results' = Append(results, [top |-> m_temp_top, length |-> length,
                                           headers |-> m_temp_headers])
         \/ m_state = "error" /\ failed' = TRUE /\ results' = results
  BY DEF Return, Step, clientVars
<1>2. StreamInv'
  BY <1>1 DEF IntakeInv, StreamInv, First, Message, After
<1>3. PositionInv'
  BY <1>1 DEF PositionInv
<1>4. DiesOnlyOn'
  BY <1>1 DEF DiesOnlyOn
<1>5. TypeInv'
  BY ReadTypes DEF IntakeInv
<1>6. \A n : Clean(n)' = Clean(n) /\ RequestOf(n)' = RequestOf(n)
  BY <1>1 DEF Clean, RequestOf, RunInto
<1>7. InSync'
  <2>1. CASE m_state = "error"
    <3>1. failed' = TRUE /\ results' = results
      BY <1>1, <2>1
    <3> QED  BY <1>1, <1>6, <3>1 DEF IntakeInv, InSync
  <2>2. CASE m_state = "done"
    <3>1. /\ Current \in DOMAIN asked /\ failed' = failed
          /\ results' = Append(results, R)
          /\ taken = After(Current) - 1
                       - IF Unannounced(Message(Current)) THEN Message(Current).body ELSE 0
      <4>1. [top |-> m_temp_top, length |-> length, headers |-> m_temp_headers] = R
        BY <2>2, CleanSoFar DEF PositionInv
      <4> QED  BY <1>1, <2>2, <4>1, CleanSoFar DEF PositionInv
    <3>2. /\ results \in Seq(Requests) /\ N \in Nat /\ DOMAIN results = 1..N
          /\ Message(Current) \in Messages /\ First(Current) \in Nat /\ Current = N + 1
      BY <3>1, StateType DEF IntakeInv, TypeInv, TypeOK, Current
    <3>3. /\ Len(results') = N + 1 /\ DOMAIN results' = 1..N + 1
          /\ results'[N + 1] = R /\ \A i \in 1..N : results'[i] = results[i]
      <4> HIDE DEF R
      <4> QED  BY <3>1, <3>2
    <3>4. Boundary' = taken
      <4> DEFINE m == Message(Current)
                 f == First(Current)
                 z == Size(m)
                 rest == IF Unannounced(m) THEN m.body ELSE 0
      <4>0. Len(<<>>) = 0
        OBVIOUS
      <4>1. results' # <<>>
        BY <3>2, <3>3, <4>0
      <4>2. asked'[Len(results')] = asked[Current]
        BY <1>1, <3>2, <3>3
      <4>3. Boundary' = f - 1 + z - rest
        BY <4>1, <4>2 DEF Boundary, Message, First
      <4>4. taken = After(Current) - 1 - rest /\ After(Current) = f + z
        BY <3>1 DEF After
      <4>5. f \in Nat /\ z \in Nat /\ m.body \in Nat
        BY <3>2, MessageType
      <4>6. rest \in Nat
        BY <4>5
      <4> HIDE DEF f, z, rest
      <4> QED  BY <4>3, <4>4, <4>5, <4>6
    <3>5. ASSUME NEW i \in DOMAIN results', Clean(i)
          PROVE  i \in DOMAIN asked' /\ results'[i] = RequestOf(i)'
      <4>1. i \in 1..N \/ i = N + 1
        BY <3>2, <3>3
      <4>2. CASE i \in 1..N
        BY <4>2, <3>2, <3>3, <3>5, <1>1, <1>6 DEF IntakeInv, InSync
      <4>3. CASE i = N + 1
        BY <4>3, <3>1, <3>2, <3>3, <1>1, <1>6
      <4> QED  BY <4>1, <4>2, <4>3
    <3> QED  BY <1>1, <1>6, <3>4, <3>5 DEF InSync
  <2> QED  BY <1>1, <2>1, <2>2
<1> QED  BY <1>1, <1>2, <1>3, <1>4, <1>5, <1>7 DEF IntakeInv

LEMMA IntakeStep == IntakeInv /\ [Next]_vars => IntakeInv'
<1> SUFFICES ASSUME IntakeInv, [Next]_vars  PROVE  IntakeInv'
  OBVIOUS
<1>1. CASE Read
  <2>1. CASE Clean(Current)
    BY <1>1, <2>1, ResetKeeps, TopKeeps, HeaderKeeps, ThrowsKeeps, EndHeadersKeeps, BodyKeeps,
       TransferKeeps, FailKeeps, ReturnKeeps DEF Read
  <2>2. CASE ~Clean(Current)
    BY <1>1, <2>2, UncleanKeeps
  <2> QED  BY <2>1, <2>2
<1>2. CASE Deliver \/ HangUp
  BY <1>2, DeliverKeeps
<1>3. CASE \E m \in Messages : Begin(m)
  BY <1>3, BeginKeeps
<1>4. CASE UNCHANGED vars
  <2>1. UNCHANGED <<asked, stream, gone, arrived, taken, m_state, m_temp_top, m_temp_headers,
                    length, results, failed, alive>>
    BY <1>4 DEF vars, clientVars, callerVars
  <2>2. TypeInv'
    BY <2>1 DEF IntakeInv, TypeInv, TypeOK, ContentLength
  <2>3. StreamInv'
    BY <2>1 DEF IntakeInv, StreamInv, First, Message, After
  <2>4. Clean(Current)' => PositionInv'
    <3>1. Clean(Current)' <=> Clean(Current)
      BY <2>1 DEF Clean, Current
    <3> QED  BY <2>1, <3>1, ReaderFrame, ReaderStays DEF IntakeInv, callerVars
  <2>5. InSync'
    BY <2>1 DEF IntakeInv, InSync, Boundary, RequestOf, RunInto, Clean
  <2>6. DiesOnlyOn'
    BY <2>1 DEF IntakeInv, DiesOnlyOn, Clean
  <2> QED  BY <2>1, <2>2, <2>3, <2>4, <2>5, <2>6 DEF IntakeInv
<1> QED  BY <1>1, <1>2, <1>3, <1>4 DEF Next

LEMMA IntakeInvariant == Spec => []IntakeInv
BY IntakeInit, IntakeStep, PTL DEF Spec

-----------------------------------------------------------------------------
(* The promises. *)

(* Each variable keeps its type, and no body is longer than the buffer.    *)
THEOREM IntakeTypeCorrect == Spec => []TypeOK
<1>1. IntakeInv => TypeOK
  BY DEF IntakeInv, TypeInv
<1> QED  BY <1>1, IntakeInvariant, PTL

(* HttpIntake::nextRequest() returns the messages in the order they were   *)
(* sent, each with its own headers and body, and stops between two of them,*)
(* up to a body that nobody announced and that ends a line.                *)
THEOREM InSyncCorrect == Spec => []InSync
<1>1. IntakeInv => InSync
  BY DEF IntakeInv
<1> QED  BY <1>1, IntakeInvariant, PTL

(* Only a header value that the noexcept functions cannot convert ends the *)
(* process, or a line that such a body makes of the messages behind it.    *)
THEOREM IntakeDiesCorrect == Spec => []DiesOnlyOn
<1>1. IntakeInv => DiesOnlyOn
  BY DEF IntakeInv
<1> QED  BY <1>1, IntakeInvariant, PTL

(* nextRequest() gives up on no message that arrived whole, with what runs *)
(* into it fits the buffer, and is not behind such a body.                 *)
THEOREM GivesUpCorrect == Spec => GivesUpOnlyOn
<1> DEFINE Excused == \/ gone \/ ~Arrived(Len(results) + 1)
                      \/ TooLong(Len(results) + 1) \/ ~Clean(Len(results) + 1)
<1>1. ASSUME IntakeInv, [Next]_vars, m_state # "error", m_state' = "error"
      PROVE  Excused
  <2> DEFINE m == Message(Current)
  <2>1. Fail
    BY <1>1 DEF Next, Read, Reset, StateTop, StateHeader, HeaderThrows, EndHeaders, StateBody,
                BodyThrows, StateTransferNormal, Return, Dies, Step, Deliver, HangUp, Begin, vars
  <2>2. SUFFICES ASSUME Clean(Current)  PROVE  ~Arrived(Current) \/ TooLong(Current) \/ gone
    BY DEF Current
  <2>3. /\ m_state \in {"top", "header", "transfer_normal"}
        /\ \/ BodyTooLong \/ LineTooLong \/ gone
           \/ m_state \in {"top", "header"} /\ ~HasLine
           \/ m_state = "transfer_normal" /\ arrived - taken < ContentLength.int
    BY <2>1 DEF Fail, Step, SocketFails
  <2>4. PositionInv /\ Len(results) <= Len(asked) /\ TypeInv /\ StreamInv
    BY <1>1, <2>2, CleanSoFar DEF IntakeInv
  <2>5. CASE m_state = "top"
    <3>1. taken = Boundary
      BY <2>4, <2>5 DEF PositionInv
    <3>2. CASE ~HasLine
      BY <2>2, <2>4, <3>1, <3>2, LineOfTop
    <3>3. CASE LineTooLong
      <4>1. HasLine /\ LongLine
        BY <3>3 DEF LineTooLong
      <4>2. /\ InFront = Before(Current)
            /\ NextLine = IF RunInto(Current) THEN Garbled(UnitOf(m, 1)) ELSE UnitOf(m, 1)
        BY <2>2, <2>4, <3>1, <4>1, LineOfTop
      <4>3. UnitOf(m, 1) = [kind |-> "top", top |-> m.top, room |-> m.room]
        BY DEF UnitOf
      <4>4. NextLine.kind = "top" /\ NextLine.room = m.room
        BY <4>2, <4>3 DEF Garbled
      <4>5. Before(Current) + m.room >= buffer_size
        BY <4>1, <4>2, <4>4 DEF LongLine
      <4> QED  BY <4>5 DEF TooLong, Before, Message
    <3> QED  BY <2>3, <2>5, <3>2, <3>3 DEF BodyTooLong
  <2>6. CASE m_state = "header"
    <3>1. TopRead /\ HeadersRead <= Len(m.headers)
      BY <2>4, <2>6 DEF PositionInv
    <3>2. CASE ~HasLine
      BY <2>4, <3>1, <3>2, LineOfHeaders
    <3>3. CASE LineTooLong
      <4>1. HasLine /\ LongLine
        BY <3>3 DEF LineTooLong
      <4>2. InFront = 0 /\ NextLine.kind # "top"
        BY <1>1, <2>2, <2>6, <4>1, HeaderLine
      <4>3. buffer_size \in Nat \ {0}
        BY BoundsAssumption
      <4> QED  BY <4>1, <4>2, <4>3 DEF LongLine
    <3> QED  BY <2>3, <2>6, <3>2, <3>3 DEF BodyTooLong
  <2>7. CASE m_state = "transfer_normal"
    <3>1. AllHeadersRead /\ ContentLength.index = 0 /\ ContentLength.int # 0
      BY <2>4, <2>7 DEF PositionInv
    <3>2. /\ Current \in DOMAIN asked
          /\ taken \in Nat /\ m.body \in Nat /\ After(Current) - 1 = taken + m.body
          /\ After(Current) \in Nat
          /\ ContentLength.int = IF Unannounced(m) THEN 0 ELSE m.body
      BY <1>1, <3>1, AtBody
    <3>3. ContentLength.int = m.body /\ ~Unannounced(m)
      BY <3>1, <3>2
    <3>4. CASE BodyTooLong
      BY <3>3, <3>4 DEF BodyTooLong, TooLong, Message
    <3>5. CASE arrived - taken < ContentLength.int
      <4> DEFINE a == After(Current)
                 c == Current
                 b == m.body
      <4>1. /\ a <= Len(stream) + 1 /\ (c < Len(asked) => a <= arrived + 1)
        BY <1>1, <3>2, Bounds DEF IntakeInv
      <4>2. arrived \in Nat /\ Len(stream) \in Nat /\ Len(asked) \in Nat /\ c \in Nat
        BY <1>1, StateType DEF IntakeInv, Current
      <4>3. arrived - taken < b /\ taken \in Nat /\ b \in Nat /\ a \in Nat /\ a - 1 = taken + b
        BY <3>2, <3>3, <3>5
      <4>4. ~(Len(asked) > c) /\ arrived # Len(stream)
        <5> HIDE DEF a, b, c
        <5> QED  BY <4>1, <4>2, <4>3
      <4> QED  BY <4>4 DEF Arrived
    <3> QED  BY <2>3, <2>7, <3>4, <3>5 DEF LineTooLong
  <2> QED  BY <2>3, <2>5, <2>6, <2>7
<1>2. IntakeInv /\ [Next]_vars =>
        [(m_state # "error" /\ m_state' = "error") => Excused]_vars
  BY <1>1
<1> QED  BY <1>2, IntakeInvariant, PTL DEF Spec, GivesUpOnlyOn

-----------------------------------------------------------------------------
(* The steps run out. *)

(* What is left: units of the stream, each of them worth more than all the *)
(* steps of a call that take none, the steps of this kind to the end of    *)
(* the call, and the two ways in which there is no other call.             *)
Rank == [error |-> 0, top |-> 1, idle |-> 2, done |-> 3, transfer_normal |-> 4,
         body |-> 5, header |-> 6]
Left == 8 * (Len(stream) - taken) + Rank[m_state]
          + (IF failed THEN 0 ELSE 3) + IF alive THEN 1 ELSE 0

LEMMA TakenBelow ==
  ASSUME TypeInv
  PROVE  Len(stream) \in Nat /\ taken \in Nat /\ taken <= Len(stream)
<1>1. PICK s \in Nat, p \in Nat, t \in Nat :
        s = Len(stream) /\ p = arrived /\ t = taken /\ t <= p /\ p <= s
  BY StateType
<1>2. t <= s
  BY <1>1
<1> QED  BY <1>1, <1>2

LEMMA LessLeft ==
  ASSUME NEW s \in Nat, NEW t \in 0..s, NEW u \in t..s, NEW r \in 0..6, NEW q \in 0..6,
         NEW a \in {0, 1}, NEW b \in {0, 1}, NEW f \in {0, 3}, NEW g \in {0, 3},
         \/ u > t /\ b = a /\ g = f
         \/ u >= t /\ q + g + b < r + f + a
  PROVE  /\ 8 * (s - u) + q + g + b < 8 * (s - t) + r + f + a
         /\ 8 * (s - t) + r + f + a \in Nat /\ 8 * (s - u) + q + g + b \in Nat
OBVIOUS

LEMMA ReadTakes ==
  ASSUME IntakeInv, IntakeInv', Read
  PROVE  Left' < Left /\ Left \in Nat /\ Left' \in Nat
<1> DEFINE F(b) == IF b THEN 0 ELSE 3
           A(b) == IF b THEN 1 ELSE 0
<1>1. PICK s \in Nat, t \in Nat, u \in Nat :
        s = Len(stream) /\ t = taken /\ u = taken' /\ t <= s
  <2>1. TypeInv /\ arrived' \in 0..Len(stream') /\ taken' \in 0..arrived'
    BY DEF IntakeInv, TypeInv, TypeOK
  <2>2. taken' \in Nat
    BY <2>1
  <2>3. Len(stream) \in Nat /\ taken \in Nat /\ taken <= Len(stream)
    BY <2>1, TakenBelow
  <2> QED  BY <2>2, <2>3
<1>2. stream' = stream
  BY DEF Read, Reset, StateTop, StateHeader, HeaderThrows, EndHeaders, StateBody, BodyThrows,
         StateTransferNormal, Fail, Return, Dies, clientVars
<1>3. u <= s
  <2>1. arrived' \in 0..Len(stream') /\ taken' \in 0..arrived'
    BY DEF IntakeInv, TypeInv, TypeOK
  <2> QED  BY <1>1, <1>2, <2>1
<1>4. PICK r \in 0..6, q \in 0..6 : r = Rank[m_state] /\ q = Rank[m_state']
  <2>1. /\ m_state \in {"idle", "top", "header", "body", "transfer_normal", "done", "error"}
        /\ m_state' \in {"idle", "top", "header", "body", "transfer_normal", "done", "error"}
    BY DEF IntakeInv, TypeInv, TypeOK
  <2>2. Rank[m_state] \in 0..6
    BY <2>1 DEF Rank
  <2>3. Rank[m_state'] \in 0..6
    BY <2>1 DEF Rank
  <2> QED  BY <2>2, <2>3
<1>5. PICK f \in {0, 3}, g \in {0, 3}, a \in {0, 1}, b \in {0, 1} :
        f = F(failed) /\ g = F(failed') /\ a = A(alive) /\ b = A(alive')
  OBVIOUS
<1>6. \/ u > t /\ b = a /\ g = f
      \/ u >= t /\ q + g + b < r + f + a
  <2>1. CASE StateTop \/ StateHeader \/ EndHeaders
    <3>1. HasLine /\ taken' = LineEnd /\ failed' = failed /\ alive' = alive
      BY <2>1 DEF StateTop, StateHeader, EndHeaders, TakeLine, callerVars
    <3>2. LineEnd \in taken + 1 .. arrived
      BY <3>1, FirstLine DEF IntakeInv
    <3>3. arrived \in Nat
      BY StateType DEF IntakeInv
    <3> QED  BY <1>1, <1>5, <3>1, <3>2, <3>3
  <2>2. CASE Reset
    <3>1. m_state = "idle" /\ m_state' = "top" /\ failed' = failed /\ alive' = alive /\ taken' = taken
      BY <2>2 DEF Reset, Step, callerVars
    <3>2. r = 2 /\ q = 1
      BY <1>4, <3>1 DEF Rank
    <3> QED  BY <1>1, <1>5, <3>1, <3>2
  <2>3. CASE HeaderThrows \/ BodyThrows
    <3>1. alive /\ ~alive' /\ UNCHANGED <<m_state, failed, taken>>
      BY <2>3 DEF HeaderThrows, BodyThrows, Dies, callerVars
    <3>2. r = q /\ u = t /\ g = f /\ b < a
      BY <1>1, <1>4, <1>5, <3>1
    <3> QED  BY <3>2
  <2>4. CASE StateBody
    <3>1. /\ m_state = "body" /\ m_state' \in {"done", "transfer_normal"}
          /\ failed' = failed /\ alive' = alive /\ taken' = taken
      BY <2>4 DEF StateBody, Step, callerVars
    <3>2. r = 5 /\ q \in {3, 4}
      BY <1>4, <3>1 DEF Rank
    <3> QED  BY <1>1, <1>5, <3>1, <3>2
  <2>5. CASE StateTransferNormal
    <3>1. /\ m_state = "transfer_normal" /\ m_state' = "done"
          /\ failed' = failed /\ alive' = alive /\ taken' = taken + ContentLength.int
      BY <2>5 DEF StateTransferNormal, Step, callerVars
    <3>2. ContentLength.int \in Nat
      <4>1. ContentLength.index = 0
        BY <3>1 DEF IntakeInv, TypeInv
      <4>2. ContentLength \in HeaderValues
        BY DEF IntakeInv, TypeInv, TypeOK, ContentLength, Keys
      <4> QED  BY <4>1, <4>2 DEF HeaderValues
    <3>3. r = 4 /\ q = 3 /\ f = g /\ a = b
      BY <1>4, <1>5, <3>1 DEF Rank
    <3>4. u >= t
      BY <1>1, <3>1, <3>2
    <3> QED  BY <3>3, <3>4
  <2>6. CASE Fail
    <3>1. /\ m_state \in {"top", "header", "transfer_normal"} /\ m_state' = "error"
          /\ failed' = failed /\ alive' = alive /\ taken' = taken
      BY <2>6 DEF Fail, Step, callerVars
    <3>2. r > 0 /\ q = 0
      BY <1>4, <3>1 DEF Rank
    <3> QED  BY <1>1, <1>5, <3>1, <3>2
  <2>7. CASE Return
    <3>1. alive' = alive /\ taken' = taken /\ m_state' = "idle"
      BY <2>7 DEF Return, Step
    <3>2. \/ m_state = "done" /\ failed' = failed
          \/ m_state = "error" /\ failed'
      BY <2>7 DEF Return, Step
    <3>3. q = 2 /\ a = b /\ u = t
      BY <1>1, <1>4, <1>5, <3>1 DEF Rank
    <3>4. CASE m_state = "done" /\ failed' = failed
      <4>1. r = 3 /\ f = g
        BY <1>4, <1>5, <3>4 DEF Rank
      <4> QED  BY <3>3, <4>1
    <3>5. CASE m_state = "error" /\ failed'
      <4>1. ~failed
        BY <3>5 DEF IntakeInv
      <4>2. r = 0 /\ f = 3 /\ g = 0
        BY <1>4, <1>5, <3>5, <4>1 DEF Rank
      <4> QED  BY <3>3, <4>2
    <3> QED  BY <3>2, <3>4, <3>5
  <2> QED  BY <2>1, <2>2, <2>3, <2>4, <2>5, <2>6, <2>7 DEF Read
<1>7. t \in 0..s /\ u \in t..s
  BY <1>1, <1>3, <1>6
<1>8. /\ 8 * (s - u) + q + g + b < 8 * (s - t) + r + f + a
      /\ 8 * (s - t) + r + f + a \in Nat /\ 8 * (s - u) + q + g + b \in Nat
  BY <1>6, <1>7, LessLeft
<1>9. Left = 8 * (s - t) + r + f + a
  BY <1>1, <1>4, <1>5 DEF Left
<1>10. Left' = 8 * (s - u) + q + g + b
  BY <1>1, <1>2, <1>4, <1>5 DEF Left
<1> QED  BY <1>8, <1>9, <1>10

(* The calls of nextRequest() cannot go on for ever on what the client     *)
(* sent: every step of the reader leaves less of a number that is never    *)
(* negative, and that only a message the client begins adds to.            *)
THEOREM ReadingRunsOut ==
  Spec => [][/\ Read => Left' < Left
             /\ Left' > Left => \E m \in Messages : Begin(m)
             /\ Left \in Nat]_vars
<1>1. ASSUME IntakeInv, IntakeInv', [Next]_vars
      PROVE  [/\ Read => Left' < Left
              /\ Left' > Left => \E m \in Messages : Begin(m)
              /\ Left \in Nat]_vars
  <2> USE <1>1
  <2>1. PICK l \in Nat : l = Left
    <3>1. PICK s \in Nat, t \in Nat : s = Len(stream) /\ t = taken /\ t <= s
      BY TakenBelow DEF IntakeInv
    <3>2. PICK r \in 0..6 : r = Rank[m_state]
      <4>1. m_state \in {"idle", "top", "header", "body", "transfer_normal", "done", "error"}
        BY DEF IntakeInv, TypeInv, TypeOK
      <4>2. Rank[m_state] \in 0..6
        BY <4>1 DEF Rank
      <4> QED  BY <4>2
    <3>3. PICK f \in {0, 3}, a \in {0, 1} :
            f = (IF failed THEN 0 ELSE 3) /\ a = IF alive THEN 1 ELSE 0
      OBVIOUS
    <3>4. Left = 8 * (s - t) + r + f + a
      BY <3>1, <3>2, <3>3 DEF Left
    <3>5. 8 * (s - t) + r + f + a \in Nat
      BY <3>1, <3>2, <3>3
    <3> QED  BY <3>4, <3>5
  <2>2. Read => Left' < Left /\ Left' \in Nat
    BY ReadTakes
  <2>3. CASE Read
    BY <2>1, <2>2, <2>3
  <2>4. CASE Deliver \/ HangUp
    <3>1. Left' = Left
      BY <2>4 DEF Deliver, HangUp, Left, callerVars
    <3> QED  BY <2>1, <2>2, <3>1
  <2>5. CASE \E m \in Messages : Begin(m)
    BY <2>1, <2>2, <2>5
  <2>6. CASE UNCHANGED vars
    BY <2>6
  <2> QED  BY <2>3, <2>4, <2>5, <2>6 DEF Next
<1> QED  BY <1>1, IntakeInvariant, PTL DEF Spec
=============================================================================
