--------------------------- MODULE HttpConnection ---------------------------
(***************************************************************************)
(* What one connection promises the HTTP client that opened it:            *)
(*   - replies come in the order of the requests, one for each;            *)
(*   - the status depends on the request alone, whatever came before it;   *)
(*   - the server hangs up after a reply that announced it, and otherwise  *)
(*     only on a client that is gone or silent, or whose request is too    *)
(*     long for the server's buffer.                                       *)
(* WorkerJob implements this module (WorkerJob!Connection).                *)
(***************************************************************************)
EXTENDS Sequences

CONSTANT Requests  \* what a client may ask

VARIABLES
  link,         \* none, open, or closing once a reply announced the end
  outstanding,  \* the requests the client has made and has no reply to
  gone,         \* the client hung up
  reply         \* the last reply

vars == <<link, outstanding, gone, reply>>

NoReply == [status |-> "none"]

(* The status of the reply to a request, and its reason. *)
Status(r) ==
  IF r.schema = "http_unknown" \/ r.method = "h1_nop" THEN <<"400", "Bad Request">>
  ELSE IF r.schema = "http_1_1" /\ ~r.host THEN <<"400", "Bad Request">>
  ELSE IF r.uri # "/" \/ r.method # "h1_get" THEN <<"404", "Not Found">>
  ELSE <<"200", "OK">>

(* The version the client spoke, or a name for one the server does not know. *)
Version(r) ==
  CASE r.schema = "http_1_0" -> "HTTP/1.0"
    [] r.schema = "http_1_1" -> "HTTP/1.1"
    [] OTHER -> "HTTP/x.x"

(* The client asked for the end, or speaks HTTP/1.0 and did not ask for    *)
(* the connection to be kept.                                              *)
Closes(r) ==
  IF r.connection = "none" THEN r.schema = "http_1_0" ELSE r.connection = "close"

Reply(r) == [version |-> Version(r), status |-> Status(r)[1], reason |-> Status(r)[2],
             closes |-> Closes(r)]

Init == link = "none" /\ outstanding = <<>> /\ gone = FALSE /\ reply = NoReply

Open ==
  /\ link = "none"
  /\ link' = "open" /\ outstanding' = <<>> /\ gone' = FALSE /\ reply' = NoReply

Ask ==
  /\ link # "none" /\ ~gone
  /\ \E r \in Requests : outstanding' = Append(outstanding, r)
  /\ UNCHANGED <<link, gone, reply>>

HangUp ==
  /\ link # "none" /\ ~gone
  /\ gone' = TRUE
  /\ UNCHANGED <<link, outstanding, reply>>

Answer ==
  /\ link = "open" /\ outstanding # <<>>
  /\ Head(outstanding).form = "fine"
  /\ reply' = Reply(Head(outstanding))
  /\ link' = IF reply'.closes THEN "closing" ELSE "open"
  /\ outstanding' = Tail(outstanding)
  /\ UNCHANGED gone

(* The server gives the connection up, with no reply. *)
Drop ==
  /\ link = "open"
  /\ gone \/ outstanding = <<>> \/ Head(outstanding).form = "too_long"
  /\ link' = "closing"
  /\ UNCHANGED <<outstanding, gone, reply>>

Close ==
  /\ link = "closing"
  /\ link' = "none"
  /\ UNCHANGED <<outstanding, gone, reply>>

Next == Open \/ Ask \/ HangUp \/ Answer \/ Drop \/ Close

Spec == Init /\ [][Next]_vars
=============================================================================
