------------------------------ MODULE WorkerJob ------------------------------
(***************************************************************************)
(* One worker: WorkerJob::operator() and the states it goes through to     *)
(* serve the connections it is given, request by request.  The client of   *)
(* the connection, the socket and the death of the process by an exception *)
(* nobody catches or by a signal are part of the model; how a request is   *)
(* read octet by octet is HttpIntake's, how a reply is written HttpOuttake's.*)
(***************************************************************************)
EXTENDS HttpTypes

CONSTANTS
  Requests,     \* the requests a client may make
  MaxPipelined  \* bound: how many of them it sends without reading a reply

Methods == {HttpMethod[i] : i \in 2..4}   \* what nextRequest() can return
Schemas == {HttpSchema[i] : i \in 1..3}

(* A request, by what the worker distinguishes.  form says whether          *)
(* nextRequest() can return it, gives up on it for its length, or meets a   *)
(* header value whose conversion throws.                                    *)
Request == [schema : Schemas, method : Methods, uri : {"/", "other"},
            connection : {"none", "close", "other", "integer"}, host : BOOLEAN,
            form : {"fine", "too_long", "unconvertible"}]

ASSUME RequestsAssumption == Requests \subseteq Request
ASSUME MaxPipelinedAssumption == MaxPipelined \in Nat \ {0}

VARIABLES
  m_state,              \* WorkerJob::m_state
  m_conn_persist_flag,  \* WorkerJob::m_conn_persist_flag
  m_diagnosis,          \* WorkerJob::m_diagnosis
  temp_req, temp_res,   \* operator()'s locals
  m_closed,             \* ClientSocket::m_closed of m_connection
  timed,                \* kernel: the socket has the receive timeout
  inbox,                \* kernel: the requests that arrived and were not read
  part,                 \* kernel: octets of a request that is not finished, not read yet
  outstanding,          \* client: the requests it has no reply to
  gone,                 \* client: it hung up
  reply,                \* client: the last reply on this connection
  alive                 \* the process runs

jobVars    == <<m_conn_persist_flag, m_diagnosis>>
localVars  == <<temp_req, temp_res>>
clientVars == <<outstanding, part, gone, reply>>
vars == <<m_state, jobVars, localVars, m_closed, timed, inbox, clientVars, alive>>

(* Request {} and what nextRequest() makes of a socket that is closed: an  *)
(* empty top line, then an empty line for the end of the headers.          *)
EmptyRequest == [schema |-> "http_1_0", method |-> "h1_head", uri |-> "",
                 connection |-> "none", host |-> FALSE, form |-> "fine"]
BlankRequest == [schema |-> "http_unknown", method |-> "h1_nop", uri |-> "",
                 connection |-> "none", host |-> FALSE, form |-> "fine"]

Response == [status : {"ok", "bad_request", "not_found", "server_error"},
             schema : Schemas, connection : {"none", "close", "keep-alive"}]
EmptyResponse == [status |-> "ok", schema |-> "http_1_0", connection |-> "none"]
NoReply == [status |-> "none"]

(* A response as the client reads it: the words of its top line, and       *)
(* whether it announces the end of the connection.                         *)
OnWire(res) ==
  [version |-> stringifySchema(res.schema), status |-> stringifyStatus(res.status),
   reason |-> stringifyToMsg(res.status), closes |-> res.connection = "close"]

-----------------------------------------------------------------------------
(* The client, while it has a connection.  It asks when the last octets of *)
(* a request arrive, those that decide what becomes of it.                 *)

Connected == m_state \notin {"take_task", "halt"}

Ask(r) ==
  /\ alive /\ Connected /\ ~gone
  /\ Len(outstanding) < MaxPipelined
  /\ inbox' = Append(inbox, r)
  /\ outstanding' = Append(outstanding, r)
  /\ part' = FALSE
  /\ UNCHANGED <<timed, m_state, jobVars, localVars, m_closed, gone, reply, alive>>

(* Octets of the next request, but not the last of them: one more header,  *)
(* or a carriage return, which fills no buffer.                            *)
Trickle ==
  /\ alive /\ Connected /\ ~gone
  /\ part' = TRUE
  /\ UNCHANGED <<timed, m_state, jobVars, localVars, m_closed, inbox, outstanding, gone, reply, alive>>

HangUp ==
  /\ alive /\ Connected /\ ~gone
  /\ gone' = TRUE
  /\ UNCHANGED <<timed, m_state, jobVars, localVars, m_closed, inbox, outstanding, part, reply, alive>>

-----------------------------------------------------------------------------
(* The worker. *)

transitionAnyway(from, next) == alive /\ m_state = from /\ m_state' = next

(* std::terminate(), or the default action of SIGPIPE *)
Dies ==
  /\ alive' = FALSE
  /\ UNCHANGED <<timed, m_state, jobVars, localVars, m_closed, inbox, clientVars>>

(* The socket is made with a receive timeout, and used without if that fails. *)
TakeTask ==
  /\ transitionAnyway("take_task", "request")
  /\ m_closed' = FALSE
  /\ timed' \in BOOLEAN
  /\ inbox' = <<>> /\ outstanding' = <<>> /\ part' = FALSE /\ gone' = FALSE /\ reply' = NoReply
  /\ UNCHANGED <<jobVars, localVars, alive>>

TakePoison ==
  /\ transitionAnyway("take_task", "halt")
  /\ UNCHANGED <<timed, jobVars, localVars, m_closed, inbox, clientVars, alive>>

(* stateRequest: on a closed socket readLine() does not fail. *)
ReadRequest ==
  /\ transitionAnyway("request", "validate")
  /\ m_closed \/ (inbox # <<>> /\ Head(inbox).form = "fine")
  /\ temp_req' = IF m_closed THEN BlankRequest ELSE Head(inbox)
  /\ inbox' = IF m_closed THEN inbox ELSE Tail(inbox)
  /\ UNCHANGED <<timed, jobVars, temp_res, m_closed, clientVars, alive>>

(* recv() returns an octet: the wait for the next one begins anew. *)
ReadPart ==
  /\ transitionAnyway("request", "request")
  /\ ~m_closed
  /\ inbox = <<>> /\ part
  /\ part' = FALSE
  /\ UNCHANGED <<timed, jobVars, localVars, m_closed, inbox, outstanding, gone, reply, alive>>

(* Mutant: recv() waits for as long as the client is connected. *)
ReadFailsUntimed ==
  /\ transitionAnyway("request", "error")
  /\ ~m_closed
  /\ gone
  /\ m_closed' = TRUE
  /\ temp_req' = EmptyRequest
  /\ UNCHANGED <<timed, jobVars, temp_res, inbox, clientVars, alive>>

(* the client is gone, or sent no octet for the time of one recv() *)
ReadFails ==
  /\ transitionAnyway("request", "error")
  /\ ~m_closed
  /\ gone \/ (inbox = <<>> /\ ~part /\ timed)
  /\ m_closed' = TRUE
  /\ temp_req' = EmptyRequest
  /\ UNCHANGED <<timed, jobVars, temp_res, inbox, clientVars, alive>>

(* Mutant: a request that is too long is skipped and the next one read. *)
ReadTooLongSkips ==
  /\ transitionAnyway("request", "request")
  /\ ~m_closed
  /\ inbox # <<>> /\ Head(inbox).form = "too_long"
  /\ temp_req' = EmptyRequest
  /\ inbox' = Tail(inbox)
  /\ UNCHANGED <<timed, jobVars, temp_res, m_closed, clientVars, alive>>

(* a line or a body is longer than the buffer *)
ReadTooLong ==
  /\ transitionAnyway("request", "error")
  /\ ~m_closed
  /\ inbox # <<>> /\ Head(inbox).form = "too_long"
  /\ temp_req' = EmptyRequest
  /\ inbox' = Tail(inbox)
  /\ UNCHANGED <<timed, jobVars, temp_res, m_closed, clientVars, alive>>

(* a conversion throws in a function declared noexcept *)
ReadThrows ==
  /\ alive /\ m_state = "request" /\ ~m_closed
  /\ inbox # <<>> /\ Head(inbox).form = "unconvertible"
  /\ Dies

connection_closable ==
  IF temp_req.connection # "none"
  THEN temp_req.connection = "close"
  ELSE temp_req.schema = "http_1_0"

TopLineBad == temp_req.schema = "http_unknown" \/ temp_req.method = "h1_nop"
HostMissing == temp_req.schema = "http_1_1" /\ ~temp_req.host

(* Mutant: the diagnosis of an earlier request is kept. *)
ValidateKeepsDiagnosis ==
  /\ \/ transitionAnyway("validate", "handle_bad") /\ TopLineBad
        /\ m_diagnosis' = "malformed_top_line"
     \/ transitionAnyway("validate", "handle_bad") /\ ~TopLineBad /\ HostMissing
        /\ UNCHANGED m_diagnosis
     \/ transitionAnyway("validate", "handle_good") /\ ~TopLineBad /\ ~HostMissing
        /\ UNCHANGED m_diagnosis
  /\ temp_req.connection # "integer"
  /\ m_conn_persist_flag' = IF connection_closable THEN "no" ELSE "yes"
  /\ UNCHANGED <<timed, localVars, m_closed, inbox, clientVars, alive>>

Validate ==
  /\ \/ transitionAnyway("validate", "handle_bad") /\ TopLineBad
        /\ m_diagnosis' = "malformed_top_line"
     \/ transitionAnyway("validate", "handle_bad") /\ ~TopLineBad /\ HostMissing
        /\ m_diagnosis' = "missing_header"
     \/ transitionAnyway("validate", "handle_good") /\ ~TopLineBad /\ ~HostMissing
        /\ UNCHANGED m_diagnosis
  /\ temp_req.connection # "integer"
  /\ m_conn_persist_flag' = IF connection_closable THEN "no" ELSE "yes"
  /\ UNCHANGED <<timed, localVars, m_closed, inbox, clientVars, alive>>

(* Mutant: at("Connection") without asking contains() first. *)
ValidateThrowsAlways ==
  /\ alive /\ m_state = "validate"
  /\ temp_req.connection \in {"integer", "none"}
  /\ Dies

(* std::get<std::string> of a header that was stored as an int *)
ValidateThrows ==
  /\ alive /\ m_state = "validate"
  /\ temp_req.connection = "integer"
  /\ Dies

NoHandler == temp_req.uri # "/" \/ temp_req.method # "h1_get"

HandleGood ==
  /\ \/ /\ NoHandler
        /\ transitionAnyway("handle_good", "handle_bad")
        /\ m_diagnosis' = "has_invalid_uri"
        /\ temp_res' = EmptyResponse
     \/ /\ ~NoHandler
        /\ transitionAnyway("handle_good", "reply")
        /\ UNCHANGED m_diagnosis
        /\ temp_res' = [status |-> "ok", schema |-> temp_req.schema,
                        connection |-> IF m_conn_persist_flag = "no" THEN "close" ELSE "none"]
  /\ UNCHANGED <<timed, m_conn_persist_flag, temp_req, m_closed, inbox, clientVars, alive>>

DiagnosedStatus ==
  CASE m_diagnosis \in {"malformed_top_line", "missing_header"} -> "bad_request"
    [] m_diagnosis = "has_invalid_uri" -> "not_found"
    [] OTHER -> "server_error"

HandleBad ==
  /\ transitionAnyway("handle_bad", "reply")
  /\ temp_res' = [status |-> DiagnosedStatus, schema |-> temp_req.schema,
                  connection |-> IF m_conn_persist_flag = "yes" THEN "keep-alive" ELSE "close"]
  /\ UNCHANGED <<timed, jobVars, temp_req, m_closed, inbox, clientVars, alive>>

(* Mutant: a connection that is not kept is not reset either. *)
AfterReplySkipsReset == IF m_conn_persist_flag = "yes" THEN "request" ELSE "take_task"

(* transitionWith(reply, persist) *)
AfterReply == IF m_conn_persist_flag = "yes" THEN "request" ELSE "reset"

ReplySent ==
  /\ transitionAnyway("reply", AfterReply)
  /\ ~m_closed
  /\ reply' = OnWire(temp_res)
  /\ outstanding' = IF outstanding = <<>> THEN <<>> ELSE Tail(outstanding)
  /\ UNCHANGED <<timed, jobVars, localVars, m_closed, inbox, part, gone, alive>>

(* Mutant: the result of sendMessage() is ignored. *)
ReplyFailureIgnored ==
  /\ transitionAnyway("reply", AfterReply)
  /\ m_closed \/ gone
  /\ m_closed' = TRUE
  /\ UNCHANGED <<timed, jobVars, localVars, inbox, clientVars, alive>>

ReplyFails ==
  /\ transitionAnyway("reply", "error")
  /\ m_closed \/ gone
  /\ m_closed' = TRUE
  /\ UNCHANGED <<timed, jobVars, localVars, inbox, clientVars, alive>>

(* send() to a peer that is gone raises SIGPIPE, which nobody handles *)
ReplyKills ==
  /\ alive /\ m_state = "reply" /\ ~m_closed /\ gone
  /\ Dies

Error ==
  /\ transitionAnyway("error", "reset")
  /\ UNCHANGED <<timed, jobVars, localVars, m_closed, inbox, clientVars, alive>>

Reset ==
  /\ transitionAnyway("reset", "take_task")
  /\ m_closed' = TRUE
  /\ m_conn_persist_flag' = "unknown"
  /\ UNCHANGED <<timed, m_diagnosis, localVars, inbox, clientVars, alive>>

Stopped == (~alive \/ m_state = "halt") /\ UNCHANGED vars

-----------------------------------------------------------------------------
Init ==
  /\ m_state = "take_task"
  /\ m_conn_persist_flag = "unknown" /\ m_diagnosis = "ok"
  /\ temp_req = EmptyRequest /\ temp_res = EmptyResponse
  /\ m_closed = TRUE /\ timed = FALSE
  /\ inbox = <<>> /\ outstanding = <<>> /\ part = FALSE /\ gone = FALSE /\ reply = NoReply
  /\ alive = TRUE

(* Serving a connection; taking the next one is up to the others. *)
Serve ==
  \/ ReadPart \/ ReadRequest \/ ReadFails \/ ReadTooLong \/ ReadThrows
  \/ Validate \/ ValidateThrows \/ HandleGood \/ HandleBad
  \/ ReplySent \/ ReplyFails \/ ReplyKills \/ Error \/ Reset

Next ==
  \/ Serve \/ TakeTask \/ TakePoison \/ Stopped
  \/ Trickle \/ HangUp \/ \E r \in Requests : Ask(r)

Spec == Init /\ [][Next]_vars

(* The thread runs, and a recv() that has a timeout returns within it. *)
FairSpec == Spec /\ WF_vars(Serve)

-----------------------------------------------------------------------------
(* Properties. *)

States == {"take_task", "request", "validate", "handle_good", "handle_bad", "reply",
           "reset", "error", "halt"}

(* Every variable has a value of its type. *)
TypeOK ==
  /\ m_state \in States
  /\ m_conn_persist_flag \in {"yes", "no", "unknown"}
  /\ m_diagnosis \in {"ok", "malformed_top_line", "missing_header", "has_invalid_uri"}
  /\ temp_req \in Requests \cup {EmptyRequest}
  /\ temp_res \in Response
  /\ reply \in {OnWire(res) : res \in Response} \cup {NoReply}
  /\ inbox \in Seq(Requests) /\ outstanding \in Seq(Requests)
  /\ m_closed \in BOOLEAN /\ timed \in BOOLEAN /\ part \in BOOLEAN /\ gone \in BOOLEAN /\ alive \in BOOLEAN

(* The worker and its client are in step: what the client waits for is the *)
(* request being served and then those not read yet, so that no request is *)
(* skipped, made up, or answered twice; and the worker reads only from a   *)
(* socket that did not fail, for a failed one reads as empty lines.        *)
Serving == m_state \in {"validate", "handle_good", "handle_bad", "reply"}
InStep ==
  /\ Serving => outstanding = <<temp_req>> \o inbox
  /\ m_state = "request" => outstanding = inbox
  /\ Serving \/ m_state = "request" => ~m_closed

(* The process only dies serving a client that hung up, or one whose       *)
(* request holds a header value of the wrong type.                         *)
DeathIsExplained ==
  \/ alive
  \/ gone
  \/ /\ outstanding # <<>>
     /\ \/ Head(outstanding).form = "unconvertible"
        \/ Head(outstanding).connection = "integer"

(* The phases of an exchange are those ServerDriver gives a worker, which  *)
(* knows no more of it: no path through the states leaves out reset, where *)
(* the descriptor is closed, or serves a connection it was not given.      *)
Phase ==
  IF Serving THEN "reply" ELSE IF m_state \in {"error", "reset"} THEN "reset" ELSE m_state
Follows ==
  {<<"take_task", "request">>, <<"take_task", "halt">>, <<"request", "reply">>,
   <<"request", "reset">>, <<"reply", "request">>, <<"reply", "reset">>,
   <<"reset", "take_task">>}
ExchangeAsInServerDriver == [][Phase' # Phase => <<Phase, Phase'>> \in Follows]_m_state

(* What the client sees of the connection. *)
Connection == INSTANCE HttpConnection WITH
  link  <- IF ~Connected THEN "none"
           ELSE IF m_state \in {"error", "reset"} THEN "closing" ELSE "open"

(* The worker keeps what HttpConnection promises the client. *)
ImplementsConnection == Connection!Spec

(* A client that hung up does not keep its worker: it comes back for the   *)
(* next task, unless the process died.                                     *)
FreedWhenGone == (Connected /\ gone) ~> (m_state = "take_task" \/ ~alive)

(* Nor does one that falls silent, provided the socket took its timeout.   *)
(* To keep its worker a client has to go on sending; octets of one request *)
(* that never ends are enough, for the timeout is that of one recv() and   *)
(* nothing bounds the lines of a request.                                  *)
Asks == Len(outstanding') > Len(outstanding)
Trickles == part' /\ ~part
FreedWhenSilent == <>[](Connected /\ alive /\ timed) => []<><<Asks \/ Trickles>>_vars
=============================================================================
