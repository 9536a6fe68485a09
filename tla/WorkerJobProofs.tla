--------------------------- MODULE WorkerJobProofs ---------------------------
(***************************************************************************)
(* Safety of WorkerJob, for any set of requests a client may make and any  *)
(* bound on those it sends ahead.                                          *)
(***************************************************************************)
EXTENDS WorkerJob, TLAPS

(* What the worker knows at each of its states of the request it serves,   *)
(* and what it has made of it so far: the diagnosis an earlier request     *)
(* left behind does not show in the reply, nor does its persist flag.      *)
Answering == m_state \in {"handle_good", "handle_bad", "reply"}

Diagnosis ==
  IF TopLineBad THEN "malformed_top_line"
  ELSE IF HostMissing THEN "missing_header" ELSE "has_invalid_uri"

RequestInv ==
  /\ Serving => temp_req \in Requests /\ temp_req.form = "fine"
  /\ Answering =>
       /\ temp_req.connection # "integer"
       /\ m_conn_persist_flag = IF connection_closable THEN "no" ELSE "yes"
  /\ m_state = "handle_good" => ~TopLineBad /\ ~HostMissing
  /\ m_state = "handle_bad" =>
       /\ m_diagnosis = Diagnosis
       /\ TopLineBad \/ HostMissing \/ NoHandler
  /\ m_state = "reply" => OnWire(temp_res) = Connection!Reply(temp_req)

JobInv == TypeOK /\ InStep /\ RequestInv

-----------------------------------------------------------------------------
(* Names on the wire, and queues of requests. *)

LEMMA SchemaNames ==
  /\ stringifySchema("http_1_0") = "HTTP/1.0"
  /\ stringifySchema("http_1_1") = "HTTP/1.1"
  /\ stringifySchema("http_unknown") = "HTTP/x.x"
<1> DEFINE place(e) == CHOOSE i \in DOMAIN schemas : HttpSchema[i] = e
<1>1. DOMAIN schemas = 1..3
  BY DEF schemas
<1>2. \A i \in 1..3 : HttpSchema[i] = IF i = 1 THEN "http_1_0"
                                      ELSE IF i = 2 THEN "http_1_1" ELSE "http_unknown"
  BY DEF HttpSchema
<1>3. place("http_1_0") = 1 /\ place("http_1_1") = 2 /\ place("http_unknown") = 3
  BY <1>1, <1>2
<1>4. schemas[1] = "HTTP/1.0" /\ schemas[2] = "HTTP/1.1" /\ schemas[3] = "HTTP/x.x"
  BY DEF schemas
<1> QED
  BY <1>3, <1>4 DEF stringifySchema, lookup

LEMMA StatusNames ==
  /\ stringifyStatus("ok") = "200" /\ stringifyToMsg("ok") = "OK"
  /\ stringifyStatus("bad_request") = "400"
  /\ stringifyToMsg("bad_request") = "Bad Request"
  /\ stringifyStatus("not_found") = "404" /\ stringifyToMsg("not_found") = "Not Found"
<1> DEFINE code(e) == CHOOSE i \in DOMAIN status_codes : HttpStatus[i] = e
           msg(e)  == CHOOSE i \in DOMAIN status_msgs : HttpStatus[i] = e
<1>1. DOMAIN status_codes = 1..5 /\ DOMAIN status_msgs = 1..5
  BY DEF status_codes, status_msgs
<1>2. \A i \in 1..5 : HttpStatus[i] = IF i = 1 THEN "ok" ELSE IF i = 2 THEN "bad_request"
                                      ELSE IF i = 3 THEN "not_found"
                                      ELSE IF i = 4 THEN "server_error"
                                      ELSE "not_implemented"
  BY DEF HttpStatus
<1>3. /\ code("ok") = 1 /\ code("bad_request") = 2 /\ code("not_found") = 3
      /\ msg("ok") = 1 /\ msg("bad_request") = 2 /\ msg("not_found") = 3
  BY <1>1, <1>2
<1>4. /\ status_codes[1] = "200" /\ status_codes[2] = "400" /\ status_codes[3] = "404"
      /\ status_msgs[1] = "OK" /\ status_msgs[2] = "Bad Request"
      /\ status_msgs[3] = "Not Found"
  BY DEF status_codes, status_msgs
<1> QED
  BY <1>3, <1>4 DEF stringifyStatus, stringifyToMsg, lookup

LEMMA FirstOfQueue ==
  ASSUME NEW S, NEW a \in S, NEW s \in Seq(S)
  PROVE  /\ <<a>> \o s \in Seq(S) /\ <<a>> \o s # <<>>
         /\ Head(<<a>> \o s) = a /\ Tail(<<a>> \o s) = s
         /\ \A b \in S : Append(<<a>> \o s, b) = <<a>> \o Append(s, b)
  OBVIOUS

LEMMA SplitQueue ==
  ASSUME NEW S, NEW s \in Seq(S), s # <<>>
  PROVE  Head(s) \in S /\ Tail(s) \in Seq(S) /\ s = <<Head(s)>> \o Tail(s)
  OBVIOUS

(* What RequestsAssumption says of the fields a reply is made from. *)
LEMMA RequestFields ==
  ASSUME NEW r \in Requests
  PROVE  /\ r.schema \in {"http_1_0", "http_1_1", "http_unknown"}
         /\ r.host \in BOOLEAN
  BY RequestsAssumption DEF Request, Schemas, HttpSchema

-----------------------------------------------------------------------------
(* Each step keeps JobInv. *)

LEMMA ClientStepInv ==
  ASSUME JobInv, Trickle \/ HangUp \/ \E r \in Requests : Ask(r)
  PROVE  JobInv'
<1> USE DEF JobInv, jobVars, localVars
<1>1. UNCHANGED <<m_state, jobVars, localVars, m_closed, timed, reply>>
  BY DEF Trickle, HangUp, Ask
<1>2. RequestInv'
  BY <1>1 DEF RequestInv, Serving, Answering, Diagnosis, TopLineBad, HostMissing,
              NoHandler, connection_closable
<1>3. CASE Trickle \/ HangUp
  <2>1. /\ UNCHANGED <<inbox, outstanding, alive>>
        /\ part' \in BOOLEAN /\ gone' \in BOOLEAN
    BY <1>3 DEF Trickle, HangUp, TypeOK
  <2>2. TypeOK'
    BY <1>1, <2>1 DEF TypeOK
  <2>3. InStep'
    BY <1>1, <2>1 DEF InStep, Serving
  <2> QED
    BY <1>2, <2>2, <2>3
<1>4. ASSUME NEW r \in Requests, Ask(r)
      PROVE  JobInv'
  <2>1. /\ inbox' \in Seq(Requests) /\ outstanding' \in Seq(Requests)
        /\ part' = FALSE /\ UNCHANGED <<gone, alive>>
    BY <1>4 DEF Ask, TypeOK
  <2>2. TypeOK'
    BY <1>1, <2>1 DEF TypeOK
  <2>3. InStep'
    BY <1>4, FirstOfQueue DEF Ask, InStep, Serving, TypeOK, RequestInv
  <2> QED
    BY <1>2, <2>2, <2>3
<1> QED
  BY <1>3, <1>4

(* A step into a state where no request is being served. *)
LEMMA NotServing ==
  ASSUME TypeOK', m_state' \in {"take_task", "error", "reset", "halt"}
  PROVE  JobInv'
  BY DEF JobInv, InStep, RequestInv, Serving, Answering

LEMMA ReadRequestInv ==
  ASSUME JobInv, ReadRequest
  PROVE  JobInv'
<1> USE DEF JobInv, jobVars, clientVars, transitionAnyway
<1>1. /\ ~m_closed /\ inbox # <<>> /\ outstanding = inbox
      /\ temp_req' = Head(inbox) /\ inbox' = Tail(inbox) /\ temp_req'.form = "fine"
      /\ m_state' = "validate"
  BY DEF ReadRequest, InStep
<1>2. /\ Head(inbox) \in Requests /\ Tail(inbox) \in Seq(Requests)
      /\ inbox = <<Head(inbox)>> \o Tail(inbox)
  BY <1>1, SplitQueue DEF TypeOK
<1>3. TypeOK'
  BY <1>1, <1>2 DEF ReadRequest, TypeOK, States
<1>4. InStep'
  BY <1>1, <1>2 DEF ReadRequest, InStep, Serving
<1>5. RequestInv'
  BY <1>1, <1>2 DEF RequestInv, Serving, Answering
<1> QED
  BY <1>3, <1>4, <1>5

LEMMA ValidateInv ==
  ASSUME JobInv, Validate
  PROVE  JobInv'
<1> USE DEF JobInv, localVars, clientVars, transitionAnyway
<1>1. m_state' \in {"handle_good", "handle_bad"} /\ m_state = "validate"
  BY DEF Validate
<1>2. TypeOK'
  BY DEF Validate, TypeOK, States
<1>3. InStep'
  BY <1>1 DEF Validate, InStep, Serving
<1>4. RequestInv'
  BY <1>1 DEF Validate, RequestInv, Serving, Answering, Diagnosis, TopLineBad,
              HostMissing, NoHandler, connection_closable
<1> QED
  BY <1>2, <1>3, <1>4

LEMMA HandleInv ==
  ASSUME JobInv, HandleGood \/ HandleBad
  PROVE  JobInv'
<1> USE DEF JobInv, jobVars, clientVars, transitionAnyway
<1>1. /\ m_state \in {"handle_good", "handle_bad"} /\ m_state' \in {"handle_bad", "reply"}
      /\ temp_req' = temp_req /\ temp_req \in Requests
      /\ UNCHANGED <<m_conn_persist_flag, inbox, outstanding, m_closed>>
  BY DEF HandleGood, HandleBad, RequestInv, Serving
<1>2. temp_res' \in Response
  BY <1>1, RequestFields
     DEF HandleGood, HandleBad, DiagnosedStatus, EmptyResponse, Response, Schemas,
         HttpSchema
<1>3. TypeOK'
  BY <1>1, <1>2 DEF HandleGood, HandleBad, TypeOK, States
<1>4. InStep'
  BY <1>1 DEF InStep, Serving
<1>5. CASE m_state' = "handle_bad"
  <2>1. RequestInv'
    BY <1>1, <1>5 DEF HandleGood, HandleBad, RequestInv, Serving, Answering, Diagnosis,
                      TopLineBad, HostMissing, NoHandler, connection_closable
  <2> QED
    BY <1>3, <1>4, <2>1
<1>6. CASE m_state' = "reply"
  <2>1. /\ temp_res'.schema = temp_req.schema
        /\ temp_res'.connection = "close" <=> m_conn_persist_flag = "no"
    BY <1>1, <1>6 DEF HandleGood, HandleBad, RequestInv, Answering
  <2>2. temp_res'.status = IF TopLineBad \/ HostMissing THEN "bad_request"
                           ELSE IF NoHandler THEN "not_found" ELSE "ok"
    BY <1>6 DEF HandleGood, HandleBad, RequestInv, DiagnosedStatus, Diagnosis
  <2>3. /\ stringifySchema(temp_req.schema) = Connection!Version(temp_req)
        /\ <<stringifyStatus(temp_res'.status), stringifyToMsg(temp_res'.status)>> =
             Connection!Status(temp_req)
    <3>1. stringifySchema(temp_req.schema) = Connection!Version(temp_req)
      BY <1>1, RequestFields, SchemaNames DEF Connection!Version
    <3>2. <<stringifyStatus(temp_res'.status), stringifyToMsg(temp_res'.status)>> =
             Connection!Status(temp_req)
      BY <2>2, StatusNames DEF Connection!Status, TopLineBad, HostMissing, NoHandler
    <3> QED
      BY <3>1, <3>2
  <2>4. (temp_res'.connection = "close") = Connection!Closes(temp_req)
    BY <1>1, <2>1 DEF RequestInv, Answering, Connection!Closes, connection_closable
  <2>5. OnWire(temp_res') = Connection!Reply(temp_req)
    BY <2>1, <2>3, <2>4 DEF OnWire, Connection!Reply
  <2>6. RequestInv'
    BY <1>1, <1>6, <2>5 DEF RequestInv, Serving, Answering, connection_closable
  <2> QED
    BY <1>3, <1>4, <2>6
<1> QED
  BY <1>1, <1>5, <1>6

LEMMA ReplySentInv ==
  ASSUME JobInv, ReplySent
  PROVE  /\ JobInv'
         /\ outstanding # <<>> /\ Head(outstanding) = temp_req
         /\ outstanding' = Tail(outstanding)
<1> USE DEF JobInv, jobVars, localVars, transitionAnyway
<1>1. /\ temp_req \in Requests /\ inbox \in Seq(Requests)
      /\ outstanding = <<temp_req>> \o inbox
  BY DEF ReplySent, TypeOK, RequestInv, InStep, Serving
<1>2. /\ outstanding # <<>> /\ Head(outstanding) = temp_req
      /\ outstanding' = Tail(outstanding) /\ outstanding' = inbox
  BY <1>1, FirstOfQueue DEF ReplySent
<1>3. TypeOK'
  BY <1>1, <1>2 DEF ReplySent, AfterReply, TypeOK, States
<1>4. m_state' \in {"request", "reset"}
  BY DEF ReplySent, AfterReply
<1>5. InStep' /\ RequestInv'
  BY <1>2, <1>4 DEF ReplySent, InStep, RequestInv, Serving, Answering
<1> QED
  BY <1>2, <1>3, <1>5

LEMMA NextInv == JobInv /\ [Next]_vars => JobInv'
<1> SUFFICES ASSUME JobInv, [Next]_vars
             PROVE  JobInv'
  OBVIOUS
<1> USE DEF jobVars, localVars, clientVars, transitionAnyway
<1>1. CASE UNCHANGED vars \/ Stopped \/ ReadPart \/ ReadThrows \/ ValidateThrows \/ ReplyKills
  <2>1. /\ UNCHANGED <<m_state, jobVars, localVars, m_closed, timed, inbox, outstanding, gone, reply>>
        /\ part' \in BOOLEAN /\ alive' \in BOOLEAN
    BY <1>1 DEF Stopped, ReadPart, ReadThrows, ValidateThrows, ReplyKills, Dies, vars, JobInv, TypeOK
  <2> QED
    BY <2>1 DEF JobInv, TypeOK, InStep, Serving, RequestInv, Answering, Diagnosis,
                TopLineBad, HostMissing, NoHandler, connection_closable
<1>2. CASE ReadFails \/ ReadTooLong
  <2>1. inbox' \in Seq(Requests)
    BY <1>2, SplitQueue DEF ReadFails, ReadTooLong, JobInv, TypeOK
  <2>2. TypeOK' /\ m_state' = "error"
    BY <1>2, <2>1 DEF ReadFails, ReadTooLong, JobInv, TypeOK, States
  <2> QED
    BY <2>2, NotServing
<1>3. CASE ReplyFails \/ Error \/ Reset \/ TakePoison
  <2>1. TypeOK' /\ m_state' \in {"take_task", "error", "reset", "halt"}
    BY <1>3 DEF ReplyFails, Error, Reset, TakePoison, JobInv, TypeOK, States
  <2> QED
    BY <2>1, NotServing
<1>4. CASE TakeTask
  <2>1. <<>> \in Seq(Requests)
    OBVIOUS
  <2>2. TypeOK'
    BY <1>4, <2>1 DEF TakeTask, JobInv, TypeOK, States
  <2> QED
    BY <1>4, <2>2 DEF TakeTask, JobInv, InStep, RequestInv, Serving, Answering
<1> QED
  BY <1>1, <1>2, <1>3, <1>4, ReadRequestInv, ValidateInv, HandleInv, ReplySentInv,
     ClientStepInv DEF Next, Serve

LEMMA InitInv == Init => JobInv
<1> SUFFICES ASSUME Init
             PROVE  JobInv
  OBVIOUS
<1>1. EmptyResponse \in Response
  BY DEF EmptyResponse, Response, Schemas, HttpSchema
<1>2. <<>> \in Seq(Requests)
  OBVIOUS
<1>3. TypeOK
  BY <1>1, <1>2 DEF Init, TypeOK, States
<1> QED
  BY <1>3 DEF Init, JobInv, InStep, RequestInv, Serving, Answering

LEMMA JobInvInductive == Spec => []JobInv
  BY InitInv, NextInv, PTL DEF Spec

(* Every variable of the worker always has a value of its type: no request *)
(* is ever made up of the empty lines a closed socket reads as.            *)
THEOREM WorkerTypeCorrect == Spec => []TypeOK
<1>1. JobInv => TypeOK
  BY DEF JobInv
<1> QED
  BY <1>1, JobInvInductive, PTL

(* The worker and its client stay in step: what the client waits for is    *)
(* the request being served and then those not read yet.                   *)
THEOREM InStepCorrect == Spec => []InStep
<1>1. JobInv => InStep
  BY DEF JobInv
<1> QED
  BY <1>1, JobInvInductive, PTL

-----------------------------------------------------------------------------
(* The process only dies serving a client that hung up, or one whose       *)
(* request holds a header value of the wrong type.                         *)
THEOREM DeathIsExplainedCorrect == Spec => []DeathIsExplained
<1>1. Init => DeathIsExplained
  BY DEF Init, DeathIsExplained
<1>2. JobInv /\ DeathIsExplained /\ [Next]_vars => DeathIsExplained'
  <2> SUFFICES ASSUME JobInv, DeathIsExplained, [Next]_vars
               PROVE  DeathIsExplained'
    OBVIOUS
  <2>1. CASE ReadThrows
    BY <2>1 DEF ReadThrows, Dies, JobInv, InStep, DeathIsExplained, clientVars
  <2>2. CASE ValidateThrows
    <3>1. temp_req \in Requests /\ inbox \in Seq(Requests)
          /\ outstanding = <<temp_req>> \o inbox
      BY <2>2 DEF ValidateThrows, JobInv, TypeOK, RequestInv, InStep, Serving
    <3>2. outstanding # <<>> /\ Head(outstanding) = temp_req
      BY <3>1, FirstOfQueue
    <3> QED
      BY <2>2, <3>2 DEF ValidateThrows, Dies, DeathIsExplained, clientVars
  <2>3. CASE ReplyKills
    BY <2>3 DEF ReplyKills, Dies, DeathIsExplained, clientVars
  <2>4. CASE alive' /\ ~(ReadThrows \/ ValidateThrows \/ ReplyKills)
    BY <2>4 DEF DeathIsExplained
  <2>5. CASE UNCHANGED <<alive, clientVars>>
    BY <2>5 DEF DeathIsExplained, clientVars
  <2>6. \/ ReadThrows \/ ValidateThrows \/ ReplyKills
        \/ alive /\ alive' = alive
        \/ UNCHANGED <<alive, clientVars>>
    BY DEF Next, Serve, ReadPart, ReadRequest, ReadFails, ReadTooLong, Validate, HandleGood,
           HandleBad, ReplySent, ReplyFails, Error, Reset, TakeTask, TakePoison, Stopped,
           Trickle, HangUp, Ask, transitionAnyway, vars
  <2> QED
    BY <2>1, <2>2, <2>3, <2>4, <2>5, <2>6
<1> QED
  BY <1>1, <1>2, JobInvInductive, PTL DEF Spec

(* The phases of an exchange are those ServerDriver gives a worker: none   *)
(* of its paths leaves out reset, where the descriptor is closed.          *)
THEOREM ExchangeCorrect == Spec => ExchangeAsInServerDriver
<1>1. [Next]_vars => [Phase' # Phase => <<Phase, Phase'>> \in Follows]_m_state
  <2> SUFFICES ASSUME [Next]_vars
               PROVE  Phase' # Phase => <<Phase, Phase'>> \in Follows
    OBVIOUS
  <2> USE DEF Phase, Serving, Follows
  <2>1. CASE UNCHANGED m_state
    BY <2>1
  <2>2. CASE ReadRequest \/ ReadFails \/ ReadTooLong \/ Validate \/ HandleGood \/ HandleBad
    BY <2>2 DEF ReadRequest, ReadFails, ReadTooLong, Validate, HandleGood, HandleBad,
                transitionAnyway
  <2>3. CASE ReplySent \/ ReplyFails
    BY <2>3 DEF ReplySent, ReplyFails, AfterReply, transitionAnyway
  <2>4. CASE Error \/ Reset \/ TakeTask \/ TakePoison
    BY <2>4 DEF Error, Reset, TakeTask, TakePoison, transitionAnyway
  <2> QED
    BY <2>1, <2>2, <2>3, <2>4
       DEF Next, Serve, ReadPart, ReadThrows, ValidateThrows, ReplyKills, Dies, Stopped,
           Trickle, HangUp, Ask, transitionAnyway, vars
<1> QED
  BY <1>1, PTL DEF Spec, ExchangeAsInServerDriver

-----------------------------------------------------------------------------
(* The worker keeps what HttpConnection promises a client: replies in the  *)
(* order of the requests, each with the status its request calls for, and  *)
(* no hanging up that was not announced or brought on by the client.       *)
THEOREM WorkerImplementsConnection == Spec => ImplementsConnection
<1>1. Init => Connection!Init
  BY DEF Init, Connection!Init, Connected, NoReply, Connection!NoReply
<1>2. JobInv /\ JobInv' /\ [Next]_vars => [Connection!Next]_Connection!vars
  <2> SUFFICES ASSUME JobInv, JobInv', [Next]_vars
               PROVE  [Connection!Next]_Connection!vars
    OBVIOUS
  <2> USE DEF transitionAnyway, Connected, clientVars
  <2>1. CASE \/ ReadPart \/ ReadRequest \/ Validate \/ HandleGood \/ HandleBad \/ Error
             \/ TakePoison \/ ReadThrows \/ ValidateThrows \/ ReplyKills \/ Trickle \/ Stopped
             \/ UNCHANGED vars
    <3>1. UNCHANGED Connection!vars
      BY <2>1 DEF ReadPart, Trickle, ReadRequest, Validate, HandleGood, HandleBad, Error, TakePoison,
                  ReadThrows, ValidateThrows, ReplyKills, Dies, Stopped, vars,
                  Connection!vars
    <3> QED
      BY <3>1
  <2>2. CASE TakeTask
    <3>1. Connection!Open
      BY <2>2 DEF TakeTask, Connection!Open, NoReply, Connection!NoReply
    <3> QED
      BY <3>1 DEF Connection!Next
  <2>3. ASSUME NEW r \in Requests, Ask(r)
        PROVE  [Connection!Next]_Connection!vars
    <3>1. Connection!Ask
      BY <2>3 DEF Ask, Connection!Ask
    <3> QED
      BY <3>1 DEF Connection!Next
  <2>4. CASE HangUp
    <3>1. Connection!HangUp
      BY <2>4 DEF HangUp, Connection!HangUp
    <3> QED
      BY <3>1 DEF Connection!Next
  <2>5. CASE ReadFails \/ ReadTooLong \/ ReplyFails
    <3>1. gone \/ outstanding = <<>> \/ Head(outstanding).form = "too_long"
      BY <2>5 DEF ReadFails, ReadTooLong, ReplyFails, JobInv, InStep, Serving
    <3>2. Connection!Drop
      BY <2>5, <3>1 DEF ReadFails, ReadTooLong, ReplyFails, Connection!Drop
    <3> QED
      BY <3>2 DEF Connection!Next
  <2>6. CASE ReplySent
    <3>1. /\ outstanding # <<>> /\ Head(outstanding) = temp_req
          /\ outstanding' = Tail(outstanding)
      BY <2>6, ReplySentInv
    <3>2. temp_req.form = "fine" /\ reply' = Connection!Reply(temp_req)
      BY <2>6 DEF ReplySent, JobInv, RequestInv, Serving
    <3>3. m_state' = IF Connection!Closes(temp_req) THEN "reset" ELSE "request"
      BY <2>6 DEF ReplySent, AfterReply, JobInv, RequestInv, Answering,
                  Connection!Closes, connection_closable
    <3>4. reply'.closes = Connection!Closes(temp_req)
      BY <3>2 DEF Connection!Reply
    <3>5. Connection!Answer
      BY <2>6, <3>1, <3>2, <3>3, <3>4 DEF ReplySent, Connection!Answer
    <3> QED
      BY <3>5 DEF Connection!Next
  <2>7. CASE Reset
    <3>1. Connection!Close
      BY <2>7 DEF Reset, Connection!Close
    <3> QED
      BY <3>1 DEF Connection!Next
  <2> QED
    BY <2>1, <2>2, <2>3, <2>4, <2>5, <2>6, <2>7 DEF Next, Serve
<1> QED
  BY <1>1, <1>2, JobInvInductive, PTL DEF Spec, ImplementsConnection, Connection!Spec

-----------------------------------------------------------------------------
(* The steps run out. *)

(* What is left: the requests that arrived, each of them worth more than   *)
(* the steps that answer one, octets of one that is not finished, and the  *)
(* steps to the end of the connection.                                     *)
Rank == [take_task |-> 0, halt |-> 0, reset |-> 1, error |-> 2, request |-> 3, reply |-> 4,
         handle_bad |-> 5, handle_good |-> 6, validate |-> 7]
Flag(b) == IF b THEN 1 ELSE 0
Left == 8 * Len(inbox) + Rank[m_state] + Flag(part) + Flag(alive)

LEMMA ServeTakes ==
  ASSUME JobInv, Serve
  PROVE  Left' < Left /\ Left \in Nat /\ Left' \in Nat
<1>1. inbox \in Seq(Requests) /\ m_state \in States
  BY DEF JobInv, TypeOK
<1>2. PICK n \in Nat : n = Len(inbox)
  BY <1>1
<1>3. PICK r \in 0..7 : r = Rank[m_state]
  BY <1>1 DEF Rank, States
<1>4. PICK p \in {0, 1} : p = Flag(part)
  BY DEF Flag
<1>5. CASE ReadRequest \/ ReadTooLong
  <2>1. /\ alive /\ alive' = alive /\ m_state = "request" /\ m_state' \in {"validate", "error"}
        /\ ~m_closed /\ inbox # <<>> /\ inbox' = Tail(inbox) /\ part' = part
    BY <1>5 DEF ReadRequest, ReadTooLong, transitionAnyway, JobInv, InStep, clientVars
  <2>2. n > 0 /\ Len(inbox') = n - 1
    BY <1>1, <1>2, <2>1
  <2>3. PICK q \in {2, 7} : q = Rank[m_state'] /\ r = 3
    BY <1>3, <2>1 DEF Rank
  <2>4. Left = 8 * n + 3 + p + 1 /\ Left' = 8 * (n - 1) + q + p + 1
    BY <1>2, <1>3, <1>4, <2>1, <2>2, <2>3 DEF Left, Flag
  <2> QED
    BY <2>2, <2>3, <2>4
<1>6. CASE ReadThrows \/ ValidateThrows \/ ReplyKills
  <2>1. alive /\ ~alive' /\ UNCHANGED <<m_state, inbox, part>>
    BY <1>6 DEF ReadThrows, ValidateThrows, ReplyKills, Dies, clientVars
  <2>2. Left = 8 * n + r + p + 1 /\ Left' = 8 * n + r + p + 0
    BY <1>2, <1>3, <1>4, <2>1 DEF Left, Flag
  <2> QED
    BY <2>2
<1>7. CASE ReadPart
  <2>1. part /\ ~part' /\ UNCHANGED <<m_state, inbox, alive>>
    BY <1>7 DEF ReadPart, transitionAnyway
  <2>2. PICK a \in {0, 1} : a = Flag(alive)
    BY DEF Flag
  <2>3. Left = 8 * n + r + 1 + a /\ Left' = 8 * n + r + 0 + a
    BY <1>2, <1>3, <2>1, <2>2 DEF Left, Flag
  <2> QED
    BY <2>3
<1>8. CASE ReadFails \/ Validate \/ HandleGood \/ HandleBad \/ ReplySent \/ ReplyFails \/ Error
             \/ Reset
  <2>1. alive /\ alive' = alive /\ inbox' = inbox /\ part' = part
    BY <1>8 DEF ReadFails, Validate, HandleGood, HandleBad, ReplySent, ReplyFails, Error, Reset,
                transitionAnyway, clientVars
  <2>2. <<m_state, m_state'>> \in
          {<<"request", "error">>, <<"validate", "handle_bad">>, <<"validate", "handle_good">>,
           <<"handle_good", "handle_bad">>, <<"handle_good", "reply">>, <<"handle_bad", "reply">>,
           <<"reply", "request">>, <<"reply", "reset">>, <<"reply", "error">>,
           <<"error", "reset">>, <<"reset", "take_task">>}
    BY <1>8 DEF ReadFails, Validate, HandleGood, HandleBad, ReplySent, ReplyFails, Error, Reset,
                transitionAnyway, AfterReply
  <2>3. PICK q \in 0..7 : q = Rank[m_state'] /\ q < r
    BY <1>3, <2>2 DEF Rank
  <2>4. Left = 8 * n + r + p + 1 /\ Left' = 8 * n + q + p + 1
    BY <1>2, <1>3, <1>4, <2>1, <2>3 DEF Left, Flag
  <2> QED
    BY <2>3, <2>4
<1> QED
  BY <1>5, <1>6, <1>7, <1>8 DEF Serve

(* A client keeps its worker only by sending: every step of serving it     *)
(* leaves less of a number that is never negative, and that only what the  *)
(* client sends, a request or octets of one, or the next connection, adds  *)
(* to.                                                                     *)
Sends == Trickle \/ \E r \in Requests : Ask(r)
THEOREM ServingRunsOut ==
  Spec => [][/\ Serve => Left' < Left
             /\ Left' > Left => TakeTask \/ Sends
             /\ Left \in Nat]_vars
<1>1. ASSUME JobInv, [Next]_vars
      PROVE  [/\ Serve => Left' < Left
              /\ Left' > Left => TakeTask \/ Sends
              /\ Left \in Nat]_vars
  <2> USE <1>1
  <2>1. PICK l \in Nat : l = Left
    <3>1. inbox \in Seq(Requests) /\ m_state \in States
      BY DEF JobInv, TypeOK
    <3>2. PICK n \in Nat, r \in 0..7, p \in {0, 1}, a \in {0, 1} :
            n = Len(inbox) /\ r = Rank[m_state] /\ p = Flag(part) /\ a = Flag(alive)
      <4>1. Len(inbox) \in Nat
        BY <3>1
      <4>2. Rank[m_state] \in 0..7
        BY <3>1 DEF Rank, States
      <4>3. Flag(part) \in {0, 1} /\ Flag(alive) \in {0, 1}
        BY DEF Flag
      <4> QED
        BY <4>1, <4>2, <4>3
    <3>3. Left = 8 * n + r + p + a
      BY <3>2 DEF Left
    <3> QED
      BY <3>2, <3>3
  <2>2. Serve => Left' < Left /\ Left' \in Nat
    BY ServeTakes
  <2>3. CASE Serve
    BY <2>1, <2>2, <2>3
  <2>4. CASE TakeTask \/ Sends
    BY <2>1, <2>2, <2>4
  <2>5. CASE TakePoison
    <3>1. Left' = Left
      BY <2>5 DEF TakePoison, transitionAnyway, Left, Rank, clientVars
    <3> QED
      BY <2>1, <2>2, <3>1
  <2>6. CASE HangUp
    <3>1. Left' = Left
      BY <2>6 DEF HangUp, Left
    <3> QED
      BY <2>1, <2>2, <3>1
  <2>7. CASE UNCHANGED vars
    BY <2>7
  <2> QED
    BY <2>3, <2>4, <2>5, <2>6, <2>7 DEF Next, Stopped, Sends
<1> QED
  BY <1>1, JobInvInductive, PTL DEF Spec
==============================================================================
