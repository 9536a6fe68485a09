----------------------------- MODULE HttpTypes -----------------------------
(***************************************************************************)
(* The enumerations of HTTP terms and their names on the wire: a name is   *)
(* looked up by the position of the enumerator, and a word that was read   *)
(* is compared with the names that are accepted.                           *)
(***************************************************************************)
EXTENDS Naturals, Sequences

HttpSchema == <<"http_1_0", "http_1_1", "http_unknown">>
HttpMethod == <<"h1_head", "h1_get", "h1_post", "h1_nop">>
HttpStatus == <<"ok", "bad_request", "not_found", "server_error", "not_implemented">>

schemas      == <<"HTTP/1.0", "HTTP/1.1", "HTTP/x.x">>
methods      == <<"HEAD", "GET", "POST", "NOP">>
status_codes == <<"200", "400", "404", "500", "501">>
status_msgs  == <<"OK", "Bad Request", "Not Found", "Internal Server Error", "Not Implemented">>

lookup(names, enum, e) == names[CHOOSE i \in DOMAIN names : enum[i] = e]

stringifySchema(s) == lookup(schemas, HttpSchema, s)
stringifyStatus(s) == lookup(status_codes, HttpStatus, s)
stringifyToMsg(s)  == lookup(status_msgs, HttpStatus, s)

enumifySchema(word) ==
  CASE word = "HTTP/1.0" -> "http_1_0"
    [] word = "HTTP/1.1" -> "http_1_1"
    [] OTHER -> "http_unknown"

(* HEAD has a name in the tables, and is not accepted. *)
enumifyMethod(word) ==
  CASE word = "GET"  -> "h1_get"
    [] word = "POST" -> "h1_post"
    [] OTHER -> "h1_nop"
=============================================================================
