----------------------------- MODULE MCWorkerJob -----------------------------
(* A small instance of WorkerJob for TLC. *)
EXTENDS WorkerJob

Asked(schema, method, uri, connection, host) ==
  [schema |-> schema, method |-> method, uri |-> uri, connection |-> connection,
   host |-> host, form |-> "fine"]
Get == Asked("http_1_1", "h1_get", "/", "none", TRUE)

(* Every schema, method, URI, Connection header and Host header a request   *)
(* may have meets every value of each of the others; and one of each kind   *)
(* that cannot be read.                                                     *)
MixedRequests ==
  {Get,
   Asked("http_1_0", "h1_get", "/", "none", TRUE),
   Asked("http_1_1", "h1_post", "other", "none", FALSE),
   Asked("http_unknown", "h1_nop", "/", "none", FALSE),
   Asked("http_1_1", "h1_nop", "/", "close", TRUE),
   Asked("http_1_0", "h1_post", "/", "close", FALSE),
   Asked("http_unknown", "h1_get", "other", "close", TRUE),
   Asked("http_1_1", "h1_get", "/", "other", FALSE),
   Asked("http_1_0", "h1_nop", "other", "other", TRUE),
   Asked("http_unknown", "h1_post", "/", "other", TRUE),
   Asked("http_1_1", "h1_post", "other", "integer", TRUE),
   Asked("http_1_0", "h1_get", "/", "integer", FALSE),
   Asked("http_unknown", "h1_nop", "/", "integer", TRUE),
   [Get EXCEPT !.form = "too_long"],
   [Get EXCEPT !.form = "unconvertible"]}
==============================================================================
