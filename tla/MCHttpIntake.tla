---------------------------- MODULE MCHttpIntake ----------------------------
(* Small instances of HttpIntake for TLC. *)
EXTENDS HttpIntake

Header(k, w) == [key |-> k, word |-> w]
Get == [top |-> [method |-> "GET", schema |-> "HTTP/1.1", uri |-> "/"], room |-> 1,
        headers |-> <<Header("Host", Word("here"))>>, body |-> 0, ends |-> {}]
Post(n) == [Get EXCEPT !.top.method = "POST", !.body = n,
                       !.headers = @ \o <<Header("Content-Length", Digits(n))>>]

(* A body announced by a name spelled otherwise. *)
PostAs(n, ends) ==
  [Get EXCEPT !.top.method = "POST", !.body = n, !.ends = ends,
              !.headers = <<Header("content-length", Digits(n))>>]

(* Header values that are not what their conversion expects. *)
OddMessages ==
  {[Get EXCEPT !.headers = <<Header("Connection", NoDigits)>>],
   [Get EXCEPT !.headers = <<Header("Content-Length", Word("none"))>>]}

(* Bodies nobody announced: one that fits in front of the next line and    *)
(* one that does not; and some with line feeds, that are read as a top line *)
(* with the next message's for its header, as a whole request, and as a    *)
(* header that does not convert.                                           *)
StrayBodies ==
  {PostAs(1, {}), PostAs(buffer_size - 1, {}), PostAs(2, {2}), PostAs(2, {1, 2}),
   PostAs(3, {1, 3})}

(* Bodies as long as the buffer, which may hold a line feed, and longer; a *)
(* header given twice and a body of no octets; a top line that is too long; *)
(* methods and schemas the server does not accept; and odd header values.  *)
AllMessages ==
  {Get, [Post(buffer_size) EXCEPT !.ends = {1}], Post(buffer_size + 1),
   [Get EXCEPT !.top = [method |-> "HEAD", schema |-> "HTTP/1.0", uri |-> "/"],
               !.headers = <<Header("Content-Length", Digits(0)),
                             Header("Connection", Word("close")),
                             Header("Connection", Digits(1))>>],
   [Get EXCEPT !.top = [method |-> "GET", schema |-> "", uri |-> ""], !.room = buffer_size,
               !.headers = <<>>]}
    \cup StrayBodies \cup OddMessages
=============================================================================
