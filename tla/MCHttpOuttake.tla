--------------------------- MODULE MCHttpOuttake ---------------------------
(* Small instances of HttpOuttake for TLC. *)
EXTENDS HttpOuttake

Reply(top, headers, blob) == [top |-> top, headers |-> headers, blob |-> blob]

(* Replies as WorkerJob builds them, which reach the early write nowhere,  *)
(* replies that reach it before their last header, and replies one of      *)
(* whose pieces does not fit.                                              *)
WorkerReplies ==
  {Reply(2, <<1, 1>>, 3), Reply(2, <<1, 1>>, 0), Reply(2, <<>>, 1),
   Reply(2, <<4, 1>>, 8), Reply(3, <<2, 1, 4, 2>>, 1), Reply(2, <<2, 3, 1>>, 2),
   Reply(9, <<1>>, 0), Reply(2, <<1>>, 9), Reply(2, <<1, 8>>, 1)}

(* Replies whose last header may reach the early write. *)
AnyReplies == {Reply(2, headers, 1) : headers \in {<<1>>, <<3>>, <<1, 4>>}}

(* A reply as HTTP lays it out, the n-th: what Behind() counts out.        *)
Layout(r, n) ==
  FlattenSeq([p \in 1..Breaks(r) + 2 |-> [i \in 1..Size(r, p - 1) |-> Octet(n, p - 1, i)]])
ASSUME BehindAssumption ==
  \A r, s \in WorkerReplies \cup AnyReplies :
    LET octets == Layout(r, 1) \o Layout(s, 2) \o <<Octet(3, 0, 1)>> IN
    /\ octets[1] = First
    /\ \A i \in 2..Len(octets) : octets[i] = Behind(<<r, s>>, octets[i - 1])

(* The replies the early write does not rob of their empty line are those  *)
(* of WorkerReplies, and not all of AnyReplies.                            *)
Fill(r) ==
  LET fill[h \in 0..Len(r.headers)] ==
        IF h = 0 THEN r.top
        ELSE LET n == fill[h - 1] + r.headers[h] IN IF n < buffer_sendable_n THEN n ELSE 0
  IN  [h \in 0..Len(r.headers) |-> fill[h]]
ASSUME StaysAssumption ==
  /\ \A r \in WorkerReplies \cup AnyReplies : Filled(r, Fill(r))
  /\ \A r \in WorkerReplies : LastHeaderStays(r, Fill(r))
  /\ \E r \in AnyReplies : ~LastHeaderStays(r, Fill(r))
=============================================================================
