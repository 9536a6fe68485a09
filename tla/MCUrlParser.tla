---------------------------- MODULE MCUrlParser ----------------------------
(* A small instance of UrlParser for TLC. *)
EXTENDS UrlParser

Integer(n) == [kind |-> "int", nines |-> n]
Float(m, n) == [kind |-> "float", whole |-> m, fraction |-> n]
Items ==
  [key : {<<"a">>, <<"a", "9">>},
   value : {Nil, Integer(MaxInt), Float(0, 1), Float(MaxFloat, 2), Float(1, 1),
            [kind |-> "string", text |-> <<"a", "9">>]}]

(* Two items at most, each kind of value behind each other. *)
SomeUrls ==
  [segments : {<<>>, <<<<"a">>>>, <<<<"a", "9">>, <<"a">>>>},
   query : {<<>>} \cup {<<i>> : i \in Items} \cup {<<i, j>> : i, j \in Items}]

(* Their spellings, every string of up to four characters, every query of  *)
(* as many, and numbers that are too long.                                 *)
Strings == UNION {[1..n -> Characters] : n \in 0..4}
SomeSources ==
  {Spelling[u] : u \in SomeUrls} \cup Strings
    \cup {<<"?">> \o s : s \in Strings}
    \cup {<<"?", "a", "=">> \o s : s \in [1..4 -> {"9", "."}]}
=============================================================================
