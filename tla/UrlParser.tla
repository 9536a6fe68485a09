----------------------------- MODULE UrlParser -----------------------------
(***************************************************************************)
(* Url::Lexer and Url::Parser::parseAll(): a relative URI is cut into      *)
(* tokens, and they into a path and a chain of query items.  A source is a *)
(* sequence of characters of which only the class counts: "9" the digit 9, *)
(* "a" a letter or safe character, "#" any other; each of the remaining    *)
(* ones stands for itself.  A step is a decision of the parser and the     *)
(* token it consumes.  The server does not call the parser yet.            *)
(***************************************************************************)
EXTENDS Naturals, SequencesExt

CONSTANTS
  Sources,        \* the strings to parse
  Urls,           \* URLs that some of them are the spelling of
  MaxInt,         \* the nines an int can hold
  MaxFloat,       \* the nines before the dot a float can hold
  MaxItems        \* the items memory can hold

Characters == {"9", ".", "a", "/", "?", "&", "=", "#"}

(* Memory holds more items than any source has characters.                 *)
ASSUME UrlAssumption ==
  /\ Sources \subseteq Seq(Characters)
  /\ MaxInt \in Nat /\ MaxFloat \in Nat /\ MaxItems \in Nat
  /\ \A s \in Sources : Len(s) < MaxItems

VARIABLES
  source,       \* Lexer::m_source
  m_pos,        \* Lexer::m_pos
  m_current,    \* Parser::m_current
  at,           \* the point parseAll() has reached
  path_length,  \* parsePath()'s local, and then the length of URL::path
  key,          \* parseQueryItem()'s local
  query,        \* URL::query
  alive         \* the process runs

resultVars == <<path_length, key, query>>
vars == <<source, m_pos, m_current, at, resultVars, alive>>

-----------------------------------------------------------------------------
(* The lexer. *)

Numeric == {"9", "."}
Wordy   == {"a", "9"}

Singles == [c \in {"/", "?", "&", "=", "#"} |->
  CASE c = "/" -> "path_split"
    [] c = "?" -> "query_start"
    [] c = "&" -> "query_split"
    [] c = "=" -> "query_assign"
    [] c = "#" -> "unknown"]

(* the longest run of such characters from a position on *)
Length(pos, chars) ==
  Max({n \in 0..Len(source) - pos : \A i \in 1..n : source[pos + i] \in chars})

Lexeme(token) == SubSeq(source, token.begin + 1, token.begin + token.length)
Dots(token) == Cardinality({i \in DOMAIN Lexeme(token) : Lexeme(token)[i] = "."})

lexNumeric(pos) ==
  LET token == [begin |-> pos, length |-> Length(pos, Numeric), tag |-> "unknown"]
  IN  CASE Dots(token) = 0 -> [token EXCEPT !.tag = "integral_num"]
        [] Dots(token) = 1 -> [token EXCEPT !.tag = "float_num"]
        [] OTHER -> token

lexNext(pos) ==
  IF pos >= Len(source) THEN [begin |-> pos, length |-> 1, tag |-> "eos"]
  ELSE IF source[pos + 1] \in DOMAIN Singles
  THEN [begin |-> pos, length |-> 1, tag |-> Singles[source[pos + 1]]]
  ELSE IF source[pos + 1] \in Numeric THEN lexNumeric(pos)
  ELSE [begin |-> pos, length |-> Length(pos, Wordy), tag |-> "wordy"]

(* Mutant: the position moves on at the end too. *)
AfterAnyway(token) == token.begin + token.length

After(token) == IF token.tag = "eos" THEN token.begin ELSE token.begin + token.length

(* m_previous is what m_current was *)
consume ==
  /\ m_current' = lexNext(m_pos)
  /\ m_pos' = After(lexNext(m_pos))

Stay == UNCHANGED <<m_current, m_pos>>

-----------------------------------------------------------------------------
(* The parser. *)

Step(from, tags, to) == alive /\ at = from /\ m_current.tag \in tags /\ at' = to

Tags == {"integral_num", "float_num", "wordy", "path_split", "query_start", "query_split",
         "query_assign", "unknown", "eos"}

(* Mutant: the slashes after the first are not counted. *)
PathSplitUncounted ==
  /\ Step("path", {"path_split"}, "segment")
  /\ consume
  /\ path_length' = Max({path_length, 1})
  /\ UNCHANGED <<source, key, query, alive>>

PathSplit ==
  /\ Step("path", {"path_split"}, "segment")
  /\ consume
  /\ path_length' = path_length + 1
  /\ UNCHANGED <<source, key, query, alive>>

Segment ==
  /\ Step("segment", {"wordy"}, "path")
  /\ consume
  /\ path_length' = path_length + m_current.length
  /\ UNCHANGED <<source, key, query, alive>>

PathEnds ==
  /\ \/ Step("path", Tags \ {"path_split"}, "query")
     \/ Step("segment", Tags \ {"wordy"}, "query")
  /\ Stay
  /\ UNCHANGED <<source, resultVars, alive>>

QueryStart ==
  /\ Step("query", {"query_start"}, "item")
  /\ consume
  /\ UNCHANGED <<source, resultVars, alive>>

Return ==
  /\ \/ Step("query", Tags \ {"query_start"}, "done")
     \/ Step("item", {"eos"}, "done")
  /\ Stay
  /\ UNCHANGED <<source, resultVars, alive>>

Key ==
  /\ Step("item", {"wordy"}, "assign")
  /\ consume
  /\ key' = Lexeme(m_current)
  /\ UNCHANGED <<source, path_length, query, alive>>

Assign ==
  /\ Step("assign", {"query_assign"}, "value")
  /\ consume
  /\ UNCHANGED <<source, resultVars, alive>>

Nil == [kind |-> "nil"]

(* emplace_back(), while there is memory for one item more *)
Emplace(k, v) ==
  /\ Len(query) < MaxItems
  /\ query' = Append(query, [key |-> k, value |-> v])
  /\ UNCHANGED <<source, path_length, key, alive>>

(* Mutant: what is no item is passed over. *)
NoKeySkipped ==
  /\ Step("item", Tags \ {"wordy", "eos"}, "split")
  /\ Stay
  /\ UNCHANGED <<source, resultVars, alive>>

(* what does not begin with a key is an empty item, and is not consumed *)
NoKey ==
  /\ Step("item", Tags \ {"wordy", "eos"}, "split")
  /\ Stay
  /\ Emplace(<<>>, Nil)

NoAssign ==
  /\ Step("assign", Tags \ {"query_assign"}, "split")
  /\ Stay
  /\ Emplace(key, Nil)

(* the number of nines before the dot, and after it *)
Nines(s) == Cardinality({i \in DOMAIN s : s[i] = "9"})
Whole(s) == Cardinality({i \in DOMAIN s : s[i] = "9" /\ \A j \in 1..i : s[j] # "."})

(* Mutant: a float is converted as an int is. *)
ConvertibleToInt(s, tag) == Nines(s) > 0 /\ Nines(s) <= MaxInt

(* std::stoi() and std::stof() throw on what does not fit, or has no digit *)
Convertible(s, tag) ==
  CASE tag = "integral_num" -> Nines(s) <= MaxInt
    [] tag = "float_num"    -> Nines(s) > 0 /\ Whole(s) <= MaxFloat

ValueOf(token) ==
  LET s == Lexeme(token) IN
  CASE token.tag = "integral_num" -> [kind |-> "int", nines |-> Nines(s)]
    [] token.tag = "float_num" ->
         [kind |-> "float", whole |-> Whole(s), fraction |-> Nines(s) - Whole(s)]
    [] token.tag = "wordy" -> [kind |-> "string", text |-> s]

Value ==
  /\ Step("value", {"integral_num", "float_num", "wordy"}, "split")
  /\ m_current.tag # "wordy" => Convertible(Lexeme(m_current), m_current.tag)
  /\ consume
  /\ Emplace(key, ValueOf(m_current))

(* what is no value is consumed, and takes the key with it *)
NoValue ==
  /\ Step("value", Tags \ {"integral_num", "float_num", "wordy"}, "split")
  /\ consume
  /\ Emplace(<<>>, Nil)

(* Mutant: the '&' is left where it is. *)
QuerySplitKept ==
  /\ at = "split" /\ at' = "item"
  /\ Stay
  /\ UNCHANGED <<source, resultVars, alive>>

QuerySplit ==
  /\ at = "split" /\ at' = "item"
  /\ IF m_current.tag = "query_split" THEN consume ELSE Stay
  /\ UNCHANGED <<source, resultVars, alive>>

(* every function of the parser is noexcept *)
Dies ==
  /\ alive /\ alive' = FALSE
  /\ UNCHANGED <<source, m_pos, m_current, at, resultVars>>

ValueThrows ==
  /\ at = "value" /\ m_current.tag \in {"integral_num", "float_num"}
  /\ ~Convertible(Lexeme(m_current), m_current.tag)
  /\ Dies

MemoryRunsOut ==
  /\ \/ at = "item" /\ m_current.tag \notin {"wordy", "eos"}
     \/ at = "assign" /\ m_current.tag # "query_assign"
     \/ at = "value"
  /\ Len(query) >= MaxItems
  /\ Dies

(* the constructor goes up to the first token *)
Init ==
  /\ source \in Sources
  /\ m_current = lexNext(0) /\ m_pos = After(lexNext(0))
  /\ at = "path"
  /\ path_length = 0 /\ key = <<>> /\ query = <<>>
  /\ alive = TRUE

parsePath == PathSplit \/ Segment \/ PathEnds
parseQueryItem ==
  Key \/ Assign \/ NoKey \/ NoAssign \/ Value \/ NoValue \/ ValueThrows \/ MemoryRunsOut
parseQueryChain == QueryStart \/ parseQueryItem \/ QuerySplit \/ Return
Next == parsePath \/ parseQueryChain

Spec == Init /\ [][Next]_vars

(* The caller's thread runs. *)
FairSpec == Spec /\ WF_vars(Next)

-----------------------------------------------------------------------------
(* Properties. *)

(* Every variable has a value of its type. *)
TypeOK ==
  /\ source \in Seq(Characters)
  /\ m_pos \in 0..Len(source)
  /\ m_current.tag \in Tags /\ m_current.begin \in 0..Len(source)
  /\ at \in {"path", "segment", "query", "item", "assign", "value", "split", "done"}
  /\ path_length \in 0..Len(source)
  /\ Len(query) <= MaxItems
  /\ alive \in BOOLEAN

(* The path is the longest beginning of the source that is one: a slash,   *)
(* or words between slashes, none of which begins with a digit.            *)
IsPath(n) ==
  /\ n > 0 => source[1] = "/"
  /\ \A i \in 1..n : source[i] \in {"/"} \cup Wordy
  /\ \A i \in 1..n - 1 : source[i] = "/" => source[i + 1] = "a"
PathExact == at \in {"query", "item", "done"} => path_length = Max({n \in 0..Len(source) : IsPath(n)})

(* The process only dies on a number behind a '=' that is out of range or  *)
(* has no digit, or on more items than the source has characters: on an    *)
(* item that is not consumed and is made again until memory runs out.      *)
Unconvertible ==
  \E i \in DOMAIN source :
    /\ source[i] = "=" /\ i < Len(source) /\ source[i + 1] \in Numeric
    /\ LET s == Lexeme(lexNumeric(i)) IN
         \/ Nines(s) > MaxInt /\ Nines(s) = Len(s)
         \/ s = <<".">> \/ Whole(s) > MaxFloat
DiesOnlyOn == alive \/ Unconvertible \/ Len(query) > Len(source)

(* The URLs that have a spelling: a word begins with a letter and may be   *)
(* that letter alone, a float has a digit behind the dot, and a number is  *)
(* in range.                                                               *)
Words == {w \in Seq(Wordy) : w # <<>> /\ w[1] = "a"}
Floats == [kind : {"float"}, whole : 0..MaxFloat, fraction : Nat \ {0}]
Values ==
  {Nil} \cup [kind : {"int"}, nines : 1..MaxInt] \cup [kind : {"string"}, text : Words]
    \cup Floats
ASSUME UrlsAssumption ==
  Urls \subseteq [segments : Seq(Words), query : Seq([key : Words, value : Values])]

(* A URL is read back from its spelling: the path as it is spelled, and    *)
(* every item with its key and its value, a number as a number.            *)
Spelled(v) ==
  CASE v.kind = "nil"    -> <<>>
    [] v.kind = "int"    -> <<"=">> \o [i \in 1..v.nines |-> "9"]
    [] v.kind = "float"  -> <<"=">> \o [i \in 1..v.whole + 1 + v.fraction |->
                                         IF i = v.whole + 1 THEN "." ELSE "9"]
    [] v.kind = "string" -> <<"=">> \o v.text
PathOf(u) ==
  IF u.segments = <<>> THEN <<"/">>
  ELSE FlattenSeq([i \in DOMAIN u.segments |-> <<"/">> \o u.segments[i]])
QueryOf(u) ==
  FlattenSeq([i \in DOMAIN u.query |->
    <<IF i = 1 THEN "?" ELSE "&">> \o u.query[i].key \o Spelled(u.query[i].value)])
Spelling == [u \in Urls |-> PathOf(u) \o QueryOf(u)]
ReadAs(u) == alive /\ path_length = Len(PathOf(u)) /\ query = u.query
RoundTrip ==
  at = "done" \/ ~alive => \A u \in Urls : source = Spelling[u] => ReadAs(u)

(* parseAll() ends, on every source: it returns or the process dies. *)
Ends == <>(at = "done" \/ ~alive)
=============================================================================
