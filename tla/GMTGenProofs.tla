----------------------------- MODULE GMTGenProofs -----------------------------
(***************************************************************************)
(* The dates GMTGen makes when any number of workers share the std::tm of  *)
(* gmtime(), whatever the clock counts to and its fields count in.         *)
(***************************************************************************)
EXTENDS GMTGen, SequenceTheorems, TLAPS

CallPoints == {"idle", "convert", "convert_low", "put", "put_low", "return"}

TypeInv ==
  /\ clock \in Nat
  /\ gmt_data \in [1..2 -> Int]
  /\ at \in [Workers -> CallPoints]
  /\ m_timing \in [Workers -> Nat]
  /\ m_sout \in [Workers -> Seq(Int)]
  /\ result \in [Workers -> Seq(Int)]
  /\ seen \in [Workers -> SUBSET Nat]

(* A worker in a call has in its history the time of every call that is    *)
(* going on, its own among them: whoever stores into the shared std::tm    *)
(* meanwhile stores a field of one of these.                               *)
OverlapInv == \A v, w \in Running : m_timing[v] \in seen[w]

(* So once the worker has stored a field itself, what the std::tm holds in *)
(* its place is a field of one of them, its own or one that overwrote it.  *)
High(w, x) == \E t \in seen[w] : x = Fields(t)[1]
Low(w, x)  == \E t \in seen[w] : x = Fields(t)[2]

DataInv ==
  \A w \in Workers :
    /\ at[w] \in {"convert_low", "put", "put_low", "return"} => High(w, gmt_data[1])
    /\ at[w] \in {"put", "put_low", "return"} => Low(w, gmt_data[2])

(* What was put into the stream so far. *)
StreamInv ==
  \A w \in Workers :
    /\ at[w] \in {"idle", "convert", "convert_low", "put"} => m_sout[w] = <<>>
    /\ at[w] = "put_low" => \E x : High(w, x) /\ m_sout[w] = <<x>>
    /\ at[w] = "return" => \E x, y : High(w, x) /\ Low(w, y) /\ m_sout[w] = <<x, y>>

ResultInv ==
  \A w \in Workers : at[w] = "idle" /\ result[w] # <<>> =>
    \E x, y : High(w, x) /\ Low(w, y) /\ result[w] = <<x, y>>

DateInv == TypeInv /\ OverlapInv /\ DataInv /\ StreamInv /\ ResultInv

(* The fields of a time. *)
LEMMA FieldsType ==
  ASSUME NEW t \in Nat
  PROVE  Fields(t) \in [1..2 -> Int] /\ Fields(t)[1] \in Int /\ Fields(t)[2] \in Int
<1>1. t \div Base \in Int /\ t % Base \in Int
  BY GMTGenAssumption
<1> QED
  BY <1>1 DEF Fields

LEMMA AppendToOne ==
  ASSUME NEW S, NEW x \in S, NEW y \in S
  PROVE  Append(<<x>>, y) = <<x, y>>
<1> DEFINE two == <<x, y>>
<1>1. PICK one \in Seq(S) : one = <<x>> /\ Len(one) = 1 /\ one[1] = x
  <2>1. <<x>> \in Seq(S) /\ Len(<<x>>) = 1 /\ <<x>>[1] = x
    OBVIOUS
  <2> QED
    BY <2>1
<1>2. /\ Append(one, y) \in Seq(S) /\ Len(Append(one, y)) = Len(one) + 1
      /\ \A i \in 1..Len(one) : Append(one, y)[i] = one[i]
      /\ Append(one, y)[Len(one) + 1] = y
  BY AppendProperties
<1>3. two \in Seq(S) /\ Len(two) = 2 /\ two[1] = x /\ two[2] = y
  OBVIOUS
<1> HIDE DEF two
<1>4. \A i \in 1..Len(two) : Append(one, y)[i] = two[i]
  BY <1>1, <1>2, <1>3
<1>5. Append(one, y) = two
  BY <1>1, <1>2, <1>3, <1>4, SeqEqual
<1> QED
  BY <1>1, <1>5 DEF two

LEMMA AppendFields ==
  ASSUME NEW x \in Int, NEW y \in Int
  PROVE  Append(<<>>, x) = <<x>> /\ Append(<<x>>, y) = <<x, y>>
<1>1. <<>> \in Seq(Int) /\ Len(<<>>) = 0
  OBVIOUS
<1>2. Append(<<>>, x) = <<x>>
  BY <1>1
<1>3. Append(<<x>>, y) = <<x, y>>
  BY AppendToOne
<1> QED
  BY <1>2, <1>3

-----------------------------------------------------------------------------
(* Each step keeps the invariant. *)

LEMMA TickInv ==
  ASSUME DateInv, Tick
  PROVE  DateInv'
  BY DEF Tick, DateInv, TypeInv, OverlapInv, Running, DataInv, StreamInv, ResultInv,
         High, Low

(* A call that begins adds its time to the history of those going on.      *)
LEMMA TakeTimeInv ==
  ASSUME DateInv, NEW w \in Workers, TakeTime(w)
  PROVE  DateInv'
<1> USE DEF DateInv
<1>1. /\ at[w] = "idle" /\ at' = [at EXCEPT ![w] = "convert"]
      /\ m_timing' = [m_timing EXCEPT ![w] = clock]
      /\ UNCHANGED <<clock, gmt_data, m_sout, result>>
  BY DEF TakeTime, Step
<1>2. \A v \in Workers :
        seen'[v] = IF v = w THEN {clock} \cup {m_timing[u] : u \in Running}
                   ELSE IF v \in Running THEN seen[v] \cup {clock} ELSE seen[v]
  BY DEF TakeTime
<1>3. Running' = Running \cup {w} /\ w \notin Running
  BY <1>1 DEF Running, TypeInv
<1>4. TypeInv'
  <2>1. \A u \in Running : m_timing[u] \in Nat
    BY DEF Running, TypeInv
  <2>2. seen' \in [Workers -> SUBSET Nat]
    BY <2>1 DEF TakeTime, TypeInv
  <2> QED
    BY <1>1, <2>2 DEF TypeInv, CallPoints
<1>5. OverlapInv'
  <2> SUFFICES ASSUME NEW u \in Running', NEW v \in Running'
               PROVE  m_timing'[u] \in seen'[v]
    BY DEF OverlapInv
  <2>1. u \in Workers /\ v \in Workers
    BY DEF Running
  <2>2. CASE u = w
    BY <1>1, <1>2, <1>3, <2>1, <2>2 DEF TypeInv
  <2>3. CASE u # w
    <3>1. u \in Running /\ m_timing'[u] = m_timing[u]
      BY <1>1, <1>3, <2>1, <2>3 DEF TypeInv
    <3> QED
      BY <1>2, <1>3, <2>1, <3>1 DEF OverlapInv
  <2> QED
    BY <2>2, <2>3
<1>6. \A v \in Workers : v # w => at'[v] = at[v] /\ seen[v] \subseteq seen'[v]
  BY <1>1, <1>2 DEF TypeInv
<1>7. at'[w] = "convert"
  BY <1>1 DEF TypeInv
<1>8. DataInv'
  BY <1>1, <1>6, <1>7 DEF DataInv, High, Low
<1>9. StreamInv'
  BY <1>1, <1>6, <1>7 DEF StreamInv, High, Low
<1>10. ResultInv'
  BY <1>1, <1>6, <1>7 DEF ResultInv, High, Low
<1> QED
  BY <1>4, <1>5, <1>8, <1>9, <1>10

(* gmtime() stores a field of the worker's own time, which is in the       *)
(* history of every call going on.                                         *)
LEMMA ConvertInv ==
  ASSUME DateInv, NEW w \in Workers, Convert(w)
  PROVE  DateInv'
<1> USE DEF DateInv
<1>1. PICK i \in 1..2, from \in {"convert", "convert_low"} :
        /\ i = 1 <=> from = "convert"
        /\ at[w] = from
        /\ at' = [at EXCEPT ![w] = IF i = 1 THEN "convert_low" ELSE "put"]
        /\ gmt_data' = [gmt_data EXCEPT ![i] = Fields(m_timing[w])[i]]
        /\ UNCHANGED <<clock, m_timing, m_sout, result, seen>>
  BY DEF Convert, Step
<1>2. m_timing[w] \in Nat /\ w \in Running
  BY <1>1 DEF TypeInv, Running
<1>3. TypeInv'
  BY <1>1, <1>2, FieldsType DEF TypeInv, CallPoints
<1>4. Running' = Running
  BY <1>1 DEF Running, TypeInv
<1>5. OverlapInv'
  BY <1>1, <1>4 DEF OverlapInv
<1>6. \A v \in Running : /\ i = 1 => High(v, gmt_data'[1])
                         /\ i = 2 => Low(v, gmt_data'[2])
  BY <1>1, <1>2 DEF OverlapInv, High, Low, TypeInv
<1>7. /\ i = 2 => gmt_data'[1] = gmt_data[1]
      /\ i = 1 => gmt_data'[2] = gmt_data[2]
  BY <1>1 DEF TypeInv
<1>8. \A v \in Workers : v # w => at'[v] = at[v]
  BY <1>1 DEF TypeInv
<1>9. at'[w] = IF i = 1 THEN "convert_low" ELSE "put"
  BY <1>1 DEF TypeInv
<1>10. \A v \in Workers : \A x : (High(v, x)' <=> High(v, x)) /\ (Low(v, x)' <=> Low(v, x))
  BY <1>1 DEF High, Low
<1>11. DataInv'
  <2> SUFFICES ASSUME NEW v \in Workers
               PROVE  /\ at'[v] \in {"convert_low", "put", "put_low", "return"} =>
                           High(v, gmt_data'[1])
                      /\ at'[v] \in {"put", "put_low", "return"} => Low(v, gmt_data'[2])
    BY <1>1 DEF DataInv, High, Low
  <2>1. CASE v = w
    BY <1>1, <1>2, <1>6, <1>7, <1>9, <2>1 DEF DataInv
  <2>2. CASE v # w
    BY <1>6, <1>7, <1>8, <2>2 DEF DataInv, Running
  <2> QED
    BY <2>1, <2>2
<1>12. StreamInv'
  BY <1>1, <1>8, <1>9, <1>10 DEF StreamInv
<1>13. ResultInv'
  BY <1>1, <1>8, <1>9, <1>10 DEF ResultInv
<1> QED
  BY <1>3, <1>5, <1>11, <1>12, <1>13

LEMMA PutInv ==
  ASSUME DateInv, NEW w \in Workers, Put(w)
  PROVE  DateInv'
<1> USE DEF DateInv
<1>1. UNCHANGED <<clock, gmt_data, m_timing, result, seen>>
  BY DEF Put
<1>2. PICK i \in 1..2 :
        /\ at[w] = IF i = 1 THEN "put" ELSE "put_low"
        /\ at' = [at EXCEPT ![w] = IF i = 1 THEN "put_low" ELSE "return"]
        /\ m_sout' = [m_sout EXCEPT ![w] = Append(m_sout[w], gmt_data[i])]
  BY DEF Put, Step
<1>3. gmt_data[1] \in Int /\ gmt_data[2] \in Int /\ m_sout[w] \in Seq(Int)
  BY DEF TypeInv
<1>4. TypeInv'
  BY <1>1, <1>2, <1>3 DEF TypeInv, CallPoints
<1>5. OverlapInv'
  <2>1. Running' = Running
    BY <1>2 DEF Running, TypeInv
  <2> QED
    BY <1>1, <2>1 DEF OverlapInv
<1>6. \A v \in Workers : v # w => at'[v] = at[v] /\ m_sout'[v] = m_sout[v]
  BY <1>2 DEF TypeInv
<1>7. /\ at'[w] = IF i = 1 THEN "put_low" ELSE "return"
      /\ m_sout'[w] = Append(m_sout[w], gmt_data[i])
  BY <1>2 DEF TypeInv
<1>8. DataInv'
  BY <1>1, <1>2, <1>6, <1>7 DEF DataInv, High, Low
<1>9. \A v \in Workers : \A x : (High(v, x)' <=> High(v, x)) /\ (Low(v, x)' <=> Low(v, x))
  BY <1>1 DEF High, Low
<1>10. CASE i = 1
  <2>1. m_sout'[w] = <<gmt_data[1]>> /\ High(w, gmt_data[1]) /\ at'[w] = "put_low"
    <3>1. m_sout[w] = <<>> /\ High(w, gmt_data[1])
      BY <1>2, <1>10 DEF StreamInv, DataInv
    <3> QED
      BY <1>3, <1>7, <1>10, <3>1, AppendFields
  <2>2. StreamInv'
    BY <1>6, <1>9, <2>1 DEF StreamInv
  <2> QED
    BY <1>1, <1>4, <1>5, <1>6, <1>8, <1>9, <2>1, <2>2 DEF ResultInv
<1>11. CASE i = 2
  <2>1. PICK x : High(w, x) /\ m_sout[w] = <<x>>
    BY <1>2, <1>11 DEF StreamInv
  <2>2. /\ m_sout'[w] = <<x, gmt_data[2]>> /\ Low(w, gmt_data[2])
        /\ at'[w] = "return"
    <3>1. x \in Int
      BY <2>1, FieldsType DEF High, TypeInv
    <3>2. Low(w, gmt_data[2])
      BY <1>2, <1>11 DEF DataInv
    <3> QED
      BY <1>3, <1>7, <1>11, <2>1, <3>1, <3>2, AppendFields
  <2>3. StreamInv'
    BY <1>6, <1>9, <2>1, <2>2 DEF StreamInv
  <2> QED
    BY <1>1, <1>4, <1>5, <1>6, <1>8, <1>9, <2>2, <2>3 DEF ResultInv
<1> QED
  BY <1>10, <1>11

LEMMA ReturnInv ==
  ASSUME DateInv, NEW w \in Workers, Return(w)
  PROVE  DateInv'
<1> USE DEF DateInv
<1>1. /\ at[w] = "return" /\ at' = [at EXCEPT ![w] = "idle"]
      /\ result' = [result EXCEPT ![w] = m_sout[w]]
      /\ m_sout' = [m_sout EXCEPT ![w] = <<>>]
      /\ UNCHANGED <<clock, gmt_data, m_timing, seen>>
  BY DEF Return, Step
<1>2. TypeInv'
  <2>1. <<>> \in Seq(Int) /\ m_sout[w] \in Seq(Int)
    BY DEF TypeInv
  <2> QED
    BY <1>1, <2>1 DEF TypeInv, CallPoints
<1>3. OverlapInv'
  <2>1. Running' \subseteq Running
    BY <1>1 DEF Running, TypeInv
  <2> QED
    BY <1>1, <2>1 DEF OverlapInv
<1>4. \A v \in Workers : v # w => /\ at'[v] = at[v] /\ m_sout'[v] = m_sout[v]
                                  /\ result'[v] = result[v]
  BY <1>1 DEF TypeInv
<1>5. at'[w] = "idle" /\ m_sout'[w] = <<>> /\ result'[w] = m_sout[w]
  BY <1>1 DEF TypeInv
<1>6. \A v \in Workers : \A x : (High(v, x)' <=> High(v, x)) /\ (Low(v, x)' <=> Low(v, x))
  BY <1>1 DEF High, Low
<1>7. DataInv'
  BY <1>1, <1>4, <1>5 DEF DataInv, High, Low
<1>8. StreamInv'
  BY <1>4, <1>5, <1>6 DEF StreamInv
<1>9. ResultInv'
  BY <1>1, <1>4, <1>5, <1>6 DEF StreamInv, ResultInv
<1> QED
  BY <1>2, <1>3, <1>7, <1>8, <1>9

LEMMA DateInvInductive == Spec => []DateInv
<1>1. Init => DateInv
  <2> SUFFICES ASSUME Init
               PROVE  DateInv
    OBVIOUS
  <2>1. <<>> \in Seq(Int) /\ Fields(0) \in [1..2 -> Int]
    BY FieldsType
  <2>2. TypeInv
    BY <2>1 DEF Init, TypeInv, CallPoints
  <2>3. \A w \in Workers : at[w] = "idle" /\ m_sout[w] = <<>> /\ result[w] = <<>>
    BY DEF Init
  <2> QED
    BY <2>2, <2>3 DEF DateInv, OverlapInv, Running, DataInv, StreamInv, ResultInv
<1>2. DateInv /\ [Next]_vars => DateInv'
  <2>1. DateInv /\ UNCHANGED vars => DateInv'
    BY DEF vars, DateInv, TypeInv, OverlapInv, Running, DataInv, StreamInv, ResultInv,
           High, Low
  <2> QED
    BY <2>1, TickInv, TakeTimeInv, ConvertInv, PutInv, ReturnInv DEF Next
<1> QED
  BY <1>1, <1>2, PTL DEF Spec

(* A date has each of its fields, once, from the time a call took that     *)
(* overlapped this one, though all calls share one std::tm.                *)
THEOREM DateCorrect == Spec => []DateIsOfCallsAround
<1>1. DateInv => DateIsOfCallsAround
  BY DEF DateInv, ResultInv, High, Low, DateIsOfCallsAround
<1> QED
  BY <1>1, DateInvInductive, PTL
===============================================================================
