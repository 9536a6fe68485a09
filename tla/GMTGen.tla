------------------------------- MODULE GMTGen -------------------------------
(***************************************************************************)
(* GMTGen::operator(), called by the workers for the Date header of their  *)
(* replies.  Each worker has a GMTGen of its own; std::gmtime() has one    *)
(* std::tm for all of them, written and read with no synchronisation, so   *)
(* that its fields, here two, are loaded and stored in any order of the    *)
(* workers.                                                                *)
(***************************************************************************)
EXTENDS Naturals, Sequences

CONSTANTS
  Workers,  \* the workers that format dates
  Base,     \* what the lower field of a time counts to
  MaxTime   \* bound: the clock stops there

ASSUME GMTGenAssumption == Base \in Nat \ {0} /\ MaxTime \in Nat

VARIABLES
  clock,     \* std::time()
  gmt_data,  \* the std::tm gmtime() returns a pointer to
  at,        \* the point each worker's call has reached
  m_timing,  \* GMTGen::m_timing of each worker
  m_sout,    \* GMTGen::m_sout of each worker, the fields put into it
  result,    \* what each worker's last call returned
  seen       \* history: the times taken by it and by the calls it overlapped

vars == <<clock, gmt_data, at, m_timing, m_sout, result, seen>>

Times == 0..MaxTime
Fields(t) == <<t \div Base, t % Base>>

Step(w, from, to) == at[w] = from /\ at' = [at EXCEPT ![w] = to]
Running == {w \in Workers : at[w] # "idle"}

Tick ==
  /\ clock < MaxTime
  /\ clock' = clock + 1
  /\ UNCHANGED <<gmt_data, at, m_timing, m_sout, result, seen>>

TakeTime(w) ==
  /\ Step(w, "idle", "convert")
  /\ m_timing' = [m_timing EXCEPT ![w] = clock]
  /\ seen' = [v \in Workers |->
                IF v = w THEN {clock} \cup {m_timing[u] : u \in Running}
                ELSE IF v \in Running THEN seen[v] \cup {clock} ELSE seen[v]]
  /\ UNCHANGED <<clock, gmt_data, m_sout, result>>

(* Mutant: the fields of an earlier call are taken to be good still. *)
ConvertNothing(w) ==
  /\ Step(w, "convert", "put")
  /\ UNCHANGED <<clock, gmt_data, m_timing, m_sout, result, seen>>

(* std::gmtime(), field by field *)
Convert(w) ==
  /\ \/ Step(w, "convert", "convert_low")
        /\ gmt_data' = [gmt_data EXCEPT ![1] = Fields(m_timing[w])[1]]
     \/ Step(w, "convert_low", "put")
        /\ gmt_data' = [gmt_data EXCEPT ![2] = Fields(m_timing[w])[2]]
  /\ UNCHANGED <<clock, m_timing, m_sout, result, seen>>

(* std::put_time(), field by field *)
Put(w) ==
  /\ \/ Step(w, "put", "put_low")
        /\ m_sout' = [m_sout EXCEPT ![w] = Append(@, gmt_data[1])]
     \/ Step(w, "put_low", "return")
        /\ m_sout' = [m_sout EXCEPT ![w] = Append(@, gmt_data[2])]
  /\ UNCHANGED <<clock, gmt_data, m_timing, result, seen>>

Return(w) ==
  /\ Step(w, "return", "idle")
  /\ result' = [result EXCEPT ![w] = m_sout[w]]
  /\ m_sout' = [m_sout EXCEPT ![w] = <<>>]
  /\ UNCHANGED <<clock, gmt_data, m_timing, seen>>

Init ==
  /\ clock = 0
  /\ gmt_data = Fields(0)
  /\ at = [w \in Workers |-> "idle"]
  /\ m_timing = [w \in Workers |-> 0]
  /\ m_sout = [w \in Workers |-> <<>>] /\ result = [w \in Workers |-> <<>>]
  /\ seen = [w \in Workers |-> {}]

Next == Tick \/ \E w \in Workers : TakeTime(w) \/ Convert(w) \/ Put(w) \/ Return(w)

Spec == Init /\ [][Next]_vars

-----------------------------------------------------------------------------
(* Property. *)

(* A date has each of its fields, once, from the time a call took that     *)
(* overlapped this one: a worker that is alone gets the time of its call,  *)
(* and no date holds a field of a time that was over when the calls around *)
(* it began, or a field of an earlier date.                                *)
DateIsOfCallsAround ==
  \A w \in Workers : at[w] = "idle" /\ result[w] # <<>> =>
    \E t, u \in seen[w] : result[w] = <<Fields(t)[1], Fields(u)[2]>>
=============================================================================
