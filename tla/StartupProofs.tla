---------------------------- MODULE StartupProofs ----------------------------
(***************************************************************************)
(* The listening descriptor on its way from socket() to m_entry, for any   *)
(* descriptors the process may hold and any worker counts it is given.     *)
(***************************************************************************)
EXTENDS Startup, FiniteSetTheorems, TLAPS

(* Whose turn it is to hold a descriptor, at each point of main(): the     *)
(* generator's local between socket() and the constructor, then the three  *)
(* sockets one after the other; what is open is what is held.              *)
HandInv ==
  /\ at \in {"bind", "make"} <=> temp_fd # dud_value
  /\ at = "listen" => socket.fd # dud_value
  /\ socket.fd # dud_value => at \in {"listen", "run"}
  /\ at = "entry" <=> entry_socket.fd # dud_value
  /\ at \in {"entry_made", "serving"} => m_entry.fd # dud_value
  /\ m_entry.fd # dud_value => at \in {"entry_made", "serving", "exit"}
  /\ \A fd \in Fds :
       file[fd] # "closed" <=> fd \in {temp_fd, socket.fd, entry_socket.fd, m_entry.fd}

(* A socket is ready only with the timeout set and, once listen() was      *)
(* called, only if it listens.                                             *)
ReadyWith(s, listens) ==
  s.ready => /\ s.fd \in Fds
             /\ s.fd \in timed
             /\ listens => file[s.fd] = "listener"

ReadyInv ==
  /\ ReadyWith(socket, at # "listen")
  /\ ReadyWith(entry_socket, TRUE)
  /\ ReadyWith(m_entry, TRUE)

StartupInv == TypeOK /\ HandInv /\ ReadyInv

LEMMA DudNotFd == dud_value \notin Fds
  BY StartupAssumption DEF dud_value

LEMMA NoSocketDud ==
  NoSocket \in ServerSocket /\ NoSocket.fd = dud_value /\ ~NoSocket.ready
  BY DEF NoSocket, ServerSocket

LEMMA SocketFields ==
  ASSUME NEW s \in ServerSocket
  PROVE  s.fd \in Fds \cup {dud_value} /\ s.ready \in BOOLEAN
  BY DEF ServerSocket

LEMMA CloseType ==
  ASSUME TypeOK, NEW fd, Close(fd)
  PROVE  /\ file' \in [Fds -> {"closed", "socket", "bound", "listener"}]
         /\ \A d \in Fds : file'[d] = IF d = fd THEN "closed" ELSE file[d]
  BY DEF TypeOK, Close

-----------------------------------------------------------------------------
(* Steps that move no descriptor: only the point main() has reached        *)
(* changes, between two where nothing is held or within one hand's reach.  *)

LEMMA QuietSteps ==
  ASSUME StartupInv, UNCHANGED <<socketVars, kernelVars>>, TypeOK',
         \/ at' = at
         \/ /\ at \in {"main", "numbers", "test", "socket"}
            /\ at' \in {"numbers", "test", "socket", "run", "exit"}
         \/ at = "serving" /\ at' = "exit"
         \/ at = "run" /\ socket.fd = dud_value /\ at' = "destroy"
  PROVE  StartupInv'
<1> USE DEF StartupInv, socketVars, kernelVars
<1>1. HandInv'
  BY DEF HandInv
<1>2. socket.ready => at \in {"listen", "run"}
  BY DudNotFd DEF HandInv, ReadyInv, ReadyWith
<1>3. ReadyInv'
  BY <1>2 DEF ReadyInv, ReadyWith
<1> QED
  BY <1>1, <1>3

LEMMA GeneratorStep ==
  ASSUME StartupInv, CallSocket \/ CallBind \/ BindFails
  PROVE  StartupInv'
<1> USE DudNotFd DEF StartupInv, Step, machineVars
<1>1. /\ UNCHANGED <<m_cursor, m_worker_n, socket, entry_socket, m_entry, timed, machineVars>>
      /\ socket.fd = dud_value /\ entry_socket.fd = dud_value /\ m_entry.fd = dud_value
      /\ ~socket.ready /\ ~entry_socket.ready /\ ~m_entry.ready
      /\ at' \in {"bind", "make", "test"}
  BY DEF CallSocket, CallBind, BindFails, socketVars, HandInv, ReadyInv, ReadyWith
<1>2. ReadyInv'
  BY <1>1 DEF ReadyInv, ReadyWith
<1>3. CASE CallSocket
  BY <1>1, <1>2, <1>3 DEF CallSocket, FreeFds, TypeOK, Points, HandInv
<1>4. CASE CallBind
  BY <1>1, <1>2, <1>4 DEF CallBind, socketVars, TypeOK, Points, HandInv
<1>5. CASE BindFails
  BY <1>1, <1>2, <1>5, CloseType DEF BindFails, TypeOK, Points, HandInv
<1> QED
  BY <1>3, <1>4, <1>5

LEMMA ConstructStep ==
  ASSUME StartupInv, ApplyOptions \/ Listen
  PROVE  StartupInv'
<1> USE DudNotFd DEF StartupInv, Step, machineVars
<1>1. CASE ApplyOptions
  <2>1. PICK ok \in BOOLEAN :
          /\ timed' = IF ok THEN timed \cup {temp_fd} ELSE timed \ {temp_fd}
          /\ socket' = [fd |-> temp_fd, ready |-> ok]
    BY <1>1 DEF ApplyOptions
  <2>2. /\ temp_fd \in Fds /\ at = "make" /\ at' = "listen" /\ temp_fd' = dud_value
        /\ UNCHANGED <<m_cursor, m_worker_n, entry_socket, m_entry, file, machineVars>>
        /\ entry_socket.fd = dud_value /\ m_entry.fd = dud_value /\ socket.fd = dud_value
        /\ ~entry_socket.ready /\ ~m_entry.ready
    BY <1>1 DEF ApplyOptions, TypeOK, HandInv, ReadyInv, ReadyWith
  <2>3. socket' \in ServerSocket /\ socket'.fd = temp_fd /\ socket'.ready = ok
    BY <2>1, <2>2 DEF ServerSocket
  <2>4. TypeOK'
    BY <2>1, <2>2, <2>3 DEF TypeOK, Points
  <2>5. HandInv'
    BY <2>2, <2>3 DEF HandInv
  <2>6. ReadyInv'
    BY <2>1, <2>2, <2>3 DEF ReadyInv, ReadyWith
  <2> QED
    BY <2>4, <2>5, <2>6
<1>2. CASE Listen
  <2>1. PICK ok \in BOOLEAN :
          /\ file' = [file EXCEPT ![socket.fd] = IF ok THEN "listener" ELSE "bound"]
          /\ socket' = [socket EXCEPT !.ready = @ /\ ok]
    BY <1>2 DEF Listen
  <2>2. /\ socket.fd \in Fds /\ at = "listen" /\ at' = "run"
        /\ UNCHANGED <<m_cursor, m_worker_n, temp_fd, entry_socket, m_entry, timed,
                       machineVars>>
        /\ entry_socket.fd = dud_value /\ m_entry.fd = dud_value /\ temp_fd = dud_value
        /\ ~entry_socket.ready /\ ~m_entry.ready
    BY <1>2, SocketFields DEF Listen, TypeOK, HandInv, ReadyInv, ReadyWith
  <2>3. /\ socket' \in ServerSocket /\ socket'.fd = socket.fd
        /\ socket'.ready <=> socket.ready /\ ok
    BY <2>1 DEF TypeOK, ServerSocket
  <2>4. TypeOK'
    BY <2>1, <2>2, <2>3 DEF TypeOK, Points
  <2>5. \A fd \in Fds : file'[fd] # "closed" <=> file[fd] # "closed"
    BY <2>1, <2>2 DEF TypeOK, HandInv
  <2>6. HandInv'
    BY <2>2, <2>3, <2>5 DEF HandInv
  <2>7. ReadyInv'
    BY <2>1, <2>2, <2>3 DEF ReadyInv, ReadyWith, TypeOK
  <2> QED
    BY <2>4, <2>6, <2>7
<1> QED
  BY <1>1, <1>2

LEMMA MoveStep ==
  ASSUME StartupInv, MoveToEntryJob \/ MoveToMember
  PROVE  StartupInv'
<1> USE DudNotFd, NoSocketDud DEF StartupInv, Step, machineVars, kernelVars, MovedFrom
<1>1. CASE MoveToEntryJob
  <2>1. /\ temp_fd = dud_value /\ m_entry.fd = dud_value /\ entry_socket.fd = dud_value
        /\ ~m_entry.ready
    BY <1>1 DEF MoveToEntryJob, HandInv, ReadyInv, ReadyWith
  <2>2. TypeOK'
    BY <1>1 DEF MoveToEntryJob, TypeOK, Points
  <2>3. HandInv'
    BY <1>1, <2>1 DEF MoveToEntryJob, HandInv
  <2>4. ReadyInv'
    BY <1>1, <2>1 DEF MoveToEntryJob, ReadyInv, ReadyWith
  <2> QED
    BY <2>2, <2>3, <2>4
<1>2. CASE MoveToMember
  <2>1. temp_fd = dud_value /\ m_entry.fd = dud_value /\ socket.fd = dud_value
        /\ ~socket.ready
    BY <1>2 DEF MoveToMember, HandInv, ReadyInv, ReadyWith
  <2>2. TypeOK'
    BY <1>2 DEF MoveToMember, TypeOK, Points
  <2>3. HandInv'
    BY <1>2, <2>1 DEF MoveToMember, HandInv
  <2>4. ReadyInv'
    BY <1>2, <2>1 DEF MoveToMember, ReadyInv, ReadyWith
  <2> QED
    BY <2>2, <2>3, <2>4
<1> QED
  BY <1>1, <1>2

LEMMA CloseStep ==
  ASSUME StartupInv, StartThreads \/ ServiceStops \/ DestroyEntry \/ DestroySocket
  PROVE  StartupInv'
<1> USE DudNotFd, NoSocketDud, CloseType DEF StartupInv, Step, machineVars
<1>1. CASE StartThreads
  <2>1. /\ temp_fd = dud_value /\ socket.fd = dud_value /\ entry_socket.fd = dud_value
        /\ ~socket.ready /\ m_entry.fd \in Fds
    BY <1>1, SocketFields DEF StartThreads, TypeOK, HandInv, ReadyInv, ReadyWith
  <2>2. TypeOK'
    BY <1>1 DEF StartThreads, TypeOK, Points
  <2>3. HandInv'
    BY <1>1, <2>1 DEF StartThreads, HandInv
  <2>4. ReadyInv'
    BY <1>1, <2>1 DEF StartThreads, ReadyInv, ReadyWith
  <2> QED
    BY <2>2, <2>3, <2>4
<1>2. CASE ServiceStops \/ DestroyEntry
  <2>1. /\ temp_fd = dud_value /\ socket.fd = dud_value /\ entry_socket.fd = dud_value
        /\ ~socket.ready /\ ~entry_socket.ready
    BY <1>2 DEF ServiceStops, DestroyEntry, HandInv, ReadyInv, ReadyWith
  <2>2. TypeOK'
    BY <1>2 DEF ServiceStops, DestroyEntry, TypeOK, Points
  <2>3. HandInv'
    BY <1>2, <2>1 DEF ServiceStops, DestroyEntry, HandInv
  <2>4. ReadyInv'
    BY <1>2, <2>1 DEF ServiceStops, DestroyEntry, ReadyInv, ReadyWith
  <2> QED
    BY <2>2, <2>3, <2>4
<1>3. CASE DestroySocket
  <2>1. /\ temp_fd = dud_value /\ socket.fd = dud_value /\ entry_socket.fd = dud_value
        /\ m_entry.fd = dud_value /\ ~entry_socket.ready /\ ~m_entry.ready
    BY <1>3 DEF DestroySocket, HandInv, ReadyInv, ReadyWith
  <2>2. TypeOK'
    BY <1>3 DEF DestroySocket, TypeOK, Points
  <2>3. HandInv'
    BY <1>3, <2>1 DEF DestroySocket, HandInv
  <2>4. ReadyInv'
    BY <1>3, <2>1 DEF DestroySocket, ReadyInv, ReadyWith
  <2> QED
    BY <2>2, <2>3, <2>4
<1> QED
  BY <1>1, <1>2, <1>3

LEMMA BlankState ==
  ASSUME at = "main", m_cursor = FALSE, m_worker_n = 1, temp_fd = dud_value,
         socket = NoSocket, entry_socket = NoSocket, m_entry = NoSocket,
         file = [fd \in Fds |-> "closed"], timed = {},
         busy \in BOOLEAN, short \in BOOLEAN
  PROVE  StartupInv
<1>1. TypeOK
  <2>1. file \in [Fds -> {"closed", "socket", "bound", "listener"}]
    OBVIOUS
  <2>2. m_worker_n \in Nat \ {0} /\ timed \subseteq Fds
    OBVIOUS
  <2> QED
    BY <2>1, <2>2, NoSocketDud DEF TypeOK, Points
<1>2. HandInv
  BY DudNotFd, NoSocketDud DEF HandInv
<1>3. ReadyInv
  BY NoSocketDud DEF ReadyInv, ReadyWith
<1> QED
  BY <1>1, <1>2, <1>3 DEF StartupInv

LEMMA RestartStep ==
  ASSUME StartupInv, Restart
  PROVE  StartupInv'
<1> USE DudNotFd, NoSocketDud DEF StartupInv
<1>1. TypeOK'
  <2>1. file' \in [Fds -> {"closed", "socket", "bound", "listener"}]
    BY DEF Restart
  <2>2. m_worker_n' \in Nat \ {0} /\ timed' \subseteq Fds
    BY DEF Restart
  <2> QED
    BY <2>1, <2>2 DEF Restart, Step, TypeOK, Points
<1>2. HandInv'
  BY DEF Restart, Step, HandInv
<1>3. ReadyInv'
  BY DEF Restart, ReadyInv, ReadyWith
<1> QED
  BY <1>1, <1>2, <1>3

LEMMA NextStartupInv == StartupInv /\ [Next]_vars => StartupInv'
<1> SUFFICES ASSUME StartupInv, [Next]_vars
             PROVE  StartupInv'
  OBVIOUS
<1>1. CASE ReadNumbers
  <2>1. m_worker_n' \in Nat \ {0}
    BY <1>1, StartupAssumption DEF ReadNumbers, AtLeastOne
  <2>2. TypeOK'
    BY <1>1, <2>1 DEF ReadNumbers, Step, StartupInv, TypeOK, Points, socketVars,
                      kernelVars, machineVars
  <2> QED
    BY <1>1, <2>2, QuietSteps DEF ReadNumbers, Step
<1>2. CASE \/ TooFewArguments \/ MakeSelf \/ NumbersThrow \/ TestCursor \/ SocketFails
           \/ Refuse \/ ServiceDies \/ PortChanges \/ DescriptorsChange
           \/ UNCHANGED vars
  <2> USE <1>2 DEF TooFewArguments, MakeSelf, NumbersThrow, TestCursor, SocketFails,
                   Refuse, ServiceDies, PortChanges, DescriptorsChange, Step, vars,
                   socketVars, kernelVars, machineVars
  <2>1. TypeOK'
    BY DEF StartupInv, TypeOK, Points
  <2>2. UNCHANGED <<socketVars, kernelVars>>
    OBVIOUS
  <2>3. \/ at' = at
        \/ /\ at \in {"main", "numbers", "test", "socket"}
           /\ at' \in {"numbers", "test", "socket", "run", "exit"}
        \/ at = "serving" /\ at' = "exit"
        \/ at = "run" /\ socket.fd = dud_value /\ at' = "destroy"
    OBVIOUS
  <2> QED
    BY <2>1, <2>2, <2>3, QuietSteps
<1> QED
  BY <1>1, <1>2, GeneratorStep, ConstructStep, MoveStep, CloseStep, RestartStep
     DEF Next, Program

LEMMA StartupInvInductive == Spec => []StartupInv
<1>1. Init => StartupInv
  BY BlankState DEF Init
<1> QED
  BY <1>1, NextStartupInv, PTL DEF Spec

(* Every variable of the start always has a value of its type, and there   *)
(* is at least one worker whatever <worker-count> holds.                   *)
THEOREM StartupTypeCorrect == Spec => []TypeOK
<1>1. StartupInv => TypeOK
  BY DEF StartupInv
<1> QED
  BY <1>1, StartupInvInductive, PTL

-----------------------------------------------------------------------------
(* Whatever was moved, failed or destroyed, an open descriptor is held by  *)
(* exactly one variable, and a closed one by none.                         *)
THEOREM OneHolderCorrect == Spec => []OneHolder
<1>1. StartupInv => OneHolder
  <2> SUFFICES ASSUME StartupInv, NEW fd \in Fds
               PROVE  Cardinality(Holders(fd)) = (IF file[fd] = "closed" THEN 0 ELSE 1)
    BY DEF OneHolder
  <2>1. file[fd] # "closed" <=> fd \in {temp_fd, socket.fd, entry_socket.fd, m_entry.fd}
    BY DEF StartupInv, HandInv
  <2>2. fd # dud_value
    BY DudNotFd
  <2>3. CASE fd \notin {temp_fd, socket.fd, entry_socket.fd, m_entry.fd}
    <3>1. Holders(fd) = {}
      BY <2>3 DEF Holders
    <3> QED
      BY <2>1, <2>3, <3>1, FS_EmptySet
  <2>4. ASSUME NEW v, Holders(fd) = {v}, file[fd] # "closed"
        PROVE  Cardinality(Holders(fd)) = (IF file[fd] = "closed" THEN 0 ELSE 1)
    BY <2>4, FS_Singleton
  <2>5. CASE temp_fd = fd
    <3>1. socket.fd # fd /\ entry_socket.fd # fd /\ m_entry.fd # fd
      BY <2>2, <2>5 DEF StartupInv, HandInv
    <3>2. Holders(fd) = {"temp_fd"}
      BY <2>5, <3>1 DEF Holders
    <3> QED
      BY <2>1, <2>4, <2>5, <3>2
  <2>6. CASE socket.fd = fd
    <3>1. temp_fd # fd /\ entry_socket.fd # fd /\ m_entry.fd # fd
      BY <2>2, <2>6 DEF StartupInv, HandInv
    <3>2. Holders(fd) = {"socket"}
      BY <2>6, <3>1 DEF Holders
    <3> QED
      BY <2>1, <2>4, <2>6, <3>2
  <2>7. CASE entry_socket.fd = fd
    <3>1. temp_fd # fd /\ socket.fd # fd /\ m_entry.fd # fd
      BY <2>2, <2>7 DEF StartupInv, HandInv
    <3>2. Holders(fd) = {"entry_socket"}
      BY <2>7, <3>1 DEF Holders
    <3> QED
      BY <2>1, <2>4, <2>7, <3>2
  <2>8. CASE m_entry.fd = fd
    <3>1. temp_fd # fd /\ socket.fd # fd /\ entry_socket.fd # fd
      BY <2>2, <2>8 DEF StartupInv, HandInv
    <3>2. Holders(fd) = {"m_entry"}
      BY <2>8, <3>1 DEF Holders
    <3> QED
      BY <2>1, <2>4, <2>8, <3>2
  <2> QED
    BY <2>3, <2>5, <2>6, <2>7, <2>8
<1> QED
  BY <1>1, StartupInvInductive, PTL

(* The threads start from what ServerDriver takes for granted.             *)
THEOREM BeginsCorrect == Spec => BeginsAsServerDriver
<1> DEFINE Begins ==
      at' = "serving" /\ at # "serving" =>
        /\ m_entry'.fd \in Fds
        /\ \A fd \in Fds : file'[fd] # "closed" <=> fd = m_entry'.fd
        /\ m_entry'.ready => file'[m_entry'.fd] = "listener" /\ m_entry'.fd \in timed'
        /\ m_worker_n' >= 1
<1>1. StartupInv' => Begins
  <2> SUFFICES ASSUME StartupInv', at' = "serving"
               PROVE  Begins
    OBVIOUS
  <2>1. m_entry'.fd \in Fds /\ m_worker_n' >= 1
    <3>1. m_entry'.fd # dud_value
      BY DEF StartupInv, HandInv
    <3>2. m_entry' \in ServerSocket /\ m_worker_n' \in Nat \ {0}
      BY DEF StartupInv, TypeOK
    <3> QED
      BY <3>1, <3>2, SocketFields
  <2>2. \A fd \in Fds : file'[fd] # "closed" <=> fd = m_entry'.fd
    BY DudNotFd DEF StartupInv, HandInv
  <2>3. m_entry'.ready => file'[m_entry'.fd] = "listener" /\ m_entry'.fd \in timed'
    BY DEF StartupInv, ReadyInv, ReadyWith
  <2> QED
    BY <2>1, <2>2, <2>3
<1>2. StartupInv /\ StartupInv' /\ [Next]_vars => [Begins]_vars
  BY <1>1
<1> QED
  BY <1>2, StartupInvInductive, PTL DEF Spec, BeginsAsServerDriver
==============================================================================
