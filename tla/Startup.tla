------------------------------ MODULE Startup ------------------------------
(***************************************************************************)
(* main(), SocketGenerator and the hands the listening socket goes through *)
(* before the threads start: the descriptor is made and bound in a retry   *)
(* loop, wrapped in a ServerSocket, and moved from runService's parameter  *)
(* to EntryJob's and from there to m_entry; every one of them is destroyed *)
(* at its time.  What the service does between is ServerDriver's.  Other   *)
(* processes take the port and the machine's descriptors as they please,   *)
(* and the program may be run again.                                       *)
(***************************************************************************)
EXTENDS Integers, FiniteSets

CONSTANTS
  Fds,          \* the descriptors the process may hold
  WorkerCounts  \* the numbers <worker-count> may hold

ASSUME StartupAssumption == Fds \subseteq Nat /\ WorkerCounts \subseteq Int

VARIABLES
  at,            \* the point main() has reached
  m_cursor,      \* SocketGenerator: there is an address to bind
  m_worker_n,    \* ServerDriver::m_worker_n
  temp_fd,       \* the descriptor operator() of the generator returns
  socket,        \* runService's parameter
  entry_socket,  \* the parameter of EntryJob's constructor
  m_entry,       \* EntryJob::m_entry
  file,          \* kernel: what each descriptor refers to
  timed,         \* kernel: the sockets with a receive timeout
  busy,          \* others, or connections in TIME_WAIT, hold the port
  short          \* the machine has no descriptor to spare

socketVars == <<temp_fd, socket, entry_socket, m_entry>>
kernelVars == <<file, timed>>
machineVars == <<busy, short>>
vars == <<at, m_cursor, m_worker_n, socketVars, kernelVars, machineVars>>

dud_value == -1
NoSocket == [fd |-> dud_value, ready |-> FALSE]                \* ServerSocket {}
ServerSocket == [fd : Fds \cup {dud_value}, ready : BOOLEAN]

(* Mutant: the move constructor copies. *)
MovedFromKept(s) == s

(* what std::exchange leaves in the socket that was moved from *)
MovedFrom(s) == NoSocket

FreeFds == {fd \in Fds : file[fd] = "closed"}
Close(fd) == file' = [d \in Fds |-> IF d = fd THEN "closed" ELSE file[d]]
Step(from, to) == at = from /\ at' = to

-----------------------------------------------------------------------------
(* main() up to the loop of make_socket *)

TooFewArguments ==
  /\ Step("main", "exit")
  /\ UNCHANGED <<m_cursor, m_worker_n, socketVars, kernelVars, machineVars>>

(* an empty port, or one getaddrinfo() does not know, leaves no address *)
MakeSelf ==
  /\ Step("main", "numbers")
  /\ m_cursor' \in BOOLEAN
  /\ UNCHANGED <<m_worker_n, socketVars, kernelVars, machineVars>>

(* std::stoi() or std::stol() throws, and nobody catches *)
NumbersThrow ==
  /\ Step("numbers", "exit")
  /\ UNCHANGED <<m_cursor, m_worker_n, socketVars, kernelVars, machineVars>>

(* Mutant: the count is taken as it is given. *)
WorkersAsGiven(n) == n

AtLeastOne(n) == IF n >= 1 THEN n ELSE 1

ReadNumbers ==
  /\ Step("numbers", "test")
  /\ \E worker_count \in WorkerCounts : m_worker_n' = AtLeastOne(worker_count)
  /\ UNCHANGED <<m_cursor, socketVars, kernelVars, machineVars>>

TestCursor ==
  /\ Step("test", IF m_cursor THEN "socket" ELSE "run")
  /\ UNCHANGED <<m_cursor, m_worker_n, socketVars, kernelVars, machineVars>>

-----------------------------------------------------------------------------
(* SocketGenerator::operator(), one call after the other: m_cursor stays. *)

CallSocket ==
  /\ Step("socket", "bind")
  /\ ~short
  /\ \E fd \in FreeFds :
       /\ file' = [file EXCEPT ![fd] = "socket"]
       /\ temp_fd' = fd
  /\ UNCHANGED <<m_cursor, m_worker_n, socket, entry_socket, m_entry, timed, machineVars>>

SocketFails ==
  /\ Step("socket", "test")
  /\ short \/ FreeFds = {}
  /\ UNCHANGED <<m_cursor, m_worker_n, socketVars, kernelVars, machineVars>>

CallBind ==
  /\ Step("bind", "make")
  /\ ~busy
  /\ file' = [file EXCEPT ![temp_fd] = "bound"]
  /\ UNCHANGED <<m_cursor, m_worker_n, socketVars, timed, machineVars>>

(* Mutant: the descriptor is not closed. *)
BindFailsLeaks ==
  /\ Step("bind", "test")
  /\ busy
  /\ temp_fd' = dud_value
  /\ UNCHANGED <<m_cursor, m_worker_n, socket, entry_socket, m_entry, kernelVars, machineVars>>

BindFails ==
  /\ Step("bind", "test")
  /\ busy
  /\ Close(temp_fd)
  /\ temp_fd' = dud_value
  /\ UNCHANGED <<m_cursor, m_worker_n, socket, entry_socket, m_entry, timed, machineVars>>

-----------------------------------------------------------------------------
(* ServerSocket's constructor, into runService's parameter *)

ApplyOptions ==
  /\ Step("make", "listen")
  /\ \E ok \in BOOLEAN :
       /\ timed' = IF ok THEN timed \cup {temp_fd} ELSE timed \ {temp_fd}
       /\ socket' = [fd |-> temp_fd, ready |-> ok]
  /\ temp_fd' = dud_value
  /\ UNCHANGED <<m_cursor, m_worker_n, entry_socket, m_entry, file, machineVars>>

(* Mutant: the failure of the option is forgotten. *)
ListenDecides ==
  /\ Step("listen", "run")
  /\ \E ok \in BOOLEAN :
       /\ file' = [file EXCEPT ![socket.fd] = IF ok THEN "listener" ELSE "bound"]
       /\ socket' = [socket EXCEPT !.ready = ok]
  /\ UNCHANGED <<m_cursor, m_worker_n, temp_fd, entry_socket, m_entry, timed, machineVars>>

Listen ==
  /\ Step("listen", "run")
  /\ \E ok \in BOOLEAN :
       /\ file' = [file EXCEPT ![socket.fd] = IF ok THEN "listener" ELSE "bound"]
       /\ socket' = [socket EXCEPT !.ready = @ /\ ok]
  /\ UNCHANGED <<m_cursor, m_worker_n, temp_fd, entry_socket, m_entry, timed, machineVars>>

-----------------------------------------------------------------------------
(* runService: isReady() looks at the descriptor alone. *)

Refuse ==
  /\ socket.fd = dud_value
  /\ Step("run", "destroy")
  /\ UNCHANGED <<m_cursor, m_worker_n, socketVars, kernelVars, machineVars>>

MoveToEntryJob ==
  /\ socket.fd # dud_value
  /\ Step("run", "entry")
  /\ entry_socket' = socket /\ socket' = MovedFrom(socket)
  /\ UNCHANGED <<m_cursor, m_worker_n, temp_fd, m_entry, kernelVars, machineVars>>

MoveToMember ==
  /\ Step("entry", "entry_made")
  /\ m_entry' = entry_socket /\ entry_socket' = MovedFrom(entry_socket)
  /\ UNCHANGED <<m_cursor, m_worker_n, temp_fd, socket, kernelVars, machineVars>>

(* the constructor's parameter is destroyed, and the threads start *)
StartThreads ==
  /\ Step("entry_made", "serving")
  /\ Close(entry_socket.fd)
  /\ entry_socket' = NoSocket
  /\ UNCHANGED <<m_cursor, m_worker_n, temp_fd, socket, m_entry, timed, machineVars>>

(* shutdown() assigns {} to m_entry, and the threads are joined *)
ServiceStops ==
  /\ Step("serving", "joined")
  /\ Close(m_entry.fd)
  /\ m_entry' = NoSocket
  /\ UNCHANGED <<m_cursor, m_worker_n, temp_fd, socket, entry_socket, timed, machineVars>>

(* an exception nobody catches, or a signal, ends the process *)
ServiceDies ==
  /\ Step("serving", "exit")
  /\ UNCHANGED <<m_cursor, m_worker_n, socketVars, kernelVars, machineVars>>

(* ~EntryJob, then ~ServerSocket of the parameter, then main() returns *)
DestroyEntry ==
  /\ Step("joined", "destroy")
  /\ Close(m_entry.fd)
  /\ m_entry' = NoSocket
  /\ UNCHANGED <<m_cursor, m_worker_n, temp_fd, socket, entry_socket, timed, machineVars>>

DestroySocket ==
  /\ Step("destroy", "exit")
  /\ Close(socket.fd)
  /\ socket' = NoSocket
  /\ UNCHANGED <<m_cursor, m_worker_n, temp_fd, entry_socket, m_entry, timed, machineVars>>

-----------------------------------------------------------------------------
(* The machine. *)

Bound == \E fd \in Fds : file[fd] \in {"bound", "listener"}

PortChanges ==
  /\ ~Bound
  /\ busy' = ~busy
  /\ UNCHANGED <<at, m_cursor, m_worker_n, socketVars, kernelVars, short>>

DescriptorsChange ==
  /\ short' = ~short
  /\ UNCHANGED <<at, m_cursor, m_worker_n, socketVars, kernelVars, busy>>

(* The program is run again.  The kernel closed what the run before left   *)
(* open, and keeps the port for its connections for a while.               *)
Restart ==
  /\ Step("exit", "main")
  /\ m_cursor' = FALSE /\ m_worker_n' = 1
  /\ temp_fd' = dud_value
  /\ socket' = NoSocket /\ entry_socket' = NoSocket /\ m_entry' = NoSocket
  /\ file' = [fd \in Fds |-> "closed"] /\ timed' = {}
  /\ busy' \in BOOLEAN
  /\ UNCHANGED short

Init ==
  /\ at = "main"
  /\ m_cursor = FALSE /\ m_worker_n = 1
  /\ temp_fd = dud_value
  /\ socket = NoSocket /\ entry_socket = NoSocket /\ m_entry = NoSocket
  /\ file = [fd \in Fds |-> "closed"] /\ timed = {}
  /\ busy \in BOOLEAN /\ short \in BOOLEAN

Program ==
  \/ TooFewArguments \/ MakeSelf \/ NumbersThrow \/ ReadNumbers \/ TestCursor
  \/ CallSocket \/ SocketFails \/ CallBind \/ BindFails \/ ApplyOptions \/ Listen
  \/ Refuse \/ MoveToEntryJob \/ MoveToMember \/ StartThreads
  \/ DestroyEntry \/ DestroySocket

Next == Program \/ ServiceStops \/ ServiceDies \/ Restart \/ PortChanges \/ DescriptorsChange

Spec == Init /\ [][Next]_vars

(* main() runs; nobody has to stop the service or to run it again. *)
FairSpec == Spec /\ WF_vars(Program)

-----------------------------------------------------------------------------
(* Properties. *)

Points == {"main", "numbers", "test", "socket", "bind", "make", "listen", "run", "entry",
           "entry_made", "serving", "joined", "destroy", "exit"}

(* Every variable has a value of its type; there is at least one worker.   *)
TypeOK ==
  /\ at \in Points
  /\ m_cursor \in BOOLEAN /\ busy \in BOOLEAN /\ short \in BOOLEAN
  /\ m_worker_n \in Nat \ {0}
  /\ temp_fd \in Fds \cup {dud_value}
  /\ socket \in ServerSocket /\ entry_socket \in ServerSocket /\ m_entry \in ServerSocket
  /\ file \in [Fds -> {"closed", "socket", "bound", "listener"}]
  /\ timed \subseteq Fds

(* Whatever was moved, failed or destroyed, an open descriptor is held by  *)
(* exactly one variable, and a closed one by none: it is closed once, none *)
(* is left over from an attempt to bind, and none at the end of main().    *)
Holders(fd) ==
  {v \in {"temp_fd", "socket", "entry_socket", "m_entry"} :
     CASE v = "temp_fd"      -> temp_fd = fd
       [] v = "socket"       -> socket.fd = fd
       [] v = "entry_socket" -> entry_socket.fd = fd
       [] v = "m_entry"      -> m_entry.fd = fd}
OneHolder ==
  \A fd \in Fds : Cardinality(Holders(fd)) = (IF file[fd] = "closed" THEN 0 ELSE 1)

(* The threads start from what ServerDriver takes for granted: a bound     *)
(* descriptor in m_entry, no other open, a worker at least, and m_ready    *)
(* only on a socket that listens and whose accept() has its timeout.       *)
BeginsAsServerDriver ==
  [][at' = "serving" /\ at # "serving" =>
       /\ m_entry'.fd \in Fds
       /\ \A fd \in Fds : file'[fd] # "closed" <=> fd = m_entry'.fd
       /\ m_entry'.ready => file'[m_entry'.fd] = "listener" /\ m_entry'.fd \in timed'
       /\ m_worker_n' >= 1]_vars

(* The loop never gives an address up.  Once the port is free for good and *)
(* descriptors are to be had, the service starts, however many attempts    *)
(* failed before.                                                          *)
Starts == <>[](~busy /\ ~short) => (at = "test" /\ m_cursor ~> at = "serving")
=============================================================================
