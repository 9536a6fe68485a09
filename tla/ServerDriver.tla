---------------------------- MODULE ServerDriver ----------------------------
(***************************************************************************)
(* ServerDriver::runService and the threads it starts: the entry thread    *)
(* (EntryJob) that accepts connections and queues them, the workers        *)
(* (WorkerJob) that take them from the TaskQueue and serve them, and the   *)
(* user thread that stops the service.  Threads interleave at the calls    *)
(* and at the unsynchronised loads and stores they share.  What a worker   *)
(* does inside one HTTP exchange is reduced to its outcome.                *)
(***************************************************************************)
EXTENDS Integers, Sequences, FiniteSets

CONSTANTS
  Workers,        \* the worker threads
  Conns,          \* the connections clients may open
  Fds,            \* the descriptors the process may hold
  ListenFd,       \* the bound descriptor runService is given
  AcceptTimesOut  \* TRUE iff <client-timeout> gives accept() a finite timeout

(* driver.cpp:15 raises the worker count to at least min_worker_n = 1. *)
ASSUME WorkersAssumption == IsFiniteSet(Workers) /\ Workers # {}
ASSUME FdsAssumption == Fds \subseteq Nat /\ ListenFd \in Fds
ASSUME ConnsAssumption == "listener" \notin Conns /\ "closed" \notin Conns
ASSUME TimeoutAssumption == AcceptTimesOut \in BOOLEAN

VARIABLES
  file,           \* kernel: what each descriptor refers to
  conn,           \* kernel: what became of each connection
  continue_flag,  \* EntryJob::m_continue_flag
  m_fd, m_ready,  \* EntryJob::m_entry, a ServerSocket
  entry,          \* the point the entry thread has reached
  temp_fd,        \* its local: accept()'s argument, then accept()'s result
  user,           \* the point the user thread has reached
  m_items,        \* TaskQueue::m_items
  m_state,        \* the point each worker has reached
  m_connection,   \* each worker's ClientSocket, by descriptor
  returned        \* runService has joined every thread and returned

kernelVars == <<file, conn>>
socketVars == <<continue_flag, m_fd, m_ready>>
entryVars  == <<entry, temp_fd>>
workerVars == <<m_state, m_connection>>
vars == <<kernelVars, socketVars, entryVars, user, m_items, workerVars, returned>>

dud_value == -1
(* Mutant: the dud value of the pills differs from the sockets' own, which *)
(* task_queue.cpp and sockets.hpp define apart.                            *)
PillOtherDud == [fd |-> -2, poisoned |-> TRUE]

Pill == [fd |-> dud_value, poisoned |-> TRUE]
Dud  == [fd |-> dud_value, poisoned |-> FALSE]
Task == [fd : Fds \cup {dud_value}, poisoned : BOOLEAN]

-----------------------------------------------------------------------------
(* The kernel's side. *)

Pending == {c \in Conns : conn[c] = "pending"}
FreeFds == {fd \in Fds : file[fd] = "closed"}
ListenerOpen == file[ListenFd] = "listener"

(* The listening socket outlives its descriptor while accept() is blocked  *)
(* on it; once it goes, the connections nobody accepted are reset.         *)
Backlog(cs, alive) ==
  IF alive THEN cs
  ELSE [c \in Conns |-> IF cs[c] = "pending" THEN "reset" ELSE cs[c]]

Connect(c) ==
  /\ conn[c] = "idle"
  /\ ListenerOpen \/ entry = "blocked"
  /\ conn' = [conn EXCEPT ![c] = "pending"]
  /\ UNCHANGED <<file, socketVars, entryVars, user, m_items, workerVars, returned>>

(* close(fd) on a client descriptor, skipped for the dud value *)
Close(fd) ==
  /\ file' = [d \in Fds |-> IF d = fd THEN "closed" ELSE file[d]]
  /\ conn' = [c \in Conns |->
                IF fd \in Fds /\ file[fd] = c THEN "closed" ELSE conn[c]]

-----------------------------------------------------------------------------
(* EntryJob::operator(): accept, queue, and at the end poison the queue. *)

EntryAt(from, to) == entry = from /\ entry' = to

TestFlag ==
  /\ EntryAt("test", IF continue_flag THEN "ready" ELSE "poison")
  /\ UNCHANGED <<kernelVars, socketVars, temp_fd, user, m_items, workerVars, returned>>

(* acceptConnection: two unsynchronised loads, then the call *)
ReadReady ==
  /\ EntryAt("ready", IF m_ready THEN "load" ELSE "test")
  /\ UNCHANGED <<kernelVars, socketVars, temp_fd, user, m_items, workerVars, returned>>

LoadFd ==
  /\ EntryAt("load", "call")
  /\ temp_fd' = m_fd
  /\ UNCHANGED <<kernelVars, socketVars, user, m_items, workerVars, returned>>

CallAccept ==
  /\ EntryAt("call", IF temp_fd \in Fds /\ file[temp_fd] = "listener"
                     THEN "blocked" ELSE "test")
  /\ temp_fd' = dud_value
  /\ UNCHANGED <<kernelVars, socketVars, user, m_items, workerVars, returned>>

AcceptReturns(c) ==
  /\ EntryAt("blocked", "add")
  /\ c \in Pending
  /\ \E fd \in FreeFds :
       /\ file' = [file EXCEPT ![fd] = c]
       /\ temp_fd' = fd
  /\ conn' = Backlog([conn EXCEPT ![c] = "accepted"], ListenerOpen)
  /\ UNCHANGED <<socketVars, user, m_items, workerVars, returned>>

(* Mutant: a failed accept() leaves the loop. *)
AcceptFailsForGood(cs) ==
  /\ EntryAt("blocked", "poison")
  /\ conn' = Backlog(cs, ListenerOpen)
  /\ UNCHANGED <<file, socketVars, temp_fd, user, m_items, workerVars, returned>>

(* accept() returns -1 and the loop goes round with nothing queued *)
AcceptFails(cs) ==
  /\ EntryAt("blocked", "test")
  /\ conn' = Backlog(cs, ListenerOpen)
  /\ UNCHANGED <<file, socketVars, temp_fd, user, m_items, workerVars, returned>>

AcceptTimeout == AcceptTimesOut /\ Pending = {} /\ AcceptFails(conn)
AcceptNoDescriptor == FreeFds = {} /\ AcceptFails(conn)
AcceptAborted(c) == c \in Pending /\ AcceptFails([conn EXCEPT ![c] = "reset"])
(* some kernels, not Linux, wake accept() when its descriptor is closed *)
AcceptWoken == ~ListenerOpen /\ AcceptFails(conn)

(* addTask and poisonAll: m_mtx is held from LockQueue to the push *)
LockQueue ==
  /\ \/ EntryAt("add", "adding")
     \/ EntryAt("poison", "poisoning")
  /\ UNCHANGED <<kernelVars, socketVars, temp_fd, user, m_items, workerVars, returned>>

PushTask ==
  /\ EntryAt("adding", "notify_one")
  /\ m_items' = Append(m_items, [fd |-> temp_fd, poisoned |-> FALSE])
  /\ temp_fd' = dud_value
  /\ UNCHANGED <<kernelVars, socketVars, user, workerVars, returned>>

(* Mutant: the pills go to the front of the queue. *)
PushPillsInFront ==
  /\ EntryAt("poisoning", "notify_all")
  /\ m_items' = [i \in 1..Cardinality(Workers) |-> Pill] \o m_items
  /\ UNCHANGED <<kernelVars, socketVars, temp_fd, user, workerVars, returned>>

(* Mutant: the loop that pushes the pills stops one short. *)
PushPillsOneShort ==
  /\ EntryAt("poisoning", "notify_all")
  /\ m_items' = m_items \o [i \in 1..Cardinality(Workers) - 1 |-> Pill]
  /\ UNCHANGED <<kernelVars, socketVars, temp_fd, user, workerVars, returned>>

PushPills ==
  /\ EntryAt("poisoning", "notify_all")
  /\ m_items' = m_items \o [i \in 1..Cardinality(Workers) |-> Pill]
  /\ UNCHANGED <<kernelVars, socketVars, temp_fd, user, workerVars, returned>>

Waiting == {w \in Workers : m_state[w] = "waiting"}

Wake(woken) ==
  m_state' = [w \in Workers |-> IF w \in woken THEN "woken" ELSE m_state[w]]

NotifyOne ==
  /\ EntryAt("notify_one", "test")
  /\ \/ Waiting = {} /\ Wake({})
     \/ \E w \in Waiting : Wake({w})
  /\ UNCHANGED <<kernelVars, socketVars, temp_fd, user, m_items, m_connection, returned>>

NotifyAll ==
  /\ EntryAt("notify_all", "done")
  /\ Wake(Waiting)
  /\ UNCHANGED <<kernelVars, socketVars, temp_fd, user, m_items, m_connection, returned>>

-----------------------------------------------------------------------------
(* WorkerJob: stateTakeTask, the exchange loop, stateReset. *)

WorkerAt(w, from, to) == m_state[w] \in from /\ m_state' = [m_state EXCEPT ![w] = to]

QueueLocked == entry \in {"adding", "poisoning"}               \* m_mtx
CvLocked ==                                                    \* m_cv_mtx
  \E w \in Workers : m_state[w] \in {"check", "block", "get"}

(* Entering wait_for, or coming back from a wait: an expired wait gives up *)
(* whatever the predicate says.                                            *)
LockCv(w) ==
  /\ ~CvLocked
  /\ \/ WorkerAt(w, {"take_task", "woken"}, "check")
     \/ WorkerAt(w, {"expired"}, "get")
  /\ UNCHANGED <<kernelVars, socketVars, entryVars, user, m_items, m_connection, returned>>

(* getCount() reads the deque without m_mtx: while the entry thread is     *)
(* pushing, the read may see either answer.                                *)
CountSeen == IF QueueLocked THEN BOOLEAN ELSE {m_items # <<>>}

CheckCount(w) ==
  /\ \E some \in CountSeen : WorkerAt(w, {"check"}, IF some THEN "get" ELSE "block")
  /\ UNCHANGED <<kernelVars, socketVars, entryVars, user, m_items, m_connection, returned>>

(* The wait releases m_cv_mtx; a notification sent since the count was     *)
(* read finds nobody waiting, for notifiers do not take m_cv_mtx.          *)
Block(w) ==
  /\ WorkerAt(w, {"block"}, "waiting")
  /\ UNCHANGED <<kernelVars, socketVars, entryVars, user, m_items, m_connection, returned>>

(* Mutant: wait() instead of wait_for(). *)
WaitNeverExpires(w) == FALSE

WaitExpires(w) ==
  /\ WorkerAt(w, {"waiting"}, "expired")
  /\ UNCHANGED <<kernelVars, socketVars, entryVars, user, m_items, m_connection, returned>>

SpuriousWake(w) ==
  /\ WorkerAt(w, {"waiting"}, "woken")
  /\ UNCHANGED <<kernelVars, socketVars, entryVars, user, m_items, m_connection, returned>>

NextTask == IF m_items = <<>> THEN Dud ELSE Head(m_items)

GetTask(w) ==
  /\ ~QueueLocked
  /\ m_items' = IF m_items = <<>> THEN m_items ELSE Tail(m_items)
  /\ \/ /\ NextTask.poisoned
        /\ WorkerAt(w, {"get"}, "halt")
        /\ Close(m_connection[w])
        /\ m_connection' = [m_connection EXCEPT ![w] = dud_value]
     \/ /\ NextTask = Dud
        /\ WorkerAt(w, {"get"}, "take_task")
        /\ UNCHANGED <<kernelVars, m_connection>>
     \/ /\ ~NextTask.poisoned /\ NextTask.fd # dud_value
        /\ WorkerAt(w, {"get"}, "request")
        /\ Close(m_connection[w])
        /\ m_connection' = [m_connection EXCEPT ![w] = NextTask.fd]
  /\ UNCHANGED <<socketVars, entryVars, user, returned>>

(* One exchange: a request is read and answered, or the socket fails. *)
Exchange(w, from, to) ==
  /\ WorkerAt(w, {from}, to)
  /\ UNCHANGED <<kernelVars, socketVars, entryVars, user, m_items, m_connection, returned>>

ReadRequest(w)    == Exchange(w, "request", "reply")
ReplyKeepAlive(w) == Exchange(w, "reply", "request")
ExchangeEnds(w)   == Exchange(w, "request", "reset") \/ Exchange(w, "reply", "reset")

(* Mutant: the socket is closed and its descriptor kept. *)
ResetKeepsFd(w) ==
  /\ WorkerAt(w, {"reset"}, "take_task")
  /\ Close(m_connection[w])
  /\ UNCHANGED <<socketVars, entryVars, user, m_items, m_connection, returned>>

Reset(w) ==
  /\ WorkerAt(w, {"reset"}, "take_task")
  /\ Close(m_connection[w])
  /\ m_connection' = [m_connection EXCEPT ![w] = dud_value]
  /\ UNCHANGED <<socketVars, entryVars, user, m_items, returned>>

-----------------------------------------------------------------------------
(* The user thread: EntryJob::shutdown, store by store. *)

UserAt(from, to) == user = from /\ user' = to

CloseEntry == file' = [fd \in Fds |-> IF fd = m_fd THEN "closed" ELSE file[fd]]

ReadChoice ==
  /\ UserAt("ask", "clear")
  /\ UNCHANGED <<kernelVars, socketVars, entryVars, m_items, workerVars, returned>>

(* Mutant: the socket is closed with the flag still set. *)
ClearFlagForgotten ==
  /\ UserAt("clear", "close")
  /\ UNCHANGED <<kernelVars, socketVars, entryVars, m_items, workerVars, returned>>

ClearFlag ==
  /\ UserAt("clear", "close")
  /\ continue_flag' = FALSE
  /\ UNCHANGED <<kernelVars, m_fd, m_ready, entryVars, m_items, workerVars, returned>>

CloseListener ==
  /\ UserAt("close", "drop_fd")
  /\ CloseEntry
  /\ conn' = Backlog(conn, entry = "blocked")
  /\ UNCHANGED <<socketVars, entryVars, m_items, workerVars, returned>>

DropFd ==
  /\ UserAt("drop_fd", "drop_ready")
  /\ m_fd' = dud_value
  /\ UNCHANGED <<kernelVars, continue_flag, m_ready, entryVars, m_items, workerVars, returned>>

DropReady ==
  /\ UserAt("drop_ready", "done")
  /\ m_ready' = FALSE
  /\ UNCHANGED <<kernelVars, continue_flag, m_fd, entryVars, m_items, workerVars, returned>>

(* Mutant: the workers are not joined. *)
ReturnWithoutWorkers ==
  /\ ~returned
  /\ entry = "done" /\ user = "done"
  /\ returned' = TRUE
  /\ CloseEntry
  /\ UNCHANGED <<conn, socketVars, entryVars, user, m_items, workerVars>>

(* The main thread: the joins, then ~EntryJob, whose socket is a dud. *)
Return ==
  /\ ~returned
  /\ entry = "done" /\ user = "done"
  /\ \A w \in Workers : m_state[w] = "halt"
  /\ returned' = TRUE
  /\ CloseEntry
  /\ UNCHANGED <<conn, socketVars, entryVars, user, m_items, workerVars>>

Terminated == returned /\ UNCHANGED vars

-----------------------------------------------------------------------------
(* isReady() only looks at the descriptor, so runService goes on whether   *)
(* or not the options and listen() succeeded: m_ready starts either way.   *)
Init ==
  /\ file = [fd \in Fds |-> IF fd = ListenFd THEN "listener" ELSE "closed"]
  /\ conn = [c \in Conns |-> "idle"]
  /\ continue_flag = TRUE
  /\ m_fd = ListenFd
  /\ m_ready \in BOOLEAN
  /\ entry = "test"
  /\ temp_fd = dud_value
  /\ user = "ask"
  /\ m_items = <<>>
  /\ m_state = [w \in Workers |-> "take_task"]
  /\ m_connection = [w \in Workers |-> dud_value]
  /\ returned = FALSE

EntryStep ==
  \/ TestFlag \/ ReadReady \/ LoadFd \/ CallAccept
  \/ \E c \in Conns : AcceptReturns(c) \/ AcceptAborted(c)
  \/ AcceptTimeout \/ AcceptNoDescriptor
  \/ LockQueue \/ PushTask \/ PushPills \/ NotifyOne \/ NotifyAll

WorkerStep(w) ==
  \/ LockCv(w) \/ CheckCount(w) \/ Block(w) \/ WaitExpires(w) \/ GetTask(w)
  \/ ReadRequest(w) \/ ReplyKeepAlive(w) \/ ExchangeEnds(w) \/ Reset(w)

ShutdownStep == ClearFlag \/ CloseListener \/ DropFd \/ DropReady

Next ==
  \/ EntryStep \/ AcceptWoken
  \/ \E w \in Workers : WorkerStep(w) \/ SpuriousWake(w)
  \/ ReadChoice \/ ShutdownStep
  \/ \E c \in Conns : Connect(c)
  \/ Return \/ Terminated

Spec == Init /\ [][Next]_vars

(* The scheduler runs every thread: a thread that can go on does.  A wait  *)
(* expires after 11 s, a recv() after 10 s, an accept() after its timeout. *)
(* Nothing obliges the operator to stop the server, nor clients to connect.*)
ThreadFairness ==
  /\ WF_vars(EntryStep)
  /\ \A w \in Workers : WF_vars(WorkerStep(w))
  /\ WF_vars(ShutdownStep)
  /\ WF_vars(Return)

FairSpec == Spec /\ ThreadFairness

-----------------------------------------------------------------------------
(* Properties. *)

EntryPoints == {"test", "ready", "load", "call", "blocked", "add", "adding",
                "notify_one", "poison", "poisoning", "notify_all", "done"}
UserPoints == {"ask", "clear", "close", "drop_fd", "drop_ready", "done"}
WorkerPoints == {"take_task", "check", "block", "waiting", "woken", "expired",
                 "get", "request", "reply", "reset", "halt"}

(* Every variable has a value of its type. *)
TypeOK ==
  /\ file \in [Fds -> Conns \cup {"listener", "closed"}]
  /\ conn \in [Conns -> {"idle", "pending", "accepted", "closed", "reset"}]
  /\ continue_flag \in BOOLEAN /\ m_ready \in BOOLEAN /\ returned \in BOOLEAN
  /\ m_fd \in {ListenFd, dud_value}
  /\ temp_fd \in Fds \cup {dud_value}
  /\ entry \in EntryPoints
  /\ user \in UserPoints
  /\ m_items \in Seq(Task)
  /\ m_state \in [Workers -> WorkerPoints]
  /\ m_connection \in [Workers -> Fds \cup {dud_value}]

(* Who answers for a descriptor: the entry thread that accept()ed it and   *)
(* has not queued it, one task in the queue, or the worker serving it.     *)
EntryHolds(fd) == entry \in {"add", "adding"} /\ temp_fd = fd
TaskHolds(i, fd) == m_items[i].fd = fd
WorkerHolds(w, fd) == m_connection[w] = fd
Held(fd) ==
  \/ EntryHolds(fd)
  \/ \E i \in DOMAIN m_items : TaskHolds(i, fd)
  \/ \E w \in Workers : WorkerHolds(w, fd)

(* No two of them hold the same descriptor, so no worker serves or closes  *)
(* a descriptor number that was reused for another connection.             *)
HeldOnce ==
  \A fd \in Fds :
    /\ \A i \in DOMAIN m_items : TaskHolds(i, fd) =>
         /\ ~EntryHolds(fd)
         /\ \A j \in DOMAIN m_items : TaskHolds(j, fd) => i = j
         /\ \A w \in Workers : ~WorkerHolds(w, fd)
    /\ \A w \in Workers : WorkerHolds(w, fd) =>
         /\ ~EntryHolds(fd)
         /\ \A v \in Workers : WorkerHolds(v, fd) => v = w

(* A descriptor is held exactly while it is an open connection, and each   *)
(* accepted connection has exactly one descriptor: none leaks, none is     *)
(* used after it was closed.                                               *)
HeldIffOpen ==
  /\ \A fd \in Fds : Held(fd) <=> file[fd] \in Conns
  /\ \A c \in Conns : conn[c] = "accepted" <=> \E fd \in Fds : file[fd] = c
  /\ \A fd1, fd2 \in Fds : file[fd1] = file[fd2] /\ file[fd1] \in Conns => fd1 = fd2

(* Descriptors are held by one owner each, from accept() to close().       *)
OneOwner == HeldOnce /\ HeldIffOpen

(* Pills are behind every connection: a worker that halts leaves no        *)
(* connection to be taken by nobody.                                       *)
PillsLast ==
  \A i, j \in DOMAIN m_items : i < j /\ m_items[i].poisoned => m_items[j].poisoned

Pills   == {i \in DOMAIN m_items : m_items[i].poisoned}
Running == {w \in Workers : m_state[w] # "halt"}

(* Once the queue is poisoned there is one pill for each worker that has   *)
(* not halted, and before that nobody halts: each thread runService joins  *)
(* is given its pill, and no pill is left over.                            *)
PillsCoverWorkers ==
  IF entry \in {"notify_all", "done"}
  THEN Cardinality(Pills) = Cardinality(Running)
  ELSE Pills = {} /\ Running = Workers

(* accept() is only ever called on the listening descriptor or on one that *)
(* shutdown() has closed, never on a connection that was given its number; *)
(* and shutdown() closes the listener, not a connection.                   *)
ListenerNotConfused ==
  /\ entry = "call" /\ temp_fd \in Fds => file[temp_fd] \notin Conns
  /\ user = "close" => file[m_fd] = "listener"

(* The service as clients and the operator see it.  Admission goes on for  *)
(* as long as the entry thread can still come to accept().                 *)
MayStillAccept == continue_flag \/ entry \in {"ready", "load", "call", "blocked"}
Service == INSTANCE ConnectionService WITH
  phase <- IF returned THEN "stopped" ELSE IF continue_flag THEN "running" ELSE "stopping",
  admitting <- MayStillAccept

(* The threads implement ConnectionService: every connection accepted is   *)
(* closed by a worker, one at most is accepted after the stop, and         *)
(* runService returns with none open.                                      *)
ImplementsService == Service!Spec

(* Nothing in the code ends an exchange the client goes on with, so what   *)
(* follows depends on clients: a worker is free again and again if none of *)
(* its connections goes on for ever.                                       *)
FreeAgain(w) == []<>(m_state[w] \notin {"request", "reply"})
ClientsLeave == \A w \in Workers : FreeAgain(w)

(* 'y' stops the server: if clients leave, the threads are all joined.     *)
StopCompletes == ClientsLeave => (user # "ask" ~> returned)

(* A connection that was accepted is served and closed if clients leave,   *)
(* though the notification for it may have found nobody waiting; and one   *)
(* worker that comes back for tasks is enough for it to be taken, though   *)
(* the notification may have gone to a worker whose client never leaves.   *)
Queued(c) ==
  /\ conn[c] = "accepted"
  /\ \A w \in Workers : \A fd \in Fds : WorkerHolds(w, fd) => file[fd] # c
AcceptedIsServed ==
  /\ ClientsLeave => \A c \in Conns : conn[c] = "accepted" ~> conn[c] = "closed"
  /\ (\E w \in Workers : FreeAgain(w)) => \A c \in Conns : Queued(c) ~> ~Queued(c)

(* If clients leave, a connection in the backlog of a socket that was set  *)
(* up is accepted, or is reset when the server stops.                      *)
PendingIsSettled ==
  ClientsLeave =>
    \A c \in Conns : (conn[c] = "pending" /\ m_ready) ~> conn[c] # "pending"
=============================================================================
