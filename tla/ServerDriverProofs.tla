-------------------------- MODULE ServerDriverProofs --------------------------
(***************************************************************************)
(* Safety of ServerDriver and its refinement of ConnectionService, for any *)
(* number of workers, connections and descriptors.                         *)
(***************************************************************************)
EXTENDS ServerDriver, FiniteSetTheorems, FunctionTheorems, SequenceTheorems, TLAPS

(* The pills are a sequence of tasks, one for each worker. *)
LEMMA PillsType ==
  /\ Cardinality(Workers) \in Nat
  /\ Pill \in Task /\ Dud \in Task
  /\ [i \in 1..Cardinality(Workers) |-> Pill] \in Seq(Task)
<1>1. Cardinality(Workers) \in Nat
  BY WorkersAssumption, FS_CardinalityType
<1>2. Pill \in Task /\ Dud \in Task
  BY DEF Pill, Dud, Task
<1> QED
  BY <1>1, <1>2

(* Taking the first task of the queue, as getTask() does. *)
LEMMA TakeType ==
  ASSUME NEW q \in Seq(Task), q # <<>>
  PROVE  Head(q) \in Task /\ Tail(q) \in Seq(Task)
  OBVIOUS

-----------------------------------------------------------------------------
(* Types.  The steps of one thread at a time. *)

LEMMA EntryStepType ==
  ASSUME TypeOK, EntryStep \/ AcceptWoken
  PROVE  TypeOK'
<1> USE FdsAssumption DEF TypeOK, EntryPoints, dud_value, kernelVars, socketVars,
                          entryVars, workerVars, EntryAt
<1>1. CASE TestFlag \/ ReadReady \/ LockQueue
  BY <1>1 DEF TestFlag, ReadReady, LockQueue
<1>2. CASE LoadFd \/ CallAccept
  BY <1>2 DEF LoadFd, CallAccept
<1>3. ASSUME NEW c \in Conns, AcceptReturns(c)
      PROVE  TypeOK'
  BY <1>3 DEF AcceptReturns, Backlog, Pending, FreeFds
<1>4. ASSUME NEW cs \in [Conns -> {"idle", "pending", "accepted", "closed", "reset"}],
             AcceptFails(cs)
      PROVE  TypeOK'
  BY <1>4 DEF AcceptFails, Backlog
<1>5. CASE AcceptTimeout \/ AcceptNoDescriptor \/ AcceptWoken
  BY <1>4, <1>5 DEF AcceptTimeout, AcceptNoDescriptor, AcceptWoken
<1>6. ASSUME NEW c \in Conns, AcceptAborted(c)
      PROVE  TypeOK'
  BY <1>4, <1>6 DEF AcceptAborted
<1>7. CASE PushTask
  <2>1. [fd |-> temp_fd, poisoned |-> FALSE] \in Task
    BY DEF Task
  <2>2. m_items' \in Seq(Task)
    BY <1>7, <2>1 DEF PushTask
  <2> QED
    BY <1>7, <2>2 DEF PushTask
<1>8. CASE PushPills
  <2>1. m_items' \in Seq(Task)
    BY <1>8, PillsType, ConcatProperties DEF PushPills
  <2> QED
    BY <1>8, <2>1 DEF PushPills
<1>9. CASE NotifyOne \/ NotifyAll
  BY <1>9 DEF NotifyOne, NotifyAll, Wake, Waiting, WorkerPoints
<1> QED
  BY <1>1, <1>2, <1>3, <1>5, <1>6, <1>7, <1>8, <1>9 DEF EntryStep

LEMMA CloseType ==
  ASSUME TypeOK, NEW fd, Close(fd)
  PROVE  /\ file' \in [Fds -> Conns \cup {"listener", "closed"}]
         /\ conn' \in [Conns -> {"idle", "pending", "accepted", "closed", "reset"}]
  BY DEF TypeOK, Close

LEMMA WorkerStepType ==
  ASSUME TypeOK, NEW w \in Workers, WorkerStep(w) \/ SpuriousWake(w)
  PROVE  TypeOK'
<1> USE DEF TypeOK, WorkerPoints, dud_value, kernelVars, socketVars, entryVars,
            workerVars, WorkerAt
<1>1. CASE LockCv(w) \/ Block(w) \/ WaitExpires(w) \/ SpuriousWake(w)
  BY <1>1 DEF LockCv, Block, WaitExpires, SpuriousWake
<1>2. CASE CheckCount(w)
  BY <1>2 DEF CheckCount
<1>3. CASE GetTask(w)
  <2>1. m_items' \in Seq(Task)
    BY <1>3, TakeType DEF GetTask
  <2>2. NextTask \in Task
    BY PillsType, TakeType DEF NextTask
  <2>3. /\ file' \in [Fds -> Conns \cup {"listener", "closed"}]
        /\ conn' \in [Conns -> {"idle", "pending", "accepted", "closed", "reset"}]
    BY <1>3, CloseType DEF GetTask
  <2>4. NextTask.fd \in Fds \cup {-1}
    BY <2>2 DEF Task
  <2>5. /\ m_state' \in [Workers -> WorkerPoints]
        /\ m_connection' \in [Workers -> Fds \cup {-1}]
    BY <1>3, <2>4 DEF GetTask
  <2> QED
    BY <1>3, <2>1, <2>3, <2>5 DEF GetTask
<1>4. CASE ReadRequest(w) \/ ReplyKeepAlive(w) \/ ExchangeEnds(w)
  BY <1>4 DEF ReadRequest, ReplyKeepAlive, ExchangeEnds, Exchange
<1>5. CASE Reset(w)
  BY <1>5, CloseType DEF Reset
<1> QED
  BY <1>1, <1>2, <1>3, <1>4, <1>5 DEF WorkerStep

LEMMA OtherStepType ==
  ASSUME TypeOK,
         ReadChoice \/ ShutdownStep \/ (\E c \in Conns : Connect(c)) \/ Return
  PROVE  TypeOK'
<1> USE DEF TypeOK, UserPoints, dud_value, kernelVars, socketVars, entryVars,
            workerVars, UserAt
<1>1. CASE ReadChoice \/ ClearFlag \/ DropFd \/ DropReady
  BY <1>1 DEF ReadChoice, ClearFlag, DropFd, DropReady
<1>2. CASE CloseListener
  BY <1>2 DEF CloseListener, CloseEntry, Backlog
<1>3. CASE \E c \in Conns : Connect(c)
  BY <1>3 DEF Connect
<1>4. CASE Return
  BY <1>4 DEF Return, CloseEntry
<1> QED
  BY <1>1, <1>2, <1>3, <1>4 DEF ShutdownStep

LEMMA InitType == Init => TypeOK
<1> SUFFICES ASSUME Init
             PROVE  TypeOK
  OBVIOUS
<1>1. /\ file \in [Fds -> Conns \cup {"listener", "closed"}]
      /\ conn \in [Conns -> {"idle", "pending", "accepted", "closed", "reset"}]
      /\ m_state \in [Workers -> WorkerPoints]
      /\ m_connection \in [Workers -> Fds \cup {dud_value}]
  BY DEF Init, WorkerPoints
<1>2. continue_flag \in BOOLEAN /\ m_ready \in BOOLEAN /\ returned \in BOOLEAN
  BY DEF Init
<1>3. m_items \in Seq(Task)
  BY DEF Init
<1> QED
  BY <1>1, <1>2, <1>3 DEF Init, TypeOK, EntryPoints, UserPoints

LEMMA NextType == TypeOK /\ [Next]_vars => TypeOK'
<1> SUFFICES ASSUME TypeOK, [Next]_vars
             PROVE  TypeOK'
  OBVIOUS
<1>1. CASE UNCHANGED vars
  BY <1>1 DEF TypeOK, vars, kernelVars, socketVars, entryVars, workerVars
<1>2. CASE Terminated
  BY <1>1, <1>2 DEF Terminated
<1> QED
  BY <1>1, <1>2, EntryStepType, WorkerStepType, OtherStepType DEF Next

(* Every variable always has a value of its type. *)
THEOREM TypeCorrect == Spec => []TypeOK
  BY InitType, NextType, PTL DEF Spec

-----------------------------------------------------------------------------
(* The queue, element by element. *)

LEMMA PushTaskQueue ==
  ASSUME TypeOK, PushTask
  PROVE  /\ DOMAIN m_items' = 1..Len(m_items) + 1
         /\ DOMAIN m_items = 1..Len(m_items) /\ Len(m_items) \in Nat
         /\ \A i \in DOMAIN m_items : m_items'[i] = m_items[i]
         /\ m_items'[Len(m_items) + 1] = [fd |-> temp_fd, poisoned |-> FALSE]
  BY DEF TypeOK, PushTask

LEMMA PushPillsQueue ==
  ASSUME TypeOK, PushPills
  PROVE  /\ DOMAIN m_items' = 1..Len(m_items) + Cardinality(Workers)
         /\ DOMAIN m_items = 1..Len(m_items) /\ Len(m_items) \in Nat
         /\ \A i \in DOMAIN m_items : m_items'[i] = m_items[i]
         /\ \A i \in Len(m_items) + 1 .. Len(m_items) + Cardinality(Workers) :
              m_items'[i] = Pill
<1> DEFINE pills == [i \in 1..Cardinality(Workers) |-> Pill]
<1>1. Len(pills) = Cardinality(Workers)
  BY PillsType
<1>2. m_items' = m_items \o pills /\ m_items \in Seq(Task) /\ pills \in Seq(Task)
  BY PillsType DEF TypeOK, PushPills
<1>3. \A i \in 1..Cardinality(Workers) : pills[i] = Pill
  OBVIOUS
<1> HIDE DEF pills
<1> QED
  BY <1>1, <1>2, <1>3, PillsType

LEMMA GetTaskQueue ==
  ASSUME TypeOK, NEW w \in Workers, GetTask(w)
  PROVE  /\ DOMAIN m_items = 1..Len(m_items) /\ Len(m_items) \in Nat
         /\ m_items = <<>> => m_items' = <<>> /\ NextTask = Dud
         /\ m_items # <<>> =>
              /\ Len(m_items) > 0
              /\ NextTask = m_items[1]
              /\ DOMAIN m_items' = 1..Len(m_items) - 1
              /\ \A i \in DOMAIN m_items' : m_items'[i] = m_items[i + 1]
  BY DEF TypeOK, GetTask, NextTask

(* The steps that touch the queue. *)
LEMMA QueueSteps ==
  ASSUME [Next]_vars
  PROVE  \/ PushTask \/ PushPills \/ \E w \in Workers : GetTask(w)
         \/ /\ UNCHANGED m_items
            /\ \/ entry' = entry
               \/ entry = "notify_all" /\ entry' = "done"
               \/ entry \notin {"notify_all", "done"} /\ entry' \notin {"notify_all", "done"}
<1> USE DEF EntryAt, kernelVars, socketVars, entryVars, workerVars, vars
<1>1. CASE EntryStep \/ AcceptWoken
  BY <1>1 DEF EntryStep, AcceptWoken, TestFlag, ReadReady, LoadFd, CallAccept,
              AcceptReturns, AcceptAborted, AcceptTimeout, AcceptNoDescriptor,
              AcceptFails, LockQueue, NotifyOne, NotifyAll
<1>2. ASSUME NEW w \in Workers, WorkerStep(w) \/ SpuriousWake(w)
      PROVE  UNCHANGED <<m_items, entry>> \/ GetTask(w)
  BY <1>2 DEF WorkerStep, SpuriousWake, LockCv, CheckCount, Block, WaitExpires,
              ReadRequest, ReplyKeepAlive, ExchangeEnds, Exchange, Reset
<1>3. CASE ReadChoice \/ ShutdownStep \/ Return \/ Terminated \/ UNCHANGED vars
  BY <1>3 DEF ReadChoice, ShutdownStep, ClearFlag, CloseListener, DropFd, DropReady,
              Return, Terminated
<1>4. CASE \E c \in Conns : Connect(c)
  BY <1>4 DEF Connect
<1> QED
  BY <1>1, <1>2, <1>3, <1>4 DEF Next

-----------------------------------------------------------------------------
(* Pills come last because the thread that queues connections is the one   *)
(* that poisons the queue, and it does so last.                            *)

PillsInv ==
  /\ PillsLast
  /\ entry \notin {"notify_all", "done"} =>
       \A i \in DOMAIN m_items : ~m_items[i].poisoned

(* PillsLast holds of the driver. *)
THEOREM PillsLastCorrect == Spec => []PillsLast
<1>1. Init => PillsInv
  BY DEF Init, PillsInv, PillsLast
<1>2. TypeOK /\ PillsInv /\ [Next]_vars => PillsInv'
  <2> SUFFICES ASSUME TypeOK, PillsInv, [Next]_vars
               PROVE  PillsInv'
    OBVIOUS
  <2> USE DEF PillsInv, PillsLast
  <2>1. CASE PushTask
    BY <2>1, PushTaskQueue DEF PushTask, EntryAt
  <2>2. CASE PushPills
    <3>1. Pill.poisoned
      BY DEF Pill
    <3> QED
      BY <2>2, <3>1, PushPillsQueue, PillsType DEF PushPills, EntryAt
  <2>3. ASSUME NEW w \in Workers, GetTask(w)
        PROVE  PillsInv'
    <3>1. entry' = entry
      BY <2>3 DEF GetTask, entryVars
    <3>2. CASE m_items = <<>>
      BY <2>3, <3>1, <3>2, GetTaskQueue
    <3>3. CASE m_items # <<>>
      BY <2>3, <3>1, <3>3, GetTaskQueue
    <3> QED
      BY <3>2, <3>3
  <2>4. CASE /\ UNCHANGED m_items
             /\ \/ entry' = entry
                \/ entry = "notify_all" /\ entry' = "done"
                \/ entry \notin {"notify_all", "done"} /\ entry' \notin {"notify_all", "done"}
    BY <2>4
  <2> QED
    BY <2>1, <2>2, <2>3, <2>4, QueueSteps
<1>3. PillsInv => PillsLast
  BY DEF PillsInv
<1> QED
  BY <1>1, <1>2, <1>3, TypeCorrect, PTL DEF Spec

-----------------------------------------------------------------------------
(* The listening descriptor.  A connection can be given its number only    *)
(* after shutdown() closed it, and then the entry thread, still inside the *)
(* accept() it called before, does not call another.                       *)

ListenerInv ==
  /\ continue_flag <=> user \in {"ask", "clear"}
  /\ user \in {"ask", "clear", "close"} => m_fd = ListenFd /\ file[ListenFd] = "listener"
  /\ user \in {"drop_ready", "done"} => m_fd = dud_value
  /\ \A fd \in Fds : file[fd] = "listener" => fd = ListenFd
  /\ entry \in {"ready", "load", "call"} => file[ListenFd] \notin Conns
  /\ entry = "call" => temp_fd \in {ListenFd, dud_value}

LEMMA DudNotFd == dud_value \notin Fds
  BY FdsAssumption DEF dud_value

(* Closing a descriptor that is a connection leaves the listener alone. *)
LEMMA CloseKeepsListener ==
  ASSUME TypeOK, ListenerInv, NEW fd, fd \in Fds => file[fd] # "listener", Close(fd),
         UNCHANGED <<socketVars, entryVars, user>>
  PROVE  ListenerInv'
<1>1. \A d \in Fds : file'[d] = file[d] \/ file'[d] = "closed"
  BY DEF Close, TypeOK
<1>2. file[ListenFd] = "listener" => file'[ListenFd] = "listener"
  BY FdsAssumption DEF Close, TypeOK
<1> QED
  BY <1>1, <1>2, FdsAssumption, ConnsAssumption DEF ListenerInv, socketVars, entryVars

-----------------------------------------------------------------------------
(* Ownership of descriptors. *)

OwnerInv ==
  /\ HeldOnce
  /\ HeldIffOpen
  /\ entry \in {"add", "adding"} => temp_fd \in Fds
  /\ \A i \in DOMAIN m_items : m_items[i].poisoned => m_items[i].fd = dud_value
  /\ \A w \in Workers :
       m_state[w] \notin {"request", "reply", "reset"} => m_connection[w] = dud_value

SafeInv == TypeOK /\ ListenerInv /\ OwnerInv

(* A worker's descriptor is a connection, so closing it is safe. *)
LEMMA WorkerFdIsConnection ==
  ASSUME SafeInv, NEW w \in Workers, m_connection[w] \in Fds
  PROVE  file[m_connection[w]] \in Conns
  BY DEF SafeInv, OwnerInv, HeldIffOpen, Held, WorkerHolds

LEMMA WorkerStepListener ==
  ASSUME SafeInv, NEW w \in Workers, WorkerStep(w) \/ SpuriousWake(w)
  PROVE  ListenerInv'
<1> USE DEF SafeInv
<1>1. CASE GetTask(w) \/ Reset(w)
  <2>1. m_connection[w] \in Fds => file[m_connection[w]] # "listener"
    BY WorkerFdIsConnection, ConnsAssumption
  <2>2. UNCHANGED <<socketVars, entryVars, user>>
    BY <1>1 DEF GetTask, Reset
  <2>3. Close(m_connection[w]) \/ UNCHANGED kernelVars
    BY <1>1 DEF GetTask, Reset
  <2> QED
    BY <2>1, <2>2, <2>3, CloseKeepsListener
       DEF ListenerInv, kernelVars, socketVars, entryVars
<1>2. CASE ~(GetTask(w) \/ Reset(w))
  BY <1>2 DEF ListenerInv, WorkerStep, SpuriousWake, LockCv, CheckCount, Block,
              WaitExpires, ReadRequest, ReplyKeepAlive, ExchangeEnds, Exchange,
              kernelVars, socketVars, entryVars
<1> QED
  BY <1>1, <1>2

LEMMA EntryStepListener ==
  ASSUME SafeInv, EntryStep \/ AcceptWoken
  PROVE  ListenerInv'
<1> USE FdsAssumption, ConnsAssumption, DudNotFd
    DEF SafeInv, TypeOK, ListenerInv, kernelVars, socketVars, EntryAt
<1>1. CASE TestFlag \/ ReadReady \/ LoadFd \/ CallAccept
  BY <1>1 DEF TestFlag, ReadReady, LoadFd, CallAccept
<1>2. ASSUME NEW c \in Conns, AcceptReturns(c)
      PROVE  ListenerInv'
  BY <1>2 DEF AcceptReturns, FreeFds
<1>3. ASSUME NEW cs, AcceptFails(cs)
      PROVE  ListenerInv'
  BY <1>3 DEF AcceptFails
<1>4. CASE LockQueue \/ PushTask \/ PushPills \/ NotifyOne \/ NotifyAll
  BY <1>4 DEF LockQueue, PushTask, PushPills, NotifyOne, NotifyAll
<1> QED
  BY <1>1, <1>2, <1>3, <1>4 DEF EntryStep, AcceptWoken, AcceptTimeout,
                                AcceptNoDescriptor, AcceptAborted

LEMMA OtherStepListener ==
  ASSUME SafeInv,
         ReadChoice \/ ShutdownStep \/ (\E c \in Conns : Connect(c)) \/ Return
  PROVE  ListenerInv'
<1> USE FdsAssumption, ConnsAssumption, DudNotFd
    DEF SafeInv, TypeOK, ListenerInv, kernelVars, socketVars, entryVars, UserAt
<1>1. CASE ReadChoice \/ ClearFlag \/ DropFd \/ DropReady
  BY <1>1 DEF ReadChoice, ClearFlag, DropFd, DropReady, UserPoints
<1>2. CASE CloseListener
  BY <1>2 DEF CloseListener, CloseEntry
<1>3. CASE \E c \in Conns : Connect(c)
  BY <1>3 DEF Connect
<1>4. CASE Return
  BY <1>4 DEF Return, CloseEntry
<1> QED
  BY <1>1, <1>2, <1>3, <1>4 DEF ShutdownStep

-----------------------------------------------------------------------------
(* A step that moves no descriptor, and accepts and closes no connection.  *)
LEMMA SameHolders ==
  ASSUME TypeOK, OwnerInv,
         UNCHANGED <<m_items, m_connection>>,
         \A fd \in Fds : file'[fd] \in Conns \/ file[fd] \in Conns => file'[fd] = file[fd],
         \A c \in Conns : conn'[c] = "accepted" <=> conn[c] = "accepted",
         \A fd \in Fds : EntryHolds(fd)' <=> EntryHolds(fd),
         entry' \in {"add", "adding"} => temp_fd' \in Fds,
         \A w \in Workers :
           m_state'[w] \notin {"request", "reply", "reset"} =>
             m_state[w] \notin {"request", "reply", "reset"} \/ m_connection[w] = dud_value
  PROVE  OwnerInv'
<1> USE DEF OwnerInv, TaskHolds, WorkerHolds
<1>1. HeldOnce'
  BY DEF HeldOnce
<1>2. \A fd \in Fds : Held(fd)' <=> Held(fd)
  BY DEF Held
<1>3. HeldIffOpen'
  <2>1. \A fd \in Fds : Held(fd)' <=> file'[fd] \in Conns
    BY <1>2 DEF HeldIffOpen
  <2>2. \A c \in Conns : conn'[c] = "accepted" <=> \E fd \in Fds : file'[fd] = c
    BY DEF HeldIffOpen
  <2>3. \A fd1, fd2 \in Fds : file'[fd1] = file'[fd2] /\ file'[fd1] \in Conns => fd1 = fd2
    BY DEF HeldIffOpen
  <2> QED
    BY <2>1, <2>2, <2>3 DEF HeldIffOpen
<1> QED
  BY <1>1, <1>3

LEMMA AcceptOwner ==
  ASSUME SafeInv, NEW c \in Conns, AcceptReturns(c)
  PROVE  OwnerInv'
<1> USE DEF SafeInv, TypeOK, OwnerInv, TaskHolds, WorkerHolds, EntryAt
<1>1. PICK fd \in FreeFds : file' = [file EXCEPT ![fd] = c] /\ temp_fd' = fd
  BY DEF AcceptReturns
<1>2. fd \in Fds /\ file[fd] \notin Conns /\ ~Held(fd)
  BY ConnsAssumption DEF FreeFds, HeldIffOpen
<1>3. UNCHANGED <<m_items, m_connection, m_state>> /\ entry = "blocked" /\ entry' = "add"
  BY DEF AcceptReturns, workerVars
<1>4. \A d \in Fds : Held(d)' <=> Held(d) \/ d = fd
  BY <1>1, <1>3 DEF Held, EntryHolds
<1>5. conn[c] = "pending" /\ \A d \in Fds : file[d] # c
  BY DEF AcceptReturns, Pending, HeldIffOpen
<1>6. \A d \in Conns : conn'[d] = "accepted" <=> conn[d] = "accepted" \/ d = c
  BY <1>5 DEF AcceptReturns, Backlog
<1>7. HeldOnce'
  BY <1>1, <1>2, <1>3 DEF HeldOnce, Held, EntryHolds
<1>8. \A d \in Fds : file'[d] = IF d = fd THEN c ELSE file[d]
  BY <1>1, <1>2
<1>9. HeldIffOpen'
  <2>1. \A d \in Fds : Held(d)' <=> file'[d] \in Conns
    BY <1>2, <1>4, <1>8 DEF HeldIffOpen
  <2>2. \A d \in Conns : conn'[d] = "accepted" <=> \E f \in Fds : file'[f] = d
    BY <1>2, <1>5, <1>6, <1>8 DEF HeldIffOpen
  <2>3. \A fd1, fd2 \in Fds : file'[fd1] = file'[fd2] /\ file'[fd1] \in Conns => fd1 = fd2
    BY <1>5, <1>8 DEF HeldIffOpen
  <2> QED
    BY <2>1, <2>2, <2>3 DEF HeldIffOpen
<1> QED
  BY <1>1, <1>2, <1>3, <1>7, <1>9

LEMMA PushTaskOwner ==
  ASSUME SafeInv, PushTask
  PROVE  OwnerInv'
<1> USE DEF SafeInv, OwnerInv
<1>n. PICK n \in Nat : n = Len(m_items) + 1
  BY PushTaskQueue
<1>1. /\ entry = "adding" /\ entry' = "notify_one" /\ temp_fd' = dud_value
      /\ UNCHANGED <<file, conn, m_connection, m_state>>
  BY DEF PushTask, EntryAt, kernelVars, workerVars
<1>2. /\ DOMAIN m_items' = DOMAIN m_items \cup {n} /\ n \notin DOMAIN m_items
      /\ \A i \in DOMAIN m_items : m_items'[i] = m_items[i]
      /\ m_items'[n].fd = temp_fd /\ ~m_items'[n].poisoned
  BY <1>n, PushTaskQueue
<1>3. \A fd \in Fds : /\ EntryHolds(fd) <=> temp_fd = fd
                      /\ ~EntryHolds(fd)'
                      /\ \A i \in DOMAIN m_items : TaskHolds(i, fd)' <=> TaskHolds(i, fd)
                      /\ TaskHolds(n, fd)' <=> temp_fd = fd
                      /\ \A w \in Workers : WorkerHolds(w, fd)' <=> WorkerHolds(w, fd)
  BY <1>1, <1>2 DEF EntryHolds, TaskHolds, WorkerHolds
<1>4. HeldOnce'
  BY <1>2, <1>3 DEF HeldOnce
<1>5. \A fd \in Fds : Held(fd)' <=> Held(fd)
  BY <1>2, <1>3 DEF Held
<1>6. HeldIffOpen'
  BY <1>1, <1>5 DEF HeldIffOpen
<1>7. \A i \in DOMAIN m_items' : m_items'[i].poisoned => m_items'[i].fd = dud_value
  BY <1>2
<1> QED
  BY <1>1, <1>4, <1>6, <1>7 DEF dud_value

LEMMA PushPillsOwner ==
  ASSUME SafeInv, PushPills
  PROVE  OwnerInv'
<1> USE DEF SafeInv, OwnerInv
<1>1. /\ entry = "poisoning" /\ entry' = "notify_all"
      /\ UNCHANGED <<file, conn, m_connection, m_state>>
  BY DEF PushPills, EntryAt, kernelVars, workerVars
<1>2. /\ DOMAIN m_items \subseteq DOMAIN m_items'
      /\ \A i \in DOMAIN m_items : m_items'[i] = m_items[i]
      /\ \A i \in DOMAIN m_items' : i \notin DOMAIN m_items =>
           m_items'[i].fd = dud_value
  BY PushPillsQueue, PillsType DEF Pill
<1>3. \A fd \in Fds : /\ ~EntryHolds(fd) /\ ~EntryHolds(fd)'
                      /\ \A i \in DOMAIN m_items : TaskHolds(i, fd)' <=> TaskHolds(i, fd)
                      /\ \A i \in DOMAIN m_items' : TaskHolds(i, fd)' => i \in DOMAIN m_items
                      /\ \A w \in Workers : WorkerHolds(w, fd)' <=> WorkerHolds(w, fd)
  BY <1>1, <1>2, DudNotFd DEF EntryHolds, TaskHolds, WorkerHolds
<1>4. HeldOnce'
  BY <1>2, <1>3 DEF HeldOnce
<1>5. \A fd \in Fds : Held(fd)' <=> Held(fd)
  BY <1>2, <1>3 DEF Held
<1>6. HeldIffOpen'
  BY <1>1, <1>5 DEF HeldIffOpen
<1> QED
  BY <1>1, <1>2, <1>4, <1>6

(* close() of the dud value is skipped. *)
LEMMA CloseDud ==
  ASSUME TypeOK, Close(dud_value)
  PROVE  UNCHANGED kernelVars
<1>1. file' = file
  BY DudNotFd DEF Close, TypeOK
<1>2. conn' = conn
  BY DudNotFd DEF Close, TypeOK
<1> QED
  BY <1>1, <1>2 DEF kernelVars

(* A worker that can take a task holds no descriptor, so nothing is closed *)
(* and the first task's descriptor, if it has one, passes to the worker.   *)
LEMMA GetTaskOwner ==
  ASSUME SafeInv, NEW w \in Workers, GetTask(w)
  PROVE  OwnerInv'
<1> USE DEF SafeInv, OwnerInv
<1>1. m_state[w] = "get" /\ m_connection[w] = dud_value
  BY DEF GetTask, WorkerAt, TypeOK, WorkerPoints
<1>2. UNCHANGED <<file, conn, entry, temp_fd>>
  BY <1>1, CloseDud DEF GetTask, kernelVars, entryVars
<1>3. NextTask.poisoned => NextTask.fd = dud_value
  BY GetTaskQueue DEF Dud
<1>4. /\ \A v \in Workers : v # w => m_connection'[v] = m_connection[v]
      /\ m_connection'[w] = NextTask.fd
      /\ \A v \in Workers : v # w => m_state'[v] = m_state[v]
      /\ m_state'[w] \notin {"request", "reply", "reset"} => m_connection'[w] = dud_value
  BY <1>1, <1>3 DEF GetTask, WorkerAt, TypeOK, Dud
<1>5. CASE m_items = <<>>
  <2>1. m_items' = m_items /\ NextTask.fd = dud_value
    BY <1>5, GetTaskQueue DEF Dud
  <2>2. m_connection' = m_connection
    BY <1>1, <1>4, <2>1 DEF TypeOK, GetTask
  <2> QED
    BY <1>1, <1>2, <1>4, <2>1, <2>2, SameHolders DEF EntryHolds
<1>6. CASE m_items # <<>>
  <2>1. /\ DOMAIN m_items = 1..Len(m_items) /\ Len(m_items) \in Nat /\ Len(m_items) > 0
        /\ NextTask = m_items[1]
        /\ DOMAIN m_items' = 1..Len(m_items) - 1
        /\ \A i \in DOMAIN m_items' : m_items'[i] = m_items[i + 1]
    BY <1>6, GetTaskQueue
  <2>2. \A fd \in Fds : /\ EntryHolds(fd)' <=> EntryHolds(fd)
                        /\ ~WorkerHolds(w, fd)
                        /\ WorkerHolds(w, fd)' <=> TaskHolds(1, fd)
    BY <1>1, <1>2, <1>4, <2>1, DudNotFd DEF EntryHolds, WorkerHolds, TaskHolds
  <2>3. \A fd \in Fds, v \in Workers \ {w} : WorkerHolds(v, fd)' <=> WorkerHolds(v, fd)
    BY <1>4 DEF WorkerHolds
  <2>4. \A fd \in Fds, i \in DOMAIN m_items' :
           i + 1 \in DOMAIN m_items /\ (TaskHolds(i, fd)' <=> TaskHolds(i + 1, fd))
    BY <2>1 DEF TaskHolds
  <2>5. \A i \in DOMAIN m_items : i # 1 => i - 1 \in DOMAIN m_items' /\ (i - 1) + 1 = i
    BY <2>1
  <2>6. \A i, j \in DOMAIN m_items' : i + 1 = j + 1 => i = j
    BY <2>1
  <2>7. \A i \in DOMAIN m_items' : i + 1 # 1
    BY <2>1
  <2>8. \A fd \in Fds :
           (\E i \in DOMAIN m_items : TaskHolds(i, fd))
             <=> TaskHolds(1, fd) \/ \E i \in DOMAIN m_items' : TaskHolds(i, fd)'
    BY <2>1, <2>4, <2>5
  <2>9. HeldOnce'
    <3> SUFFICES ASSUME NEW fd \in Fds
                 PROVE  /\ \A i \in DOMAIN m_items' : TaskHolds(i, fd)' =>
                             /\ ~EntryHolds(fd)'
                             /\ \A j \in DOMAIN m_items' : TaskHolds(j, fd)' => i = j
                             /\ \A v \in Workers : ~WorkerHolds(v, fd)'
                        /\ \A v \in Workers : WorkerHolds(v, fd)' =>
                             /\ ~EntryHolds(fd)'
                             /\ \A u \in Workers : WorkerHolds(u, fd)' => u = v
      BY DEF HeldOnce
    <3>1. ASSUME NEW i \in DOMAIN m_items', TaskHolds(i, fd)'
          PROVE  /\ ~EntryHolds(fd)'
                 /\ \A j \in DOMAIN m_items' : TaskHolds(j, fd)' => i = j
                 /\ \A v \in Workers : ~WorkerHolds(v, fd)'
      <4>1. i + 1 \in DOMAIN m_items /\ TaskHolds(i + 1, fd) /\ 1 \in DOMAIN m_items
        BY <2>1, <2>4, <3>1
      <4>2. ~TaskHolds(1, fd)
        BY <2>7, <4>1 DEF HeldOnce
      <4> QED
        BY <2>2, <2>3, <2>4, <2>6, <4>1, <4>2 DEF HeldOnce
    <3>2. ASSUME NEW v \in Workers, WorkerHolds(v, fd)'
          PROVE  /\ ~EntryHolds(fd)'
                 /\ \A u \in Workers : WorkerHolds(u, fd)' => u = v
      <4>1. 1 \in DOMAIN m_items
        BY <2>1
      <4> QED
        BY <2>2, <2>3, <3>2, <4>1 DEF HeldOnce
    <3> QED
      BY <3>1, <3>2
  <2>10. \A fd \in Fds : Held(fd)' <=> Held(fd)
    BY <2>2, <2>3, <2>8 DEF Held
  <2>11. HeldIffOpen'
    BY <1>2, <2>10 DEF HeldIffOpen
  <2>12. \A i \in DOMAIN m_items' : m_items'[i].poisoned => m_items'[i].fd = dud_value
    BY <2>1, <2>4
  <2> QED
    BY <1>2, <1>4, <2>9, <2>11, <2>12
<1> QED
  BY <1>5, <1>6

(* A worker closes its own descriptor and lets go of it. *)
LEMMA ResetOwner ==
  ASSUME SafeInv, NEW w \in Workers, Reset(w)
  PROVE  OwnerInv'
<1> USE DEF SafeInv, OwnerInv
<1>1. /\ UNCHANGED <<entry, temp_fd, m_items>>
      /\ m_connection' = [m_connection EXCEPT ![w] = dud_value]
      /\ m_state' = [m_state EXCEPT ![w] = "take_task"]
      /\ Close(m_connection[w])
  BY DEF Reset, WorkerAt, entryVars
<1>2. CASE m_connection[w] = dud_value
  <2>1. UNCHANGED <<file, conn, m_connection>>
    BY <1>1, <1>2, CloseDud DEF kernelVars, TypeOK
  <2> QED
    BY <1>1, <1>2, <2>1, SameHolders DEF EntryHolds, TypeOK
<1>3. CASE m_connection[w] \in Fds
  <2>1. PICK fd \in Fds : fd = m_connection[w]
    BY <1>3
  <2>2. PICK c \in Conns : file[fd] = c
    BY <1>3, <2>1, WorkerFdIsConnection
  <2>3. \A d \in Fds : file'[d] = IF d = fd THEN "closed" ELSE file[d]
    BY <1>1, <2>1 DEF Close
  <2>4. \A e \in Conns : conn'[e] = IF e = c THEN "closed" ELSE conn[e]
    BY <1>1, <2>1, <2>2 DEF Close
  <2>5. \A d \in Fds, v \in Workers :
           /\ v # w => (WorkerHolds(v, d)' <=> WorkerHolds(v, d))
           /\ ~WorkerHolds(w, d)'
           /\ WorkerHolds(w, d) <=> d = fd
    BY <1>1, <2>1, DudNotFd DEF WorkerHolds, TypeOK
  <2>6. \A d \in Fds : /\ EntryHolds(d)' <=> EntryHolds(d)
                       /\ \A i \in DOMAIN m_items : TaskHolds(i, d)' <=> TaskHolds(i, d)
    BY <1>1 DEF EntryHolds, TaskHolds
  <2>7. HeldOnce'
    BY <1>1, <2>5, <2>6 DEF HeldOnce
  <2>8. \A d \in Fds : Held(d)' <=> Held(d) /\ d # fd
    BY <1>1, <2>5, <2>6 DEF Held, HeldOnce
  <2>9. HeldIffOpen'
    <3>1. \A d \in Fds : Held(d)' <=> file'[d] \in Conns
      BY <2>3, <2>8, ConnsAssumption DEF HeldIffOpen
    <3>2. \A e \in Conns : conn'[e] = "accepted" <=> \E d \in Fds : file'[d] = e
      BY <2>2, <2>3, <2>4, ConnsAssumption DEF HeldIffOpen
    <3>3. \A fd1, fd2 \in Fds : file'[fd1] = file'[fd2] /\ file'[fd1] \in Conns => fd1 = fd2
      BY <2>3, ConnsAssumption DEF HeldIffOpen
    <3> QED
      BY <3>1, <3>2, <3>3 DEF HeldIffOpen
  <2> QED
    BY <1>1, <2>7, <2>9 DEF TypeOK
<1> QED
  BY <1>2, <1>3 DEF TypeOK

LEMMA EntryStepOwner ==
  ASSUME SafeInv, EntryStep \/ AcceptWoken
  PROVE  OwnerInv'
<1> USE DEF SafeInv, TypeOK, EntryAt
<1>1. CASE TestFlag \/ ReadReady \/ LoadFd \/ CallAccept \/ NotifyOne \/ NotifyAll
  <2>1. /\ UNCHANGED <<file, conn, m_items, m_connection>>
        /\ entry \notin {"add", "adding"} /\ entry' \notin {"add", "adding"}
    BY <1>1 DEF TestFlag, ReadReady, LoadFd, CallAccept, NotifyOne, NotifyAll,
                kernelVars, workerVars
  <2>2. \A w \in Workers : m_state'[w] = m_state[w] \/ m_state[w] = "waiting"
    BY <1>1 DEF TestFlag, ReadReady, LoadFd, CallAccept, NotifyOne, NotifyAll, Wake,
                Waiting, workerVars
  <2> QED
    BY <2>1, <2>2, SameHolders DEF EntryHolds
<1>2. CASE LockQueue
  <2>1. /\ UNCHANGED <<file, conn, temp_fd, m_items, m_connection, m_state>>
        /\ entry' \in {"add", "adding"} <=> entry \in {"add", "adding"}
    BY <1>2 DEF LockQueue, kernelVars, workerVars
  <2>2. \A fd \in Fds : EntryHolds(fd)' <=> EntryHolds(fd)
    BY <2>1 DEF EntryHolds
  <2>3. entry' \in {"add", "adding"} => temp_fd' \in Fds
    BY <2>1 DEF OwnerInv
  <2> QED
    BY <2>1, <2>2, <2>3, SameHolders
<1>3. ASSUME NEW cs \in [Conns -> {"idle", "pending", "accepted", "closed", "reset"}],
             \A c \in Conns : cs[c] = "accepted" <=> conn[c] = "accepted",
             AcceptFails(cs)
      PROVE  OwnerInv'
  <2>1. /\ UNCHANGED <<file, m_items, m_connection, m_state>>
        /\ entry \notin {"add", "adding"} /\ entry' \notin {"add", "adding"}
        /\ \A c \in Conns : conn'[c] = "accepted" <=> conn[c] = "accepted"
    BY <1>3 DEF AcceptFails, Backlog, workerVars
  <2> QED
    BY <2>1, SameHolders DEF EntryHolds
<1>4. CASE AcceptTimeout \/ AcceptNoDescriptor \/ AcceptWoken
  BY <1>3, <1>4 DEF AcceptTimeout, AcceptNoDescriptor, AcceptWoken
<1>5. ASSUME NEW c \in Conns, AcceptAborted(c)
      PROVE  OwnerInv'
  <2> DEFINE cs == [conn EXCEPT ![c] = "reset"]
  <2>1. conn[c] = "pending" /\ AcceptFails(cs)
    BY <1>5 DEF AcceptAborted, Pending
  <2>2. /\ cs \in [Conns -> {"idle", "pending", "accepted", "closed", "reset"}]
        /\ \A d \in Conns : cs[d] = "accepted" <=> conn[d] = "accepted"
    BY <2>1
  <2> HIDE DEF cs
  <2> QED
    BY <1>3, <2>1, <2>2
<1> QED
  BY <1>1, <1>2, <1>4, <1>5, AcceptOwner, PushTaskOwner, PushPillsOwner DEF EntryStep

LEMMA WorkerStepOwner ==
  ASSUME SafeInv, NEW w \in Workers, WorkerStep(w) \/ SpuriousWake(w)
  PROVE  OwnerInv'
<1> DEFINE serving == {"request", "reply", "reset"}
<1>1. CASE LockCv(w) \/ CheckCount(w) \/ Block(w) \/ WaitExpires(w) \/ SpuriousWake(w)
           \/ ReadRequest(w) \/ ReplyKeepAlive(w) \/ ExchangeEnds(w)
  <2>1. UNCHANGED <<file, conn, entry, temp_fd, m_items, m_connection>>
    BY <1>1 DEF LockCv, CheckCount, Block, WaitExpires, SpuriousWake, ReadRequest,
                ReplyKeepAlive, ExchangeEnds, Exchange, kernelVars, entryVars
  <2>2. \A v \in Workers : m_state'[v] \notin serving => m_state[v] \notin serving
    BY <1>1 DEF LockCv, CheckCount, Block, WaitExpires, SpuriousWake, ReadRequest,
                ReplyKeepAlive, ExchangeEnds, Exchange, WorkerAt, SafeInv, TypeOK
  <2>3. entry' \in {"add", "adding"} => temp_fd' \in Fds
    BY <2>1 DEF SafeInv, OwnerInv
  <2> QED
    BY <2>1, <2>2, <2>3, SameHolders DEF SafeInv, EntryHolds
<1> QED
  BY <1>1, GetTaskOwner, ResetOwner DEF WorkerStep

LEMMA OtherStepOwner ==
  ASSUME SafeInv,
         ReadChoice \/ ShutdownStep \/ (\E c \in Conns : Connect(c)) \/ Return
  PROVE  OwnerInv'
<1>1. UNCHANGED <<entry, temp_fd, m_items, m_connection, m_state>>
  BY DEF ReadChoice, ShutdownStep, ClearFlag, CloseListener, DropFd, DropReady, Connect,
         Return, kernelVars, entryVars, workerVars
<1>2. \A c \in Conns : conn'[c] = "accepted" <=> conn[c] = "accepted"
  BY DEF ReadChoice, ShutdownStep, ClearFlag, CloseListener, DropFd, DropReady, Connect,
         Return, Backlog, kernelVars, SafeInv, TypeOK
<1>3. \A fd \in Fds : file'[fd] \in Conns \/ file[fd] \in Conns => file'[fd] = file[fd]
  <2>1. CASE CloseListener
    BY <2>1, ConnsAssumption
       DEF CloseListener, CloseEntry, UserAt, SafeInv, TypeOK, ListenerInv
  <2>2. CASE Return
    BY <2>2, DudNotFd DEF Return, CloseEntry, SafeInv, TypeOK, ListenerInv
  <2> QED
    BY <2>1, <2>2 DEF ReadChoice, ShutdownStep, ClearFlag, DropFd, DropReady, Connect,
                      kernelVars
<1>4. entry' \in {"add", "adding"} => temp_fd' \in Fds
  BY <1>1 DEF SafeInv, OwnerInv
<1> QED
  BY <1>1, <1>2, <1>3, <1>4, SameHolders DEF SafeInv, EntryHolds

LEMMA SafeInvInductive == Spec => []SafeInv
<1>1. Init => SafeInv
  <2> SUFFICES ASSUME Init
               PROVE  ListenerInv /\ OwnerInv
    BY InitType DEF SafeInv
  <2>1. ListenerInv
    BY FdsAssumption DEF Init, ListenerInv
  <2>2. \A fd \in Fds : ~Held(fd) /\ file[fd] \notin Conns
    BY DudNotFd, ConnsAssumption DEF Init, Held, EntryHolds, TaskHolds, WorkerHolds
  <2>3. HeldOnce
    BY <2>2 DEF HeldOnce, Held
  <2>4. HeldIffOpen
    BY <2>2 DEF HeldIffOpen, Init
  <2> QED
    BY <2>1, <2>3, <2>4 DEF Init, OwnerInv
<1>2. SafeInv /\ [Next]_vars => SafeInv'
  <2> SUFFICES ASSUME SafeInv, [Next]_vars
               PROVE  ListenerInv' /\ OwnerInv'
    BY NextType DEF SafeInv
  <2>1. CASE UNCHANGED vars \/ Terminated
    <3>1. UNCHANGED vars
      BY <2>1 DEF Terminated
    <3>2. ListenerInv'
      BY <3>1 DEF SafeInv, ListenerInv, vars, kernelVars, socketVars, entryVars
    <3>3. OwnerInv'
      BY <3>1 DEF SafeInv, OwnerInv, HeldOnce, HeldIffOpen, Held, EntryHolds, TaskHolds,
                  WorkerHolds, vars, kernelVars, entryVars, workerVars
    <3> QED
      BY <3>2, <3>3
  <2> QED
    BY <2>1, EntryStepListener, WorkerStepListener, OtherStepListener,
       EntryStepOwner, WorkerStepOwner, OtherStepOwner DEF Next
<1> QED
  BY <1>1, <1>2, PTL DEF Spec

(* OneOwner holds of the driver. *)
THEOREM OneOwnerCorrect == Spec => []OneOwner
<1>1. SafeInv => OneOwner
  BY DEF SafeInv, OwnerInv, OneOwner
<1> QED
  BY <1>1, SafeInvInductive, PTL

(* ListenerNotConfused holds of the driver. *)
THEOREM ListenerNotConfusedCorrect == Spec => []ListenerNotConfused
<1>1. SafeInv => ListenerNotConfused
  BY DudNotFd DEF SafeInv, ListenerInv, ListenerNotConfused
<1> QED
  BY <1>1, SafeInvInductive, PTL

-----------------------------------------------------------------------------
(* One pill for each worker that has not halted. *)

LEMMA PillsFinite ==
  ASSUME NEW q \in Seq(Task)
  PROVE  IsFiniteSet({i \in DOMAIN q : q[i].poisoned})
<1>1. DOMAIN q = 1..Len(q) /\ Len(q) \in Nat
  OBVIOUS
<1>2. IsFiniteSet(1..Len(q))
  BY <1>1, FS_Interval
<1> QED
  BY <1>1, <1>2, FS_Subset

LEMMA RunningFinite == IsFiniteSet(Running)
  BY WorkersAssumption, FS_Subset DEF Running

(* A queue that loses its first task has the pills behind it left. *)
LEMMA TakePills ==
  ASSUME TypeOK, TypeOK', NEW w \in Workers, GetTask(w), m_items # <<>>
  PROVE  Cardinality(Pills') = IF NextTask.poisoned THEN Cardinality(Pills) - 1
                                                    ELSE Cardinality(Pills)
<1> DEFINE shift == [i \in Pills' |-> i + 1]
<1>1. /\ DOMAIN m_items = 1..Len(m_items) /\ Len(m_items) \in Nat /\ Len(m_items) > 0
      /\ NextTask = m_items[1]
      /\ DOMAIN m_items' = 1..Len(m_items) - 1
      /\ \A i \in DOMAIN m_items' : m_items'[i] = m_items[i + 1]
  BY GetTaskQueue
<1>2. \A i : i \in Pills' <=> i \in 1..Len(m_items) - 1 /\ m_items[i + 1].poisoned
  BY <1>1 DEF Pills
<1>3. \A i : i \in Pills \ {1} <=> i \in 2..Len(m_items) /\ m_items[i].poisoned
  BY <1>1 DEF Pills
<1>4. shift \in Bijection(Pills', Pills \ {1})
  <2>1. \A i \in Pills' : i \in Int /\ i + 1 \in Pills \ {1}
    BY <1>1, <1>2, <1>3
  <2>2. \A i, j \in Pills' : i + 1 = j + 1 => i = j
    BY <2>1
  <2>3. \A j \in Pills \ {1} : j - 1 \in Pills' /\ (j - 1) + 1 = j
    BY <1>1, <1>2, <1>3
  <2> QED
    BY <2>1, <2>2, <2>3, Fun_IsBij, Zenon
<1>5. Cardinality(Pills \ {1}) = Cardinality(Pills')
  <2>1. IsFiniteSet(Pills')
    BY PillsFinite DEF TypeOK, Pills
  <2>2. ExistsBijection(Pills', Pills \ {1})
    BY <1>4, Fun_ExistsBij
  <2> QED
    BY <2>1, <2>2, FS_Bijection
<1>6. 1 \in Pills <=> NextTask.poisoned
  BY <1>1 DEF Pills
<1>7. IsFiniteSet(Pills)
  BY PillsFinite DEF TypeOK, Pills
<1> QED
  BY <1>5, <1>6, <1>7, FS_RemoveElement

(* Only a pill makes a worker halt. *)
LEMMA HaltSteps ==
  ASSUME TypeOK, [Next]_vars
  PROVE  Running' = Running \/ \E w \in Workers : GetTask(w)
<1> USE DEF kernelVars, socketVars, entryVars, workerVars, vars, Running
<1>1. CASE EntryStep \/ AcceptWoken
  BY <1>1 DEF EntryStep, AcceptWoken, TestFlag, ReadReady, LoadFd, CallAccept,
              AcceptReturns, AcceptAborted, AcceptTimeout, AcceptNoDescriptor,
              AcceptFails, LockQueue, PushTask, PushPills, NotifyOne, NotifyAll, Wake,
              Waiting
<1>2. ASSUME NEW w \in Workers, WorkerStep(w) \/ SpuriousWake(w)
      PROVE  Running' = Running \/ GetTask(w)
  <2>1. CASE \E from \in SUBSET (WorkerPoints \ {"halt"}), to \in WorkerPoints \ {"halt"} :
               WorkerAt(w, from, to)
    BY <2>1 DEF WorkerAt, TypeOK
  <2> QED
    BY <1>2, <2>1 DEF WorkerStep, SpuriousWake, LockCv, CheckCount, Block, WaitExpires,
                      ReadRequest, ReplyKeepAlive, ExchangeEnds, Exchange, Reset,
                      WorkerPoints
<1>3. CASE ReadChoice \/ ShutdownStep \/ Return \/ Terminated \/ UNCHANGED vars
  BY <1>3 DEF ReadChoice, ShutdownStep, ClearFlag, CloseListener, DropFd, DropReady,
              Return, Terminated
<1>4. CASE \E c \in Conns : Connect(c)
  BY <1>4 DEF Connect
<1> QED
  BY <1>1, <1>2, <1>3, <1>4 DEF Next

(* PillsCoverWorkers holds of the driver. *)
THEOREM PillsCoverWorkersCorrect == Spec => []PillsCoverWorkers
<1>1. Init => PillsCoverWorkers
  BY DEF Init, PillsCoverWorkers, Pills, Running
<1>2. TypeOK /\ TypeOK' /\ PillsCoverWorkers /\ [Next]_vars => PillsCoverWorkers'
  <2> SUFFICES ASSUME TypeOK, TypeOK', PillsCoverWorkers, [Next]_vars
               PROVE  PillsCoverWorkers'
    OBVIOUS
  <2> USE DEF PillsCoverWorkers
  <2>1. CASE PushTask
    <3>1. Pills' = {i \in DOMAIN m_items : m_items[i].poisoned}
      BY <2>1, PushTaskQueue DEF Pills
    <3>2. Running' = Running
      BY <2>1 DEF PushTask, workerVars, Running
    <3> QED
      BY <2>1, <3>1, <3>2 DEF PushTask, EntryAt, Pills
  <2>2. CASE PushPills
    <3> DEFINE n == Len(m_items)
               k == Cardinality(Workers)
    <3>1. Pills = {} /\ Running = Workers /\ Running' = Running /\ entry' = "notify_all"
      BY <2>2 DEF PushPills, EntryAt, workerVars, Running
    <3>2. n \in Nat /\ k \in Nat
      BY PillsType DEF TypeOK
    <3>3. Pills' = n + 1 .. n + k
      <4>1. DOMAIN m_items = 1..n /\ DOMAIN m_items' = 1..n + k
        BY <2>2, PushPillsQueue
      <4>2. \A i \in 1..n : ~m_items'[i].poisoned
        BY <2>2, <3>1, <4>1, PushPillsQueue DEF Pills
      <4>3. \A i \in n + 1 .. n + k : m_items'[i].poisoned
        BY <2>2, PushPillsQueue DEF Pill
      <4>4. 1..n + k = (1..n) \cup (n + 1 .. n + k)
        BY <3>2
      <4> HIDE DEF n, k
      <4> QED
        BY <4>1, <4>2, <4>3, <4>4 DEF Pills
    <3>4. Cardinality(n + 1 .. n + k) = k
      BY <3>2, FS_Interval
    <3> QED
      BY <3>1, <3>3, <3>4
  <2>3. ASSUME NEW w \in Workers, GetTask(w)
        PROVE  PillsCoverWorkers'
    <3>1. entry' = entry
      BY <2>3 DEF GetTask, entryVars
    <3>2. CASE m_items = <<>>
      <4>1. Pills' = Pills
        BY <2>3, <3>2, GetTaskQueue DEF Pills
      <4>2. Running' = Running
        BY <2>3, <3>2, GetTaskQueue DEF GetTask, WorkerAt, Running, Dud, TypeOK
      <4> QED
        BY <3>1, <4>1, <4>2
    <3>3. CASE m_items # <<>> /\ NextTask.poisoned
      <4>1. 1 \in Pills /\ entry \in {"notify_all", "done"}
        BY <2>3, <3>3, GetTaskQueue DEF Pills
      <4>2. Running' = Running \ {w} /\ w \in Running
        BY <2>3, <3>3 DEF GetTask, WorkerAt, Running, Dud, TypeOK
      <4>3. Cardinality(Running') = Cardinality(Running) - 1
        BY <4>2, RunningFinite, FS_RemoveElement
      <4>4. Cardinality(Pills') = Cardinality(Pills) - 1
        BY <2>3, <3>3, TakePills
      <4> QED
        BY <3>1, <4>1, <4>3, <4>4
    <3>4. CASE m_items # <<>> /\ ~NextTask.poisoned
      <4>1. Running' = Running
        BY <2>3, <3>4 DEF GetTask, WorkerAt, Running, TypeOK
      <4>2. Cardinality(Pills') = Cardinality(Pills)
        BY <2>3, <3>4, TakePills
      <4>3. Pills = {} => Pills' = {}
        BY <2>3, <3>4, GetTaskQueue DEF Pills
      <4> QED
        BY <3>1, <4>1, <4>2, <4>3
    <3> QED
      BY <3>2, <3>3, <3>4
  <2>4. CASE /\ UNCHANGED m_items
             /\ \/ entry' = entry
                \/ entry = "notify_all" /\ entry' = "done"
                \/ entry \notin {"notify_all", "done"} /\ entry' \notin {"notify_all", "done"}
    <3>1. CASE \E w \in Workers : GetTask(w)
      BY <2>3, <3>1
    <3>2. CASE Running' = Running
      BY <2>4, <3>2 DEF Pills
    <3> QED
      BY <3>1, <3>2, HaltSteps
  <2> QED
    BY <2>1, <2>2, <2>3, <2>4, QueueSteps
<1> QED
  BY <1>1, <1>2, TypeCorrect, PTL DEF Spec

-----------------------------------------------------------------------------
(* The threads implement ConnectionService. *)

(* What the refinement needs besides SafeInv and PillsCoverWorkers.        *)
(* Once the listener is closed and nobody is inside accept(), no           *)
(* connection waits in its backlog; once the queue is poisoned, what is    *)
(* left of it ends with a pill; and runService returns after the joins.    *)
BacklogInv ==
  /\ ListenerOpen <=> user \in {"ask", "clear", "close"}
  /\ ~ListenerOpen /\ entry # "blocked" => Pending = {}

QueueEndsInv ==
  entry \in {"notify_all", "done"} /\ m_items # <<>> =>
    m_items[Len(m_items)].poisoned

ReturnInv == returned => entry = "done" /\ user = "done"

ServiceInv == BacklogInv /\ QueueEndsInv /\ ReturnInv

-----------------------------------------------------------------------------
(* The invariant, conjunct by conjunct. *)

(* No step opens a listener; closing a connection leaves the listener be.  *)
LEMMA ListenerOpenSteps ==
  ASSUME SafeInv, [Next]_vars
  PROVE  ListenerOpen' = ListenerOpen \/ CloseListener
<1> USE FdsAssumption, ConnsAssumption, DudNotFd
    DEF ListenerOpen, kernelVars, socketVars, entryVars, workerVars, vars
<1>1. CASE EntryStep \/ AcceptWoken
  <2>1. ASSUME NEW c \in Conns, AcceptReturns(c)
        PROVE  ListenerOpen' = ListenerOpen
    BY <2>1 DEF AcceptReturns, FreeFds, SafeInv, TypeOK
  <2> QED
    BY <1>1, <2>1 DEF EntryStep, AcceptWoken, TestFlag, ReadReady, LoadFd, CallAccept,
                      AcceptAborted, AcceptTimeout, AcceptNoDescriptor, AcceptFails,
                      LockQueue, PushTask, PushPills, NotifyOne, NotifyAll
<1>2. ASSUME NEW w \in Workers, WorkerStep(w) \/ SpuriousWake(w)
      PROVE  ListenerOpen' = ListenerOpen
  <2>1. CASE Close(m_connection[w])
    BY <2>1, WorkerFdIsConnection DEF Close, SafeInv, TypeOK
  <2> QED
    BY <1>2, <2>1 DEF WorkerStep, SpuriousWake, LockCv, CheckCount, Block, WaitExpires,
                      GetTask, ReadRequest, ReplyKeepAlive, ExchangeEnds, Exchange, Reset
<1>3. CASE ReadChoice \/ ClearFlag \/ DropFd \/ DropReady \/ Terminated \/ UNCHANGED vars
  BY <1>3 DEF ReadChoice, ClearFlag, DropFd, DropReady, Terminated
<1>4. CASE Return
  BY <1>4 DEF Return, CloseEntry, SafeInv, ListenerInv, TypeOK
<1>5. CASE \E c \in Conns : Connect(c)
  BY <1>5 DEF Connect
<1> QED
  BY <1>1, <1>2, <1>3, <1>4, <1>5 DEF Next, ShutdownStep

LEMMA UserSteps ==
  ASSUME [Next]_vars
  PROVE  UNCHANGED user \/ ReadChoice \/ ShutdownStep
  BY DEF Next, EntryStep, AcceptWoken, TestFlag, ReadReady, LoadFd, CallAccept,
         AcceptReturns, AcceptAborted, AcceptTimeout, AcceptNoDescriptor, AcceptFails,
         LockQueue, PushTask, PushPills, NotifyOne, NotifyAll, WorkerStep, SpuriousWake,
         LockCv, CheckCount, Block, WaitExpires, GetTask, ReadRequest, ReplyKeepAlive,
         ExchangeEnds, Exchange, Reset, Return, Terminated, Connect, vars

(* Connections wait only while the listener or an accept() call lives.     *)
LEMMA BacklogStep ==
  ASSUME SafeInv, BacklogInv, [Next]_vars
  PROVE  BacklogInv'
<1> USE DEF BacklogInv, SafeInv, TypeOK, EntryAt, UserAt
<1>1. (ListenerOpen <=> user \in {"ask", "clear", "close"})'
  <2>1. CASE CloseListener
    BY <2>1, FdsAssumption
       DEF CloseListener, CloseEntry, ListenerOpen, ListenerInv
  <2>2. CASE ListenerOpen' = ListenerOpen /\ ~CloseListener
    BY <2>2, UserSteps DEF ReadChoice, ShutdownStep, ClearFlag, DropFd, DropReady
  <2> QED
    BY <2>1, <2>2, ListenerOpenSteps
<1>2. (~ListenerOpen /\ entry # "blocked" => Pending = {})'
  <2>1. CASE CloseListener
    BY <2>1 DEF CloseListener, Backlog, Pending, entryVars
  <2> SUFFICES ASSUME ListenerOpen' = ListenerOpen, ~ListenerOpen, entry' # "blocked",
                      ~CloseListener
               PROVE  Pending' = {}
    BY <2>1, ListenerOpenSteps
  <2>2. ASSUME NEW cs, AcceptFails(cs)
        PROVE  Pending' = {}
    BY <2>2 DEF AcceptFails, Backlog, Pending
  <2>3. ASSUME NEW c \in Conns, AcceptReturns(c)
        PROVE  Pending' = {}
    BY <2>3 DEF AcceptReturns, Backlog, Pending
  <2>4. CASE \E w \in Workers : Close(m_connection[w]) /\ UNCHANGED entryVars
    BY <2>4 DEF Close, Pending, entryVars
  <2>5. CASE UNCHANGED conn /\ (entry = "blocked" => entry' = "blocked")
    BY <2>5 DEF Pending
  <2>6. CASE EntryStep \/ AcceptWoken
    BY <2>2, <2>3, <2>5, <2>6
       DEF EntryStep, AcceptWoken, TestFlag, ReadReady, LoadFd, CallAccept,
           AcceptAborted, AcceptTimeout, AcceptNoDescriptor, LockQueue, PushTask,
           PushPills, NotifyOne, NotifyAll, kernelVars
  <2>7. ASSUME NEW w \in Workers, WorkerStep(w) \/ SpuriousWake(w)
        PROVE  Pending' = {}
    BY <2>4, <2>5, <2>7
       DEF WorkerStep, SpuriousWake, LockCv, CheckCount, Block, WaitExpires, GetTask,
           ReadRequest, ReplyKeepAlive, ExchangeEnds, Exchange, Reset, kernelVars,
           entryVars
  <2>8. CASE ReadChoice \/ ShutdownStep \/ Return \/ Terminated \/ UNCHANGED vars
    BY <2>5, <2>8 DEF ReadChoice, ShutdownStep, ClearFlag, DropFd, DropReady, Return,
                      Terminated, kernelVars, entryVars, vars
  <2>9. ASSUME NEW c \in Conns, Connect(c)
        PROVE  Pending' = {}
    BY <2>9 DEF Connect, entryVars
  <2> QED
    BY <2>6, <2>7, <2>8, <2>9 DEF Next
<1> QED
  BY <1>1, <1>2

LEMMA QueueEndsStep ==
  ASSUME TypeOK, QueueEndsInv, [Next]_vars
  PROVE  QueueEndsInv'
<1> USE DEF QueueEndsInv
<1>1. CASE PushTask
  BY <1>1 DEF PushTask, EntryAt
<1>2. CASE PushPills
  <2> DEFINE n == Len(m_items)
             k == Cardinality(Workers)
  <2>1. k \in Nat \ {0} /\ n \in Nat
    BY WorkersAssumption, PillsType, FS_EmptySet DEF TypeOK
  <2>2. m_items' \in Seq(Task)
    BY <1>2, PillsType, ConcatProperties DEF PushPills, TypeOK
  <2>3. Len(m_items') = n + k
    BY <1>2, <2>1, <2>2, PushPillsQueue
  <2>4. m_items'[n + k] = Pill
    BY <1>2, <2>1, PushPillsQueue
  <2> QED
    BY <2>3, <2>4 DEF Pill
<1>3. ASSUME NEW w \in Workers, GetTask(w)
      PROVE  QueueEndsInv'
  <2>1. entry' = entry
    BY <1>3 DEF GetTask, entryVars
  <2>2. CASE m_items = <<>>
    BY <1>3, <2>2, GetTaskQueue
  <2>3. CASE m_items # <<>> /\ entry \in {"notify_all", "done"} /\ m_items' # <<>>
    <3>1. m_items' = Tail(m_items) /\ m_items \in Seq(Task)
      BY <1>3, <2>3 DEF GetTask, TypeOK
    <3>2. Len(m_items') = Len(m_items) - 1 /\ Len(m_items') \in Nat \ {0}
      BY <2>3, <3>1
    <3>3. m_items'[Len(m_items')] = m_items[Len(m_items)]
      BY <2>3, <3>1, <3>2
    <3> QED
      BY <2>3, <3>3
  <2> QED
    BY <2>1, <2>2, <2>3
<1>4. CASE UNCHANGED m_items /\ entry' = entry
  BY <1>4
<1>5. CASE UNCHANGED m_items /\ entry = "notify_all" /\ entry' = "done"
  BY <1>5
<1>6. CASE entry' \notin {"notify_all", "done"}
  BY <1>6
<1> QED
  BY <1>1, <1>2, <1>3, <1>4, <1>5, <1>6, QueueSteps

LEMMA ReturnStep ==
  ASSUME ReturnInv, [Next]_vars
  PROVE  ReturnInv'
<1> USE DEF ReturnInv, EntryAt, UserAt, kernelVars, socketVars, entryVars, workerVars, vars
<1>1. CASE EntryStep \/ AcceptWoken
  BY <1>1 DEF EntryStep, AcceptWoken, TestFlag, ReadReady, LoadFd, CallAccept,
              AcceptReturns, AcceptAborted, AcceptTimeout, AcceptNoDescriptor,
              AcceptFails, LockQueue, PushTask, PushPills, NotifyOne, NotifyAll
<1>2. ASSUME NEW w \in Workers, WorkerStep(w) \/ SpuriousWake(w)
      PROVE  ReturnInv'
  BY <1>2 DEF WorkerStep, SpuriousWake, LockCv, CheckCount, Block, WaitExpires, GetTask,
              ReadRequest, ReplyKeepAlive, ExchangeEnds, Exchange, Reset
<1>3. CASE ReadChoice \/ ShutdownStep \/ Return \/ Terminated \/ UNCHANGED vars
  BY <1>3 DEF ReadChoice, ShutdownStep, ClearFlag, CloseListener, DropFd, DropReady,
              Return, Terminated
<1>4. CASE \E c \in Conns : Connect(c)
  BY <1>4 DEF Connect
<1> QED
  BY <1>1, <1>2, <1>3, <1>4 DEF Next

LEMMA ServiceInvInductive == Spec => []ServiceInv
<1>1. Init => ServiceInv
  BY FdsAssumption
     DEF Init, ServiceInv, BacklogInv, QueueEndsInv, ReturnInv, ListenerOpen
<1>2. SafeInv /\ ServiceInv /\ [Next]_vars => ServiceInv'
  BY BacklogStep, QueueEndsStep, ReturnStep DEF ServiceInv, SafeInv
<1> QED
  BY <1>1, <1>2, SafeInvInductive, PTL DEF Spec
-----------------------------------------------------------------------------
(* The refinement, a case for each way a step can look to the service.     *)

LEMMA ServiceStutters ==
  ASSUME UNCHANGED <<conn, returned, continue_flag>>,
         MayStillAccept' = MayStillAccept
  PROVE  UNCHANGED Service!vars
  BY DEF Service!vars

(* Backlog() loses connections that nobody admitted, or none. *)
LEMMA BacklogLoses ==
  ASSUME NEW alive, NEW cs,
         cs \in [Conns -> {"idle", "pending", "accepted", "closed", "reset"}]
  PROVE  \E lost \in SUBSET {c \in Conns : cs[c] = "pending"} :
           /\ alive => lost = {}
           /\ Backlog(cs, alive) =
                [c \in Conns |-> IF c \in lost THEN "reset" ELSE cs[c]]
<1>1. CASE alive
  <2>1. PICK none \in SUBSET {c \in Conns : cs[c] = "pending"} : none = {}
    OBVIOUS
  <2>2. Backlog(cs, alive) = [c \in Conns |-> IF c \in none THEN "reset" ELSE cs[c]]
    BY <1>1, <2>1 DEF Backlog
  <2> QED
    BY <2>1, <2>2
<1>2. CASE ~alive
  <2> DEFINE lost == {c \in Conns : cs[c] = "pending"}
  <2>1. Backlog(cs, alive) = [c \in Conns |-> IF c \in lost THEN "reset" ELSE cs[c]]
    BY <1>2 DEF Backlog
  <2> QED
    BY <1>2, <2>1
<1> QED
  BY <1>1, <1>2

(* The entry thread goes back to test its flag, and the connections it     *)
(* lost on the way were admitted by nobody.                                *)
LEMMA BackToTestLoses ==
  ASSUME TypeOK, UNCHANGED <<returned, continue_flag>>, ~returned,
         entry \in {"ready", "load", "call", "blocked"}, entry' = "test",
         NEW lost \in SUBSET Pending,
         conn' = [c \in Conns |-> IF c \in lost THEN "reset" ELSE conn[c]]
  PROVE  Service!Lose(lost)
  BY DEF Service!Lose, Service!Pending, Pending, MayStillAccept, TypeOK

LEMMA EntryStepRefines ==
  ASSUME SafeInv, ServiceInv, EntryStep \/ AcceptWoken
  PROVE  [Service!Next]_Service!vars
<1> USE DEF EntryAt, kernelVars, socketVars, SafeInv
<1>1. CASE TestFlag \/ LockQueue \/ PushTask \/ PushPills \/ NotifyOne \/ NotifyAll
  BY <1>1, ServiceStutters
     DEF TestFlag, LockQueue, PushTask, PushPills, NotifyOne, NotifyAll, MayStillAccept
<1>2. CASE ReadReady \/ LoadFd \/ CallAccept
  <2>1. UNCHANGED <<conn, returned, continue_flag>>
    BY <1>2 DEF ReadReady, LoadFd, CallAccept
  <2>2. CASE entry' # "test"
    BY <1>2, <2>1, <2>2, ServiceStutters
       DEF ReadReady, LoadFd, CallAccept, MayStillAccept
  <2>3. CASE entry' = "test"
    <3>1. entry \in {"ready", "load", "call", "blocked"}
      BY <1>2 DEF ReadReady, LoadFd, CallAccept
    <3>2. conn' = [c \in Conns |-> IF c \in {} THEN "reset" ELSE conn[c]]
      BY <2>1 DEF TypeOK
    <3>3. ~returned
      BY <3>1 DEF ServiceInv, ReturnInv
    <3>4. Service!Lose({})
      BY <2>1, <2>3, <3>1, <3>2, <3>3, BackToTestLoses
    <3> QED
      BY <3>4 DEF Service!Next
  <2> QED
    BY <2>2, <2>3
<1>3. ASSUME NEW cs, NEW few \in SUBSET Pending,
             cs = [c \in Conns |-> IF c \in few THEN "reset" ELSE conn[c]],
             AcceptFails(cs)
      PROVE  [Service!Next]_Service!vars
  <2>1. cs \in [Conns -> {"idle", "pending", "accepted", "closed", "reset"}]
    BY <1>3 DEF TypeOK
  <2>2. PICK more \in SUBSET {c \in Conns : cs[c] = "pending"} :
          conn' = [c \in Conns |-> IF c \in more THEN "reset" ELSE cs[c]]
    BY <1>3, <2>1, BacklogLoses DEF AcceptFails
  <2>3. few \cup more \in SUBSET Pending
    BY <1>3 DEF Pending
  <2>4. conn' = [c \in Conns |-> IF c \in few \cup more THEN "reset" ELSE conn[c]]
    BY <1>3, <2>2
  <2>5. ~returned /\ UNCHANGED <<returned, continue_flag>>
    BY <1>3 DEF AcceptFails, ServiceInv, ReturnInv
  <2>6. Service!Lose(few \cup more)
    BY <1>3, <2>3, <2>4, <2>5, BackToTestLoses DEF AcceptFails
  <2> QED
    BY <2>3, <2>6 DEF Service!Next, Pending
<1>4. CASE AcceptTimeout \/ AcceptNoDescriptor \/ AcceptWoken
  <2>1. PICK none \in SUBSET Pending : none = {}
    OBVIOUS
  <2>2. conn = [c \in Conns |-> IF c \in none THEN "reset" ELSE conn[c]]
    BY <2>1 DEF TypeOK
  <2>3. AcceptFails(conn)
    BY <1>4 DEF AcceptTimeout, AcceptNoDescriptor, AcceptWoken
  <2> QED
    BY <1>3, <2>2, <2>3
<1>5. ASSUME NEW c \in Conns, AcceptAborted(c)
      PROVE  [Service!Next]_Service!vars
  <2>1. c \in Pending /\ AcceptFails([conn EXCEPT ![c] = "reset"])
    BY <1>5 DEF AcceptAborted
  <2>2. [conn EXCEPT ![c] = "reset"] =
          [d \in Conns |-> IF d \in {c} THEN "reset" ELSE conn[d]]
    BY DEF TypeOK
  <2>3. {c} \in SUBSET Pending
    BY <2>1
  <2> QED
    BY <1>3, <2>1, <2>2, <2>3
<1>6. ASSUME NEW c \in Conns, AcceptReturns(c)
      PROVE  [Service!Next]_Service!vars
  <2> DEFINE cs == [conn EXCEPT ![c] = "accepted"]
  <2>1. /\ c \in Pending /\ entry = "blocked" /\ entry' = "add" /\ ~returned
        /\ conn' = Backlog(cs, ListenerOpen)
        /\ UNCHANGED <<returned, continue_flag>>
    BY <1>6 DEF AcceptReturns, ServiceInv, ReturnInv
  <2>2. /\ cs \in [Conns -> {"idle", "pending", "accepted", "closed", "reset"}]
        /\ \A d \in Conns : cs[d] = IF d = c THEN "accepted" ELSE conn[d]
    BY DEF TypeOK
  <2> HIDE DEF cs
  <2>3. PICK lost \in SUBSET {d \in Conns : cs[d] = "pending"} :
          /\ ListenerOpen => lost = {}
          /\ conn' = [d \in Conns |-> IF d \in lost THEN "reset" ELSE cs[d]]
    BY <2>1, <2>2, BacklogLoses
  <2>4. lost \subseteq Pending \ {c}
    BY <2>2, <2>3 DEF Pending
  <2>5. conn' = [d \in Conns |-> IF d = c THEN "accepted"
                                 ELSE IF d \in lost THEN "reset" ELSE conn[d]]
    BY <2>2, <2>3, <2>4
  <2>6. continue_flag => lost = {}
    BY <2>3 DEF ListenerInv, ListenerOpen
  <2>7. Service!Admit(c, lost)
    BY <2>1, <2>4, <2>5, <2>6 DEF Service!Admit, Service!Pending, Pending, MayStillAccept,
                                  TypeOK
  <2> QED
    BY <2>4, <2>7 DEF Service!Next, Pending
<1> QED
  BY <1>1, <1>2, <1>4, <1>5, <1>6 DEF EntryStep

(* To the service a worker's step is the end of a connection, or nothing.  *)
LEMMA WorkerStepRefines ==
  ASSUME SafeInv, NEW w \in Workers, WorkerStep(w) \/ SpuriousWake(w)
  PROVE  [Service!Next]_Service!vars
<1>1. UNCHANGED <<returned, continue_flag>> /\ MayStillAccept' = MayStillAccept
  BY DEF WorkerStep, SpuriousWake, LockCv, CheckCount, Block, WaitExpires, GetTask,
         ReadRequest, ReplyKeepAlive, ExchangeEnds, Exchange, Reset, socketVars,
         entryVars, MayStillAccept
<1>2. UNCHANGED conn \/ Close(m_connection[w])
  BY DEF WorkerStep, SpuriousWake, LockCv, CheckCount, Block, WaitExpires, GetTask,
         ReadRequest, ReplyKeepAlive, ExchangeEnds, Exchange, Reset, kernelVars
<1>3. CASE UNCHANGED conn
  BY <1>1, <1>3, ServiceStutters
<1>4. CASE Close(m_connection[w]) /\ m_connection[w] \notin Fds
  <2>1. UNCHANGED conn
    BY <1>4 DEF Close, SafeInv, TypeOK
  <2> QED
    BY <1>3, <2>1
<1>5. CASE Close(m_connection[w]) /\ m_connection[w] \in Fds
  <2>1. PICK c \in Conns : file[m_connection[w]] = c
    BY <1>5, WorkerFdIsConnection
  <2>2. conn[c] = "accepted"
    BY <1>5, <2>1 DEF SafeInv, OwnerInv, HeldIffOpen
  <2>3. conn' = [conn EXCEPT ![c] = "closed"]
    BY <1>5, <2>1 DEF Close, SafeInv, TypeOK
  <2>4. Service!Finish(c)
    BY <1>1, <2>2, <2>3 DEF Service!Finish
  <2> QED
    BY <2>4 DEF Service!Next
<1> QED
  BY <1>2, <1>3, <1>4, <1>5

(* When every thread has ended nothing is left in the queue, so nobody     *)
(* holds a connection.                                                     *)
LEMMA ReturnLeavesNone ==
  ASSUME SafeInv, ServiceInv, PillsCoverWorkers, Return
  PROVE  \A c \in Conns : conn[c] \notin {"pending", "accepted"}
<1>1. entry = "done" /\ user = "done" /\ \A w \in Workers : m_state[w] = "halt"
  BY DEF Return
<1>2. Pending = {}
  BY <1>1 DEF ServiceInv, BacklogInv
<1>3. Pills = {}
  <2>1. Cardinality(Pills) = Cardinality(Running) /\ Running = {}
    BY <1>1 DEF PillsCoverWorkers, Running
  <2>2. IsFiniteSet(Pills)
    BY PillsFinite DEF SafeInv, TypeOK, Pills
  <2> QED
    BY <2>1, <2>2, FS_EmptySet
<1>4. DOMAIN m_items = {}
  <2>1. DOMAIN m_items = 1..Len(m_items) /\ Len(m_items) \in Nat
    BY DEF SafeInv, TypeOK
  <2>2. ASSUME m_items # <<>>
        PROVE  Len(m_items) \in Pills
    <3>1. Len(m_items) # 0
      BY <2>2 DEF SafeInv, TypeOK
    <3> QED
      BY <1>1, <2>1, <2>2, <3>1 DEF ServiceInv, QueueEndsInv, Pills
  <2>3. m_items = <<>>
    BY <1>3, <2>2
  <2> QED
    BY <2>3
<1>5. \A fd \in Fds : ~Held(fd)
  BY <1>1, <1>4, DudNotFd DEF Held, EntryHolds, WorkerHolds, SafeInv, OwnerInv
<1>6. \A c \in Conns : conn[c] # "accepted"
  BY <1>5 DEF SafeInv, OwnerInv, HeldIffOpen
<1> QED
  BY <1>2, <1>6 DEF Pending

LEMMA OtherStepRefines ==
  ASSUME SafeInv, ServiceInv, PillsCoverWorkers,
         ReadChoice \/ ShutdownStep \/ (\E c \in Conns : Connect(c)) \/ Return
  PROVE  [Service!Next]_Service!vars
<1> USE DEF UserAt, kernelVars, socketVars, entryVars, SafeInv
<1>1. CASE ReadChoice \/ DropFd \/ DropReady
  BY <1>1, ServiceStutters DEF ReadChoice, DropFd, DropReady, MayStillAccept
<1>2. CASE ClearFlag
  <2>1. continue_flag /\ ~continue_flag' /\ ~returned /\ UNCHANGED <<conn, returned>>
    BY <1>2 DEF ClearFlag, ListenerInv, ServiceInv, ReturnInv
  <2>2. MayStillAccept' \in BOOLEAN
    BY DEF MayStillAccept
  <2>3. Service!Stop
    BY <2>1, <2>2 DEF Service!Stop
  <2> QED
    BY <2>3 DEF Service!Next
<1>3. CASE CloseListener
  <2>1. UNCHANGED <<returned, continue_flag>> /\ MayStillAccept' = MayStillAccept
    BY <1>3 DEF CloseListener, MayStillAccept
  <2>2. PICK lost \in SUBSET Pending :
          conn' = [c \in Conns |-> IF c \in lost THEN "reset" ELSE conn[c]]
    <3>1. conn' = Backlog(conn, entry = "blocked")
      BY <1>3 DEF CloseListener
    <3>2. conn \in [Conns -> {"idle", "pending", "accepted", "closed", "reset"}]
      BY DEF TypeOK
    <3>3. \E lost \in SUBSET {c \in Conns : conn[c] = "pending"} :
            Backlog(conn, entry = "blocked") =
              [c \in Conns |-> IF c \in lost THEN "reset" ELSE conn[c]]
      BY <3>2, BacklogLoses
    <3> QED
      BY <3>1, <3>3 DEF Pending
  <2>3. Service!Lose(lost)
    BY <2>1, <2>2 DEF Service!Lose, Service!Pending, Pending
  <2>4. lost \in SUBSET Conns
    BY <2>2 DEF Pending
  <2>5. Service!Next
    BY <2>3, <2>4 DEF Service!Next
  <2> QED
    BY <2>5
<1>4. ASSUME NEW c \in Conns, Connect(c)
      PROVE  [Service!Next]_Service!vars
  <2>1. /\ conn[c] = "idle" /\ conn' = [conn EXCEPT ![c] = "pending"] /\ ~returned
        /\ UNCHANGED <<returned, continue_flag>> /\ MayStillAccept' = MayStillAccept
    BY <1>4 DEF Connect, MayStillAccept, ServiceInv, BacklogInv, ReturnInv
  <2>2. Service!Connect(c)
    BY <2>1 DEF Service!Connect
  <2> QED
    BY <2>2 DEF Service!Next
<1>5. CASE Return
  <2>1. /\ ~returned /\ returned' /\ ~continue_flag /\ ~MayStillAccept
        /\ MayStillAccept' = MayStillAccept /\ UNCHANGED <<conn, continue_flag>>
    BY <1>5 DEF Return, ListenerInv, MayStillAccept
  <2>2. Service!Halt
    BY <1>5, <2>1, ReturnLeavesNone DEF Service!Halt
  <2> QED
    BY <2>2 DEF Service!Next
<1> QED
  BY <1>1, <1>2, <1>3, <1>4, <1>5 DEF ShutdownStep

(* The driver implements ConnectionService: whatever the threads do, each  *)
(* connection accepted is closed by a worker, one at most is accepted      *)
(* after the stop, and runService returns with none open.                  *)
THEOREM DriverImplementsService == Spec => ImplementsService
<1>1. Init => Service!Init
  BY DEF Init, Service!Init, MayStillAccept
<1>2. SafeInv /\ ServiceInv /\ PillsCoverWorkers /\ [Next]_vars
        => [Service!Next]_Service!vars
  <2> SUFFICES ASSUME SafeInv, ServiceInv, PillsCoverWorkers, [Next]_vars
               PROVE  [Service!Next]_Service!vars
    OBVIOUS
  <2>1. CASE UNCHANGED vars \/ Terminated
    BY <2>1, ServiceStutters DEF Terminated, MayStillAccept, vars, kernelVars, socketVars,
                                 entryVars
  <2> QED
    BY <2>1, EntryStepRefines, WorkerStepRefines, OtherStepRefines DEF Next
<1> QED
  BY <1>1, <1>2, SafeInvInductive, ServiceInvInductive, PillsCoverWorkersCorrect, PTL
     DEF Spec, ImplementsService, Service!Spec

-----------------------------------------------------------------------------
(* The end of the service does not wait for new waits to expire.           *)

Poisoned == entry \in {"notify_all", "done"}

(* A task of the queue is a connection or a pill, never what getTask()     *)
(* returns of an empty queue.                                              *)
TasksInv == \A i \in DOMAIN m_items : m_items[i].poisoned \/ m_items[i].fd \in Fds

LEMMA TasksInvInductive == Spec => []TasksInv
<1>1. Init => TasksInv
  BY DEF Init, TasksInv
<1>2. SafeInv /\ TasksInv /\ [Next]_vars => TasksInv'
  <2> SUFFICES ASSUME SafeInv, TasksInv, [Next]_vars
               PROVE  TasksInv'
    OBVIOUS
  <2> USE DEF TasksInv
  <2>1. TypeOK
    BY DEF SafeInv
  <2>2. CASE PushTask
    <3>1. temp_fd \in Fds
      BY <2>2 DEF PushTask, EntryAt, SafeInv, OwnerInv
    <3> QED
      BY <2>1, <2>2, <3>1, PushTaskQueue
  <2>3. CASE PushPills
    <3>1. Pill.poisoned
      BY DEF Pill
    <3> QED
      BY <2>1, <2>3, <3>1, PushPillsQueue, PillsType
  <2>4. ASSUME NEW w \in Workers, GetTask(w)
        PROVE  TasksInv'
    <3>1. CASE m_items = <<>>
      BY <2>1, <2>4, <3>1, GetTaskQueue
    <3>2. CASE m_items # <<>>
      BY <2>1, <2>4, <3>2, GetTaskQueue
    <3> QED
      BY <3>1, <3>2
  <2>5. CASE UNCHANGED m_items
    BY <2>5
  <2> QED
    BY <2>2, <2>3, <2>4, <2>5, QueueSteps
<1> QED
  BY <1>1, <1>2, SafeInvInductive, PTL DEF Spec

(* While a worker has not halted its pill is in the queue.                 *)
LEMMA PillIsLeft ==
  ASSUME TypeOK, PillsCoverWorkers, Poisoned, NEW w \in Workers, m_state[w] # "halt"
  PROVE  m_items # <<>>
<1>1. w \in Running
  BY DEF Running
<1>2. Cardinality(Running) # 0
  BY <1>1, RunningFinite, FS_EmptySet
<1>3. Pills # {}
  <2>1. Cardinality(Pills) # 0
    BY <1>2 DEF PillsCoverWorkers, Poisoned
  <2> QED
    BY <2>1, FS_EmptySet
<1> QED
  BY <1>3 DEF Pills

LEMMA WorkerMoves ==
  ASSUME TypeOK, [Next]_vars, NEW w \in Workers
  PROVE  /\ m_state[w] = "check" /\ m_state'[w] = "block" => CheckCount(w)
         /\ m_state[w] = "get" /\ m_state'[w] = "take_task" => GetTask(w)
<1> USE DEF kernelVars, socketVars, entryVars, workerVars, vars, TypeOK
<1>1. CASE EntryStep \/ AcceptWoken
  BY <1>1 DEF EntryStep, AcceptWoken, TestFlag, ReadReady, LoadFd, CallAccept,
              AcceptReturns, AcceptAborted, AcceptTimeout, AcceptNoDescriptor,
              AcceptFails, LockQueue, PushTask, PushPills, NotifyOne, NotifyAll, Wake
<1>2. ASSUME NEW v \in Workers, WorkerStep(v) \/ SpuriousWake(v)
      PROVE  /\ m_state[w] = "check" /\ m_state'[w] = "block" => CheckCount(w)
             /\ m_state[w] = "get" /\ m_state'[w] = "take_task" => GetTask(w)
  <2>1. PICK to \in WorkerPoints : m_state' = [m_state EXCEPT ![v] = to]
    BY <1>2 DEF WorkerStep, SpuriousWake, LockCv, CheckCount, Block, WaitExpires, GetTask,
                ReadRequest, ReplyKeepAlive, ExchangeEnds, Exchange, Reset, WorkerAt,
                WorkerPoints
  <2>2. CASE v # w
    BY <2>1, <2>2
  <2>3. CASE v = w
    BY <1>2, <2>3 DEF WorkerStep, SpuriousWake, LockCv, CheckCount, Block, WaitExpires, GetTask,
                ReadRequest, ReplyKeepAlive, ExchangeEnds, Exchange, Reset, WorkerAt
  <2> QED
    BY <2>2, <2>3
<1>3. CASE ReadChoice \/ ShutdownStep \/ Return \/ Terminated \/ UNCHANGED vars
  BY <1>3 DEF ReadChoice, ShutdownStep, ClearFlag, CloseListener, DropFd, DropReady,
              Return, Terminated
<1>4. CASE \E c \in Conns : Connect(c)
  BY <1>4 DEF Connect
<1> QED
  BY <1>1, <1>2, <1>3, <1>4 DEF Next

(* Once the pills are queued a worker that looks at the queue finds a task *)
(* or its pill: nobody begins to wait, or comes back from getTask() with   *)
(* nothing: the joins wait for no timeout but that of a wait begun before. *)
THEOREM NobodyWaitsAtTheEnd ==
  Spec => [][Poisoned =>
               \A w \in Workers :
                 /\ ~(m_state[w] = "check" /\ m_state'[w] = "block")
                 /\ ~(m_state[w] = "get" /\ m_state'[w] = "take_task")]_vars
<1>1. ASSUME SafeInv, TasksInv, PillsCoverWorkers, [Next]_vars, Poisoned, NEW w \in Workers
      PROVE  /\ ~(m_state[w] = "check" /\ m_state'[w] = "block")
             /\ ~(m_state[w] = "get" /\ m_state'[w] = "take_task")
  <2>1. TypeOK
    BY <1>1 DEF SafeInv
  <2>2. m_state[w] # "halt" => m_items # <<>>
    BY <1>1, <2>1, PillIsLeft
  <2>3. ASSUME m_state[w] = "check", m_state'[w] = "block"
        PROVE  FALSE
    <3>1. CheckCount(w)
      BY <1>1, <2>1, <2>3, WorkerMoves
    <3>2. CountSeen = {TRUE}
      BY <1>1, <2>2, <2>3 DEF CountSeen, QueueLocked, Poisoned
    <3>3. m_state' = [m_state EXCEPT ![w] = "get"]
      BY <3>1, <3>2 DEF CheckCount, WorkerAt
    <3> QED
      BY <2>1, <2>3, <3>3 DEF TypeOK
  <2>4. ASSUME m_state[w] = "get", m_state'[w] = "take_task"
        PROVE  FALSE
    <3>1. GetTask(w)
      BY <1>1, <2>1, <2>4, WorkerMoves
    <3>2. 1 \in DOMAIN m_items /\ NextTask = m_items[1]
      BY <2>1, <2>2, <2>4, <3>1, GetTaskQueue
    <3>3. NextTask.poisoned \/ NextTask.fd \in Fds
      BY <1>1, <3>2 DEF TasksInv
    <3>4. NextTask # Dud
      BY <3>3, DudNotFd DEF Dud
    <3>5. m_state' \in {[m_state EXCEPT ![w] = "halt"], [m_state EXCEPT ![w] = "request"]}
      BY <3>1, <3>4 DEF GetTask, WorkerAt
    <3> QED
      BY <2>1, <2>4, <3>5 DEF TypeOK
  <2> QED
    BY <2>3, <2>4
<1>2. SafeInv /\ TasksInv /\ PillsCoverWorkers /\ [Next]_vars =>
        [Poisoned =>
           \A w \in Workers :
             /\ ~(m_state[w] = "check" /\ m_state'[w] = "block")
             /\ ~(m_state[w] = "get" /\ m_state'[w] = "take_task")]_vars
  BY <1>1
<1> QED
  BY <1>2, SafeInvInductive, TasksInvInductive, PillsCoverWorkersCorrect, PTL DEF Spec
===============================================================================
