---------------------------- MODULE MessageQueue ----------------------------
(***************************************************************************)
(* The message queues of disastrOS on top of its scheduler: the system     *)
(* calls mq_create, mq_destroy, mq_send and mq_receive, the queues'        *)
(* waiting lists and the pool of message blocks.                           *)
(*                                                                         *)
(* A call is one action per outcome.  A call that blocks ends its action   *)
(* with internal_schedule; the process that later completes it (a peer's   *)
(* mq_send, mq_receive or mq_destroy) does the rest in its own action.     *)
(*                                                                         *)
(* The text of a message is its author's name.  What a blocked process has *)
(* in its syscall_args is kept in its entry of the waiting list.  The      *)
(* fields of a queue that has been destroyed keep their initial values: its*)
(* block is in the pool again and MessageQueue_alloc sets them all.        *)
(***************************************************************************)
EXTENDS Scheduler

CONSTANTS
  QueueId,                \* the ids that callers use, besides the illegal 0
  MAX_MESSAGE_QUEUES,     \* queues that can exist at a time
  MAX_MESSAGES_PER_QUEUE, \* the largest capacity of a queue
  MESSAGE_MAX_SIZE,       \* the largest message
  DSOS_MAX_MESSAGES,      \* message blocks in the pool
  Capacities,             \* arguments of mq_create
  SendSizes,              \* arguments of mq_send
  BufferSizes,            \* arguments of mq_receive
  NoData                  \* the content of a buffer nobody has written to

ASSUME MessageQueueAssumption ==
  /\ QueueId \subseteq Nat \ {0}
  /\ MAX_MESSAGE_QUEUES \in Nat
  /\ MAX_MESSAGES_PER_QUEUE \in Nat
  /\ MESSAGE_MAX_SIZE \in Nat
  /\ DSOS_MAX_MESSAGES \in Nat
  /\ Capacities \subseteq Int
  /\ SendSizes \subseteq Int
  /\ BufferSizes \subseteq Int
  /\ NoData \notin Proc

VARIABLES
  resources_list,    \* the ids of the queues that exist
  max_messages,      \* MessageQueue.max_messages
  current_messages,  \* MessageQueue.current_messages
  messages,          \* MessageQueue.messages, oldest first
  waiting_receivers, \* the processes blocked in mq_receive, [pcb, size of buffer]
  waiting_senders,   \* the processes blocked in mq_send, [pcb, size of message]
  free_messages,     \* the free blocks of message_allocator
  user_buffer,       \* what the last mq_receive of a process delivered
  list_broken        \* a PCB that is in one list was inserted into another

QueueVars == << resources_list, max_messages, current_messages, messages,
                waiting_receivers, waiting_senders, free_messages >>
ProcVars  == << running, status, ready_list, waiting_list, timer_list >>
vars      == << SchedulerVars, QueueVars, user_buffer, list_broken >>

DSOS_EMQFULL    == -14
DSOS_EMQEMPTY   == -15
DSOS_EMQINVALID == -16
DSOS_EMQCREATE  == -18
DSOS_EMQEXISTS  == -19
DSOS_EMQNOTOPEN == -21
DSOS_EBUFFER    == -22

Entry(p, size) == [pcb |-> p, size |-> size]
Pcbs(list) == [i \in DOMAIN list |-> list[i].pcb]

\* A process that blocks goes to the end of the waiting list.
WaitsLast_First(list, entry) == << entry >> \o list

WaitsLast(list, entry) == Append(list, entry)

IsFull(q)  == current_messages[q] >= max_messages[q]
IsEmpty(q) == messages[q] = << >>

ReceiverWaits_Never(q) == FALSE

ReceiverWaits(q) == waiting_receivers[q] # << >>

SenderWaits_Never(q) == FALSE

SenderWaits(q) == waiting_senders[q] # << >>

(***************************************************************************)
(* The buffer of the running process, which has used what was in it: every *)
(* action of a process but a successful mq_receive ends like this.         *)
(***************************************************************************)
BufferRead == user_buffer' = [user_buffer EXCEPT ![running] = NoData]

\* The results of a call that completes the one its peer is blocked in.
Completes_OwnOnly(own, peer, v) == Return(own)

Completes(own, peer, v) ==
  syscall_retvalue' = [syscall_retvalue EXCEPT ![running] = own, ![peer] = v]

\* A call that changes nothing but its own result.
Answer(v) == Return(v) /\ BufferRead /\ UNCHANGED << ProcVars, QueueVars, list_broken >>

MakeReady_Unlisted(ps) ==
  /\ status' = [p \in Proc |-> IF p \in Range(ps) THEN Ready ELSE status[p]]
  /\ UNCHANGED << running, ready_list, waiting_list, timer_list >>

MakeReady_StillWaiting(ps) ==
  /\ ready_list' = ready_list \o ps
  /\ UNCHANGED << status, running, waiting_list, timer_list >>

\* The processes of a sequence become ready, behind those that are.
MakeReady(ps) ==
  /\ status' = [p \in Proc |-> IF p \in Range(ps) THEN Ready ELSE status[p]]
  /\ ready_list' = ready_list \o ps
  /\ UNCHANGED << running, waiting_list, timer_list >>

(***************************************************************************)
(* A process that sleeps but runs, because nobody could take over, is on   *)
(* waiting_list.  When it blocks in a call its PCB goes into a second list *)
(* over the same two link fields.  What the lists hold afterwards is up to *)
(* the pointers; the model stops there.                                    *)
(***************************************************************************)
Linked(p) == p \in waiting_list

LinkTwice == /\ Linked(running)
             /\ list_broken' = TRUE
             /\ UNCHANGED << SchedulerVars, QueueVars, user_buffer >>

(***************************************************************************)
(* The running process waits until a peer completes its call.              *)
(***************************************************************************)
Block ==
  /\ ~Linked(running)
  /\ Schedulable(ready_list, timer_list)
  /\ Return(NoResult)
  /\ BufferRead
  /\ internal_schedule([status EXCEPT ![running] = Waiting],
                       ready_list, waiting_list, timer_list)

\* Nobody could take over: the caller leaves the waiting list with an error.
CannotBlock(error) ==
  /\ ~Linked(running)
  /\ ~Schedulable(ready_list, timer_list)
  /\ Answer(error)

-----------------------------------------------------------------------------
Message(size, data, sender) == [size |-> size, data |-> data, sender |-> sender]

\* The block for a new message; its sender field is the running process.
Message_alloc(size, data) == Message(size, data, running)

Message_free_Leaks == UNCHANGED free_messages

Message_free == free_messages' = free_messages + 1

\* One message of queue q is taken off its list and counted.
MessageTaken_Uncounted(q) ==
  /\ messages' = [messages EXCEPT ![q] = Tail(@)]
  /\ UNCHANGED current_messages

MessageTaken(q) ==
  /\ messages' = [messages EXCEPT ![q] = Tail(@)]
  /\ current_messages' = [current_messages EXCEPT ![q] = @ - 1]

SendError(q, size) ==
  IF q > 0 /\ size \notin 1 .. MESSAGE_MAX_SIZE THEN DSOS_EBUFFER
                                                ELSE DSOS_EMQINVALID

SendLegal(q, size) == q \in resources_list /\ size \in 1 .. MESSAGE_MAX_SIZE

SendRejected(q, size) == ~SendLegal(q, size) /\ Answer(SendError(q, size))

SendBlocks(q, size) ==
  /\ SendLegal(q, size)
  /\ IsFull(q)
  /\ \/ LinkTwice
     \/ CannotBlock(DSOS_EMQFULL)
     \/ /\ Block
        /\ waiting_senders' = [waiting_senders EXCEPT
                                 ![q] = WaitsLast(@, Entry(running, size))]
        /\ UNCHANGED << resources_list, max_messages, current_messages, messages,
                        waiting_receivers, free_messages, list_broken >>

SendWithoutBlock(q, size) ==
  /\ SendLegal(q, size)
  /\ ~IsFull(q)
  /\ free_messages = 0
  /\ Answer(DSOS_EBUFFER)

SendEnqueues(q, size) ==
  /\ SendLegal(q, size)
  /\ ~IsFull(q)
  /\ free_messages > 0
  /\ ~ReceiverWaits(q)
  /\ messages' = [messages EXCEPT ![q] = Append(@, Message_alloc(size, running))]
  /\ current_messages' = [current_messages EXCEPT ![q] = @ + 1]
  /\ free_messages' = free_messages - 1
  /\ Return(0)
  /\ BufferRead
  /\ UNCHANGED << ProcVars, resources_list, max_messages, waiting_receivers,
                  waiting_senders, list_broken >>

(***************************************************************************)
(* A receiver waits: the oldest message, with the new one behind it, goes  *)
(* to the receiver that has waited longest, if its buffer is large enough. *)
(* The message is gone in either case.                                     *)
(***************************************************************************)
SendHandsOver(q, size) ==
  /\ SendLegal(q, size)
  /\ ~IsFull(q)
  /\ free_messages > 0
  /\ ReceiverWaits(q)
  /\ LET queued   == Append(messages[q], Message_alloc(size, running))
         msg      == Head(queued)
         receiver == Head(waiting_receivers[q])
         fits     == msg.size <= receiver.size
     IN  /\ messages' = [messages EXCEPT ![q] = Tail(queued)]
         /\ waiting_receivers' = [waiting_receivers EXCEPT ![q] = Tail(@)]
         /\ MakeReady(<< receiver.pcb >>)
         /\ Completes(0, receiver.pcb, IF fits THEN msg.size ELSE DSOS_EBUFFER)
         /\ user_buffer' = [user_buffer EXCEPT
              ![running] = NoData,
              ![receiver.pcb] = IF fits THEN msg.data ELSE @]
  /\ UNCHANGED << resources_list, max_messages, current_messages,
                  waiting_senders, free_messages, list_broken >>

internal_mq_send(q, size) ==
  \/ SendRejected(q, size)
  \/ SendBlocks(q, size)
  \/ SendWithoutBlock(q, size)
  \/ SendEnqueues(q, size)
  \/ SendHandsOver(q, size)

-----------------------------------------------------------------------------
ReceiveLegal_AnySize(q, size) == q \in resources_list

ReceiveLegal(q, size) == q \in resources_list /\ size > 0

ReceiveError(q, size) ==
  IF q > 0 /\ size <= 0 THEN DSOS_EBUFFER ELSE DSOS_EMQINVALID

ReceiveRejected(q, size) ==
  ~ReceiveLegal(q, size) /\ Answer(ReceiveError(q, size))

ReceiveBlocks(q, size) ==
  /\ ReceiveLegal(q, size)
  /\ IsEmpty(q)
  /\ \/ LinkTwice
     \/ CannotBlock(DSOS_EMQEMPTY)
     \/ /\ Block
        /\ waiting_receivers' = [waiting_receivers EXCEPT
                                   ![q] = WaitsLast(@, Entry(running, size))]
        /\ UNCHANGED << resources_list, max_messages, current_messages, messages,
                        waiting_senders, free_messages, list_broken >>

(***************************************************************************)
(* The buffer is too small: the message is lost, and the caller returns    *)
(* before it looks at the blocked senders.                                 *)
(***************************************************************************)
ReceiveDiscards(q, size) ==
  /\ ReceiveLegal(q, size)
  /\ ~IsEmpty(q)
  /\ size < Head(messages[q]).size
  /\ MessageTaken(q)
  /\ Message_free
  /\ Return(DSOS_EBUFFER)
  /\ BufferRead
  /\ UNCHANGED << ProcVars, resources_list, max_messages, waiting_receivers,
                  waiting_senders, list_broken >>

\* What a successful mq_receive of msg leaves with the caller.
Delivered(msg) ==
  user_buffer' = [user_buffer EXCEPT ![running] = msg.data]

ReceiveTakes(q, size) ==
  /\ ReceiveLegal(q, size)
  /\ ~IsEmpty(q)
  /\ ~SenderWaits(q)
  /\ LET msg == Head(messages[q])
     IN  /\ size >= msg.size
         /\ Delivered(msg)
         /\ Return(msg.size)
  /\ MessageTaken(q)
  /\ Message_free
  /\ UNCHANGED << ProcVars, resources_list, max_messages, waiting_receivers,
                  waiting_senders, list_broken >>

(***************************************************************************)
(* A sender waits: the caller completes the call of the one that has       *)
(* waited longest.  Its message gets the block just freed, so the pool     *)
(* cannot be empty, and its size was checked when mq_send was entered.     *)
(***************************************************************************)
ReceiveRefills(q, size) ==
  /\ ReceiveLegal(q, size)
  /\ ~IsEmpty(q)
  /\ SenderWaits(q)
  /\ LET msg    == Head(messages[q])
         sender == Head(waiting_senders[q])
     IN  /\ size >= msg.size
         /\ Delivered(msg)
         /\ Completes(msg.size, sender.pcb, 0)
         /\ messages' = [messages EXCEPT
              ![q] = Append(Tail(@), Message_alloc(sender.size, sender.pcb))]
         /\ waiting_senders' = [waiting_senders EXCEPT ![q] = Tail(@)]
         /\ MakeReady(<< sender.pcb >>)
  /\ UNCHANGED << resources_list, max_messages, current_messages,
                  waiting_receivers, free_messages, list_broken >>

internal_mq_receive(q, size) ==
  \/ ReceiveRejected(q, size)
  \/ ReceiveBlocks(q, size)
  \/ ReceiveDiscards(q, size)
  \/ ReceiveTakes(q, size)
  \/ ReceiveRefills(q, size)

-----------------------------------------------------------------------------
CreateError(q, size) ==
  IF q <= 0 \/ size \notin 1 .. MAX_MESSAGES_PER_QUEUE THEN DSOS_EMQINVALID
  ELSE IF q \in resources_list THEN DSOS_EMQEXISTS
  ELSE DSOS_EMQCREATE

CreateLegal(q, size) ==
  /\ q \in QueueId \ resources_list
  /\ size \in 1 .. MAX_MESSAGES_PER_QUEUE
  /\ Cardinality(resources_list) < MAX_MESSAGE_QUEUES

CreateRejected(q, size) ==
  ~CreateLegal(q, size) /\ Answer(CreateError(q, size))

CreateAdds(q, size) ==
  /\ CreateLegal(q, size)
  /\ resources_list' = resources_list \cup {q}
  /\ max_messages' = [max_messages EXCEPT ![q] = size]
  /\ Return(q)
  /\ BufferRead
  /\ UNCHANGED << ProcVars, current_messages, messages, waiting_receivers,
                  waiting_senders, free_messages, list_broken >>

internal_mq_create(q, size) == CreateRejected(q, size) \/ CreateAdds(q, size)

DestroyRejected(q) == q \notin resources_list /\ Answer(DSOS_EMQINVALID)

(***************************************************************************)
(* The blocked receivers, then the blocked senders, become ready with an   *)
(* error; messages, queue and list entry are freed.                        *)
(***************************************************************************)
DestroyRemoves(q) ==
  /\ q \in resources_list
  /\ LET woken == Pcbs(waiting_receivers[q]) \o Pcbs(waiting_senders[q])
     IN  /\ MakeReady(woken)
         /\ syscall_retvalue' = [p \in Proc |->
              IF p = running THEN q
              ELSE IF p \in Range(woken) THEN DSOS_EMQNOTOPEN
              ELSE syscall_retvalue[p]]
  /\ waiting_receivers' = [waiting_receivers EXCEPT ![q] = << >>]
  /\ waiting_senders' = [waiting_senders EXCEPT ![q] = << >>]
  /\ free_messages' = free_messages + Len(messages[q])
  /\ messages' = [messages EXCEPT ![q] = << >>]
  /\ current_messages' = [current_messages EXCEPT ![q] = 0]
  /\ max_messages' = [max_messages EXCEPT ![q] = 0]
  /\ resources_list' = resources_list \ {q}
  /\ BufferRead
  /\ UNCHANGED list_broken

internal_mq_destroy(q) == DestroyRejected(q) \/ DestroyRemoves(q)

-----------------------------------------------------------------------------
\* No queue exists after boot, and every message block is free.
QueuesInit ==
  /\ resources_list = {}
  /\ max_messages = [q \in QueueId |-> 0]
  /\ current_messages = [q \in QueueId |-> 0]
  /\ messages = [q \in QueueId |-> << >>]
  /\ waiting_receivers = [q \in QueueId |-> << >>]
  /\ waiting_senders = [q \in QueueId |-> << >>]
  /\ free_messages = DSOS_MAX_MESSAGES
  /\ user_buffer = [p \in Proc |-> NoData]
  /\ list_broken = FALSE

Init == SchedulerInit /\ QueuesInit

SchedulerFrame == BufferRead /\ UNCHANGED << QueueVars, list_broken >>

Tick == ~list_broken /\ timerInterrupt /\ SchedulerFrame

\* The running process calls the message queues.
QueueCall ==
  \E q \in QueueId \cup {0} :
    \/ \E size \in Capacities : internal_mq_create(q, size)
    \/ internal_mq_destroy(q)
    \/ \E size \in SendSizes : internal_mq_send(q, size)
    \/ \E size \in BufferSizes : internal_mq_receive(q, size)

Syscall ==
  /\ ~list_broken
  /\ running \in Callers
  /\ \/ internal_preempt /\ SchedulerFrame
     \/ internal_sleep /\ SchedulerFrame
     \/ QueueCall

Next == Tick \/ Syscall

\* The timer interrupts periodically, see SchedulerSpec.
Spec == Init /\ [][Next]_vars /\ WF_vars(Tick)

-----------------------------------------------------------------------------
MessageRecord == [size : 1 .. MESSAGE_MAX_SIZE, data : Proc, sender : Proc]
SenderEntry   == [pcb : Proc, size : 1 .. MESSAGE_MAX_SIZE]
ReceiverEntry == [pcb : Proc, size : Nat \ {0}]

\* Every variable of the queues has its type, and the scheduler's have theirs.
QueuesTypeOK ==
  /\ resources_list \subseteq QueueId
  /\ max_messages \in [QueueId -> 0 .. MAX_MESSAGES_PER_QUEUE]
  /\ current_messages \in [QueueId -> Nat]
  /\ messages \in [QueueId -> Seq(MessageRecord)]
  /\ waiting_receivers \in [QueueId -> Seq(ReceiverEntry)]
  /\ waiting_senders \in [QueueId -> Seq(SenderEntry)]
  /\ free_messages \in Nat
  /\ user_buffer \in [Proc -> Proc \cup {NoData}]
  /\ list_broken \in BOOLEAN

TypeOK == SchedulerTypeOK /\ QueuesTypeOK

\* The processes blocked on queue q, and on any queue.
BlockedOn(q) == Range(Pcbs(waiting_receivers[q])) \cup Range(Pcbs(waiting_senders[q]))
Blocked == UNION { BlockedOn(q) : q \in QueueId }

(***************************************************************************)
(* A process is in one list at a time, once, and its status says in which  *)
(* kind: the two link fields of a PCB serve all lists (PCB.list), and the  *)
(* peers that wake it never look where else it may be.                     *)
(***************************************************************************)
WaitingMatches ==
  /\ \A q \in QueueId :
       /\ IsInjective(Pcbs(waiting_receivers[q]))
       /\ IsInjective(Pcbs(waiting_senders[q]))
       /\ Range(Pcbs(waiting_receivers[q])) \cap Range(Pcbs(waiting_senders[q])) = {}
       /\ BlockedOn(q) \cap waiting_list = {}
  /\ \A q1, q2 \in QueueId : q1 # q2 => BlockedOn(q1) \cap BlockedOn(q2) = {}
  /\ { p \in Proc : status[p] = Waiting } = waiting_list \cup Blocked

OneListEach == ListsMatchStatus /\ WaitingMatches

(***************************************************************************)
(* current_messages, which mq_send compares with the capacity, counts the  *)
(* list that mq_receive looks at, and never exceeds the capacity; a queue  *)
(* that does not exist holds nothing and nobody.                           *)
(***************************************************************************)
CountsMatch ==
  \A q \in QueueId :
    /\ current_messages[q] = Len(messages[q])
    /\ current_messages[q] <= max_messages[q]
    /\ q \in resources_list <=> max_messages[q] > 0
    /\ q \notin resources_list => BlockedOn(q) = {}

\* As many places as the queues have messages, or space.
Places(n) == UNION { {q} \X (1 .. n[q]) : q \in QueueId }

(***************************************************************************)
(* Message blocks are neither leaked nor freed twice: what is not in a     *)
(* queue is in the pool.                                                   *)
(***************************************************************************)
NoBlockLost ==
  free_messages + Cardinality(Places([q \in QueueId |-> Len(messages[q])]))
    = DSOS_MAX_MESSAGES

(***************************************************************************)
(* A process that waits for a message waits at an empty queue: no message  *)
(* lies there for it while it sleeps.                                      *)
(***************************************************************************)
ReceiversWaitOnEmpty ==
  \A q \in QueueId : waiting_receivers[q] # << >> => IsEmpty(q)

(***************************************************************************)
(* A process that waits for space waits at a full queue: "receive also     *)
(* wakes up a waiting sender".                                             *)
(***************************************************************************)
SendersWaitOnFull ==
  \A q \in QueueId : waiting_senders[q] # << >> => IsFull(q)

(***************************************************************************)
(* A process that leaves the waiting list of a queue has got a result of   *)
(* its call, and the one that fits: an error if the queue is gone, else    *)
(* the size received or 0 for a message sent.                              *)
(***************************************************************************)
WokenRight ==
  \A q \in QueueId : \A p \in BlockedOn(q) \ BlockedOn(q)' :
    /\ p \in Range(ready_list')
    /\ syscall_retvalue'[p] # NoResult
    /\ syscall_retvalue'[p] = DSOS_EMQNOTOPEN <=> q \notin resources_list'
    /\ syscall_retvalue'[p] = 0 <=>
         /\ q \in resources_list'
         /\ p \in Range(Pcbs(waiting_senders[q]))

WokenWithResult == [][WokenRight]_vars

(***************************************************************************)
(* As long as the queues that exist could be full all at once with the     *)
(* blocks of the pool, as those of the code always can (DSOS_MAX_MESSAGES),*)
(* a queue with space left never lacks a block for the message, whatever   *)
(* has been sent, received, refused or destroyed before.                   *)
(***************************************************************************)
PoolSuffices ==
  Cardinality(Places(max_messages)) <= DSOS_MAX_MESSAGES =>
    \A q \in resources_list : ~IsFull(q) => free_messages > 0

(***************************************************************************)
(* A call that would block does so: it does not fail because the queue is  *)
(* full or empty ("If the queue is full, the sender is blocked").          *)
(***************************************************************************)
BlocksInsteadOfFailing ==
  \A p \in Proc : syscall_retvalue[p] \notin {DSOS_EMQFULL, DSOS_EMQEMPTY}

(***************************************************************************)
(* As long as messages are taken from a queue, a process blocked in        *)
(* mq_send on it gets the processor again: no sender is overtaken forever. *)
(***************************************************************************)
TakesFrom(q) == \E size \in BufferSizes : ReceiveTakes(q, size) \/ ReceiveRefills(q, size)

SendersServed ==
  \A q \in QueueId, p \in Proc :
    []<><< TakesFrom(q) >>_vars =>
      ( p \in Range(Pcbs(waiting_senders[q])) ~> status[p] = Running )

(***************************************************************************)
(* As long as messages are sent to a queue, a process blocked in           *)
(* mq_receive on it gets the processor again.                              *)
(***************************************************************************)
SendsTo(q) == \E size \in SendSizes : SendEnqueues(q, size) \/ SendHandsOver(q, size)

ReceiversServed ==
  \A q \in QueueId, p \in Proc :
    []<><< SendsTo(q) >>_vars =>
      ( p \in Range(Pcbs(waiting_receivers[q])) ~> status[p] = Running )

\* No PCB is inserted into a second list (the check at the top of List_insert).
NeverLinkedTwice == ~list_broken

=============================================================================
