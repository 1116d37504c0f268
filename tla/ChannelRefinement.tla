-------------------------- MODULE ChannelRefinement --------------------------
(***************************************************************************)
(* The message queues implement channels, as long as every buffer is large *)
(* enough for every message (mq_receive drops a message that does not fit, *)
(* and does not refill the queue then: see SendersWaitOnFull).             *)
(***************************************************************************)
EXTENDS MessageQueue

Authors(list) == [i \in DOMAIN list |-> list[i].data]

\* The messages of the queue, then those of the senders that wait for space.
content == [q \in QueueId |-> Authors(messages[q]) \o Pcbs(waiting_senders[q])]
readers == [q \in QueueId |-> Pcbs(waiting_receivers[q])]

Channels == INSTANCE FifoChannel WITH
  Process <- Proc,
  Channel <- QueueId,
  Nothing <- NoData,
  open    <- resources_list,
  content <- content,
  readers <- readers,
  inbox   <- user_buffer

(***************************************************************************)
(* Every step of the queues is a step of the channels or leaves them       *)
(* alone: messages are delivered once, in the order of the calls, however  *)
(* the senders and receivers block and whoever completes their calls.      *)
(***************************************************************************)
ImplementsChannels == Channels!Spec

=============================================================================
