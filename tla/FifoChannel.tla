----------------------------- MODULE FifoChannel -----------------------------
(***************************************************************************)
(* What the message queues promise to their users: channels that deliver   *)
(* each message once, in the order in which the calls of mq_send were      *)
(* made, to the receivers in the order in which they called mq_receive.    *)
(* Capacity, blocking and the pool of message blocks are not visible here: *)
(* the message of a sender that is blocked is in the channel already.      *)
(***************************************************************************)
EXTENDS Naturals, Sequences, FiniteSets, Functions

CONSTANTS
  Process,   \* the users
  Channel,   \* the names of the channels
  Nothing    \* the content of an empty inbox, not one of Process

VARIABLES
  open,      \* the channels that exist
  content,   \* the messages sent and not yet received, as the name of their author
  readers,   \* the processes that wait for a message, in the order of their calls
  inbox      \* the message a process has received last and not yet consumed

channelVars == << open, content, readers, inbox >>

TypeOK ==
  /\ open \subseteq Channel
  /\ content \in [Channel -> Seq(Process)]
  /\ readers \in [Channel -> Seq(Process)]
  /\ inbox \in [Process -> Process \cup {Nothing}]

Init ==
  /\ open = {}
  /\ content = [c \in Channel |-> << >>]
  /\ readers = [c \in Channel |-> << >>]
  /\ inbox = [p \in Process |-> Nothing]

Consumed(p) == inbox' = [inbox EXCEPT ![p] = Nothing]

Open(p, c) ==
  /\ c \notin open
  /\ open' = open \cup {c}
  /\ Consumed(p)
  /\ UNCHANGED << content, readers >>

\* The channel and everything in it goes, and nobody waits for it any more.
Close(p, c) ==
  /\ c \in open
  /\ open' = open \ {c}
  /\ content' = [content EXCEPT ![c] = << >>]
  /\ readers' = [readers EXCEPT ![c] = << >>]
  /\ Consumed(p)

\* Nobody waits for the message.
Send(p, c) ==
  /\ c \in open
  /\ readers[c] = << >>
  /\ content' = [content EXCEPT ![c] = Append(@, p)]
  /\ Consumed(p)
  /\ UNCHANGED << open, readers >>

\* The message goes to the reader that has waited longest.
Pass(p, c) ==
  /\ c \in open
  /\ readers[c] # << >>
  /\ content[c] = << >>
  /\ readers' = [readers EXCEPT ![c] = Tail(@)]
  /\ inbox' = [inbox EXCEPT ![p] = Nothing, ![Head(readers[c])] = p]
  /\ UNCHANGED << open, content >>

\* The oldest message goes to p, unless others have waited longer.
Receive(p, c) ==
  /\ c \in open
  /\ readers[c] = << >>
  /\ content[c] # << >>
  /\ content' = [content EXCEPT ![c] = Tail(@)]
  /\ inbox' = [inbox EXCEPT ![p] = Head(content[c])]
  /\ UNCHANGED << open, readers >>

\* There is nothing for p, which waits.
Wait(p, c) ==
  /\ c \in open
  /\ content[c] = << >>
  /\ p \notin Range(readers[c])
  /\ readers' = [readers EXCEPT ![c] = Append(@, p)]
  /\ Consumed(p)
  /\ UNCHANGED << open, content >>

\* p consumes what it has received and leaves the channels alone.
Consume(p) == Consumed(p) /\ UNCHANGED << open, content, readers >>

Next ==
  \E p \in Process :
    \/ Consume(p)
    \/ \E c \in Channel :
         \/ Open(p, c)
         \/ Close(p, c)
         \/ Send(p, c)
         \/ Pass(p, c)
         \/ Receive(p, c)
         \/ Wait(p, c)

Spec == Init /\ [][Next]_channelVars

=============================================================================
