------------------------------ MODULE Resources ------------------------------
(***************************************************************************)
(* Resources and the descriptors that processes open on them, on top of    *)
(* the life of processes, which hand descriptors back when they end.       *)
(*                                                                         *)
(* A resource is its id.  The lists are sets, as no code depends on their  *)
(* order.  A descriptor is its fd and its resource in the process's list,  *)
(* and its owner's pid and its fd in the resource's list, so that the      *)
(* entries of a process that is gone stay apart from those of a process    *)
(* that got the same PCB.  The queues of module MessageQueue, which are in *)
(* the same list of resources, are not in this module.                     *)
(***************************************************************************)
EXTENDS Process

CONSTANTS
  ResourceId,         \* the ids that callers pass
  ResourceType,       \* RESOURCE_GENERIC, RESOURCE_MESSAGE_QUEUE
  OpenModes,          \* the values of open_mode that callers pass
  MAX_NUM_RESOURCES,
  MAX_NUM_DESCRIPTORS,
  MaxFd               \* bound: no process opens more often than this

ASSUME ResourceAssumption ==
  /\ IsFiniteSet(ResourceId)
  /\ ResourceType # {}
  /\ OpenModes \subseteq Nat
  /\ MAX_NUM_RESOURCES \in Nat /\ MAX_NUM_DESCRIPTORS \in Nat /\ MaxFd \in Nat

VARIABLES
  resources_list,       \* the resources that exist
  type,                 \* Resource.type
  ref_count,            \* Resource.ref_count
  descriptors_ptrs,     \* Resource.descriptors_ptrs, a set of [owner, fd]
  descriptors,          \* PCB.descriptors, a set of [fd, resource]
  last_fd,              \* PCB.last_fd
  free_resources,       \* free blocks in the pool of resources
  free_descriptors,     \* ... of descriptors
  free_descriptor_ptrs  \* ... of descriptor pointers

ResourceVars == << resources_list, type, ref_count, descriptors_ptrs, descriptors,
                   last_fd, free_resources, free_descriptors, free_descriptor_ptrs >>

DSOS_ERESOURCECREATE == -8
DSOS_ERESOURCEOPEN   == -9
DSOS_ERESOURCENOEXCL == -10
DSOS_ERESOURCENOFD   == -11
DSOS_ERESOURCECLOSE  == -12
DSOS_ERESOURCEINUSE  == -13

\* The bits of open_mode; DSOS_WRITE, 3, contains the bit of DSOS_CREATE.
Creates(mode)   == mode % 2 = 1
Exclusive(mode) == (mode \div 4) % 2 = 1

\* A call that changes nothing but resources and the caller's result.
Answers(v) ==
  /\ Result(v)
  /\ CalledOther
  /\ UNCHANGED << running, status, ready_list, waiting_list, timer_list, pid,
                  parent, children, return_value, signals, zombie_list,
                  free_pcbs, free_ptrs, last_pid, forked, failure >>

-----------------------------------------------------------------------------
CreateFails(id, mode) ==
  /\ Creates(mode)
  /\ id \in resources_list \/ free_resources = 0
  /\ Answers(DSOS_ERESOURCECREATE)
  /\ UNCHANGED ResourceVars

CreatedNow(id, mode) ==
  Creates(mode) /\ id \notin resources_list /\ free_resources > 0

\* The call has created the resource, or found one of the right type.
ResourceFound(id, t, mode) ==
  \/ CreatedNow(id, mode)
  \/ ~Creates(mode) /\ id \in resources_list /\ type[id] = t

\* What the resource has before it is opened: Resource_alloc starts anew.
RefsBefore(id, mode) == IF Creates(mode) THEN 0 ELSE ref_count[id]
PtrsBefore(id, mode) == IF Creates(mode) THEN {} ELSE descriptors_ptrs[id]

\* Resource_alloc and the insertion into resources_list, if the call creates.
CreatedIf(id, t, mode) ==
  IF Creates(mode)
  THEN /\ resources_list' = resources_list \cup {id}
       /\ type' = [type EXCEPT ![id] = t]
       /\ free_resources' = free_resources - 1
  ELSE UNCHANGED << resources_list, type, free_resources >>

OpenNothing(id, t, mode) ==
  /\ ~Creates(mode)
  /\ ~ResourceFound(id, t, mode)
  /\ Answers(DSOS_ERESOURCEOPEN)
  /\ UNCHANGED ResourceVars

OpenRefused(id, mode) == Exclusive(mode) /\ RefsBefore(id, mode) > 0

OpenNotExclusive(id, t, mode) ==
  /\ ResourceFound(id, t, mode)
  /\ OpenRefused(id, mode)
  /\ Answers(DSOS_ERESOURCENOEXCL)
  /\ UNCHANGED ResourceVars

\* The pools are looked at one after the other, the first is given back.
HasBlocks == free_descriptors > 0 /\ free_descriptor_ptrs > 0

\* The call fails, but the resource it may have created stays.
OpenWithoutDescriptor(id, t, mode) ==
  /\ ResourceFound(id, t, mode) /\ ~OpenRefused(id, mode)
  /\ ~HasBlocks
  /\ Answers(DSOS_ERESOURCENOFD)
  /\ CreatedIf(id, t, mode)
  /\ ref_count' = [ref_count EXCEPT ![id] = RefsBefore(id, mode)]
  /\ descriptors_ptrs' = [descriptors_ptrs EXCEPT ![id] = PtrsBefore(id, mode)]
  /\ UNCHANGED << descriptors, last_fd, free_descriptors, free_descriptor_ptrs >>

\* The entry of the running process's fd in the list of a resource.
OpenedAs(fd) == [owner |-> pid[running], fd |-> fd]

NextFd(p) == last_fd[p]

OpenSucceeds(id, t, mode) ==
  /\ ResourceFound(id, t, mode) /\ ~OpenRefused(id, mode)
  /\ HasBlocks
  /\ last_fd[running] < MaxFd
  /\ Answers(NextFd(running))
  /\ CreatedIf(id, t, mode)
  /\ descriptors' = [descriptors EXCEPT ![running] =
                       @ \cup {[fd |-> NextFd(running), resource |-> id]}]
  /\ descriptors_ptrs' = [descriptors_ptrs EXCEPT ![id] =
                       PtrsBefore(id, mode) \cup {OpenedAs(NextFd(running))}]
  /\ ref_count' = [ref_count EXCEPT ![id] = RefsBefore(id, mode) + 1]
  /\ last_fd' = [last_fd EXCEPT ![running] = @ + 1]
  /\ free_descriptors' = free_descriptors - 1
  /\ free_descriptor_ptrs' = free_descriptor_ptrs - 1

internal_openResource ==
  \E id \in ResourceId, mode \in OpenModes, t \in ResourceType :
    \/ CreateFails(id, mode)
    \/ OpenNothing(id, t, mode)
    \/ OpenNotExclusive(id, t, mode)
    \/ OpenWithoutDescriptor(id, t, mode)
    \/ OpenSucceeds(id, t, mode)

-----------------------------------------------------------------------------
DescriptorList_byFd(fd) == { d \in descriptors[running] : d.fd = fd }

CloseRejected(fd) ==
  /\ DescriptorList_byFd(fd) = {}
  /\ Answers(DSOS_ERESOURCECLOSE)
  /\ UNCHANGED ResourceVars

Unlinked_Kept(id, fd) == descriptors_ptrs

\* The resource's list without the entry of the running process for fd.
Unlinked(id, fd) ==
  [descriptors_ptrs EXCEPT ![id] = @ \ {OpenedAs(fd)}]

CloseSucceeds(d) ==
  /\ Answers(0)
  /\ descriptors' = [descriptors EXCEPT ![running] = @ \ {d}]
  /\ descriptors_ptrs' = Unlinked(d.resource, d.fd)
  /\ ref_count' = [ref_count EXCEPT ![d.resource] = @ - 1]
  /\ free_descriptors' = free_descriptors + 1
  /\ free_descriptor_ptrs' = free_descriptor_ptrs + 1
  /\ UNCHANGED << resources_list, type, last_fd, free_resources >>

internal_closeResource ==
  \E fd \in 0 .. MaxFd :
    CloseRejected(fd) \/ \E d \in DescriptorList_byFd(fd) : CloseSucceeds(d)

-----------------------------------------------------------------------------
InUse_Never(id) == FALSE

InUse(id) == ref_count[id] > 0

DestroyRejected(id) ==
  /\ \/ id \notin resources_list /\ Answers(DSOS_ERESOURCECLOSE)
     \/ id \in resources_list /\ InUse(id) /\ Answers(DSOS_ERESOURCEINUSE)
  /\ UNCHANGED ResourceVars

DestroySucceeds(id) ==
  /\ id \in resources_list
  /\ ~InUse(id)
  /\ Answers(0)
  /\ resources_list' = resources_list \ {id}
  /\ free_resources' = free_resources + 1
  /\ UNCHANGED << type, ref_count, descriptors_ptrs, descriptors, last_fd,
                  free_descriptors, free_descriptor_ptrs >>

internal_destroyResource ==
  \E id \in ResourceId : DestroyRejected(id) \/ DestroySucceeds(id)

-----------------------------------------------------------------------------
\* The descriptors of the running process on a resource.
Own(id) == { d \in descriptors[running] : d.resource = id }

\* The entries in a resource's list that fork adds for the child.
Copies(id) == { [owner |-> last_pid, fd |-> d.fd] : d \in Own(id) }

Opened == Cardinality(descriptors[running])

(***************************************************************************)
(* A forked process has every descriptor of its parent, under the same fd, *)
(* while its own counter of fds starts with 0.                             *)
(***************************************************************************)
DescriptorsCopied(p) ==
  /\ free_descriptors >= Opened /\ free_descriptor_ptrs >= Opened
  /\ descriptors' = [descriptors EXCEPT ![p] = descriptors[running]]
  /\ last_fd' = [last_fd EXCEPT ![p] = 0]
  /\ descriptors_ptrs' = [id \in ResourceId |-> descriptors_ptrs[id] \cup Copies(id)]
  /\ ref_count' = [id \in ResourceId |-> ref_count[id] + Cardinality(Own(id))]
  /\ free_descriptors' = free_descriptors - Opened
  /\ free_descriptor_ptrs' = free_descriptor_ptrs - Opened
  /\ UNCHANGED << resources_list, type, free_resources >>

\* An assertion of fork: a pool does not have enough for all of them.
CopyAborts ==
  /\ free_pcbs # {} /\ free_ptrs > 0
  /\ free_descriptors < Opened \/ free_descriptor_ptrs < Opened
  /\ Fails(NoDescriptor)

\* A new process has no descriptors, whatever its PCB was before.
SpawnedWithout(p) ==
  /\ descriptors' = [descriptors EXCEPT ![p] = {}]
  /\ last_fd' = [last_fd EXCEPT ![p] = 0]
  /\ UNCHANGED << resources_list, type, ref_count, descriptors_ptrs,
                  free_resources, free_descriptors, free_descriptor_ptrs >>

Emptied_Unopened(id) == ref_count[id] = Cardinality(Own(id))

\* The last descriptor goes, and the resource with it.
Emptied(id) == Own(id) # {} /\ ref_count[id] = Cardinality(Own(id))

(***************************************************************************)
(* internal_exit, when it wakes the parent, closes every descriptor, and   *)
(* destroys the resources that nobody has open any more.                   *)
(***************************************************************************)
DescriptorsReleased ==
  LET gone == { id \in ResourceId : Emptied(id) }
  IN  /\ descriptors' = [descriptors EXCEPT ![running] = {}]
      /\ descriptors_ptrs' = [id \in ResourceId |->
           { e \in descriptors_ptrs[id] :
               ~ \E d \in Own(id) : e = OpenedAs(d.fd) }]
      /\ ref_count' = [id \in ResourceId |-> ref_count[id] - Cardinality(Own(id))]
      /\ resources_list' = resources_list \ gone
      /\ free_resources' = free_resources + Cardinality(gone)
      /\ free_descriptors' = free_descriptors + Opened
      /\ free_descriptor_ptrs' = free_descriptor_ptrs + Opened
      /\ UNCHANGED << type, last_fd >>

-----------------------------------------------------------------------------
ResourceInit ==
  /\ ProcessInit
  /\ resources_list = {}
  /\ type = [id \in ResourceId |-> CHOOSE t \in ResourceType : TRUE]
  /\ ref_count = [id \in ResourceId |-> 0]
  /\ descriptors_ptrs = [id \in ResourceId |-> {}]
  /\ descriptors = [p \in Proc |-> {}]
  /\ last_fd = [p \in Proc |-> 0]
  /\ free_resources = MAX_NUM_RESOURCES
  /\ free_descriptors = MAX_NUM_DESCRIPTORS
  /\ free_descriptor_ptrs = MAX_NUM_DESCRIPTORS

ResourceCall ==
  /\ running \in Callers
  /\ internal_openResource \/ internal_closeResource \/ internal_destroyResource

Spawning ==
  /\ running \in Callers
  /\ \/ (SpawnFails \/ SpawnAborts) /\ UNCHANGED ResourceVars
     \/ \E p \in Proc : SpawnStarts(p) /\ SpawnedWithout(p)

Forking ==
  /\ running \in Callers
  /\ \/ (SpawnFails \/ SpawnAborts) /\ UNCHANGED ResourceVars
     \/ \E p \in Proc : ForkStarts(p) /\ DescriptorsCopied(p)
     \/ CopyAborts /\ UNCHANGED ResourceVars

Waits == running \in Callers /\ internal_wait /\ UNCHANGED ResourceVars

Exiting ==
  LET value == pid[running]
  IN  /\ running \in Callers
      /\ \/ /\ running # init_pcb
            /\ \/ ExitWakesParent(value) /\ DescriptorsReleased
               \/ (ExitLeavesZombie(value) \/ ExitAborts) /\ UNCHANGED ResourceVars
         \/ running = init_pcb /\ InitExits /\ UNCHANGED ResourceVars

Continues ==
  \/ ResourceCall
  \/ Spawning
  \/ Forking
  \/ Waits
  \/ Exiting
  \/ Scheduling /\ UNCHANGED ResourceVars

ResourceNext ==
  /\ failure = None
  /\ \/ ForkedRuns /\ UNCHANGED ResourceVars
     \/ running \notin forked /\ Continues

ResourceSpec == ResourceInit /\ [][ResourceNext]_<< AllVars, ResourceVars >>

-----------------------------------------------------------------------------
\* Every variable has its type.
ResourceTypeOK ==
  /\ resources_list \subseteq ResourceId
  /\ type \in [ResourceId -> ResourceType]
  /\ ref_count \in [ResourceId -> Nat]
  /\ descriptors_ptrs \in [ResourceId -> SUBSET [owner : Nat, fd : Nat]]
  /\ descriptors \in [Proc -> SUBSET [fd : Nat, resource : ResourceId]]
  /\ last_fd \in [Proc -> Nat]
  /\ free_resources \in 0 .. MAX_NUM_RESOURCES
  /\ free_descriptors \in 0 .. MAX_NUM_DESCRIPTORS
  /\ free_descriptor_ptrs \in 0 .. MAX_NUM_DESCRIPTORS

(***************************************************************************)
(* The counter of a resource is the length of its list of descriptors, on  *)
(* every path by which a descriptor comes or goes, a process's end         *)
(* included; one that has been freed had none, as Resource_free asserts.   *)
(***************************************************************************)
RefCountsMatch ==
  \A id \in ResourceId :
    /\ ref_count[id] = Cardinality(descriptors_ptrs[id])
    /\ id \notin resources_list => ref_count[id] = 0

(***************************************************************************)
(* Nothing that a process has open dangles: the resource exists, it knows  *)
(* the descriptor, and the fd is no other descriptor's, although resources *)
(* are destroyed and created again under the same id.                      *)
(***************************************************************************)
NothingDangles ==
  \A p \in Allocated : \A d \in descriptors[p] :
    /\ d.resource \in resources_list
    /\ [owner |-> pid[p], fd |-> d.fd] \in descriptors_ptrs[d.resource]
    /\ \A e \in descriptors[p] : e.fd = d.fd => e = d

\* Every pair of a resource and an entry of its list.
OpenEntries == UNION { {id} \X descriptors_ptrs[id] : id \in ResourceId }

(***************************************************************************)
(* No block of the pools is lost or handed out twice by these calls: every *)
(* descriptor that is not free is in the list of a resource, every         *)
(* resource that is not free is in resources_list.                         *)
(***************************************************************************)
BlocksAccounted ==
  /\ free_descriptors + Cardinality(OpenEntries) = MAX_NUM_DESCRIPTORS
  /\ free_descriptor_ptrs + Cardinality(OpenEntries) = MAX_NUM_DESCRIPTORS
  /\ free_resources + Cardinality(resources_list) = MAX_NUM_RESOURCES

\* A process that has ended has released everything (disastrOS_exit.c:74).
ReleasedAtExit == \A p \in zombie_list : descriptors[p] = {}

=============================================================================
