------------------------------ MODULE NixlManager ------------------------------
(* NixlEPAll2AllManager (all2all.py): one process of an elastic expert-        *)
(* parallel group.  The buffer is class state and outlives the managers, which *)
(* are made anew for every size of the group.  A new size is first staged,     *)
(* which connects the new ranks but leaves them masked, and then committed.    *)
(* The kernel masks a rank that does not answer; a query looks for such        *)
(* faults, and a clean-up forgets them.                                        *)
EXTENDS Integers

CONSTANTS
    MaxRanks,       \* VLLM_NIXL_EP_MAX_NUM_RANKS
    MaxManagers,    \* bound: managers made
    Regrows         \* a staged growth may give way to a larger one, uncommitted

ASSUME NixlAssumption ==
    /\ {MaxRanks, MaxManagers} \subseteq Nat \ {0} /\ Regrows \in BOOLEAN

VARIABLES
    world,      \* world_size of the manager in use
    manager,    \* its number; it has a store of that number
    store,      \* the store the buffer was given, or None
    made,       \* the buffer exists
    connected,  \* connected_ep_size
    active,     \* active_ep_size
    masked,     \* the buffer's mask
    lastShape,  \* the size of _last_mask, whose entries are zeros, or None
    answer,     \* what query_fault said, until the next operation
    did,        \* the last operation
    failed,     \* history: ranks the kernel gave up on, not yet forgotten
    forgot      \* history: a clean-up met ranks that were only staged

nixlVars == << world, manager, store, made, connected, active, masked, lastShape,
               answer, did, failed, forgot >>

None == -1
NixlRanks == 0..(MaxRanks - 1)
Below(n) == 0..(n - 1)
Between(lo, hi) == {r \in NixlRanks : lo <= r /\ r < hi}

NixlInit ==
    /\ world \in 1..MaxRanks /\ manager = 1
    /\ store = None /\ made = FALSE
    /\ connected = 0 /\ active = 0 /\ masked = {}
    /\ lastShape = None /\ answer = "none" /\ did = "manager"
    /\ failed = {} /\ forgot = FALSE

Said(op) == did' = op /\ answer' = "none"

\* The manager is destroyed, and made anew for another size: the buffer loses its
\* store.
NewManager(w) ==
    /\ made /\ manager < MaxManagers /\ w # world
    /\ Regrows \/ connected = active \/ w <= connected
    /\ world' = w /\ manager' = manager + 1
    /\ store' = None
    /\ Said("manager")
    /\ UNCHANGED << made, connected, active, masked, lastShape, failed, forgot >>

\* _init_buffer, in the first get_handle, which must not be a staging one.
InitBuffer ==
    /\ ~ made
    /\ made' = TRUE /\ store' = manager
    /\ connected' = world /\ active' = world
    /\ Said("commit")
    /\ UNCHANGED << world, manager, masked, lastShape, failed, forgot >>

\* get_handle(stage=True): a larger group is connected and stays masked; nothing is
\* disconnected.
Staged == IF world > connected THEN world ELSE connected

Stage ==
    /\ made
    /\ store' = IF Staged # connected THEN manager ELSE store
    /\ connected' = Staged
    /\ masked' = masked \cup Between(connected, Staged)
    /\ Said("stage")
    /\ UNCHANGED << world, manager, made, active, lastShape, failed, forgot >>

\* _disconnect_to_ep_size: what stays active is what stays connected.
Shrunk == IF active < world THEN active ELSE world

\* _connect_to_ep_size(make_active=True) activates what it connects, then or before
\* that _unmask_connected_ranks the ranks staged earlier.
Unmasked(from) == Between(from, world)

\* commit_staged_state, or get_handle without staging.
Commit ==
    /\ made
    /\ store' = manager
    /\ connected' = world
    /\ IF world < connected
       THEN /\ masked' = masked \ Unmasked(Shrunk)
            /\ active' = IF world > Shrunk THEN world ELSE Shrunk
       ELSE /\ masked' = IF world > connected THEN masked \ Between(connected, world)
                         ELSE masked \ Unmasked(active)
            /\ active' = IF world > active THEN world ELSE active
    /\ failed' = (failed \cap Below(world)) \ Between(active, world)
    /\ Said("commit")
    /\ UNCHANGED << world, manager, made, lastShape, forgot >>

\* The kernel gives up on an active rank.
Fail(r) ==
    /\ r \in Below(active) /\ r \notin masked
    /\ masked' = masked \cup {r} /\ failed' = failed \cup {r}
    /\ Said("fail")
    /\ UNCHANGED << world, manager, store, made, connected, active, lastShape, forgot >>

\* query_active_mask, of the active ranks only.
MutSeen == masked \cap Below(connected)
Seen == masked \cap Below(active)

\* query_fault: the mask against _last_mask, which is made again when the number of
\* ranks has changed.
Query ==
    /\ made
    /\ lastShape' = active
    /\ did' = "query"
    /\ answer' = (IF Seen # {} THEN "fault" ELSE "fine")
    /\ UNCHANGED << world, manager, store, made, connected, active, masked, failed, forgot >>

\* clean_buffers: the whole mask is zeroed.
Clean ==
    /\ made
    /\ masked' = {} /\ lastShape' = None
    /\ failed' = {} /\ forgot' = (forgot \/ active < connected)
    /\ Said("clean")
    /\ UNCHANGED << world, manager, store, made, connected, active >>

NixlNext ==
    \/ InitBuffer \/ Stage \/ Commit \/ Query \/ Clean
    \/ \E w \in 1..MaxRanks : NewManager(w)
    \/ \E r \in NixlRanks : Fail(r)

-----------------------------------------------------------------------------
(* Properties.                                                               *)

\* query_fault reports a rank that the kernel gave up on, until it is forgotten or
\* leaves, and never a rank that is only staged; while a larger group is staged the
\* new ranks take no part, unless a clean-up unmasked them; after a commit exactly
\* the group's ranks are connected, and all of them but the failed take part.
FaultsExact ==
    /\ answer # "none" => (answer = "fault" <=> failed \cap Below(active) # {})
    /\ ~ forgot => Between(active, connected) \subseteq masked
    /\ did = "commit" => connected = world /\ active = world /\ masked \cap Below(world) = failed

=============================================================================
