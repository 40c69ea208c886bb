------------------------------- MODULE Handles -------------------------------
(* The managers that keep communication buffers for the layers of a model:   *)
(* DeepEP's high-throughput, low-latency and v2 ones, and Mori's (all2all.py).*)
(*                                                                           *)
(* A layer asks its manager for a handle.  Layers whose buffers would be made *)
(* with the same arguments share one, so what a layer needs must follow from *)
(* the arguments alone; the number of SMs is no argument but a setting of the *)
(* library, read when a buffer is made and again at every kernel.  The       *)
(* low-latency manager also reports which ranks the kernels gave up on, from *)
(* the mask of the buffer it handed out last.                                *)
EXTENDS Integers, Sequences

CONSTANTS
    Setups,         \* [kind, layers, internode]: a backend and its model
    EnvSms,         \* values of VLLM_EP_NUM_SMS, with 20 for an unset one
    WantedSms,      \* what the callers of set_num_sms may ask for
    PeerRanks,      \* the ranks of the group
    LibrarySms      \* deep_ep.Buffer.num_sms before anyone set it

\* tokens per rank, hidden size, experts in all and of a rank, top_k, and whether
\* the dispatch is quantized.
Ask == [tokens : Nat, hidden : Nat, experts : Nat, local : Nat, topk : Nat, fp8 : BOOLEAN]

ASSUME HandlesAssumption ==
    /\ \A s \in Setups : /\ s.kind \in {"ht", "ll", "v2", "mori"}
                         /\ s.layers \in Seq(Ask) /\ s.internode \in BOOLEAN
    /\ \A n \in EnvSms : n \in Nat /\ n % 2 = 0
    /\ WantedSms \subseteq Nat /\ LibrarySms \in Nat

VARIABLES
    setup,      \* fixed
    sms,        \* the manager's num_sms, fixed
    librarySms, \* deep_ep.Buffer.num_sms
    handles,    \* handle_cache: arguments -> the SMs the buffer was made for
    given,      \* layer -> arguments of the handle it holds, or NoHandle
    theory,     \* _num_sms of the v2 manager, or 0
    last,       \* arguments of DeepEPLLAll2AllManager._buffer, or NoHandle
    gaveUp,     \* arguments -> the mask of that buffer
    fault       \* what query_fault said, until the next operation

handlesVars ==
    << setup, sms, librarySms, handles, given, theory, last, gaveUp, fault >>

NoHandle == << >>
Kind == setup.kind
Layers == setup.layers

HandlesInit ==
    /\ setup \in Setups
    /\ sms \in EnvSms
    /\ librarySms = LibrarySms
    /\ handles = << >>
    /\ given = [i \in DOMAIN Layers |-> NoHandle]
    /\ theory = 0
    /\ last = NoHandle /\ gaveUp = << >>
    /\ fault = "none"

-----------------------------------------------------------------------------
(* The arguments of a buffer.                                                *)

\* get_low_latency_rdma_size_hint, and get_theoretical_num_sms.
SizeHint(a) == a.tokens * a.hidden * a.experts
Theory(experts, topk) == experts * topk

Crosses == setup.internode
RdmaSize == IF Crosses THEN "as configured" ELSE "none"
QueuePairs == IF Crosses THEN sms \div 2 ELSE 1

\* _make_all2all_kwargs of each manager.
HtArguments == << RdmaSize, QueuePairs >>
LlArguments(a) == << SizeHint(a), a.local >>
V2Arguments(a) == << a.tokens, a.hidden, a.topk, a.fp8 >>
MoriArguments(a) == << a.tokens, a.hidden, a.local, a.topk, a.fp8 >>

Arguments(a) ==
    CASE Kind = "ht" -> HtArguments
      [] Kind = "ll" -> LlArguments(a)
      [] Kind = "v2" -> V2Arguments(a)
      [] Kind = "mori" -> MoriArguments(a)

\* Only the high-throughput manager sets the SMs, before it makes a buffer.
MutSmsAtMaking == librarySms
SmsAtMaking == IF Kind = "ht" THEN sms ELSE librarySms

-----------------------------------------------------------------------------
(* Operations.                                                               *)

\* handle_cache.get_or_create.
Extended(f, key, value) ==
    [k \in DOMAIN f \cup {key} |-> IF k \in DOMAIN f THEN f[k] ELSE value]

\* The low-latency manager's class attribute, and the v2 manager's number of SMs,
\* which its first layer settles.
Newest(key) == IF Kind = "ll" THEN key ELSE last
NumSms(a) == IF Kind = "v2" /\ theory = 0 THEN Theory(a.experts, a.topk) ELSE theory

GetHandle(i) ==
    LET key == Arguments(Layers[i]) IN
    /\ given[i] = NoHandle
    /\ given' = [given EXCEPT ![i] = key]
    /\ handles' = Extended(handles, key, SmsAtMaking)
    /\ gaveUp' = Extended(gaveUp, key, {})
    /\ librarySms' = IF Kind = "ht" THEN sms ELSE librarySms
    /\ last' = Newest(key)
    /\ theory' = NumSms(Layers[i])
    /\ fault' = "none"
    /\ UNCHANGED << setup, sms >>

\* set_num_sms, from either microbatch, at any time.
MutCapped(n) == n
Capped(n) == IF n > sms THEN sms ELSE n
SetNumSms(n) ==
    /\ Kind = "ht"
    /\ librarySms' = Capped(n)
    /\ fault' = "none"
    /\ UNCHANGED << setup, sms, handles, given, theory, last, gaveUp >>

\* A low-latency kernel on one of the buffers gives up on a rank.
GiveUp(key, r) ==
    /\ Kind = "ll"
    /\ r \notin gaveUp[key]
    /\ gaveUp' = [gaveUp EXCEPT ![key] = @ \cup {r}]
    /\ fault' = "none"
    /\ UNCHANGED << setup, sms, librarySms, handles, given, theory, last >>

\* query_fault, while the model's buffers are there.  _last_mask is
\* zeros and never set to what was seen, so a fault is reported until a clean-up.
QueryFault ==
    /\ last \in DOMAIN handles
    /\ fault' = IF gaveUp[last] # {} THEN "fault" ELSE "fine"
    /\ UNCHANGED << setup, sms, librarySms, handles, given, theory, last, gaveUp >>

\* clean_buffers.
CleanBuffers ==
    /\ last \in DOMAIN handles
    /\ gaveUp' = [gaveUp EXCEPT ![last] = {}]
    /\ fault' = "none"
    /\ UNCHANGED << setup, sms, librarySms, handles, given, theory, last >>

\* The manager is destroyed with its buffers, and another is made for another
\* model of the same group; the class attributes stay.
Destroy ==
    /\ handles # << >>
    /\ handles' = << >> /\ gaveUp' = << >>
    /\ given' = [i \in DOMAIN Layers |-> NoHandle]
    /\ theory' = 0
    /\ fault' = "none"
    /\ UNCHANGED << setup, sms, librarySms, last >>

HandlesNext ==
    \/ \E i \in DOMAIN Layers : GetHandle(i)
    \/ \E n \in WantedSms : SetNumSms(n)
    \/ \E key \in DOMAIN gaveUp : \E r \in PeerRanks : GiveUp(key, r)
    \/ QueryFault \/ CleanBuffers \/ Destroy

-----------------------------------------------------------------------------
(* Properties.                                                               *)

\* What a layer needs of the buffer it was handed.
Suits(a, key) ==
    CASE Kind = "ht" -> Crosses => key[2] >= librarySms \div 2
      [] Kind = "ll" -> key[1] >= SizeHint(a) /\ key[2] >= a.local
      [] Kind = "v2" -> /\ key[1] >= a.tokens /\ key[2] >= a.hidden
                        /\ theory = Theory(a.experts, a.topk)
      [] Kind = "mori" -> /\ key[1] >= a.tokens /\ key[2] >= a.hidden
                          /\ key[3] = a.local /\ key[4] = a.topk

\* Whatever other layers a layer shares its buffer with, and in whatever order the
\* layers ask and the callers change the SMs, the buffer is large enough for the
\* layer; no kernel runs with more SMs than any of its buffers was laid out for;
\* and a query reports a fault exactly while some kernel has given up on a rank
\* since the last clean-up.
HandlesRight ==
    /\ \A i \in DOMAIN Layers :
        given[i] # NoHandle => given[i] \in DOMAIN handles /\ Suits(Layers[i], given[i])
    /\ Kind = "ht" => \A key \in DOMAIN handles : librarySms <= handles[key]
    /\ fault # "none" => (fault = "fault" <=> \E k \in DOMAIN gaveUp : gaveUp[k] # {})

=============================================================================
