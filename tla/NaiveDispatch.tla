------------------------------ MODULE NaiveDispatch ------------------------------
(* Dispatch by all-gather and combine by reduce-scatter: AgRsAll2AllManager      *)
(* (all2all.py) under the naive prepare and finalize (naive_dp_ep.py) or under   *)
(* the runner's own dispatch and combine (runner/moe_runner.py), and the         *)
(* all-reduce over tensor-parallel ranks with which a layer ends.                *)
(*                                                                               *)
(* A rank is << dp, pcp, tp >>.  The experts are spread over all of them, so     *)
(* every token needs an answer from each rank, once, by whatever groups the      *)
(* collectives run in.  A row of a tensor is the token it belongs to.            *)
EXTENDS Integers, Sequences, FiniteSetsExt, SequencesExt

CONSTANTS
    Layouts,    \* layouts considered: [dp, pcp, tp, sp, path, scale, lora]
    MaxBatch,   \* bound: tokens of a data-parallel rank
    Forwards    \* bound: layers run

\* Not both dp and pcp: the two groups are then entered and left in the same order,
\* which no sizes fit, or the second is not entered at all.
ASSUME DispatchAssumption ==
    /\ MaxBatch \in Nat /\ Forwards \in Nat \ {0}
    /\ Layouts \subseteq
        [dp : Nat \ {0}, pcp : Nat \ {0}, tp : Nat \ {0}, sp : BOOLEAN,
         path : {"modular", "monolithic", "runner"},
         scale : {"rows", "static", "deferred"}, lora : BOOLEAN]
    /\ \A l \in Layouts :
        /\ l.dp = 1 \/ l.pcp = 1
        /\ l.sp => l.pcp = 1
        /\ l.lora => l.path = "modular"
        /\ l.path = "runner" => l.scale = "deferred"

VARIABLES
    layout,
    batches,    \* forward -> data-parallel rank -> tokens
    forward,    \* rank -> its forward
    stage,      \* rank -> where in it
    sent,       \* rank -> the tensors it hands to the collective
    got,        \* rank -> what it makes of the gathered ones
    results     \* rank -> rows of the experts' output: token, and counts by rank

dispatchVars == << layout, batches, forward, stage, sent, got, results >>

Members == (0..(layout.dp - 1)) \X (0..(layout.pcp - 1)) \X (0..(layout.tp - 1))

Total(f, S) == MapThenSumSet(LAMBDA x : f[x], S)

-----------------------------------------------------------------------------
(* Tokens.  They are the same on all tensor-parallel ranks, unless sequence  *)
(* parallelism cuts them, which pads them to equal chunks.                   *)

CeilDiv(a, b) == (a + b - 1) \div b
Cut(n) == IF layout.sp THEN CeilDiv(n, layout.tp) ELSE n
Count(r) == Cut(batches[forward[r]][r[1]])
Token(r, i) == << forward[r], r[1], r[2], IF layout.sp THEN r[3] ELSE 0, i >>
Tokens(r) == [i \in 1..Count(r) |-> Token(r, i)]

-----------------------------------------------------------------------------
(* AgRsAll2AllManager.                                                       *)

\* _get_comm_group.
CommGroup(r) ==
    IF layout.sp THEN Members
    ELSE IF layout.dp > 1 THEN {q \in Members : q[2] = r[2] /\ q[3] = r[3]}
    ELSE {q \in Members : q[1] = r[1] /\ q[3] = r[3]}

\* world_size, rank_in_group and the j-th rank of the group, which is in the order
\* of the ranks.
WorldSize ==
    IF layout.sp THEN layout.dp * layout.tp
    ELSE IF layout.dp > 1 THEN layout.dp ELSE layout.pcp
Index(r) ==
    IF layout.sp THEN layout.tp * r[1] + r[3]
    ELSE IF layout.dp > 1 THEN r[1] ELSE r[2]
Peer(r, j) ==
    IF layout.sp THEN << j \div layout.tp, 0, j % layout.tp >>
    ELSE IF layout.dp > 1 THEN << j, r[2], r[3] >> ELSE << r[1], j, r[3] >>

\* The sizes that the forward context keeps: per data-parallel rank, or per chunk.
ChunkSizes(f) ==
    LET chunks == IF layout.sp THEN layout.tp ELSE 1
    IN  [j \in 0..(layout.dp * chunks - 1) |-> Cut(batches[f][j \div chunks])]

\* _get_sizes.
GetSizes(r, n) ==
    IF layout.dp = 1 THEN [j \in 0..(WorldSize - 1) |-> n] ELSE ChunkSizes(forward[r])

\* The rows of the j-th rank lie behind those of the ranks before it.
Offset(sizes, j) == Total(sizes, 0..(j - 1))

\* A row that nobody sent.
Junk == << >>

\* all_gatherv: column c of the tensors that the group sent.
Gathered(r, c) ==
    LET sizes == GetSizes(r, Count(r))
        Sender(i) == CHOOSE j \in 0..(WorldSize - 1) :
                        Offset(sizes, j) < i /\ i <= Offset(sizes, j) + sizes[j]
        Row(i) == LET rows == sent[Peer(r, Sender(i))][c].rows
                      k == i - Offset(sizes, Sender(i))
                  IN  IF k <= Len(rows) THEN rows[k] ELSE Junk
    IN  [what |-> sent[r][c].what, rows |-> [i \in 1..Offset(sizes, WorldSize) |-> Row(i)]]

-----------------------------------------------------------------------------
(* Prepare and finalize.                                                     *)

Tensor(what, r) == [what |-> what, rows |-> Tokens(r)]

\* _quantize_and_setup_dispatch: a scalar scale and a deferred one are not gathered.
Scales(r) == IF layout.scale = "rows" THEN << Tensor("scale", r) >> ELSE << >>
LoraIds(r) == IF layout.lora THEN << Tensor("lora", r) >> ELSE << >>
Routing(r) == IF layout.path = "modular" THEN << Tensor("weights", r), Tensor("ids", r) >>
              ELSE << Tensor("logits", r) >>

Tensors(r) == << Tensor("hidden", r) >> \o Routing(r) \o Scales(r) \o LoraIds(r)

Prepare(r) ==
    /\ stage[r] = "prepare"
    /\ sent' = [sent EXCEPT ![r] = Tensors(r)]
    /\ stage' = [stage EXCEPT ![r] =
                    IF GetSizes(r, Count(r))[Index(r)] = Count(r) THEN "dispatch" ELSE "assertion"]
    /\ UNCHANGED << layout, batches, forward, got, results >>

\* What each gathered tensor is taken for: the LoRA ids are popped from the end, and
\* the one that is left is the scale.
MutUnpacked(columns, first) ==
    LET extras == SubSeq(columns, first, Len(columns))
    IN  [hidden |-> columns[1], routing |-> SubSeq(columns, 2, first - 1),
         lora |-> IF layout.lora THEN << Head(extras) >> ELSE << >>,
         scales |-> IF layout.lora THEN Tail(extras) ELSE extras]
Unpacked(columns, first) ==
    LET extras == SubSeq(columns, first, Len(columns))
    IN  [hidden |-> columns[1], routing |-> SubSeq(columns, 2, first - 1),
         lora |-> IF layout.lora THEN << Last(extras) >> ELSE << >>,
         scales |-> IF layout.lora THEN Front(extras) ELSE extras]

Dispatch(r) ==
    /\ \A q \in CommGroup(r) : stage[q] = "dispatch"
    /\ got' = [q \in Members |->
                IF q \in CommGroup(r)
                THEN Unpacked([c \in DOMAIN sent[q] |-> Gathered(q, c)], 2 + Len(Routing(q)))
                ELSE got[q]]
    /\ stage' = [q \in Members |-> IF q \in CommGroup(r) THEN "experts" ELSE stage[q]]
    /\ UNCHANGED << layout, batches, forward, sent, results >>

\* Everything the experts use of a row must be that row's.
IsOf(t, columns, names, i) ==
    \A c \in DOMAIN columns :
        columns[c].what \in names /\ i \in DOMAIN columns[c].rows /\ columns[c].rows[i] = t

By(r) == [q \in Members |-> IF q = r THEN 1 ELSE 0]
Experts(r) ==
    /\ stage[r] = "experts"
    /\ LET g == got[r]
           Fed(i, t) ==
               /\ IsOf(t, g.routing, {"weights", "ids", "logits"}, i)
               /\ Len(g.scales) = Len(Scales(r)) /\ IsOf(t, g.scales, {"scale"}, i)
               /\ IsOf(t, g.lora, {"lora"}, i)
       IN  results' = [results EXCEPT ![r] = [i \in DOMAIN g.hidden.rows |->
                LET t == g.hidden.rows[i]
                IN  [token |-> IF Fed(i, t) THEN t ELSE Junk, counts |-> By(r)]]]
    /\ stage' = [stage EXCEPT ![r] = "combine"]
    /\ UNCHANGED << layout, batches, forward, sent, got >>

\* The sum of the rows that the members of G hold at i, which are rows of one token.
RowSum(G, i) ==
    LET tokens == {results[q][i].token : q \in G}
        Counts(m) == [q \in G |-> results[q][i].counts[m]]
    IN  [token |-> IF Cardinality(tokens) = 1 THEN CHOOSE t \in tokens : TRUE ELSE Junk,
         counts |-> [m \in Members |-> Total(Counts(m), G)]]

\* reduce_scatterv; the rows are divided by the size of the group when there are no
\* chunk sizes.
Combine(r) ==
    LET G == CommGroup(r)
        Shard(q) ==
            LET sizes == GetSizes(q, Len(results[q]) \div WorldSize)
            IN  [i \in 1..sizes[Index(q)] |-> RowSum(G, Offset(sizes, Index(q)) + i)]
    IN  /\ \A q \in G : stage[q] = "combine"
        /\ results' = [q \in Members |-> IF q \in G THEN Shard(q) ELSE results[q]]
        /\ stage' = [q \in Members |-> IF q \in G THEN "reduce" ELSE stage[q]]
        /\ UNCHANGED << layout, batches, forward, sent, got >>

\* The runner's final all-reduce, not under sequence parallelism.
ReduceGroup(r) == IF layout.sp THEN {r} ELSE {q \in Members : q[1] = r[1] /\ q[2] = r[2]}

Reduce(r) ==
    LET G == ReduceGroup(r)
    IN  /\ \A q \in G : stage[q] = "reduce"
        /\ results' = [q \in Members |->
                IF q \in G THEN [i \in DOMAIN results[q] |-> RowSum(G, i)] ELSE results[q]]
        /\ stage' = [q \in Members |-> IF q \in G THEN "home" ELSE stage[q]]
        /\ UNCHANGED << layout, batches, forward, sent, got >>

NextLayer(r) ==
    /\ stage[r] = "home" /\ forward[r] < Forwards
    /\ forward' = [forward EXCEPT ![r] = @ + 1]
    /\ stage' = [stage EXCEPT ![r] = "prepare"]
    /\ UNCHANGED << layout, batches, sent, got, results >>

DispatchInit ==
    /\ layout \in Layouts
    /\ batches \in [1..Forwards -> [0..(layout.dp - 1) -> 0..MaxBatch]]
    /\ forward = [r \in Members |-> 1]
    /\ stage = [r \in Members |-> "prepare"]
    /\ sent = [r \in Members |-> << >>]
    /\ got = [r \in Members |-> << >>]
    /\ results = [r \in Members |-> << >>]

AllHome == \A r \in Members : stage[r] = "home" /\ forward[r] = Forwards

DispatchNext ==
    \/ \E r \in Members :
        \/ Prepare(r) \/ Dispatch(r) \/ Experts(r) \/ Combine(r) \/ Reduce(r) \/ NextLayer(r)
    \/ AllHome /\ UNCHANGED dispatchVars

-----------------------------------------------------------------------------
(* Properties.                                                               *)

\* Every rank gets its own tokens back in its own order, each with one answer of every
\* rank that holds experts, given on its own routing, scale and LoRA id; no rank's
\* count contradicts the sizes.
RoundTrip ==
    \A r \in Members :
        /\ stage[r] # "assertion"
        /\ stage[r] = "home" =>
            results[r] = [i \in 1..Count(r) |->
                [token |-> Token(r, i), counts |-> [q \in Members |-> 1]]]

=============================================================================
